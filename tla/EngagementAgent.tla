--------------------------- MODULE EngagementAgent ---------------------------
(***************************************************************************)
(* Interventions of agent-service: the signal collector detects an anomaly *)
(* in a session, the rate limiter lets it through, an agent per session    *)
(* decides (agents/engagement_conductor.py), the decision is executed or   *)
(* waits for an organizer, and the outcome is to train the bandit.         *)
(*                                                                         *)
(* One event loop runs everything and gives way at each await.  The        *)
(* collector goes through its sessions one after the other; organizers'    *)
(* requests interleave with it.  Decisions that wait live in the memory of *)
(* the session's agent and, as a copy, in Redis; a copy read back from     *)
(* Redis is not what was stored, see `Intact'.                             *)
(***************************************************************************)
EXTENDS Integers, FiniteSets

CONSTANTS
    AgentSessions,  \* sessions of one event
    MaxRuns,        \* anomalies that the bound admits, each a run of an agent
    Approvers,      \* requests of organizers to approve or dismiss
    Limiters,       \* Limiters[l]: slots and span of "short", "medium", "long"
    MaxPerHour,     \* max_interventions_per_hour of the event
    ApprovalTTL,    \* PENDING_APPROVAL_TTL_SECONDS
    LastTick,       \* the clock stops there
    MaxChanges,     \* registrations and changes of mode by organizers
    MaxRestarts,    \* restarts of the service
    Nobody          \* no run, no mode, no request

ASSUME AgentTimesAssumption ==
    {MaxPerHour, ApprovalTTL, LastTick, MaxRuns, MaxChanges,
     MaxRestarts} \subseteq Nat
ASSUME LimitersAssumption ==
    Limiters \in [{"short", "medium", "long"} -> [slots : Nat, span : Nat]]
ASSUME NobodyAssumption == Nobody \notin Nat

VARIABLES
    clock,
    config,     \* config[s]: the mode registered for s, or Nobody
    storedMode, \* EventAgentSettings.agent_mode of the event, or Nobody
    agents,     \* sessions that have an agent in memory
    collector,  \* what the collector is at, or Nobody
    slots,      \* what the rate limiters remember
    runs,       \* anomalies that came so far; runs are numbered by them
    waiting,    \* waiting[s]: the decision in memory of the agent of s
    stored,     \* stored[s]: its copy in Redis
    request,    \* request[q]: what request q is at
    organizer,  \* the change of mode under way, or Nobody
    changes,    \* registrations and changes of mode so far
    saved,      \* runs whose reward waits in Redis (the agent's own list of
                \* them is left out: the loop that would read it never starts)
    recovered,  \* runs whose reward the global conductor read back at start
    learnt,     \* runs whose outcome has reached the bandit
    executed,   \* executed[r]: interventions executed by run r
    dismissed,  \* runs that an organizer dismissed while they were waiting
    restarts

memory == <<config, agents, waiting, slots>>
organizing == <<organizer, changes>>
rewards == <<saved, recovered, learnt>>
agentVars == <<clock, config, storedMode, agents, collector, slots,
               runs, waiting, stored, request, organizer, changes,
               saved, recovered, learnt, executed, dismissed, restarts>>

Modes == {"MANUAL", "SEMI_AUTO", "AUTO"}
Runs == 1 .. MaxRuns
Decisions == [run : Runs, at : Nat]
IdleRequest == [at |-> "new", session |-> Nobody, approve |-> FALSE,
                run |-> Nobody, intact |-> FALSE]

AgentInit ==
    /\ clock = 0
    /\ config = [s \in AgentSessions |-> Nobody]
    /\ storedMode = Nobody
    /\ agents = {}
    /\ collector = Nobody
    /\ slots = {}
    /\ runs = 0
    /\ waiting = [s \in AgentSessions |-> Nobody]
    /\ stored = [s \in AgentSessions |-> Nobody]
    /\ request = [q \in Approvers |-> IdleRequest]
    /\ organizer = Nobody
    /\ changes = 0
    /\ saved = {} /\ recovered = {} /\ learnt = {}
    /\ executed = [r \in Runs |-> 0]
    /\ dismissed = {}
    /\ restarts = 0

CollectorAt(step) == collector # Nobody /\ collector.at = step

-----------------------------------------------------------------------------
(* The collector: anomaly, rate limits, registration.  The cooldown of an   *)
(* anomaly's type is left out: an anomaly of another type passes it.        *)

DetectAnomaly(s) ==
    /\ collector = Nobody
    /\ runs < MaxRuns
    /\ runs' = runs + 1
    /\ collector' = [at |-> "limits", session |-> s, run |-> runs + 1,
                     mode |-> Nobody, orphan |-> FALSE]
    /\ UNCHANGED <<clock, config, storedMode, agents, slots, waiting, stored,
                   request, organizing, rewards, executed, dismissed, restarts>>

\* The "long" limiter counts per event, the others per session.
Live(l, s) ==
    {x \in slots : /\ x.limiter = l
                   /\ x.time >= clock - Limiters[l].span
                   /\ l # "long" => x.session = s}

HasSlot(l, s) == Cardinality(Live(l, s)) < Limiters[l].slots

\* Mutant: one intervention more than the event allows.
HourlyCapIgnoresLast(s) ==
    /\ MaxPerHour < Limiters["long"].slots
    /\ Cardinality(Live("long", s)) > MaxPerHour

HourlyCapReached(s) ==
    /\ MaxPerHour < Limiters["long"].slots
    /\ Cardinality(Live("long", s)) >= MaxPerHour

\* The limiters that record the intervention: a limiter that refuses does not
\* give back what the earlier ones recorded.
Recording(s) ==
    {l \in {"short", "medium", "long"} :
        /\ ~HourlyCapReached(s)
        /\ HasSlot("short", s)
        /\ l # "short" => HasSlot("medium", s)
        /\ l = "long" => HasSlot("long", s)}

IsInterventionAllowed ==
    /\ CollectorAt("limits")
    /\ LET s == collector.session
           passed == Recording(s)
       IN  /\ slots' = slots \cup
                {[limiter |-> l, session |-> s, run |-> collector.run,
                  time |-> clock] : l \in passed}
           /\ collector' = IF passed = {"short", "medium", "long"}
                           THEN [collector EXCEPT !.at = "registered"]
                           ELSE Nobody
    /\ UNCHANGED <<clock, config, storedMode, agents, runs, waiting,
                   stored, request, organizing, rewards, executed, dismissed,
                   restarts>>

\* Not registered: the mode of the event is read from the database ...
ReadEventMode ==
    /\ CollectorAt("registered")
    /\ config[collector.session] = Nobody
    /\ collector' = [collector EXCEPT
            !.at = "register",
            !.mode = IF storedMode = Nobody THEN "SEMI_AUTO" ELSE storedMode]
    /\ UNCHANGED <<clock, memory, storedMode, runs, stored, request,
                   organizing, rewards, executed, dismissed, restarts>>

\* ... and registered, whatever was registered meanwhile; the run starts in
\* the mode that is registered when it starts.
RunAgent ==
    /\ \/ CollectorAt("register")
       \/ CollectorAt("registered") /\ config[collector.session] # Nobody
    /\ LET s == collector.session
           mode == IF collector.at = "register" THEN collector.mode ELSE config[s]
       IN  /\ config' = [config EXCEPT ![s] = mode]
           /\ agents' = agents \cup {s}
           /\ collector' = [collector EXCEPT !.at = "decide", !.mode = mode]
    /\ UNCHANGED <<clock, storedMode, slots, runs, waiting, stored,
                   request, organizing, rewards, executed, dismissed, restarts>>

-----------------------------------------------------------------------------
(* The agent of the session: decide, approval, act, learn                  *)

\* The confidence is below min_confidence_threshold.
SkipIntervention ==
    /\ CollectorAt("decide")
    /\ collector' = Nobody
    /\ UNCHANGED <<clock, memory, storedMode, runs, stored, request,
                   organizing, rewards, executed, dismissed, restarts>>

\* confident: the confidence reaches auto_approve_threshold.
CheckApproval(confident) ==
    /\ CollectorAt("decide")
    /\ collector' = [collector EXCEPT
            !.at = IF \/ collector.mode = "AUTO"
                      \/ collector.mode = "SEMI_AUTO" /\ confident
                   THEN "act" ELSE "wait"]
    /\ UNCHANGED <<clock, memory, storedMode, runs, stored, request,
                   organizing, rewards, executed, dismissed, restarts>>

\* The decision replaces the one that was waiting.  An agent that was removed
\* under the run keeps it to itself.
AddPendingApproval ==
    /\ CollectorAt("wait")
    /\ LET s == collector.session
       IN  waiting' = IF collector.orphan
                      THEN waiting
                      ELSE [waiting EXCEPT ![s] = [run |-> collector.run,
                                                   at |-> clock]]
    /\ collector' = [collector EXCEPT !.at = "save"]
    /\ UNCHANGED <<clock, config, storedMode, agents, slots, runs,
                   stored, request, organizing, rewards, executed, dismissed,
                   restarts>>

\* An error of Redis is logged and swallowed.
SavePendingApproval(works) ==
    /\ CollectorAt("save")
    /\ stored' = IF works
                 THEN [stored EXCEPT ![collector.session] =
                          [run |-> collector.run, at |-> clock]]
                 ELSE stored
    /\ collector' = Nobody
    /\ UNCHANGED <<clock, memory, storedMode, runs, request,
                   organizing, rewards, executed, dismissed, restarts>>

\* Act, then learn: what was executed waits for its reward, what failed
\* reaches the bandit at once.
Execute(r) == executed' = [executed EXCEPT ![r] = @ + 1]

Learn(r, success, persists) ==
    /\ saved' = IF success /\ persists THEN saved \cup {r} ELSE saved
    /\ learnt' = IF success THEN learnt ELSE learnt \cup {r}
    /\ UNCHANGED recovered

ActOnOwn(success) ==
    /\ CollectorAt("act")
    /\ IF success THEN Execute(collector.run) ELSE UNCHANGED executed
    /\ collector' = [collector EXCEPT !.at = IF success THEN "learn" ELSE "failed"]
    /\ UNCHANGED <<clock, memory, storedMode, runs, stored, request,
                   organizing, rewards, dismissed, restarts>>

LearnFromOwn(persists) ==
    /\ CollectorAt("learn") \/ CollectorAt("failed")
    /\ Learn(collector.run, collector.at = "learn", persists)
    /\ collector' = Nobody
    /\ UNCHANGED <<clock, memory, storedMode, runs, stored, request,
                   organizing, executed, dismissed, restarts>>

-----------------------------------------------------------------------------
(* Organizers: approve_decision, reject_decision                           *)

Fresh(decision) == clock - decision.at <= ApprovalTTL

At(q, step) == request[q].at = step

Answered(q) == [request EXCEPT ![q] = [IdleRequest EXCEPT !.at = "answered"]]

\* The agent's memory is asked and, when it knows the decision, cleared before
\* anything is awaited.
TakeFromMemory(q, s, approve) ==
    /\ At(q, "new")
    /\ s \in agents
    /\ request' = [request EXCEPT ![q] =
            IF waiting[s] = Nobody
            THEN [IdleRequest EXCEPT !.at = "fetch", !.session = s,
                                     !.approve = approve]
            ELSE [at |-> IF Fresh(waiting[s]) THEN "delete" ELSE "expired",
                  session |-> s, approve |-> approve,
                  run |-> waiting[s].run, intact |-> TRUE]]
    /\ waiting' = [waiting EXCEPT ![s] = Nobody]
    /\ dismissed' = IF waiting[s] # Nobody /\ ~approve /\ Fresh(waiting[s])
                    THEN dismissed \cup {waiting[s].run} ELSE dismissed
    /\ UNCHANGED <<clock, config, storedMode, agents, collector, slots,
                   runs, stored, organizing, rewards, executed,
                   restarts>>

\* Mutant: reading back restores the anomaly and the context.
RestoresObjects(fromRedis) == TRUE

\* _deserialize_state leaves the anomaly and the context as dicts, on which
\* acting and learning fail.
Intact(fromRedis) == ~fromRedis

\* What Redis holds goes through the memory of the agent and replaces what
\* came meanwhile; approving removes it there at once.
FetchFromRedis(q, works) ==
    /\ At(q, "fetch")
    /\ LET s == request[q].session
       IN  IF works /\ stored[s] # Nobody /\ Fresh(stored[s])
           THEN /\ request' = [request EXCEPT ![q].at = "delete",
                                              ![q].run = stored[s].run,
                                              ![q].intact = Intact(TRUE)]
                /\ waiting' = [waiting EXCEPT ![s] = Nobody]
           ELSE /\ request' = Answered(q)
                /\ UNCHANGED waiting
    /\ UNCHANGED <<clock, config, storedMode, agents, collector, slots,
                   runs, stored, organizing, rewards, executed,
                   dismissed, restarts>>

\* An error of Redis is logged and swallowed.
RemoveFromRedis(q, works) ==
    /\ At(q, "delete") \/ At(q, "expired")
    /\ stored' = IF works
                 THEN [stored EXCEPT ![request[q].session] = Nobody]
                 ELSE stored
    /\ request' = IF At(q, "delete") /\ request[q].approve
                  THEN [request EXCEPT ![q].at = "act"] ELSE Answered(q)
    /\ UNCHANGED <<clock, memory, storedMode, collector, runs,
                   organizing, rewards, executed, dismissed, restarts>>

\* A decision that is not intact fails in the act node, and again, with an
\* error for the organizer, in the learn node.
ActOnApproval(q, success) ==
    /\ At(q, "act")
    /\ success => request[q].intact
    /\ IF success THEN Execute(request[q].run) ELSE UNCHANGED executed
    /\ request' = IF request[q].intact
                  THEN [request EXCEPT ![q].at = IF success THEN "learn" ELSE "failed"]
                  ELSE Answered(q)
    /\ UNCHANGED <<clock, memory, storedMode, collector, runs,
                   stored, organizing, rewards, dismissed, restarts>>

LearnFromApproval(q, persists) ==
    /\ At(q, "learn") \/ At(q, "failed")
    /\ Learn(request[q].run, At(q, "learn"), persists)
    /\ request' = Answered(q)
    /\ UNCHANGED <<clock, memory, storedMode, collector, runs,
                   stored, organizing, executed, dismissed, restarts>>

-----------------------------------------------------------------------------
(* Organizers: register, unregister, change the mode                       *)

OrganizerActs == changes < MaxChanges /\ changes' = changes + 1

\* register_session of the API registers MANUAL, also over another mode.
CreateAgent(s) ==
    /\ config' = [config EXCEPT ![s] = "MANUAL"]
    /\ agents' = agents \cup {s}

RegisterForAgent(s) ==
    /\ CreateAgent(s)
    /\ OrganizerActs
    /\ UNCHANGED <<clock, storedMode, collector, slots, runs,
                   waiting, stored, request, organizer, rewards, executed,
                   dismissed, restarts>>

\* The copy of its decision in Redis stays; rewards that the agent held in
\* memory are lost with it.
UnregisterFromAgent(s) ==
    /\ OrganizerActs
    /\ config[s] # Nobody
    /\ config' = [config EXCEPT ![s] = Nobody]
    /\ agents' = agents \ {s}
    /\ waiting' = [waiting EXCEPT ![s] = Nobody]
    /\ collector' = IF /\ collector # Nobody /\ collector.session = s
                       /\ collector.at \in {"decide", "wait"}
                    THEN [collector EXCEPT !.orphan = TRUE]
                    ELSE collector
    /\ UNCHANGED <<clock, storedMode, slots, runs, stored, request,
                   organizer, rewards, executed, dismissed, restarts>>

\* The mode changes in memory first, then in the database.
ChangeMode(s, mode) ==
    /\ organizer = Nobody
    /\ OrganizerActs
    /\ config' = [config EXCEPT ![s] = mode]
    /\ agents' = agents \cup {s}
    /\ organizer' = mode
    /\ UNCHANGED <<clock, storedMode, collector, slots, runs,
                   waiting, stored, request, rewards, executed, dismissed,
                   restarts>>

PersistMode(works) ==
    /\ organizer # Nobody
    /\ storedMode' = IF works THEN organizer ELSE storedMode
    /\ organizer' = Nobody
    /\ UNCHANGED <<clock, memory, collector, changes, runs, stored, request,
                   rewards, executed, dismissed, restarts>>

-----------------------------------------------------------------------------
(* Delayed rewards, restarts and time                                      *)

\* The loop that measures rewards runs in the global conductor alone, and the
\* global conductor schedules none: it has those it read back at start.
MeasureDelayedReward(r) ==
    /\ r \in recovered
    /\ learnt' = IF Intact(TRUE) THEN learnt \cup {r} ELSE learnt
    /\ recovered' = recovered \ {r}
    /\ saved' = saved \ {r}
    /\ UNCHANGED <<clock, memory, storedMode, collector, runs,
                   stored, request, organizing, executed, dismissed, restarts>>

\* Memory is lost, requests break off; the decisions that the global conductor
\* reads back are out of reach of the sessions' agents.
RestartAgents ==
    /\ restarts < MaxRestarts
    /\ restarts' = restarts + 1
    /\ config' = [s \in AgentSessions |-> Nobody]
    /\ agents' = {}
    /\ waiting' = [s \in AgentSessions |-> Nobody]
    /\ slots' = {}
    /\ collector' = Nobody
    /\ organizer' = Nobody
    /\ request' = [q \in Approvers |->
            IF At(q, "new") THEN IdleRequest ELSE Answered(q)[q]]
    /\ recovered' = saved
    /\ UNCHANGED <<clock, storedMode, changes, runs, stored, saved, learnt,
                   executed, dismissed>>

AgentTick ==
    /\ clock < LastTick
    /\ clock' = clock + 1
    /\ UNCHANGED <<memory, storedMode, collector, runs, stored,
                   request, organizing, rewards, executed, dismissed, restarts>>

-----------------------------------------------------------------------------

CollectorStep ==
    \/ IsInterventionAllowed \/ ReadEventMode \/ RunAgent
    \/ SkipIntervention \/ AddPendingApproval
    \/ \E b \in BOOLEAN : \/ CheckApproval(b) \/ SavePendingApproval(b)
                          \/ ActOnOwn(b) \/ LearnFromOwn(b)

RequestStep(q) ==
    \E b \in BOOLEAN : \/ FetchFromRedis(q, b) \/ RemoveFromRedis(q, b)
                       \/ ActOnApproval(q, b) \/ LearnFromApproval(q, b)

AgentNext ==
    \/ \E s \in AgentSessions :
          \/ DetectAnomaly(s) \/ RegisterForAgent(s) \/ UnregisterFromAgent(s)
          \/ \E mode \in Modes : ChangeMode(s, mode)
          \/ \E q \in Approvers, b \in BOOLEAN : TakeFromMemory(q, s, b)
    \/ CollectorStep
    \/ \E q \in Approvers : RequestStep(q)
    \/ \E b \in BOOLEAN : PersistMode(b)
    \/ \E r \in Runs : MeasureDelayedReward(r)
    \/ RestartAgents
    \/ AgentTick

AgentSpec == AgentInit /\ [][AgentNext]_agentVars

-----------------------------------------------------------------------------
(* Properties                                                              *)

\* The type invariant.
AgentTypeOK ==
    /\ clock \in 0 .. LastTick
    /\ config \in [AgentSessions -> Modes \cup {Nobody}]
    /\ storedMode \in Modes \cup {Nobody}
    /\ agents \subseteq AgentSessions
    /\ runs \in 0 .. MaxRuns
    /\ waiting \in [AgentSessions -> Decisions \cup {Nobody}]
    /\ stored \in [AgentSessions -> Decisions \cup {Nobody}]
    /\ saved \cup recovered \cup learnt \cup dismissed \subseteq Runs
    /\ executed \in [Runs -> Nat]

\* However organizers' requests, a Redis that fails, restarts and new
\* registrations interleave, a decision is settled once: it is executed at
\* most once, and not at all when an organizer dismissed it.  (approve_
\* intervention removes the decision before it acts; a copy that survives in
\* Redis is found again but cannot be executed.)
DecidedOnce ==
    \A r \in Runs : executed[r] + (IF r \in dismissed THEN 1 ELSE 0) <= 1

\* Within one span of the hourly limiter, the service starts no more runs for
\* the event than max_interventions_per_hour, over all its sessions, as long
\* as it does not restart.
EventHourlyCap ==
    \A t \in 0 .. LastTick :
        Cardinality({x \in slots : /\ x.limiter = "long"
                                   /\ t <= x.time
                                   /\ x.time <= t + Limiters["long"].span})
            <= MaxPerHour
=============================================================================
