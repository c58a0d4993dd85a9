---------------------------- MODULE PlatformProofs ----------------------------
(***************************************************************************)
(* Theorems about EngagementAgent and RfpLifecycle for every number of     *)
(* runs, organizers, RFPs, venues and restarts: a decision of an agent is  *)
(* settled once, the event's hourly cap is kept, and what organizers       *)
(* decide about a venue follows its response, of which no two are awarded  *)
(* while requests take turns.  At the end, about MCPlatform: each          *)
(* component in it obeys the component's specification.                    *)
(***************************************************************************)
EXTENDS MCPlatform, RoomsProofs, GamesProofs, FiniteSetTheorems, TLAPS

-----------------------------------------------------------------------------
(* Decisions on venues follow their responses *)

Answering == {"responded", "shortlisted", "awarded", "declined"}

\* Who is in the comparison, or decided on, has a response on record.
AnswersOnRecord ==
    \A f \in Rfps, v \in InvitedVenues :
        invitation[f][v] \in Answering => v \in answers[f]

\* A request that decides on a venue has a response of it, until the venue or
\* the RFP is deleted, which makes the request fail.
Follows(call) ==
    /\ call.op \in {"shortlist", "award", "decline"} =>
          call.venue \in answers[call.rfp]
    /\ call.op = "declineOthers" =>
          call.rest \ {"none"} \subseteq answers[call.rfp]

RequestsFollowAnswers == \A c \in RfpRequests : Follows(rfpCall[c])

CallTypes ==
    [op : {"idle", "awardRfp", "declineOthers", "commit"} \cup RfpOps \cup VenueOps,
     rfp : Rfps \cup {"none"}, venue : InvitedVenues \cup {"none"},
     seen : ActiveRfp \cup TerminalRfp \cup {"absent", "none"},
     rest : SUBSET (InvitedVenues \cup {"none"}),
     verdict : {"none", "review", "collecting_responses"}]

TaskTypes == [batch : SUBSET Rfps, rfp : Rfps \cup {"none"},
              at : {"load", "counted", "marked"}, heard : BOOLEAN]

\* A request at work has its operands.
HasOperands(call) ==
    /\ call.op # "idle" => call.rfp \in Rfps
    /\ call.op \notin RfpOps \cup {"idle"} => call.venue \in InvitedVenues

RequestsTyped ==
    /\ rfpCall \in [RfpRequests -> CallTypes]
    /\ \A c \in RfpRequests : HasOperands(rfpCall[c])

RfpTypes == RfpTypeOK /\ RequestsTyped

RfpInv == RfpTypes /\ AnswersOnRecord /\ RequestsFollowAnswers

\* One request goes on, and no response is taken back.
LEMMA RequestMoves ==
    ASSUME RfpInv, NEW c \in RfpRequests, NEW call \in CallTypes,
           HasOperands(call), rfpCall' = [rfpCall EXCEPT ![c] = call],
           Follows(call)', \A f \in Rfps : answers[f] \subseteq answers'[f]
    PROVE  RequestsTyped' /\ RequestsFollowAnswers'
<1>1. rfpCall \in [RfpRequests -> CallTypes] /\ \A d \in RfpRequests : HasOperands(rfpCall[d])
  BY DEF RfpInv, RfpTypes, RequestsTyped
<1>2. \A d \in RfpRequests : rfpCall'[d] = IF d = c THEN call ELSE rfpCall[d]
  BY <1>1
<1>3. RequestsTyped'
  BY <1>1, <1>2 DEF RequestsTyped, HasOperands
<1>4. ASSUME NEW d \in RfpRequests PROVE Follows(rfpCall[d])'
  <2>1. CASE d = c
    BY <1>2, <2>1 DEF Follows
  <2>2. CASE d # c
    <3>1. rfpCall'[d] = rfpCall[d] /\ Follows(rfpCall[d]) /\ HasOperands(rfpCall[d])
      BY <1>1, <1>2, <2>2 DEF RfpInv, RequestsFollowAnswers
    <3>2. rfpCall[d].op # "idle" => rfpCall[d].rfp \in Rfps
      BY <3>1 DEF HasOperands
    <3> QED BY <3>1, <3>2 DEF Follows
  <2> QED BY <2>1, <2>2
<1> QED BY <1>3, <1>4 DEF RequestsFollowAnswers

LEMMA IdleCall == /\ NoRfpCall \in CallTypes
                  /\ HasOperands(NoRfpCall) /\ Follows(NoRfpCall)'
BY DEF NoRfpCall, CallTypes, HasOperands, Follows

LEMMA RequestEnds ==
    ASSUME RfpInv, NEW c \in RfpRequests, Done(c),
           \A f \in Rfps : answers[f] \subseteq answers'[f]
    PROVE  RequestsTyped' /\ RequestsFollowAnswers'
<1>1. PICK call : call = NoRfpCall
  OBVIOUS
<1>2. call \in CallTypes /\ HasOperands(call)
  BY <1>1, IdleCall
<1>3. Follows(call)'
  BY <1>1 DEF Follows, NoRfpCall
<1> QED BY <1>1, <1>2, <1>3, RequestMoves DEF Done

\* One row of a venue is written.
LEMMA InvitationMoves ==
    ASSUME RfpInv, NEW f \in Rfps, NEW v \in InvitedVenues, NEW s \in Invitations,
           invitation' = [invitation EXCEPT ![f][v] = s],
           \A g \in Rfps : answers[g] \subseteq answers'[g],
           s \in Answering => v \in answers'[f]
    PROVE  /\ invitation' \in [Rfps -> [InvitedVenues -> Invitations]]
           /\ AnswersOnRecord'
<1> DEFINE row == [invitation[f] EXCEPT ![v] = s]
<1>1. invitation \in [Rfps -> [InvitedVenues -> Invitations]]
  BY DEF RfpInv, RfpTypes, RfpTypeOK
<1>2. row \in [InvitedVenues -> Invitations]
      /\ \A w \in InvitedVenues : row[w] = IF w = v THEN s ELSE invitation[f][w]
  BY <1>1
<1>3. invitation' = [invitation EXCEPT ![f] = row]
  OBVIOUS
<1> HIDE DEF row
<1>4. /\ invitation' \in [Rfps -> [InvitedVenues -> Invitations]]
      /\ \A g \in Rfps : invitation'[g] = IF g = f THEN row ELSE invitation[g]
  BY <1>1, <1>2, <1>3
<1>5. ASSUME NEW g \in Rfps, NEW w \in InvitedVenues, invitation'[g][w] \in Answering
      PROVE  w \in answers'[g]
  BY <1>2, <1>4, <1>5 DEF RfpInv, AnswersOnRecord
<1> QED BY <1>4, <1>5 DEF AnswersOnRecord, Answering

\* The rows of venues stay as they are.
LEMMA InvitationsStay ==
    ASSUME RfpInv, UNCHANGED invitation,
           \A f \in Rfps : answers[f] \subseteq answers'[f]
    PROVE  /\ invitation' \in [Rfps -> [InvitedVenues -> Invitations]]
           /\ AnswersOnRecord'
BY DEF RfpInv, RfpTypes, RfpTypeOK, AnswersOnRecord, Answering

LEMMA StatusTypes ==
    ASSUME RfpInv, NEW f \in Rfps,
           NEW s \in ActiveRfp \cup TerminalRfp \cup {"absent"}, SetRfp(f, s)
    PROVE  rfpStatus' \in [Rfps -> ActiveRfp \cup TerminalRfp \cup {"absent"}]
BY DEF RfpInv, RfpTypes, RfpTypeOK, SetRfp

-----------------------------------------------------------------------------
(* Requests *)

LEMMA LoadRowsOK ==
    ASSUME RfpInv, NEW c \in RfpRequests, LoadRows(c) PROVE RfpInv'
<1>1. RfpTypeOK /\ AnswersOnRecord
  BY DEF RfpInv, RfpTypes
<1>2. UNCHANGED <<rfpStatus, overdue, settledRfps, invitation, answers,
                  deadlineTask, extensions, rfpCrashes>>
  BY DEF LoadRows
<1>3. RfpTypeOK' /\ AnswersOnRecord'
  BY <1>1, <1>2 DEF RfpTypeOK, AnswersOnRecord, Answering
<1>4. PICK f \in Rfps :
        \/ \E op \in RfpOps :
            /\ OnRfp(op, f)
            /\ rfpCall' = [rfpCall EXCEPT ![c] =
                    [NoRfpCall EXCEPT !.op = op, !.rfp = f,
                                      !.seen = rfpStatus[f]]]
        \/ \E op \in VenueOps, v \in InvitedVenues :
            /\ OnVenue(op, f, v)
            /\ rfpCall' = [rfpCall EXCEPT ![c] =
                    [NoRfpCall EXCEPT !.op = op, !.rfp = f, !.venue = v,
                                      !.seen = rfpStatus[f]]]
  BY DEF LoadRows
<1>5. rfpStatus[f] \in ActiveRfp \cup TerminalRfp \cup {"absent"}
  BY <1>1 DEF RfpTypeOK
<1>6. ASSUME NEW op \in RfpOps,
             rfpCall' = [rfpCall EXCEPT ![c] =
                    [NoRfpCall EXCEPT !.op = op, !.rfp = f,
                                      !.seen = rfpStatus[f]]]
      PROVE  RequestsTyped' /\ RequestsFollowAnswers'
  <2>1. PICK call : call = [NoRfpCall EXCEPT !.op = op, !.rfp = f,
                                             !.seen = rfpStatus[f]]
    OBVIOUS
  <2>2. call \in CallTypes /\ HasOperands(call)
    BY <1>5, <2>1 DEF NoRfpCall, CallTypes, HasOperands
  <2>3. call.op = op /\ op \notin {"shortlist", "award", "decline", "declineOthers"}
    BY <2>1 DEF NoRfpCall, RfpOps
  <2>4. Follows(call)'
    BY <2>3 DEF Follows
  <2> QED BY <1>2, <1>6, <2>1, <2>2, <2>4, RequestMoves
<1>7. ASSUME NEW op \in VenueOps, NEW v \in InvitedVenues, OnVenue(op, f, v),
             rfpCall' = [rfpCall EXCEPT ![c] =
                    [NoRfpCall EXCEPT !.op = op, !.rfp = f, !.venue = v,
                                      !.seen = rfpStatus[f]]]
      PROVE  RequestsTyped' /\ RequestsFollowAnswers'
  <2>1. PICK call : call = [NoRfpCall EXCEPT !.op = op, !.rfp = f, !.venue = v,
                                             !.seen = rfpStatus[f]]
    OBVIOUS
  <2>2. call \in CallTypes /\ HasOperands(call)
    BY <1>5, <2>1 DEF NoRfpCall, CallTypes, HasOperands
  <2>3. call.op = op /\ call.rfp = f /\ call.venue = v /\ op # "declineOthers"
    BY <2>1 DEF NoRfpCall, VenueOps
  <2>4. op \in {"shortlist", "award", "decline"} => invitation[f][v] \in Answering
    BY <1>7 DEF OnVenue, CanShortlist, CanAward, CanDecline, Undecided, Answering
  <2>5. Follows(call)'
    BY <1>1, <1>2, <2>3, <2>4 DEF Follows, AnswersOnRecord
  <2> QED BY <1>2, <1>7, <2>1, <2>2, <2>5, RequestMoves
<1>8. RequestsTyped' /\ RequestsFollowAnswers'
  BY <1>4, <1>6, <1>7
<1> QED BY <1>3, <1>8 DEF RfpInv, RfpTypes
\* What a request at work knows.
LEMMA AtWork ==
    ASSUME RfpInv, NEW c \in RfpRequests, rfpCall[c].op # "idle"
    PROVE  /\ rfpCall[c] \in CallTypes /\ rfpCall[c].rfp \in Rfps
           /\ rfpCall[c].op \notin RfpOps => rfpCall[c].venue \in InvitedVenues
           /\ Follows(rfpCall[c])
BY DEF RfpInv, RfpTypes, RequestsTyped, HasOperands, RequestsFollowAnswers

LEMMA RfpWritten ==
    ASSUME RfpInv, NEW c \in RfpRequests,
           UpdateRfp(c) \/ SendRfp(c) \/ ExtendDeadline(c) \/ CloseRfp(c)
    PROVE  RfpInv'
<1>1. /\ rfpCall[c].op # "idle" /\ Done(c)
      /\ UNCHANGED <<invitation, answers, settledRfps, deadlineTask>>
  BY DEF UpdateRfp, SendRfp, ExtendDeadline, CloseRfp, Doing
<1>2. rfpCall[c].rfp \in Rfps
  BY <1>1, AtWork
<1>3. rfpStatus' \in [Rfps -> ActiveRfp \cup TerminalRfp \cup {"absent"}]
  <2>1. CASE UNCHANGED rfpStatus
    BY <2>1 DEF RfpInv, RfpTypes, RfpTypeOK
  <2>2. CASE SetRfp(rfpCall[c].rfp, "sent") \/ SetRfp(rfpCall[c].rfp, "closed")
    BY <1>2, <2>2, StatusTypes DEF ActiveRfp, TerminalRfp
  <2> QED BY <2>1, <2>2 DEF UpdateRfp, SendRfp, ExtendDeadline, CloseRfp
<1>4. overdue' \subseteq overdue
  BY DEF UpdateRfp, SendRfp, ExtendDeadline, CloseRfp
<1>5. /\ invitation' \in [Rfps -> [InvitedVenues -> Invitations]]
      /\ AnswersOnRecord'
  BY <1>1, InvitationsStay
<1>6. RequestsTyped' /\ RequestsFollowAnswers'
  BY <1>1, RequestEnds
<1>7. RfpTypeOK'
  BY <1>1, <1>3, <1>4, <1>5 DEF RfpInv, RfpTypes, RfpTypeOK
<1> QED BY <1>5, <1>6, <1>7 DEF RfpInv, RfpTypes

\* A request that writes the row of a venue, and maybe goes on.
LEMMA InvitationWritten ==
    ASSUME RfpInv, NEW c \in RfpRequests,
           \/ AddVenue(c) \/ ShortlistVenue(c) \/ DeclineVenue(c)
           \/ MarkViewed(c) \/ AwardVenue(c)
    PROVE  RfpInv'
<1> DEFINE f == rfpCall[c].rfp
           v == rfpCall[c].venue
<1>1. /\ rfpCall[c].op # "idle"
      /\ UNCHANGED <<rfpStatus, overdue, settledRfps, answers, deadlineTask>>
  BY DEF AddVenue, ShortlistVenue, DeclineVenue, MarkViewed, AwardVenue, Doing
<1>2. /\ rfpCall[c] \in CallTypes /\ f \in Rfps /\ Follows(rfpCall[c])
      /\ v \in InvitedVenues
  <2>1. rfpCall[c].op \notin RfpOps
    BY DEF AddVenue, ShortlistVenue, DeclineVenue, MarkViewed, AwardVenue,
           Doing, RfpOps
  <2> QED BY <1>1, <2>1, AtWork
<1>3. /\ invitation' \in [Rfps -> [InvitedVenues -> Invitations]]
      /\ AnswersOnRecord'
  <2>1. CASE UNCHANGED invitation
    BY <1>1, <2>1, InvitationsStay
  <2>2. ASSUME NEW s \in {"received", "viewed"}, SetInvitation(f, v, s)
        PROVE  /\ invitation' \in [Rfps -> [InvitedVenues -> Invitations]]
               /\ AnswersOnRecord'
    <3>1. s \in Invitations /\ s \notin Answering
      BY DEF Invitations, Answering
    <3> QED BY <1>1, <1>2, <2>2, <3>1, InvitationMoves DEF SetInvitation
  <2>3. ASSUME NEW s \in {"shortlisted", "declined", "awarded"},
               rfpCall[c].op \in {"shortlist", "decline", "award"},
               SetInvitation(f, v, s)
        PROVE  /\ invitation' \in [Rfps -> [InvitedVenues -> Invitations]]
               /\ AnswersOnRecord'
    <3>1. s \in Invitations
      BY DEF Invitations
    <3>2. v \in answers'[f]
      BY <1>1, <1>2, <2>3 DEF Follows
    <3> QED BY <1>1, <1>2, <2>3, <3>1, <3>2, InvitationMoves DEF SetInvitation
  <2> QED BY <2>1, <2>2, <2>3
          DEF AddVenue, ShortlistVenue, DeclineVenue, MarkViewed, AwardVenue, Doing
<1>4. RequestsTyped' /\ RequestsFollowAnswers'
  <2>1. CASE Done(c)
    BY <1>1, <2>1, RequestEnds
  <2>2. CASE AwardVenue(c)
    <3>1. PICK call : call = [rfpCall[c] EXCEPT !.op = "awardRfp"]
      OBVIOUS
    <3>2. /\ call.op = "awardRfp" /\ call \in CallTypes
          /\ call.rfp = f /\ call.venue = v
      BY <1>2, <3>1 DEF CallTypes
    <3>3. HasOperands(call)
      BY <1>2, <3>2 DEF HasOperands
    <3>4. Follows(call)'
      BY <3>2 DEF Follows
    <3>5. rfpCall' = [rfpCall EXCEPT ![c] = call]
      BY <2>2, <3>1 DEF AwardVenue, Now
    <3> QED BY <1>1, <3>2, <3>3, <3>4, <3>5, RequestMoves
  <2> QED BY <2>1, <2>2 DEF AddVenue, ShortlistVenue, DeclineVenue, MarkViewed
<1>5. RfpTypeOK'
  BY <1>1, <1>3 DEF RfpInv, RfpTypes, RfpTypeOK
<1> QED BY <1>3, <1>4, <1>5 DEF RfpInv, RfpTypes

\* The venues found undecided have responded.
LEMMA AwardRfpOK ==
    ASSUME RfpInv, NEW c \in RfpRequests, AwardRfp(c) PROVE RfpInv'
<1> DEFINE f == rfpCall[c].rfp
           others == {v \in InvitedVenues \ {rfpCall[c].venue} :
                         invitation[f][v] \in Undecided}
<1>1. /\ rfpCall[c].op = "awardRfp" /\ SetRfp(f, "awarded")
      /\ UNCHANGED <<overdue, settledRfps, invitation, answers, deadlineTask>>
  BY DEF AwardRfp, Doing
<1>2. /\ rfpCall[c] \in CallTypes /\ f \in Rfps
      /\ rfpCall[c].venue \in InvitedVenues
  BY <1>1, AtWork DEF RfpOps
<1>3. rfpStatus' \in [Rfps -> ActiveRfp \cup TerminalRfp \cup {"absent"}]
  BY <1>1, <1>2, StatusTypes DEF TerminalRfp
<1>4. /\ invitation' \in [Rfps -> [InvitedVenues -> Invitations]]
      /\ AnswersOnRecord'
  BY <1>1, InvitationsStay
<1>5. others \subseteq answers[f] /\ others \subseteq InvitedVenues
  BY <1>2 DEF RfpInv, AnswersOnRecord, Undecided, Answering
<1>6. RequestsTyped' /\ RequestsFollowAnswers'
  <2>1. CASE others = {}
    BY <1>1, <2>1, RequestEnds DEF AwardRfp, Done
  <2>2. CASE others # {}
    <3>1. PICK call : call = [rfpCall[c] EXCEPT !.op = "declineOthers", !.rest = others]
      OBVIOUS
    <3>2. /\ call.op = "declineOthers" /\ call \in CallTypes
          /\ call.rfp = f /\ call.venue = rfpCall[c].venue /\ call.rest = others
      BY <1>2, <1>5, <3>1 DEF CallTypes
    <3>3. HasOperands(call)
      BY <1>2, <3>2 DEF HasOperands
    <3>4. Follows(call)'
      BY <1>1, <1>5, <3>2 DEF Follows
    <3>5. rfpCall' = [rfpCall EXCEPT ![c] = call]
      BY <2>2, <3>1 DEF AwardRfp
    <3> QED BY <1>1, <3>2, <3>3, <3>4, <3>5, RequestMoves
  <2> QED BY <2>1, <2>2
<1>7. RfpTypeOK'
  BY <1>1, <1>3, <1>4 DEF RfpInv, RfpTypes, RfpTypeOK
<1> QED BY <1>4, <1>6, <1>7 DEF RfpInv, RfpTypes

LEMMA DeclineOtherOK ==
    ASSUME RfpInv, NEW c \in RfpRequests, NEW v, DeclineOther(c, v) PROVE RfpInv'
<1> DEFINE f == rfpCall[c].rfp
<1>1. /\ rfpCall[c].op = "declineOthers" /\ v \in rfpCall[c].rest
      /\ UNCHANGED <<rfpStatus, overdue, settledRfps, answers, deadlineTask>>
  BY DEF DeclineOther, Doing
<1>2. /\ rfpCall[c] \in CallTypes /\ f \in Rfps /\ Follows(rfpCall[c])
      /\ rfpCall[c].venue \in InvitedVenues
  BY <1>1, AtWork DEF RfpOps
<1>3. /\ invitation' \in [Rfps -> [InvitedVenues -> Invitations]]
      /\ AnswersOnRecord'
  <2>1. CASE v = "none"
    BY <1>1, <2>1, InvitationsStay DEF DeclineOther
  <2>2. CASE v # "none"
    <3>1. v \in InvitedVenues /\ v \in answers'[f]
      BY <1>1, <1>2, <2>2 DEF CallTypes, Follows
    <3>2. SetInvitation(f, v, "declined") /\ "declined" \in Invitations
      BY <2>2 DEF DeclineOther, Invitations
    <3> QED BY <1>1, <1>2, <3>1, <3>2, InvitationMoves DEF SetInvitation
  <2> QED BY <2>1, <2>2
<1>4. RequestsTyped' /\ RequestsFollowAnswers'
  <2>1. CASE v = "none" \/ rfpCall[c].rest = {v}
    BY <1>1, <2>1, RequestEnds DEF DeclineOther, Done
  <2>2. CASE ~ (v = "none" \/ rfpCall[c].rest = {v})
    <3>1. PICK call : call = [rfpCall[c] EXCEPT !.rest = @ \ {v}]
      OBVIOUS
    <3>2. /\ call.op = "declineOthers" /\ call \in CallTypes /\ call.rfp = f
          /\ call.venue = rfpCall[c].venue /\ call.rest = rfpCall[c].rest \ {v}
      BY <1>1, <1>2, <3>1 DEF CallTypes
    <3>3. HasOperands(call)
      BY <1>2, <3>2 DEF HasOperands
    <3>4. Follows(call)'
      BY <1>1, <1>2, <3>2 DEF Follows
    <3>5. rfpCall' = [rfpCall EXCEPT ![c] =
                         IF v = "none" \/ rfpCall[c].rest = {v} THEN NoRfpCall
                         ELSE [rfpCall[c] EXCEPT !.rest = rfpCall[c].rest \ {v}]]
      BY DEF DeclineOther
    <3>6. rfpCall' = [rfpCall EXCEPT ![c] = call]
      BY <2>2, <3>1, <3>5
    <3> QED BY <1>1, <3>2, <3>3, <3>4, <3>6, RequestMoves
  <2> QED BY <2>1, <2>2
<1>5. RfpTypeOK'
  BY <1>1, <1>3 DEF RfpInv, RfpTypes, RfpTypeOK
<1> QED BY <1>3, <1>4, <1>5 DEF RfpInv, RfpTypes
\* Where rows of venues are deleted, the requests on them fail and an award
\* that still declines others leaves them out.
LEMMA RowsDeleted ==
    ASSUME RfpInv, NEW c \in RfpRequests, NEW f \in Rfps, NEW venues,
           rfpCall[c].rfp = f,
           DoneAndOthersFail(c, f, venues),
           \A g \in Rfps \ {f} : answers'[g] = answers[g],
           answers'[f] = answers[f] \ venues
    PROVE  RequestsTyped' /\ RequestsFollowAnswers'
<1>1. rfpCall \in [RfpRequests -> CallTypes] /\ \A d \in RfpRequests : HasOperands(rfpCall[d])
  BY DEF RfpInv, RfpTypes, RequestsTyped
<1>2. ASSUME NEW d \in RfpRequests
      PROVE  /\ rfpCall'[d] \in CallTypes
             /\ HasOperands(rfpCall'[d])
             /\ Follows(rfpCall[d])'
  <2>1. CASE rfpCall'[d] = NoRfpCall
    BY <2>1 DEF NoRfpCall, CallTypes, HasOperands, Follows
  <2>2. CASE /\ rfpCall[d].rfp = f /\ rfpCall[d].venue \notin venues
             /\ rfpCall'[d] = [rfpCall[d] EXCEPT
                                 !.rest = (rfpCall[d].rest \ venues) \cup {"none"}]
    <3>1. rfpCall[d] \in CallTypes /\ HasOperands(rfpCall[d]) /\ Follows(rfpCall[d])
      BY <1>1 DEF RfpInv, RequestsFollowAnswers
    <3>2. rfpCall'[d] \in CallTypes /\ HasOperands(rfpCall'[d])
      BY <2>2, <3>1 DEF CallTypes, HasOperands
    <3>3. /\ rfpCall'[d].op = rfpCall[d].op /\ rfpCall'[d].rfp = f
          /\ rfpCall'[d].venue = rfpCall[d].venue
          /\ rfpCall'[d].rest = (rfpCall[d].rest \ venues) \cup {"none"}
      BY <2>2, <3>1 DEF CallTypes
    <3>4. Follows(rfpCall[d])'
      BY <2>2, <3>1, <3>3 DEF Follows
    <3> QED BY <3>2, <3>4
  <2>3. CASE /\ rfpCall'[d] = rfpCall[d]
             /\ ~ (rfpCall[d].rfp = f /\ rfpCall[d].venue \in venues)
             /\ ~ (rfpCall[d].rfp = f /\ rfpCall[d].rest \cap venues # {})
    <3>1. rfpCall[d] \in CallTypes /\ HasOperands(rfpCall[d]) /\ Follows(rfpCall[d])
      BY <1>1 DEF RfpInv, RequestsFollowAnswers
    <3>2. rfpCall[d].op # "idle" => rfpCall[d].rfp \in Rfps
      BY <3>1 DEF HasOperands
    <3>3. Follows(rfpCall[d])'
      BY <2>3, <3>1, <3>2 DEF Follows
    <3> QED BY <2>3, <3>1, <3>3
  <2>4. rfpCall'[d] =
            IF d = c \/ (rfpCall[d].rfp = f /\ rfpCall[d].venue \in venues)
            THEN NoRfpCall
            ELSE IF rfpCall[d].rfp = f /\ rfpCall[d].rest \cap venues # {}
            THEN [rfpCall[d] EXCEPT !.rest = (rfpCall[d].rest \ venues) \cup {"none"}]
            ELSE rfpCall[d]
    BY DEF DoneAndOthersFail
  <2> QED BY <2>1, <2>2, <2>3, <2>4
<1>3. rfpCall' \in [RfpRequests -> CallTypes]
  <2>1. DOMAIN rfpCall' = RfpRequests /\ rfpCall' = [d \in RfpRequests |-> rfpCall'[d]]
    BY DEF DoneAndOthersFail
  <2> QED BY <1>2, <2>1
<1> QED BY <1>2, <1>3 DEF RequestsTyped, RequestsFollowAnswers

LEMMA DeleteRfpOK ==
    ASSUME RfpInv, NEW c \in RfpRequests, DeleteRfp(c) PROVE RfpInv'
<1> DEFINE f == rfpCall[c].rfp
<1>1. /\ rfpCall[c].op = "delete" /\ SetRfp(f, "absent")
      /\ overdue' = overdue \ {f} /\ settledRfps' = settledRfps \ {f}
      /\ invitation' = [invitation EXCEPT ![f] = [v \in InvitedVenues |-> "none"]]
      /\ answers' = [answers EXCEPT ![f] = {}]
      /\ deadlineTask' = IF f \in deadlineTask.batch THEN IdleTask ELSE deadlineTask
      /\ DoneAndOthersFail(c, f, InvitedVenues \cup {"none"})
  BY DEF DeleteRfp, Doing
<1>2. f \in Rfps
  BY <1>1, AtWork
<1>3. /\ invitation \in [Rfps -> [InvitedVenues -> Invitations]]
      /\ answers \in [Rfps -> SUBSET InvitedVenues]
  BY DEF RfpInv, RfpTypes, RfpTypeOK
<1>4. /\ invitation' \in [Rfps -> [InvitedVenues -> Invitations]]
      /\ \A g \in Rfps : invitation'[g] = IF g = f THEN [v \in InvitedVenues |-> "none"]
                                                   ELSE invitation[g]
  BY <1>1, <1>3 DEF Invitations
<1>5. /\ answers' \in [Rfps -> SUBSET InvitedVenues]
      /\ answers'[f] = {} /\ \A g \in Rfps \ {f} : answers'[g] = answers[g]
  BY <1>1, <1>2, <1>3
<1>6. AnswersOnRecord'
  BY <1>4, <1>5 DEF RfpInv, AnswersOnRecord, Answering
<1>7. RequestsTyped' /\ RequestsFollowAnswers'
  <2>1. PICK venues : venues = InvitedVenues \cup {"none"}
    OBVIOUS
  <2>2. answers'[f] = answers[f] \ venues
    BY <1>2, <1>3, <1>5, <2>1
  <2> QED BY <1>1, <1>2, <1>5, <2>1, <2>2, RowsDeleted
<1>8. rfpStatus' \in [Rfps -> ActiveRfp \cup TerminalRfp \cup {"absent"}]
  BY <1>1, <1>2, StatusTypes
<1>9. RfpTypeOK'
  BY <1>1, <1>4, <1>5, <1>8
     DEF RfpInv, RfpTypes, RfpTypeOK, IdleTask, Between
<1> QED BY <1>6, <1>7, <1>9 DEF RfpInv, RfpTypes

LEMMA RemoveVenueOK ==
    ASSUME RfpInv, NEW c \in RfpRequests, RemoveVenue(c)
    PROVE  RfpInv'
<1> DEFINE f == rfpCall[c].rfp
           v == rfpCall[c].venue
<1>1. /\ rfpCall[c].op = "remove" /\ SetInvitation(f, v, "none")
      /\ answers' = [answers EXCEPT ![f] = @ \ {v}]
      /\ DoneAndOthersFail(c, f, {v})
      /\ UNCHANGED <<rfpStatus, overdue, settledRfps, deadlineTask>>
  BY DEF RemoveVenue, Doing
<1>2. f \in Rfps /\ v \in InvitedVenues
  BY <1>1, AtWork DEF RfpOps
<1>3. /\ invitation \in [Rfps -> [InvitedVenues -> Invitations]]
      /\ answers \in [Rfps -> SUBSET InvitedVenues]
  BY DEF RfpInv, RfpTypes, RfpTypeOK
<1>4. /\ answers' \in [Rfps -> SUBSET InvitedVenues]
      /\ answers'[f] = answers[f] \ {v}
      /\ \A g \in Rfps \ {f} : answers'[g] = answers[g]
  BY <1>1, <1>2, <1>3
<1> HIDE DEF f, v
<1>5. RequestsTyped' /\ RequestsFollowAnswers'
  BY <1>1, <1>2, <1>4, RowsDeleted DEF f
<1>6. PICK row : row = [invitation[f] EXCEPT ![v] = "none"]
  OBVIOUS
<1>7. /\ row \in [InvitedVenues -> Invitations]
      /\ \A w \in InvitedVenues : row[w] = IF w = v THEN "none" ELSE invitation[f][w]
  BY <1>2, <1>3, <1>6 DEF Invitations
<1>8. /\ invitation' \in [Rfps -> [InvitedVenues -> Invitations]]
      /\ \A g \in Rfps : invitation'[g] = IF g = f THEN row ELSE invitation[g]
  BY <1>1, <1>3, <1>6, <1>7 DEF SetInvitation
<1>9. AnswersOnRecord'
  BY <1>4, <1>7, <1>8 DEF RfpInv, AnswersOnRecord, Answering
<1>10. RfpTypeOK'
  BY <1>1, <1>4, <1>8 DEF RfpInv, RfpTypes, RfpTypeOK
<1> QED BY <1>5, <1>9, <1>10 DEF RfpInv, RfpTypes

LEMMA ResponseOK ==
    ASSUME RfpInv, NEW c \in RfpRequests, CountResponses(c) \/ CommitResponse(c)
    PROVE  RfpInv'
<1> DEFINE f == rfpCall[c].rfp
           v == rfpCall[c].venue
<1>1. /\ rfpCall[c].op \in {"respond", "commit"}
      /\ UNCHANGED <<overdue, settledRfps, deadlineTask>>
  BY DEF CountResponses, CommitResponse, Doing
<1>2. f \in Rfps /\ v \in InvitedVenues /\ rfpCall[c] \in CallTypes
  BY <1>1, AtWork DEF RfpOps
<1>3. /\ invitation \in [Rfps -> [InvitedVenues -> Invitations]]
      /\ answers \in [Rfps -> SUBSET InvitedVenues]
      /\ rfpStatus \in [Rfps -> ActiveRfp \cup TerminalRfp \cup {"absent"}]
  BY DEF RfpInv, RfpTypes, RfpTypeOK
<1>4. CASE CountResponses(c)
  <2>1. UNCHANGED <<rfpStatus, invitation, answers>>
    BY <1>4 DEF CountResponses
  <2>2. /\ invitation' \in [Rfps -> [InvitedVenues -> Invitations]]
        /\ AnswersOnRecord'
    BY <2>1, InvitationsStay
  <2>3. RequestsTyped' /\ RequestsFollowAnswers'
    <3>1. PICK complete : complete = (With(f, "responded") \cup {v} = Invited(f))
      OBVIOUS
    <3>2. PICK call : call = IF v \in answers[f] THEN NoRfpCall
                             ELSE [rfpCall[c] EXCEPT !.op = "commit",
                                    !.verdict = Verdict(rfpCall[c].seen, complete)]
      OBVIOUS
    <3>3. rfpCall' = [rfpCall EXCEPT ![c] = call]
      BY <1>4, <3>1, <3>2 DEF CountResponses
    <3>4. CASE call = NoRfpCall
      BY <2>1, <3>3, <3>4, RequestEnds DEF Done
    <3>5. CASE call = [rfpCall[c] EXCEPT !.op = "commit",
                                    !.verdict = Verdict(rfpCall[c].seen, complete)]
      <4>1. Verdict(rfpCall[c].seen, complete) \in {"none", "review", "collecting_responses"}
        BY DEF Verdict
      <4>2. /\ call.op = "commit" /\ call \in CallTypes
            /\ call.rfp = f /\ call.venue = v
        BY <1>2, <3>5, <4>1 DEF CallTypes
      <4>3. HasOperands(call)
        BY <1>2, <4>2 DEF HasOperands
      <4>4. Follows(call)'
        BY <4>2 DEF Follows
      <4> QED BY <2>1, <3>3, <4>2, <4>3, <4>4, RequestMoves
    <3> QED BY <3>2, <3>4, <3>5
  <2>4. RfpTypeOK'
    BY <1>1, <2>1, <2>2 DEF RfpInv, RfpTypes, RfpTypeOK
  <2> QED BY <2>2, <2>3, <2>4 DEF RfpInv, RfpTypes
<1>5. CASE CommitResponse(c)
  <2>1. /\ invitation' = [invitation EXCEPT ![f][v] = "responded"]
        /\ answers' = [answers EXCEPT ![f] = @ \cup {v}]
        /\ rfpStatus' = IF rfpCall[c].verdict = "none" THEN rfpStatus
                        ELSE [rfpStatus EXCEPT ![f] = rfpCall[c].verdict]
        /\ Done(c)
    BY <1>5 DEF CommitResponse
  <2> HIDE DEF f, v
  <2>2. /\ answers' \in [Rfps -> SUBSET InvitedVenues]
        /\ v \in answers'[f]
        /\ \A g \in Rfps : answers[g] \subseteq answers'[g]
    BY <1>2, <1>3, <2>1
  <2>3. /\ invitation' \in [Rfps -> [InvitedVenues -> Invitations]]
        /\ AnswersOnRecord'
    BY <1>2, <2>1, <2>2, InvitationMoves DEF Invitations
  <2>4. RequestsTyped' /\ RequestsFollowAnswers'
    BY <2>1, <2>2, RequestEnds
  <2>5. rfpStatus' \in [Rfps -> ActiveRfp \cup TerminalRfp \cup {"absent"}]
    BY <1>2, <1>3, <2>1 DEF CallTypes, ActiveRfp
  <2>6. RfpTypeOK'
    BY <1>1, <2>2, <2>3, <2>5 DEF RfpInv, RfpTypes, RfpTypeOK
  <2> QED BY <2>3, <2>4, <2>6 DEF RfpInv, RfpTypes
<1> QED BY <1>4, <1>5
-----------------------------------------------------------------------------
(* Rows that appear, deadlines and restarts *)

\* Requests and responses are left alone.
LEMMA RequestsStay ==
    ASSUME RfpInv, UNCHANGED <<rfpCall, answers>>
    PROVE  RequestsTyped' /\ RequestsFollowAnswers'
BY DEF RfpInv, RfpTypes, RequestsTyped, RequestsFollowAnswers, Follows, HasOperands

LEMMA RowAppears ==
    ASSUME RfpInv, NEW f \in Rfps, CreateRfp(f) \/ \E g \in Rfps : DuplicateRfp(g, f)
    PROVE  RfpInv'
<1>1. /\ SetRfp(f, "draft")
      /\ UNCHANGED <<overdue, settledRfps, invitation, answers, rfpCall, deadlineTask>>
  BY DEF CreateRfp, DuplicateRfp
<1>2. rfpStatus' \in [Rfps -> ActiveRfp \cup TerminalRfp \cup {"absent"}]
  BY <1>1, StatusTypes DEF ActiveRfp
<1>3. /\ invitation' \in [Rfps -> [InvitedVenues -> Invitations]]
      /\ AnswersOnRecord'
  BY <1>1, InvitationsStay
<1>4. RfpTypeOK'
  BY <1>1, <1>2, <1>3 DEF RfpInv, RfpTypes, RfpTypeOK
<1> QED BY <1>1, <1>3, <1>4, RequestsStay DEF RfpInv, RfpTypes

LEMMA DeadlineOK ==
    ASSUME RfpInv,
           \/ LoadOverdue \/ RfpWorkerRestarts
           \/ \E f \in Rfps : CountAnswers(f) \/ SettleRfp(f) \/ DeadlinePasses(f)
    PROVE  RfpInv'
<1>1. UNCHANGED <<invitation, answers, rfpCall>>
  BY DEF LoadOverdue, RfpWorkerRestarts, CountAnswers, SettleRfp, DeadlinePasses
<1>2. RfpTypeOK
  BY DEF RfpInv, RfpTypes
<1>3. /\ invitation' \in [Rfps -> [InvitedVenues -> Invitations]]
      /\ AnswersOnRecord'
  BY <1>1, InvitationsStay
<1>4. /\ rfpStatus' \in [Rfps -> ActiveRfp \cup TerminalRfp \cup {"absent"}]
      /\ overdue' \cup settledRfps' \subseteq Rfps
      /\ deadlineTask' \in TaskTypes
  <2>1. CASE LoadOverdue
    <3>1. PICK found \in SUBSET Rfps : deadlineTask' = [deadlineTask EXCEPT !.batch = found]
      BY <1>2, <2>1 DEF LoadOverdue, RfpTypeOK
    <3>2. deadlineTask = IdleTask /\ UNCHANGED <<rfpStatus, overdue, settledRfps>>
      BY <2>1 DEF LoadOverdue
    <3> QED BY <1>2, <3>1, <3>2 DEF RfpTypeOK, IdleTask, Between, TaskTypes
  <2>2. CASE RfpWorkerRestarts
    BY <1>2, <2>2 DEF RfpWorkerRestarts, RfpTypeOK, IdleTask, Between, TaskTypes
  <2>3. ASSUME NEW f \in Rfps, CountAnswers(f)
        PROVE  /\ UNCHANGED <<rfpStatus, overdue, settledRfps>>
               /\ deadlineTask' \in TaskTypes
    <3>1. deadlineTask' = [deadlineTask EXCEPT !.rfp = f, !.at = "counted",
                                !.heard = With(f, "responded") # {}]
      BY <2>3 DEF CountAnswers
    <3>2. UNCHANGED <<rfpStatus, overdue, settledRfps>>
      BY <2>3 DEF CountAnswers
    <3>3. (With(f, "responded") # {}) \in BOOLEAN
      OBVIOUS
    <3> QED BY <1>2, <3>1, <3>2, <3>3 DEF TaskTypes, RfpTypeOK
  <2>4. ASSUME NEW f \in Rfps, SettleRfp(f)
        PROVE  /\ rfpStatus' \in [Rfps -> ActiveRfp \cup TerminalRfp \cup {"absent"}]
               /\ overdue' \cup settledRfps' \subseteq Rfps
               /\ deadlineTask' \in TaskTypes
    <3>1. PICK s \in {"expired", "review"} : SetRfp(f, s)
      BY <2>4 DEF SettleRfp
    <3>2. rfpStatus' \in [Rfps -> ActiveRfp \cup TerminalRfp \cup {"absent"}]
      BY <3>1, StatusTypes DEF ActiveRfp, TerminalRfp
    <3> QED BY <1>2, <2>4, <3>2 DEF SettleRfp, RfpTypeOK, Between, TaskTypes
  <2>5. ASSUME NEW f \in Rfps, DeadlinePasses(f)
        PROVE  /\ UNCHANGED <<rfpStatus, settledRfps, deadlineTask>>
               /\ overdue' \subseteq Rfps
    BY <1>2, <2>5 DEF DeadlinePasses, RfpTypeOK
  <2> QED BY <1>2, <2>1, <2>2, <2>3, <2>4, <2>5 DEF RfpTypeOK, TaskTypes
<1>5. RfpTypeOK'
  BY <1>1, <1>2, <1>3, <1>4 DEF RfpTypeOK, TaskTypes
<1> QED BY <1>1, <1>3, <1>5, RequestsStay DEF RfpInv, RfpTypes

\* Only venues that are silent are marked.
LEMMA Marked ==
    ASSUME RfpTypeOK, NEW f \in Rfps, MarkNoResponse(f)
    PROVE  \A g \in Rfps, v \in InvitedVenues :
               \/ invitation'[g][v] = invitation[g][v]
               \/ invitation[g][v] \in Silent /\ invitation'[g][v] = "no_response"
<1>1. invitation \in [Rfps -> [InvitedVenues -> Invitations]]
  BY DEF RfpTypeOK
<1>2. invitation' = [invitation EXCEPT ![f] = [v \in InvitedVenues |->
            IF invitation[f][v] \in Silent THEN "no_response" ELSE invitation[f][v]]]
  BY DEF MarkNoResponse
<1> QED BY <1>1, <1>2

LEMMA MarkNoResponseOK ==
    ASSUME RfpInv, NEW f \in Rfps, MarkNoResponse(f) PROVE RfpInv'
<1>1. UNCHANGED <<rfpStatus, settledRfps, overdue, answers, rfpCall>>
  BY DEF MarkNoResponse, KeepsForRetry
<1>2. RfpTypeOK /\ AnswersOnRecord
  BY DEF RfpInv, RfpTypes
<1>3. invitation' \in [Rfps -> [InvitedVenues -> Invitations]]
  <2>1. invitation' = [invitation EXCEPT ![f] = [v \in InvitedVenues |->
            IF invitation[f][v] \in Silent THEN "no_response" ELSE invitation[f][v]]]
    BY DEF MarkNoResponse
  <2> QED BY <1>2, <2>1 DEF RfpTypeOK, Invitations
<1>4. \A g \in Rfps, v \in InvitedVenues :
          invitation'[g][v] \in Answering => invitation[g][v] \in Answering
  BY <1>2, Marked DEF Answering
<1>5. AnswersOnRecord'
  BY <1>1, <1>2, <1>4 DEF AnswersOnRecord, Answering
<1>6. deadlineTask' \in TaskTypes
  BY <1>2 DEF MarkNoResponse, TaskTypes, RfpTypeOK
<1>7. RfpTypeOK'
  BY <1>1, <1>2, <1>3, <1>6 DEF RfpTypeOK, TaskTypes
<1> QED BY <1>1, <1>5, <1>7, RequestsStay DEF RfpInv, RfpTypes

LEMMA RfpApiRestartsOK == ASSUME RfpInv, RfpApiRestarts PROVE RfpInv'
<1>1. /\ \A c \in RfpRequests : rfpCall'[c] = NoRfpCall
      /\ rfpCall' = [c \in RfpRequests |-> NoRfpCall]
      /\ UNCHANGED <<rfpStatus, overdue, settledRfps, invitation, answers, deadlineTask>>
  BY DEF RfpApiRestarts
<1>2. RequestsTyped' /\ RequestsFollowAnswers'
  BY <1>1, IdleCall
     DEF RequestsTyped, RequestsFollowAnswers, Follows, NoRfpCall, HasOperands
<1>3. AnswersOnRecord'
  BY <1>1, InvitationsStay
<1>4. RfpTypeOK'
  BY <1>1 DEF RfpInv, RfpTypes, RfpTypeOK
<1> QED BY <1>2, <1>3, <1>4 DEF RfpInv, RfpTypes

LEMMA RfpWriteOK ==
    ASSUME RfpInv, NEW c \in RfpRequests, RfpWrite(c) PROVE RfpInv'
BY RfpWritten, InvitationWritten, AwardRfpOK, DeclineOtherOK, DeleteRfpOK,
   RemoveVenueOK, ResponseOK DEF RfpWrite

LEMMA RfpNextOK == ASSUME RfpInv, [RfpNext]_rfpVars PROVE RfpInv'
<1>1. CASE UNCHANGED rfpVars
  BY <1>1, InvitationsStay, RequestsStay DEF rfpVars, RfpInv, RfpTypes, RfpTypeOK
<1>2. ASSUME NEW c \in RfpRequests, LoadRows(c) \/ RfpWrite(c) PROVE RfpInv'
  BY <1>2, LoadRowsOK, RfpWriteOK
<1>3. ASSUME NEW f \in Rfps,
             CreateRfp(f) \/ DeadlinePasses(f) \/ \E g \in Rfps : DuplicateRfp(f, g)
      PROVE  RfpInv'
  BY <1>3, RowAppears, DeadlineOK
<1>4. CASE DeadlineStep
  BY <1>4, DeadlineOK, MarkNoResponseOK DEF DeadlineStep
<1>5. CASE RfpApiRestarts \/ RfpWorkerRestarts
  BY <1>5, RfpApiRestartsOK, DeadlineOK
<1> QED BY <1>1, <1>2, <1>3, <1>4, <1>5 DEF RfpNext

LEMMA RfpInitOK == RfpInit => RfpInv
<1> SUFFICES ASSUME RfpInit PROVE RfpInv
  OBVIOUS
<1>1. RfpTypeOK
  BY DEF RfpInit, RfpTypeOK, Invitations, IdleTask, Between
<1>2. \A c \in RfpRequests : rfpCall[c] = NoRfpCall
  BY DEF RfpInit
<1>3. RequestsTyped
  BY <1>2, IdleCall DEF RfpInit, RequestsTyped
<1>4. AnswersOnRecord /\ RequestsFollowAnswers
  BY <1>2 DEF RfpInit, AnswersOnRecord, Answering, RequestsFollowAnswers,
              Follows, NoRfpCall
<1> QED BY <1>1, <1>3, <1>4 DEF RfpInv, RfpTypes

\* Rows, answers, requests and the task have their types in every state, for
\* any RFPs, venues and requests at work at the same time; a request at work
\* has the rows it needs.
THEOREM RfpRowTypes == RfpSpec => []RfpTypes
<1>1. RfpInv /\ [RfpNext]_rfpVars => RfpInv'
  BY RfpNextOK
<1>2. RfpInv => RfpTypes
  BY DEF RfpInv
<1> QED BY RfpInitOK, <1>1, <1>2, PTL DEF RfpSpec

\* However many requests, deadline tasks and restarts interleave, only a venue
\* with a response on record is shortlisted, awarded or declined: a request
\* that read a response fails when the response is deleted (award_venue,
\* decline_venue, remove_venue_from_rfp, delete_rfp).
THEOREM VenuesAreDecidedOnResponses == RfpSpec => []DecisionsFollowAnswers
<1>1. RfpInv /\ [RfpNext]_rfpVars => RfpInv'
  BY RfpNextOK
<1>2. RfpInv => DecisionsFollowAnswers
  BY DEF RfpInv, AnswersOnRecord, Answering, DecisionsFollowAnswers, With
<1> QED BY RfpInitOK, <1>1, <1>2, PTL DEF RfpSpec
-----------------------------------------------------------------------------
(* While requests and the deadline task take turns *)

RequestsTakeTurns ==
    \A c, d \in RfpRequests :
        c # d => rfpCall[c].op = "idle" \/ rfpCall[d].op = "idle"

\* What a view or an award has read still holds: the venue has not gone on,
\* or no venue is awarded.
StillTrue(call) ==
    /\ call.op = "view" => invitation[call.rfp][call.venue] = "received"
    /\ call.op = "award" =>
          \A w \in InvitedVenues : invitation[call.rfp][w] # "awarded"

ReadsHold == \A c \in RfpRequests : StillTrue(rfpCall[c])

KeptInv == RequestsTakeTurns /\ ReadsHold /\ AnswersAreKept

\* One request has written: the others are still idle, and none
\* has a view or an award to write.
LEMMA WriterAlone ==
    ASSUME RfpInv, RequestsTakeTurns, NEW c \in RfpRequests, RfpWrite(c)
    PROVE  RequestsTakeTurns' /\ ReadsHold'
<1>1. rfpCall[c].op # "idle"
  BY DEF RfpWrite, UpdateRfp, DeleteRfp, AddVenue, RemoveVenue, SendRfp,
         ExtendDeadline, CloseRfp, ShortlistVenue, DeclineVenue, MarkViewed,
         AwardVenue, AwardRfp, DeclineOther, CountResponses, CommitResponse, Doing
<1>2. \A d \in RfpRequests \ {c} : rfpCall[d].op = "idle"
  BY <1>1 DEF RequestsTakeTurns
<1>3. rfpCall \in [RfpRequests -> CallTypes] /\ rfpCall[c] \in CallTypes
  BY DEF RfpInv, RfpTypes, RequestsTyped
<1>4. NoRfpCall.op = "idle"
  BY DEF NoRfpCall
<1>5. /\ \A d \in RfpRequests \ {c} : rfpCall'[d].op = "idle"
      /\ rfpCall'[c].op \notin {"view", "award"}
  <2>1. CASE Done(c)
    BY <1>2, <1>3, <1>4, <2>1 DEF Done
  <2>2. CASE DeleteRfp(c) \/ RemoveVenue(c)
    <3>1. PICK f, venues : DoneAndOthersFail(c, f, venues)
      BY <2>2 DEF DeleteRfp, RemoveVenue
    <3>2. rfpCall'[c] = NoRfpCall
      BY <3>1 DEF DoneAndOthersFail
    <3>3. ASSUME NEW d \in RfpRequests \ {c} PROVE rfpCall'[d].op = "idle"
      <4>1. rfpCall'[d] \in {NoRfpCall, rfpCall[d],
                [rfpCall[d] EXCEPT !.rest = (rfpCall[d].rest \ venues) \cup {"none"}]}
        BY <3>1 DEF DoneAndOthersFail
      <4>2. rfpCall[d].op = "idle" /\ rfpCall[d] \in CallTypes
        BY <1>2, <1>3
      <4> QED BY <1>4, <4>1, <4>2 DEF CallTypes
    <3> QED BY <1>4, <3>2, <3>3
  <2>3. CASE AwardVenue(c) \/ AwardRfp(c) \/ CountResponses(c)
    <3>1. PICK call : /\ rfpCall' = [rfpCall EXCEPT ![c] = call]
                      /\ \/ call = NoRfpCall
                         \/ call = [rfpCall[c] EXCEPT !.op = "awardRfp"]
                         \/ \E rest : call = [rfpCall[c] EXCEPT
                                          !.op = "declineOthers", !.rest = rest]
                         \/ \E verdict : call = [rfpCall[c] EXCEPT
                                             !.op = "commit", !.verdict = verdict]
      <4>1. CASE AwardVenue(c)
        BY <4>1 DEF AwardVenue, Now
      <4>2. CASE AwardRfp(c)
        BY <4>2 DEF AwardRfp
      <4>3. CASE CountResponses(c)
        BY <4>3 DEF CountResponses
      <4> QED BY <2>3, <4>1, <4>2, <4>3
    <3>2. call.op \notin {"view", "award"}
      BY <1>3, <1>4, <3>1 DEF CallTypes
    <3> QED BY <1>2, <1>3, <3>1, <3>2
  <2>4. ASSUME NEW v, DeclineOther(c, v)
        PROVE  /\ \A d \in RfpRequests \ {c} : rfpCall'[d].op = "idle"
               /\ rfpCall'[c].op \notin {"view", "award"}
    <3>1. PICK call : /\ rfpCall' = [rfpCall EXCEPT ![c] = call]
                      /\ \/ call = NoRfpCall
                         \/ call = [rfpCall[c] EXCEPT !.rest = rfpCall[c].rest \ {v}]
      BY <2>4 DEF DeclineOther
    <3>2. call.op \notin {"view", "award"}
      BY <1>3, <1>4, <2>4, <3>1 DEF CallTypes, DeclineOther, Doing
    <3> QED BY <1>2, <1>3, <3>1, <3>2
  <2> QED BY <2>1, <2>2, <2>3, <2>4
          DEF RfpWrite, UpdateRfp, AddVenue, SendRfp, ExtendDeadline, CloseRfp,
              ShortlistVenue, DeclineVenue, MarkViewed, CommitResponse
<1>6. RequestsTakeTurns'
  BY <1>5 DEF RequestsTakeTurns
<1>7. ReadsHold'
  BY <1>5 DEF ReadsHold, StillTrue
<1> QED BY <1>6, <1>7

\* A venue that moves was not in the comparison, or stays in it.
LEMMA AnswersMove ==
    ASSUME RfpInv, AnswersAreKept, NEW f \in Rfps, NEW v \in InvitedVenues,
           NEW s \in Invitations,
           invitation' = [invitation EXCEPT ![f][v] = s], UNCHANGED answers,
           s \in Answering \/ invitation[f][v] \notin Answering
    PROVE  AnswersAreKept'
<1> DEFINE row == [invitation[f] EXCEPT ![v] = s]
<1>1. /\ invitation \in [Rfps -> [InvitedVenues -> Invitations]]
      /\ answers \in [Rfps -> SUBSET InvitedVenues]
  BY DEF RfpInv, RfpTypes, RfpTypeOK
<1>2. \A w \in InvitedVenues : row[w] = IF w = v THEN s ELSE invitation[f][w]
  BY <1>1
<1>3. invitation' = [invitation EXCEPT ![f] = row]
  OBVIOUS
<1> HIDE DEF row
<1>4. \A g \in Rfps : invitation'[g] = IF g = f THEN row ELSE invitation[g]
  BY <1>1, <1>3
<1>5. \A g \in Rfps : \A w \in answers[g] :
          w \in InvitedVenues /\ invitation[g][w] \in Answering
  BY <1>1 DEF AnswersAreKept, Undecided, Answering
<1>6. \A g \in Rfps : \A w \in answers'[g] : invitation'[g][w] \in Answering
  BY <1>2, <1>4, <1>5
<1> QED BY <1>6 DEF AnswersAreKept, Undecided, Answering

LEMMA AnswersStay ==
    ASSUME AnswersAreKept, UNCHANGED <<invitation, answers>> PROVE AnswersAreKept'
BY DEF AnswersAreKept, Undecided

LEMMA WriteKeeps ==
    ASSUME RfpInv, KeptInv, NEW c \in RfpRequests, RfpWrite(c)
    PROVE  AnswersAreKept'
<1> DEFINE f == rfpCall[c].rfp
           v == rfpCall[c].venue
<1>1. AnswersAreKept
  BY DEF KeptInv
<1>2. /\ invitation \in [Rfps -> [InvitedVenues -> Invitations]]
      /\ answers \in [Rfps -> SUBSET InvitedVenues]
  BY DEF RfpInv, RfpTypes, RfpTypeOK
<1>3. \A g \in Rfps : \A w \in answers[g] : invitation[g][w] \in Answering
  BY <1>1 DEF AnswersAreKept, Undecided, Answering
<1>4. CASE UpdateRfp(c) \/ SendRfp(c) \/ ExtendDeadline(c) \/ CloseRfp(c)
           \/ AwardRfp(c) \/ CountResponses(c)
  <2>1. UNCHANGED <<invitation, answers>>
    BY <1>4 DEF UpdateRfp, SendRfp, ExtendDeadline, CloseRfp, AwardRfp, CountResponses
  <2> QED BY <1>1, <2>1, AnswersStay
<1>5. CASE AddVenue(c) \/ MarkViewed(c) \/ ShortlistVenue(c) \/ DeclineVenue(c)
           \/ AwardVenue(c)
  <2>1. f \in Rfps /\ v \in InvitedVenues
    BY <1>5, AtWork DEF AddVenue, MarkViewed, ShortlistVenue, DeclineVenue,
                        AwardVenue, Doing, RfpOps
  <2>2. UNCHANGED answers
    BY <1>5 DEF AddVenue, MarkViewed, ShortlistVenue, DeclineVenue, AwardVenue
  <2>3. CASE UNCHANGED invitation
    BY <1>1, <2>2, <2>3, AnswersStay
  <2>4. CASE AddVenue(c) /\ invitation[f][v] = "none"
    <3>1. SetInvitation(f, v, "received") /\ "received" \in Invitations
      BY <2>4 DEF AddVenue, Invitations
    <3>2. invitation[f][v] \notin Answering
      BY <2>4 DEF Answering
    <3> QED BY <1>1, <2>1, <2>2, <3>1, <3>2, AnswersMove DEF SetInvitation
  <2>5. CASE MarkViewed(c)
    <3>1. SetInvitation(f, v, "viewed") /\ "viewed" \in Invitations
      BY <2>5 DEF MarkViewed, Invitations
    <3>2. invitation[f][v] \notin Answering
      BY <2>5 DEF MarkViewed, Doing, KeptInv, ReadsHold, StillTrue, Answering
    <3> QED BY <1>1, <2>1, <2>2, <3>1, <3>2, AnswersMove DEF SetInvitation
  <2>6. CASE ShortlistVenue(c) \/ DeclineVenue(c) \/ AwardVenue(c)
    <3>1. PICK s \in {"shortlisted", "declined", "awarded"} : SetInvitation(f, v, s)
      BY <2>6 DEF ShortlistVenue, DeclineVenue, AwardVenue
    <3>2. s \in Invitations /\ s \in Answering
      BY DEF Invitations, Answering
    <3> QED BY <1>1, <2>1, <2>2, <3>1, <3>2, AnswersMove DEF SetInvitation
  <2> QED BY <1>5, <2>3, <2>4, <2>5, <2>6 DEF AddVenue
<1>6. ASSUME NEW w, DeclineOther(c, w) PROVE AnswersAreKept'
  <2>1. rfpCall[c].op = "declineOthers" /\ w \in rfpCall[c].rest /\ UNCHANGED answers
    BY <1>6 DEF DeclineOther, Doing
  <2>2. f \in Rfps /\ rfpCall[c] \in CallTypes
    BY <2>1, AtWork
  <2>3. CASE w = "none"
    BY <1>1, <1>6, <2>1, <2>3, AnswersStay DEF DeclineOther
  <2>4. CASE w # "none"
    <3>1. w \in InvitedVenues
      BY <2>1, <2>2, <2>4 DEF CallTypes
    <3>2. SetInvitation(f, w, "declined") /\ "declined" \in Invitations
          /\ "declined" \in Answering
      BY <1>6, <2>4 DEF DeclineOther, Invitations, Answering
    <3> QED BY <1>1, <2>1, <2>2, <3>1, <3>2, AnswersMove DEF SetInvitation
  <2> QED BY <2>3, <2>4
<1>7. CASE DeleteRfp(c)
  <2>1. /\ invitation' = [invitation EXCEPT ![f] = [u \in InvitedVenues |-> "none"]]
        /\ answers' = [answers EXCEPT ![f] = {}]
    BY <1>7 DEF DeleteRfp
  <2>2. \A g \in Rfps : /\ answers'[g] = IF g = f THEN {} ELSE answers[g]
                        /\ g # f => invitation'[g] = invitation[g]
    BY <1>2, <2>1
  <2>3. \A g \in Rfps : \A w \in answers'[g] : invitation'[g][w] \in Answering
    BY <1>3, <2>2
  <2> QED BY <2>3 DEF AnswersAreKept, Undecided, Answering
<1>8. CASE RemoveVenue(c)
  <2>1. /\ SetInvitation(f, v, "none")
        /\ answers' = [answers EXCEPT ![f] = @ \ {v}]
    BY <1>8 DEF RemoveVenue
  <2> HIDE DEF f, v
  <2>2. \A g \in Rfps : answers'[g] = IF g = f THEN answers[f] \ {v} ELSE answers[g]
    BY <1>2, <2>1
  <2>3. PICK row : row = [invitation[f] EXCEPT ![v] = "none"]
    OBVIOUS
  <2>4. invitation' = [invitation EXCEPT ![f] = row]
    BY <2>1, <2>3 DEF SetInvitation
  <2>5. ASSUME NEW g \in Rfps, NEW w \in answers'[g]
        PROVE  invitation'[g][w] \in Answering
    <3>1. w \in answers[g] /\ w \in InvitedVenues /\ (g = f => w # v)
      BY <1>2, <2>2, <2>5
    <3>2. invitation'[g][w] = invitation[g][w]
      BY <1>2, <2>3, <2>4, <3>1
    <3> QED BY <1>3, <3>1, <3>2
  <2> QED BY <2>5 DEF AnswersAreKept, Undecided, Answering
<1>9. CASE CommitResponse(c)
  <2>1. /\ invitation' = [invitation EXCEPT ![f][v] = "responded"]
        /\ answers' = [answers EXCEPT ![f] = @ \cup {v}]
    BY <1>9 DEF CommitResponse
  <2> HIDE DEF f, v
  <2>2. \A g \in Rfps : answers'[g] = IF g = f THEN answers[f] \cup {v} ELSE answers[g]
    BY <1>2, <2>1
  <2>3. PICK row : row = [invitation[f] EXCEPT ![v] = "responded"]
    OBVIOUS
  <2>4. invitation' = [invitation EXCEPT ![f] = row]
    BY <2>1, <2>3
  <2>5. ASSUME NEW g \in Rfps, NEW w \in answers'[g]
        PROVE  invitation'[g][w] \in Answering
    <3>1. v \in InvitedVenues
      BY <1>9, AtWork DEF CommitResponse, Doing, RfpOps, v
    <3>2. w \in InvitedVenues /\ (w \in answers[g] \/ (g = f /\ w = v))
      BY <1>2, <2>2, <2>5, <3>1
    <3>3. invitation'[g][w] = IF g = f /\ w = v THEN "responded" ELSE invitation[g][w]
      BY <1>2, <2>3, <2>4, <3>2
    <3> QED BY <1>3, <3>2, <3>3 DEF Answering
  <2> QED BY <2>5 DEF AnswersAreKept, Undecided, Answering
<1> QED BY <1>4, <1>5, <1>6, <1>7, <1>8, <1>9 DEF RfpWrite

\* A request that loads rows while all others are idle.
LEMMA LoadKeeps ==
    ASSUME RfpInv, KeptInv, ~ RfpOverlap, NEW c \in RfpRequests, LoadRows(c)
    PROVE  KeptInv'
<1>1. \A d \in RfpRequests : rfpCall[d].op = "idle"
  BY DEF LoadRows, NoRequest
<1>2. rfpCall \in [RfpRequests -> CallTypes]
  BY DEF RfpInv, RfpTypes, RequestsTyped
<1>3. PICK call : /\ rfpCall' = [rfpCall EXCEPT ![c] = call]
                  /\ StillTrue(call)
  <2>1. PICK f \in Rfps :
        \/ \E op \in RfpOps :
            rfpCall' = [rfpCall EXCEPT ![c] =
                    [NoRfpCall EXCEPT !.op = op, !.rfp = f, !.seen = rfpStatus[f]]]
        \/ \E op \in VenueOps, v \in InvitedVenues :
            /\ OnVenue(op, f, v)
            /\ rfpCall' = [rfpCall EXCEPT ![c] =
                    [NoRfpCall EXCEPT !.op = op, !.rfp = f, !.venue = v,
                                      !.seen = rfpStatus[f]]]
    BY DEF LoadRows
  <2> DEFINE Good(call) ==
               /\ rfpCall' = [rfpCall EXCEPT ![c] = call]
               /\ StillTrue(call)
  <2>2. ASSUME NEW op \in RfpOps,
               rfpCall' = [rfpCall EXCEPT ![c] =
                    [NoRfpCall EXCEPT !.op = op, !.rfp = f, !.seen = rfpStatus[f]]]
        PROVE  \E call : Good(call)
    <3>1. PICK call : call = [NoRfpCall EXCEPT !.op = op, !.rfp = f,
                                               !.seen = rfpStatus[f]]
      OBVIOUS
    <3>2. StillTrue(call)
      BY <3>1 DEF NoRfpCall, RfpOps, StillTrue
    <3>3. Good(call)
      BY <2>2, <3>1, <3>2
    <3> QED BY <3>3
  <2>3. ASSUME NEW op \in VenueOps, NEW v \in InvitedVenues,
               OnVenue(op, f, v),
               rfpCall' = [rfpCall EXCEPT ![c] =
                    [NoRfpCall EXCEPT !.op = op, !.rfp = f, !.venue = v,
                                      !.seen = rfpStatus[f]]]
        PROVE  \E call : Good(call)
    <3>1. PICK call : call = [NoRfpCall EXCEPT !.op = op, !.rfp = f, !.venue = v,
                                               !.seen = rfpStatus[f]]
      OBVIOUS
    <3>2. call.op = op /\ call.rfp = f /\ call.venue = v
      BY <3>1 DEF NoRfpCall
    <3>3. op = "view" => CanView(f, v)
      BY <2>3 DEF OnVenue
    <3>4. op = "award" => CanAward(f, v)
      BY <2>3 DEF OnVenue
    <3>5. StillTrue(call)
      BY <3>2, <3>3, <3>4 DEF StillTrue, CanView, CanAward, With
    <3>6. Good(call)
      BY <2>3, <3>1, <3>5
    <3> QED BY <3>6
  <2> QED BY <2>1, <2>2, <2>3
<1>4. \A d \in RfpRequests : rfpCall'[d] = IF d = c THEN call ELSE rfpCall[d]
  BY <1>2, <1>3
<1>5. UNCHANGED <<invitation, answers>>
  BY DEF LoadRows
<1>6. RequestsTakeTurns'
  BY <1>1, <1>4 DEF RequestsTakeTurns
<1>7. ReadsHold'
  BY <1>1, <1>3, <1>4, <1>5 DEF ReadsHold, StillTrue
<1> QED BY <1>5, <1>6, <1>7, AnswersStay DEF KeptInv

\* The task takes its turn while no request is at work, and marks silent
\* venues alone.
LEMMA DeadlineKeeps ==
    ASSUME RfpInv, KeptInv, ~ RfpOverlap, DeadlineStep PROVE KeptInv'
<1>1. \A d \in RfpRequests : rfpCall[d].op = "idle"
  BY DEF DeadlineStep, LoadOverdue, CountAnswers, MarkNoResponse, SettleRfp,
         TaskMayRun, NoRequest
<1>2. UNCHANGED <<rfpCall, answers>>
  BY DEF DeadlineStep, LoadOverdue, CountAnswers, MarkNoResponse, SettleRfp
<1>3. RequestsTakeTurns' /\ ReadsHold'
  BY <1>1, <1>2 DEF RequestsTakeTurns, ReadsHold, StillTrue
<1>4. AnswersAreKept'
  <2>1. CASE UNCHANGED invitation
    BY <1>2, <2>1, AnswersStay DEF KeptInv
  <2>2. ASSUME NEW f \in Rfps, MarkNoResponse(f) PROVE AnswersAreKept'
    <3>1. \A g \in Rfps, v \in InvitedVenues :
              invitation[g][v] \in Answering => invitation'[g][v] = invitation[g][v]
      BY <2>2, Marked DEF RfpInv, RfpTypes, Answering, Silent
    <3>2. \A g \in Rfps : answers[g] \subseteq InvitedVenues
      BY DEF RfpInv, RfpTypes, RfpTypeOK
    <3> QED BY <1>2, <3>1, <3>2 DEF KeptInv, AnswersAreKept, Undecided, Answering
  <2> QED BY <2>1, <2>2 DEF DeadlineStep, LoadOverdue, CountAnswers, SettleRfp
<1> QED BY <1>3, <1>4 DEF KeptInv

LEMMA RfpNextKeeps ==
    ASSUME RfpInv, KeptInv, ~ RfpOverlap, [RfpNext]_rfpVars PROVE KeptInv'
<1>1. ASSUME UNCHANGED <<rfpCall, invitation, answers>> PROVE KeptInv'
  BY <1>1, AnswersStay DEF KeptInv, RequestsTakeTurns, ReadsHold, StillTrue
<1>2. CASE UNCHANGED rfpVars
  BY <1>1, <1>2 DEF rfpVars
<1>3. ASSUME NEW c \in RfpRequests, LoadRows(c) PROVE KeptInv'
  BY <1>3, LoadKeeps
<1>4. ASSUME NEW c \in RfpRequests, RfpWrite(c) PROVE KeptInv'
  BY <1>4, WriterAlone, WriteKeeps DEF KeptInv
<1>5. ASSUME NEW f \in Rfps,
             CreateRfp(f) \/ DeadlinePasses(f) \/ \E g \in Rfps : DuplicateRfp(f, g)
      PROVE  KeptInv'
  BY <1>1, <1>5 DEF CreateRfp, DeadlinePasses, DuplicateRfp
<1>6. CASE DeadlineStep
  BY <1>6, DeadlineKeeps
<1>7. CASE RfpWorkerRestarts
  BY <1>1, <1>7 DEF RfpWorkerRestarts
<1>8. CASE RfpApiRestarts
  <2>1. \A c \in RfpRequests : rfpCall'[c].op = "idle"
    BY <1>8 DEF RfpApiRestarts, NoRfpCall
  <2>2. UNCHANGED <<invitation, answers>>
    BY <1>8 DEF RfpApiRestarts
  <2>3. RequestsTakeTurns' /\ ReadsHold'
    BY <2>1 DEF RequestsTakeTurns, ReadsHold, StillTrue
  <2> QED BY <2>2, <2>3, AnswersStay DEF KeptInv
<1> QED BY <1>2, <1>3, <1>4, <1>5, <1>6, <1>7, <1>8 DEF RfpNext

\* While requests and the deadline task take turns, a venue that responded
\* stays in the comparison until it is decided on, whatever restarts cut a
\* request or the task short: a view finds the venue as it read it, and the
\* task marks silent venues alone (mark_venue_viewed, process_rfp_deadlines).
THEOREM ResponsesStayInTheRunning ==
    ASSUME ~ RfpOverlap PROVE RfpSpec => []AnswersAreKept
<1>1. RfpInit => KeptInv
  BY DEF RfpInit, KeptInv, RequestsTakeTurns, ReadsHold, StillTrue, AnswersAreKept, NoRfpCall
<1>2. RfpInv /\ [RfpNext]_rfpVars => RfpInv'
  BY RfpNextOK
<1>3. RfpInv /\ KeptInv /\ [RfpNext]_rfpVars => KeptInv'
  BY RfpNextKeeps
<1>4. KeptInv => AnswersAreKept
  BY DEF KeptInv
<1> QED BY RfpInitOK, <1>1, <1>2, <1>3, <1>4, PTL DEF RfpSpec

\* No RFP has two venues that are awarded.
OneVenueIsAwarded ==
    \A f \in Rfps, v, w \in InvitedVenues :
        invitation[f][v] = "awarded" /\ invitation[f][w] = "awarded" => v = w

\* One row of a venue is written.
VenueMarked(f, v, s) == invitation' = [invitation EXCEPT ![f][v] = s]

LEMMA OneInvitation ==
    ASSUME RfpInv, NEW f \in Rfps, NEW v \in InvitedVenues, NEW s,
           VenueMarked(f, v, s)
    PROVE  \A g \in Rfps, w \in InvitedVenues :
               invitation'[g][w] = IF g = f /\ w = v THEN s ELSE invitation[g][w]
<1>1. invitation \in [Rfps -> [InvitedVenues -> Invitations]]
  BY DEF RfpInv, RfpTypes, RfpTypeOK
<1>2. PICK row : row = [invitation[f] EXCEPT ![v] = s]
  OBVIOUS
<1>3. invitation' = [invitation EXCEPT ![f] = row]
  BY <1>2 DEF VenueMarked
<1>4. \A w \in InvitedVenues : row[w] = IF w = v THEN s ELSE invitation[f][w]
  BY <1>1, <1>2
<1>5. invitation'[f] = row /\ \A g \in Rfps : g # f => invitation'[g] = invitation[g]
  BY <1>1, <1>3
<1> TAKE g \in Rfps, w \in InvitedVenues
<1>6. CASE g = f
  BY <1>4, <1>5, <1>6
<1>7. CASE g # f
  BY <1>5, <1>7
<1> QED BY <1>6, <1>7

\* Nobody is awarded who was not before.
NoNewAward ==
    \A f \in Rfps, v \in InvitedVenues :
        invitation'[f][v] = "awarded" => invitation[f][v] = "awarded"

\* Of the requests, only an award awards.
LEMMA OthersAwardNobody ==
    ASSUME RfpInv, NEW c \in RfpRequests, RfpWrite(c), ~ AwardVenue(c)
    PROVE  NoNewAward
<1> DEFINE f == rfpCall[c].rfp
           v == rfpCall[c].venue
<1>1. invitation \in [Rfps -> [InvitedVenues -> Invitations]]
  BY DEF RfpInv, RfpTypes, RfpTypeOK
<1>2. CASE UNCHANGED invitation
  BY <1>2 DEF NoNewAward
<1>3. ASSUME NEW g \in Rfps, NEW w \in InvitedVenues, NEW s, s # "awarded",
             VenueMarked(g, w, s)
      PROVE  NoNewAward
  BY <1>3, OneInvitation DEF NoNewAward
<1>4. CASE AddVenue(c) \/ MarkViewed(c) \/ ShortlistVenue(c) \/ DeclineVenue(c)
           \/ RemoveVenue(c) \/ CommitResponse(c)
  <2>1. f \in Rfps /\ v \in InvitedVenues
    BY <1>4, AtWork DEF AddVenue, MarkViewed, ShortlistVenue, DeclineVenue,
                        RemoveVenue, CommitResponse, Doing, RfpOps
  <2>2. \/ UNCHANGED invitation
        \/ \E s \in {"received", "viewed", "shortlisted", "declined", "none", "responded"} :
              VenueMarked(f, v, s)
    BY <1>4 DEF AddVenue, MarkViewed, ShortlistVenue, DeclineVenue, RemoveVenue,
                CommitResponse, SetInvitation, VenueMarked
  <2> HIDE DEF f, v
  <2> QED BY <1>2, <1>3, <2>1, <2>2
<1>5. ASSUME NEW w, DeclineOther(c, w) PROVE NoNewAward
  <2>1. CASE w = "none"
    BY <1>2, <1>5, <2>1 DEF DeclineOther
  <2>2. CASE w # "none"
    <3>1. rfpCall[c].op = "declineOthers" /\ w \in rfpCall[c].rest
      BY <1>5 DEF DeclineOther, Doing
    <3>2. f \in Rfps /\ rfpCall[c] \in CallTypes
      BY <3>1, AtWork
    <3>3. w \in InvitedVenues
      BY <2>2, <3>1, <3>2 DEF CallTypes
    <3>4. VenueMarked(f, w, "declined")
      BY <1>5, <2>2 DEF DeclineOther, SetInvitation, VenueMarked
    <3> HIDE DEF f
    <3> QED BY <1>3, <3>2, <3>3, <3>4
  <2> QED BY <2>1, <2>2
<1>6. CASE DeleteRfp(c)
  <2>1. invitation' = [invitation EXCEPT ![f] = [u \in InvitedVenues |-> "none"]]
    BY <1>6 DEF DeleteRfp
  <2> HIDE DEF f
  <2>2. \A g \in Rfps, u \in InvitedVenues :
            invitation'[g][u] = IF g = f THEN "none" ELSE invitation[g][u]
    BY <1>1, <2>1
  <2> QED BY <2>2 DEF NoNewAward
<1>7. CASE UpdateRfp(c) \/ SendRfp(c) \/ ExtendDeadline(c) \/ CloseRfp(c)
           \/ AwardRfp(c) \/ CountResponses(c)
  <2>1. UNCHANGED invitation
    BY <1>7 DEF UpdateRfp, SendRfp, ExtendDeadline, CloseRfp, AwardRfp, CountResponses
  <2> QED BY <1>2, <2>1
<1> QED BY <1>4, <1>5, <1>6, <1>7 DEF RfpWrite

LEMMA AwardsStep ==
    ASSUME RfpInv, ReadsHold, OneVenueIsAwarded, [RfpNext]_rfpVars
    PROVE  OneVenueIsAwarded'
<1>1. ASSUME NoNewAward PROVE OneVenueIsAwarded'
  BY <1>1 DEF NoNewAward, OneVenueIsAwarded
<1>2. ASSUME UNCHANGED invitation PROVE OneVenueIsAwarded'
  BY <1>2 DEF OneVenueIsAwarded
<1>3. ASSUME NEW c \in RfpRequests, AwardVenue(c) PROVE OneVenueIsAwarded'
  <2>1. PICK f, v : f = rfpCall[c].rfp /\ v = rfpCall[c].venue
    OBVIOUS
  <2>2. rfpCall[c].op = "award"
    BY <1>3 DEF AwardVenue, Doing
  <2>3. f \in Rfps /\ v \in InvitedVenues
    BY <2>1, <2>2, AtWork DEF RfpOps
  <2>4. \A w \in InvitedVenues : invitation[f][w] # "awarded"
    BY <2>1, <2>2 DEF ReadsHold, StillTrue
  <2>5. VenueMarked(f, v, "awarded")
    BY <1>3, <2>1 DEF AwardVenue, SetInvitation, VenueMarked
  <2>6. \A g \in Rfps, w \in InvitedVenues : invitation'[g][w] =
            IF g = f /\ w = v THEN "awarded" ELSE invitation[g][w]
    BY <2>3, <2>5, OneInvitation
  <2> QED BY <2>3, <2>4, <2>6 DEF OneVenueIsAwarded
<1>4. ASSUME NEW c \in RfpRequests, RfpWrite(c) PROVE OneVenueIsAwarded'
  BY <1>1, <1>3, <1>4, OthersAwardNobody
<1>5. ASSUME NEW f \in Rfps, MarkNoResponse(f) PROVE OneVenueIsAwarded'
  <2>1. NoNewAward
    BY <1>5, Marked DEF RfpInv, RfpTypes, NoNewAward
  <2> QED BY <1>1, <2>1
<1>6. CASE DeadlineStep
  BY <1>2, <1>5, <1>6 DEF DeadlineStep, LoadOverdue, CountAnswers, SettleRfp
<1>7. ASSUME NEW f \in Rfps,
             CreateRfp(f) \/ DeadlinePasses(f) \/ \E g \in Rfps : DuplicateRfp(f, g)
      PROVE  UNCHANGED invitation
  BY <1>7 DEF CreateRfp, DeadlinePasses, DuplicateRfp
<1>8. CASE RfpApiRestarts \/ RfpWorkerRestarts \/ UNCHANGED rfpVars
  BY <1>2, <1>8 DEF RfpApiRestarts, RfpWorkerRestarts, rfpVars
<1>9. ASSUME NEW c \in RfpRequests, LoadRows(c) PROVE UNCHANGED invitation
  BY <1>9 DEF LoadRows
<1> QED BY <1>2, <1>4, <1>6, <1>7, <1>8, <1>9 DEF RfpNext

\* While requests and the deadline task take turns, no RFP is awarded to two
\* venues, although the check and the write are apart and restarts may cut an
\* award off before the RFP is marked and the others are declined (award_venue
\* looks at the venues and never at the status of the RFP).
THEOREM OneAwardPerRfp ==
    ASSUME ~ RfpOverlap PROVE RfpSpec => []OneVenueIsAwarded
<1>1. RfpInit => KeptInv /\ OneVenueIsAwarded
  BY DEF RfpInit, KeptInv, RequestsTakeTurns, ReadsHold, StillTrue, AnswersAreKept,
         NoRfpCall, OneVenueIsAwarded
<1>2. RfpInv /\ [RfpNext]_rfpVars => RfpInv'
  BY RfpNextOK
<1>3. RfpInv /\ KeptInv /\ [RfpNext]_rfpVars => KeptInv'
  BY RfpNextKeeps
<1>4. RfpInv /\ KeptInv /\ OneVenueIsAwarded /\ [RfpNext]_rfpVars => OneVenueIsAwarded'
  BY AwardsStep DEF KeptInv
<1> QED BY RfpInitOK, <1>1, <1>2, <1>3, <1>4, PTL DEF RfpSpec

-----------------------------------------------------------------------------
(* The agents: types                                                        *)

Steps == {"limits", "registered", "register", "decide", "wait", "save",
          "act", "learn", "failed"}

CollectorTypes ==
    [at : Steps, session : AgentSessions, run : Runs,
     mode : Modes \cup {Nobody}, orphan : BOOLEAN]

\* The mode is known when the run is registered.
CollectorTyped ==
    /\ collector \in CollectorTypes \cup {Nobody}
    /\ CollectorAt("register") => collector.mode \in Modes

RequestTypes ==
    [at : {"new", "fetch", "delete", "expired", "act", "learn", "failed", "answered"},
     session : AgentSessions \cup {Nobody}, approve : BOOLEAN,
     run : Runs \cup {Nobody}, intact : BOOLEAN]

\* A request that found a decision knows its run.
Found(req) ==
    /\ req.at \notin {"new", "answered"} => req.session \in AgentSessions
    /\ req.at \notin {"new", "answered", "fetch"} => req.run \in Runs

ApproversTyped ==
    /\ request \in [Approvers -> RequestTypes]
    /\ \A q \in Approvers : Found(request[q])

AgentTypes == AgentTypeOK /\ CollectorTyped /\ ApproversTyped

LEMMA AgentInitTypes == AgentInit => AgentTypes
<1> SUFFICES ASSUME AgentInit PROVE AgentTypes
  OBVIOUS
<1>1. AgentTypeOK
  BY AgentTimesAssumption DEF AgentInit, AgentTypeOK, Runs
<1>2. CollectorTyped
  BY DEF AgentInit, CollectorTyped, CollectorAt
<1>3. ApproversTyped
  BY DEF AgentInit, ApproversTyped, RequestTypes, Found, IdleRequest
<1> QED BY <1>1, <1>2, <1>3 DEF AgentTypes

\* What the step of a collector knows.
LEMMA AtStep ==
    ASSUME AgentTypes, NEW step, CollectorAt(step)
    PROVE  collector \in CollectorTypes /\ collector # Nobody /\ collector.at = step
BY DEF AgentTypes, CollectorTyped, CollectorAt

LEMMA RequestMovesOn ==
    ASSUME AgentTypes, NEW q \in Approvers, NEW req \in RequestTypes, Found(req),
           request' = [request EXCEPT ![q] = req]
    PROVE  /\ ApproversTyped'
           /\ \A p \in Approvers : request'[p] = IF p = q THEN req ELSE request[p]
BY DEF AgentTypes, ApproversTyped, Found

LEMMA AnsweredOK ==
    ASSUME AgentTypes, NEW q \in Approvers
    PROVE  /\ [IdleRequest EXCEPT !.at = "answered"] \in RequestTypes
           /\ Found([IdleRequest EXCEPT !.at = "answered"])
           /\ Answered(q) = [request EXCEPT ![q] = [IdleRequest EXCEPT !.at = "answered"]]
BY DEF IdleRequest, RequestTypes, Found, Answered

LEMMA RequestsSame ==
    ASSUME AgentTypes, UNCHANGED request PROVE ApproversTyped'
BY DEF AgentTypes, ApproversTyped, Found

\* The collector finds an anomaly or goes through the limits.
LEMMA LimitsTypes ==
    ASSUME AgentTypes,
           (\E s \in AgentSessions : DetectAnomaly(s)) \/ IsInterventionAllowed
    PROVE  AgentTypes'
<1>1. AgentTypeOK
  BY DEF AgentTypes
<1>2. UNCHANGED <<clock, config, storedMode, agents, waiting, stored, request,
                  saved, recovered, learnt, executed, dismissed>>
  BY DEF DetectAnomaly, IsInterventionAllowed, rewards
<1>3. runs' \in 0..MaxRuns /\ CollectorTyped'
  <2>1. ASSUME NEW s \in AgentSessions, DetectAnomaly(s)
        PROVE  runs' \in 0..MaxRuns /\ CollectorTyped'
    <3>1. runs + 1 \in Runs /\ runs' = runs + 1
      BY <1>1, <2>1, AgentTimesAssumption DEF DetectAnomaly, AgentTypeOK, Runs
    <3>2. collector' = [at |-> "limits", session |-> s, run |-> runs + 1,
                        mode |-> Nobody, orphan |-> FALSE]
      BY <2>1 DEF DetectAnomaly
    <3>3. collector' \in CollectorTypes /\ collector'.at = "limits"
      BY <3>1, <3>2 DEF CollectorTypes, Steps
    <3> QED BY <3>1, <3>3, AgentTimesAssumption DEF CollectorTyped, CollectorAt, Runs
  <2>2. CASE IsInterventionAllowed
    <3>1. collector \in CollectorTypes
      BY <2>2, AtStep DEF IsInterventionAllowed
    <3>2. collector' \in {[collector EXCEPT !.at = "registered"], Nobody}
      BY <2>2 DEF IsInterventionAllowed
    <3>3. CollectorTyped'
      BY <3>1, <3>2 DEF CollectorTyped, CollectorTypes, CollectorAt, Steps
    <3>4. UNCHANGED runs
      BY <2>2 DEF IsInterventionAllowed
    <3> QED BY <1>1, <3>3, <3>4 DEF AgentTypeOK
  <2> QED BY <2>1, <2>2
<1>4. AgentTypeOK'
  BY <1>1, <1>2, <1>3 DEF AgentTypeOK
<1> QED BY <1>2, <1>3, <1>4, RequestsSame DEF AgentTypes

\* The collector goes on with its run.
LEMMA RunTypes ==
    ASSUME AgentTypes,
           \/ ReadEventMode \/ RunAgent \/ SkipIntervention \/ AddPendingApproval
           \/ \E b \in BOOLEAN : \/ CheckApproval(b) \/ SavePendingApproval(b)
                                 \/ ActOnOwn(b) \/ LearnFromOwn(b)
    PROVE  AgentTypes'
<1>1. AgentTypeOK
  BY DEF AgentTypes
<1>2. UNCHANGED <<clock, storedMode, runs, request, dismissed>>
  BY DEF ReadEventMode, RunAgent, SkipIntervention, AddPendingApproval,
         CheckApproval, SavePendingApproval, ActOnOwn, LearnFromOwn
<1>3. CASE ReadEventMode
  <2>1. collector \in CollectorTypes
    BY <1>3, AtStep DEF ReadEventMode
  <2>2. PICK mode \in Modes : collector' = [collector EXCEPT !.at = "register", !.mode = mode]
    BY <1>1, <1>3 DEF ReadEventMode, AgentTypeOK, Modes
  <2>3. CollectorTyped'
    BY <2>1, <2>2 DEF CollectorTyped, CollectorTypes, CollectorAt, Steps
  <2>4. AgentTypeOK'
    BY <1>1, <1>2, <1>3 DEF ReadEventMode, AgentTypeOK, memory, rewards
  <2> QED BY <1>2, <2>3, <2>4, RequestsSame DEF AgentTypes
<1>4. CASE RunAgent
  <2>1. collector \in CollectorTypes
    BY <1>4, AtStep DEF RunAgent
  <2>2. PICK mode \in Modes :
          /\ config' = [config EXCEPT ![collector.session] = mode]
          /\ agents' = agents \cup {collector.session}
          /\ collector' = [collector EXCEPT !.at = "decide", !.mode = mode]
    <3>1. PICK mode : /\ config' = [config EXCEPT ![collector.session] = mode]
                      /\ agents' = agents \cup {collector.session}
                      /\ collector' = [collector EXCEPT !.at = "decide", !.mode = mode]
                      /\ mode = IF collector.at = "register" THEN collector.mode
                                ELSE config[collector.session]
      BY <1>4 DEF RunAgent
    <3>2. mode \in Modes
      BY <1>1, <1>4, <2>1, <3>1
         DEF RunAgent, AgentTypes, CollectorTyped, CollectorAt, CollectorTypes, AgentTypeOK
    <3> QED BY <3>1, <3>2
  <2>3. CollectorTyped'
    BY <2>1, <2>2 DEF CollectorTyped, CollectorTypes, CollectorAt, Steps
  <2>4. UNCHANGED <<waiting, stored, saved, recovered, learnt, executed>>
    BY <1>4 DEF RunAgent, rewards
  <2>5. AgentTypeOK'
    BY <1>1, <1>2, <2>1, <2>2, <2>4 DEF AgentTypeOK, CollectorTypes
  <2> QED BY <1>2, <2>3, <2>5, RequestsSame DEF AgentTypes
<1>5. CASE SkipIntervention
  <2>1. CollectorTyped'
    BY <1>5 DEF SkipIntervention, CollectorTyped, CollectorAt
  <2>2. AgentTypeOK'
    BY <1>1, <1>2, <1>5 DEF SkipIntervention, AgentTypeOK, memory, rewards
  <2> QED BY <1>2, <2>1, <2>2, RequestsSame DEF AgentTypes
<1>6. CASE AddPendingApproval
  <2>1. collector \in CollectorTypes
    BY <1>6, AtStep DEF AddPendingApproval
  <2>2. CollectorTyped'
    BY <1>6, <2>1 DEF AddPendingApproval, CollectorTyped, CollectorTypes, CollectorAt, Steps
  <2>3. [run |-> collector.run, at |-> clock] \in Decisions
    BY <1>1, <2>1, AgentTimesAssumption DEF CollectorTypes, Decisions, AgentTypeOK
  <2>4. waiting' \in [AgentSessions -> Decisions \cup {Nobody}]
    BY <1>1, <1>6, <2>3 DEF AddPendingApproval, AgentTypeOK
  <2>5. AgentTypeOK'
    BY <1>1, <1>2, <1>6, <2>4 DEF AddPendingApproval, AgentTypeOK, rewards
  <2> QED BY <1>2, <2>2, <2>5, RequestsSame DEF AgentTypes
<1>7. ASSUME NEW b \in BOOLEAN, CheckApproval(b) PROVE AgentTypes'
  <2>1. collector \in CollectorTypes
    BY <1>7, AtStep DEF CheckApproval
  <2>2. PICK step \in {"act", "wait"} : collector' = [collector EXCEPT !.at = step]
    BY <1>7 DEF CheckApproval
  <2>3. CollectorTyped'
    BY <2>1, <2>2 DEF CollectorTyped, CollectorTypes, CollectorAt, Steps
  <2>4. AgentTypeOK'
    BY <1>1, <1>2, <1>7 DEF CheckApproval, AgentTypeOK, memory, rewards
  <2> QED BY <1>2, <2>3, <2>4, RequestsSame DEF AgentTypes
<1>8. ASSUME NEW b \in BOOLEAN, SavePendingApproval(b) PROVE AgentTypes'
  <2>1. collector \in CollectorTypes
    BY <1>8, AtStep DEF SavePendingApproval
  <2>2. CollectorTyped'
    BY <1>8 DEF SavePendingApproval, CollectorTyped, CollectorAt
  <2>3. [run |-> collector.run, at |-> clock] \in Decisions
    BY <1>1, <2>1, AgentTimesAssumption DEF CollectorTypes, Decisions, AgentTypeOK
  <2>4. stored' \in [AgentSessions -> Decisions \cup {Nobody}]
    BY <1>1, <1>8, <2>3 DEF SavePendingApproval, AgentTypeOK
  <2>5. AgentTypeOK'
    BY <1>1, <1>2, <1>8, <2>4 DEF SavePendingApproval, AgentTypeOK, memory, rewards
  <2> QED BY <1>2, <2>2, <2>5, RequestsSame DEF AgentTypes
<1>9. ASSUME NEW b \in BOOLEAN, ActOnOwn(b) PROVE AgentTypes'
  <2>1. collector \in CollectorTypes
    BY <1>9, AtStep DEF ActOnOwn
  <2>2. PICK step \in {"learn", "failed"} : collector' = [collector EXCEPT !.at = step]
    BY <1>9 DEF ActOnOwn
  <2>3. CollectorTyped'
    BY <2>1, <2>2 DEF CollectorTyped, CollectorTypes, CollectorAt, Steps
  <2>4. executed' \in [Runs -> Nat]
    BY <1>1, <1>9 DEF ActOnOwn, Execute, AgentTypeOK
  <2>5. AgentTypeOK'
    BY <1>1, <1>2, <1>9, <2>4 DEF ActOnOwn, AgentTypeOK, memory, rewards
  <2> QED BY <1>2, <2>3, <2>5, RequestsSame DEF AgentTypes
<1>10. ASSUME NEW b \in BOOLEAN, LearnFromOwn(b) PROVE AgentTypes'
  <2>1. collector \in CollectorTypes
    BY <1>10, AtStep DEF LearnFromOwn
  <2>2. CollectorTyped'
    BY <1>10 DEF LearnFromOwn, CollectorTyped, CollectorAt
  <2>3. saved' \cup recovered' \cup learnt' \subseteq Runs
    BY <1>1, <1>10, <2>1 DEF LearnFromOwn, Learn, AgentTypeOK, CollectorTypes
  <2>4. AgentTypeOK'
    BY <1>1, <1>2, <1>10, <2>3 DEF LearnFromOwn, AgentTypeOK, memory
  <2> QED BY <1>2, <2>2, <2>4, RequestsSame DEF AgentTypes
<1> QED BY <1>3, <1>4, <1>5, <1>6, <1>7, <1>8, <1>9, <1>10
\* The collector stays where it is.
LEMMA CollectorSame ==
    ASSUME AgentTypes, UNCHANGED collector PROVE CollectorTyped'
BY DEF AgentTypes, CollectorTyped, CollectorAt

\* An organizer's request goes on.
LEMMA TakeTypes ==
    ASSUME AgentTypes, NEW q \in Approvers, NEW s \in AgentSessions,
           NEW approve \in BOOLEAN, TakeFromMemory(q, s, approve)
    PROVE  AgentTypes'
<1>1. AgentTypeOK
  BY DEF AgentTypes
<1>2. PICK req : /\ request' = [request EXCEPT ![q] = req]
                 /\ req = IF waiting[s] = Nobody
                          THEN [IdleRequest EXCEPT !.at = "fetch", !.session = s,
                                                   !.approve = approve]
                          ELSE [at |-> IF Fresh(waiting[s]) THEN "delete" ELSE "expired",
                                session |-> s, approve |-> approve,
                                run |-> waiting[s].run, intact |-> TRUE]
  BY DEF TakeFromMemory
<1>3. waiting[s] # Nobody => waiting[s].run \in Runs
  BY <1>1 DEF AgentTypeOK, Decisions
<1>4. req \in RequestTypes /\ Found(req)
  BY <1>2, <1>3 DEF RequestTypes, Found, IdleRequest
<1>5. ApproversTyped'
  BY <1>2, <1>4, RequestMovesOn
<1>6. AgentTypeOK'
  BY <1>1, <1>3 DEF TakeFromMemory, AgentTypeOK, rewards
<1> QED BY <1>5, <1>6, CollectorSame DEF AgentTypes, TakeFromMemory

\* What a request finds in Redis it goes on with.
LEMMA FoundInRedis ==
    ASSUME request \in [Approvers -> RequestTypes], NEW q \in Approvers, NEW works,
           FetchFromRedis(q, works), request' # Answered(q)
    PROVE  \E req : /\ req = [request[q] EXCEPT !.at = "delete",
                                !.run = stored[request[q].session].run,
                                !.intact = Intact(TRUE)]
                    /\ request' = [request EXCEPT ![q] = req]
<1> DEFINE found == stored[request[q].session].run
<1>1. request[q] \in RequestTypes
  OBVIOUS
<1>2. request' = [request EXCEPT ![q].at = "delete", ![q].run = found, ![q].intact = Intact(TRUE)]
  BY DEF FetchFromRedis
<1>3. request' = [request EXCEPT ![q] = [request[q] EXCEPT !.at = "delete", !.run = found,
                                                           !.intact = Intact(TRUE)]]
  <2> HIDE DEF found
  <2> QED BY <1>1, <1>2 DEF RequestTypes
<1> QED BY <1>3

LEMMA RequestTypesKept ==
    ASSUME AgentTypes, NEW q \in Approvers, RequestStep(q) PROVE AgentTypes'
<1>0. request \in [Approvers -> RequestTypes]
  BY DEF AgentTypes, ApproversTyped
<1>1. AgentTypeOK
  BY DEF AgentTypes
<1>2. request[q] \in RequestTypes /\ Found(request[q])
  BY DEF AgentTypes, ApproversTyped
<1>3. UNCHANGED <<clock, config, storedMode, agents, collector, slots, runs, dismissed>>
  BY DEF RequestStep, FetchFromRedis, RemoveFromRedis, ActOnApproval,
         LearnFromApproval, memory
<1>4. PICK b \in BOOLEAN : \/ FetchFromRedis(q, b) \/ RemoveFromRedis(q, b)
                           \/ ActOnApproval(q, b) \/ LearnFromApproval(q, b)
  BY DEF RequestStep
<1>5. PICK req \in RequestTypes : Found(req) /\ request' = [request EXCEPT ![q] = req]
  <2>1. CASE request' = Answered(q)
    BY <2>1, AnsweredOK
  <2>2. CASE FetchFromRedis(q, b) /\ request' # Answered(q)
    <3>1. PICK req : /\ req = [request[q] EXCEPT !.at = "delete",
                                 !.run = stored[request[q].session].run,
                                 !.intact = Intact(TRUE)]
                     /\ request' = [request EXCEPT ![q] = req]
      BY <2>2, <1>0, FoundInRedis
    <3>2. request[q].session \in AgentSessions /\ stored[request[q].session] # Nobody
      BY <1>2, <2>2 DEF FetchFromRedis, At, Found
    <3>3. stored[request[q].session].run \in Runs
      BY <1>1, <3>2 DEF AgentTypeOK, Decisions
    <3>4. req \in RequestTypes /\ Found(req)
      BY <1>2, <3>1, <3>2, <3>3 DEF RequestTypes, Found, Intact
    <3> QED BY <3>1, <3>4
  <2>3. CASE RemoveFromRedis(q, b) /\ request' # Answered(q)
    <3>1. PICK req : /\ req = [request[q] EXCEPT !.at = "act"]
                     /\ request' = [request EXCEPT ![q] = req]
      BY <2>3 DEF RemoveFromRedis
    <3>2. req \in RequestTypes /\ Found(req)
      BY <1>2, <2>3, <3>1 DEF RequestTypes, Found, RemoveFromRedis, At
    <3> QED BY <3>1, <3>2
  <2>4. CASE ActOnApproval(q, b) /\ request' # Answered(q)
    <3>1. PICK req : /\ req = [request[q] EXCEPT !.at = IF b THEN "learn" ELSE "failed"]
                     /\ request' = [request EXCEPT ![q] = req]
      BY <2>4 DEF ActOnApproval
    <3>2. req \in RequestTypes /\ Found(req)
      BY <1>2, <2>4, <3>1 DEF RequestTypes, Found, ActOnApproval, At
    <3> QED BY <3>1, <3>2
  <2> QED BY <1>4, <2>1, <2>2, <2>3, <2>4 DEF LearnFromApproval
<1>6. ApproversTyped'
  BY <1>5, RequestMovesOn
<1>7. AgentTypeOK'
  <2>1. CASE FetchFromRedis(q, b)
    BY <1>1, <1>3, <2>1 DEF FetchFromRedis, AgentTypeOK, rewards
  <2>2. CASE RemoveFromRedis(q, b)
    BY <1>1, <1>3, <2>2 DEF RemoveFromRedis, AgentTypeOK, memory, rewards
  <2>3. CASE ActOnApproval(q, b)
    BY <1>1, <1>3, <2>3 DEF ActOnApproval, Execute, AgentTypeOK, memory, rewards
  <2>4. CASE LearnFromApproval(q, b)
    <3>1. request[q].run \in Runs
      BY <1>2, <2>4 DEF LearnFromApproval, At, Found
    <3> QED BY <1>1, <1>3, <2>4, <3>1 DEF LearnFromApproval, Learn, AgentTypeOK, memory
  <2> QED BY <1>4, <2>1, <2>2, <2>3, <2>4
<1> QED BY <1>3, <1>6, <1>7, CollectorSame DEF AgentTypes

LEMMA OrganizerTypes ==
    ASSUME AgentTypes,
           \/ \E s \in AgentSessions :
                 \/ RegisterForAgent(s) \/ UnregisterFromAgent(s)
                 \/ \E mode \in Modes : ChangeMode(s, mode)
    PROVE  AgentTypes'
<1>1. AgentTypeOK
  BY DEF AgentTypes
<1>2. UNCHANGED <<clock, storedMode, runs, stored, request, saved, recovered,
                  learnt, executed, dismissed>>
  BY DEF RegisterForAgent, UnregisterFromAgent, ChangeMode, rewards
<1>3. /\ config' \in [AgentSessions -> Modes \cup {Nobody}]
      /\ agents' \subseteq AgentSessions
  BY <1>1 DEF RegisterForAgent, UnregisterFromAgent, ChangeMode, CreateAgent,
              AgentTypeOK, Modes
<1>4. waiting' \in [AgentSessions -> Decisions \cup {Nobody}]
  BY <1>1 DEF RegisterForAgent, UnregisterFromAgent, ChangeMode, AgentTypeOK
<1>5. CollectorTyped'
  <2>1. CASE UNCHANGED collector
    BY <2>1, CollectorSame
  <2>2. CASE collector # Nobody /\ collector' = [collector EXCEPT !.orphan = TRUE]
    <3>1. collector \in CollectorTypes
      BY <2>2 DEF AgentTypes, CollectorTyped
    <3> QED BY <2>2, <3>1 DEF AgentTypes, CollectorTyped, CollectorTypes, CollectorAt
  <2> QED BY <2>1, <2>2 DEF RegisterForAgent, UnregisterFromAgent, ChangeMode
<1>6. AgentTypeOK'
  BY <1>1, <1>2, <1>3, <1>4 DEF AgentTypeOK
<1> QED BY <1>2, <1>5, <1>6, RequestsSame DEF AgentTypes

LEMMA PersistTypes ==
    ASSUME AgentTypes, organizer \in Modes \cup {Nobody}, NEW b, PersistMode(b)
    PROVE  AgentTypes'
<1>1. UNCHANGED <<clock, config, agents, waiting, slots, collector, runs, stored,
                  request, saved, recovered, learnt, executed, dismissed>>
  BY DEF PersistMode, memory, rewards
<1>2. storedMode' \in Modes \cup {Nobody}
  BY DEF PersistMode, AgentTypes, AgentTypeOK
<1>3. AgentTypeOK'
  BY <1>1, <1>2 DEF AgentTypes, AgentTypeOK
<1> QED BY <1>1, <1>3, RequestsSame, CollectorSame DEF AgentTypes

LEMMA RestTypes ==
    ASSUME AgentTypes,
           (\E r \in Runs : MeasureDelayedReward(r)) \/ RestartAgents \/ AgentTick
    PROVE  AgentTypes'
<1>1. AgentTypeOK
  BY DEF AgentTypes
<1>2. ASSUME NEW r \in Runs, MeasureDelayedReward(r) PROVE AgentTypes'
  <2>1. UNCHANGED <<collector, request>>
    BY <1>2 DEF MeasureDelayedReward
  <2>2. AgentTypeOK'
    BY <1>1, <1>2 DEF MeasureDelayedReward, AgentTypeOK, memory
  <2> QED BY <2>1, <2>2, RequestsSame, CollectorSame DEF AgentTypes
<1>3. CASE RestartAgents
  <2>1. AgentTypeOK'
    BY <1>1, <1>3 DEF RestartAgents, AgentTypeOK
  <2>2. CollectorTyped'
    BY <1>3 DEF RestartAgents, CollectorTyped, CollectorAt
  <2>3. ASSUME NEW q \in Approvers
        PROVE  request'[q] \in {IdleRequest, [IdleRequest EXCEPT !.at = "answered"]}
    <3>1. request'[q] = IF At(q, "new") THEN IdleRequest ELSE Answered(q)[q]
      BY <1>3 DEF RestartAgents
    <3>2. Answered(q)[q] = [IdleRequest EXCEPT !.at = "answered"]
      BY DEF Answered, AgentTypes, ApproversTyped
    <3> QED BY <3>1, <3>2
  <2>4. IdleRequest \in RequestTypes /\ Found(IdleRequest)
    BY DEF IdleRequest, RequestTypes, Found
  <2>5. \A q \in Approvers : request'[q] \in RequestTypes /\ Found(request'[q])
    BY <2>3, <2>4, AnsweredOK
  <2>6. request' = [q \in Approvers |-> request'[q]]
    BY <1>3 DEF RestartAgents
  <2>7. ApproversTyped'
    BY <2>5, <2>6 DEF ApproversTyped
  <2> QED BY <2>1, <2>2, <2>7 DEF AgentTypes
<1>4. CASE AgentTick
  <2>1. UNCHANGED <<collector, request>>
    BY <1>4 DEF AgentTick
  <2>2. clock' \in 0..LastTick
    BY <1>1, <1>4, AgentTimesAssumption DEF AgentTick, AgentTypeOK
  <2>3. AgentTypeOK'
    BY <1>1, <1>4, <2>2 DEF AgentTick, AgentTypeOK, memory, rewards
  <2> QED BY <2>1, <2>3, RequestsSame, CollectorSame DEF AgentTypes
<1> QED BY <1>2, <1>3, <1>4

\* The change of mode under way has a mode.
ModeChosen == organizer \in Modes \cup {Nobody}

LEMMA NextModeChosen ==
    ASSUME ModeChosen, [AgentNext]_agentVars PROVE ModeChosen'
BY DEF ModeChosen, AgentNext, agentVars, DetectAnomaly, RegisterForAgent,
       UnregisterFromAgent, ChangeMode, TakeFromMemory, CollectorStep,
       IsInterventionAllowed, ReadEventMode, RunAgent, SkipIntervention,
       AddPendingApproval, CheckApproval, SavePendingApproval, ActOnOwn,
       LearnFromOwn, RequestStep, FetchFromRedis, RemoveFromRedis,
       ActOnApproval, LearnFromApproval, PersistMode, MeasureDelayedReward,
       RestartAgents, AgentTick, organizing

LEMMA AgentNextTypes ==
    ASSUME AgentTypes, ModeChosen, [AgentNext]_agentVars PROVE AgentTypes'
<1>1. CASE UNCHANGED agentVars
  <2>1. AgentTypeOK'
    BY <1>1 DEF agentVars, AgentTypes, AgentTypeOK
  <2> QED BY <1>1, <2>1, RequestsSame, CollectorSame DEF agentVars, AgentTypes
<1>2. ASSUME NEW s \in AgentSessions,
             \/ DetectAnomaly(s) \/ RegisterForAgent(s) \/ UnregisterFromAgent(s)
             \/ \E mode \in Modes : ChangeMode(s, mode)
      PROVE  AgentTypes'
  BY <1>2, LimitsTypes, OrganizerTypes
<1>3. ASSUME NEW s \in AgentSessions, NEW q \in Approvers, NEW b \in BOOLEAN,
             TakeFromMemory(q, s, b)
      PROVE  AgentTypes'
  BY <1>3, TakeTypes
<1>4. CASE CollectorStep
  BY <1>4, LimitsTypes, RunTypes DEF CollectorStep
<1>5. ASSUME NEW q \in Approvers, RequestStep(q) PROVE AgentTypes'
  BY <1>5, RequestTypesKept
<1>6. ASSUME NEW b \in BOOLEAN, PersistMode(b) PROVE AgentTypes'
  BY <1>6, PersistTypes DEF ModeChosen
<1>7. CASE (\E r \in Runs : MeasureDelayedReward(r)) \/ RestartAgents \/ AgentTick
  BY <1>7, RestTypes
<1> QED BY <1>1, <1>2, <1>3, <1>4, <1>5, <1>6, <1>7 DEF AgentNext

\* The clock, modes, decisions and requests of the agents have their types in
\* every state, for any sessions, runs and restarts; a request that found a
\* decision knows its run.
THEOREM AgentStateTypes == AgentSpec => []AgentTypes
<1>1. AgentInit => ModeChosen
  BY DEF AgentInit, ModeChosen
<1>2. AgentTypes /\ ModeChosen /\ [AgentNext]_agentVars => AgentTypes'
  BY AgentNextTypes
<1>3. ModeChosen /\ [AgentNext]_agentVars => ModeChosen'
  BY NextModeChosen
<1> QED BY AgentInitTypes, <1>1, <1>2, <1>3, PTL DEF AgentSpec

-----------------------------------------------------------------------------
(* The hourly cap of the event *)

\* What the event's limiter recorded in one span.
Window(t) ==
    {x \in slots : /\ x.limiter = "long"
                   /\ t <= x.time
                   /\ x.time <= t + Limiters["long"].span}

CapInv ==
    /\ IsFiniteSet(slots)
    /\ \A x \in slots : x.time \in Nat
    /\ \A t \in 0..LastTick : Cardinality(Window(t)) <= MaxPerHour

\* The long limiter records only while the last span, which holds every window
\* that the present belongs to, has room under the cap.
LEMMA RoomUnderTheCap ==
    ASSUME AgentTypes, CapInv, NEW s, "long" \in Recording(s),
           NEW t \in 0..LastTick, t <= clock, clock <= t + Limiters["long"].span
    PROVE  Cardinality(Window(t)) + 1 <= MaxPerHour
<1>1. PICK L : L = Live("long", s)
  OBVIOUS
<1>2. L \subseteq slots /\ IsFiniteSet(L)
  <2>1. L \subseteq slots
    BY <1>1 DEF Live
  <2> QED BY <2>1, FS_Subset DEF CapInv
<1>3. PICK w : w = Window(t)
  OBVIOUS
<1>4. w \subseteq L
  <2>1. clock \in Int /\ Limiters["long"].span \in Int /\ t \in Int
    BY LimitersAssumption DEF AgentTypes, AgentTypeOK
  <2>2. ASSUME NEW x \in slots, x.limiter = "long", t <= x.time
        PROVE  x.time >= clock - Limiters["long"].span
    <3>1. x.time \in Int
      BY DEF CapInv
    <3> QED BY <2>1, <2>2, <3>1
  <2> QED BY <1>1, <1>3, <2>2 DEF Live, Window
<1>5. Cardinality(w) <= Cardinality(L) /\ Cardinality(w) \in Nat /\ Cardinality(L) \in Nat
  BY <1>2, <1>4, FS_Subset, FS_CardinalityType
<1>6. Cardinality(L) < Limiters["long"].slots
      /\ ~(MaxPerHour < Limiters["long"].slots /\ Cardinality(L) >= MaxPerHour)
  BY <1>1 DEF Recording, HasSlot, HourlyCapReached
<1>7. Limiters["long"].slots \in Nat /\ MaxPerHour \in Nat
  BY LimitersAssumption, AgentTimesAssumption
<1> QED BY <1>3, <1>5, <1>6, <1>7

LEMMA LimitsKeepCap ==
    ASSUME AgentTypes, CapInv, IsInterventionAllowed PROVE CapInv'
<1> DEFINE s == collector.session
           slot(l) == [limiter |-> l, session |-> s, run |-> collector.run,
                       time |-> clock]
<1>1. clock \in Nat
  BY DEF AgentTypes, AgentTypeOK
<1>2. slots' = slots \cup {slot(l) : l \in Recording(s)}
  BY DEF IsInterventionAllowed
<1>3. Recording(s) \subseteq {"short", "medium", "long"}
  BY DEF Recording
<1>4. PICK a, b, c : a = slot("short") /\ b = slot("medium") /\ c = slot("long")
  OBVIOUS
<1>5. slots' \subseteq ((slots \cup {a}) \cup {b}) \cup {c}
  BY <1>2, <1>3, <1>4
<1>6. IsFiniteSet(((slots \cup {a}) \cup {b}) \cup {c})
  BY FS_AddElement DEF CapInv
<1>7. IsFiniteSet(slots')
  BY <1>5, <1>6, FS_Subset
<1>8. ASSUME NEW x \in slots' PROVE x.time \in Nat
  BY <1>1, <1>2, <1>8 DEF CapInv
<1>9. ASSUME NEW t \in 0..LastTick
      PROVE  Cardinality(Window(t)') <= MaxPerHour
  <2>1. PICK w : w = Window(t)
    OBVIOUS
  <2>2. IsFiniteSet(w) /\ Cardinality(w) <= MaxPerHour
    <3>1. w \subseteq slots
      BY <2>1 DEF Window
    <3> QED BY <2>1, <3>1, FS_Subset DEF CapInv
  <2>3. CASE /\ "long" \in Recording(s)
             /\ t <= clock /\ clock <= t + Limiters["long"].span
    <3>1. Cardinality(w) + 1 <= MaxPerHour
      BY <2>1, <2>3, RoomUnderTheCap
    <3>2. Window(t)' \subseteq w \cup {c}
      BY <1>2, <1>3, <1>4, <2>1 DEF Window
    <3>3. /\ IsFiniteSet(w \cup {c})
          /\ Cardinality(w \cup {c}) <= Cardinality(w) + 1
      <4>1. Cardinality(w) \in Nat
        BY <2>2, FS_CardinalityType
      <4>2. /\ IsFiniteSet(w \cup {c})
            /\ \/ Cardinality(w \cup {c}) = Cardinality(w)
               \/ Cardinality(w \cup {c}) = Cardinality(w) + 1
        BY <2>2, FS_AddElement
      <4> QED BY <4>1, <4>2
    <3>4. /\ IsFiniteSet(Window(t)')
          /\ Cardinality(Window(t)') <= Cardinality(w \cup {c})
      BY <3>2, <3>3, FS_Subset
    <3>5. /\ Cardinality(w) \in Nat /\ Cardinality(w \cup {c}) \in Nat
          /\ Cardinality(Window(t)') \in Nat /\ MaxPerHour \in Nat
      BY <2>2, <3>3, <3>4, FS_CardinalityType, AgentTimesAssumption
    <3> QED BY <3>1, <3>3, <3>4, <3>5
  <2>4. CASE ~(/\ "long" \in Recording(s)
               /\ t <= clock /\ clock <= t + Limiters["long"].span)
    <3>1. Window(t)' = w
      BY <1>2, <1>3, <2>1, <2>4 DEF Window
    <3> QED BY <2>2, <3>1
  <2> QED BY <2>3, <2>4
<1> QED BY <1>7, <1>8, <1>9 DEF CapInv

LEMMA NextKeepsCap ==
    ASSUME AgentTypes, CapInv, [AgentNext]_agentVars PROVE CapInv'
<1>1. CASE IsInterventionAllowed
  BY <1>1, LimitsKeepCap
<1>2. CASE UNCHANGED slots
  BY <1>2 DEF CapInv, Window
<1>3. CASE slots' = {}
  <2>1. \A t \in 0..LastTick : Window(t)' = {}
    BY <1>3 DEF Window
  <2>2. MaxPerHour \in Nat
    BY AgentTimesAssumption
  <2> QED BY <1>3, <2>1, <2>2, FS_EmptySet DEF CapInv
<1>4. IsInterventionAllowed \/ UNCHANGED slots \/ slots' = {}
  BY DEF AgentNext, agentVars, DetectAnomaly, RegisterForAgent,
         UnregisterFromAgent, ChangeMode, TakeFromMemory, CollectorStep,
         ReadEventMode, RunAgent, SkipIntervention,
         AddPendingApproval, CheckApproval, SavePendingApproval, ActOnOwn,
         LearnFromOwn, RequestStep, FetchFromRedis, RemoveFromRedis,
         ActOnApproval, LearnFromApproval, PersistMode, MeasureDelayedReward,
         RestartAgents, AgentTick, memory
<1> QED BY <1>1, <1>2, <1>3, <1>4

\* Whatever the limiters' sizes, sessions, runs and the order of their checks,
\* the event's cap of interventions per hour holds in every window of an hour;
\* IsInterventionAllowed checks the span that ends now, and every window that
\* its new slot falls into has all its earlier slots there.
THEOREM TheHourlyCapIsKept == AgentSpec => []EventHourlyCap
<1>1. AgentInit => ModeChosen /\ CapInv
  <2>1. MaxPerHour \in Nat
    BY AgentTimesAssumption
  <2>2. AgentInit => \A t \in 0..LastTick : Window(t) = {}
    BY DEF AgentInit, Window
  <2> QED BY <2>1, <2>2, FS_EmptySet DEF AgentInit, ModeChosen, CapInv
<1>2. AgentTypes /\ ModeChosen /\ [AgentNext]_agentVars => AgentTypes'
  BY AgentNextTypes
<1>3. ModeChosen /\ [AgentNext]_agentVars => ModeChosen'
  BY NextModeChosen
<1>4. AgentTypes /\ CapInv /\ [AgentNext]_agentVars => CapInv'
  BY NextKeepsCap
<1>5. CapInv => EventHourlyCap
  BY DEF CapInv, EventHourlyCap, Window
<1> QED BY AgentInitTypes, <1>1, <1>2, <1>3, <1>4, <1>5, PTL DEF AgentSpec

-----------------------------------------------------------------------------
(* A decision is settled once *)

\* A run that may still be executed is kept in one place: by the collector ...
AgentHolds(r) ==
    /\ collector # Nobody /\ collector.run = r
    /\ collector.at \in {"limits", "registered", "register", "decide", "wait", "act"}

\* ... in the memory of an agent ...
MemoryHolds(s, r) == waiting[s] # Nobody /\ waiting[s].run = r

\* ... or by the request that approves it.
RequestHolds(q, r) ==
    /\ request[q].run = r /\ request[q].intact
    /\ request[q].at = "act" \/ (request[q].at = "delete" /\ request[q].approve)

OneKeeper(r) ==
    /\ AgentHolds(r) => /\ \A s \in AgentSessions : ~MemoryHolds(s, r)
                        /\ \A q \in Approvers : ~RequestHolds(q, r)
    /\ \A s \in AgentSessions : MemoryHolds(s, r) =>
          /\ \A u \in AgentSessions : MemoryHolds(u, r) => u = s
          /\ \A q \in Approvers : ~RequestHolds(q, r)
    /\ \A p, q \in Approvers : RequestHolds(p, r) /\ RequestHolds(q, r) => p = q

Held(r) ==
    \/ AgentHolds(r)
    \/ \E s \in AgentSessions : MemoryHolds(s, r)
    \/ \E q \in Approvers : RequestHolds(q, r)

Unsettled(r) == executed[r] = 0 /\ r \notin dismissed

\* What is kept is unsettled, what is settled was once detected.
SettledOnce(r) ==
    /\ OneKeeper(r)
    /\ Held(r) => Unsettled(r) /\ r <= runs
    /\ r > runs => Unsettled(r)
    /\ executed[r] + (IF r \in dismissed THEN 1 ELSE 0) <= 1

OnceInv == \A r \in Runs : SettledOnce(r)

\* The steps by which a keeper may only let go.
AgentLetsGo == \A r \in Runs : AgentHolds(r)' => AgentHolds(r)
MemoryLetsGo ==
    \A r \in Runs, s \in AgentSessions : MemoryHolds(s, r)' => MemoryHolds(s, r)
ApprovalsLetGo ==
    \A r \in Runs, q \in Approvers : RequestHolds(q, r)' => RequestHolds(q, r)

LEMMA KeepersLetGo ==
    ASSUME AgentTypes, OnceInv, AgentLetsGo, MemoryLetsGo, ApprovalsLetGo,
           UNCHANGED <<executed, dismissed, runs>>
    PROVE  OnceInv'
<1> SUFFICES ASSUME NEW r \in Runs PROVE SettledOnce(r)'
  BY DEF OnceInv
<1>1. SettledOnce(r)
  BY DEF OnceInv
<1>2. /\ AgentHolds(r)' => AgentHolds(r)
      /\ \A s \in AgentSessions : MemoryHolds(s, r)' => MemoryHolds(s, r)
      /\ \A q \in Approvers : RequestHolds(q, r)' => RequestHolds(q, r)
  BY DEF AgentLetsGo, MemoryLetsGo, ApprovalsLetGo
<1>3. OneKeeper(r)' /\ (Held(r)' => Held(r))
  BY <1>1, <1>2 DEF SettledOnce, OneKeeper, Held
<1> QED BY <1>1, <1>3 DEF SettledOnce, Unsettled

LEMMA MemoryStays == ASSUME UNCHANGED waiting PROVE MemoryLetsGo
BY DEF MemoryLetsGo, MemoryHolds
LEMMA ApprovalsStay == ASSUME UNCHANGED request PROVE ApprovalsLetGo
<1>1. \A r \in Runs, q \in Approvers : request'[q] = request[q]
  OBVIOUS
<1> QED BY <1>1 DEF ApprovalsLetGo, RequestHolds
LEMMA AgentStays == ASSUME UNCHANGED collector PROVE AgentLetsGo
BY DEF AgentLetsGo, AgentHolds

\* A run that is detected is new to every keeper.
LEMMA DetectedOnce ==
    ASSUME AgentTypes, OnceInv, NEW s \in AgentSessions, DetectAnomaly(s)
    PROVE  OnceInv'
<1> SUFFICES ASSUME NEW r \in Runs PROVE SettledOnce(r)'
  BY DEF OnceInv
<1>1. SettledOnce(r)
  BY DEF OnceInv
<1>2. /\ UNCHANGED <<waiting, request, executed, dismissed>> /\ runs' = runs + 1
      /\ collector = Nobody
      /\ collector' = [at |-> "limits", session |-> s, run |-> runs + 1,
                       mode |-> Nobody, orphan |-> FALSE]
  BY DEF DetectAnomaly
<1>3. r \in Int /\ runs \in Int
  BY DEF Runs, AgentTypes, AgentTypeOK
<1>4. /\ \A u \in AgentSessions : MemoryHolds(u, r)' <=> MemoryHolds(u, r)
      /\ \A q \in Approvers : RequestHolds(q, r)' <=> RequestHolds(q, r)
      /\ ~AgentHolds(r) /\ (AgentHolds(r)' => r = runs + 1)
      /\ Unsettled(r)' <=> Unsettled(r)
  BY <1>2 DEF MemoryHolds, RequestHolds, AgentHolds, Unsettled
<1>5. AgentHolds(r)' => ~Held(r) /\ Unsettled(r)
  BY <1>1, <1>3, <1>4 DEF SettledOnce
<1>6. OneKeeper(r)'
  BY <1>1, <1>4, <1>5 DEF SettledOnce, OneKeeper, Held
<1>7. Held(r)' => Held(r) \/ AgentHolds(r)'
  BY <1>4 DEF Held
<1>8. /\ Held(r)' => Unsettled(r)' /\ r <= runs'
      /\ r > runs' => Unsettled(r)'
  BY <1>1, <1>2, <1>3, <1>4, <1>5, <1>7 DEF SettledOnce
<1> QED BY <1>1, <1>2, <1>6, <1>8 DEF SettledOnce

\* The run of the collector moves into the memory of the agent.
LEMMA MovedToMemoryOnce ==
    ASSUME AgentTypes, OnceInv, AddPendingApproval PROVE OnceInv'
<1> SUFFICES ASSUME NEW r \in Runs PROVE SettledOnce(r)'
  BY DEF OnceInv
<1>1. SettledOnce(r)
  BY DEF OnceInv
<1>2. /\ UNCHANGED <<request, executed, dismissed, runs>>
      /\ collector' = [collector EXCEPT !.at = "save"]
      /\ collector \in CollectorTypes /\ collector # Nobody /\ collector.at = "wait"
  BY AtStep DEF AddPendingApproval
<1>3. ~AgentHolds(r)' /\ (AgentHolds(r) <=> collector.run = r)
  BY <1>2 DEF AgentHolds, CollectorTypes
<1>4. \A q \in Approvers : RequestHolds(q, r)' <=> RequestHolds(q, r)
  BY <1>2 DEF RequestHolds
<1>5. ASSUME NEW u \in AgentSessions, MemoryHolds(u, r)'
      PROVE  MemoryHolds(u, r) \/ (AgentHolds(r) /\ u = collector.session)
  BY <1>3, <1>5 DEF MemoryHolds, AddPendingApproval, AgentTypes, AgentTypeOK
<1>6. OneKeeper(r)' /\ (Held(r)' => Held(r))
  BY <1>1, <1>3, <1>4, <1>5 DEF SettledOnce, OneKeeper, Held
<1> QED BY <1>1, <1>2, <1>6 DEF SettledOnce, Unsettled

\* What a step executes was kept, and nobody keeps it afterwards.
LEMMA ExecutedOnce ==
    ASSUME AgentTypes, OnceInv, NEW x \in Runs, Held(x),
           UNCHANGED executed \/ Execute(x),
           AgentLetsGo, MemoryLetsGo, ApprovalsLetGo, ~Held(x)',
           UNCHANGED <<dismissed, runs>>
    PROVE  OnceInv'
<1> SUFFICES ASSUME NEW r \in Runs PROVE SettledOnce(r)'
  BY DEF OnceInv
<1>1. SettledOnce(r) /\ SettledOnce(x) /\ executed \in [Runs -> Nat]
  BY DEF OnceInv, AgentTypes, AgentTypeOK
<1>2. /\ AgentHolds(r)' => AgentHolds(r)
      /\ \A s \in AgentSessions : MemoryHolds(s, r)' => MemoryHolds(s, r)
      /\ \A q \in Approvers : RequestHolds(q, r)' => RequestHolds(q, r)
  BY DEF AgentLetsGo, MemoryLetsGo, ApprovalsLetGo
<1>3. OneKeeper(r)' /\ (Held(r)' => Held(r))
  BY <1>1, <1>2 DEF SettledOnce, OneKeeper, Held
<1>4. CASE r # x
  <2>1. executed'[r] = executed[r]
    BY <1>1, <1>4 DEF Execute
  <2> QED BY <1>1, <1>3, <2>1 DEF SettledOnce, Unsettled
<1>5. CASE r = x
  <2>1. executed[x] = 0 /\ x \notin dismissed /\ x <= runs
    BY <1>1 DEF SettledOnce, Unsettled
  <2>2. executed'[x] \in {0, 1}
    BY <1>1, <2>1 DEF Execute
  <2>3. r \in Int /\ runs \in Int
    BY DEF Runs, AgentTypes, AgentTypeOK
  <2>4. ~(r > runs')
    BY <1>5, <2>1, <2>3
  <2> QED BY <1>3, <1>5, <2>1, <2>2, <2>4 DEF SettledOnce
<1> QED BY <1>4, <1>5

LEMMA OwnExecutedOnce ==
    ASSUME AgentTypes, OnceInv, NEW b, ActOnOwn(b) PROVE OnceInv'
<1> DEFINE x == collector.run
<1>1. /\ UNCHANGED <<waiting, request, dismissed, runs>>
      /\ UNCHANGED executed \/ Execute(x)
      /\ collector \in CollectorTypes /\ collector # Nobody /\ collector.at = "act"
  BY AtStep DEF ActOnOwn, memory
<1>2. PICK step \in {"learn", "failed"} : collector' = [collector EXCEPT !.at = step]
  BY DEF ActOnOwn
<1>3. x \in Runs /\ AgentHolds(x) /\ \A r \in Runs : ~AgentHolds(r)'
  BY <1>1, <1>2 DEF AgentHolds, CollectorTypes
<1>4. AgentLetsGo /\ MemoryLetsGo /\ ApprovalsLetGo
  BY <1>1, <1>3, MemoryStays, ApprovalsStay DEF AgentLetsGo
<1>5. PICK y : y = x
  OBVIOUS
<1>6. SettledOnce(y) /\ AgentHolds(y)
  BY <1>3, <1>5 DEF OnceInv
<1>7. Held(y) /\ ~Held(y)'
  BY <1>3, <1>4, <1>5, <1>6
     DEF SettledOnce, OneKeeper, Held, MemoryLetsGo, ApprovalsLetGo
<1> QED BY <1>1, <1>3, <1>4, <1>5, <1>7, ExecutedOnce

\* The other steps of the collector only let go.
LEMMA CollectorOnce ==
    ASSUME AgentTypes, OnceInv, CollectorStep PROVE OnceInv'
<1>1. CASE AddPendingApproval
  BY <1>1, MovedToMemoryOnce
<1>2. ASSUME NEW b \in BOOLEAN, ActOnOwn(b) PROVE OnceInv'
  BY <1>2, OwnExecutedOnce
<1>3. CASE \/ IsInterventionAllowed \/ ReadEventMode \/ RunAgent \/ SkipIntervention
           \/ \E b \in BOOLEAN : \/ CheckApproval(b) \/ SavePendingApproval(b)
                                 \/ LearnFromOwn(b)
  <2>1. UNCHANGED <<waiting, request, executed, dismissed, runs>>
    BY <1>3 DEF IsInterventionAllowed, ReadEventMode, RunAgent, SkipIntervention,
                CheckApproval, SavePendingApproval, LearnFromOwn, memory
  <2>2. AgentLetsGo
    <3>1. CASE collector' = Nobody
      BY <3>1 DEF AgentLetsGo, AgentHolds
    <3>2. CASE collector' # Nobody
      <4>1. \/ CollectorAt("limits") \/ CollectorAt("registered")
            \/ CollectorAt("register") \/ CollectorAt("decide")
        BY <1>3, <3>2 DEF IsInterventionAllowed, ReadEventMode, RunAgent,
                          SkipIntervention, CheckApproval, SavePendingApproval,
                          LearnFromOwn
      <4>2. collector \in CollectorTypes /\ collector # Nobody
            /\ collector.at \in {"limits", "registered", "register", "decide"}
        BY <4>1 DEF AgentTypes, CollectorTyped, CollectorAt
      <4>3. collector'.run = collector.run
        BY <1>3, <3>2, <4>2
           DEF IsInterventionAllowed, ReadEventMode, RunAgent, SkipIntervention,
               CheckApproval, SavePendingApproval, LearnFromOwn, CollectorTypes
      <4> QED BY <4>2, <4>3 DEF AgentLetsGo, AgentHolds
    <3> QED BY <3>1, <3>2
  <2> QED BY <2>1, <2>2, MemoryStays, ApprovalsStay, KeepersLetGo
<1> QED BY <1>1, <1>2, <1>3 DEF CollectorStep

\* The agent's memory gives the decision away: to the request that approves
\* it, or to nobody when it is dismissed or too old.
LEMMA TakenOnce ==
    ASSUME AgentTypes, OnceInv, NEW q \in Approvers, NEW s \in AgentSessions,
           NEW approve \in BOOLEAN, TakeFromMemory(q, s, approve)
    PROVE  OnceInv'
<1> SUFFICES ASSUME NEW r \in Runs PROVE SettledOnce(r)'
  BY DEF OnceInv
<1>1. SettledOnce(r)
  BY DEF OnceInv
<1>2. /\ UNCHANGED <<collector, executed, runs>>
      /\ waiting' = [waiting EXCEPT ![s] = Nobody]
      /\ request[q].at = "new"
      /\ waiting \in [AgentSessions -> Decisions \cup {Nobody}]
      /\ request \in [Approvers -> RequestTypes]
  BY DEF TakeFromMemory, At, AgentTypes, AgentTypeOK, ApproversTyped
<1>3. AgentHolds(r)' <=> AgentHolds(r)
  BY <1>2 DEF AgentHolds
<1>4. \A u \in AgentSessions : MemoryHolds(u, r)' <=> u # s /\ MemoryHolds(u, r)
  BY <1>2 DEF MemoryHolds
<1>5. /\ \A p \in Approvers : p # q => (RequestHolds(p, r)' <=> RequestHolds(p, r))
      /\ ~RequestHolds(q, r)
      /\ RequestHolds(q, r)' => MemoryHolds(s, r) /\ approve
  <2>1. PICK req : /\ request' = [request EXCEPT ![q] = req]
                   /\ req = IF waiting[s] = Nobody
                            THEN [IdleRequest EXCEPT !.at = "fetch", !.session = s,
                                                     !.approve = approve]
                            ELSE [at |-> IF Fresh(waiting[s]) THEN "delete" ELSE "expired",
                                  session |-> s, approve |-> approve,
                                  run |-> waiting[s].run, intact |-> TRUE]
    BY DEF TakeFromMemory
  <2>2. \A p \in Approvers : request'[p] = IF p = q THEN req ELSE request[p]
    BY <1>2, <2>1
  <2>3. req.intact => /\ waiting[s] # Nobody /\ req.run = waiting[s].run
                      /\ req.approve = approve /\ req.at \in {"delete", "expired"}
    BY <2>1 DEF IdleRequest
  <2> QED BY <1>2, <2>2, <2>3 DEF RequestHolds, MemoryHolds
<1>6. (r \in dismissed' <=> r \in dismissed) \/ (MemoryHolds(s, r) /\ ~approve)
  BY DEF TakeFromMemory, MemoryHolds
<1>7. OneKeeper(r)'
  BY <1>1, <1>3, <1>4, <1>5 DEF SettledOnce, OneKeeper
<1>8. Held(r)' => Held(r)
  BY <1>3, <1>4, <1>5 DEF Held
<1>9. CASE r \in dismissed' <=> r \in dismissed
  BY <1>1, <1>2, <1>7, <1>8, <1>9 DEF SettledOnce, Unsettled
<1>10. CASE MemoryHolds(s, r) /\ ~approve
  <2>1. /\ ~AgentHolds(r)
        /\ \A u \in AgentSessions : u # s => ~MemoryHolds(u, r)
        /\ \A p \in Approvers : ~RequestHolds(p, r)
        /\ executed[r] = 0 /\ r <= runs
    BY <1>1, <1>10 DEF SettledOnce, OneKeeper, Held, Unsettled
  <2>2. ~Held(r)'
    BY <1>3, <1>4, <1>5, <1>10, <2>1 DEF Held
  <2>3. r \in Int /\ runs \in Int
    BY DEF Runs, AgentTypes, AgentTypeOK
  <2>4. executed'[r] + (IF r \in dismissed' THEN 1 ELSE 0) <= 1 /\ ~(r > runs')
    BY <1>2, <2>1, <2>3
  <2> QED BY <1>7, <2>2, <2>4 DEF SettledOnce
<1> QED BY <1>6, <1>9, <1>10

\* What a request found in Redis cannot be executed; it goes on with what it
\* took from memory until it has acted.
LEMMA RequestOnce ==
    ASSUME AgentTypes, OnceInv, NEW q \in Approvers, RequestStep(q) PROVE OnceInv'
<1>1. PICK b \in BOOLEAN : \/ FetchFromRedis(q, b) \/ RemoveFromRedis(q, b)
                           \/ ActOnApproval(q, b) \/ LearnFromApproval(q, b)
  BY DEF RequestStep
<1>2. UNCHANGED <<collector, dismissed, runs>>
  BY <1>1 DEF FetchFromRedis, RemoveFromRedis, ActOnApproval, LearnFromApproval
<1>3. AgentLetsGo
  BY <1>2, AgentStays
<1>4. request \in [Approvers -> RequestTypes] /\ Found(request[q])
      /\ request[q] \in RequestTypes
  BY DEF AgentTypes, ApproversTyped
<1>5. MemoryLetsGo
  <2>1. CASE UNCHANGED waiting
    BY <2>1, MemoryStays
  <2>2. CASE waiting' = [waiting EXCEPT ![request[q].session] = Nobody]
    BY <2>2 DEF MemoryLetsGo, MemoryHolds, AgentTypes, AgentTypeOK
  <2> QED BY <1>1, <2>1, <2>2 DEF FetchFromRedis, RemoveFromRedis, ActOnApproval,
                                  LearnFromApproval, memory
<1>6. CASE request' = Answered(q)
  <2>1. \A p \in Approvers : request'[p] = IF p = q
          THEN [IdleRequest EXCEPT !.at = "answered"] ELSE request[p]
    BY <1>4, <1>6, AnsweredOK
  <2>2. ApprovalsLetGo /\ \A r \in Runs : ~RequestHolds(q, r)'
    BY <2>1 DEF ApprovalsLetGo, RequestHolds, IdleRequest
  <2>3. CASE UNCHANGED executed
    BY <1>2, <1>3, <1>5, <2>2, <2>3, KeepersLetGo
  <2>4. CASE ActOnApproval(q, b) /\ executed' # executed
    BY <1>4, <1>6, <2>1, <2>4 DEF ActOnApproval, RequestTypes, IdleRequest
  <2> QED BY <1>1, <2>3, <2>4 DEF FetchFromRedis, RemoveFromRedis, LearnFromApproval
<1>7. CASE request' # Answered(q) /\ ~ActOnApproval(q, b)
  <2>1. UNCHANGED executed
    BY <1>1, <1>7 DEF FetchFromRedis, RemoveFromRedis, LearnFromApproval
  <2>2. ApprovalsLetGo
    <3>1. CASE FetchFromRedis(q, b)
      <4>1. PICK req : /\ req = [request[q] EXCEPT !.at = "delete",
                                   !.run = stored[request[q].session].run,
                                   !.intact = Intact(TRUE)]
                       /\ request' = [request EXCEPT ![q] = req]
        BY <1>4, <1>7, <3>1, FoundInRedis
      <4>2. ~req.intact
        BY <1>4, <4>1 DEF RequestTypes, Intact
      <4>3. \A p \in Approvers : request'[p] = IF p = q THEN req ELSE request[p]
        BY <1>4, <4>1
      <4> QED BY <4>2, <4>3 DEF ApprovalsLetGo, RequestHolds
    <3>2. CASE RemoveFromRedis(q, b)
      <4>1. PICK req : /\ req = [request[q] EXCEPT !.at = "act"]
                       /\ request' = [request EXCEPT ![q] = req]
        BY <1>7, <3>2 DEF RemoveFromRedis
      <4>2. \A p \in Approvers : request'[p] = IF p = q THEN req ELSE request[p]
        BY <1>4, <4>1
      <4>3. /\ req.run = request[q].run /\ req.intact = request[q].intact
            /\ request[q].at = "delete" /\ request[q].approve
        BY <1>4, <1>7, <3>2, <4>1 DEF RemoveFromRedis, At, RequestTypes
      <4> QED BY <4>2, <4>3 DEF ApprovalsLetGo, RequestHolds
    <3> QED BY <1>1, <1>7, <3>1, <3>2 DEF LearnFromApproval
  <2> QED BY <1>2, <1>3, <1>5, <2>1, <2>2, KeepersLetGo
<1>8. CASE request' # Answered(q) /\ ActOnApproval(q, b)
  <2>1. request[q].intact /\ request[q].at = "act" /\ request[q].run \in Runs
        /\ (UNCHANGED executed \/ Execute(request[q].run))
    BY <1>4, <1>8 DEF ActOnApproval, At, Found
  <2>2. PICK req : /\ req = [request[q] EXCEPT !.at = IF b THEN "learn" ELSE "failed"]
                   /\ request' = [request EXCEPT ![q] = req]
    BY <1>8, <2>1 DEF ActOnApproval
  <2>3. \A p \in Approvers : request'[p] = IF p = q THEN req ELSE request[p]
    BY <1>4, <2>2
  <2>4. req.at \in {"learn", "failed"}
    BY <1>4, <2>2 DEF RequestTypes
  <2>5. ApprovalsLetGo /\ \A r \in Runs : ~RequestHolds(q, r)'
    BY <2>3, <2>4 DEF ApprovalsLetGo, RequestHolds
  <2>6. PICK y \in Runs : y = request[q].run
    BY <2>1
  <2>7. SettledOnce(y) /\ RequestHolds(q, y)
    BY <2>1, <2>6 DEF OnceInv, RequestHolds
  <2>8. Held(y)
    BY <2>7 DEF Held
  <2>9. ~Held(y)'
    <3>1. ~AgentHolds(y) /\ \A s \in AgentSessions : ~MemoryHolds(s, y)
      BY <2>7 DEF SettledOnce, OneKeeper
    <3>2. \A p \in Approvers : RequestHolds(p, y) => p = q
      BY <2>7 DEF SettledOnce, OneKeeper
    <3> QED BY <1>3, <1>5, <2>5, <3>1, <3>2
            DEF Held, AgentLetsGo, MemoryLetsGo, ApprovalsLetGo
  <2> QED BY <1>2, <1>3, <1>5, <2>1, <2>5, <2>6, <2>8, <2>9, ExecutedOnce
<1> QED BY <1>6, <1>7, <1>8

\* Whoever registers, restarts or measures only takes from the keepers.
LEMMA OthersOnce ==
    ASSUME AgentTypes, OnceInv,
           \/ \E s \in AgentSessions :
                 \/ RegisterForAgent(s) \/ UnregisterFromAgent(s)
                 \/ \E mode \in Modes : ChangeMode(s, mode)
           \/ \E b \in BOOLEAN : PersistMode(b)
           \/ \E r \in Runs : MeasureDelayedReward(r)
           \/ RestartAgents \/ AgentTick
    PROVE  OnceInv'
<1>1. UNCHANGED <<executed, dismissed, runs>>
  BY DEF RegisterForAgent, UnregisterFromAgent, ChangeMode, PersistMode,
         MeasureDelayedReward, RestartAgents, AgentTick
<1>2. CASE RestartAgents
  <2>1. AgentLetsGo /\ MemoryLetsGo
    BY <1>2 DEF RestartAgents, AgentLetsGo, AgentHolds, MemoryLetsGo, MemoryHolds
  <2>2. ASSUME NEW q \in Approvers PROVE ~request'[q].intact
    <3>1. request'[q] = IF At(q, "new") THEN IdleRequest ELSE Answered(q)[q]
      BY <1>2 DEF RestartAgents
    <3>2. Answered(q)[q] = [IdleRequest EXCEPT !.at = "answered"]
      BY DEF Answered, AgentTypes, ApproversTyped
    <3> QED BY <3>1, <3>2 DEF IdleRequest
  <2>3. ApprovalsLetGo
    BY <2>2 DEF ApprovalsLetGo, RequestHolds
  <2> QED BY <1>1, <2>1, <2>3, KeepersLetGo
<1>3. CASE ~RestartAgents
  <2>1. UNCHANGED request
    BY <1>3 DEF RegisterForAgent, UnregisterFromAgent, ChangeMode, PersistMode,
                MeasureDelayedReward, AgentTick
  <2>2. AgentLetsGo
    <3>1. CASE UNCHANGED collector
      BY <3>1, AgentStays
    <3>2. CASE collector # Nobody /\ collector' = [collector EXCEPT !.orphan = TRUE]
      <4>1. collector \in CollectorTypes
        BY <3>2 DEF AgentTypes, CollectorTyped
      <4>2. collector'.run = collector.run /\ collector'.at = collector.at
        BY <3>2, <4>1 DEF CollectorTypes
      <4> QED BY <3>2, <4>2 DEF AgentLetsGo, AgentHolds
    <3> QED BY <1>3, <3>1, <3>2
            DEF RegisterForAgent, UnregisterFromAgent, ChangeMode, PersistMode,
                MeasureDelayedReward, AgentTick
  <2>3. MemoryLetsGo
    <3>1. CASE UNCHANGED waiting
      BY <3>1, MemoryStays
    <3>2. ASSUME NEW s, waiting' = [waiting EXCEPT ![s] = Nobody] PROVE MemoryLetsGo
      BY <3>2 DEF MemoryLetsGo, MemoryHolds, AgentTypes, AgentTypeOK
    <3> QED BY <1>3, <3>1, <3>2
            DEF RegisterForAgent, UnregisterFromAgent, ChangeMode, PersistMode,
                MeasureDelayedReward, AgentTick, memory
  <2> QED BY <1>1, <2>1, <2>2, <2>3, ApprovalsStay, KeepersLetGo
<1> QED BY <1>2, <1>3

LEMMA NextOnce ==
    ASSUME AgentTypes, OnceInv, [AgentNext]_agentVars PROVE OnceInv'
<1>1. CASE UNCHANGED agentVars
  BY <1>1, AgentStays, MemoryStays, ApprovalsStay, KeepersLetGo DEF agentVars
<1>2. ASSUME NEW s \in AgentSessions, DetectAnomaly(s) PROVE OnceInv'
  BY <1>2, DetectedOnce
<1>3. ASSUME NEW s \in AgentSessions, NEW q \in Approvers, NEW b \in BOOLEAN,
             TakeFromMemory(q, s, b)
      PROVE  OnceInv'
  BY <1>3, TakenOnce
<1>4. CASE CollectorStep
  BY <1>4, CollectorOnce
<1>5. ASSUME NEW q \in Approvers, RequestStep(q) PROVE OnceInv'
  BY <1>5, RequestOnce
<1>6. CASE \/ \E s \in AgentSessions :
                 \/ RegisterForAgent(s) \/ UnregisterFromAgent(s)
                 \/ \E mode \in Modes : ChangeMode(s, mode)
           \/ \E b \in BOOLEAN : PersistMode(b)
           \/ \E r \in Runs : MeasureDelayedReward(r)
           \/ RestartAgents \/ AgentTick
  BY <1>6, OthersOnce
<1> QED BY <1>1, <1>2, <1>3, <1>4, <1>5, <1>6 DEF AgentNext

LEMMA OnceAtFirst == AgentInit => OnceInv
<1> SUFFICES ASSUME AgentInit, NEW r \in Runs PROVE SettledOnce(r)
  BY DEF OnceInv
<1>1. ~AgentHolds(r) /\ \A s \in AgentSessions : ~MemoryHolds(s, r)
  BY DEF AgentInit, AgentHolds, MemoryHolds
<1>2. \A q \in Approvers : ~RequestHolds(q, r)
  BY DEF AgentInit, RequestHolds, IdleRequest
<1>3. executed[r] = 0 /\ dismissed = {}
  BY DEF AgentInit
<1> QED BY <1>1, <1>2, <1>3 DEF SettledOnce, OneKeeper, Held, Unsettled

\* However approvals, dismissals, restarts, changes of mode and failures of
\* Redis interleave, a decision is executed at most once, and never after an
\* organizer dismissed it: a run that may still be executed has one keeper
\* (approve_intervention takes it out of memory before it awaits anything, and
\* what comes back from Redis is not executable).
THEOREM DecisionsAreSettledOnce == AgentSpec => []DecidedOnce
<1>1. AgentInit => ModeChosen
  BY DEF AgentInit, ModeChosen
<1>2. AgentTypes /\ ModeChosen /\ [AgentNext]_agentVars => AgentTypes'
  BY AgentNextTypes
<1>3. ModeChosen /\ [AgentNext]_agentVars => ModeChosen'
  BY NextModeChosen
<1>4. AgentTypes /\ OnceInv /\ [AgentNext]_agentVars => OnceInv'
  BY NextOnce
<1>5. OnceInv => DecidedOnce
  BY DEF OnceInv, SettledOnce, DecidedOnce
<1> QED BY AgentInitTypes, OnceAtFirst, <1>1, <1>2, <1>3, <1>4, <1>5, PTL DEF AgentSpec

-----------------------------------------------------------------------------
(* The components of MCPlatform together *)

\* A step of the composition is a step of one component and leaves the others.
LEMMA TurnsAreSteps ==
    ASSUME [PlatformNext]_<<platformVars, focus>>
    PROVE  /\ [AgentNext]_agentVars /\ [RfpNext]_rfpVars
           /\ [ExpoNext]_expoVars /\ [HuddleNext]_huddleVars
           /\ [TriviaNext]_triviaVars /\ [BreakoutNext]_breakoutVars
           /\ [ChallengeNext]_challengeVars /\ [GamificationNext]_pointVars
<1>1. CASE AgentTurn
  BY <1>1 DEF AgentTurn
<1>2. CASE RfpTurn
  BY <1>2 DEF RfpTurn
<1>3. CASE ExpoTurn
  BY <1>3 DEF ExpoTurn
<1>4. CASE HuddleTurn
  BY <1>4 DEF HuddleTurn
<1>5. CASE TriviaTurn
  BY <1>5 DEF TriviaTurn
<1>6. CASE BreakoutTurn
  BY <1>6 DEF BreakoutTurn
<1>7. CASE ChallengeTurn
  BY <1>7 DEF ChallengeTurn
<1>8. CASE PointsTurn
  BY <1>8 DEF PointsTurn
<1>9. CASE UNCHANGED <<platformVars, focus>>
  BY <1>9 DEF platformVars
<1> QED BY <1>1, <1>2, <1>3, <1>4, <1>5, <1>6, <1>7, <1>8, <1>9 DEF PlatformNext

\* Each component of the composition obeys its own specification, so that what
\* the theorems say of the components holds in the composition as well.
THEOREM PlatformRunsComponents ==
    PlatformSpec =>
        /\ AgentSpec /\ RfpSpec /\ ExpoSpec /\ HuddleSpec /\ TriviaSpec
        /\ BreakoutSpec /\ ChallengeSpec /\ GamificationSpec
<1>1. PlatformInit =>
          /\ AgentInit /\ RfpInit /\ ExpoInit /\ HuddleInit /\ TriviaInit
          /\ BreakoutInit /\ ChallengeInit /\ GamificationInit
  BY DEF PlatformInit
<1> QED BY <1>1, TurnsAreSteps, PTL DEF PlatformSpec, AgentSpec, RfpSpec,
             ExpoSpec, HuddleSpec, TriviaSpec, BreakoutSpec, ChallengeSpec,
             GamificationSpec

\* The state of every component has its type in every state of the composition.
THEOREM PlatformTypes == PlatformSpec => []PlatformTypeOK
<1>1. /\ AgentTypes => AgentTypeOK
      /\ RfpTypes => RfpTypeOK
      /\ ExpoTypes => ExpoTypeOK
  BY DEF AgentTypes, RfpTypes, ExpoTypes
<1> QED BY <1>1, PlatformRunsComponents, AgentStateTypes, RfpRowTypes, BoothTypes,
             HuddleTypes, TriviaTypes, BreakoutTypes, ChallengeTypes, PointTypes,
             PTL DEF PlatformTypeOK
=============================================================================
