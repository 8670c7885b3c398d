--------------------------- MODULE PartnerAwards ---------------------------
(***************************************************************************)
(* An outsourced trip on the partner exchange: quotes, the award, and the  *)
(* trip the partner carries out (src/src/lib/exchange/outsource-engine.ts  *)
(* and the routes that call it).                                           *)
(*                                                                         *)
(* The engine uses the global client, so every statement commits on its    *)
(* own; only the two award functions run in a transaction (READ            *)
(* COMMITTED, no row lock).  A call is therefore a sequence of actions: it *)
(* reads, and writes later on the strength of what it read.                *)
(***************************************************************************)
EXTENDS Integers, FiniteSets

CONSTANTS
  Partners,    \* transport partners
  NoPartner,   \* a call made for no partner in particular
  Callers,     \* calls that may be in flight at once
  MaxQuotes,   \* bound on quote rows
  MaxLinks,    \* bound on driver links issued
  MaxFaults    \* bound on calls that die

ASSUME AwardsAssumption ==
  /\ NoPartner \notin Partners
  /\ MaxQuotes \in Nat
  /\ MaxLinks \in Nat
  /\ MaxFaults \in Nat

VARIABLES
  request,     \* OutsourceRequest.status
  invites,     \* OutsourceRequestPartner.status of each partner
  quotes,      \* PartnerQuote rows, numbered as they were created
  award,       \* the OutsourceAward row: its status and its quote
  trip,        \* the PartnerAssignment row; link 0 is no row
  schedule,    \* TripSchedule.status of the trip that was outsourced
  call,        \* what each caller is doing, and what it has read
  crossed,     \* history: quoting was in flight when the award committed
  doubled,     \* history: partners that quoted in two calls at once, or half
  late,        \* history: calls in flight since before the trip ended
  tangled,     \* history: calls on the trip overlapped, died, or assigned it late
  faults       \* calls that died so far

vars == <<request, invites, quotes, award, trip, schedule, call, crossed, doubled,
          late, tangled, faults>>
sourcing == <<request, invites, quotes>>
carriage == <<trip, schedule>>
noted == <<crossed, doubled, late, tangled, faults>>

-----------------------------------------------------------------------------

QuoteIds == 1..MaxQuotes

RequestStatuses == {"NONE", "PUBLISHED", "QUOTED", "AWARDED"}
InviteStatuses  == {"NONE", "INVITED", "QUOTED", "DECLINED", "AWARDED", "NOT_SELECTED"}
QuoteStatuses   == {"NONE", "SUBMITTED", "SUPERSEDED", "WITHDRAWN", "ACCEPTED", "REJECTED"}
AwardStatuses   == {"NONE", "AWARDED", "ASSIGNED", "IN_PROGRESS", "COMPLETED", "CANCELLED", "ABORTED"}
Ended           == {"COMPLETED", "CANCELLED", "ABORTED"}

Quotes == [partner : Partners \cup {NoPartner}, revision : 0..MaxQuotes, status : QuoteStatuses]
Awards == [status : AwardStatuses, quote : 0..MaxQuotes]
Trips  == [link : 0..MaxLinks, revoked : BOOLEAN, reached : BOOLEAN, started : BOOLEAN,
           completed : BOOLEAN, cancelled : BOOLEAN]

\* A call's next step: quoting, withdrawing, awarding; and on the trip.
QuoteSteps == {"eligible", "read", "found", "superseded", "created", "invited", "withdraw"}
TripSteps  == {"assigned", "geofence", "reach", "start", "started", "complete", "completed",
               "startSync", "completeSync", "cancel", "cancelBare", "cancelled", "abort"}
Steps == {"idle", "award", "apply"} \cup QuoteSteps \cup TripSteps

\* The partner, the quote and the request status the call has read.
Calls == [step : Steps, partner : Partners \cup {NoPartner}, quote : 0..MaxQuotes,
          status : RequestStatuses]
Idle == [step |-> "idle", partner |-> NoPartner, quote |-> 0, status |-> "NONE"]

NoQuote == [partner |-> NoPartner, revision |-> 0, status |-> "NONE"]
NoTrip  == [link |-> 0, revoked |-> FALSE, reached |-> FALSE, started |-> FALSE,
            completed |-> FALSE, cancelled |-> FALSE]

Init ==
  /\ request = "NONE"
  /\ invites = [p \in Partners |-> "NONE"]
  /\ quotes = [q \in QuoteIds |-> NoQuote]
  /\ award = [status |-> "NONE", quote |-> 0]
  /\ trip = NoTrip
  /\ schedule = "SCHEDULED"
  /\ call = [c \in Callers |-> Idle]
  /\ crossed = FALSE
  /\ doubled = {}
  /\ late = {}
  /\ tangled = FALSE
  /\ faults = 0

-----------------------------------------------------------------------------

IsIdle(c) == call[c].step = "idle"
Step(c, s) == call[c].step = s
GoTo(c, s) == call' = [call EXCEPT ![c].step = s]

\* The call returns: it is late no more.
Return(c) ==
  /\ call' = [call EXCEPT ![c] = Idle]
  /\ late' = late \ {c}

\* The next free quote row, and the rows of a partner that may be revised.
NextQuote  == 1 + Cardinality({q \in QuoteIds : quotes[q].status # "NONE"})
Submitted(p) == {q \in QuoteIds : quotes[q].partner = p /\ quotes[q].status = "SUBMITTED"}

\* Another call than c is at one of the steps.
OtherAt(c, steps) == \E d \in Callers \ {c} : call[d].step \in steps

\* A call on the trip begins: it is noted when another one is under way.
BeginOnTrip(c, s) ==
  /\ IsIdle(c)
  /\ GoTo(c, s)
  /\ tangled' = (tangled \/ OtherAt(c, TripSteps \cup {"award", "apply"}))

\* The award ends: the calls still in flight become late.
NoteEnd == late' = {c \in IF award.status \in Ended THEN late ELSE Callers : call'[c].step # "idle"}

-----------------------------------------------------------------------------
(* Sourcing. *)

\* createOutsourceRequest: the request, its invitations and the opportunity.
CreateRequest(invited) ==
  /\ request = "NONE"
  /\ request' = "PUBLISHED"
  /\ invites' = [p \in Partners |-> IF p \in invited THEN "INVITED" ELSE "NONE"]
  /\ UNCHANGED <<quotes, award, carriage, call, noted>>

\* createContractDirectAward: request, accepted quote and award in one
\* transaction.
ContractDirectAward(p) ==
  /\ request = "NONE"
  /\ MaxQuotes > 0
  /\ request' = "AWARDED"
  /\ invites' = [invites EXCEPT ![p] = "AWARDED"]
  /\ quotes' = [quotes EXCEPT ![1] = [partner |-> p, revision |-> 1, status |-> "ACCEPTED"]]
  /\ award' = [status |-> "AWARDED", quote |-> 1]
  /\ UNCHANGED <<carriage, call, noted>>

\* checkQuoteEligibility: the request is open.
OpenForQuotes == request \in {"PUBLISHED", "QUOTED"}

\* The quotes route: eligibility first, in a read of its own.
BeginQuote(c, p) ==
  /\ IsIdle(c)
  /\ OpenForQuotes
  /\ call' = [call EXCEPT ![c] = [Idle EXCEPT !.step = "eligible", !.partner = p]]
  /\ doubled' = IF \E d \in Callers : call[d].partner = p THEN doubled \cup {p} ELSE doubled
  /\ UNCHANGED <<sourcing, award, carriage, crossed, late, tangled, faults>>

\* submitOrReviseQuote reads the request ...
ReadRequest(c) ==
  /\ Step(c, "eligible")
  /\ call' = [call EXCEPT ![c].step = "read", ![c].status = request]
  /\ UNCHANGED <<sourcing, award, carriage, noted>>

\* Mutant of Revisable: drafts only.
OnlyDrafts(p) == {q \in QuoteIds : quotes[q].partner = p /\ quotes[q].status = "DRAFT"}

\* Its quotes in status SUBMITTED (nothing writes DRAFT), the highest revision first.
Revisable(p) == {q \in Submitted(p) : \A r \in Submitted(p) : quotes[r].revision <= quotes[q].revision}

\* ... finds the partner's latest quote ...
FindPrevious(c) ==
  LET own == Revisable(call[c].partner) IN
  /\ Step(c, "read")
  /\ \/ own = {} /\ call' = [call EXCEPT ![c].step = "superseded"]
     \/ \E q \in own : call' = [call EXCEPT ![c].step = "found", ![c].quote = q]
  /\ UNCHANGED <<sourcing, award, carriage, noted>>

\* ... supersedes it by id ...
Supersede(c) ==
  /\ Step(c, "found")
  /\ quotes' = [quotes EXCEPT ![call[c].quote].status = "SUPERSEDED"]
  /\ GoTo(c, "superseded")
  /\ UNCHANGED <<request, invites, award, carriage, noted>>

\* Mutant of NextRevision: a revision is counted twice.
NextRevisionTwice(c) == IF call[c].quote = 0 THEN 1 ELSE quotes[call[c].quote].revision + 2

NextRevision(c) == IF call[c].quote = 0 THEN 1 ELSE quotes[call[c].quote].revision + 1

\* ... creates the new one, next in revision to the one it found ...
CreateQuote(c) ==
  /\ Step(c, "superseded")
  /\ NextQuote \in QuoteIds
  /\ quotes' = [quotes EXCEPT ![NextQuote] =
                  [partner |-> call[c].partner, status |-> "SUBMITTED", revision |-> NextRevision(c)]]
  /\ GoTo(c, "created")
  /\ UNCHANGED <<request, invites, award, carriage, noted>>

\* ... marks its invitation, whatever that says now ...
MarkInvite(c) ==
  LET p == call[c].partner IN
  /\ Step(c, "created")
  /\ invites' = IF invites[p] = "NONE" THEN invites ELSE [invites EXCEPT ![p] = "QUOTED"]
  /\ GoTo(c, "invited")
  /\ UNCHANGED <<request, quotes, award, carriage, noted>>

\* ... and the request, by the status it read at the start.
MarkRequest(c) ==
  /\ Step(c, "invited")
  /\ request' = IF call[c].status = "PUBLISHED" THEN "QUOTED" ELSE request
  /\ Return(c)
  /\ UNCHANGED <<invites, quotes, award, carriage, crossed, doubled, tangled, faults>>

\* declineRequest: by the invitation's id, whatever its status.
DeclineRequest(p) ==
  /\ invites[p] # "NONE"
  /\ invites' = [invites EXCEPT ![p] = "DECLINED"]
  /\ UNCHANGED <<request, quotes, award, carriage, call, noted>>

\* withdrawQuote reads the quote, and withdraws it by id.
BeginWithdraw(c, q) ==
  /\ IsIdle(c)
  /\ quotes[q].status = "SUBMITTED"
  /\ call' = [call EXCEPT ![c] = [Idle EXCEPT !.step = "withdraw", !.quote = q]]
  /\ UNCHANGED <<sourcing, award, carriage, noted>>

Withdraw(c) ==
  /\ Step(c, "withdraw")
  /\ quotes' = [quotes EXCEPT ![call[c].quote].status = "WITHDRAWN"]
  /\ Return(c)
  /\ UNCHANGED <<request, invites, award, carriage, crossed, doubled, tangled, faults>>

-----------------------------------------------------------------------------
(* The award. *)

\* The checks of awardQuote, and of the transaction's reads.
BeginAward(c, q) ==
  /\ IsIdle(c)
  /\ award.quote = 0
  /\ quotes[q].status = "SUBMITTED"
  /\ call' = [call EXCEPT ![c] = [Idle EXCEPT !.step = "award", !.quote = q]]
  /\ UNCHANGED <<sourcing, award, carriage, noted>>

\* Mutant of NoAwardYet: outsource_awards.request_id is not unique.
NoUniqueKey == TRUE

\* The unique request_id: the second insert fails and its transaction rolls back.
NoAwardYet == award.quote = 0

\* Mutant of AwardedQuotes: the losing quotes are left as they are.
OnlyTheWinner(q) == [quotes EXCEPT ![q].status = "ACCEPTED"]

\* The winner ACCEPTED by id, every other SUBMITTED quote REJECTED.
AwardedQuotes(q) ==
  [r \in QuoteIds |-> IF r = q THEN [quotes[r] EXCEPT !.status = "ACCEPTED"]
                      ELSE IF quotes[r].status = "SUBMITTED"
                           THEN [quotes[r] EXCEPT !.status = "REJECTED"]
                           ELSE quotes[r]]

\* The invitations: the winner's, and those still in the running.
AwardedInvites(q) ==
  [p \in Partners |-> IF p = quotes[q].partner
                      THEN IF invites[p] = "NONE" THEN "NONE" ELSE "AWARDED"
                      ELSE IF invites[p] \in {"INVITED", "QUOTED"} THEN "NOT_SELECTED"
                           ELSE invites[p]]

\* awardQuote commits; the route may then mark the trip schedule.
CommitAward(c) ==
  LET q == call[c].quote IN
  /\ Step(c, "award")
  /\ NoAwardYet
  /\ award' = [status |-> "AWARDED", quote |-> q]
  /\ quotes' = AwardedQuotes(q)
  /\ invites' = AwardedInvites(q)
  /\ request' = "AWARDED"
  /\ crossed' = OtherAt(c, QuoteSteps)
  /\ \/ Return(c)
     \/ GoTo(c, "apply") /\ UNCHANGED late
  /\ UNCHANGED <<carriage, doubled, tangled, faults>>

AwardFails(c) ==
  /\ Step(c, "award")
  /\ award.quote # 0
  /\ Return(c)
  /\ UNCHANGED <<sourcing, award, carriage, crossed, doubled, tangled, faults>>

\* BusOpsOutsourcingAdapter.applyAward: the native trip is ASSIGNED.
ApplyAward(c) ==
  /\ Step(c, "apply")
  /\ schedule' = "ASSIGNED"
  /\ Return(c)
  /\ UNCHANGED <<sourcing, award, trip, crossed, doubled, tangled, faults>>

-----------------------------------------------------------------------------
(* The trip. *)

NewLink == [trip EXCEPT !.link = @ + 1, !.revoked = FALSE]

\* assignVehicleAndDriver: the upsert issues a link, whatever the award's status.
Assign(c) ==
  /\ award.quote # 0
  /\ trip.link < MaxLinks
  /\ IsIdle(c)
  /\ GoTo(c, "assigned")
  /\ tangled' = (tangled \/ OtherAt(c, TripSteps \cup {"award", "apply"})
                         \/ award.status \notin {"AWARDED", "ASSIGNED"})
  /\ trip' = NewLink
  /\ UNCHANGED <<sourcing, award, schedule, crossed, doubled, late, faults>>

MarkAssigned(c) ==
  /\ Step(c, "assigned")
  /\ award' = [award EXCEPT !.status = "ASSIGNED"]
  /\ Return(c)
  /\ UNCHANGED <<sourcing, carriage, crossed, doubled, tangled, faults>>

\* replaceResource: a new link, and the old one no longer works.
ReplaceResource ==
  /\ trip.link > 0
  /\ trip.link < MaxLinks
  /\ trip' = NewLink
  /\ UNCHANGED <<sourcing, award, schedule, call, noted>>

\* Mutant of Finalized: an aborted trip is not refused.
FinalizedOrCancelled ==
  trip.completed \/ trip.cancelled \/ award.status \in {"COMPLETED", "CANCELLED"}

\* The state machine check of updateDriverMilestone.
Finalized == trip.completed \/ trip.cancelled \/ award.status \in Ended

\* The link the driver opens is the current one, and not revoked.
LinkWorks == trip.link > 0 /\ ~ trip.revoked

\* updateDriverMilestone reads the assignment with its award, and checks both.
BeginMilestone(c) ==
  /\ LinkWorks
  /\ ~ Finalized
  /\ \/ ~ trip.reached /\ BeginOnTrip(c, "reach")
     \/ trip.reached /\ ~ trip.started /\ BeginOnTrip(c, "start")
     \/ trip.started /\ BeginOnTrip(c, "complete")
  /\ UNCHANGED <<sourcing, award, carriage, crossed, doubled, late, faults>>

\* ingestDriverGpsPing: inside the pickup geofence, with no look at the award.
BeginGeofence(c) ==
  /\ LinkWorks
  /\ ~ trip.reached
  /\ BeginOnTrip(c, "geofence")
  /\ UNCHANGED <<sourcing, award, carriage, crossed, doubled, late, faults>>

RecordReached(c) ==
  /\ call[c].step \in {"reach", "geofence"}
  /\ trip' = [trip EXCEPT !.reached = TRUE]
  /\ Return(c)
  /\ UNCHANGED <<sourcing, award, schedule, crossed, doubled, tangled, faults>>

\* STARTED and COMPLETED write the award first ...
AwardStarted(c) ==
  /\ Step(c, "start")
  /\ award' = [award EXCEPT !.status = "IN_PROGRESS"]
  /\ GoTo(c, "started")
  /\ UNCHANGED <<sourcing, carriage, noted>>

AwardCompleted(c) ==
  /\ Step(c, "complete")
  /\ award' = [award EXCEPT !.status = "COMPLETED"]
  /\ GoTo(c, "completed")
  /\ NoteEnd
  /\ UNCHANGED <<sourcing, carriage, crossed, doubled, tangled, faults>>

\* ... then the assignment ...
RecordStarted(c) ==
  /\ Step(c, "started")
  /\ trip' = [trip EXCEPT !.started = TRUE]
  /\ GoTo(c, "startSync")
  /\ UNCHANGED <<sourcing, award, schedule, noted>>

\* Mutant of RecordCompleted: the route returns without telling the schedule.
RecordCompletedOnly(c) ==
  /\ Step(c, "completed")
  /\ trip' = [trip EXCEPT !.completed = TRUE]
  /\ Return(c)
  /\ UNCHANGED <<sourcing, award, schedule, crossed, doubled, tangled, faults>>

RecordCompleted(c) ==
  /\ Step(c, "completed")
  /\ trip' = [trip EXCEPT !.completed = TRUE]
  /\ GoTo(c, "completeSync")
  /\ UNCHANGED <<sourcing, award, schedule, noted>>

\* ... and the route then tells the native trip schedule.
SyncSchedule(c) ==
  /\ call[c].step \in {"startSync", "completeSync"}
  /\ schedule' = IF Step(c, "startSync") THEN "IN_PROGRESS" ELSE "COMPLETED"
  /\ Return(c)
  /\ UNCHANGED <<sourcing, award, trip, crossed, doubled, tangled, faults>>

\* cancelAward reads the award and whether it has an assignment ...
BeginCancel(c) ==
  /\ award.quote # 0
  /\ award.status \notin {"IN_PROGRESS", "COMPLETED"}
  /\ BeginOnTrip(c, IF trip.link > 0 THEN "cancel" ELSE "cancelBare")
  /\ UNCHANGED <<sourcing, award, carriage, crossed, doubled, late, faults>>

\* ... cancels the award ...
CancelAward(c) ==
  /\ call[c].step \in {"cancel", "cancelBare"}
  /\ award' = [award EXCEPT !.status = "CANCELLED"]
  /\ IF Step(c, "cancel") THEN GoTo(c, "cancelled") ELSE call' = [call EXCEPT ![c] = Idle]
  /\ NoteEnd
  /\ UNCHANGED <<sourcing, carriage, crossed, doubled, tangled, faults>>

\* ... and revokes the link.
CancelTrip(c) ==
  /\ Step(c, "cancelled")
  /\ trip' = [trip EXCEPT !.cancelled = TRUE, !.revoked = TRUE]
  /\ Return(c)
  /\ UNCHANGED <<sourcing, award, schedule, crossed, doubled, tangled, faults>>

\* abortTrip reads the award, and aborts it; the link stays.
BeginAbort(c) ==
  /\ award.quote # 0
  /\ award.status # "COMPLETED"
  /\ BeginOnTrip(c, "abort")
  /\ UNCHANGED <<sourcing, award, carriage, crossed, doubled, late, faults>>

AbortTrip(c) ==
  /\ Step(c, "abort")
  /\ award' = [award EXCEPT !.status = "ABORTED"]
  /\ call' = [call EXCEPT ![c] = Idle]
  /\ NoteEnd
  /\ UNCHANGED <<sourcing, carriage, crossed, doubled, tangled, faults>>

-----------------------------------------------------------------------------

\* A call dies where it stands: the process goes away, or a statement fails.
Fault(c) ==
  /\ ~ IsIdle(c)
  /\ faults < MaxFaults
  /\ faults' = faults + 1
  /\ Return(c)
  /\ doubled' = doubled \cup ({call[c].partner} \ {NoPartner})
  /\ tangled' = (tangled \/ call[c].step \in TripSteps)
  /\ UNCHANGED <<sourcing, award, carriage, crossed>>

QuoteStep(c) ==
  \/ \E p \in Partners : BeginQuote(c, p)
  \/ ReadRequest(c) \/ FindPrevious(c) \/ Supersede(c) \/ CreateQuote(c)
  \/ MarkInvite(c) \/ MarkRequest(c)
  \/ \E q \in QuoteIds : BeginWithdraw(c, q)
  \/ Withdraw(c)

AwardStep(c) ==
  \/ \E q \in QuoteIds : BeginAward(c, q)
  \/ CommitAward(c) \/ AwardFails(c) \/ ApplyAward(c)

TripStep(c) ==
  \/ Assign(c) \/ MarkAssigned(c)
  \/ BeginMilestone(c) \/ BeginGeofence(c) \/ RecordReached(c)
  \/ AwardStarted(c) \/ RecordStarted(c)
  \/ AwardCompleted(c) \/ RecordCompleted(c) \/ SyncSchedule(c)
  \/ BeginCancel(c) \/ CancelAward(c) \/ CancelTrip(c)
  \/ BeginAbort(c) \/ AbortTrip(c)

Next ==
  \/ \E invited \in SUBSET Partners : CreateRequest(invited)
  \/ \E p \in Partners : ContractDirectAward(p) \/ DeclineRequest(p)
  \/ \E c \in Callers : QuoteStep(c) \/ AwardStep(c) \/ TripStep(c) \/ Fault(c)
  \/ ReplaceResource

Spec == Init /\ [][Next]_vars

-----------------------------------------------------------------------------

\* The rows, the calls and the histories have their types.
TypeOK ==
  /\ request \in RequestStatuses
  /\ invites \in [Partners -> InviteStatuses]
  /\ quotes \in [QuoteIds -> Quotes]
  /\ award \in Awards
  /\ trip \in Trips
  /\ schedule \in {"SCHEDULED", "ASSIGNED", "IN_PROGRESS", "COMPLETED"}
  /\ call \in [Callers -> Calls]
  /\ crossed \in BOOLEAN
  /\ doubled \subseteq Partners
  /\ late \subseteq Callers
  /\ tangled \in BOOLEAN
  /\ faults \in 0..MaxFaults

\* An award settles the sourcing: its quote is ACCEPTED and stays so, no other
\* quote is left SUBMITTED and the request stays AWARDED, unless a quote was
\* being submitted or withdrawn when the award committed (the lock that
\* awardQuote's heading speaks of is not taken).
AwardSettlesSourcing ==
  award.quote # 0 /\ ~ crossed =>
    /\ request = "AWARDED"
    /\ quotes[award.quote].status = "ACCEPTED"
    /\ \A q \in QuoteIds : quotes[q].status # "SUBMITTED"

\* A partner has one live quote on a request at most, however often it revises,
\* withdraws and quotes anew: two need two submissions of its own at once, or
\* one that died between its writes.
OneLiveQuotePerPartner ==
  \A p \in Partners \ doubled : Cardinality(Submitted(p)) <= 1

\* A request is awarded once: of two dispatchers who both saw no award, one
\* fails, and the award keeps its quote whatever happens to the trip.
AwardIsFinal == [][award.quote # 0 => award'.quote = award.quote]_vars

\* A driver's milestone reaches an ended trip only from a call that was already
\* in flight when it ended, and only such a call or a new assignment takes the
\* award out of its end state (updateDriverMilestone: completed or cancelled
\* trips become strictly read-only).
EndedTripIsReadOnly ==
  [][award.status \in Ended =>
       \/ award'.status \in Ended /\ trip'.started = trip.started
                                  /\ (trip'.completed => trip.completed \/ award.status = "COMPLETED")
       \/ \E c \in late : call'[c] # call[c]
       \/ \E c \in Callers : Step(c, "assigned") /\ IsIdle(c)']_vars

\* No call on the trip is in flight.
AtRest == \A c \in Callers : call[c].step \notin TripSteps \cup {"apply"}

\* The award, the assignment and the native schedule tell the same story.
Agreement ==
  /\ trip.completed <=> award.status = "COMPLETED"
  /\ trip.completed => schedule = "COMPLETED"
  /\ award.status = "IN_PROGRESS" => trip.started /\ schedule = "IN_PROGRESS"
  /\ trip.started => award.status \notin {"AWARDED", "ASSIGNED"}
  /\ trip.cancelled => award.status \in {"CANCELLED", "ABORTED"}
  /\ award.status = "CANCELLED" /\ trip.link > 0 => trip.cancelled

\* The three records agree whenever no call is in flight, if calls did not
\* overlap, none died between two of its writes, and nobody assigned a trip that
\* was past ASSIGNED.
RecordsAgree == ~ tangled /\ AtRest => Agreement

=============================================================================
