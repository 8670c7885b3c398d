--------------------------- MODULE EventDelivery ---------------------------
(***************************************************************************)
(* Event delivery: the transactional outbox and its publisher              *)
(* (src/src/lib/jobs/outbox-publisher.ts), the consumers' inbox            *)
(* (src/src/events/consumer-base.ts) and the replay of parked rows         *)
(* (src/src/app/api/admin/events/outbox/replay/route.ts).                  *)
(*                                                                         *)
(* Publisher runs overlap: the scheduler's job holds a job-run claim, the  *)
(* cron route does not, and a claim does not stop a run that is too slow.  *)
(* Time is kept as ages, in minutes, that stop counting one past the       *)
(* threshold they are compared with.                                       *)
(***************************************************************************)
EXTENDS Integers, FiniteSets

CONSTANTS
  NumEvents,       \* events, numbered in the order of created_at
  Consumers,       \* registered consumers (consumerName)
  ConsumersOf,     \* event -> the consumers subscribed to its type
  RecordOnly,      \* events whose type is in EVENTS_WITHOUT_CONSUMERS
  Transactional,   \* consumers that set transactional = true
  Publishers,      \* runs of the publisher that may overlap
  NoOne,           \* claimed_by IS NULL
  BatchSize,       \* BATCH_SIZE
  MaxRetries,      \* MAX_RETRIES
  ClaimTTL,        \* CLAIM_TTL_SECONDS, in minutes
  StaleClaim,      \* STALE_CLAIM_MINUTES
  MaxCrashes,      \* bound on runs that die
  MaxReplays       \* bound on operator replays

Events == 1..NumEvents

ASSUME DeliveryAssumption ==
  /\ NumEvents \in Nat
  /\ ConsumersOf \in [Events -> SUBSET Consumers]
  /\ RecordOnly \subseteq Events
  /\ Transactional \subseteq Consumers
  /\ NoOne \notin Publishers
  /\ BatchSize \in Nat \ {0}
  /\ MaxRetries \in Nat \ {0}
  /\ ClaimTTL \in Nat
  /\ StaleClaim \in Nat
  /\ ClaimTTL <= StaleClaim
  /\ MaxCrashes \in Nat
  /\ MaxReplays \in Nat

VARIABLES
  outbox,     \* event_outbox
  inbox,      \* event_consumer_inbox, by (event, consumer)
  run,        \* what each publisher run is doing
  effects,    \* history: effects each consumer carried out, counted to 2
  threw,      \* history: the event's consumers whose claim or handler failed
  shared,     \* history: consumers that took over a claim still being handled
  crashes,    \* crashes so far
  replays     \* replays so far

vars == <<outbox, inbox, run, effects, threw, shared, crashes, replays>>

-----------------------------------------------------------------------------

\* A minute later, up to one past the threshold.
Older(age, threshold) == IF age <= threshold THEN age + 1 ELSE age

OutboxRows == [state : {"absent", "unpublished", "published"}, failed : BOOLEAN,
               retries : 0..MaxRetries, holder : Publishers \cup {NoOne}, age : 0..ClaimTTL+1]
InboxRows  == [status : {"NONE", "PROCESSING", "PROCESSED", "FAILED"}, age : 0..StaleClaim+1]

\* A consumer's part in the delivery of the run's current row: still to start,
\* handling since age minutes, handled but not marked, thrown but not recorded,
\* or settled as delivered or failed.
Tasks == [pc : {"todo", "handling", "handled", "thrown", "ok", "failed"}, age : 0..StaleClaim+1]

\* A run: the rows of its batch still to do, the retry counts it read when it
\* claimed them, and the age of its claim.
Runs == [batch : SUBSET Events, retries : [Events -> 0..MaxRetries],
         age : 0..ClaimTTL+1, task : [Consumers -> Tasks]]

Todo    == [pc |-> "todo", age |-> 0]
NoTasks == [c \in Consumers |-> Todo]
EndedRun == [batch |-> {}, retries |-> [e \in Events |-> 0], age |-> 0, task |-> NoTasks]

Oldest(S)  == CHOOSE e \in S : \A f \in S : e <= f
Current(p) == Oldest(run[p].batch)
Busy(p)    == run[p].batch # {}

Init ==
  /\ outbox = [e \in Events |-> [state |-> "absent", failed |-> FALSE, retries |-> 0,
                                 holder |-> NoOne, age |-> 0]]
  /\ inbox = [e \in Events |-> [c \in Consumers |-> [status |-> "NONE", age |-> 0]]]
  /\ run = [p \in Publishers |-> EndedRun]
  /\ effects = [e \in Events |-> [c \in Consumers |-> 0]]
  /\ threw = [e \in Events |-> {}]
  /\ shared = [e \in Events |-> {}]
  /\ crashes = 0
  /\ replays = 0

-----------------------------------------------------------------------------
(* The event bus and the clock. *)

\* publish / publishBatch: the row commits with the business transaction.
Publish(e) ==
  /\ outbox[e].state = "absent"
  /\ \A f \in Events : f < e => outbox[f].state # "absent"
  /\ outbox' = [outbox EXCEPT ![e].state = "unpublished"]
  /\ UNCHANGED <<inbox, run, effects, threw, shared, crashes, replays>>

\* A task a minute later: its claim ages while it is at work.
OlderTask(t) ==
  IF t.pc \in {"handling", "handled", "thrown"} THEN [t EXCEPT !.age = Older(@, StaleClaim)] ELSE t

Tick ==
  /\ outbox' = [e \in Events |-> IF outbox[e].holder = NoOne THEN outbox[e]
                                 ELSE [outbox[e] EXCEPT !.age = Older(@, ClaimTTL)]]
  /\ inbox' = [e \in Events |-> [c \in Consumers |->
                 IF inbox[e][c].status = "PROCESSING"
                 THEN [inbox[e][c] EXCEPT !.age = Older(@, StaleClaim)]
                 ELSE inbox[e][c]]]
  /\ run' = [p \in Publishers |->
               IF ~ Busy(p) THEN run[p]
               ELSE [run[p] EXCEPT
                       !.age = Older(@, ClaimTTL),
                       !.task = [c \in Consumers |-> OlderTask(run[p].task[c])]]]
  /\ UNCHANGED <<effects, threw, shared, crashes, replays>>

-----------------------------------------------------------------------------
(* The publisher. *)

Parked(e) == outbox[e].failed /\ outbox[e].retries >= MaxRetries

\* Mutant of Deliverable: rows whose claim is live are taken too.
DeliverableHeld(e) == outbox[e].state = "unpublished" /\ ~ Parked(e)

\* The WHERE clause of claimRows.
Deliverable(e) ==
  /\ outbox[e].state = "unpublished"
  /\ ~ Parked(e)
  /\ outbox[e].holder = NoOne \/ outbox[e].age > ClaimTTL

\* claimRows: the oldest deliverable rows, up to BatchSize, in one statement.
ClaimRows(p) ==
  LET deliverable == {e \in Events : Deliverable(e)}
      claimed == {e \in deliverable : Cardinality({f \in deliverable : f < e}) < BatchSize}
  IN
  /\ ~ Busy(p)
  /\ claimed # {}
  /\ outbox' = [e \in Events |-> IF e \in claimed
                                 THEN [outbox[e] EXCEPT !.holder = p, !.age = 0]
                                 ELSE outbox[e]]
  /\ run' = [run EXCEPT ![p] = [batch |-> claimed,
                                retries |-> [e \in Events |-> outbox[e].retries],
                                age |-> 0, task |-> NoTasks]]
  /\ UNCHANGED <<inbox, effects, threw, shared, crashes, replays>>

\* Mutant of Owns: the row is written whoever holds it now.
OwnsAlways(p, e) == e \in run[p].batch

\* WHERE id = ... AND claimed_by = token
Owns(p, e) == outbox[e].holder = p

\* The run is done with its current row and goes on to the next.
NextRow(p) ==
  LET rest == run[p].batch \ {Current(p)} IN
  run' = [run EXCEPT ![p] = IF rest = {} THEN EndedRun
                            ELSE [@ EXCEPT !.batch = rest, !.task = NoTasks]]

Released(row) == [row EXCEPT !.holder = NoOne, !.age = 0]

\* Mutant of ByDesign: what no consumer handles is acknowledged.
AcknowledgeUnrouted(e) == ConsumersOf[e] = {}

\* EVENTS_WITHOUT_CONSUMERS.has(type), for an event without handlers.
ByDesign(e) == ConsumersOf[e] = {} /\ e \in RecordOnly

\* No consumer, by design: acknowledge.
AckRecordOnly(p) ==
  LET e == Current(p) IN
  /\ Busy(p)
  /\ ByDesign(e)
  /\ outbox' = IF Owns(p, e) THEN [outbox EXCEPT ![e] = [Released(@) EXCEPT !.state = "published"]]
                             ELSE outbox
  /\ NextRow(p)
  /\ UNCHANGED <<inbox, effects, threw, shared, crashes, replays>>

\* No consumer registered: park where an operator sees it.
ParkUnrouted(p) ==
  LET e == Current(p) IN
  /\ Busy(p)
  /\ ConsumersOf[e] = {} /\ ~ ByDesign(e)
  /\ outbox' = IF Owns(p, e)
               THEN [outbox EXCEPT ![e] = [Released(@) EXCEPT !.retries = MaxRetries, !.failed = TRUE]]
               ELSE outbox
  /\ NextRow(p)
  /\ UNCHANGED <<inbox, effects, threw, shared, crashes, replays>>

Settled(p, e) == \A c \in ConsumersOf[e] : run[p].task[c].pc \in {"ok", "failed"}

\* Mutant of AllDelivered: a rejection counts like a success.
AllAnswered(p, e) == \A c \in ConsumersOf[e] : run[p].task[c].pc \in {"ok", "failed"}

\* Promise.allSettled rejected nothing.
AllDelivered(p, e) == \A c \in ConsumersOf[e] : run[p].task[c].pc = "ok"

\* Every consumer succeeded: acknowledge.
MarkPublished(p) ==
  LET e == Current(p) IN
  /\ Busy(p)
  /\ ConsumersOf[e] # {} /\ Settled(p, e) /\ AllDelivered(p, e)
  /\ outbox' = IF Owns(p, e)
               THEN [outbox EXCEPT ![e] = [Released(@) EXCEPT !.state = "published", !.failed = FALSE]]
               ELSE outbox
  /\ NextRow(p)
  /\ UNCHANGED <<inbox, effects, threw, shared, crashes, replays>>

\* Mutant of FailedOnce: the failure is not counted.
FailedUncounted(p, row) == [Released(row) EXCEPT !.failed = TRUE]

\* Mutant of FailedOnce: a failure on a parked row is counted past MaxRetries.
FailedAgain(p, row) ==
  [Released(row) EXCEPT !.retries = MaxRetries + 1, !.failed = TRUE]

\* retry_count is the count read at the claim plus one.
FailedOnce(p, row) ==
  [Released(row) EXCEPT !.retries = run[p].retries[Current(p)] + 1, !.failed = TRUE]

\* Some consumer failed: count the failure; at MaxRetries the row is parked.
MarkFailed(p) ==
  LET e == Current(p) IN
  /\ Busy(p)
  /\ ConsumersOf[e] # {} /\ Settled(p, e) /\ ~ AllDelivered(p, e)
  /\ outbox' = IF Owns(p, e) THEN [outbox EXCEPT ![e] = FailedOnce(p, @)] ELSE outbox
  /\ NextRow(p)
  /\ UNCHANGED <<inbox, effects, threw, shared, crashes, replays>>

-----------------------------------------------------------------------------
(* BaseEventConsumer.process. *)

\* Mutants of Takeable: any PROCESSING row may be taken; PROCESSED ones too.
TakeableAtOnce(e, c) == inbox[e][c].status # "PROCESSED"
TakeableProcessed(e, c) ==
  \/ inbox[e][c].status # "PROCESSING"
  \/ inbox[e][c].age > StaleClaim

\* The claim's ON CONFLICT condition: a new row, a FAILED one, a stale one.
Takeable(e, c) ==
  \/ inbox[e][c].status \in {"NONE", "FAILED"}
  \/ inbox[e][c].status = "PROCESSING" /\ inbox[e][c].age > StaleClaim

Handling(p, e, c) == Busy(p) /\ Current(p) = e /\ run[p].task[c].pc \in {"handling", "handled", "thrown"}

SetTask(p, c, pc) == run' = [run EXCEPT ![p].task[c].pc = pc]

\* The run reaches the consumer: claim the inbox slot or see who has it.
InboxClaim(p, c) ==
  LET e == Current(p) IN
  /\ Busy(p)
  /\ c \in ConsumersOf[e]
  /\ run[p].task[c].pc = "todo"
  /\ \/ /\ Takeable(e, c)
        /\ inbox' = [inbox EXCEPT ![e][c] = [status |-> "PROCESSING", age |-> 0]]
        /\ run' = [run EXCEPT ![p].task[c] = [pc |-> "handling", age |-> 0]]
        /\ shared' = IF \E q \in Publishers \ {p} : Handling(q, e, c)
                     THEN [shared EXCEPT ![e] = @ \cup {c}] ELSE shared
        /\ UNCHANGED threw
     \/ /\ ~ Takeable(e, c)
        /\ SetTask(p, c, IF inbox[e][c].status = "PROCESSED" THEN "ok" ELSE "failed")
        /\ UNCHANGED <<inbox, shared, threw>>
     \/ /\ SetTask(p, c, "failed")   \* the claim itself fails
        /\ threw' = [threw EXCEPT ![e] = @ \cup {c}]
        /\ UNCHANGED <<inbox, shared>>
  /\ UNCHANGED <<outbox, effects, crashes, replays>>

CountEffect(e, c) ==
  effects' = [effects EXCEPT ![e][c] = IF @ < 2 THEN @ + 1 ELSE @]

\* A transactional consumer: its writes and the PROCESSED mark commit together.
\* (Its 60 s timeout counts from the begin of the transaction, not from the
\* claim, so a run that stalls in between may still commit late.)
HandleInTransaction(p, c) ==
  LET e == Current(p) IN
  /\ Busy(p)
  /\ c \in Transactional
  /\ run[p].task[c].pc = "handling"
  /\ CountEffect(e, c)
  /\ inbox' = [inbox EXCEPT ![e][c] = [status |-> "PROCESSED", age |-> 0]]
  /\ SetTask(p, c, "ok")
  /\ UNCHANGED <<outbox, threw, shared, crashes, replays>>

\* Any other consumer: each write of handle() commits on its own.
HandleOnItsOwn(p, c) ==
  LET e == Current(p) IN
  /\ Busy(p)
  /\ c \notin Transactional
  /\ run[p].task[c].pc = "handling"
  /\ CountEffect(e, c)
  /\ SetTask(p, c, "handled")
  /\ UNCHANGED <<outbox, inbox, threw, shared, crashes, replays>>

MarkProcessed(p, c) ==
  LET e == Current(p) IN
  /\ Busy(p)
  /\ run[p].task[c].pc = "handled"
  /\ inbox' = [inbox EXCEPT ![e][c] = [status |-> "PROCESSED", age |-> 0]]
  /\ SetTask(p, c, "ok")
  /\ UNCHANGED <<outbox, effects, threw, shared, crashes, replays>>

\* handle() throws (a transaction rolls back), or the PROCESSED mark does.
HandleThrows(p, c) ==
  LET e == Current(p) IN
  /\ Busy(p)
  /\ run[p].task[c].pc \in {"handling", "handled"}
  /\ SetTask(p, c, "thrown")
  /\ threw' = [threw EXCEPT ![e] = @ \cup {c}]
  /\ UNCHANGED <<outbox, inbox, effects, shared, crashes, replays>>

\* The FAILED mark; an error writing it is caught and the row stays as it is.
RecordThrow(p, c) ==
  LET e == Current(p) IN
  /\ Busy(p)
  /\ run[p].task[c].pc = "thrown"
  /\ \/ inbox' = [inbox EXCEPT ![e][c] = [status |-> "FAILED", age |-> 0]]
     \/ UNCHANGED inbox
  /\ SetTask(p, c, "failed")
  /\ UNCHANGED <<outbox, effects, threw, shared, crashes, replays>>

-----------------------------------------------------------------------------
(* Failures and operators. *)

\* The process of a run dies: its claims stay until they expire.
Crash(p) ==
  /\ Busy(p)
  /\ crashes < MaxCrashes
  /\ crashes' = crashes + 1
  /\ run' = [run EXCEPT ![p] = EndedRun]
  /\ UNCHANGED <<outbox, inbox, effects, threw, shared, replays>>

\* Rows the route resets: every parked one, or the unpublished ones it was given.
Replayable(given) ==
  IF given = {} THEN {e \in Events : outbox[e].state = "unpublished" /\ Parked(e)}
                ELSE {e \in given : outbox[e].state = "unpublished"}

Replay(given) ==
  LET rows == Replayable(given) IN
  /\ replays < MaxReplays
  /\ rows # {}
  /\ replays' = replays + 1
  /\ outbox' = [e \in Events |-> IF e \in rows
                                 THEN [outbox[e] EXCEPT !.retries = 0, !.failed = FALSE]
                                 ELSE outbox[e]]
  /\ UNCHANGED <<inbox, run, effects, threw, shared, crashes>>

-----------------------------------------------------------------------------

RunStep(p) ==
  \/ ClaimRows(p) \/ AckRecordOnly(p) \/ ParkUnrouted(p) \/ MarkPublished(p) \/ MarkFailed(p)
  \/ \E c \in Consumers :
       \/ InboxClaim(p, c) \/ HandleInTransaction(p, c) \/ HandleOnItsOwn(p, c)
       \/ MarkProcessed(p, c) \/ HandleThrows(p, c) \/ RecordThrow(p, c)

Next ==
  \/ \E e \in Events : Publish(e)
  \/ Tick
  \/ \E p \in Publishers : RunStep(p) \/ Crash(p)
  \/ \E given \in SUBSET Events : Replay(given)

Spec == Init /\ [][Next]_vars

\* The publisher is run again and again, a handler returns in the end, and
\* time passes; crashes and replays are not forced.
FairSpec == Spec /\ WF_vars(Tick) /\ \A p \in Publishers : WF_vars(RunStep(p))

-----------------------------------------------------------------------------

\* The tables and the runs have their types; ages stop one past the threshold.
TypeOK ==
  /\ outbox \in [Events -> OutboxRows]
  /\ inbox \in [Events -> [Consumers -> InboxRows]]
  /\ run \in [Publishers -> Runs]
  /\ effects \in [Events -> [Consumers -> 0..2]]
  /\ threw \in [Events -> SUBSET Consumers]
  /\ shared \in [Events -> SUBSET Consumers]
  /\ crashes \in 0..MaxCrashes
  /\ replays \in 0..MaxReplays

\* A row is in the batches of two runs only when the claim of one has expired
\* (what claimRows' claim_expires_at guarantees, and no more).
TwoRunsNeedExpiredClaim ==
  \A p, q \in Publishers : \A e \in Events :
    p # q /\ e \in run[p].batch /\ e \in run[q].batch =>
      run[p].age > ClaimTTL \/ run[q].age > ClaimTTL

\* A transactional consumer's effect happens once, however often the event is
\* redelivered after throws, crashes, expired claims and replays: a second
\* effect takes a claim that was taken over while its owner was still at work.
TransactionalOnce ==
  \A e \in Events : \A c \in Transactional : effects[e][c] > 1 => c \in shared[e]

\* A slot is claimed from a worker still at it, for the first time, only when it
\* has been for longer than STALE_CLAIM_MINUTES, and a processed slot is opened
\* again only after such a takeover.  Only the first time: the late FAILED mark
\* of a worker that was taken over is written whatever its successor recorded,
\* and frees the slot under the successor's live claim.
TakeoverNeedsStaleClaim ==
  [][\A e \in Events :
       /\ \A c \in shared'[e] \ shared[e] :
            \E p \in Publishers : Handling(p, e, c) /\ run[p].task[c].age > StaleClaim
       /\ \A c \in Consumers :
            inbox[e][c].status = "PROCESSED" /\ inbox'[e][c].status # "PROCESSED" =>
              c \in shared[e]]_vars

\* A parked row stays parked until an operator replays it, and a published row
\* stays published: no late run brings one back.
ParkedUntilReplay ==
  [][\A e \in Events :
       /\ outbox[e].state = "published" => outbox'[e] = outbox[e]
       /\ outbox[e].state = "unpublished" /\ Parked(e) /\ ~ Parked(e)' => replays' = replays + 1]_vars

\* No run outlives its claims.
Timely == \A p \in Publishers : Busy(p) => run[p].age <= ClaimTTL

\* If runs end up finishing within their claims, every event that is recorded
\* is acknowledged or parked, however many runs crashed (fairness: FairSpec).
\* Runs that forever outlive CLAIM_TTL_SECONDS hand an event back and forth.
EventuallySettled ==
  <>[]Timely =>
    \A e \in Events : outbox[e].state = "unpublished" ~>
                        (outbox[e].state = "published" \/ Parked(e))

\* The outbox and inbox implement the contract of DeliveryContract.
Contract == INSTANCE DeliveryContract WITH
  stage <- [e \in Events |-> IF outbox[e].state = "absent" THEN "absent"
                             ELSE IF outbox[e].state = "published" THEN "acked"
                             ELSE IF Parked(e) THEN "parked" ELSE "queued"],
  done  <- [e \in Events |-> {c \in Consumers : effects[e][c] > 0}]
Implements == Contract!DSpec

-----------------------------------------------------------------------------
(* What a comment of the code says, read literally. *)

\* consumer-base.ts:105, "In progress elsewhere: not delivered yet; the
\* publisher retries later": waiting for another worker parks nothing.
ParkedOnlyAfterThrow ==
  \A e \in Events : Parked(e) /\ ConsumersOf[e] # {} => threw[e] # {}

=============================================================================
