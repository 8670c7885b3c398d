-------------------------- MODULE DunningDispatch --------------------------
(***************************************************************************)
(* Dispatch of dunning notices: the attempt-token claim protocol           *)
(* (src/src/lib/finance/dunning-dispatch.ts), the consumer that sends the  *)
(* email (src/src/events/consumers/dunning-notice.consumer.ts), the        *)
(* reconciliation job (src/src/lib/jobs/dunning-reconciliation.ts) and the *)
(* manual resolution (src/src/app/api/leasing/dunning/notices/[id]/        *)
(* resolve/route.ts).                                                      *)
(*                                                                         *)
(* A token is an attempt's number within its notice (attempt_seq).  The    *)
(* outbox delivers the event of a token again and again until it is        *)
(* acknowledged, to any number of workers at once (EventDelivery).  A      *)
(* transaction is one step when its guarded UPDATEs lock the rows it       *)
(* decides on.  The claim is two, for it reads the invoice without a lock: *)
(* the recheck and the commit, the notice's row locked in between.  So is  *)
(* the retry of the reconciliation, which selects before it locks.         *)
(***************************************************************************)
EXTENDS Integers, FiniteSets

CONSTANTS
  Notices,      \* lease_dunning_notices
  Workers,      \* processes running the consumer
  MaxSends,     \* max_send_attempts of a new notice
  MaxAttempts,  \* bound on attempts of a notice
  MaxPauses,    \* bound on operational pauses
  MaxFaults,    \* bound on handlers that die or throw
  MaxResolves   \* bound on manual resolutions

ASSUME DispatchAssumption ==
  /\ MaxSends \in Nat \ {0}
  /\ MaxAttempts \in Nat \ {0}
  /\ MaxPauses \in Nat
  /\ MaxFaults \in Nat
  /\ MaxResolves \in Nat

VARIABLES
  notice,      \* the notice rows
  attempt,     \* lease_dunning_dispatch_attempts, by notice and attempt_seq
  queue,       \* tokens whose outbox event is not acknowledged
  worker,      \* what each worker's handle() is doing
  gate,        \* DUNNING_DISPATCH_ENABLED and a transport is configured
  reconGate,   \* the gate as the running reconciliation read it
  failed,      \* notices the running reconciliation selected as FAILED
  superseded,  \* notices whose invoice has moved on: paid, settled, frozen, another stage
  sends,       \* history: sendEmail calls per attempt, counted to 2
  late,        \* history: attempts sent after their invoice had moved on
  accepted,    \* history: attempts whose email the mail server accepted
  spent        \* pauses, faults and resolutions so far

vars == <<notice, attempt, queue, worker, gate, reconGate, failed, superseded, sends, late,
          accepted, spent>>

Seqs   == 1..MaxAttempts
Tokens == Notices \X Seqs

Statuses == {"PENDING", "SUBMITTING", "SUBMITTED", "FAILED", "FAILED_EXHAUSTED",
             "DELIVERY_UNKNOWN", "SUPPRESSED"}
Outcomes == {"NONE", "PENDING", "DEFERRED", "SUBMITTED", "FAILED", "SUPPRESSED",
             "DELIVERY_UNKNOWN"}   \* NONE: no such attempt yet
Resolutions == {"CONFIRMED_SUBMITTED", "CONFIRMED_NOT_SUBMITTED", "UNRESOLVED"}

NoticeRows  == [status : Statuses, current : Seqs, count : Nat, max : Nat, due : BOOLEAN]
AttemptRows == [outcome : Outcomes, resolution : Resolutions \cup {"NONE"},
                claimed : BOOLEAN, enqueued : BOOLEAN]
Handlings   == [pc : {"deferring", "claiming", "rechecked", "sending", "recording", "done"},
                token : Seqs, notice : Notices, result : {"NONE", "SUBMITTED", "FAILED", "DELIVERY_UNKNOWN"}]

Counters    == [pauses : 0..MaxPauses, faults : 0..MaxFaults, resolves : 0..MaxResolves]

NoAttempt == [outcome |-> "NONE", resolution |-> "NONE", claimed |-> FALSE, enqueued |-> FALSE]

\* Mutant of NewAttempt: enqueued_at is stamped although the event waits.
NewAttemptStamped(enqueue) == [NoAttempt EXCEPT !.outcome = "PENDING", !.enqueued = TRUE]

\* A reserved attempt; enqueued_at is set when its event is written at once.
NewAttempt(enqueue) == [NoAttempt EXCEPT !.outcome = "PENDING", !.enqueued = enqueue]
Idle == [pc |-> "idle", token |-> 0, notice |-> "none", result |-> "NONE"]

\* createNoticeWithFirstAttempt has run for every notice.
Init ==
  /\ notice = [n \in Notices |-> [status |-> "PENDING", current |-> 1, count |-> 0,
                                  max |-> MaxSends, due |-> TRUE]]
  /\ attempt = [n \in Notices |-> [i \in Seqs |-> IF i = 1 THEN NewAttempt(TRUE) ELSE NoAttempt]]
  /\ queue = {<<n, 1>> : n \in Notices}
  /\ worker = [w \in Workers |-> Idle]
  /\ gate \in BOOLEAN
  /\ reconGate = FALSE
  /\ failed = {}
  /\ superseded = {}
  /\ sends = [n \in Notices |-> [i \in Seqs |-> 0]]
  /\ late = {}
  /\ accepted = {}
  /\ spent = [pauses |-> 0, faults |-> 0, resolves |-> 0]

-----------------------------------------------------------------------------
(* The protocol's guarded writes. *)

Current(n) == attempt[n][notice[n].current]

\* Mutant of Recordable: an outcome is written over another.
RecordableAgain(n, i) == attempt[n][i].resolution = "NONE"

\* recordOutcome's guard on the attempt row.
Recordable(n, i) == attempt[n][i].outcome = "PENDING" /\ attempt[n][i].resolution = "NONE"

\* mapOutcomeToNoticeStatus: DEFERRED is not mirrored.
MirroredStatus(outcome, capReached) ==
  IF outcome = "FAILED" /\ capReached THEN "FAILED_EXHAUSTED" ELSE outcome

\* Mutant of Mirrored: DEFERRED is mirrored too.
MirroredAlways(row, i, outcome, capReached) ==
  IF row.current = i THEN [row EXCEPT !.status = MirroredStatus(outcome, capReached)] ELSE row

\* The notice row after recordOutcome; row is the notice as the transaction has it.
Mirrored(row, i, outcome, capReached) ==
  IF outcome # "DEFERRED" /\ row.current = i
  THEN [row EXCEPT !.status = MirroredStatus(outcome, capReached)] ELSE row

\* recordOutcome, in a transaction that has made row of the notice and att of
\* the attempt: a finished attempt is left alone.
RecordOutcome(n, i, row, att, outcome, capReached) ==
  IF Recordable(n, i)
  THEN /\ attempt' = [attempt EXCEPT ![n][i] = [att EXCEPT !.outcome = outcome]]
       /\ notice' = [notice EXCEPT ![n] = Mirrored(row, i, outcome, capReached)]
  ELSE /\ attempt' = [attempt EXCEPT ![n][i] = att]
       /\ notice' = [notice EXCEPT ![n] = row]

\* reserveNextAttempt's eligibility: what came of the current attempt.
Replaceable(n, expected) == Current(n).outcome = expected

At(w, pc) == worker[w].pc = pc
Goto(w, pc) == worker' = [worker EXCEPT ![w].pc = pc]

\* No claim transaction holds the notice's row; a row that one holds is PENDING
\* for everybody else.
Unlocked(n) == \A w \in Workers : ~ (At(w, "rechecked") /\ worker[w].notice = n)

\* reserveNextAttempt over the attempts and the notice row the transaction has
\* made so far; MaxAttempts bounds the table.
ReserveNextAttempt(n, expected, immediate, atts, row) ==
  LET next == notice[n].current + 1 IN
  /\ Unlocked(n)
  /\ IF Replaceable(n, expected)
     THEN /\ next \in Seqs
          /\ attempt' = [attempt EXCEPT ![n] = [atts EXCEPT ![next] = NewAttempt(immediate)]]
          /\ notice' = [notice EXCEPT ![n] =
                          [row EXCEPT !.current = next, !.status = "PENDING", !.due = immediate]]
          /\ queue' = IF immediate THEN queue \cup {<<n, next>>} ELSE queue
     ELSE /\ attempt' = [attempt EXCEPT ![n] = atts]
          /\ notice' = [notice EXCEPT ![n] = row]
          /\ UNCHANGED queue

-----------------------------------------------------------------------------
(* DunningNoticeConsumer.handle. *)

\* Delivery of an event: the gate is read before anything else.
Deliver(w, n, i) ==
  /\ At(w, "idle")
  /\ <<n, i>> \in queue
  /\ worker' = [worker EXCEPT ![w] = [pc |-> IF gate THEN "claiming" ELSE "deferring",
                                      notice |-> n, token |-> i, result |-> "NONE"]]
  /\ UNCHANGED <<notice, attempt, queue, gate, reconGate, failed, superseded, sends,
                 late, accepted, spent>>

\* The gate was closed: an operational pause.
RecordDeferred(w) ==
  LET n == worker[w].notice
      i == worker[w].token
  IN
  /\ At(w, "deferring")
  /\ RecordOutcome(n, i, notice[n], attempt[n][i], "DEFERRED", FALSE)
  /\ Goto(w, "done")
  /\ UNCHANGED <<queue, gate, reconGate, failed, superseded, sends, late, accepted,
                 spent>>

\* claimAttempt: only a PENDING notice under the token it expects.
Claimable(n, i) == notice[n].current = i /\ notice[n].status = "PENDING"

\* Mutant of ClaimStale: the handler sends although it could not claim.
ClaimStaleSends(w) ==
  /\ At(w, "claiming")
  /\ ~ Claimable(worker[w].notice, worker[w].token)
  /\ Goto(w, "sending")
  /\ UNCHANGED <<notice, attempt, queue, gate, reconGate, failed, superseded, sends,
                 late, accepted, spent>>

\* The claim transaction finds the event stale: nothing is written.
ClaimStale(w) ==
  /\ At(w, "claiming")
  /\ ~ Claimable(worker[w].notice, worker[w].token)
  /\ Goto(w, "done")
  /\ UNCHANGED <<notice, attempt, queue, gate, reconGate, failed, superseded, sends,
                 late, accepted, spent>>

Submitting(n) == [notice[n] EXCEPT !.status = "SUBMITTING"]

\* preDispatchRecheck says no: always once the invoice has moved on, else for
\* reasons of its own (disputed, a suppression, no address).
ClaimSuppressed(w) ==
  LET n == worker[w].notice
      i == worker[w].token
  IN
  /\ At(w, "claiming")
  /\ Claimable(n, i) /\ Unlocked(n)
  /\ RecordOutcome(n, i, Submitting(n), attempt[n][i], "SUPPRESSED", FALSE)
  /\ Goto(w, "done")
  /\ UNCHANGED <<queue, gate, reconGate, failed, superseded, sends, late, accepted,
                 spent>>

\* Mutant of StillCurrent: the recheck does not compare cycle and stage.
CurrentForever(n) == n \in Notices

\* preDispatchRecheck's look at the invoice: owed, and in the notice's cycle and stage.
StillCurrent(n) == n \notin superseded

\* preDispatchRecheck says yes, with the notice claimed and the invoice not locked.
Recheck(w) ==
  /\ At(w, "claiming")
  /\ Claimable(worker[w].notice, worker[w].token) /\ Unlocked(worker[w].notice)
  /\ StillCurrent(worker[w].notice)
  /\ Goto(w, "rechecked")
  /\ UNCHANGED <<notice, attempt, queue, gate, reconGate, failed, superseded, sends, late,
                 accepted, spent>>

\* resolveDispatchRecipients finds no override address outside production.
ClaimDeferred(w) ==
  LET n == worker[w].notice
      i == worker[w].token
  IN
  /\ At(w, "rechecked")
  /\ spent.pauses < MaxPauses
  /\ spent' = [spent EXCEPT !.pauses = @ + 1]
  /\ RecordOutcome(n, i, Submitting(n), attempt[n][i], "DEFERRED", FALSE)
  /\ Goto(w, "done")
  /\ UNCHANGED <<queue, gate, reconGate, failed, superseded, sends, late, accepted>>

\* commitPreparedEvidence's guard on the notice row.
WithinCap(n) == notice[n].count < notice[n].max

\* commitPreparedEvidence's guard on the attempt row.
Committable(n, i) == Recordable(n, i) /\ ~ attempt[n][i].claimed

\* The evidence commits and the send is counted: the email may be sent.
ClaimCommitted(w) ==
  LET n == worker[w].notice
      i == worker[w].token
  IN
  /\ At(w, "rechecked")
  /\ Committable(n, i) /\ WithinCap(n)
  /\ attempt' = [attempt EXCEPT ![n][i].claimed = TRUE]
  /\ notice' = [notice EXCEPT ![n] = [Submitting(n) EXCEPT !.count = @ + 1]]
  /\ Goto(w, "sending")
  /\ UNCHANGED <<queue, gate, reconGate, failed, superseded, sends, late, accepted,
                 spent>>

\* commitPreparedEvidence fails on one of its rows; what the first UPDATE wrote
\* commits with the SUPPRESSED outcome.
ClaimRefused(w) ==
  LET n == worker[w].notice
      i == worker[w].token
      att == [attempt[n][i] EXCEPT !.claimed = @ \/ Committable(n, i)]
  IN
  /\ At(w, "rechecked")
  /\ ~ (Committable(n, i) /\ WithinCap(n))
  /\ RecordOutcome(n, i, Submitting(n), att, "SUPPRESSED", FALSE)
  /\ Goto(w, "done")
  /\ UNCHANGED <<queue, gate, reconGate, failed, superseded, sends, late, accepted,
                 spent>>

\* sendEmail: sent, a definite failure, or no way to know.
SendEmail(w, outcome, delivered) ==
  LET n == worker[w].notice
      i == worker[w].token
  IN
  /\ At(w, "sending")
  /\ outcome = "SUBMITTED" => delivered
  /\ outcome = "FAILED" => ~ delivered
  /\ sends' = [sends EXCEPT ![n][i] = IF @ < 2 THEN @ + 1 ELSE @]
  /\ late' = IF n \in superseded THEN late \cup {<<n, i>>} ELSE late
  /\ accepted' = IF delivered THEN accepted \cup {<<n, i>>} ELSE accepted
  /\ worker' = [worker EXCEPT ![w].pc = "recording", ![w].result = outcome]
  /\ UNCHANGED <<notice, attempt, queue, gate, reconGate, failed, superseded, spent>>

\* Mutant of CapReached: a definite failure always leaves another try.
CapNeverReached(n) == notice[n].count > notice[n].max

\* getSendAttemptState, in the recording transaction.
CapReached(n) == notice[n].count >= notice[n].max

RecordSend(w) ==
  LET n == worker[w].notice
      i == worker[w].token
  IN
  /\ At(w, "recording")
  /\ RecordOutcome(n, i, notice[n], attempt[n][i], worker[w].result, CapReached(n))
  /\ Goto(w, "done")
  /\ UNCHANGED <<queue, gate, reconGate, failed, superseded, sends, late, accepted,
                 spent>>

\* handle() returned: the inbox row is PROCESSED and the event acknowledged.
Acknowledge(w) ==
  /\ At(w, "done")
  /\ queue' = queue \ {<<worker[w].notice, worker[w].token>>}
  /\ worker' = [worker EXCEPT ![w] = Idle]
  /\ UNCHANGED <<notice, attempt, gate, reconGate, failed, superseded, sends, late,
                 accepted, spent>>

\* The process dies or the handler throws: the event is delivered again.
Fault(w) ==
  /\ worker[w].pc # "idle"
  /\ spent.faults < MaxFaults
  /\ spent' = [spent EXCEPT !.faults = @ + 1]
  /\ worker' = [worker EXCEPT ![w] = Idle]
  /\ UNCHANGED <<notice, attempt, queue, gate, reconGate, failed, superseded, sends,
                 late, accepted>>

-----------------------------------------------------------------------------
(* runDunningReconciliation: four sub-jobs, each guarded on its own. *)

\* The job reads the gate once, at its start.
ReadGate ==
  /\ reconGate # gate
  /\ reconGate' = gate
  /\ UNCHANGED <<notice, attempt, queue, worker, gate, failed, superseded, sends, late,
                 accepted, spent>>

\* No send of the attempt can still be going on: STALE_SUBMITTING_THRESHOLD_MS
\* is longer than the transport's timeouts.
TransportTimedOut(n) ==
  \A w \in Workers : ~ (At(w, "sending") /\ worker[w].notice = n
                        /\ worker[w].token = notice[n].current)

\* Mutant of StaleOutcome: a claim that never resolved is taken as not sent.
StaleIsFailed(n) == IF n \in Notices THEN "FAILED" ELSE "DELIVERY_UNKNOWN"

\* What (a) makes of a claim that never resolved.
StaleOutcome(n) == "DELIVERY_UNKNOWN"

\* (a) stale-SUBMITTING recovery.
RecoverStale(n) ==
  /\ notice[n].status = "SUBMITTING"
  /\ TransportTimedOut(n)
  /\ Recordable(n, notice[n].current)
  /\ RecordOutcome(n, notice[n].current, notice[n], Current(n), StaleOutcome(n), FALSE)
  /\ UNCHANGED <<queue, worker, gate, reconGate, failed, superseded, sends, late,
                 accepted, spent>>

\* (b) enqueueDueAttempt.
EnqueueDueAttempt(n) ==
  /\ ~ Current(n).enqueued
  /\ Recordable(n, notice[n].current)
  /\ notice[n].due
  /\ attempt' = [attempt EXCEPT ![n][notice[n].current].enqueued = TRUE]
  /\ queue' = queue \cup {<<n, notice[n].current>>}
  /\ UNCHANGED <<notice, worker, gate, reconGate, failed, superseded, sends, late,
                 accepted, spent>>

\* (c) retry re-queue: what is FAILED is selected first,
SelectFailed(n) ==
  /\ notice[n].status = "FAILED"
  /\ failed' = failed \cup {n}
  /\ UNCHANGED <<notice, attempt, queue, worker, gate, reconGate, superseded, sends, late,
                 accepted, spent>>

\* then retried, whatever the notice's status has become.
RequeueFailed(n) ==
  /\ n \in failed
  /\ failed' = failed \ {n}
  /\ ReserveNextAttempt(n, "FAILED", FALSE, attempt[n], notice[n])
  /\ UNCHANGED <<worker, gate, reconGate, superseded, sends, late, accepted, spent>>

\* (d) deferred-work recovery, whatever the notice's own status.
RecoverDeferred(n) ==
  /\ reconGate
  /\ Current(n).outcome = "DEFERRED"
  /\ ReserveNextAttempt(n, "DEFERRED", TRUE, attempt[n], notice[n])
  /\ UNCHANGED <<worker, gate, reconGate, failed, superseded, sends, late, accepted,
                 spent>>

\* next_attempt_at of a retry is reached (RETRY_BACKOFF_MS).
BackoffElapses(n) ==
  /\ ~ notice[n].due
  /\ notice' = [notice EXCEPT ![n].due = TRUE]
  /\ UNCHANGED <<attempt, queue, worker, gate, reconGate, failed, superseded, sends,
                 late, accepted, spent>>

-----------------------------------------------------------------------------
(* People, and the rest of the dunning system. *)

\* The resolve route; whoever resolves knows whether the email was accepted.
Resolve(n, resolution) ==
  LET i == notice[n].current
      exhausted == notice[n].status = "FAILED_EXHAUSTED"
      atts == [attempt[n] EXCEPT ![i].resolution = resolution]
  IN
  /\ spent.resolves < MaxResolves
  /\ spent' = [spent EXCEPT !.resolves = @ + 1]
  /\ notice[n].status \in {"DELIVERY_UNKNOWN", "FAILED_EXHAUSTED"}
  /\ attempt[n][i].resolution = "NONE"
  /\ resolution = "CONFIRMED_SUBMITTED" => <<n, i>> \in accepted
  /\ resolution = "CONFIRMED_NOT_SUBMITTED" => <<n, i>> \notin accepted
  /\ \/ /\ resolution = "CONFIRMED_NOT_SUBMITTED"
        /\ ReserveNextAttempt(n, IF exhausted THEN "FAILED" ELSE "DELIVERY_UNKNOWN", TRUE, atts,
                              IF exhausted THEN [notice[n] EXCEPT !.max = @ + 1] ELSE notice[n])
     \/ /\ resolution # "CONFIRMED_NOT_SUBMITTED"
        /\ attempt' = [attempt EXCEPT ![n] = atts]
        /\ notice' = IF resolution = "CONFIRMED_SUBMITTED"
                     THEN [notice EXCEPT ![n].status = "SUBMITTED"] ELSE notice
        /\ UNCHANGED queue
  /\ UNCHANGED <<worker, gate, reconGate, failed, superseded, sends, late, accepted>>

\* A deposit or a lease payment settles the balance; it leaves the notices to
\* the recheck.
Settle(n) ==
  /\ n \notin superseded
  /\ superseded' = superseded \cup {n}
  /\ UNCHANGED <<notice, attempt, queue, worker, gate, reconGate, failed, sends, late,
                 accepted, spent>>

\* The sweep, an approved legal referral or a finance payment moves the invoice
\* on and suppresses what has not been claimed.
Supersede(n) ==
  /\ Unlocked(n)
  /\ n \in superseded => notice[n].status \in {"PENDING", "FAILED"}
  /\ superseded' = superseded \cup {n}
  /\ notice' = IF notice[n].status \in {"PENDING", "FAILED"}
               THEN [notice EXCEPT ![n].status = "SUPPRESSED"] ELSE notice
  /\ UNCHANGED <<attempt, queue, worker, gate, reconGate, failed, sends, late,
                 accepted, spent>>

CloseGate ==
  /\ gate
  /\ spent.pauses < MaxPauses
  /\ spent' = [spent EXCEPT !.pauses = @ + 1]
  /\ gate' = FALSE
  /\ UNCHANGED <<notice, attempt, queue, worker, reconGate, failed, superseded, sends,
                 late, accepted>>

OpenGate ==
  /\ ~ gate
  /\ gate' = TRUE
  /\ UNCHANGED <<notice, attempt, queue, worker, reconGate, failed, superseded, sends,
                 late, accepted, spent>>

-----------------------------------------------------------------------------

Handle(w) ==
  \/ RecordDeferred(w) \/ ClaimStale(w) \/ ClaimSuppressed(w) \/ Recheck(w) \/ ClaimDeferred(w)
  \/ ClaimCommitted(w) \/ ClaimRefused(w) \/ RecordSend(w) \/ Acknowledge(w)
  \/ \E outcome \in {"SUBMITTED", "FAILED", "DELIVERY_UNKNOWN"}, delivered \in BOOLEAN :
       SendEmail(w, outcome, delivered)

Reconcile(n) ==
  \/ RecoverStale(n) \/ EnqueueDueAttempt(n) \/ SelectFailed(n) \/ RequeueFailed(n)
  \/ RecoverDeferred(n)

Next ==
  \/ \E w \in Workers : Handle(w) \/ Fault(w) \/ \E n \in Notices, i \in Seqs : Deliver(w, n, i)
  \/ \E n \in Notices :
       \/ Reconcile(n) \/ BackoffElapses(n) \/ Settle(n) \/ Supersede(n)
       \/ \E resolution \in Resolutions : Resolve(n, resolution)
  \/ ReadGate \/ CloseGate \/ OpenGate

Spec == Init /\ [][Next]_vars

\* Handlers return, the outbox redelivers, the reconciliation job keeps running,
\* and a pause ends; faults, pauses and resolutions are not forced.
FairSpec ==
  /\ Spec
  /\ \A w \in Workers : WF_vars(Handle(w))
  /\ \A n \in Notices, i \in Seqs : WF_vars(\E w \in Workers : Deliver(w, n, i))
  /\ \A n \in Notices : WF_vars(Reconcile(n)) /\ WF_vars(BackoffElapses(n))
  /\ WF_vars(ReadGate) /\ WF_vars(OpenGate)

-----------------------------------------------------------------------------

\* The tables, workers and counters have their types.
TypeOK ==
  /\ notice \in [Notices -> NoticeRows]
  /\ attempt \in [Notices -> [Seqs -> AttemptRows]]
  /\ queue \subseteq Tokens
  /\ worker \in [Workers -> Handlings \cup {Idle}]
  /\ gate \in BOOLEAN /\ reconGate \in BOOLEAN
  /\ failed \subseteq Notices
  /\ superseded \subseteq Notices
  /\ late \subseteq Tokens
  /\ sends \in [Notices -> [Seqs -> 0..2]]
  /\ accepted \subseteq Tokens
  /\ spent \in Counters

\* However often its event is delivered, to however many workers, sendEmail is
\* called at most once for an attempt, and never again after its outcome.
TokenSentOnce == \A n \in Notices, i \in Seqs : sends[n][i] <= 1

\* A recorded outcome or resolution is never rewritten, by a late worker, the
\* reconciliation or a second person.
OutcomeIsFinal ==
  [][\A n \in Notices, i \in Seqs :
       /\ attempt[n][i].outcome \notin {"NONE", "PENDING"} =>
            attempt'[n][i].outcome = attempt[n][i].outcome
       /\ attempt[n][i].resolution # "NONE" =>
            attempt'[n][i].resolution = attempt[n][i].resolution]_vars

\* The notice agrees with its attempts: the sends counted against its allowance
\* are at least those made and never more than the allowance (pausing and
\* resuming costs nothing), and it shows what came of the current attempt;
\* FAILED always leaves a try, FAILED_EXHAUSTED none.
NoticeAgreesWithAttempts ==
  \A n \in Notices :
    LET status == notice[n].status
        sent == {i \in Seqs : sends[n][i] > 0}
        claimed == {i \in Seqs : attempt[n][i].claimed}
    IN
    /\ sent \subseteq claimed
    /\ Cardinality(sent) <= notice[n].count
    /\ notice[n].count <= notice[n].max
    /\ status = "SUBMITTED" =>
         Current(n).outcome = "SUBMITTED" \/ Current(n).resolution = "CONFIRMED_SUBMITTED"
    /\ status \in {"FAILED", "FAILED_EXHAUSTED"} =>
         /\ Current(n).outcome = "FAILED"
         /\ (status = "FAILED") <=> (notice[n].count < notice[n].max)
    /\ status = "DELIVERY_UNKNOWN" => Current(n).outcome = "DELIVERY_UNKNOWN"

\* The customer gets the email of one notice twice only when an attempt that
\* was claimed for sending was written off as deferred.
SecondEmailNeedsDeferredClaim ==
  \A n \in Notices :
    Cardinality({i \in Seqs : <<n, i>> \in accepted}) > 1 =>
      \E i \in Seqs : attempt[n][i].claimed /\ attempt[n][i].outcome = "DEFERRED"

\* Once its invoice has moved on, a notice is emailed once more at the most, by a
\* handler that had looked at the invoice before, although failures are retried
\* and a suppressed notice is made PENDING again; twice only when an attempt
\* that was claimed for sending was written off as deferred.
OneLateSend ==
  \A n \in Notices :
    Cardinality({i \in Seqs : <<n, i>> \in late}) > 1 =>
      \E i \in Seqs : attempt[n][i].claimed /\ attempt[n][i].outcome = "DEFERRED"

\* Every notice comes to rest: it is sent, suppressed, out of tries or left to
\* a person (unless the bound on attempts stops it; fairness: FairSpec).
NoticesComeToRest ==
  \A n \in Notices :
    notice[n].status \in {"PENDING", "SUBMITTING", "FAILED"} ~>
      \/ notice[n].status \in {"SUBMITTED", "FAILED_EXHAUSTED", "DELIVERY_UNKNOWN", "SUPPRESSED"}
      \/ notice[n].current = MaxAttempts

=============================================================================
