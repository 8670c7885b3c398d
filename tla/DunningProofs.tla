--------------------------- MODULE DunningProofs ---------------------------
(***************************************************************************)
(* Theorems about DunningDispatch: its types, that an attempt is sent at   *)
(* most once, and what no step may undo.                                   *)
(***************************************************************************)
EXTENDS DunningDispatch, TLAPS

-----------------------------------------------------------------------------
(* What the two shared writes do. *)

\* recordOutcome keeps the types, touches one attempt and one notice, keeps the
\* notice's token and counters, and finishes only an open attempt.
LEMMA RecordOutcomeLemma ==
  ASSUME TypeOK,
         NEW n \in Notices, NEW i \in Seqs,
         NEW row \in NoticeRows, NEW att \in AttemptRows,
         NEW outcome \in {"DEFERRED", "SUBMITTED", "FAILED", "SUPPRESSED", "DELIVERY_UNKNOWN"},
         NEW cap \in BOOLEAN,
         att.outcome = attempt[n][i].outcome,
         att.resolution = attempt[n][i].resolution,
         RecordOutcome(n, i, row, att, outcome, cap)
  PROVE  /\ notice' \in [Notices -> NoticeRows]
         /\ attempt' \in [Notices -> [Seqs -> AttemptRows]]
         /\ \A m \in Notices : m # n => notice'[m] = notice[m]
         /\ notice'[n].current = row.current
         /\ notice'[n].count = row.count
         /\ \A m \in Notices, j \in Seqs : <<m, j>> # <<n, i>> => attempt'[m][j] = attempt[m][j]
         /\ attempt'[n][i].claimed = att.claimed
         /\ attempt'[n][i].resolution = att.resolution
         /\ attempt[n][i].outcome # "PENDING" => attempt'[n][i] = att
<1> DEFINE new == IF Recordable(n, i) THEN [att EXCEPT !.outcome = outcome] ELSE att
           newRow == IF Recordable(n, i) THEN Mirrored(row, i, outcome, cap) ELSE row
<1>1. attempt' = [attempt EXCEPT ![n][i] = new] /\ notice' = [notice EXCEPT ![n] = newRow]
  BY DEF RecordOutcome
<1>2. /\ new \in AttemptRows
      /\ new.claimed = att.claimed /\ new.resolution = att.resolution
      /\ attempt[n][i].outcome # "PENDING" => new = att
  BY DEF Recordable, AttemptRows, Outcomes
<1>3. newRow \in NoticeRows /\ newRow.current = row.current /\ newRow.count = row.count
  BY DEF Mirrored, MirroredStatus, NoticeRows, Statuses
<1> HIDE DEF new, newRow
<1>4. QED
  BY <1>1, <1>2, <1>3 DEF TypeOK

\* reserveNextAttempt keeps the types and the counters; it writes the next,
\* unused attempt or only what the transaction had written before.
LEMMA ReserveLemma ==
  ASSUME TypeOK,
         NEW n \in Notices, NEW expected, NEW immediate \in BOOLEAN,
         NEW atts \in [Seqs -> AttemptRows], NEW row \in NoticeRows,
         row.current = notice[n].current,
         ReserveNextAttempt(n, expected, immediate, atts, row)
  PROVE  /\ notice' \in [Notices -> NoticeRows]
         /\ attempt' \in [Notices -> [Seqs -> AttemptRows]]
         /\ queue' \subseteq Tokens
         /\ \A m \in Notices : m # n => notice'[m] = notice[m] /\ attempt'[m] = attempt[m]
         /\ notice'[n].count = row.count
         /\ \/ notice'[n].current = notice[n].current /\ attempt'[n] = atts
            \/ /\ notice[n].current + 1 \in Seqs
               /\ notice'[n].current = notice[n].current + 1
               /\ attempt'[n][notice[n].current + 1] = NewAttempt(immediate)
               /\ \A j \in Seqs : j # notice[n].current + 1 => attempt'[n][j] = atts[j]
<1> DEFINE next == notice[n].current + 1
<1>1. NewAttempt(immediate) \in AttemptRows
  BY DEF NewAttempt, NoAttempt, AttemptRows, Outcomes
<1>2. CASE Replaceable(n, expected)
  <2>1. /\ next \in Seqs
        /\ attempt' = [attempt EXCEPT ![n] = [atts EXCEPT ![next] = NewAttempt(immediate)]]
        /\ notice' = [notice EXCEPT ![n] =
                        [row EXCEPT !.current = next, !.status = "PENDING", !.due = immediate]]
        /\ queue' = IF immediate THEN queue \cup {<<n, next>>} ELSE queue
    BY <1>2 DEF ReserveNextAttempt
  <2>2. [row EXCEPT !.current = next, !.status = "PENDING", !.due = immediate] \in NoticeRows
    BY <2>1 DEF NoticeRows, Statuses
  <2> HIDE DEF next
  <2>3. QED
    BY <1>1, <2>1, <2>2 DEF TypeOK, Tokens, NoticeRows, next
<1>3. CASE ~ Replaceable(n, expected)
  BY <1>3 DEF ReserveNextAttempt, TypeOK
<1>4. QED
  BY <1>2, <1>3

-----------------------------------------------------------------------------
(* The inductive invariant. *)

\* Attempts beyond the current one do not exist yet.
Unreserved == \A n \in Notices, i \in Seqs : i > notice[n].current => attempt[n][i] = NoAttempt

\* Worker w is about to call sendEmail for attempt i of notice n.
Sending(w, n, i) == worker[w].pc = "sending" /\ worker[w].notice = n /\ worker[w].token = i

\* One worker at a time is about to send an attempt, one that is claimed and
\* was not sent; whatever was sent was claimed.
SendInv ==
  /\ \A n \in Notices, i \in Seqs : sends[n][i] <= 1
  /\ \A n \in Notices, i \in Seqs : sends[n][i] > 0 => attempt[n][i].claimed
  /\ \A w \in Workers, n \in Notices, i \in Seqs :
       Sending(w, n, i) => attempt[n][i].claimed /\ sends[n][i] = 0
  /\ \A v, w \in Workers, n \in Notices, i \in Seqs :
       Sending(v, n, i) /\ Sending(w, n, i) => v = w

\* A worker that is about to record a send knows its result.
ResultInv ==
  \A w \in Workers : worker[w].pc = "recording" =>
                       worker[w].result \in {"SUBMITTED", "FAILED", "DELIVERY_UNKNOWN"}

\* Why an attempt is sent once: a claim needs an attempt that is not claimed,
\* and no attempt ever becomes unclaimed.
IInv == TypeOK /\ Unreserved /\ SendInv /\ ResultInv

\* The steps' obligations beside the invariant.
ClaimedStays == \A n \in Notices, i \in Seqs : attempt[n][i].claimed => attempt'[n][i].claimed
OutcomesStay ==
  \A n \in Notices, i \in Seqs :
    /\ attempt[n][i].outcome \notin {"NONE", "PENDING"} =>
         attempt'[n][i].outcome = attempt[n][i].outcome
    /\ attempt[n][i].resolution # "NONE" =>
         attempt'[n][i].resolution = attempt[n][i].resolution

\* A worker that is not idle is handling an event.
LEMMA HandlingLemma ==
  ASSUME TypeOK, NEW w \in Workers, worker[w].pc # "idle"
  PROVE  worker[w] \in Handlings /\ worker[w].notice \in Notices /\ worker[w].token \in Seqs
BY DEF TypeOK, Idle, Handlings

\* A step in which nobody starts or makes a send keeps SendInv.
LEMMA NoSendLemma ==
  ASSUME IInv, ClaimedStays, UNCHANGED sends,
         \A w \in Workers : worker'[w].pc \in {"sending", "recording"} => worker'[w] = worker[w]
  PROVE  SendInv' /\ ResultInv'
BY DEF IInv, SendInv, ResultInv, ClaimedStays, Sending

\* A transaction that ends in recordOutcome.
LEMMA RecordOutcomeKeeps ==
  ASSUME IInv,
         NEW n \in Notices, NEW i \in Seqs,
         NEW row \in NoticeRows, NEW att \in AttemptRows,
         NEW outcome \in {"DEFERRED", "SUBMITTED", "FAILED", "SUPPRESSED", "DELIVERY_UNKNOWN"},
         NEW cap \in BOOLEAN,
         row.current = notice[n].current, row.count = notice[n].count,
         att.outcome = attempt[n][i].outcome, att.resolution = attempt[n][i].resolution,
         attempt[n][i].claimed => att.claimed,
         attempt[n][i].outcome # "PENDING" => att = attempt[n][i],
         RecordOutcome(n, i, row, att, outcome, cap)
  PROVE  /\ notice' \in [Notices -> NoticeRows]
         /\ attempt' \in [Notices -> [Seqs -> AttemptRows]]
         /\ Unreserved' /\ ClaimedStays /\ OutcomesStay
         /\ \A m \in Notices : notice'[m].count = notice[m].count
<1> USE DEF IInv
<1>1. /\ notice' \in [Notices -> NoticeRows]
      /\ attempt' \in [Notices -> [Seqs -> AttemptRows]]
      /\ \A m \in Notices : m # n => notice'[m] = notice[m]
      /\ notice'[n].current = row.current
      /\ notice'[n].count = row.count
      /\ \A m \in Notices, j \in Seqs : <<m, j>> # <<n, i>> => attempt'[m][j] = attempt[m][j]
      /\ attempt'[n][i].claimed = att.claimed
      /\ attempt'[n][i].resolution = att.resolution
      /\ attempt[n][i].outcome # "PENDING" => attempt'[n][i] = att
  BY RecordOutcomeLemma
<1>2. \A m \in Notices, j \in Seqs :
        attempt[m][j].outcome # "PENDING" => attempt'[m][j] = attempt[m][j]
  BY <1>1
<1>3. \A m \in Notices : notice'[m].current = notice[m].current /\ notice'[m].count = notice[m].count
  BY <1>1
<1>4. Unreserved'
  BY <1>2, <1>3 DEF Unreserved, NoAttempt
<1>5. ClaimedStays
  <2> SUFFICES ASSUME NEW m \in Notices, NEW j \in Seqs, attempt[m][j].claimed
               PROVE  attempt'[m][j].claimed
    BY DEF ClaimedStays
  <2>1. CASE m = n /\ j = i  BY <1>1, <2>1
  <2>2. CASE ~ (m = n /\ j = i)  BY <1>1, <2>2
  <2>3. QED  BY <2>1, <2>2
<1>6. OutcomesStay
  <2> SUFFICES ASSUME NEW m \in Notices, NEW j \in Seqs
               PROVE  /\ attempt[m][j].outcome \notin {"NONE", "PENDING"} =>
                           attempt'[m][j].outcome = attempt[m][j].outcome
                      /\ attempt[m][j].resolution # "NONE" =>
                           attempt'[m][j].resolution = attempt[m][j].resolution
    BY DEF OutcomesStay
  <2>1. CASE m = n /\ j = i  BY <1>1, <2>1
  <2>2. CASE ~ (m = n /\ j = i)  BY <1>1, <2>2
  <2>3. QED  BY <2>1, <2>2
<1>7. QED
  BY <1>1, <1>3, <1>4, <1>5, <1>6

\* A transaction that ends in reserveNextAttempt.
LEMMA ReserveKeeps ==
  ASSUME IInv,
         NEW n \in Notices, NEW expected, NEW immediate \in BOOLEAN,
         NEW atts \in [Seqs -> AttemptRows], NEW row \in NoticeRows,
         row.current = notice[n].current, row.count = notice[n].count,
         \A j \in Seqs : /\ j # notice[n].current => atts[j] = attempt[n][j]
                         /\ atts[j].claimed = attempt[n][j].claimed
                         /\ atts[j].outcome = attempt[n][j].outcome
                         /\ attempt[n][j].resolution # "NONE" =>
                              atts[j].resolution = attempt[n][j].resolution,
         ReserveNextAttempt(n, expected, immediate, atts, row)
  PROVE  /\ notice' \in [Notices -> NoticeRows]
         /\ attempt' \in [Notices -> [Seqs -> AttemptRows]]
         /\ queue' \subseteq Tokens
         /\ Unreserved' /\ ClaimedStays /\ OutcomesStay
         /\ \A m \in Notices : notice'[m].count = notice[m].count
<1> USE DEF IInv
<1>1. /\ notice' \in [Notices -> NoticeRows]
      /\ attempt' \in [Notices -> [Seqs -> AttemptRows]]
      /\ queue' \subseteq Tokens
      /\ \A m \in Notices : m # n => notice'[m] = notice[m] /\ attempt'[m] = attempt[m]
      /\ notice'[n].count = row.count
      /\ \/ notice'[n].current = notice[n].current /\ attempt'[n] = atts
         \/ /\ notice[n].current + 1 \in Seqs
            /\ notice'[n].current = notice[n].current + 1
            /\ attempt'[n][notice[n].current + 1] = NewAttempt(immediate)
            /\ \A j \in Seqs : j # notice[n].current + 1 => attempt'[n][j] = atts[j]
  BY ReserveLemma, ZenonT(60)
<1>2. \A m \in Notices : notice'[m].count = notice[m].count
  BY <1>1
<1>3. notice[n].current \in Nat /\ \A j \in Seqs : j \in Nat
  BY DEF TypeOK, NoticeRows, Seqs
<1>4. Unreserved'
  BY <1>1, <1>3 DEF Unreserved
<1>5. notice[n].current + 1 \in Seqs => attempt[n][notice[n].current + 1] = NoAttempt
  BY <1>3 DEF Unreserved
<1>6. ClaimedStays
  <2> SUFFICES ASSUME NEW m \in Notices, NEW j \in Seqs, attempt[m][j].claimed
               PROVE  attempt'[m][j].claimed
    BY DEF ClaimedStays
  <2>1. CASE m # n  BY <1>1, <2>1
  <2>2. CASE m = n  BY <1>1, <1>5, <2>2 DEF NoAttempt
  <2>3. QED  BY <2>1, <2>2
<1>7. OutcomesStay
  <2> SUFFICES ASSUME NEW m \in Notices, NEW j \in Seqs
               PROVE  /\ attempt[m][j].outcome \notin {"NONE", "PENDING"} =>
                           attempt'[m][j].outcome = attempt[m][j].outcome
                      /\ attempt[m][j].resolution # "NONE" =>
                           attempt'[m][j].resolution = attempt[m][j].resolution
    BY DEF OutcomesStay
  <2>1. CASE m # n  BY <1>1, <2>1
  <2>2. CASE m = n  BY <1>1, <1>5, <2>2 DEF NoAttempt
  <2>3. QED  BY <2>1, <2>2
<1>8. QED
  BY <1>1, <1>2, <1>4, <1>6, <1>7

-----------------------------------------------------------------------------
(* Steps. *)

Safe == IInv' /\ ClaimedStays /\ OutcomesStay

\* The counters stay within their bounds.
LEMMA SpentLemma ==
  ASSUME TypeOK,
         \/ spent' = spent
         \/ spent.pauses < MaxPauses /\ spent' = [spent EXCEPT !.pauses = @ + 1]
         \/ spent.faults < MaxFaults /\ spent' = [spent EXCEPT !.faults = @ + 1]
         \/ spent.resolves < MaxResolves /\ spent' = [spent EXCEPT !.resolves = @ + 1]
  PROVE  spent' \in Counters
<1>1. /\ spent \in Counters
      /\ spent.pauses \in 0..MaxPauses /\ spent.faults \in 0..MaxFaults
      /\ spent.resolves \in 0..MaxResolves
  BY DEF TypeOK, Counters
<1>2. CASE spent.pauses < MaxPauses /\ spent' = [spent EXCEPT !.pauses = @ + 1]
  <2>1. spent.pauses + 1 \in 0..MaxPauses
    BY <1>1, <1>2, DispatchAssumption
  <2>2. QED
    BY <1>1, <1>2, <2>1 DEF Counters
<1>3. CASE spent.faults < MaxFaults /\ spent' = [spent EXCEPT !.faults = @ + 1]
  <2>1. spent.faults + 1 \in 0..MaxFaults
    BY <1>1, <1>3, DispatchAssumption
  <2>2. QED
    BY <1>1, <1>3, <2>1 DEF Counters
<1>4. CASE spent.resolves < MaxResolves /\ spent' = [spent EXCEPT !.resolves = @ + 1]
  <2>1. spent.resolves + 1 \in 0..MaxResolves
    BY <1>1, <1>4, DispatchAssumption
  <2>2. QED
    BY <1>1, <1>4, <2>1 DEF Counters
<1>5. QED
  BY <1>1, <1>2, <1>3, <1>4

LEMMA InitLemma == Init => IInv
<1> SUFFICES ASSUME Init PROVE IInv
  OBVIOUS
<1>1. 1 \in Seqs /\ MaxSends \in Nat /\ \A j \in Seqs : j \in Nat
  BY DispatchAssumption DEF Seqs
<1>2. NewAttempt(TRUE) \in AttemptRows /\ NoAttempt \in AttemptRows
  BY DEF NewAttempt, NoAttempt, AttemptRows, Outcomes, Resolutions
<1>3. TypeOK
  <2>1. notice \in [Notices -> NoticeRows]
    BY <1>1 DEF Init, NoticeRows, Statuses
  <2>2. attempt \in [Notices -> [Seqs -> AttemptRows]]
    BY <1>1, <1>2 DEF Init
  <2>3. /\ queue \subseteq Tokens /\ late \subseteq Tokens /\ accepted \subseteq Tokens
        /\ failed \subseteq Notices /\ superseded \subseteq Notices
    BY <1>1 DEF Init, Tokens
  <2>4. worker \in [Workers -> Handlings \cup {Idle}]
    BY DEF Init
  <2>5. sends \in [Notices -> [Seqs -> 0..2]]
    BY DEF Init
  <2>6. spent \in Counters
    BY DispatchAssumption DEF Init, Counters
  <2>7. gate \in BOOLEAN /\ reconGate \in BOOLEAN
    BY DEF Init
  <2>8. QED
    BY <2>1, <2>2, <2>3, <2>4, <2>5, <2>6, <2>7 DEF TypeOK
<1>4. Unreserved
  <2> SUFFICES ASSUME NEW n \in Notices, NEW i \in Seqs, i > notice[n].current
               PROVE  attempt[n][i] = NoAttempt
    BY DEF Unreserved
  <2>1. notice[n].current = 1
    BY DEF Init
  <2>2. i # 1
    BY <2>1, <1>1
  <2>3. QED
    BY <2>2 DEF Init
<1>5. \A w \in Workers : worker[w].pc = "idle"
  BY DEF Init, Idle
<1>6. \A n \in Notices, i \in Seqs : sends[n][i] = 0
  BY DEF Init
<1>7. SendInv /\ ResultInv
  BY <1>5, <1>6 DEF SendInv, ResultInv, Sending
<1>8. QED
  BY <1>3, <1>4, <1>7 DEF IInv

\* A step that leaves the tables alone and starts no send.
LEMMA TablesAloneLemma ==
  ASSUME IInv, UNCHANGED <<notice, attempt, sends>>, TypeOK',
         \A w \in Workers : worker'[w].pc \in {"sending", "recording"} => worker'[w] = worker[w]
  PROVE  Safe
<1>1. ClaimedStays /\ OutcomesStay
  BY DEF ClaimedStays, OutcomesStay
<1>2. SendInv' /\ ResultInv'
  BY <1>1, NoSendLemma
<1>3. QED
  BY <1>1, <1>2 DEF Safe, IInv, Unreserved

\* A step whose effect on the tables is known and that starts no send.
LEMMA TablesKeptLemma ==
  ASSUME IInv, UNCHANGED sends, TypeOK',
         \A w \in Workers : worker'[w].pc \in {"sending", "recording"} => worker'[w] = worker[w],
         Unreserved', ClaimedStays, OutcomesStay
  PROVE  Safe
<1>1. SendInv' /\ ResultInv'
  BY NoSendLemma
<1>2. QED
  BY <1>1 DEF Safe, IInv

\* A worker's transaction that ends in recordOutcome, after which it is done.
LEMMA FinishLemma ==
  ASSUME IInv, NEW w \in Workers, worker[w].pc # "idle",
         NEW n, n = worker[w].notice, NEW i, i = worker[w].token,
         NEW row \in NoticeRows, NEW att \in AttemptRows,
         NEW outcome \in {"DEFERRED", "SUBMITTED", "FAILED", "SUPPRESSED", "DELIVERY_UNKNOWN"},
         NEW cap \in BOOLEAN,
         row.current = notice[n].current, row.count = notice[n].count,
         att.outcome = attempt[n][i].outcome, att.resolution = attempt[n][i].resolution,
         attempt[n][i].claimed => att.claimed,
         attempt[n][i].outcome # "PENDING" => att = attempt[n][i],
         RecordOutcome(n, i, row, att, outcome, cap),
         Goto(w, "done"),
         UNCHANGED <<queue, gate, reconGate, failed, superseded, sends, late, accepted>>,
         spent' \in Counters
  PROVE  Safe
<1>1. worker[w] \in Handlings /\ n \in Notices /\ i \in Seqs
  BY HandlingLemma DEF IInv
<1>2. /\ notice' \in [Notices -> NoticeRows]
      /\ attempt' \in [Notices -> [Seqs -> AttemptRows]]
      /\ Unreserved' /\ ClaimedStays /\ OutcomesStay
      /\ \A m \in Notices : notice'[m].count = notice[m].count
  BY <1>1, RecordOutcomeKeeps
<1>3. worker' \in [Workers -> Handlings \cup {Idle}]
  BY <1>1 DEF Goto, IInv, TypeOK, Handlings
<1>4. TypeOK'
  BY <1>2, <1>3 DEF IInv, TypeOK
<1>5. \A v \in Workers : worker'[v].pc \in {"sending", "recording"} => worker'[v] = worker[v]
  BY <1>1 DEF Goto, IInv, TypeOK, Handlings
<1>6. QED
  BY <1>2, <1>4, <1>5, TablesKeptLemma

\* What a transaction starts from.
LEMMA RowsLemma ==
  ASSUME TypeOK, NEW n \in Notices, NEW i \in Seqs
  PROVE  /\ notice[n] \in NoticeRows /\ attempt[n][i] \in AttemptRows
         /\ Submitting(n) \in NoticeRows
         /\ Submitting(n).current = notice[n].current /\ Submitting(n).count = notice[n].count
<1>1. notice[n] \in NoticeRows /\ attempt[n][i] \in AttemptRows
  BY DEF TypeOK
<1>2. QED
  BY <1>1 DEF Submitting, NoticeRows, Statuses

LEMMA DeliverStep ==
  ASSUME IInv, NEW w \in Workers, NEW n \in Notices, NEW i \in Seqs, Deliver(w, n, i)
  PROVE  Safe
<1>1. TypeOK'
  BY DEF Deliver, IInv, TypeOK, Handlings
<1>2. \A v \in Workers : worker'[v].pc \in {"sending", "recording"} => worker'[v] = worker[v]
  BY DEF Deliver, IInv, TypeOK
<1>3. QED
  BY <1>1, <1>2, TablesAloneLemma DEF Deliver

LEMMA ClaimStaleStep ==
  ASSUME IInv, NEW w \in Workers, ClaimStale(w)
  PROVE  Safe
<1>1. worker[w] \in Handlings
  BY HandlingLemma DEF IInv, ClaimStale, At
<1>2. TypeOK'
  BY <1>1 DEF ClaimStale, Goto, IInv, TypeOK, Handlings
<1>3. \A v \in Workers : worker'[v].pc \in {"sending", "recording"} => worker'[v] = worker[v]
  BY <1>1 DEF ClaimStale, Goto, IInv, TypeOK, Handlings
<1>4. QED
  BY <1>2, <1>3, TablesAloneLemma DEF ClaimStale

LEMMA RecheckStep ==
  ASSUME IInv, NEW w \in Workers, Recheck(w)
  PROVE  Safe
<1>1. worker[w] \in Handlings
  BY HandlingLemma DEF IInv, Recheck, At
<1>2. TypeOK'
  BY <1>1 DEF Recheck, Goto, IInv, TypeOK, Handlings
<1>3. \A v \in Workers : worker'[v].pc \in {"sending", "recording"} => worker'[v] = worker[v]
  BY <1>1 DEF Recheck, Goto, IInv, TypeOK, Handlings
<1>4. QED
  BY <1>2, <1>3, TablesAloneLemma DEF Recheck

LEMMA AcknowledgeStep ==
  ASSUME IInv, NEW w \in Workers, Acknowledge(w)
  PROVE  Safe
<1>1. TypeOK'
  BY DEF Acknowledge, IInv, TypeOK
<1>2. \A v \in Workers : worker'[v].pc \in {"sending", "recording"} => worker'[v] = worker[v]
  BY DEF Acknowledge, IInv, TypeOK, Idle
<1>3. QED
  BY <1>1, <1>2, TablesAloneLemma DEF Acknowledge

LEMMA FaultStep ==
  ASSUME IInv, NEW w \in Workers, Fault(w)
  PROVE  Safe
<1>1. spent' \in Counters
  BY SpentLemma DEF Fault, IInv
<1>2. TypeOK'
  BY <1>1 DEF Fault, IInv, TypeOK
<1>3. \A v \in Workers : worker'[v].pc \in {"sending", "recording"} => worker'[v] = worker[v]
  BY DEF Fault, IInv, TypeOK, Idle
<1>4. QED
  BY <1>2, <1>3, TablesAloneLemma DEF Fault

LEMMA GateStep ==
  ASSUME IInv, ReadGate \/ CloseGate \/ OpenGate
  PROVE  Safe
<1>1. spent' \in Counters
  BY SpentLemma DEF ReadGate, CloseGate, OpenGate, IInv
<1>2. gate' \in BOOLEAN /\ reconGate' \in BOOLEAN
  BY DEF ReadGate, CloseGate, OpenGate, IInv, TypeOK
<1>3. UNCHANGED <<notice, attempt, sends, worker, queue, failed, superseded, late, accepted>>
  BY DEF ReadGate, CloseGate, OpenGate
<1>4. TypeOK'
  BY <1>1, <1>2, <1>3 DEF IInv, TypeOK
<1>5. QED
  BY <1>3, <1>4, TablesAloneLemma

LEMMA RecordDeferredStep ==
  ASSUME IInv, NEW w \in Workers, RecordDeferred(w)
  PROVE  Safe
<1>1. worker[w].pc # "idle" /\ spent' \in Counters
  BY SpentLemma DEF RecordDeferred, At, IInv
<1>2. worker[w].notice \in Notices /\ worker[w].token \in Seqs
  BY <1>1, HandlingLemma DEF IInv
<1>3. QED
  BY <1>1, <1>2, RowsLemma, FinishLemma DEF RecordDeferred, IInv

LEMMA ClaimSuppressedStep ==
  ASSUME IInv, NEW w \in Workers, ClaimSuppressed(w)
  PROVE  Safe
<1>1. worker[w].pc # "idle" /\ spent' \in Counters
  BY SpentLemma DEF ClaimSuppressed, At, IInv
<1>2. worker[w].notice \in Notices /\ worker[w].token \in Seqs
  BY <1>1, HandlingLemma DEF IInv
<1>3. QED
  BY <1>1, <1>2, RowsLemma, FinishLemma DEF ClaimSuppressed, IInv

LEMMA ClaimDeferredStep ==
  ASSUME IInv, NEW w \in Workers, ClaimDeferred(w)
  PROVE  Safe
<1>1. worker[w].pc # "idle" /\ spent' \in Counters
  BY SpentLemma DEF ClaimDeferred, At, IInv
<1>2. worker[w].notice \in Notices /\ worker[w].token \in Seqs
  BY <1>1, HandlingLemma DEF IInv
<1>3. QED
  BY <1>1, <1>2, RowsLemma, FinishLemma DEF ClaimDeferred, IInv

LEMMA ClaimRefusedStep ==
  ASSUME IInv, NEW w \in Workers, ClaimRefused(w)
  PROVE  Safe
<1> DEFINE n == worker[w].notice
           i == worker[w].token
           att == [attempt[n][i] EXCEPT !.claimed = @ \/ Committable(n, i)]
<1>1. worker[w].pc # "idle" /\ spent' \in Counters
  BY SpentLemma DEF ClaimRefused, At, IInv
<1>2. n \in Notices /\ i \in Seqs
  BY <1>1, HandlingLemma DEF IInv
<1>3. attempt[n][i] \in AttemptRows
  BY <1>2, RowsLemma DEF IInv
<1>4. Committable(n, i) \in BOOLEAN
  BY <1>3 DEF Committable, Recordable, AttemptRows
<1>5. /\ att \in AttemptRows
      /\ att.outcome = attempt[n][i].outcome /\ att.resolution = attempt[n][i].resolution
      /\ attempt[n][i].claimed => att.claimed
  BY <1>3, <1>4 DEF AttemptRows
<1>6. attempt[n][i].outcome # "PENDING" => att = attempt[n][i]
  <2> SUFFICES ASSUME attempt[n][i].outcome # "PENDING" PROVE att = attempt[n][i]
    OBVIOUS
  <2>1. ~ Committable(n, i)
    BY DEF Committable, Recordable
  <2>2. QED
    BY <1>3, <2>1 DEF AttemptRows
<1>7. RecordOutcome(n, i, Submitting(n), att, "SUPPRESSED", FALSE) /\ Goto(w, "done")
  BY DEF ClaimRefused
<1>8. UNCHANGED <<queue, gate, reconGate, failed, superseded, sends, late, accepted>>
  BY DEF ClaimRefused
<1> HIDE DEF att
<1>9. QED
  BY <1>1, <1>2, <1>5, <1>6, <1>7, <1>8, RowsLemma, FinishLemma DEF IInv

LEMMA RecordSendStep ==
  ASSUME IInv, NEW w \in Workers, RecordSend(w)
  PROVE  Safe
<1>1. worker[w].pc # "idle" /\ spent' \in Counters
  BY SpentLemma DEF RecordSend, At, IInv
<1>2. worker[w].notice \in Notices /\ worker[w].token \in Seqs
  BY <1>1, HandlingLemma DEF IInv
<1>3. /\ worker[w].result \in {"SUBMITTED", "FAILED", "DELIVERY_UNKNOWN"}
      /\ CapReached(worker[w].notice) \in BOOLEAN
  BY DEF RecordSend, IInv, ResultInv, At, CapReached
<1>4. QED
  BY <1>1, <1>2, <1>3, RowsLemma, FinishLemma DEF RecordSend, IInv

\* The claim: the attempt was not claimed, so nobody is sending it and it was
\* not sent.
LEMMA ClaimCommittedStep ==
  ASSUME IInv, NEW w \in Workers, ClaimCommitted(w)
  PROVE  Safe
<1> DEFINE n == worker[w].notice
           i == worker[w].token
<1>1. worker[w] \in Handlings /\ n \in Notices /\ i \in Seqs
  BY HandlingLemma DEF IInv, ClaimCommitted, At
<1>2. /\ attempt' = [attempt EXCEPT ![n][i].claimed = TRUE]
      /\ notice' = [notice EXCEPT ![n] = [Submitting(n) EXCEPT !.count = @ + 1]]
      /\ worker' = [worker EXCEPT ![w].pc = "sending"]
      /\ UNCHANGED <<queue, gate, reconGate, failed, superseded, sends, late, accepted, spent>>
  BY DEF ClaimCommitted, Goto
<1>3. ~ attempt[n][i].claimed /\ attempt[n][i].outcome = "PENDING"
  BY DEF ClaimCommitted, Committable, Recordable
<1>4. /\ notice[n] \in NoticeRows /\ attempt[n][i] \in AttemptRows
      /\ Submitting(n) \in NoticeRows /\ Submitting(n).current = notice[n].current
  BY <1>1, RowsLemma DEF IInv
<1> HIDE DEF n, i
<1>5. /\ notice' \in [Notices -> NoticeRows] /\ notice'[n].current = notice[n].current
      /\ \A m \in Notices : m # n => notice'[m] = notice[m]
  <2>1. /\ [Submitting(n) EXCEPT !.count = @ + 1] \in NoticeRows
        /\ [Submitting(n) EXCEPT !.count = @ + 1].current = notice[n].current
    BY <1>4 DEF NoticeRows
  <2>2. QED
    BY <1>1, <1>2, <2>1 DEF IInv, TypeOK
<1>6. /\ attempt' \in [Notices -> [Seqs -> AttemptRows]]
      /\ attempt'[n][i].claimed
      /\ attempt'[n][i].outcome = attempt[n][i].outcome
      /\ attempt'[n][i].resolution = attempt[n][i].resolution
      /\ \A m \in Notices, j \in Seqs : <<m, j>> # <<n, i>> => attempt'[m][j] = attempt[m][j]
  BY <1>1, <1>2, <1>4 DEF IInv, TypeOK, AttemptRows
<1>7. worker' \in [Workers -> Handlings \cup {Idle}]
  BY <1>1, <1>2 DEF IInv, TypeOK, Handlings
<1>8. TypeOK'
  BY <1>2, <1>5, <1>6, <1>7 DEF IInv, TypeOK
<1>9. Unreserved'
  <2> SUFFICES ASSUME NEW m \in Notices, NEW j \in Seqs, j > notice'[m].current
               PROVE  attempt'[m][j] = NoAttempt
    BY DEF Unreserved
  <2>1. notice'[m].current = notice[m].current
    BY <1>5
  <2>2. <<m, j>> # <<n, i>>
    BY <2>1, <1>3 DEF IInv, Unreserved, NoAttempt
  <2>3. QED
    BY <2>1, <2>2, <1>6 DEF IInv, Unreserved
<1>10. ClaimedStays /\ OutcomesStay
  <2>1. ClaimedStays
    BY <1>6 DEF ClaimedStays
  <2>2. OutcomesStay
    BY <1>6 DEF OutcomesStay
  <2>3. QED
    BY <2>1, <2>2
<1>11. /\ sends[n][i] = 0
       /\ \A v \in Workers : ~ Sending(v, n, i)
  <2>1. \A v \in Workers : ~ Sending(v, n, i)
    BY <1>1, <1>3, Zenon DEF IInv, SendInv
  <2>2. ~ (sends[n][i] > 0)
    BY <1>1, <1>3, Zenon DEF IInv, SendInv
  <2>3. sends[n][i] \in 0..2
    BY <1>1 DEF IInv, TypeOK
  <2>4. sends[n][i] = 0
    BY <2>2, <2>3
  <2>5. QED
    BY <2>1, <2>4
<1>12. \A v \in Workers, m \in Notices, j \in Seqs :
         Sending(v, m, j)' => \/ Sending(v, m, j) /\ <<m, j>> # <<n, i>>
                              \/ v = w /\ m = n /\ j = i
  BY <1>1, <1>2, <1>11 DEF Sending, IInv, TypeOK, Handlings, n, i
<1>13. SendInv'
  <2>1. \A m \in Notices, j \in Seqs : sends'[m][j] <= 1
    BY <1>2 DEF IInv, SendInv
  <2>2. \A m \in Notices, j \in Seqs : sends'[m][j] > 0 => attempt'[m][j].claimed
    BY <1>2, <1>6 DEF IInv, SendInv
  <2>3. \A v \in Workers, m \in Notices, j \in Seqs :
          Sending(v, m, j)' => attempt'[m][j].claimed /\ sends'[m][j] = 0
    BY <1>2, <1>6, <1>11, <1>12 DEF IInv, SendInv
  <2>4. \A u, v \in Workers, m \in Notices, j \in Seqs :
          Sending(u, m, j)' /\ Sending(v, m, j)' => u = v
    BY <1>12 DEF IInv, SendInv
  <2>5. QED
    BY <2>1, <2>2, <2>3, <2>4 DEF SendInv, Sending
<1>14. ResultInv'
  BY <1>1, <1>2 DEF IInv, ResultInv, TypeOK, Handlings
<1>15. QED
  BY <1>8, <1>9, <1>10, <1>13, <1>14 DEF Safe, IInv

\* The send: its worker is the only one about to make it.
LEMMA SendEmailStep ==
  ASSUME IInv, NEW w \in Workers, NEW outcome \in {"SUBMITTED", "FAILED", "DELIVERY_UNKNOWN"},
         NEW delivered \in BOOLEAN, SendEmail(w, outcome, delivered)
  PROVE  Safe
<1> DEFINE n == worker[w].notice
           i == worker[w].token
<1>1. worker[w] \in Handlings /\ n \in Notices /\ i \in Seqs
  BY HandlingLemma DEF IInv, SendEmail, At
<1>2. /\ sends' = [sends EXCEPT ![n][i] = IF @ < 2 THEN @ + 1 ELSE @]
      /\ late' = IF n \in superseded THEN late \cup {<<n, i>>} ELSE late
      /\ accepted' = IF delivered THEN accepted \cup {<<n, i>>} ELSE accepted
      /\ worker' = [worker EXCEPT ![w].pc = "recording", ![w].result = outcome]
      /\ UNCHANGED <<notice, attempt, queue, gate, reconGate, failed, superseded, spent>>
  BY DEF SendEmail
<1>3. Sending(w, n, i)
  BY DEF SendEmail, At, Sending
<1> HIDE DEF n, i
<1>4. attempt[n][i].claimed /\ sends[n][i] = 0
  BY <1>1, <1>3 DEF IInv, SendInv
<1>5. /\ sends' \in [Notices -> [Seqs -> 0..2]] /\ sends'[n][i] = 1
      /\ \A m \in Notices, j \in Seqs : <<m, j>> # <<n, i>> => sends'[m][j] = sends[m][j]
  BY <1>1, <1>2, <1>4 DEF IInv, TypeOK
<1>6. TypeOK'
  <2>1. worker' \in [Workers -> Handlings \cup {Idle}]
    BY <1>1, <1>2 DEF IInv, TypeOK, Handlings
  <2>2. accepted' \subseteq Tokens /\ late' \subseteq Tokens
    BY <1>1, <1>2 DEF IInv, TypeOK, Tokens
  <2>3. QED
    BY <1>2, <1>5, <2>1, <2>2 DEF IInv, TypeOK
<1>7. \A v \in Workers, m \in Notices, j \in Seqs :
        Sending(v, m, j)' => Sending(v, m, j) /\ v # w
  BY <1>1, <1>2 DEF Sending, IInv, TypeOK, Handlings
<1>8. SendInv'
  <2>1. \A m \in Notices, j \in Seqs : sends'[m][j] <= 1
    BY <1>5 DEF IInv, SendInv
  <2>2. \A m \in Notices, j \in Seqs : sends'[m][j] > 0 => attempt'[m][j].claimed
    BY <1>2, <1>4, <1>5 DEF IInv, SendInv
  <2>3. \A v \in Workers, m \in Notices, j \in Seqs :
          Sending(v, m, j)' => attempt'[m][j].claimed /\ sends'[m][j] = 0
    <3> SUFFICES ASSUME NEW v \in Workers, NEW m \in Notices, NEW j \in Seqs, Sending(v, m, j)'
                 PROVE  attempt'[m][j].claimed /\ sends'[m][j] = 0
      OBVIOUS
    <3>1. Sending(v, m, j) /\ v # w
      BY <1>7
    <3>2. <<m, j>> # <<n, i>>
      BY <3>1, <1>3 DEF IInv, SendInv
    <3>3. QED
      BY <3>1, <3>2, <1>2, <1>5 DEF IInv, SendInv
  <2>4. \A u, v \in Workers, m \in Notices, j \in Seqs :
          Sending(u, m, j)' /\ Sending(v, m, j)' => u = v
    BY <1>7 DEF IInv, SendInv
  <2>5. QED
    BY <2>1, <2>2, <2>3, <2>4 DEF SendInv, Sending
<1>9. ResultInv'
  BY <1>1, <1>2 DEF IInv, ResultInv, TypeOK, Handlings
<1>10. ClaimedStays /\ OutcomesStay /\ Unreserved'
  BY <1>2 DEF ClaimedStays, OutcomesStay, Unreserved, IInv
<1>11. QED
  BY <1>6, <1>8, <1>9, <1>10 DEF Safe, IInv

\* A step of the reconciliation or of a person: no worker moves.
LEMMA NoWorkerLemma ==
  ASSUME IInv, UNCHANGED <<worker, gate, reconGate, superseded, sends, late, accepted>>,
         failed' \subseteq Notices, spent' \in Counters, queue' \subseteq Tokens,
         notice' \in [Notices -> NoticeRows],
         attempt' \in [Notices -> [Seqs -> AttemptRows]],
         Unreserved', ClaimedStays, OutcomesStay
  PROVE  Safe
<1>1. TypeOK'
  BY DEF IInv, TypeOK
<1>2. QED
  BY <1>1, TablesKeptLemma

LEMMA RecoverStaleStep ==
  ASSUME IInv, NEW n \in Notices, RecoverStale(n)
  PROVE  Safe
<1>1. notice[n].current \in Seqs
  BY DEF IInv, TypeOK, NoticeRows
<1>2. /\ RecordOutcome(n, notice[n].current, notice[n], attempt[n][notice[n].current],
                       "DELIVERY_UNKNOWN", FALSE)
      /\ UNCHANGED <<queue, worker, gate, reconGate, failed, superseded, sends, late,
                     accepted, spent>>
  BY DEF RecoverStale, StaleOutcome, Current
<1>3. /\ notice' \in [Notices -> NoticeRows]
      /\ attempt' \in [Notices -> [Seqs -> AttemptRows]]
      /\ Unreserved' /\ ClaimedStays /\ OutcomesStay
      /\ \A m \in Notices : notice'[m].count = notice[m].count
  BY <1>1, <1>2, RowsLemma, RecordOutcomeKeeps DEF IInv
<1>4. QED
  BY <1>2, <1>3, NoWorkerLemma, SpentLemma DEF IInv, TypeOK

LEMMA EnqueueDueAttemptStep ==
  ASSUME IInv, NEW n \in Notices, EnqueueDueAttempt(n)
  PROVE  Safe
<1> DEFINE i == notice[n].current
<1>1. i \in Seqs
  BY DEF IInv, TypeOK, NoticeRows
<1>2. /\ attempt' = [attempt EXCEPT ![n][i].enqueued = TRUE]
      /\ queue' = queue \cup {<<n, i>>}
      /\ attempt[n][i].outcome = "PENDING"
      /\ UNCHANGED <<notice, worker, gate, reconGate, failed, superseded, sends, late,
                     accepted, spent>>
  BY DEF EnqueueDueAttempt, Recordable
<1>3. /\ attempt' \in [Notices -> [Seqs -> AttemptRows]]
      /\ \A m \in Notices, j \in Seqs :
           /\ attempt'[m][j].outcome = attempt[m][j].outcome
           /\ attempt'[m][j].resolution = attempt[m][j].resolution
           /\ attempt'[m][j].claimed = attempt[m][j].claimed
           /\ <<m, j>> # <<n, i>> => attempt'[m][j] = attempt[m][j]
  <2> HIDE DEF i
  <2>1. attempt[n][i] \in AttemptRows
    BY <1>1, RowsLemma DEF IInv
  <2>2. QED
    BY <1>1, <1>2, <2>1 DEF IInv, TypeOK, AttemptRows
<1>4. ClaimedStays /\ OutcomesStay
  BY <1>3 DEF ClaimedStays, OutcomesStay
<1>5. Unreserved'
  <2> SUFFICES ASSUME NEW m \in Notices, NEW j \in Seqs, j > notice[m].current
               PROVE  attempt'[m][j] = NoAttempt
    BY <1>2 DEF Unreserved
  <2>1. <<m, j>> # <<n, i>>
    BY <1>1 DEF Seqs
  <2>2. QED
    BY <1>3, <2>1 DEF IInv, Unreserved
<1>6. queue' \subseteq Tokens
  BY <1>1, <1>2 DEF IInv, TypeOK, Tokens
<1>7. QED
  BY <1>2, <1>3, <1>4, <1>5, <1>6, NoWorkerLemma DEF IInv, TypeOK

\* The selection of what is FAILED, and a payment that leaves the notice alone.
LEMMA SelectStep ==
  ASSUME IInv, NEW n \in Notices, SelectFailed(n) \/ Settle(n)
  PROVE  Safe
<1>1. /\ UNCHANGED <<notice, attempt, queue, worker, gate, reconGate, sends, late,
                     accepted, spent>>
      /\ failed' \subseteq Notices /\ superseded' \subseteq Notices
  BY DEF SelectFailed, Settle, IInv, TypeOK
<1>2. TypeOK'
  BY <1>1 DEF IInv, TypeOK
<1>3. QED
  BY <1>1, <1>2, TablesAloneLemma

\* The retry re-queue and the deferred-work recovery.
LEMMA RequeueStep ==
  ASSUME IInv, NEW n \in Notices, RequeueFailed(n) \/ RecoverDeferred(n)
  PROVE  Safe
<1>1. notice[n] \in NoticeRows /\ attempt[n] \in [Seqs -> AttemptRows]
  BY DEF IInv, TypeOK
<1>2. /\ \/ ReserveNextAttempt(n, "FAILED", FALSE, attempt[n], notice[n])
         \/ ReserveNextAttempt(n, "DEFERRED", TRUE, attempt[n], notice[n])
      /\ UNCHANGED <<worker, gate, reconGate, superseded, sends, late, accepted, spent>>
      /\ failed' \subseteq Notices
  BY DEF RequeueFailed, RecoverDeferred, IInv, TypeOK
<1>3. /\ notice' \in [Notices -> NoticeRows]
      /\ attempt' \in [Notices -> [Seqs -> AttemptRows]]
      /\ queue' \subseteq Tokens
      /\ Unreserved' /\ ClaimedStays /\ OutcomesStay
      /\ \A m \in Notices : notice'[m].count = notice[m].count
  BY <1>1, <1>2, ReserveKeeps
<1>4. QED
  BY <1>2, <1>3, NoWorkerLemma DEF IInv, TypeOK

\* A change of the notice row that keeps its token and its count.
LEMMA NoticeRowLemma ==
  ASSUME IInv, NEW n \in Notices, NEW row \in NoticeRows,
         row.current = notice[n].current, row.count = notice[n].count,
         notice' = [notice EXCEPT ![n] = row],
         UNCHANGED <<attempt, sends, worker>>, TypeOK'
  PROVE  Safe
<1>1. \A m \in Notices : /\ notice'[m].current = notice[m].current
                         /\ notice'[m].count = notice[m].count
  BY DEF IInv, TypeOK
<1>2. Unreserved' /\ ClaimedStays /\ OutcomesStay
  BY <1>1 DEF IInv, Unreserved, ClaimedStays, OutcomesStay
<1>3. QED
  BY <1>1, <1>2, TablesKeptLemma

LEMMA BackoffElapsesStep ==
  ASSUME IInv, NEW n \in Notices, BackoffElapses(n)
  PROVE  Safe
<1> DEFINE row == [notice[n] EXCEPT !.due = TRUE]
<1>1. row \in NoticeRows /\ row.current = notice[n].current /\ row.count = notice[n].count
  BY DEF IInv, TypeOK, NoticeRows
<1>2. notice' = [notice EXCEPT ![n] = row]
  BY DEF BackoffElapses
<1>3. UNCHANGED <<attempt, queue, worker, gate, reconGate, failed, superseded, sends, late,
                  accepted, spent>>
  BY DEF BackoffElapses
<1> HIDE DEF row
<1>4. TypeOK'
  BY <1>1, <1>2, <1>3 DEF IInv, TypeOK
<1>5. QED
  BY <1>1, <1>2, <1>3, <1>4, NoticeRowLemma

LEMMA SupersedeStep ==
  ASSUME IInv, NEW n \in Notices, Supersede(n)
  PROVE  Safe
<1> DEFINE row == IF notice[n].status \in {"PENDING", "FAILED"}
                  THEN [notice[n] EXCEPT !.status = "SUPPRESSED"] ELSE notice[n]
<1>1. row \in NoticeRows /\ row.current = notice[n].current /\ row.count = notice[n].count
  BY DEF IInv, TypeOK, NoticeRows, Statuses
<1>2. notice' = [notice EXCEPT ![n] = row]
  BY DEF Supersede, IInv, TypeOK
<1>3. /\ superseded' = superseded \cup {n}
      /\ UNCHANGED <<attempt, queue, worker, gate, reconGate, failed, sends, late, accepted, spent>>
  BY DEF Supersede
<1> HIDE DEF row
<1>4. TypeOK'
  BY <1>1, <1>2, <1>3 DEF IInv, TypeOK
<1>5. QED
  BY <1>1, <1>2, <1>3, <1>4, NoticeRowLemma

\* The resolution of the current attempt, and what it reserves.
LEMMA ResolveStep ==
  ASSUME IInv, NEW n \in Notices, NEW resolution \in Resolutions, Resolve(n, resolution)
  PROVE  Safe
<1> DEFINE i == notice[n].current
           atts == [attempt[n] EXCEPT ![i].resolution = resolution]
           raised == [notice[n] EXCEPT !.max = @ + 1]
           row == IF notice[n].status = "FAILED_EXHAUSTED" THEN raised ELSE notice[n]
           expected == IF notice[n].status = "FAILED_EXHAUSTED"
                       THEN "FAILED" ELSE "DELIVERY_UNKNOWN"
<1>1. i \in Seqs /\ notice[n] \in NoticeRows /\ attempt[n] \in [Seqs -> AttemptRows]
  BY DEF IInv, TypeOK, NoticeRows
<1>2. attempt[n][i].resolution = "NONE"
  BY DEF Resolve
<1>3. /\ spent' \in Counters
      /\ UNCHANGED <<worker, gate, reconGate, failed, superseded, sends, late, accepted>>
  BY SpentLemma DEF Resolve, IInv
<1>4. /\ atts \in [Seqs -> AttemptRows]
      /\ \A j \in Seqs : /\ j # i => atts[j] = attempt[n][j]
                         /\ atts[j].claimed = attempt[n][j].claimed
                         /\ atts[j].outcome = attempt[n][j].outcome
                         /\ attempt[n][j].resolution # "NONE" =>
                              atts[j].resolution = attempt[n][j].resolution
  <2>1. attempt[n][i] \in AttemptRows
    BY <1>1
  <2>2. [attempt[n][i] EXCEPT !.resolution = resolution] \in AttemptRows
    BY <2>1 DEF AttemptRows
  <2> HIDE DEF i
  <2>3. QED
    BY <1>1, <1>2, <2>1, <2>2 DEF AttemptRows
<1>5. /\ row \in NoticeRows /\ row.current = notice[n].current /\ row.count = notice[n].count
  BY <1>1 DEF NoticeRows
<1>6. \/ ReserveNextAttempt(n, expected, TRUE, atts, row)
      \/ /\ attempt' = [attempt EXCEPT ![n] = atts]
         /\ notice' = notice \/ notice' = [notice EXCEPT ![n].status = "SUBMITTED"]
         /\ UNCHANGED queue
  BY DEF Resolve
<1> HIDE DEF row, expected, atts
<1>7. CASE ReserveNextAttempt(n, expected, TRUE, atts, row)
  <2>1. /\ notice' \in [Notices -> NoticeRows]
        /\ attempt' \in [Notices -> [Seqs -> AttemptRows]]
        /\ queue' \subseteq Tokens
        /\ Unreserved' /\ ClaimedStays /\ OutcomesStay
        /\ \A m \in Notices : notice'[m].count = notice[m].count
    BY <1>1, <1>4, <1>5, <1>7, ReserveKeeps
  <2>2. QED
    BY <1>3, <2>1, NoWorkerLemma DEF IInv, TypeOK
<1>8. CASE /\ attempt' = [attempt EXCEPT ![n] = atts]
           /\ notice' = notice \/ notice' = [notice EXCEPT ![n].status = "SUBMITTED"]
           /\ UNCHANGED queue
  <2>1. /\ notice' \in [Notices -> NoticeRows]
        /\ \A m \in Notices : /\ notice'[m].current = notice[m].current
                              /\ notice'[m].count = notice[m].count
    <3>1. /\ [notice[n] EXCEPT !.status = "SUBMITTED"] \in NoticeRows
          /\ [notice[n] EXCEPT !.status = "SUBMITTED"].current = notice[n].current
          /\ [notice[n] EXCEPT !.status = "SUBMITTED"].count = notice[n].count
      BY <1>1 DEF NoticeRows, Statuses
    <3>2. QED
      BY <1>8, <3>1 DEF IInv, TypeOK
  <2>2. /\ attempt' \in [Notices -> [Seqs -> AttemptRows]]
        /\ attempt'[n] = atts
        /\ \A m \in Notices : m # n => attempt'[m] = attempt[m]
    BY <1>4, <1>8 DEF IInv, TypeOK
  <2>3. ClaimedStays
    <3> SUFFICES ASSUME NEW m \in Notices, NEW j \in Seqs, attempt[m][j].claimed
                 PROVE  attempt'[m][j].claimed
      BY DEF ClaimedStays
    <3>1. CASE m = n  BY <1>4, <2>2, <3>1
    <3>2. CASE m # n  BY <2>2, <3>2
    <3>3. QED  BY <3>1, <3>2
  <2>4. OutcomesStay
    <3> SUFFICES ASSUME NEW m \in Notices, NEW j \in Seqs
                 PROVE  /\ attempt[m][j].outcome \notin {"NONE", "PENDING"} =>
                             attempt'[m][j].outcome = attempt[m][j].outcome
                        /\ attempt[m][j].resolution # "NONE" =>
                             attempt'[m][j].resolution = attempt[m][j].resolution
      BY DEF OutcomesStay
    <3>1. CASE m = n  BY <1>4, <2>2, <3>1
    <3>2. CASE m # n  BY <2>2, <3>2
    <3>3. QED  BY <3>1, <3>2
  <2>5. Unreserved'
    <3> SUFFICES ASSUME NEW m \in Notices, NEW j \in Seqs, j > notice[m].current
                 PROVE  attempt'[m][j] = NoAttempt
      BY <2>1 DEF Unreserved
    <3>1. CASE m = n
      <4>1. j # i
        BY <1>1, <3>1 DEF Seqs
      <4>2. QED
        BY <1>4, <2>2, <3>1, <4>1 DEF IInv, Unreserved
    <3>2. CASE m # n
      BY <2>2, <3>2 DEF IInv, Unreserved
    <3>3. QED
      BY <3>1, <3>2
  <2>6. queue' \subseteq Tokens
    BY <1>8 DEF IInv, TypeOK
  <2>7. QED
    BY <1>3, <2>1, <2>2, <2>3, <2>4, <2>5, <2>6, NoWorkerLemma
       DEF IInv, TypeOK
<1>9. QED
  BY <1>6, <1>7, <1>8

\* What a handler does after delivery keeps the invariant.
LEMMA HandleStep ==
  ASSUME IInv, NEW w \in Workers, Handle(w)
  PROVE  Safe
<1>1. CASE RecordDeferred(w)  BY <1>1, RecordDeferredStep
<1>2. CASE ClaimStale(w)  BY <1>2, ClaimStaleStep
<1>3. CASE ClaimSuppressed(w)  BY <1>3, ClaimSuppressedStep
<1>4. CASE ClaimDeferred(w)  BY <1>4, ClaimDeferredStep
<1>5. CASE ClaimCommitted(w)  BY <1>5, ClaimCommittedStep
<1>6. CASE ClaimRefused(w)  BY <1>6, ClaimRefusedStep
<1>7. CASE RecordSend(w)  BY <1>7, RecordSendStep
<1>8. CASE Acknowledge(w)  BY <1>8, AcknowledgeStep
<1>9. CASE \E outcome \in {"SUBMITTED", "FAILED", "DELIVERY_UNKNOWN"}, delivered \in BOOLEAN :
             SendEmail(w, outcome, delivered)
  BY <1>9, SendEmailStep
<1>10. CASE Recheck(w)  BY <1>10, RecheckStep
<1>11. QED
  BY <1>1, <1>2, <1>3, <1>4, <1>5, <1>6, <1>7, <1>8, <1>9, <1>10 DEF Handle

\* Every step keeps the invariant, the claims and the recorded outcomes.
LEMMA NextLemma == IInv /\ Next => Safe
<1> SUFFICES ASSUME IInv, Next PROVE Safe
  OBVIOUS
<1>1. CASE \E w \in Workers : Handle(w) \/ Fault(w) \/ \E n \in Notices, i \in Seqs : Deliver(w, n, i)
  BY <1>1, HandleStep, FaultStep, DeliverStep
<1>2. CASE \E n \in Notices :
             \/ Reconcile(n) \/ BackoffElapses(n) \/ Settle(n) \/ Supersede(n)
             \/ \E resolution \in Resolutions : Resolve(n, resolution)
  BY <1>2, RecoverStaleStep, EnqueueDueAttemptStep, SelectStep, RequeueStep, BackoffElapsesStep,
     SupersedeStep, ResolveStep DEF Reconcile
<1>3. CASE ReadGate \/ CloseGate \/ OpenGate
  BY <1>3, GateStep
<1>4. QED
  BY <1>1, <1>2, <1>3 DEF Next

LEMMA StutterLemma == IInv /\ UNCHANGED vars => IInv'
BY DEF vars, IInv, TypeOK, Unreserved, SendInv, ResultInv, Sending

-----------------------------------------------------------------------------

\* The invariant holds in every state, for any notices, workers and bounds.
THEOREM Invariance == Spec => []IInv
<1>1. Init => IInv
  BY InitLemma
<1>2. IInv /\ [Next]_vars => IInv'
  BY NextLemma, StutterLemma DEF Safe
<1>3. QED
  BY <1>1, <1>2, PTL DEF Spec

\* The tables, the workers and the counters always have their types.
THEOREM TypeCorrect == Spec => []TypeOK
<1>1. IInv => TypeOK
  BY DEF IInv
<1>2. QED
  BY <1>1, Invariance, PTL

\* However often an attempt's event is delivered and to however many workers,
\* whoever pauses, resolves or reconciles, sendEmail is called for it at most once.
THEOREM AttemptsSentOnce == Spec => []TokenSentOnce
<1>1. IInv => TokenSentOnce
  BY DEF IInv, SendInv, TokenSentOnce
<1>2. QED
  BY <1>1, Invariance, PTL

\* No step rewrites a recorded outcome or a recorded resolution.
THEOREM OutcomesAreFinal == Spec => OutcomeIsFinal
<1>1. IInv /\ [Next]_vars =>
        [\A n \in Notices, i \in Seqs :
           /\ attempt[n][i].outcome \notin {"NONE", "PENDING"} =>
                attempt'[n][i].outcome = attempt[n][i].outcome
           /\ attempt[n][i].resolution # "NONE" =>
                attempt'[n][i].resolution = attempt[n][i].resolution]_vars
  BY NextLemma DEF Safe, OutcomesStay
<1>2. QED
  BY <1>1, Invariance, PTL DEF Spec, OutcomeIsFinal

=============================================================================
