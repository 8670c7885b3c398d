------------------------- MODULE DunningNoticeProofs -------------------------
(***************************************************************************)
(* Theorems about the notices of DunningDispatch: that a notice agrees     *)
(* with its attempts, the one way to a second email, and how often a       *)
(* notice is sent after its invoice has moved on.                          *)
(***************************************************************************)
EXTENDS DunningProofs, FiniteSetTheorems

-----------------------------------------------------------------------------
(* The inductive invariant. *)

\* What the notice row says of its current attempt and of its allowance.
Agrees(n) ==
  LET status == notice[n].status IN
  /\ notice[n].count <= notice[n].max
  /\ status = "SUBMITTED" =>
       Current(n).outcome = "SUBMITTED" \/ Current(n).resolution = "CONFIRMED_SUBMITTED"
  /\ status \in {"FAILED", "FAILED_EXHAUSTED"} =>
       /\ Current(n).outcome = "FAILED"
       /\ (status = "FAILED") <=> (notice[n].count < notice[n].max)
  /\ status = "DELIVERY_UNKNOWN" => Current(n).outcome = "DELIVERY_UNKNOWN"

\* The attempts whose send was counted: sent, or about to be.
Booked(n) == {i \in Seqs : sends[n][i] > 0 \/ \E w \in Workers : Sending(w, n, i)}

Resting(n, i) == \A w \in Workers : ~ Sending(w, n, i)

\* Only what was sent is accepted, and a worker that is about to record a
\* failure, like a recorded failure, stands for an email that was not.
Truthful(n, i) ==
  /\ <<n, i>> \in accepted => sends[n][i] > 0
  /\ \A w \in Workers :
       worker[w].pc = "recording" /\ worker[w].notice = n /\ worker[w].token = i =>
         sends[n][i] > 0 /\ (worker[w].result = "FAILED" => <<n, i>> \notin accepted)
  /\ attempt[n][i].outcome \in {"FAILED", "DELIVERY_UNKNOWN"} => Resting(n, i)
  /\ attempt[n][i].outcome = "FAILED" => <<n, i>> \notin accepted

WrittenOff(n, i) == attempt[n][i].claimed /\ attempt[n][i].outcome = "DEFERRED"

\* An attempt that was replaced was not accepted and will not be, unless it was
\* claimed and written off as deferred.
Settled(n, i) ==
  i < notice[n].current => WrittenOff(n, i) \/ (<<n, i>> \notin accepted /\ Resting(n, i))

NInv ==
  \A n \in Notices :
    /\ Agrees(n)
    /\ Cardinality(Booked(n)) <= notice[n].count
    /\ \A i \in Seqs : Truthful(n, i) /\ Settled(n, i)

\* A claim transaction that holds the notice is about its current attempt.
Held(n) ==
  \A w \in Workers :
    worker[w].pc = "rechecked" /\ worker[w].notice = n => worker[w].token = notice[n].current

\* A worker has looked at the invoice for attempt i and may still send it.
Live(n, i) ==
  \E w \in Workers : /\ worker[w].pc \in {"rechecked", "sending"}
                     /\ worker[w].notice = n /\ worker[w].token = i

\* Only of an invoice that has moved on is a send late; beside a late one there
\* is no other, made or to be made, unless a claim was written off as deferred.
LateAlone(n) ==
  /\ \A i \in Seqs : <<n, i>> \in late => n \in superseded
  /\ \/ \E i \in Seqs : WrittenOff(n, i)
     \/ \A i, j \in Seqs :
          <<n, i>> \in late /\ (<<n, j>> \in late \/ Live(n, j)) => i = j

LInv == \A n \in Notices : Held(n) /\ LateAlone(n)

-----------------------------------------------------------------------------
(* Steps that claim and send nothing. *)

\* A notice goes on to the next attempt only when nobody holds it and the
\* current one failed, was deferred, or is known not to have been accepted.
Replaced(n) ==
  notice'[n].current # notice[n].current =>
    /\ notice'[n].current = notice[n].current + 1
    /\ Unlocked(n)
    /\ \/ Current(n).outcome \in {"FAILED", "DEFERRED"}
       \/ Current(n).outcome = "DELIVERY_UNKNOWN" /\ <<n, notice[n].current>> \notin accepted

\* A failure, or not knowing, is recorded of an attempt that nobody is sending.
Finished(n) ==
  \A i \in Seqs :
    attempt'[n][i].outcome \in {"FAILED", "DELIVERY_UNKNOWN"} =>
      \/ attempt'[n][i].outcome = attempt[n][i].outcome
      \/ Resting(n, i) /\ (attempt'[n][i].outcome = "FAILED" => <<n, i>> \notin accepted)

\* No worker starts or makes a send.
NoSend == \A v \in Workers : worker'[v].pc \in {"sending", "recording"} => worker'[v] = worker[v]

Quiet ==
  /\ UNCHANGED <<sends, accepted>> /\ NoSend
  /\ ClaimedStays
  /\ \A n \in Notices : /\ Agrees(n)' /\ notice'[n].count = notice[n].count
                        /\ Replaced(n) /\ Finished(n)

\* The attempts are finitely many.
LEMMA SeqsLemma == IsFiniteSet(Seqs) /\ \A i \in Seqs : i \in Nat
<1>1. 1 \in Int /\ MaxAttempts \in Int
  BY DispatchAssumption
<1>2. QED
  BY <1>1, FS_Interval DEF Seqs

LEMMA BookedLemma == ASSUME NEW n PROVE IsFiniteSet(Booked(n)) /\ Cardinality(Booked(n)) \in Nat
<1>1. Booked(n) \subseteq Seqs
  BY DEF Booked
<1>2. QED
  BY <1>1, SeqsLemma, FS_Subset, FS_CardinalityType

LEMMA QuietNext ==
  ASSUME IInv, NInv, IInv', OutcomesStay, Quiet
  PROVE  NInv'
<1> SUFFICES ASSUME NEW n \in Notices
             PROVE  /\ Agrees(n)'
                    /\ (Cardinality(Booked(n)) <= notice[n].count)'
                    /\ \A i \in Seqs : Truthful(n, i)' /\ Settled(n, i)'
  BY DEF NInv
<1>1. Agrees(n)' /\ notice'[n].count = notice[n].count /\ Replaced(n) /\ Finished(n)
  BY DEF Quiet
<1>2. UNCHANGED <<sends, accepted>> /\ NoSend /\ ClaimedStays
  BY DEF Quiet
<1>3. \A i \in Seqs : Resting(n, i) => Resting(n, i)'
  BY <1>2 DEF Resting, Sending, NoSend
<1>4. (Cardinality(Booked(n)) <= notice[n].count)'
  <2>1. Booked(n)' \subseteq Booked(n)
    BY <1>2 DEF Booked, Sending, NoSend
  <2>2. Cardinality(Booked(n)') <= Cardinality(Booked(n)) /\ Cardinality(Booked(n)') \in Nat
    BY <2>1, BookedLemma, FS_Subset, FS_CardinalityType
  <2>3. Cardinality(Booked(n)) <= notice[n].count /\ notice[n].count \in Nat
    BY DEF NInv, IInv, TypeOK, NoticeRows
  <2>4. QED
    BY <1>1, <2>2, <2>3, BookedLemma
<1>5. ASSUME NEW i \in Seqs
      PROVE  Truthful(n, i)' /\ Settled(n, i)'
  <2>1. Truthful(n, i) /\ Settled(n, i)
    BY DEF NInv
  <2>2. Truthful(n, i)'
    <3>1. (<<n, i>> \in accepted => sends[n][i] > 0)'
      BY <1>2, <2>1 DEF Truthful
    <3>2. (\A w \in Workers :
             worker[w].pc = "recording" /\ worker[w].notice = n /\ worker[w].token = i =>
               sends[n][i] > 0 /\ (worker[w].result = "FAILED" => <<n, i>> \notin accepted))'
      BY <1>2, <2>1 DEF Truthful, NoSend
    <3>3. (attempt[n][i].outcome \in {"FAILED", "DELIVERY_UNKNOWN"} => Resting(n, i))'
      BY <1>1, <1>3, <2>1 DEF Truthful, Finished
    <3>4. (attempt[n][i].outcome = "FAILED" => <<n, i>> \notin accepted)'
      BY <1>1, <1>2, <2>1 DEF Truthful, Finished
    <3>5. QED
      BY <3>1, <3>2, <3>3, <3>4 DEF Truthful
  <2>3. WrittenOff(n, i) => WrittenOff(n, i)'
    BY <1>2 DEF WrittenOff, ClaimedStays, OutcomesStay
  <2>4. notice[n].current \in Nat /\ notice'[n].current \in Nat /\ i \in Nat
    BY SeqsLemma DEF IInv, TypeOK, NoticeRows
  <2>5. Settled(n, i)'
    <3> SUFFICES ASSUME i < notice'[n].current
                 PROVE  WrittenOff(n, i)' \/ (<<n, i>> \notin accepted' /\ Resting(n, i)')
      BY DEF Settled
    <3>1. CASE i < notice[n].current
      BY <1>2, <1>3, <2>1, <2>3, <3>1 DEF Settled
    <3>2. CASE ~ (i < notice[n].current)
      <4>1. i = notice[n].current /\ notice'[n].current # notice[n].current
        BY <1>1, <2>4, <3>2 DEF Replaced
      <4>2. CASE attempt[n][i].outcome = "FAILED"
        BY <1>2, <1>3, <2>1, <4>2 DEF Truthful
      <4>3. CASE attempt[n][i].outcome = "DELIVERY_UNKNOWN" /\ <<n, i>> \notin accepted
        BY <1>2, <1>3, <2>1, <4>3 DEF Truthful
      <4>4. CASE attempt[n][i].outcome = "DEFERRED"
        <5>1. CASE attempt[n][i].claimed
          BY <2>3, <4>4, <5>1 DEF WrittenOff
        <5>2. CASE ~ attempt[n][i].claimed
          <6>1. Resting(n, i) /\ ~ (sends[n][i] > 0)
            BY <5>2 DEF IInv, SendInv, Resting
          <6>2. QED
            BY <1>2, <1>3, <2>1, <6>1 DEF Truthful
        <5>3. QED
          BY <5>1, <5>2
      <4>5. QED
        BY <1>1, <4>1, <4>2, <4>3, <4>4 DEF Replaced, Current
    <3>3. QED
      BY <3>1, <3>2
  <2>6. QED
    BY <2>2, <2>5
<1>6. QED
  BY <1>1, <1>4, <1>5

-----------------------------------------------------------------------------
(* The two shared writes. *)

\* recordOutcome keeps the notice in step with its current attempt, finishes
\* one attempt at most, and replaces none.
LEMMA RecordOutcomeAgrees ==
  ASSUME IInv, \A m \in Notices : Agrees(m),
         NEW n \in Notices, NEW i \in Seqs,
         NEW row \in NoticeRows, NEW att \in AttemptRows,
         NEW outcome \in {"DEFERRED", "SUBMITTED", "FAILED", "SUPPRESSED", "DELIVERY_UNKNOWN"},
         NEW cap \in BOOLEAN,
         row.current = notice[n].current, row.count = notice[n].count, row.max = notice[n].max,
         row.status \in {notice[n].status, "SUBMITTING"},
         att.outcome = attempt[n][i].outcome, att.resolution = attempt[n][i].resolution,
         outcome = "FAILED" => (cap <=> notice[n].count >= notice[n].max),
         RecordOutcome(n, i, row, att, outcome, cap)
  PROVE  \A m \in Notices :
           /\ Agrees(m)' /\ notice'[m].current = notice[m].current
           /\ \A j \in Seqs :
                attempt'[m][j].outcome = attempt[m][j].outcome
                \/ (m = n /\ j = i /\ attempt'[m][j].outcome = outcome /\ Recordable(n, i))
<1> DEFINE new == IF Recordable(n, i) THEN [att EXCEPT !.outcome = outcome] ELSE att
           newRow == IF Recordable(n, i) THEN Mirrored(row, i, outcome, cap) ELSE row
<1>1. attempt' = [attempt EXCEPT ![n][i] = new] /\ notice' = [notice EXCEPT ![n] = newRow]
  BY DEF RecordOutcome
<1>2. /\ new.resolution = att.resolution
      /\ new.outcome = IF Recordable(n, i) THEN outcome ELSE att.outcome
  BY DEF AttemptRows
<1>3. /\ newRow.current = row.current /\ newRow.count = row.count /\ newRow.max = row.max
      /\ newRow.status = IF Recordable(n, i) /\ outcome # "DEFERRED" /\ row.current = i
                         THEN MirroredStatus(outcome, cap) ELSE row.status
  BY DEF Mirrored, NoticeRows
<1> HIDE DEF new, newRow
<1>4. /\ \A m \in Notices : m # n => notice'[m] = notice[m] /\ attempt'[m] = attempt[m]
      /\ notice'[n] = newRow /\ attempt'[n][i] = new
      /\ \A j \in Seqs : j # i => attempt'[n][j] = attempt[n][j]
  BY <1>1 DEF IInv, TypeOK
<1>5. notice[n] \in NoticeRows /\ attempt[n][i] \in AttemptRows /\ notice[n].current \in Seqs
  BY DEF IInv, TypeOK, NoticeRows
<1>6. ASSUME NEW m \in Notices, m # n PROVE Agrees(m)'
  BY <1>4, <1>6 DEF Agrees, Current
<1>7. Agrees(n)'
  <2>1. notice'[n].count <= notice'[n].max
    BY <1>3, <1>4 DEF Agrees
  <2>2. CASE notice[n].current # i
    <3>1. Current(n)' = Current(n) /\ newRow.status \in {notice[n].status, "SUBMITTING"}
      BY <1>3, <1>4, <1>5, <2>2 DEF Current
    <3>2. QED
      BY <1>3, <1>4, <3>1 DEF Agrees
  <2>3. CASE notice[n].current = i /\ ~ Recordable(n, i)
    <3>1. /\ Current(n)'.outcome = Current(n).outcome
          /\ Current(n)'.resolution = Current(n).resolution
          /\ newRow.status \in {notice[n].status, "SUBMITTING"}
      BY <1>2, <1>3, <1>4, <2>3 DEF Current
    <3>2. QED
      BY <1>3, <1>4, <3>1 DEF Agrees
  <2>4. CASE notice[n].current = i /\ Recordable(n, i)
    <3>1. notice[n].status \notin {"SUBMITTED", "FAILED", "FAILED_EXHAUSTED", "DELIVERY_UNKNOWN"}
      BY <2>4 DEF Agrees, Current, Recordable
    <3>2. Current(n)'.outcome = outcome
      BY <1>2, <1>3, <1>4, <2>4 DEF Current
    <3>3. CASE outcome = "DEFERRED"
      BY <1>3, <1>4, <2>1, <2>4, <3>1, <3>3 DEF Agrees
    <3>4. CASE outcome # "DEFERRED"
      <4>1. newRow.status = MirroredStatus(outcome, cap)
        BY <1>3, <2>4, <3>4
      <4>2. notice[n].count \in Nat /\ notice[n].max \in Nat
        BY <1>5 DEF NoticeRows
      <4>3. QED
        BY <1>3, <1>4, <2>1, <3>2, <3>4, <4>1, <4>2 DEF Agrees, MirroredStatus
    <3>5. QED
      BY <3>3, <3>4
  <2>5. QED
    BY <2>2, <2>3, <2>4
<1>8. ASSUME NEW m \in Notices
      PROVE  /\ notice'[m].current = notice[m].current
             /\ \A j \in Seqs :
                  attempt'[m][j].outcome = attempt[m][j].outcome
                  \/ (m = n /\ j = i /\ attempt'[m][j].outcome = outcome /\ Recordable(n, i))
  BY <1>2, <1>3, <1>4
<1>9. QED
  BY <1>6, <1>7, <1>8

\* reserveNextAttempt keeps the notice in step, replaces an attempt only for
\* the outcome it expects, and finishes none.
LEMMA ReserveAgrees ==
  ASSUME IInv, \A m \in Notices : Agrees(m),
         NEW n \in Notices, NEW expected \in Outcomes, NEW immediate \in BOOLEAN,
         NEW atts \in [Seqs -> AttemptRows], NEW row \in NoticeRows,
         row.current = notice[n].current, row.count = notice[n].count,
         row.max >= notice[n].max, row = notice[n] \/ Replaceable(n, expected),
         \A j \in Seqs : /\ atts[j].outcome = attempt[n][j].outcome
                         /\ attempt[n][j].resolution # "NONE" =>
                              atts[j].resolution = attempt[n][j].resolution,
         ReserveNextAttempt(n, expected, immediate, atts, row)
  PROVE  \A m \in Notices :
           /\ Agrees(m)'
           /\ notice'[m].current = notice[m].current
              \/ /\ m = n /\ notice'[m].current = notice[m].current + 1
                 /\ Replaceable(n, expected) /\ Unlocked(n)
           /\ \A j \in Seqs :
                \/ attempt'[m][j].outcome = attempt[m][j].outcome
                \/ attempt'[m][j].outcome = "PENDING"
<1> DEFINE next == notice[n].current + 1
<1>1. notice[n] \in NoticeRows /\ notice[n].current \in Seqs /\ attempt[n] \in [Seqs -> AttemptRows]
  BY DEF IInv, TypeOK, NoticeRows
<1>2. CASE Replaceable(n, expected)
  <2> DEFINE newRow == [row EXCEPT !.current = next, !.status = "PENDING", !.due = immediate]
             newAtts == [atts EXCEPT ![next] = NewAttempt(immediate)]
  <2>1. attempt' = [attempt EXCEPT ![n] = newAtts] /\ notice' = [notice EXCEPT ![n] = newRow]
    BY <1>2 DEF ReserveNextAttempt
  <2>2. /\ newRow.current = next /\ newRow.status = "PENDING"
        /\ newRow.count = row.count /\ newRow.max = row.max
    BY DEF NoticeRows
  <2>3. \A j \in Seqs : newAtts[j].outcome \in {atts[j].outcome, "PENDING"}
    BY DEF NewAttempt, NoAttempt
  <2> HIDE DEF newRow, newAtts
  <2>4. /\ \A m \in Notices : m # n => notice'[m] = notice[m] /\ attempt'[m] = attempt[m]
        /\ notice'[n] = newRow /\ attempt'[n] = newAtts
    BY <2>1 DEF IInv, TypeOK
  <2>5. ASSUME NEW m \in Notices, m # n PROVE Agrees(m)'
    BY <2>4, <2>5 DEF Agrees, Current
  <2>6. Agrees(n)'
    <3>1. notice[n].count <= notice[n].max /\ row.max >= notice[n].max
      BY DEF Agrees
    <3>2. notice[n].count \in Nat /\ notice[n].max \in Nat /\ row.max \in Nat
      BY <1>1 DEF NoticeRows
    <3>3. notice'[n].count <= notice'[n].max
      BY <2>2, <2>4, <3>1, <3>2
    <3>4. QED
      BY <2>2, <2>4, <3>3 DEF Agrees
  <2>7. Unlocked(n)
    BY DEF ReserveNextAttempt
  <2>8. QED
    BY <1>2, <2>2, <2>3, <2>4, <2>5, <2>6, <2>7
<1>3. CASE ~ Replaceable(n, expected)
  <2>1. attempt' = [attempt EXCEPT ![n] = atts] /\ notice' = [notice EXCEPT ![n] = row] /\ row = notice[n]
    BY <1>3 DEF ReserveNextAttempt
  <2>2. /\ \A m \in Notices : notice'[m] = notice[m] /\ (m # n => attempt'[m] = attempt[m])
        /\ attempt'[n] = atts
    BY <2>1 DEF IInv, TypeOK
  <2>3. ASSUME NEW m \in Notices, m # n PROVE Agrees(m)'
    BY <2>2, <2>3 DEF Agrees, Current
  <2>4. Agrees(n)'
    <3>1. /\ Current(n)'.outcome = Current(n).outcome
          /\ Current(n).resolution # "NONE" => Current(n)'.resolution = Current(n).resolution
      BY <1>1, <2>2 DEF Current
    <3>2. QED
      BY <2>2, <3>1 DEF Agrees
  <2>5. QED
    BY <2>2, <2>3, <2>4
<1>4. QED
  BY <1>2, <1>3

-----------------------------------------------------------------------------
(* The steps of a worker. *)

\* A worker's transaction that ends in recordOutcome; it knows that nobody is
\* sending what it records as failed or unknown.
LEMMA FinishQuiet ==
  ASSUME IInv, NInv, NEW w \in Workers, worker[w].pc # "idle",
         NEW n \in Notices, NEW i \in Seqs,
         NEW row \in NoticeRows, NEW att \in AttemptRows,
         NEW outcome \in {"DEFERRED", "SUBMITTED", "FAILED", "SUPPRESSED", "DELIVERY_UNKNOWN"},
         NEW cap \in BOOLEAN,
         row.current = notice[n].current, row.count = notice[n].count, row.max = notice[n].max,
         row.status \in {notice[n].status, "SUBMITTING"},
         att.outcome = attempt[n][i].outcome, att.resolution = attempt[n][i].resolution,
         attempt[n][i].claimed => att.claimed,
         attempt[n][i].outcome # "PENDING" => att = attempt[n][i],
         outcome = "FAILED" => (cap <=> notice[n].count >= notice[n].max),
         outcome \in {"FAILED", "DELIVERY_UNKNOWN"} => Resting(n, i),
         outcome = "FAILED" => <<n, i>> \notin accepted,
         RecordOutcome(n, i, row, att, outcome, cap),
         Goto(w, "done"), UNCHANGED <<sends, accepted>>
  PROVE  Quiet
<1>1. worker[w] \in Handlings
  BY HandlingLemma DEF IInv
<1>2. ClaimedStays /\ \A m \in Notices : notice'[m].count = notice[m].count
  BY RecordOutcomeKeeps
<1>3. \A m \in Notices :
        /\ Agrees(m)' /\ notice'[m].current = notice[m].current
        /\ \A j \in Seqs :
             attempt'[m][j].outcome = attempt[m][j].outcome
             \/ (m = n /\ j = i /\ attempt'[m][j].outcome = outcome /\ Recordable(n, i))
  <2>1. \A m \in Notices : Agrees(m)
    BY DEF NInv
  <2>2. QED
    BY <2>1, RecordOutcomeAgrees
<1>4. NoSend
  BY <1>1 DEF NoSend, Goto, IInv, TypeOK, Handlings
<1>5. \A m \in Notices : Replaced(m) /\ Finished(m)
  BY <1>3 DEF Replaced, Finished
<1>6. QED
  BY <1>2, <1>3, <1>4, <1>5 DEF Quiet

\* What the claim transaction starts from.
LEMMA SubmittingLemma ==
  ASSUME TypeOK, NEW n \in Notices
  PROVE  Submitting(n).status = "SUBMITTING" /\ Submitting(n).max = notice[n].max
BY DEF TypeOK, Submitting, NoticeRows

\* What leaves the tables and the sends alone, and starts no send, is quiet.
LEMMA AloneQuiet ==
  ASSUME IInv, NInv, UNCHANGED <<notice, attempt, sends, accepted>>, NoSend
  PROVE  Quiet
<1>1. \A n \in Notices : Agrees(n)' /\ notice'[n].count = notice[n].count
  BY DEF NInv, Agrees, Current
<1>2. ClaimedStays /\ \A n \in Notices : Replaced(n) /\ Finished(n)
  BY DEF ClaimedStays, Replaced, Finished
<1>3. QED
  BY <1>1, <1>2 DEF Quiet

LEMMA DeliverQuiet ==
  ASSUME IInv, NInv, NEW w \in Workers, NEW n \in Notices, NEW i \in Seqs, Deliver(w, n, i)
  PROVE  Quiet
<1>1. NoSend
  BY DEF NoSend, Deliver, IInv, TypeOK
<1>2. QED
  BY <1>1, AloneQuiet DEF Deliver

LEMMA LeaveQuiet ==
  ASSUME IInv, NInv, NEW w \in Workers,
         ClaimStale(w) \/ Recheck(w) \/ Acknowledge(w) \/ Fault(w)
  PROVE  Quiet
<1>1. worker[w] \in Handlings
  BY HandlingLemma DEF IInv, ClaimStale, Recheck, Acknowledge, Fault, At
<1>2. \/ worker' = [worker EXCEPT ![w].pc = "done"]
      \/ worker' = [worker EXCEPT ![w].pc = "rechecked"]
      \/ worker' = [worker EXCEPT ![w] = Idle]
  BY DEF ClaimStale, Recheck, Acknowledge, Fault, Goto
<1>3. NoSend
  BY <1>1, <1>2 DEF NoSend, IInv, TypeOK, Handlings, Idle
<1>4. QED
  BY <1>3, AloneQuiet DEF ClaimStale, Recheck, Acknowledge, Fault

LEMMA GateQuiet ==
  ASSUME IInv, NInv, \/ ReadGate \/ CloseGate \/ OpenGate
                     \/ \E n \in Notices : SelectFailed(n) \/ Settle(n)
  PROVE  Quiet
<1>1. UNCHANGED <<notice, attempt, worker, sends, accepted>>
  BY DEF ReadGate, CloseGate, OpenGate, SelectFailed, Settle
<1>2. QED
  BY <1>1, AloneQuiet DEF NoSend

LEMMA RecordDeferredQuiet ==
  ASSUME IInv, NInv, NEW w \in Workers, RecordDeferred(w)
  PROVE  Quiet
<1>1. worker[w].pc # "idle"
  BY DEF RecordDeferred, At
<1>2. worker[w].notice \in Notices /\ worker[w].token \in Seqs
  BY <1>1, HandlingLemma DEF IInv
<1>3. QED
  BY <1>1, <1>2, RowsLemma, FinishQuiet DEF RecordDeferred, IInv

LEMMA ClaimEndsQuiet ==
  ASSUME IInv, NInv, NEW w \in Workers, ClaimSuppressed(w) \/ ClaimDeferred(w)
  PROVE  Quiet
<1> DEFINE n == worker[w].notice
           i == worker[w].token
           row == Submitting(n)
           att == attempt[n][i]
<1>1. worker[w].pc # "idle"
  BY DEF ClaimSuppressed, ClaimDeferred, At
<1>2. n \in Notices /\ i \in Seqs
  BY <1>1, HandlingLemma DEF IInv
<1>3. \/ RecordOutcome(n, i, row, att, "SUPPRESSED", FALSE)
      \/ RecordOutcome(n, i, row, att, "DEFERRED", FALSE)
  BY DEF ClaimSuppressed, ClaimDeferred
<1>4. Goto(w, "done") /\ UNCHANGED <<sends, accepted>>
  BY DEF ClaimSuppressed, ClaimDeferred
<1>5. /\ att \in AttemptRows /\ att = attempt[n][i] /\ row \in NoticeRows
      /\ row.current = notice[n].current /\ row.count = notice[n].count
      /\ row.max = notice[n].max /\ row.status \in {notice[n].status, "SUBMITTING"}
  BY <1>2, RowsLemma, SubmittingLemma DEF IInv
<1>6. /\ att.outcome = attempt[n][i].outcome /\ att.resolution = attempt[n][i].resolution
      /\ attempt[n][i].claimed => att.claimed
  BY <1>5
<1> HIDE DEF n, i, row, att
<1>7. CASE RecordOutcome(n, i, row, att, "SUPPRESSED", FALSE)
  BY <1>1, <1>2, <1>4, <1>5, <1>6, <1>7, FinishQuiet, ZenonT(60)
<1>8. CASE RecordOutcome(n, i, row, att, "DEFERRED", FALSE)
  BY <1>1, <1>2, <1>4, <1>5, <1>6, <1>8, FinishQuiet, ZenonT(60)
<1>9. QED
  BY <1>3, <1>7, <1>8

LEMMA ClaimRefusedQuiet ==
  ASSUME IInv, NInv, NEW w \in Workers, ClaimRefused(w)
  PROVE  Quiet
<1> DEFINE n == worker[w].notice
           i == worker[w].token
           att == [attempt[n][i] EXCEPT !.claimed = @ \/ Committable(n, i)]
<1>1. worker[w].pc # "idle"
  BY DEF ClaimRefused, At
<1>2. n \in Notices /\ i \in Seqs
  BY <1>1, HandlingLemma DEF IInv
<1>3. attempt[n][i] \in AttemptRows
  BY <1>2, RowsLemma DEF IInv
<1>4. Committable(n, i) \in BOOLEAN
  BY <1>3 DEF Committable, Recordable, AttemptRows
<1>5. /\ att \in AttemptRows
      /\ att.outcome = attempt[n][i].outcome /\ att.resolution = attempt[n][i].resolution
      /\ attempt[n][i].claimed => att.claimed
  BY <1>3, <1>4 DEF AttemptRows
<1>6. attempt[n][i].outcome # "PENDING" => att = attempt[n][i]
  <2> SUFFICES ASSUME attempt[n][i].outcome # "PENDING" PROVE att = attempt[n][i]
    OBVIOUS
  <2>1. ~ Committable(n, i)
    BY DEF Committable, Recordable
  <2>2. QED
    BY <1>3, <2>1 DEF AttemptRows
<1>7. /\ RecordOutcome(n, i, Submitting(n), att, "SUPPRESSED", FALSE) /\ Goto(w, "done")
      /\ UNCHANGED <<sends, accepted>>
  BY DEF ClaimRefused
<1> HIDE DEF att
<1>8. QED
  BY <1>1, <1>2, <1>5, <1>6, <1>7, RowsLemma, SubmittingLemma, FinishQuiet DEF IInv

\* What is recorded was sent, once, so nobody is sending it.
LEMMA RecordSendQuiet ==
  ASSUME IInv, NInv, NEW w \in Workers, RecordSend(w)
  PROVE  Quiet
<1> DEFINE n == worker[w].notice
           i == worker[w].token
<1>1. worker[w].pc = "recording"
  BY DEF RecordSend, At
<1>2. n \in Notices /\ i \in Seqs
  BY <1>1, HandlingLemma DEF IInv
<1>3. /\ worker[w].result \in {"SUBMITTED", "FAILED", "DELIVERY_UNKNOWN"}
      /\ CapReached(n) \in BOOLEAN /\ (CapReached(n) <=> notice[n].count >= notice[n].max)
  BY <1>1 DEF IInv, ResultInv, CapReached
<1>4. Truthful(n, i)
  BY <1>2 DEF NInv
<1>5. sends[n][i] > 0 /\ (worker[w].result = "FAILED" => <<n, i>> \notin accepted)
  BY <1>1, <1>4 DEF Truthful
<1>6. Resting(n, i)
  BY <1>2, <1>5 DEF Resting, IInv, SendInv
<1>7. /\ RecordOutcome(n, i, notice[n], attempt[n][i], worker[w].result, CapReached(n))
      /\ Goto(w, "done") /\ UNCHANGED <<sends, accepted>>
  BY DEF RecordSend
<1>8. notice[n] \in NoticeRows /\ attempt[n][i] \in AttemptRows
  BY <1>2, RowsLemma DEF IInv
<1>9. worker[w].pc # "idle"
  BY <1>1
<1> DEFINE result == worker[w].result
           cap == CapReached(n)
<1> HIDE DEF n, i, result, cap
<1>10. QED
  BY <1>2, <1>3, <1>5, <1>6, <1>7, <1>8, <1>9, FinishQuiet, SMTT(30) DEF result, cap

-----------------------------------------------------------------------------
(* The steps of the reconciliation and of people. *)

LEMMA RecoverStaleQuiet ==
  ASSUME IInv, NInv, NEW n \in Notices, RecoverStale(n)
  PROVE  Quiet
<1> DEFINE i == notice[n].current
<1>1. i \in Seqs
  BY DEF IInv, TypeOK, NoticeRows
<1>2. notice[n] \in NoticeRows /\ attempt[n][i] \in AttemptRows
  BY <1>1, RowsLemma DEF IInv
<1>3. /\ RecordOutcome(n, i, notice[n], attempt[n][i], "DELIVERY_UNKNOWN", FALSE)
      /\ UNCHANGED <<worker, sends, accepted>>
  BY DEF RecoverStale, StaleOutcome, Current
<1>4. Resting(n, i)
  BY DEF RecoverStale, TransportTimedOut, Resting, Sending, At
<1> HIDE DEF i
<1>5. ClaimedStays /\ \A m \in Notices : notice'[m].count = notice[m].count
  BY <1>1, <1>2, <1>3, RecordOutcomeKeeps
<1>6. \A m \in Notices :
        /\ Agrees(m)' /\ notice'[m].current = notice[m].current
        /\ \A j \in Seqs :
             attempt'[m][j].outcome = attempt[m][j].outcome
             \/ (m = n /\ j = i /\ attempt'[m][j].outcome = "DELIVERY_UNKNOWN" /\ Recordable(n, i))
  <2>1. \A m \in Notices : Agrees(m)
    BY DEF NInv
  <2>2. QED
    BY <1>1, <1>2, <1>3, <2>1, RecordOutcomeAgrees
<1>7. \A m \in Notices : Replaced(m) /\ Finished(m)
  BY <1>4, <1>6 DEF Replaced, Finished
<1>8. QED
  BY <1>3, <1>5, <1>6, <1>7 DEF Quiet, NoSend

\* A step that leaves outcomes, resolutions and claims alone, and of the notice
\* rows what the invariant looks at.
LEMMA DueQuiet ==
  ASSUME IInv, NInv, UNCHANGED <<worker, sends, accepted>>,
         \A m \in Notices :
           /\ notice'[m].current = notice[m].current
           /\ notice'[m].count = notice[m].count /\ notice'[m].max = notice[m].max
           /\ notice'[m].status \in {notice[m].status, "SUPPRESSED"}
           /\ \A j \in Seqs : /\ attempt'[m][j].outcome = attempt[m][j].outcome
                              /\ attempt'[m][j].resolution = attempt[m][j].resolution
                              /\ attempt'[m][j].claimed = attempt[m][j].claimed
  PROVE  Quiet
<1>1. ASSUME NEW m \in Notices PROVE Agrees(m)'
  <2>1. Agrees(m) /\ notice[m].current \in Seqs
    BY DEF NInv, IInv, TypeOK, NoticeRows
  <2>2. /\ Current(m)'.outcome = Current(m).outcome
        /\ Current(m)'.resolution = Current(m).resolution
    BY <2>1 DEF Current
  <2>3. QED
    BY <2>1, <2>2 DEF Agrees
<1>2. ClaimedStays /\ NoSend /\ \A m \in Notices : Replaced(m) /\ Finished(m)
  BY DEF ClaimedStays, NoSend, Replaced, Finished
<1>3. QED
  BY <1>1, <1>2 DEF Quiet

LEMMA EnqueueDueAttemptQuiet ==
  ASSUME IInv, NInv, NEW n \in Notices, EnqueueDueAttempt(n)
  PROVE  Quiet
<1>1. attempt' = [attempt EXCEPT ![n][notice[n].current].enqueued = TRUE]
  BY DEF EnqueueDueAttempt
<1>2. notice[n].current \in Seqs /\ attempt[n][notice[n].current] \in AttemptRows
  BY DEF IInv, TypeOK, NoticeRows
<1>3. \A m \in Notices, j \in Seqs :
        /\ attempt'[m][j].outcome = attempt[m][j].outcome
        /\ attempt'[m][j].resolution = attempt[m][j].resolution
        /\ attempt'[m][j].claimed = attempt[m][j].claimed
  BY <1>1, <1>2 DEF IInv, TypeOK, AttemptRows
<1>4. QED
  BY <1>3, DueQuiet DEF EnqueueDueAttempt

LEMMA RowQuiet ==
  ASSUME IInv, NInv, NEW n \in Notices, BackoffElapses(n) \/ Supersede(n)
  PROVE  Quiet
<1> DEFINE due == [notice[n] EXCEPT !.due = TRUE]
           suppressed == [notice[n] EXCEPT !.status = "SUPPRESSED"]
<1>1. /\ \A row \in {due, suppressed} :
           /\ row.current = notice[n].current /\ row.count = notice[n].count
           /\ row.max = notice[n].max
      /\ due.status = notice[n].status /\ suppressed.status = "SUPPRESSED"
  <2>1. notice[n] \in NoticeRows
    BY DEF IInv, TypeOK
  <2>2. QED
    BY <2>1 DEF NoticeRows
<1>2. \/ notice' = notice
      \/ notice' = [notice EXCEPT ![n] = due]
      \/ notice' = [notice EXCEPT ![n] = suppressed]
  BY DEF BackoffElapses, Supersede
<1> HIDE DEF due, suppressed
<1>3. \A m \in Notices :
        /\ notice'[m].current = notice[m].current
        /\ notice'[m].count = notice[m].count /\ notice'[m].max = notice[m].max
        /\ notice'[m].status \in {notice[m].status, "SUPPRESSED"}
  BY <1>1, <1>2 DEF IInv, TypeOK
<1>4. UNCHANGED <<attempt, worker, sends, accepted>>
  BY DEF BackoffElapses, Supersede
<1>5. QED
  BY <1>3, <1>4, DueQuiet

\* A transaction that ends in reserveNextAttempt.
LEMMA ReserveQuiet ==
  ASSUME IInv, NInv, UNCHANGED <<worker, sends, accepted>>,
         NEW n \in Notices, NEW expected \in Outcomes, NEW immediate \in BOOLEAN,
         NEW atts \in [Seqs -> AttemptRows], NEW row \in NoticeRows,
         row.current = notice[n].current, row.count = notice[n].count,
         row.max >= notice[n].max, row = notice[n] \/ Replaceable(n, expected),
         \A j \in Seqs : /\ j # notice[n].current => atts[j] = attempt[n][j]
                         /\ atts[j].claimed = attempt[n][j].claimed
                         /\ atts[j].outcome = attempt[n][j].outcome
                         /\ attempt[n][j].resolution # "NONE" =>
                              atts[j].resolution = attempt[n][j].resolution,
         expected \in {"FAILED", "DEFERRED"}
         \/ (expected = "DELIVERY_UNKNOWN" /\ <<n, notice[n].current>> \notin accepted),
         ReserveNextAttempt(n, expected, immediate, atts, row)
  PROVE  Quiet
<1>1. ClaimedStays /\ \A m \in Notices : notice'[m].count = notice[m].count
  BY ReserveKeeps
<1>2. \A m \in Notices :
        /\ Agrees(m)'
        /\ notice'[m].current = notice[m].current
           \/ /\ m = n /\ notice'[m].current = notice[m].current + 1
              /\ Replaceable(n, expected) /\ Unlocked(n)
        /\ \A j \in Seqs :
             \/ attempt'[m][j].outcome = attempt[m][j].outcome
             \/ attempt'[m][j].outcome = "PENDING"
  <2>1. \A m \in Notices : Agrees(m)
    BY DEF NInv
  <2>2. \A j \in Seqs : /\ atts[j].outcome = attempt[n][j].outcome
                        /\ attempt[n][j].resolution # "NONE" =>
                             atts[j].resolution = attempt[n][j].resolution
    OBVIOUS
  <2>3. QED
    BY <2>1, <2>2, ReserveAgrees
<1>3. \A m \in Notices : Replaced(m) /\ Finished(m)
  BY <1>2 DEF Replaced, Finished, Replaceable
<1>4. NoSend
  BY DEF NoSend
<1>5. QED
  BY <1>1, <1>2, <1>3, <1>4 DEF Quiet

LEMMA RequeueQuiet ==
  ASSUME IInv, NInv, NEW n \in Notices, RequeueFailed(n) \/ RecoverDeferred(n)
  PROVE  Quiet
<1> DEFINE atts == attempt[n]
           row == notice[n]
<1>1. /\ atts \in [Seqs -> AttemptRows] /\ row \in NoticeRows
      /\ row = notice[n] /\ row.max >= notice[n].max
  BY DEF IInv, TypeOK, NoticeRows
<1>2. \A j \in Seqs : /\ j # notice[n].current => atts[j] = attempt[n][j]
                      /\ atts[j].claimed = attempt[n][j].claimed
                      /\ atts[j].outcome = attempt[n][j].outcome
                      /\ attempt[n][j].resolution # "NONE" =>
                           atts[j].resolution = attempt[n][j].resolution
  OBVIOUS
<1>3. /\ \/ ReserveNextAttempt(n, "FAILED", FALSE, atts, row)
         \/ ReserveNextAttempt(n, "DEFERRED", TRUE, atts, row)
      /\ UNCHANGED <<worker, sends, accepted>>
  BY DEF RequeueFailed, RecoverDeferred
<1>4. /\ row.current = notice[n].current /\ row.count = notice[n].count
      /\ "FAILED" \in Outcomes /\ "DEFERRED" \in Outcomes
  BY DEF Outcomes
<1> HIDE DEF atts, row
<1>5. CASE ReserveNextAttempt(n, "FAILED", FALSE, atts, row)
  BY <1>1, <1>2, <1>3, <1>4, <1>5, ReserveQuiet, ZenonT(60)
<1>6. CASE ReserveNextAttempt(n, "DEFERRED", TRUE, atts, row)
  BY <1>1, <1>2, <1>3, <1>4, <1>6, ReserveQuiet, ZenonT(60)
<1>7. QED
  BY <1>3, <1>5, <1>6

\* A person reserves another attempt only of an email that was not accepted,
\* and raises the allowance only together with it.
LEMMA ResolveQuiet ==
  ASSUME IInv, NInv, NEW n \in Notices, NEW resolution \in Resolutions, Resolve(n, resolution)
  PROVE  Quiet
<1> DEFINE i == notice[n].current
           atts == [attempt[n] EXCEPT ![i].resolution = resolution]
           row == IF notice[n].status = "FAILED_EXHAUSTED"
                  THEN [notice[n] EXCEPT !.max = @ + 1] ELSE notice[n]
           expected == IF notice[n].status = "FAILED_EXHAUSTED"
                       THEN "FAILED" ELSE "DELIVERY_UNKNOWN"
<1>1. i \in Seqs /\ notice[n] \in NoticeRows /\ attempt[n] \in [Seqs -> AttemptRows]
  BY DEF IInv, TypeOK, NoticeRows
<1>2. /\ notice[n].status \in {"DELIVERY_UNKNOWN", "FAILED_EXHAUSTED"}
      /\ attempt[n][i].resolution = "NONE"
      /\ resolution = "CONFIRMED_NOT_SUBMITTED" => <<n, i>> \notin accepted
      /\ UNCHANGED <<worker, sends, accepted>>
  BY DEF Resolve
<1>3. /\ \/ /\ resolution = "CONFIRMED_NOT_SUBMITTED"
            /\ ReserveNextAttempt(n, expected, TRUE, atts, row)
         \/ /\ attempt' = [attempt EXCEPT ![n] = atts]
            /\ \/ notice' = notice
               \/ /\ resolution = "CONFIRMED_SUBMITTED"
                  /\ notice' = [notice EXCEPT ![n].status = "SUBMITTED"]
  BY DEF Resolve
<1>4. /\ atts \in [Seqs -> AttemptRows] /\ atts[i].resolution = resolution
      /\ \A j \in Seqs : /\ j # i => atts[j] = attempt[n][j]
                         /\ atts[j].claimed = attempt[n][j].claimed
                         /\ atts[j].outcome = attempt[n][j].outcome
                         /\ attempt[n][j].resolution # "NONE" =>
                              atts[j].resolution = attempt[n][j].resolution
  <2>1. attempt[n][i] \in AttemptRows
    BY <1>1
  <2>2. [attempt[n][i] EXCEPT !.resolution = resolution] \in AttemptRows
    BY <2>1 DEF AttemptRows
  <2> HIDE DEF i
  <2>3. QED
    BY <1>1, <1>2, <2>1, <2>2 DEF AttemptRows
<1>5. /\ row \in NoticeRows /\ row.current = notice[n].current /\ row.count = notice[n].count
      /\ row.max >= notice[n].max
  BY <1>1 DEF NoticeRows
<1>6. row = notice[n] \/ Replaceable(n, expected)
  BY DEF NInv, Agrees, Replaceable
<1>7. /\ expected \in {"FAILED", "DELIVERY_UNKNOWN"} /\ expected \in Outcomes
      /\ i = notice[n].current
  BY DEF Outcomes
<1> HIDE DEF i, atts, row, expected
<1>8. CASE /\ resolution = "CONFIRMED_NOT_SUBMITTED"
           /\ ReserveNextAttempt(n, expected, TRUE, atts, row)
  <2>1. expected \in {"FAILED", "DEFERRED"}
        \/ (expected = "DELIVERY_UNKNOWN" /\ <<n, notice[n].current>> \notin accepted)
    BY <1>2, <1>7, <1>8
  <2>2. \A j \in Seqs : /\ j # notice[n].current => atts[j] = attempt[n][j]
                        /\ atts[j].claimed = attempt[n][j].claimed
                        /\ atts[j].outcome = attempt[n][j].outcome
                        /\ attempt[n][j].resolution # "NONE" =>
                             atts[j].resolution = attempt[n][j].resolution
    BY <1>4, <1>7
  <2>3. QED
    BY <1>2, <1>4, <1>5, <1>6, <1>7, <1>8, <2>1, <2>2, ReserveQuiet, ZenonT(60)
<1>9. CASE /\ attempt' = [attempt EXCEPT ![n] = atts]
           /\ \/ notice' = notice
              \/ /\ resolution = "CONFIRMED_SUBMITTED"
                 /\ notice' = [notice EXCEPT ![n].status = "SUBMITTED"]
  <2>1. /\ attempt'[n] = atts /\ \A m \in Notices : m # n => attempt'[m] = attempt[m]
        /\ \A m \in Notices :
             /\ notice'[m].current = notice[m].current
             /\ notice'[m].count = notice[m].count /\ notice'[m].max = notice[m].max
             /\ m # n => notice'[m] = notice[m]
        /\ \/ notice'[n].status = notice[n].status
           \/ resolution = "CONFIRMED_SUBMITTED" /\ notice'[n].status = "SUBMITTED"
    BY <1>9 DEF IInv, TypeOK, NoticeRows
  <2>2. ASSUME NEW m \in Notices, m # n PROVE Agrees(m)'
    BY <2>1, <2>2 DEF NInv, Agrees, Current
  <2>3. Agrees(n)'
    <3>1. Agrees(n)
      BY DEF NInv
    <3>2. Current(n)'.outcome = Current(n).outcome /\ Current(n)'.resolution = resolution
      BY <1>1, <1>4, <1>7, <2>1 DEF Current
    <3>3. QED
      BY <1>2, <2>1, <3>1, <3>2 DEF Agrees
  <2>4. ClaimedStays
    BY <1>4, <2>1 DEF ClaimedStays
  <2>5. \A m \in Notices : Replaced(m) /\ Finished(m)
    BY <1>4, <2>1 DEF Replaced, Finished
  <2>6. QED
    BY <1>2, <2>1, <2>2, <2>3, <2>4, <2>5 DEF Quiet, NoSend
<1>10. QED
  BY <1>3, <1>8, <1>9

-----------------------------------------------------------------------------
(* The claim and the send. *)

\* The claim books the attempt and counts it; it was not sent, nor booked.
LEMMA ClaimCommittedNotice ==
  ASSUME IInv, NInv, LInv, IInv', NEW w \in Workers, ClaimCommitted(w)
  PROVE  NInv'
<1> DEFINE n == worker[w].notice
           i == worker[w].token
<1>1. worker[w] \in Handlings /\ n \in Notices /\ i \in Seqs
  BY HandlingLemma DEF IInv, ClaimCommitted, At
<1>2. /\ attempt' = [attempt EXCEPT ![n][i].claimed = TRUE]
      /\ notice' = [notice EXCEPT ![n] = [Submitting(n) EXCEPT !.count = @ + 1]]
      /\ worker' = [worker EXCEPT ![w].pc = "sending"]
      /\ UNCHANGED <<sends, accepted>>
  BY DEF ClaimCommitted, Goto
<1>3. /\ notice[n].current = i /\ notice[n].count < notice[n].max
      /\ ~ attempt[n][i].claimed /\ attempt[n][i].outcome = "PENDING"
  BY <1>1 DEF ClaimCommitted, At, LInv, Held, Committable, Recordable, WithinCap
<1>4. /\ notice[n] \in NoticeRows /\ attempt[n][i] \in AttemptRows
      /\ Submitting(n) \in NoticeRows /\ Submitting(n).status = "SUBMITTING"
      /\ Submitting(n).current = i /\ Submitting(n).count = notice[n].count
      /\ Submitting(n).max = notice[n].max
  BY <1>1, <1>3, RowsLemma, SubmittingLemma DEF IInv
<1>5. \A v \in Workers, m \in Notices, j \in Seqs :
        Sending(v, m, j)' => Sending(v, m, j) \/ (m = n /\ j = i)
  BY <1>1, <1>2 DEF Sending, IInv, TypeOK, Handlings
<1>6. \A v \in Workers : worker'[v].pc = "recording" => worker'[v] = worker[v]
  BY <1>1, <1>2 DEF IInv, TypeOK, Handlings
<1> HIDE DEF n, i
<1>7. /\ notice'[n].count = notice[n].count + 1 /\ notice'[n].max = notice[n].max
      /\ notice'[n].status = "SUBMITTING"
      /\ \A m \in Notices : /\ notice'[m].current = notice[m].current
                            /\ m # n => notice'[m] = notice[m] /\ attempt'[m] = attempt[m]
  <2> DEFINE row == [Submitting(n) EXCEPT !.count = @ + 1]
  <2>1. /\ row.current = i /\ row.count = notice[n].count + 1
        /\ row.max = notice[n].max /\ row.status = "SUBMITTING"
    BY <1>4 DEF NoticeRows
  <2>2. notice' = [notice EXCEPT ![n] = row]
    BY <1>2
  <2> HIDE DEF row
  <2>3. QED
    BY <1>1, <1>2, <1>3, <2>1, <2>2 DEF IInv, TypeOK
<1>8. \A m \in Notices, j \in Seqs :
        /\ attempt'[m][j].outcome = attempt[m][j].outcome
        /\ attempt[m][j].claimed => attempt'[m][j].claimed
  BY <1>1, <1>2, <1>4 DEF IInv, TypeOK, AttemptRows
<1>9. notice[n].count \in Nat /\ notice[n].max \in Nat
  BY <1>4 DEF NoticeRows
<1> SUFFICES ASSUME NEW m \in Notices
             PROVE  /\ Agrees(m)'
                    /\ (Cardinality(Booked(m)) <= notice[m].count)'
                    /\ \A j \in Seqs : Truthful(m, j)' /\ Settled(m, j)'
  BY DEF NInv
<1>10. Agrees(m)'
  <2>1. CASE m = n
    <3>1. notice'[n].count <= notice'[n].max
      BY <1>3, <1>7, <1>9
    <3>2. QED
      BY <1>7, <2>1, <3>1 DEF Agrees
  <2>2. CASE m # n
    BY <1>7, <2>2 DEF NInv, Agrees, Current
  <2>3. QED
    BY <2>1, <2>2
<1>11. (Cardinality(Booked(m)) <= notice[m].count)'
  <2>1. Cardinality(Booked(m)) <= notice[m].count /\ notice[m].count \in Nat
    BY DEF NInv, IInv, TypeOK, NoticeRows
  <2>2. CASE m = n
    <3>1. Booked(m)' \subseteq Booked(m) \cup {i}
      BY <1>2, <1>5, <2>2 DEF Booked
    <3>2. /\ IsFiniteSet(Booked(m) \cup {i})
          /\ Cardinality(Booked(m) \cup {i}) <= Cardinality(Booked(m)) + 1
          /\ Cardinality(Booked(m) \cup {i}) \in Nat
      <4>1. IsFiniteSet(Booked(m) \cup {i})
            /\ Cardinality(Booked(m) \cup {i}) =
                 IF i \in Booked(m) THEN Cardinality(Booked(m)) ELSE Cardinality(Booked(m)) + 1
        BY BookedLemma, FS_AddElement
      <4>2. QED
        BY <4>1, BookedLemma
    <3>3. Cardinality(Booked(m)') <= Cardinality(Booked(m) \cup {i}) /\ Cardinality(Booked(m)') \in Nat
      BY <3>1, <3>2, FS_Subset, FS_CardinalityType
    <3>4. notice'[m].count = notice[m].count + 1
      BY <1>7, <2>2
    <3>5. QED
      BY <2>1, <3>2, <3>3, <3>4, BookedLemma
  <2>3. CASE m # n
    <3>1. Booked(m)' \subseteq Booked(m)
      BY <1>2, <1>5, <2>3 DEF Booked
    <3>2. Cardinality(Booked(m)') <= Cardinality(Booked(m)) /\ Cardinality(Booked(m)') \in Nat
      BY <3>1, BookedLemma, FS_Subset, FS_CardinalityType
    <3>3. notice'[m].count = notice[m].count
      BY <1>7, <2>3
    <3>4. QED
      BY <2>1, <3>2, <3>3, BookedLemma
  <2>4. QED
    BY <2>2, <2>3
<1>12. ASSUME NEW j \in Seqs
       PROVE  Truthful(m, j)' /\ Settled(m, j)'
  <2>1. Truthful(m, j) /\ Settled(m, j)
    BY DEF NInv
  <2>2. Resting(m, j) => Resting(m, j)' \/ (m = n /\ j = i)
    BY <1>5 DEF Resting
  <2>3. Truthful(m, j)'
    <3>1. (<<m, j>> \in accepted => sends[m][j] > 0)'
      BY <1>2, <2>1 DEF Truthful
    <3>2. (\A v \in Workers :
             worker[v].pc = "recording" /\ worker[v].notice = m /\ worker[v].token = j =>
               sends[m][j] > 0 /\ (worker[v].result = "FAILED" => <<m, j>> \notin accepted))'
      BY <1>2, <1>6, <2>1 DEF Truthful
    <3>3. (attempt[m][j].outcome \in {"FAILED", "DELIVERY_UNKNOWN"} => Resting(m, j))'
      BY <1>3, <1>8, <2>1, <2>2 DEF Truthful
    <3>4. (attempt[m][j].outcome = "FAILED" => <<m, j>> \notin accepted)'
      BY <1>2, <1>8, <2>1 DEF Truthful
    <3>5. QED
      BY <3>1, <3>2, <3>3, <3>4 DEF Truthful
  <2>4. Settled(m, j)'
    <3> SUFFICES ASSUME j < notice'[m].current
                 PROVE  WrittenOff(m, j)' \/ (<<m, j>> \notin accepted' /\ Resting(m, j)')
      BY DEF Settled
    <3>1. j < notice[m].current /\ ~ (m = n /\ j = i)
      BY <1>3, <1>7, SeqsLemma
    <3>2. WrittenOff(m, j) => WrittenOff(m, j)'
      BY <1>8 DEF WrittenOff
    <3>3. QED
      BY <1>2, <2>1, <2>2, <3>1, <3>2 DEF Settled
  <2>5. QED
    BY <2>3, <2>4
<1>13. QED
  BY <1>10, <1>11, <1>12

\* The send is of an attempt that was not sent before: no worker is recording
\* it, and if it was replaced, it was claimed and written off as deferred.
LEMMA SendEmailNotice ==
  ASSUME IInv, NInv, IInv', NEW w \in Workers,
         NEW outcome \in {"SUBMITTED", "FAILED", "DELIVERY_UNKNOWN"},
         NEW delivered \in BOOLEAN, SendEmail(w, outcome, delivered)
  PROVE  NInv'
<1> DEFINE n == worker[w].notice
           i == worker[w].token
<1>1. worker[w] \in Handlings /\ n \in Notices /\ i \in Seqs
  BY HandlingLemma DEF IInv, SendEmail, At
<1>2. /\ sends' = [sends EXCEPT ![n][i] = IF @ < 2 THEN @ + 1 ELSE @]
      /\ accepted' = IF delivered THEN accepted \cup {<<n, i>>} ELSE accepted
      /\ worker' = [worker EXCEPT ![w].pc = "recording", ![w].result = outcome]
      /\ UNCHANGED <<notice, attempt>>
      /\ outcome = "FAILED" => ~ delivered
  BY DEF SendEmail
<1>3. Sending(w, n, i)
  BY DEF SendEmail, At, Sending
<1>4. /\ \A v \in Workers, m \in Notices, j \in Seqs : Sending(v, m, j)' => Sending(v, m, j)
      /\ \A v \in Workers :
           worker'[v].pc = "recording" =>
             \/ worker'[v] = worker[v]
             \/ worker'[v].notice = n /\ worker'[v].token = i /\ worker'[v].result = outcome
  BY <1>1, <1>2 DEF Sending, IInv, TypeOK, Handlings
<1> HIDE DEF n, i
<1>5. sends[n][i] = 0 /\ sends[n][i] \in 0..2
  BY <1>1, <1>3 DEF IInv, SendInv, TypeOK
<1>6. /\ sends'[n][i] = 1
      /\ \A m \in Notices, j \in Seqs : <<m, j>> # <<n, i>> => sends'[m][j] = sends[m][j]
  BY <1>1, <1>2, <1>5 DEF IInv, TypeOK
<1>7. \A m \in Notices, j \in Seqs :
        <<m, j>> \in accepted' => \/ <<m, j>> \in accepted
                                  \/ m = n /\ j = i /\ delivered
  BY <1>2
<1>8. ~ Resting(n, i)
  BY <1>3 DEF Resting
<1> SUFFICES ASSUME NEW m \in Notices
             PROVE  /\ Agrees(m)'
                    /\ (Cardinality(Booked(m)) <= notice[m].count)'
                    /\ \A j \in Seqs : Truthful(m, j)' /\ Settled(m, j)'
  BY DEF NInv
<1>9. Agrees(m)'
  BY <1>2 DEF NInv, Agrees, Current
<1>10. (Cardinality(Booked(m)) <= notice[m].count)'
  <2>1. Cardinality(Booked(m)) <= notice[m].count /\ notice[m].count \in Nat
    BY DEF NInv, IInv, TypeOK, NoticeRows
  <2>2. Booked(m)' \subseteq Booked(m)
    BY <1>3, <1>4, <1>6 DEF Booked
  <2>3. Cardinality(Booked(m)') <= Cardinality(Booked(m)) /\ Cardinality(Booked(m)') \in Nat
    BY <2>2, BookedLemma, FS_Subset, FS_CardinalityType
  <2>4. QED
    BY <1>2, <2>1, <2>3, BookedLemma
<1>11. ASSUME NEW j \in Seqs
       PROVE  Truthful(m, j)' /\ Settled(m, j)'
  <2>1. Truthful(m, j) /\ Settled(m, j)
    BY DEF NInv
  <2>2. Resting(m, j) => Resting(m, j)' /\ ~ (m = n /\ j = i)
    BY <1>4, <1>8 DEF Resting
  <2>3. Truthful(m, j)'
    <3>1. (<<m, j>> \in accepted => sends[m][j] > 0)'
      <4>1. CASE m = n /\ j = i
        BY <1>6, <4>1
      <4>2. CASE ~ (m = n /\ j = i)
        BY <1>6, <1>7, <2>1, <4>2 DEF Truthful
      <4>3. QED
        BY <4>1, <4>2
    <3>2. ASSUME NEW v \in Workers,
                 worker'[v].pc = "recording", worker'[v].notice = m, worker'[v].token = j
          PROVE  sends'[m][j] > 0 /\ (worker'[v].result = "FAILED" => <<m, j>> \notin accepted')
      <4>1. CASE m = n /\ j = i
        <5>1. worker'[v] # worker[v]
          BY <1>5, <2>1, <3>2, <4>1 DEF Truthful
        <5>2. worker'[v].result = outcome
          BY <1>4, <3>2, <5>1
        <5>3. <<m, j>> \notin accepted
          BY <1>5, <2>1, <4>1 DEF Truthful
        <5>4. QED
          BY <1>2, <1>6, <4>1, <5>2, <5>3
      <4>2. CASE ~ (m = n /\ j = i)
        <5>1. worker'[v] = worker[v]
          BY <1>4, <3>2, <4>2
        <5>2. sends'[m][j] = sends[m][j]
          BY <1>6, <4>2
        <5>3. QED
          BY <1>7, <2>1, <3>2, <4>2, <5>1, <5>2 DEF Truthful
      <4>3. QED
        BY <4>1, <4>2
    <3>3. (attempt[m][j].outcome \in {"FAILED", "DELIVERY_UNKNOWN"} => Resting(m, j))'
      BY <1>2, <2>1, <2>2 DEF Truthful
    <3>4. (attempt[m][j].outcome = "FAILED" => <<m, j>> \notin accepted)'
      BY <1>2, <1>7, <2>1, <2>2 DEF Truthful
    <3>5. QED
      BY <3>1, <3>2, <3>3, <3>4 DEF Truthful
  <2>4. Settled(m, j)'
    BY <1>2, <1>7, <2>1, <2>2 DEF Settled, WrittenOff
  <2>5. QED
    BY <2>3, <2>4
<1>12. QED
  BY <1>9, <1>10, <1>11

-----------------------------------------------------------------------------
(* The invariant, and what follows from it. *)

LEMMA NInit == Init => NInv
<1> SUFFICES ASSUME Init PROVE NInv
  OBVIOUS
<1>1. /\ \A w \in Workers : worker[w].pc = "idle"
      /\ \A n \in Notices, i \in Seqs : sends[n][i] = 0
      /\ accepted = {}
      /\ \A n \in Notices, i \in Seqs : attempt[n][i].outcome \in {"NONE", "PENDING"}
      /\ \A n \in Notices : /\ notice[n].status = "PENDING" /\ notice[n].current = 1
                            /\ notice[n].count = 0 /\ notice[n].max = MaxSends
  BY DEF Init, Idle, NewAttempt, NoAttempt
<1> SUFFICES ASSUME NEW n \in Notices
             PROVE  /\ Agrees(n)
                    /\ Cardinality(Booked(n)) <= notice[n].count
                    /\ \A i \in Seqs : Truthful(n, i) /\ Settled(n, i)
  BY DEF NInv
<1>2. Agrees(n)
  BY <1>1, DispatchAssumption DEF Agrees
<1>3. Cardinality(Booked(n)) <= notice[n].count
  <2>1. Booked(n) = {}
    BY <1>1 DEF Booked, Sending
  <2>2. QED
    BY <1>1, <2>1, FS_EmptySet
<1>4. \A i \in Seqs : Truthful(n, i) /\ Settled(n, i)
  BY <1>1 DEF Truthful, Settled, Resting, Sending
<1>5. QED
  BY <1>2, <1>3, <1>4

\* A step is quiet, a claim or a send.
LEMMA StepLemma ==
  ASSUME IInv, NInv, Next
  PROVE  \/ Quiet
         \/ \E w \in Workers : ClaimCommitted(w)
         \/ \E w \in Workers, outcome \in {"SUBMITTED", "FAILED", "DELIVERY_UNKNOWN"},
              delivered \in BOOLEAN : SendEmail(w, outcome, delivered)
<1>1. ASSUME NEW w \in Workers,
             \/ RecordDeferred(w) \/ ClaimStale(w) \/ ClaimSuppressed(w) \/ Recheck(w)
             \/ ClaimDeferred(w) \/ ClaimRefused(w) \/ RecordSend(w) \/ Acknowledge(w)
             \/ Fault(w) \/ \E n \in Notices, i \in Seqs : Deliver(w, n, i)
      PROVE  Quiet
  BY <1>1, RecordDeferredQuiet, LeaveQuiet, ClaimEndsQuiet, ClaimRefusedQuiet, RecordSendQuiet,
     DeliverQuiet
<1>2. ASSUME NEW n \in Notices,
             \/ Reconcile(n) \/ BackoffElapses(n) \/ Settle(n) \/ Supersede(n)
             \/ \E resolution \in Resolutions : Resolve(n, resolution)
      PROVE  Quiet
  <2>1. CASE Reconcile(n)
    BY <2>1, RecoverStaleQuiet, EnqueueDueAttemptQuiet, RequeueQuiet, GateQuiet DEF Reconcile
  <2>2. CASE BackoffElapses(n) \/ Settle(n) \/ Supersede(n)
    BY <2>2, RowQuiet, GateQuiet
  <2>3. CASE \E resolution \in Resolutions : Resolve(n, resolution)
    BY <2>3, ResolveQuiet
  <2>4. QED
    BY <1>2, <2>1, <2>2, <2>3
<1>3. CASE ReadGate \/ CloseGate \/ OpenGate
  BY <1>3, GateQuiet
<1>4. CASE \E w \in Workers : Handle(w)
  <2>1. PICK w \in Workers : Handle(w)
    BY <1>4
  <2>2. CASE ClaimCommitted(w)
    BY <2>2
  <2>3. CASE \E outcome \in {"SUBMITTED", "FAILED", "DELIVERY_UNKNOWN"}, delivered \in BOOLEAN :
               SendEmail(w, outcome, delivered)
    BY <2>3
  <2>4. CASE ~ ClaimCommitted(w) /\ ~ \E outcome \in {"SUBMITTED", "FAILED", "DELIVERY_UNKNOWN"},
               delivered \in BOOLEAN : SendEmail(w, outcome, delivered)
    BY <1>1, <2>1, <2>4 DEF Handle
  <2>5. QED
    BY <2>2, <2>3, <2>4
<1>5. QED
  BY <1>1, <1>2, <1>3, <1>4 DEF Next

LEMMA NNext ==
  ASSUME IInv, NInv, LInv, Next
  PROVE  NInv'
<1>1. IInv' /\ OutcomesStay
  BY NextLemma DEF Safe
<1>2. ASSUME Quiet PROVE NInv'
  BY <1>1, <1>2, QuietNext
<1>3. ASSUME NEW w \in Workers, ClaimCommitted(w) PROVE NInv'
  BY <1>1, <1>3, ClaimCommittedNotice
<1>4. ASSUME NEW w \in Workers, NEW outcome \in {"SUBMITTED", "FAILED", "DELIVERY_UNKNOWN"},
             NEW delivered \in BOOLEAN, SendEmail(w, outcome, delivered)
      PROVE  NInv'
  BY <1>1, <1>4, SendEmailNotice
<1>5. QED
  BY <1>2, <1>3, <1>4, StepLemma

-----------------------------------------------------------------------------
(* Late sends. *)

\* Who may have looked at the invoice after the step did so before, except by
\* the recheck itself; only a send is late.
LEMMA LiveLemma ==
  ASSUME IInv, Next
  PROVE  /\ superseded \subseteq superseded'
         /\ \/ late' = late
            \/ \E w \in Workers, outcome \in {"SUBMITTED", "FAILED", "DELIVERY_UNKNOWN"},
                 delivered \in BOOLEAN : SendEmail(w, outcome, delivered)
         /\ \A v \in Workers :
              worker'[v].pc \in {"rechecked", "sending"} =>
                \/ worker'[v] = worker[v]
                \/ Recheck(v)
                \/ ClaimCommitted(v)
<1> DEFINE Kept(v) == worker'[v].pc \in {"rechecked", "sending"} => worker'[v] = worker[v]
           Aside == superseded \subseteq superseded' /\ late' = late
<1>1. ASSUME NEW w \in Workers, Goto(w, "done"), ~ At(w, "idle")
      PROVE  \A v \in Workers : Kept(v)
  <2>1. worker[w] \in Handlings
    BY <1>1, HandlingLemma DEF IInv, At
  <2>2. QED
    BY <1>1, <2>1 DEF Goto, IInv, TypeOK, Handlings
<1>2. ASSUME NEW w \in Workers,
             \/ RecordDeferred(w) \/ ClaimStale(w) \/ ClaimSuppressed(w) \/ ClaimDeferred(w)
             \/ ClaimRefused(w) \/ RecordSend(w)
      PROVE  Aside /\ \A v \in Workers : Kept(v)
  <2>1. Goto(w, "done") /\ ~ At(w, "idle") /\ UNCHANGED <<superseded, late>>
    BY <1>2 DEF RecordDeferred, ClaimStale, ClaimSuppressed, ClaimDeferred, ClaimRefused,
                RecordSend, At
  <2>2. QED
    BY <1>1, <2>1
<1>3. ASSUME NEW w \in Workers,
             \/ Acknowledge(w) \/ Fault(w) \/ \E n \in Notices, i \in Seqs : Deliver(w, n, i)
      PROVE  Aside /\ \A v \in Workers : Kept(v)
  <2>1. UNCHANGED <<superseded, late>>
    BY <1>3 DEF Acknowledge, Fault, Deliver
  <2>2. CASE worker' = [worker EXCEPT ![w] = Idle]
    BY <2>1, <2>2 DEF IInv, TypeOK, Idle
  <2>3. CASE \E n \in Notices, i \in Seqs : Deliver(w, n, i)
    BY <2>1, <2>3 DEF Deliver, IInv, TypeOK
  <2>4. QED
    BY <1>3, <2>2, <2>3 DEF Acknowledge, Fault
<1>4. ASSUME NEW w \in Workers, Recheck(w) \/ ClaimCommitted(w)
      PROVE  /\ Aside
             /\ \A v \in Workers : Kept(v) \/ Recheck(v) \/ ClaimCommitted(v)
  <2>1. UNCHANGED <<superseded, late>> /\ \E pc : Goto(w, pc)
    BY <1>4 DEF Recheck, ClaimCommitted
  <2>2. \A v \in Workers : v # w => worker'[v] = worker[v]
    BY <2>1 DEF Goto, IInv, TypeOK
  <2>3. QED
    BY <1>4, <2>1, <2>2
<1>5. ASSUME NEW w \in Workers, NEW outcome \in {"SUBMITTED", "FAILED", "DELIVERY_UNKNOWN"},
             NEW delivered \in BOOLEAN, SendEmail(w, outcome, delivered)
      PROVE  superseded \subseteq superseded' /\ \A v \in Workers : Kept(v)
  <2>1. worker[w] \in Handlings
    BY <1>5, HandlingLemma DEF IInv, SendEmail, At
  <2>2. /\ superseded' = superseded
        /\ worker' = [worker EXCEPT ![w].pc = "recording", ![w].result = outcome]
    BY <1>5 DEF SendEmail
  <2>3. QED
    BY <2>1, <2>2 DEF IInv, TypeOK, Handlings
<1>6. ASSUME NEW n \in Notices,
             \/ Reconcile(n) \/ BackoffElapses(n) \/ Settle(n) \/ Supersede(n)
             \/ \E resolution \in Resolutions : Resolve(n, resolution)
      PROVE  Aside /\ \A v \in Workers : Kept(v)
  BY <1>6 DEF Reconcile, RecoverStale, EnqueueDueAttempt, SelectFailed, RequeueFailed,
              RecoverDeferred, BackoffElapses, Settle, Supersede, Resolve
<1>7. CASE ReadGate \/ CloseGate \/ OpenGate
  BY <1>7 DEF ReadGate, CloseGate, OpenGate
<1>8. ASSUME NEW w \in Workers,
             Handle(w) \/ Fault(w) \/ \E n \in Notices, i \in Seqs : Deliver(w, n, i)
      PROVE  /\ superseded \subseteq superseded'
             /\ \/ late' = late
                \/ \E v \in Workers, outcome \in {"SUBMITTED", "FAILED", "DELIVERY_UNKNOWN"},
                     delivered \in BOOLEAN : SendEmail(v, outcome, delivered)
             /\ \A v \in Workers : Kept(v) \/ Recheck(v) \/ ClaimCommitted(v)
  <2>1. CASE \E outcome \in {"SUBMITTED", "FAILED", "DELIVERY_UNKNOWN"}, delivered \in BOOLEAN :
               SendEmail(w, outcome, delivered)
    BY <1>5, <2>1
  <2>2. CASE ~ \E outcome \in {"SUBMITTED", "FAILED", "DELIVERY_UNKNOWN"}, delivered \in BOOLEAN :
               SendEmail(w, outcome, delivered)
    BY <1>2, <1>3, <1>4, <1>8, <2>2 DEF Handle
  <2>3. QED
    BY <2>1, <2>2
<1>9. QED
  BY <1>6, <1>7, <1>8 DEF Next

\* As long as no claim was written off as deferred, whoever has looked at the
\* invoice is about to send the current attempt.
LEMMA LiveIsCurrent ==
  ASSUME IInv, NInv, LInv, NEW n \in Notices, NEW i \in Seqs, Live(n, i),
         \A k \in Seqs : ~ WrittenOff(n, k)
  PROVE  i = notice[n].current
<1>1. PICK w \in Workers : /\ worker[w].pc \in {"rechecked", "sending"}
                           /\ worker[w].notice = n /\ worker[w].token = i
  BY DEF Live
<1>2. CASE worker[w].pc = "rechecked"
  BY <1>1, <1>2 DEF LInv, Held
<1>3. CASE worker[w].pc = "sending"
  <2>1. Sending(w, n, i)
    BY <1>1, <1>3 DEF Sending
  <2>2. ~ (i > notice[n].current)
    BY <2>1 DEF IInv, SendInv, Unreserved, NoAttempt
  <2>3. ~ (i < notice[n].current)
    BY <2>1 DEF NInv, Settled, Resting
  <2>4. i \in Nat /\ notice[n].current \in Nat
    BY SeqsLemma DEF IInv, TypeOK, NoticeRows
  <2>5. QED
    BY <2>2, <2>3, <2>4
<1>4. QED
  BY <1>1, <1>2, <1>3

LEMMA LInit == Init => LInv
BY DEF Init, Idle, LInv, Held, LateAlone

LEMMA LNext ==
  ASSUME IInv, NInv, LInv, Next
  PROVE  LInv'
<1>1. ClaimedStays /\ OutcomesStay
  BY NextLemma DEF Safe
<1>2. ASSUME NEW n \in Notices, notice'[n].current # notice[n].current
      PROVE  Unlocked(n)
  <2>1. CASE Quiet
    BY <1>2, <2>1 DEF Quiet, Replaced
  <2>2. ASSUME NEW w \in Workers, ClaimCommitted(w) PROVE FALSE
    <3> DEFINE m == worker[w].notice
               row == [Submitting(m) EXCEPT !.count = @ + 1]
    <3>1. m \in Notices /\ worker[w].token \in Seqs
      BY <2>2, HandlingLemma DEF IInv, ClaimCommitted, At
    <3>2. row.current = notice[m].current
      BY <3>1 DEF Submitting, IInv, TypeOK, NoticeRows
    <3>3. notice' = [notice EXCEPT ![m] = row]
      BY <2>2 DEF ClaimCommitted
    <3> HIDE DEF m, row
    <3>4. QED
      BY <1>2, <3>1, <3>2, <3>3 DEF IInv, TypeOK
  <2>3. ASSUME NEW w \in Workers, NEW outcome \in {"SUBMITTED", "FAILED", "DELIVERY_UNKNOWN"},
               NEW delivered \in BOOLEAN, SendEmail(w, outcome, delivered)
        PROVE  FALSE
    BY <1>2, <2>3 DEF SendEmail
  <2>4. QED
    BY <2>1, <2>2, <2>3, StepLemma
<1> SUFFICES ASSUME NEW n \in Notices
             PROVE  Held(n)' /\ LateAlone(n)'
  BY DEF LInv
<1>3. ASSUME NEW w \in Workers, Recheck(w)
      PROVE  /\ worker'[w].notice = worker[w].notice /\ worker'[w].token = worker[w].token
             /\ worker[w].notice \notin superseded
             /\ notice' = notice /\ notice[worker[w].notice].current = worker[w].token
  <2>1. worker[w] \in Handlings
    BY <1>3, HandlingLemma DEF IInv, Recheck, At
  <2>2. QED
    BY <1>3, <2>1 DEF Recheck, Goto, Claimable, StillCurrent, IInv, TypeOK, Handlings
<1>4. ASSUME NEW w \in Workers, ClaimCommitted(w)
      PROVE  /\ worker'[w].notice = worker[w].notice /\ worker'[w].token = worker[w].token
             /\ worker'[w].pc = "sending" /\ worker[w].pc = "rechecked"
  <2>1. worker[w] \in Handlings
    BY <1>4, HandlingLemma DEF IInv, ClaimCommitted, At
  <2>2. QED
    BY <1>4, <2>1 DEF ClaimCommitted, At, Goto, IInv, TypeOK, Handlings
<1>5. Held(n)'
  <2> SUFFICES ASSUME NEW w \in Workers, worker'[w].pc = "rechecked", worker'[w].notice = n
               PROVE  worker'[w].token = notice'[n].current
    BY DEF Held
  <2>1. CASE worker'[w] = worker[w]
    <3>1. worker[w].token = notice[n].current
      BY <2>1 DEF LInv, Held
    <3>2. ~ Unlocked(n)
      BY <2>1 DEF Unlocked, At
    <3>3. QED
      BY <1>2, <2>1, <3>1, <3>2
  <2>2. CASE Recheck(w)
    BY <1>3, <2>2
  <2>3. CASE ClaimCommitted(w)
    BY <1>4, <2>3
  <2>4. QED
    BY <2>1, <2>2, <2>3, LiveLemma
<1>6. ASSUME NEW j \in Seqs, Live(n, j)', n \in superseded
      PROVE  Live(n, j)
  <2>1. PICK w \in Workers : /\ worker'[w].pc \in {"rechecked", "sending"}
                             /\ worker'[w].notice = n /\ worker'[w].token = j
    BY <1>6 DEF Live
  <2>2. CASE worker'[w] = worker[w]
    BY <2>1, <2>2 DEF Live
  <2>3. CASE Recheck(w)
    BY <1>3, <1>6, <2>1, <2>3
  <2>4. CASE ClaimCommitted(w)
    BY <1>4, <2>1, <2>4 DEF Live
  <2>5. QED
    BY <2>1, <2>2, <2>3, <2>4, LiveLemma
<1>7. LateAlone(n)'
  <2>1. ASSUME NEW i \in Seqs, <<n, i>> \in late'
        PROVE  n \in superseded /\ (<<n, i>> \in late \/ Live(n, i))
    <3>1. CASE late' = late
      BY <2>1, <3>1 DEF LInv, LateAlone
    <3>2. ASSUME NEW w \in Workers, NEW outcome \in {"SUBMITTED", "FAILED", "DELIVERY_UNKNOWN"},
                 NEW delivered \in BOOLEAN, SendEmail(w, outcome, delivered)
          PROVE  n \in superseded /\ (<<n, i>> \in late \/ Live(n, i))
      <4>1. /\ worker[w].pc = "sending"
            /\ late' = IF worker[w].notice \in superseded
                       THEN late \cup {<<worker[w].notice, worker[w].token>>} ELSE late
        BY <3>2 DEF SendEmail, At
      <4>2. CASE <<n, i>> \in late
        BY <4>2 DEF LInv, LateAlone
      <4>3. CASE <<n, i>> \notin late
        BY <2>1, <4>1, <4>3 DEF Live
      <4>4. QED
        BY <4>2, <4>3
    <3>3. QED
      BY <3>1, <3>2, LiveLemma
  <2>2. CASE \E i \in Seqs : WrittenOff(n, i)
    <3>1. \E i \in Seqs : WrittenOff(n, i)'
      BY <1>1, <2>2 DEF WrittenOff, ClaimedStays, OutcomesStay
    <3>2. QED
      BY <2>1, <3>1, LiveLemma DEF LateAlone
  <2>3. CASE \A i \in Seqs : ~ WrittenOff(n, i)
    <3>1. ASSUME NEW i \in Seqs, NEW j \in Seqs,
                 <<n, i>> \in late', <<n, j>> \in late' \/ Live(n, j)'
          PROVE  i = j
      <4>1. /\ <<n, i>> \in late \/ Live(n, i)
            /\ <<n, j>> \in late \/ Live(n, j)
        BY <1>6, <2>1, <3>1
      <4>2. CASE <<n, i>> \in late \/ <<n, j>> \in late
        BY <2>3, <4>1, <4>2 DEF LInv, LateAlone
      <4>3. CASE Live(n, i) /\ Live(n, j)
        BY <2>3, <4>3, LiveIsCurrent
      <4>4. QED
        BY <4>1, <4>2, <4>3
    <3>2. QED
      BY <2>1, <3>1, LiveLemma DEF LateAlone
  <2>4. QED
    BY <2>2, <2>3
<1>8. QED
  BY <1>5, <1>7

LEMMA NStutter == NInv /\ LInv /\ UNCHANGED vars => NInv' /\ LInv'
<1>1. ASSUME NInv, UNCHANGED vars PROVE NInv'
  <2>1. UNCHANGED <<notice, attempt, worker, sends, accepted>>
    BY <1>1 DEF vars
  <2>2. ASSUME NEW n \in Notices PROVE Agrees(n)' = Agrees(n) /\ Booked(n)' = Booked(n)
    BY <2>1 DEF Agrees, Current, Booked, Sending
  <2>3. ASSUME NEW n \in Notices, NEW i \in Seqs
        PROVE  (Truthful(n, i) /\ Settled(n, i)) => (Truthful(n, i) /\ Settled(n, i))'
    BY <2>1 DEF Truthful, Settled, Resting, WrittenOff, Sending
  <2>4. QED
    BY <1>1, <2>1, <2>2, <2>3 DEF NInv
<1>2. LInv /\ UNCHANGED vars => LInv'
  BY DEF LInv, Held, Live, LateAlone, WrittenOff, vars
<1>3. QED
  BY <1>1, <1>2

-----------------------------------------------------------------------------

\* The strengthened invariant of the notices and their attempts.
THEOREM NoticeInvariance == Spec => [](IInv /\ NInv /\ LInv)
<1>1. Init => IInv /\ NInv /\ LInv
  BY InitLemma, NInit, LInit
<1>2. IInv /\ NInv /\ LInv /\ [Next]_vars => (IInv /\ NInv /\ LInv)'
  <2> SUFFICES ASSUME IInv, NInv, LInv, [Next]_vars PROVE (IInv /\ NInv /\ LInv)'
    OBVIOUS
  <2>1. IInv'
    BY NextLemma, StutterLemma DEF Safe
  <2>2. NInv' /\ LInv'
    BY NNext, LNext, NStutter
  <2>3. QED
    BY <2>1, <2>2
<1>3. QED
  BY <1>1, <1>2, PTL DEF Spec

\* The counted sends cover those made and stay within the allowance, and the
\* notice shows what came of its current attempt (recordOutcome,
\* commitPreparedEvidence, reserveNextAttempt).
THEOREM NoticesAgree == Spec => []NoticeAgreesWithAttempts
<1>1. IInv /\ NInv => NoticeAgreesWithAttempts
  <2> SUFFICES ASSUME IInv, NInv, NEW n \in Notices
               PROVE  LET status == notice[n].status
                          sent == {i \in Seqs : sends[n][i] > 0}
                          claimed == {i \in Seqs : attempt[n][i].claimed}
                      IN
                      /\ sent \subseteq claimed
                      /\ Cardinality(sent) <= notice[n].count
                      /\ Agrees(n)
    BY DEF NoticeAgreesWithAttempts, Agrees
  <2> DEFINE sent == {i \in Seqs : sends[n][i] > 0}
  <2>1. sent \subseteq {i \in Seqs : attempt[n][i].claimed}
    BY DEF IInv, SendInv
  <2>2. Cardinality(sent) <= notice[n].count
    <3>1. sent \subseteq Booked(n)
      BY DEF Booked
    <3>2. Cardinality(sent) <= Cardinality(Booked(n)) /\ Cardinality(sent) \in Nat
      BY <3>1, BookedLemma, FS_Subset, FS_CardinalityType
    <3>3. Cardinality(Booked(n)) <= notice[n].count /\ notice[n].count \in Nat
      BY DEF NInv, IInv, TypeOK, NoticeRows
    <3>4. QED
      BY <3>2, <3>3, BookedLemma
  <2>3. QED
    BY <2>1, <2>2 DEF NInv
<1>2. QED
  BY <1>1, NoticeInvariance, PTL

\* The one way to a second email of a notice: an attempt that was claimed for
\* sending and then written off as deferred.
THEOREM SecondEmail == Spec => []SecondEmailNeedsDeferredClaim
<1>1. IInv /\ NInv => SecondEmailNeedsDeferredClaim
  <2> SUFFICES ASSUME IInv, NInv, NEW n \in Notices,
                      \A i \in Seqs : ~ WrittenOff(n, i)
               PROVE  ~ (Cardinality({i \in Seqs : <<n, i>> \in accepted}) > 1)
    BY DEF SecondEmailNeedsDeferredClaim, WrittenOff
  <2> DEFINE taken == {i \in Seqs : <<n, i>> \in accepted}
             current == notice[n].current
  <2>1. current \in Seqs /\ current \in Nat /\ \A i \in Seqs : i \in Nat
    BY SeqsLemma DEF IInv, TypeOK, NoticeRows
  <2>2. taken \subseteq {current}
    <3> SUFFICES ASSUME NEW i \in Seqs, <<n, i>> \in accepted PROVE i = current
      OBVIOUS
    <3>1. attempt[n][i].claimed
      BY DEF NInv, Truthful, IInv, SendInv
    <3>2. ~ (i > current)
      BY <3>1 DEF IInv, Unreserved, NoAttempt
    <3>3. ~ (i < current)
      BY DEF NInv, Settled
    <3>4. QED
      BY <2>1, <3>2, <3>3
  <2>3. IsFiniteSet({current}) /\ Cardinality({current}) = 1
    BY FS_Singleton
  <2> HIDE DEF taken, current
  <2>4. Cardinality(taken) <= 1 /\ Cardinality(taken) \in Nat
    BY <2>2, <2>3, FS_Subset, FS_CardinalityType
  <2>5. QED
    BY <2>4 DEF taken
<1>2. QED
  BY <1>1, NoticeInvariance, PTL

\* After its invoice has moved on, a notice is sent once more at the most,
\* unless an attempt that was claimed was written off as deferred.
THEOREM LateSendAlone == Spec => []OneLateSend
<1>1. IInv /\ LInv => OneLateSend
  <2> SUFFICES ASSUME LInv, NEW n \in Notices,
                      \A i \in Seqs : ~ WrittenOff(n, i)
               PROVE  ~ (Cardinality({i \in Seqs : <<n, i>> \in late}) > 1)
    BY DEF OneLateSend, WrittenOff
  <2> DEFINE sent == {i \in Seqs : <<n, i>> \in late}
  <2>1. \A i, j \in sent : i = j
    BY DEF LInv, LateAlone
  <2> HIDE DEF sent
  <2>2. CASE sent = {}
    <3>1. Cardinality(sent) = 0
      BY <2>2, FS_EmptySet
    <3>2. QED
      BY <3>1 DEF sent
  <2>3. CASE sent # {}
    <3>1. PICK i \in sent : TRUE
      BY <2>3
    <3>2. sent = {i}
      BY <2>1, <3>1
    <3>3. Cardinality(sent) = 1
      BY <3>2, FS_Singleton
    <3>4. QED
      BY <3>3 DEF sent
  <2>4. QED
    BY <2>2, <2>3
<1>2. QED
  BY <1>1, NoticeInvariance, PTL

=============================================================================
