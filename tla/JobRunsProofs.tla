--------------------------- MODULE JobRunsProofs ---------------------------
(***************************************************************************)
(* Theorems about JobRuns, for any sets of jobs, replicas and request      *)
(* slots and any values of the time constants.                             *)
(*                                                                         *)
(* IInv is the inductive invariant.  Its heart is LeaseHolds: until its    *)
(* lease has passed, a worker's row is there, RUNNING and its own, so a    *)
(* claim of the same job is refused; and Forgotten: a key that was used    *)
(* and has no row any more is older than the history, hence older than any *)
(* request that could still name it.                                       *)
(***************************************************************************)
EXTENDS JobRuns, TLAPS

\* What a row that exists says about the clock and the history.
RowTimes ==
  \A j \in Jobs : \A o \in Occurrences :
    row[j][o].status # "NONE" =>
      /\ row[j][o].startedAt <= now
      /\ row[j][o].lease = row[j][o].startedAt + Lease
      /\ started[j][o] = 1
      /\ o.trigger = "scheduler" => o.n <= row[j][o].startedAt

\* A scheduled minute that ran and left no row is beyond the history.
Forgotten ==
  \A j \in Jobs : \A o \in Occurrences :
    o.trigger = "scheduler" /\ started[j][o] = 1 /\ row[j][o].status = "NONE" =>
      o.n + Retention < now

\* Requests name a minute that has come, or an ad-hoc run that has not started.
RequestTimes ==
  /\ \A q \in requests :
       /\ q.occ.trigger = "scheduler" => q.occ.n <= now
       /\ q.occ.trigger = "manual" => q.occ.n <= manualSeq /\ started[q.job][q.occ] = 0
  /\ \A p, q \in requests : p.occ.trigger = "manual" /\ p.occ = q.occ => p = q

FreshManual ==
  \A j \in Jobs : \A o \in Occurrences :
    o.trigger = "manual" /\ o.n > manualSeq => started[j][o] = 0

\* A worker at work is the only one for its key, and until its lease has
\* passed its row is RUNNING under its start time.
SlotTimes ==
  \A w \in Active :
    /\ started[worker[w].job][worker[w].occ] = 1
    /\ worker[w].startedAt <= now
    /\ worker[w].lease = worker[w].startedAt + Lease

OwnKey ==
  \A v, w \in Active :
    worker[v].job = worker[w].job /\ worker[v].occ = worker[w].occ => v = w

LeaseHolds ==
  \A w \in Active :
    now <= worker[w].lease =>
      /\ row[worker[w].job][worker[w].occ].status = "RUNNING"
      /\ row[worker[w].job][worker[w].occ].startedAt = worker[w].startedAt

IInv ==
  /\ TypeOK
  /\ OneRunningRow
  /\ OccurrenceRunsOnce
  /\ RowTimes
  /\ Forgotten
  /\ RequestTimes
  /\ FreshManual
  /\ SlotTimes
  /\ OwnKey
  /\ LeaseHolds

-----------------------------------------------------------------------------

LEMMA IdleSlot == Idle \in Slots /\ Idle.pc = "idle"
  BY DEF Idle, Slots

\* What the fields of a slot that is not idle are.
LEMMA ActiveSlot ==
  ASSUME TypeOK, NEW w \in Workers, worker[w].pc # "idle"
  PROVE  /\ worker[w].pc \in {"handling", "finishing"}
         /\ worker[w].job \in Jobs
         /\ worker[w].occ \in Occurrences
         /\ worker[w].startedAt \in Nat
         /\ worker[w].lease \in Nat
         /\ worker[w].pc = "finishing" => worker[w].outcome \in {"SUCCEEDED", "FAILED"}
  BY DEF TypeOK, Slots

\* What CloseExpired does to a row.
LEMMA Closed ==
  ASSUME TypeOK, NEW j \in Jobs, NEW o \in Occurrences
  PROVE  /\ CloseExpired(j) \in [Occurrences -> Rows]
         /\ CloseExpired(j)[o].startedAt = row[j][o].startedAt
         /\ CloseExpired(j)[o].lease = row[j][o].lease
         /\ CloseExpired(j)[o].status =
              IF row[j][o].status = "RUNNING" /\ row[j][o].lease < now THEN "FAILED" ELSE row[j][o].status
<1>1. row[j] \in [Occurrences -> Rows]
  BY DEF TypeOK
<1>2. \A p \in Occurrences : row[j][p] \in Rows
  BY <1>1
<1>3. \A p \in Occurrences : [row[j][p] EXCEPT !.status = "FAILED"] \in Rows
  BY <1>2 DEF Rows, Statuses
<1> QED
  BY <1>2, <1>3 DEF CloseExpired, Rows

LEMMA NewRowTyped ==
  ASSUME TypeOK, NEW w \in Workers
  PROVE  NewRow(w) \in Rows
  BY JobsAssumption DEF NewRow, Rows, Statuses, TypeOK

\* What finishRun's UPDATE does to a row.
LEMMA RecordedTyped ==
  ASSUME TypeOK, NEW w \in Workers, worker[w].pc = "finishing"
  PROVE  Recorded(w) \in [Jobs -> [Occurrences -> Rows]]
<1> DEFINE k == worker[w]
<1>1. k.job \in Jobs /\ k.occ \in Occurrences /\ k.outcome \in Statuses
  BY ActiveSlot DEF Statuses
<1>2. row[k.job][k.occ] \in Rows
  BY <1>1 DEF TypeOK
<1>3. [row[k.job][k.occ] EXCEPT !.status = k.outcome] \in Rows
  BY <1>1, <1>2 DEF Rows
<1>4. [row EXCEPT ![k.job][k.occ].status = k.outcome]
        = [row EXCEPT ![k.job] = [row[k.job] EXCEPT ![k.occ] = [row[k.job][k.occ] EXCEPT !.status = k.outcome]]]
  OBVIOUS
<1>5. [row[k.job] EXCEPT ![k.occ] = [row[k.job][k.occ] EXCEPT !.status = k.outcome]] \in [Occurrences -> Rows]
  BY <1>1, <1>3 DEF TypeOK
<1>6. [row EXCEPT ![k.job][k.occ].status = k.outcome] \in [Jobs -> [Occurrences -> Rows]]
  BY <1>1, <1>4, <1>5 DEF TypeOK
<1> QED
  BY <1>6 DEF Recorded, TypeOK

LEMMA TypeInductive == TypeOK /\ [Next]_vars => TypeOK'
<1> SUFFICES ASSUME TypeOK, [Next]_vars PROVE TypeOK'
  OBVIOUS
<1>1. CASE Tick
  BY <1>1, JobsAssumption DEF TypeOK, Tick
<1>2. ASSUME NEW r \in Replicas, Fire(r) PROVE TypeOK'
  <2>1. \A j \in Jobs : [job |-> j, occ |-> Scheduled(now), from |-> r] \in Requests
    BY DEF TypeOK, Scheduled, Requests, Occurrences
  <2>2. requests' \subseteq Requests
    BY <1>2, <2>1 DEF TypeOK, Fire
  <2> QED
    BY <1>2, <2>2 DEF TypeOK, Fire
<1>3. ASSUME NEW j \in Jobs, NEW r \in Replicas, RunManually(j, r) PROVE TypeOK'
  <2>1. Manual(manualSeq + 1) \in Occurrences
    BY <1>3, JobsAssumption DEF TypeOK, RunManually, Manual, Occurrences
  <2> QED
    BY <1>3, <2>1, JobsAssumption DEF TypeOK, RunManually, Requests
<1>4. ASSUME NEW q \in requests, Drop(q) PROVE TypeOK'
  BY <1>4 DEF TypeOK, Drop
<1>5. ASSUME NEW w \in Workers, NEW q \in requests, Claim(w, q) PROVE TypeOK'
  <2> DEFINE closed == CloseExpired(q.job)
             ok == Claimable(closed, q.occ)
             slot == [pc |-> "handling", job |-> q.job, occ |-> q.occ,
                      startedAt |-> now, lease |-> now + Lease]
  <2>1. q.job \in Jobs /\ q.occ \in Occurrences
    BY DEF TypeOK, Requests
  <2>2. closed \in [Occurrences -> Rows]
    BY <2>1, Closed
  <2>3. [closed EXCEPT ![q.occ] = NewRow(w)] \in [Occurrences -> Rows]
    BY <2>2, NewRowTyped
  <2>4. row' \in [Jobs -> [Occurrences -> Rows]]
    <3>1. (IF ok THEN [closed EXCEPT ![q.occ] = NewRow(w)] ELSE closed) \in [Occurrences -> Rows]
      BY <2>2, <2>3
    <3> HIDE DEF closed, ok
    <3>2. row' = [row EXCEPT ![q.job] = IF ok THEN [closed EXCEPT ![q.occ] = NewRow(w)] ELSE closed]
      BY <1>5 DEF Claim, closed, ok
    <3> QED
      BY <3>1, <3>2 DEF TypeOK
  <2>5. slot \in Slots
    BY <2>1, JobsAssumption DEF TypeOK, Slots
  <2>6. worker' \in [Workers -> Slots]
    BY <1>5, <2>5 DEF TypeOK, Claim
  <2>7. started' \in [Jobs -> [Occurrences -> Nat]]
    BY <1>5, <2>1 DEF TypeOK, Claim
  <2>8. requests' \subseteq Requests /\ UNCHANGED <<now, fired, manualSeq>>
    BY <1>5 DEF TypeOK, Claim
  <2> QED
    BY <2>4, <2>6, <2>7, <2>8 DEF TypeOK
<1>6. ASSUME NEW w \in Workers, Return(w) PROVE TypeOK'
  <2>1. PICK s \in {"SUCCEEDED", "FAILED"} :
          worker' = [worker EXCEPT ![w] =
                       [pc |-> "finishing", job |-> @.job, occ |-> @.occ,
                        startedAt |-> @.startedAt, lease |-> @.lease, outcome |-> s]]
    BY <1>6 DEF Return
  <2>2. [pc |-> "finishing", job |-> worker[w].job, occ |-> worker[w].occ,
         startedAt |-> worker[w].startedAt, lease |-> worker[w].lease, outcome |-> s] \in Slots
    <3>1. worker[w].pc # "idle"
      BY <1>6 DEF Return
    <3> QED
      BY <3>1, ActiveSlot DEF Slots
  <2>3. worker' \in [Workers -> Slots]
    BY <2>1, <2>2 DEF TypeOK
  <2> QED
    BY <1>6, <2>3 DEF TypeOK, Return
<1>7. ASSUME NEW w \in Workers, Finish(w) PROVE TypeOK'
  <2>1. Recorded(w) \in [Jobs -> [Occurrences -> Rows]]
    BY <1>7, RecordedTyped DEF Finish
  <2>2. Trimmed(Recorded(w)) \in [Jobs -> [Occurrences -> Rows]]
    BY <2>1 DEF Trimmed, NoRow, Rows, Statuses
  <2>3. row' \in [Jobs -> [Occurrences -> Rows]]
    BY <1>7, <2>1, <2>2 DEF Finish
  <2> QED
    BY <1>7, <2>3, IdleSlot DEF TypeOK, Finish
<1>8. ASSUME NEW w \in Workers, FinishLost(w) PROVE TypeOK'
  BY <1>8, IdleSlot DEF TypeOK, FinishLost
<1>9. ASSUME NEW r \in Replicas, Crash(r) PROVE TypeOK'
  BY <1>9, IdleSlot, JobsAssumption DEF TypeOK, Crash
<1>10. CASE UNCHANGED vars
  BY <1>10 DEF TypeOK, vars
<1> QED
  BY <1>1, <1>2, <1>3, <1>4, <1>5, <1>6, <1>7, <1>8, <1>9, <1>10 DEF Next

-----------------------------------------------------------------------------

LEMMA OccurrenceTyped ==
  ASSUME NEW o \in Occurrences
  PROVE  /\ o.trigger \in {"scheduler", "manual"}
         /\ o.n \in Nat
         /\ o.trigger = "scheduler" => o = Scheduled(o.n)
         /\ o.trigger = "manual" => o = Manual(o.n)
  BY JobsAssumption DEF Occurrences, Scheduled, Manual

LEMMA RowTyped ==
  ASSUME TypeOK, NEW j \in Jobs, NEW o \in Occurrences
  PROVE  /\ row[j][o] \in Rows
         /\ row[j][o].startedAt \in Nat
         /\ row[j][o].lease \in Nat
         /\ started[j][o] \in Nat
         /\ now \in Nat
  BY DEF TypeOK, Rows

LEMMA InitInv == Init => IInv
<1> SUFFICES ASSUME Init PROVE IInv
  OBVIOUS
<1>1. TypeOK
  BY IdleSlot, JobsAssumption DEF Init, TypeOK, NoRow, Rows, Statuses
<1>2. \A j \in Jobs : \A o \in Occurrences : row[j][o].status = "NONE" /\ started[j][o] = 0
  BY DEF Init, NoRow
<1>3. Active = {} /\ requests = {}
  BY IdleSlot DEF Init, Active
<1> QED
  BY <1>1, <1>2, <1>3 DEF IInv, OneRunningRow, OccurrenceRunsOnce, RowTimes, Forgotten,
     RequestTimes, FreshManual, SlotTimes, OwnKey, LeaseHolds

\* The clock moves.
LEMMA TickInv == ASSUME IInv, Tick PROVE IInv'
<1> USE DEF IInv
<1>1. TypeOK'
  BY TypeInductive DEF Next
<1>2. OneRunningRow' /\ OccurrenceRunsOnce' /\ FreshManual' /\ OwnKey'
  BY DEF Tick, OneRunningRow, OccurrenceRunsOnce, FreshManual, OwnKey, Active
<1>3. now \in Nat /\ now' = now + 1 /\ Retention \in Nat
  BY JobsAssumption DEF Tick, TypeOK
<1>4. RowTimes' /\ Forgotten'
  BY <1>3, RowTyped, OccurrenceTyped DEF Tick, RowTimes, Forgotten
<1>5. RequestTimes'
  <2>1. \A q \in requests : q.occ \in Occurrences
    BY DEF TypeOK, Requests
  <2> QED
    BY <1>3, <2>1, OccurrenceTyped DEF Tick, RequestTimes
<1>6. SlotTimes' /\ LeaseHolds'
  <2>1. \A w \in Active : worker[w].startedAt \in Nat /\ worker[w].lease \in Nat
    BY ActiveSlot DEF Active
  <2>2. Active' = Active
    BY DEF Tick, Active
  <2> QED
    BY <1>3, <2>1, <2>2 DEF Tick, SlotTimes, LeaseHolds
<1> QED
  BY <1>1, <1>2, <1>4, <1>5, <1>6

\* Requests come and go; the table and the workers are untouched.
LEMMA RequestInv ==
  ASSUME IInv,
         \/ \E r \in Replicas : Fire(r)
         \/ \E j \in Jobs, r \in Replicas : RunManually(j, r)
         \/ \E q \in requests : Drop(q)
  PROVE  IInv'
<1> USE DEF IInv
<1>1. TypeOK'
  BY TypeInductive DEF Next
<1>2. UNCHANGED <<now, row, worker, started>>
  BY DEF Fire, RunManually, Drop
<1>3. /\ OneRunningRow' /\ OccurrenceRunsOnce' /\ RowTimes' /\ Forgotten'
      /\ SlotTimes' /\ OwnKey' /\ LeaseHolds'
  BY <1>2 DEF OneRunningRow, OccurrenceRunsOnce, RowTimes, Forgotten, SlotTimes, OwnKey,
     LeaseHolds, Active
<1>4. FreshManual' /\ RequestTimes'
  <2>1. ASSUME NEW r \in Replicas, Fire(r) PROVE FreshManual' /\ RequestTimes'
    <3>1. now \in Nat
      BY DEF TypeOK
    <3>2. \A q \in requests' \ requests : q.occ = Scheduled(now)
      BY <2>1 DEF Fire
    <3>3. \A q \in requests' : q \in requests \/ (q.occ.trigger = "scheduler" /\ q.occ.n = now)
      BY <3>2 DEF Scheduled
    <3> QED
      BY <1>2, <2>1, <3>1, <3>3 DEF Fire, FreshManual, RequestTimes
  <2>2. ASSUME NEW j \in Jobs, NEW r \in Replicas, RunManually(j, r)
        PROVE  FreshManual' /\ RequestTimes'
    <3> DEFINE new == [job |-> j, occ |-> Manual(manualSeq + 1), from |-> r]
    <3>1. manualSeq \in Nat /\ manualSeq' = manualSeq + 1 /\ requests' = requests \cup {new}
      BY <2>2, JobsAssumption DEF RunManually, TypeOK
    <3>2. new.occ.trigger = "manual" /\ new.occ.n = manualSeq + 1 /\ new.job = j
      BY DEF Manual
    <3>3. \A q \in requests' : q \in Requests /\ q.occ \in Occurrences /\ q.occ.n \in Nat
      BY <1>1, OccurrenceTyped DEF TypeOK, Requests
    <3>4. \A q \in requests : q.occ.trigger = "manual" => q.occ # new.occ
      BY <3>1, <3>2, <3>3 DEF RequestTimes
    <3>5. FreshManual'
      BY <1>2, <3>1, OccurrenceTyped DEF FreshManual
    <3>6. started[j][new.occ] = 0
      <4>1. new.occ \in Occurrences
        BY <3>1, <3>3
      <4> QED
        BY <3>1, <3>2, <4>1 DEF FreshManual
    <3> HIDE DEF new
    <3> QED
      BY <1>2, <3>1, <3>2, <3>3, <3>4, <3>5, <3>6 DEF RequestTimes
  <2>3. ASSUME NEW q \in requests, Drop(q) PROVE FreshManual' /\ RequestTimes'
    BY <2>3 DEF Drop, FreshManual, RequestTimes
  <2> QED
    BY <2>1, <2>2, <2>3
<1> QED
  BY <1>1, <1>3, <1>4

\* A claim that is granted names a key no run has used.
LEMMA ClaimedKeyIsNew ==
  ASSUME IInv, NEW w \in Workers, NEW q \in requests, Claim(w, q),
         Claimable(CloseExpired(q.job), q.occ)
  PROVE  row[q.job][q.occ].status = "NONE" /\ started[q.job][q.occ] = 0
<1> USE DEF IInv
<1>1. q.job \in Jobs /\ q.occ \in Occurrences
  BY DEF TypeOK, Requests
<1>2. row[q.job][q.occ].status = "NONE"
  BY <1>1, Closed DEF Claimable
<1>3. CASE q.occ.trigger = "manual"
  BY <1>2, <1>3 DEF RequestTimes
<1>4. CASE q.occ.trigger = "scheduler"
  <2>1. now <= q.occ.n + MaxDelay
    BY <1>4 DEF Claim, Deliverable
  <2>2. started[q.job][q.occ] # 1
    BY <1>1, <1>2, <1>4, <2>1, OccurrenceTyped, RowTyped, JobsAssumption DEF Forgotten
  <2> QED
    BY <1>1, <1>2, <2>2, RowTyped DEF OccurrenceRunsOnce
<1> QED
  BY <1>1, <1>3, <1>4, OccurrenceTyped

\* claimRun refused: rows whose lease has passed are closed, nothing else.
LEMMA RefusedInv ==
  ASSUME IInv, NEW w \in Workers, NEW q \in requests, Claim(w, q),
         ~ Claimable(CloseExpired(q.job), q.occ)
  PROVE  IInv'
<1> USE DEF IInv
<1>1. TypeOK'
  BY TypeInductive DEF Next
<1>2. q.job \in Jobs /\ UNCHANGED <<now, fired, manualSeq, worker, started>> /\ requests' \subseteq requests
  BY DEF TypeOK, Requests, Claim
<1>3. row' = [row EXCEPT ![q.job] = CloseExpired(q.job)]
  BY DEF Claim
<1>4. \A j \in Jobs : \A o \in Occurrences :
        /\ row'[j][o].startedAt = row[j][o].startedAt
        /\ row'[j][o].lease = row[j][o].lease
        /\ row'[j][o].status = "NONE" <=> row[j][o].status = "NONE"
        /\ row'[j][o].status = "RUNNING" =>  row[j][o].status = "RUNNING"
        /\ row[j][o].status = "RUNNING" /\ now <= row[j][o].lease => row'[j][o].status = "RUNNING"
  BY <1>2, <1>3, Closed, RowTyped DEF TypeOK
<1> HIDE <1>3
<1>5. OneRunningRow' /\ OccurrenceRunsOnce' /\ FreshManual' /\ SlotTimes' /\ OwnKey'
  BY <1>2, <1>4 DEF OneRunningRow, OccurrenceRunsOnce, FreshManual, SlotTimes, OwnKey, Active
<1>6. RowTimes' /\ Forgotten' /\ RequestTimes'
  BY <1>2, <1>4 DEF RowTimes, Forgotten, RequestTimes
<1>7. LeaseHolds'
  <2>1. \A v \in Active : /\ worker[v].job \in Jobs /\ worker[v].occ \in Occurrences
                          /\ worker[v].startedAt \in Nat /\ worker[v].lease \in Nat
    BY ActiveSlot DEF Active
  <2>2. SUFFICES ASSUME NEW v \in Active, now <= worker[v].lease
                 PROVE  /\ row'[worker[v].job][worker[v].occ].status = "RUNNING"
                        /\ row'[worker[v].job][worker[v].occ].startedAt = worker[v].startedAt
    BY <1>2 DEF LeaseHolds, Active
  <2>3. row[worker[v].job][worker[v].occ].lease = worker[v].lease
    BY <2>1, <2>2 DEF LeaseHolds, SlotTimes, RowTimes
  <2> QED
    BY <1>4, <2>1, <2>2, <2>3 DEF LeaseHolds
<1> QED
  BY <1>1, <1>5, <1>6, <1>7

\* claimRun granted: a new RUNNING row, and the handler starts.
LEMMA GrantedInv ==
  ASSUME IInv, NEW w \in Workers, NEW q \in requests, Claim(w, q),
         Claimable(CloseExpired(q.job), q.occ)
  PROVE  IInv'
<1> USE DEF IInv
<1> DEFINE slot == [pc |-> "handling", job |-> q.job, occ |-> q.occ,
                    startedAt |-> now, lease |-> now + Lease]
<1>1. TypeOK'
  BY TypeInductive DEF Next
<1>2. q.job \in Jobs /\ q.occ \in Occurrences /\ now \in Nat /\ Lease \in Nat
  BY JobsAssumption DEF TypeOK, Requests
<1>3. row[q.job][q.occ].status = "NONE" /\ started[q.job][q.occ] = 0
  BY ClaimedKeyIsNew
<1>4. /\ UNCHANGED <<now, fired, manualSeq>>
      /\ requests' = requests \ {q}
      /\ worker' = [worker EXCEPT ![w] = slot]
      /\ started' = [started EXCEPT ![q.job][q.occ] = @ + 1]
      /\ row' = [row EXCEPT ![q.job] = [CloseExpired(q.job) EXCEPT ![q.occ] = NewRow(w)]]
      /\ worker[w].pc = "idle"
  BY DEF Claim
<1>5. \A j \in Jobs : \A o \in Occurrences :
        IF j = q.job /\ o = q.occ
        THEN /\ row'[j][o].status = "RUNNING" /\ row'[j][o].startedAt = now
             /\ row'[j][o].lease = now + Lease /\ started'[j][o] = 1
        ELSE /\ row'[j][o].startedAt = row[j][o].startedAt
             /\ row'[j][o].lease = row[j][o].lease
             /\ started'[j][o] = started[j][o]
             /\ row'[j][o].status = "NONE" <=> row[j][o].status = "NONE"
             /\ row'[j][o].status = "RUNNING" =>  row[j][o].status = "RUNNING"
             /\ row[j][o].status = "RUNNING" /\ now <= row[j][o].lease => row'[j][o].status = "RUNNING"
  BY <1>2, <1>3, <1>4, Closed, RowTyped DEF TypeOK, NewRow
<1>6. \A o \in Occurrences : o # q.occ => row'[q.job][o].status # "RUNNING"
  BY <1>2, <1>4, Closed DEF TypeOK, Claimable
<1>7. Active' = Active \cup {w} /\ w \notin Active /\ worker'[w] = slot
      /\ \A v \in Active : worker'[v] = worker[v]
  BY <1>4 DEF Active, TypeOK
<1>8. \A v \in Active : /\ worker[v].job \in Jobs /\ worker[v].occ \in Occurrences
                        /\ worker[v].startedAt \in Nat /\ worker[v].lease \in Nat
                        /\ ~ (worker[v].job = q.job /\ worker[v].occ = q.occ)
  BY <1>3, ActiveSlot DEF Active, SlotTimes
<1>9. OneRunningRow'
  BY <1>2, <1>5, <1>6 DEF OneRunningRow
<1>10. OccurrenceRunsOnce' /\ Forgotten'
  BY <1>4, <1>5 DEF OccurrenceRunsOnce, Forgotten
<1>11. RowTimes'
  BY <1>2, <1>4, <1>5 DEF RowTimes, RequestTimes
<1>12. RequestTimes'
  <2>1. \A p \in requests : p.job \in Jobs /\ p.occ \in Occurrences
    BY DEF TypeOK, Requests
  <2> QED
    BY <1>4, <1>5, <2>1 DEF RequestTimes
<1>13. FreshManual'
  <2>1. q.occ.trigger = "manual" => q.occ.n <= manualSeq
    BY DEF RequestTimes
  <2>2. q.occ.n \in Nat /\ manualSeq \in Nat
    BY <1>2, OccurrenceTyped, JobsAssumption DEF TypeOK
  <2> QED
    BY <1>4, <1>5, <2>1, <2>2 DEF FreshManual
<1>14. SlotTimes' /\ OwnKey'
  BY <1>2, <1>4, <1>5, <1>7, <1>8 DEF SlotTimes, OwnKey
<1>15. LeaseHolds'
  <2>1. \A v \in Active : now <= worker[v].lease =>
          row[worker[v].job][worker[v].occ].lease = worker[v].lease
    BY <1>8 DEF LeaseHolds, SlotTimes, RowTimes
  <2> QED
    BY <1>2, <1>4, <1>5, <1>7, <1>8, <2>1 DEF LeaseHolds
<1> QED
  BY <1>1, <1>9, <1>10, <1>11, <1>12, <1>13, <1>14, <1>15

LEMMA ReturnInv == ASSUME IInv, NEW w \in Workers, Return(w) PROVE IInv'
<1> USE DEF IInv
<1>1. TypeOK'
  BY TypeInductive DEF Next
<1>2. UNCHANGED <<now, fired, requests, manualSeq, row, started>>
  BY DEF Return
<1>3. /\ Active' \subseteq Active
      /\ \A v \in Active' : /\ worker'[v].job = worker[v].job
                            /\ worker'[v].occ = worker[v].occ
                            /\ worker'[v].startedAt = worker[v].startedAt
                            /\ worker'[v].lease = worker[v].lease
  BY DEF Return, Active, TypeOK
<1>4. SlotTimes' /\ OwnKey' /\ LeaseHolds'
  BY <1>2, <1>3 DEF SlotTimes, OwnKey, LeaseHolds
<1> QED
  BY <1>1, <1>2, <1>4 DEF OneRunningRow, OccurrenceRunsOnce, RowTimes, Forgotten,
     RequestTimes, FreshManual

\* What finishRun leaves of the table: the row of w may take its outcome, old
\* rows may go, and the rows of unexpired workers other than w stay.
LEMMA FinishRows ==
  ASSUME IInv, NEW w \in Workers, Finish(w), NEW j \in Jobs, NEW o \in Occurrences
  PROVE  /\ row'[j][o].status = "RUNNING" => row[j][o].status = "RUNNING"
         /\ row'[j][o].status # "NONE" =>
              /\ row[j][o].status # "NONE"
              /\ row'[j][o].startedAt = row[j][o].startedAt
              /\ row'[j][o].lease = row[j][o].lease
         /\ row'[j][o].status = "NONE" =>
              row[j][o].status = "NONE" \/ row[j][o].startedAt + Retention < now
         /\ row[j][o].status \in {"SUCCEEDED", "FAILED"} =>
              row'[j][o].status \in {row[j][o].status, "NONE"}
         /\ row[j][o].status = "RUNNING" /\ now <= row[j][o].lease
            /\ ~ (worker[w].job = j /\ worker[w].occ = o) =>
              row'[j][o] = row[j][o]
<1> USE DEF IInv
<1>1. worker[w].job \in Jobs /\ worker[w].occ \in Occurrences
      /\ worker[w].outcome \in {"SUCCEEDED", "FAILED"}
  BY ActiveSlot DEF Finish
<1> DEFINE k == worker[w]
           rec == Recorded(w)
<1>2. /\ rec[j][o].startedAt = row[j][o].startedAt
      /\ rec[j][o].lease = row[j][o].lease
      /\ rec[j][o].status # row[j][o].status =>
           /\ k.job = j /\ k.occ = o
           /\ row[j][o].status = "RUNNING" /\ rec[j][o].status = k.outcome
      /\ ~ (k.job = j /\ k.occ = o) => rec[j][o] = row[j][o]
  <2>1. row[j] \in [Occurrences -> Rows] /\ row \in [Jobs -> [Occurrences -> Rows]]
    BY DEF TypeOK
  <2>2. row[j][o] \in Rows
    BY <2>1
  <2>3. CASE Mine(w)
    <3>1. rec = [row EXCEPT ![k.job][k.occ].status = k.outcome]
      BY <2>3 DEF Recorded
    <3>2. CASE k.job = j /\ k.occ = o
      <4>1. rec[j][o] = [row[j][o] EXCEPT !.status = k.outcome]
        BY <1>1, <2>1, <3>1, <3>2
      <4> QED
        BY <2>2, <2>3, <3>2, <4>1 DEF Rows, Mine
    <3>3. CASE ~ (k.job = j /\ k.occ = o)
      BY <1>1, <2>1, <3>1, <3>3
    <3> QED
      BY <3>2, <3>3
  <2>4. CASE ~ Mine(w)
    BY <2>4 DEF Recorded
  <2> QED
    BY <2>3, <2>4
<1>3. \/ row'[j][o] = rec[j][o]
      \/ row'[j][o] = NoRow /\ rec[j][o].status # "NONE" /\ rec[j][o].startedAt + Retention < now
  BY DEF Finish, Trimmed
<1>4. row[j][o].status # "NONE" => row[j][o].lease = row[j][o].startedAt + Lease
  BY DEF RowTimes
<1>5. row[j][o].startedAt \in Nat /\ now \in Nat /\ Lease <= Retention /\ Lease \in Nat /\ Retention \in Nat
  BY RowTyped, JobsAssumption
<1> HIDE DEF rec, k
<1> QED
  BY <1>1, <1>2, <1>3, <1>4, <1>5 DEF NoRow, k

LEMMA FinishInv == ASSUME IInv, NEW w \in Workers, Finish(w) PROVE IInv'
<1> USE DEF IInv
<1>1. TypeOK'
  BY TypeInductive DEF Next
<1>2. UNCHANGED <<now, fired, requests, manualSeq, started>> /\ worker' = [worker EXCEPT ![w] = Idle]
  BY DEF Finish
<1>3. Active' = Active \ {w} /\ w \in Active /\ \A v \in Active' : worker'[v] = worker[v]
  BY <1>2 DEF Finish, Active, TypeOK, Idle
<1>4. OneRunningRow' /\ OccurrenceRunsOnce' /\ FreshManual' /\ RequestTimes'
  BY <1>2, FinishRows DEF OneRunningRow, OccurrenceRunsOnce, FreshManual, RequestTimes
<1>5. RowTimes'
  BY <1>2, FinishRows DEF RowTimes
<1>6. Forgotten'
  <2>1. \A j \in Jobs : \A o \in Occurrences :
          o.trigger = "scheduler" /\ started[j][o] = 1 /\ row'[j][o].status = "NONE" =>
            o.n + Retention < now
    <3>1. SUFFICES ASSUME NEW j \in Jobs, NEW o \in Occurrences, o.trigger = "scheduler",
                          started[j][o] = 1, row'[j][o].status = "NONE"
                   PROVE  o.n + Retention < now
      OBVIOUS
    <3>2. CASE row[j][o].status = "NONE"
      BY <3>1, <3>2 DEF Forgotten
    <3>3. CASE row[j][o].status # "NONE"
      <4>1. row[j][o].startedAt + Retention < now
        BY <3>1, <3>3, FinishRows
      <4>2. o.n <= row[j][o].startedAt
        BY <3>1, <3>3 DEF RowTimes
      <4> QED
        BY <4>1, <4>2, RowTyped, OccurrenceTyped, JobsAssumption
    <3> QED
      BY <3>2, <3>3
  <2> QED
    BY <1>2, <2>1 DEF Forgotten
<1>7. SlotTimes' /\ OwnKey'
  BY <1>2, <1>3 DEF SlotTimes, OwnKey
<1>8. LeaseHolds'
  <2>1. SUFFICES ASSUME NEW v \in Active, v # w, now <= worker[v].lease
                 PROVE  /\ row'[worker[v].job][worker[v].occ].status = "RUNNING"
                        /\ row'[worker[v].job][worker[v].occ].startedAt = worker[v].startedAt
    BY <1>2, <1>3 DEF LeaseHolds
  <2>2. worker[v].job \in Jobs /\ worker[v].occ \in Occurrences
    BY ActiveSlot DEF Active
  <2>3. ~ (worker[w].job = worker[v].job /\ worker[w].occ = worker[v].occ)
    BY <1>3, <2>1 DEF OwnKey
  <2>4. /\ row[worker[v].job][worker[v].occ].status = "RUNNING"
        /\ row[worker[v].job][worker[v].occ].startedAt = worker[v].startedAt
        /\ row[worker[v].job][worker[v].occ].lease = worker[v].lease
    BY <2>1, <2>2 DEF LeaseHolds, RowTimes, SlotTimes
  <2> QED
    BY <2>1, <2>2, <2>3, <2>4, FinishRows
<1> QED
  BY <1>1, <1>4, <1>5, <1>6, <1>7, <1>8

\* A worker stops without writing: its outcome is lost, or its replica crashed.
LEMMA StopInv ==
  ASSUME IInv, \/ \E w \in Workers : FinishLost(w)
               \/ \E r \in Replicas : Crash(r)
  PROVE  IInv'
<1> USE DEF IInv
<1>1. TypeOK'
  BY TypeInductive DEF Next
<1>2. UNCHANGED <<now, requests, manualSeq, row, started>>
  BY DEF FinishLost, Crash
<1>3. Active' \subseteq Active /\ \A v \in Active' : worker'[v] = worker[v]
  BY DEF FinishLost, Crash, Active, TypeOK, Idle
<1>4. SlotTimes' /\ OwnKey' /\ LeaseHolds'
  BY <1>2, <1>3 DEF SlotTimes, OwnKey, LeaseHolds
<1> QED
  BY <1>1, <1>2, <1>4 DEF OneRunningRow, OccurrenceRunsOnce, RowTimes, Forgotten,
     RequestTimes, FreshManual

LEMMA NextInv == IInv /\ [Next]_vars => IInv'
<1> SUFFICES ASSUME IInv, [Next]_vars PROVE IInv'
  OBVIOUS
<1>1. CASE Tick
  BY <1>1, TickInv
<1>2. CASE \/ \E r \in Replicas : Fire(r)
           \/ \E j \in Jobs, r \in Replicas : RunManually(j, r)
           \/ \E q \in requests : Drop(q)
  BY <1>2, RequestInv
<1>3. ASSUME NEW w \in Workers, NEW q \in requests, Claim(w, q) PROVE IInv'
  BY <1>3, RefusedInv, GrantedInv
<1>4. ASSUME NEW w \in Workers, Return(w) PROVE IInv'
  BY <1>4, ReturnInv
<1>5. ASSUME NEW w \in Workers, Finish(w) PROVE IInv'
  BY <1>5, FinishInv
<1>6. CASE (\E w \in Workers : FinishLost(w)) \/ (\E r \in Replicas : Crash(r))
  BY <1>6, StopInv
<1>7. CASE UNCHANGED vars
  BY <1>7 DEF vars, IInv, TypeOK, OneRunningRow, OccurrenceRunsOnce, RowTimes, Forgotten,
     RequestTimes, FreshManual, SlotTimes, OwnKey, LeaseHolds, Active
<1> QED
  BY <1>1, <1>2, <1>3, <1>4, <1>5, <1>6, <1>7 DEF Next

-----------------------------------------------------------------------------
(* The theorems. *)

\* Every state of JobRuns satisfies the inductive invariant.
THEOREM Invariance == Spec => []IInv
  BY InitInv, NextInv, PTL DEF Spec

\* The variables keep their types.
THEOREM TypeCorrect == Spec => []TypeOK
<1>1. IInv => TypeOK
  BY DEF IInv
<1> QED
  BY <1>1, Invariance, PTL

\* job_runs never shows two RUNNING rows of one job and scope (claimRun).
THEOREM MutualExclusionOfRows == Spec => []OneRunningRow
<1>1. IInv => OneRunningRow
  BY DEF IInv
<1> QED
  BY <1>1, Invariance, PTL

\* However many replicas fire a tick, and however often they reboot, the
\* handler of an occurrence is started at most once (claimRun's unique key).
THEOREM OccurrencesRunOnce == Spec => []OccurrenceRunsOnce
<1>1. IInv => OccurrenceRunsOnce
  BY DEF IInv
<1> QED
  BY <1>1, Invariance, PTL

\* Two handlers of one job are at work together only when a lease has passed.
THEOREM OverlapIsLate == Spec => []OverlapNeedsExpiredLease
<1>1. ASSUME IInv PROVE OverlapNeedsExpiredLease
  <2>1. SUFFICES ASSUME NEW v \in Active, NEW w \in Active, worker[v].job = worker[w].job,
                        now <= worker[v].lease, now <= worker[w].lease
                 PROVE  v = w
    <3>1. \A x \in Active : worker[x].lease \in Nat /\ now \in Nat
      BY <1>1, ActiveSlot DEF Active, IInv, TypeOK
    <3> QED
      BY <3>1 DEF OverlapNeedsExpiredLease
  <2>2. /\ worker[v].job \in Jobs /\ worker[v].occ \in Occurrences
        /\ worker[w].job \in Jobs /\ worker[w].occ \in Occurrences
    BY <1>1, ActiveSlot DEF Active, IInv
  <2>3. worker[v].occ = worker[w].occ
    BY <1>1, <2>1, <2>2 DEF IInv, LeaseHolds, OneRunningRow
  <2> QED
    BY <1>1, <2>1, <2>3 DEF IInv, OwnKey
<1> QED
  BY <1>1, Invariance, PTL

\* A finished or abandoned run keeps its outcome (finishRun's status guard).
THEOREM OutcomesAreFinal == Spec => OutcomeIsFinal
<1> DEFINE Keeps == \A j \in Jobs : \A o \in Occurrences :
                      row[j][o].status \in {"SUCCEEDED", "FAILED"} =>
                        row'[j][o].status \in {row[j][o].status, "NONE"}
<1>1. ASSUME IInv, [Next]_vars PROVE [Keeps]_vars
  <2>1. ASSUME NEW w \in Workers, NEW q \in requests, Claim(w, q) PROVE Keeps
    <3>1. q.job \in Jobs /\ q.occ \in Occurrences /\ row \in [Jobs -> [Occurrences -> Rows]]
      BY <1>1 DEF IInv, TypeOK, Requests
    <3>2. CASE Claimable(CloseExpired(q.job), q.occ)
      <4>1. row[q.job][q.occ].status = "NONE"
        BY <1>1, <2>1, <3>2, ClaimedKeyIsNew
      <4>2. row' = [row EXCEPT ![q.job] = [CloseExpired(q.job) EXCEPT ![q.occ] = NewRow(w)]]
        BY <2>1, <3>2 DEF Claim
      <4> QED
        BY <1>1, <3>1, <4>1, <4>2, Closed DEF IInv
    <3>3. CASE ~ Claimable(CloseExpired(q.job), q.occ)
      <4>1. row' = [row EXCEPT ![q.job] = CloseExpired(q.job)]
        BY <2>1, <3>3 DEF Claim
      <4> QED
        BY <1>1, <3>1, <4>1, Closed DEF IInv
    <3> QED
      BY <3>2, <3>3
  <2>2. ASSUME NEW w \in Workers, Finish(w) PROVE Keeps
    BY <1>1, <2>2, FinishRows
  <2>3. CASE UNCHANGED row
    BY <2>3
  <2>4. \/ \E w \in Workers, q \in requests : Claim(w, q)
        \/ \E w \in Workers : Finish(w)
        \/ UNCHANGED row
    BY <1>1 DEF Next, Tick, Fire, RunManually, Drop, Return, FinishLost, Crash, vars
  <2> HIDE DEF Keeps
  <2> QED
    BY <2>1, <2>2, <2>3, <2>4
<1> QED
  BY <1>1, Invariance, PTL DEF Spec, OutcomeIsFinal

=============================================================================
