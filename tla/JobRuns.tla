------------------------------ MODULE JobRuns ------------------------------
(***************************************************************************)
(* Durable job-run claims: src/src/lib/jobs/job-runs.ts, the scheduler     *)
(* that fires the jobs (scheduler.ts, in every web replica) and the route  *)
(* that runs them (app/api/jobs/run/route.ts).                             *)
(*                                                                         *)
(* One step of the clock is one minute, the scheduler's unit.  A "job" is  *)
(* one (job_name, scope) pair: claims of different pairs never meet, they  *)
(* hold different advisory locks and touch different rows.                 *)
(*                                                                         *)
(* claimRun is one transaction serialised by the pair's advisory lock, so  *)
(* it is one action.  Nothing stops a handler when its lease ends: a       *)
(* worker returns whenever it likes.                                       *)
(***************************************************************************)
EXTENDS Integers, FiniteSets

CONSTANTS
  Jobs,         \* (job_name, scope) pairs
  Replicas,     \* web processes; each runs the scheduler and serves requests
  NoOwner,      \* the owner of no row
  Workers,      \* request slots of the replicas
  ReplicaOf,    \* the replica each request slot belongs to
  Period,       \* job -> its cron period in minutes
  Lease,        \* leaseSecondsFor(maxDurationSec), in minutes
  Retention,    \* how long job_runs keeps history (30 days in the code)
  MaxDelay,     \* longest a request for a tick stays in flight
  MaxTime,      \* bound on the clock
  MaxManual     \* bound on ad-hoc runs

ASSUME JobsAssumption ==
  /\ ReplicaOf \in [Workers -> Replicas]
  /\ Period \in [Jobs -> Nat \ {0}]
  /\ Lease \in Nat \ {0}
  /\ Retention \in Nat
  /\ MaxDelay \in Nat
  /\ MaxTime \in Nat
  /\ MaxManual \in Nat
  /\ Lease <= Retention
  /\ MaxDelay <= Retention

VARIABLES
  now,        \* the database clock
  fired,      \* lastCheckedMinute of each replica's scheduler, -1 after a boot
  requests,   \* POST /api/jobs/run calls in flight
  manualSeq,  \* ad-hoc occurrences drawn so far (randomUUID in the code)
  row,        \* job_runs, by its unique key (job, occurrence)
  worker,     \* what each request slot is doing
  started     \* history: handlers started for each (job, occurrence)

vars == <<now, fired, requests, manualSeq, row, worker, started>>

-----------------------------------------------------------------------------

Scheduled(m) == [trigger |-> "scheduler", n |-> m]
Manual(k)    == [trigger |-> "manual", n |-> k]

Occurrences == [trigger : {"scheduler"}, n : 0..MaxTime]
                 \cup [trigger : {"manual"}, n : 1..MaxManual]

Requests == [job : Jobs, occ : Occurrences, from : Replicas]

Statuses == {"NONE", "RUNNING", "SUCCEEDED", "FAILED"}
Rows     == [status : Statuses, owner : Replicas \cup {NoOwner}, startedAt : Nat, lease : Nat]

\* A slot: idle, running the job's handler, or about to record its outcome.
Slots == [pc : {"idle"}]
           \cup [pc : {"handling"}, job : Jobs, occ : Occurrences,
                 startedAt : Nat, lease : Nat]
           \cup [pc : {"finishing"}, job : Jobs, occ : Occurrences,
                 startedAt : Nat, lease : Nat, outcome : {"SUCCEEDED", "FAILED"}]

Idle   == [pc |-> "idle"]
Active == {w \in Workers : worker[w].pc # "idle"}

\* A key no run has claimed, or whose row the history trim has removed.
NoRow == [status |-> "NONE", owner |-> NoOwner, startedAt |-> 0, lease |-> 0]

Init ==
  /\ now = 0
  /\ fired = [r \in Replicas |-> -1]
  /\ requests = {}
  /\ manualSeq = 0
  /\ row = [j \in Jobs |-> [o \in Occurrences |-> NoRow]]
  /\ worker = [w \in Workers |-> Idle]
  /\ started = [j \in Jobs |-> [o \in Occurrences |-> 0]]

-----------------------------------------------------------------------------
(* The scheduler and the callers of POST /api/jobs/run. *)

Tick ==
  /\ now < MaxTime
  /\ now' = now + 1
  /\ UNCHANGED <<fired, requests, manualSeq, row, worker, started>>

isCronDue(j, minute) == minute % Period[j] = 0

\* One evaluation of the 15-second interval: once per minute per replica, a
\* request for every job that is due.  A rebooted replica may repeat a minute.
Fire(r) ==
  /\ fired[r] # now
  /\ fired' = [fired EXCEPT ![r] = now]
  /\ requests' = requests \cup
       {[job |-> j, occ |-> Scheduled(now), from |-> r] : j \in {j \in Jobs : isCronDue(j, now)}}
  /\ UNCHANGED <<now, manualSeq, row, worker, started>>

\* An operator or an external caller: the run is an occurrence of its own.
RunManually(j, r) ==
  /\ manualSeq < MaxManual
  /\ manualSeq' = manualSeq + 1
  /\ requests' = requests \cup {[job |-> j, occ |-> Manual(manualSeq + 1), from |-> r]}
  /\ UNCHANGED <<now, fired, row, worker, started>>

\* The request is lost, or its claim cannot be recorded (503, not run).
Drop(q) ==
  /\ q \in requests
  /\ requests' = requests \ {q}
  /\ UNCHANGED <<now, fired, manualSeq, row, worker, started>>

\* A request reaches a server only while its sender still waits for it.
Deliverable(q) ==
  q.occ.trigger = "scheduler" => now <= q.occ.n + MaxDelay

-----------------------------------------------------------------------------
(* claimRun and finishRun. *)

\* Mutant of CloseExpired: the lease is not looked at.
CloseAll(j) ==
  [o \in Occurrences |->
     IF row[j][o].status = "RUNNING" THEN [row[j][o] EXCEPT !.status = "FAILED"] ELSE row[j][o]]

\* UPDATE ... SET status = 'FAILED' WHERE ... lease_expires_at < NOW()
CloseExpired(j) ==
  [o \in Occurrences |->
     IF row[j][o].status = "RUNNING" /\ row[j][o].lease < now
     THEN [row[j][o] EXCEPT !.status = "FAILED"]
     ELSE row[j][o]]

\* Mutants of Claimable: step 2 of claimRun left out, step 3's conflict left out.
ClaimableWhileRunning(rows, o) == rows[o].status = "NONE"
ClaimableAgain(rows, o) == \A p \in Occurrences : rows[p].status # "RUNNING"

\* The claim succeeds: no live RUNNING row, and ON CONFLICT met no row.
Claimable(rows, o) ==
  /\ \A p \in Occurrences : rows[p].status # "RUNNING"
  /\ rows[o].status = "NONE"

\* Mutant of NewRow: the lease is laid into the past.
NewRowBackdated(w) ==
  [status |-> "RUNNING", owner |-> ReplicaOf[w], startedAt |-> now, lease |-> now - Lease]

NewRow(w) ==
  [status |-> "RUNNING", owner |-> ReplicaOf[w], startedAt |-> now, lease |-> now + Lease]

\* claimRun, and the start of the handler when the run is claimed.
Claim(w, q) ==
  LET closed == CloseExpired(q.job)
      ok     == Claimable(closed, q.occ)
  IN
  /\ worker[w].pc = "idle"
  /\ q \in requests
  /\ Deliverable(q)
  /\ requests' = requests \ {q}
  /\ row' = [row EXCEPT ![q.job] = IF ok THEN [closed EXCEPT ![q.occ] = NewRow(w)] ELSE closed]
  /\ worker' = IF ok
               THEN [worker EXCEPT ![w] = [pc |-> "handling", job |-> q.job, occ |-> q.occ,
                                           startedAt |-> now, lease |-> now + Lease]]
               ELSE worker
  /\ started' = IF ok THEN [started EXCEPT ![q.job][q.occ] = @ + 1] ELSE started
  /\ UNCHANGED <<now, fired, manualSeq>>

\* The handler returns a result or throws.
Return(w) ==
  /\ worker[w].pc = "handling"
  /\ \E s \in {"SUCCEEDED", "FAILED"} :
       worker' = [worker EXCEPT ![w] =
                    [pc |-> "finishing", job |-> @.job, occ |-> @.occ,
                     startedAt |-> @.startedAt, lease |-> @.lease, outcome |-> s]]
  /\ UNCHANGED <<now, fired, requests, manualSeq, row, started>>

\* Mutant of Mine: WHERE id = $1 AND owner = $6, without the status.
MineWhateverStatus(w) ==
  LET k == worker[w] IN
  /\ row[k.job][k.occ].owner = ReplicaOf[w]
  /\ row[k.job][k.occ].startedAt = k.startedAt

\* The row this worker claimed, still its own and still RUNNING.  A row is
\* known by its id; a key is reused only after Retention, so the key and the
\* start time stand for it.
Mine(w) ==
  LET k == worker[w] IN
  /\ row[k.job][k.occ].status = "RUNNING"
  /\ row[k.job][k.occ].owner = ReplicaOf[w]
  /\ row[k.job][k.occ].startedAt = k.startedAt

Recorded(w) ==
  IF Mine(w) THEN [row EXCEPT ![worker[w].job][worker[w].occ].status = worker[w].outcome]
             ELSE row

\* DELETE FROM job_runs WHERE started_at < NOW() - INTERVAL '30 days'
Trimmed(rows) ==
  [j \in Jobs |-> [o \in Occurrences |->
     IF rows[j][o].status # "NONE" /\ rows[j][o].startedAt + Retention < now
     THEN NoRow
     ELSE rows[j][o]]]

\* finishRun: record the outcome, now and then trim old history.
Finish(w) ==
  /\ worker[w].pc = "finishing"
  /\ \E trim \in BOOLEAN : row' = IF trim THEN Trimmed(Recorded(w)) ELSE Recorded(w)
  /\ worker' = [worker EXCEPT ![w] = Idle]
  /\ UNCHANGED <<now, fired, requests, manualSeq, started>>

\* finishRun's error is caught and logged: the row stays as it is.
FinishLost(w) ==
  /\ worker[w].pc = "finishing"
  /\ worker' = [worker EXCEPT ![w] = Idle]
  /\ UNCHANGED <<now, fired, requests, manualSeq, row, started>>

-----------------------------------------------------------------------------
(* A replica stops (crash, redeploy) and boots again under a new owner id.  *)
(* While it is down it takes no step, so the stop and the boot are one.     *)

Crash(r) ==
  /\ fired' = [fired EXCEPT ![r] = -1]
  /\ worker' = [w \in Workers |-> IF ReplicaOf[w] = r THEN Idle ELSE worker[w]]
  /\ UNCHANGED <<now, requests, manualSeq, row, started>>

Next ==
  \/ Tick
  \/ \E r \in Replicas : Fire(r) \/ Crash(r)
  \/ \E j \in Jobs, r \in Replicas : RunManually(j, r)
  \/ \E q \in requests : Drop(q)
  \/ \E w \in Workers, q \in requests : Claim(w, q)
  \/ \E w \in Workers : Return(w) \/ Finish(w) \/ FinishLost(w)

Spec == Init /\ [][Next]_vars

-----------------------------------------------------------------------------

\* Every variable has its type (the shapes of job_runs and of a run request).
TypeOK ==
  /\ now \in 0..MaxTime
  /\ fired \in [Replicas -> -1..MaxTime]
  /\ requests \subseteq Requests
  /\ manualSeq \in 0..MaxManual
  /\ row \in [Jobs -> [Occurrences -> Rows]]
  /\ worker \in [Workers -> Slots]
  /\ started \in [Jobs -> [Occurrences -> Nat]]

\* At most one run of a job is RUNNING in job_runs (steps 1 and 2 of claimRun).
OneRunningRow ==
  \A j \in Jobs : \A o, p \in Occurrences :
    row[j][o].status = "RUNNING" /\ row[j][p].status = "RUNNING" => o = p

\* Replicas that fire the same tick, retries and reboots included, produce one
\* run: no occurrence's handler is started twice, even after its row is trimmed.
OccurrenceRunsOnce ==
  \A j \in Jobs : \A o \in Occurrences : started[j][o] <= 1

\* What the lease really guarantees about overlap: when two handlers of one job
\* are at work together, the lease of at least one of them has run out.
OverlapNeedsExpiredLease ==
  \A v, w \in Active :
    v # w /\ worker[v].job = worker[w].job => worker[v].lease < now \/ worker[w].lease < now

\* The outcome of a run is written once: a row that finished, or was closed as
\* abandoned, is never changed by the worker that comes back late; it can only
\* leave with the history trim.
OutcomeIsFinal ==
  [][\A j \in Jobs : \A o \in Occurrences :
       row[j][o].status \in {"SUCCEEDED", "FAILED"} =>
         row'[j][o].status \in {row[j][o].status, "NONE"}]_vars

=============================================================================
