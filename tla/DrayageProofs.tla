--------------------------- MODULE DrayageProofs ---------------------------
(***************************************************************************)
(* Theorems about DrayageJobs, for any number of operations in flight: its *)
(* types, one return for a container, and what a closed delivery, an       *)
(* assigned tractor and the trailer of a return can count on.              *)
(***************************************************************************)
EXTENDS DrayageJobs, TLAPS

\* What a pending write is sure of, however old it is.
Sound(w) ==
  /\ w.step = "update" => w.status \in Statuses
  /\ w.step = "assign" => w.status \in {"ASSIGNED", "RE_ASSIGNED"}
  /\ w.step \in {"sweep", "load"} => w.status \in Directional
  /\ w.step = "return" => w.status \in {"ASSIGNED", "COMPLETED"}
  /\ w.step \in {"return", "repair"} => returns = 1
  /\ w.step = "update" /\ w.status = "COMPLETED" => w.activate \/ l1.activated

\* What a pending write is sure of while it is not behind.
Fresh(w) ==
  ~ w.behind =>
    /\ w.step = "update" /\ l1.status = "COMPLETED" => ~ Reopening(w.status, w.detached)
    /\ w.step \in {"sweep", "load"} => l1.status \in Waiting

Rows ==
  /\ l1 \in Jobs
  /\ returns \in Nat
  /\ l2 \in L2Statuses
  /\ trailer \in Trailers
  /\ OneReturnJob

Pending ==
  /\ call \in [Callers -> Calls]
  /\ \A c \in Callers : Sound(call[c]) /\ Fresh(call[c])

IInv == Rows /\ Pending

\* Nothing takes an activation back.
Grown == (l1.activated => l1'.activated) /\ (returns = 1 => returns' = 1)

-----------------------------------------------------------------------------
(* The calls. *)

LEMMA IdleLemma == Idle \in Calls /\ Sound(Idle) /\ Fresh(Idle)
BY DEF Idle, Calls, Steps, Statuses, L2Statuses, Places, Etcs, Sound, Fresh

\* A call that begins is as sure as what it read.
LEMMA BeginLemma ==
  ASSUME IInv, UNCHANGED <<l1, returns>>, NEW c \in Callers, NEW w \in Calls, Sound(w), Fresh(w),
         call' = [call EXCEPT ![c] = w]
  PROVE  Pending'
<1>1. call' \in [Callers -> Calls]
  BY DEF IInv, Pending
<1>2. ASSUME NEW d \in Callers
      PROVE  Sound(call[d])' /\ Fresh(call[d])'
  <2>1. call'[d] = IF d = c THEN w ELSE call[d]
    BY DEF IInv, Pending
  <2>2. Sound(call'[d]) /\ Fresh(call'[d])
    BY <2>1 DEF IInv, Pending
  <2>3. QED
    BY <2>2 DEF Sound, Fresh
<1>3. QED
  BY <1>1, <1>2 DEF Pending

\* A call that was overtaken is behind, unless the job is as it was.
LEMMA OvertakenLemma ==
  ASSUME IInv, Grown, NEW d \in Callers, call'[d] = Overtaken(d)
  PROVE  call'[d] \in Calls /\ Sound(call[d])' /\ Fresh(call[d])'
<1> DEFINE w == call[d]
           b == w.step \notin {"idle", "return"} /\ (w.behind \/ l1' # l1)
<1>1. w \in Calls /\ Sound(w) /\ Fresh(w)
  BY DEF IInv, Pending
<1>2. call'[d] = [w EXCEPT !.behind = b]
  BY DEF Overtaken
<1>3. b \in BOOLEAN
  OBVIOUS
<1> HIDE DEF b
<1>4. call'[d] \in Calls
  BY <1>1, <1>2, <1>3 DEF Calls
<1>5. /\ call'[d].step = w.step /\ call'[d].status = w.status /\ call'[d].detached = w.detached
      /\ call'[d].activate = w.activate /\ call'[d].behind = b
  BY <1>1, <1>2 DEF Calls
<1> HIDE DEF w
<1>6. Sound(call[d])'
  BY <1>1, <1>5 DEF Sound, Grown
<1>7. Fresh(call[d])'
  <2>1. CASE ~ b /\ w.step \in {"update", "sweep", "load"}
    <3>1. ~ w.behind /\ l1' = l1
      BY <2>1 DEF b
    <3>2. QED
      BY <1>1, <1>5, <3>1 DEF Fresh
  <2>2. CASE b \/ w.step \notin {"update", "sweep", "load"}
    BY <1>5, <2>2 DEF Fresh
  <2>3. QED
    BY <2>1, <2>2
<1>8. QED
  BY <1>4, <1>6, <1>7

\* A commit leaves every call sure of what it says.
LEMMA WrittenLemma ==
  ASSUME IInv, Grown, NEW c \in Callers, WrittenBy(c)
  PROVE  Pending'
<1>1. ASSUME NEW d \in Callers
      PROVE  call'[d] \in Calls /\ Sound(call[d])' /\ Fresh(call[d])'
  <2>1. CASE d = c
    <3>1. call'[d] = Idle
      BY <2>1 DEF WrittenBy
    <3>2. QED
      BY <3>1, IdleLemma DEF Sound, Fresh, Idle
  <2>2. CASE d # c
    <3>1. call'[d] = Overtaken(d)
      BY <2>2 DEF WrittenBy
    <3>2. QED
      BY <3>1, OvertakenLemma
  <2>3. QED
    BY <2>1, <2>2
<1>2. call' \in [Callers -> Calls]
  BY <1>1 DEF WrittenBy
<1>3. QED
  BY <1>1, <1>2 DEF Pending

\* So does a commit of a call that reads and writes at once.
LEMMA AllOvertakenLemma ==
  ASSUME IInv, Grown, call' = [d \in Callers |-> Overtaken(d)]
  PROVE  Pending'
<1>1. ASSUME NEW d \in Callers
      PROVE  call'[d] \in Calls /\ Sound(call[d])' /\ Fresh(call[d])'
  BY OvertakenLemma
<1>2. call' \in [Callers -> Calls]
  BY <1>1
<1>3. QED
  BY <1>1, <1>2 DEF Pending

-----------------------------------------------------------------------------
(* The rows. *)

\* A claim makes the one return and closes the delivery.
LEMMA ClaimLemma ==
  ASSUME IInv, NEW j \in Jobs, NEW t \in Trailers, j.activated = l1.activated, Claim(j, t)
  PROVE  Rows' /\ Grown
<1>1. returns = 0
  BY DEF IInv, Rows, OneReturnJob, Claim, Unclaimed
<1>2. l1' \in Jobs /\ l1'.activated /\ l1'.status = "COMPLETED"
  BY DEF Claim, Closed, Jobs, Statuses
<1>3. returns' = 1 /\ l2' \in L2Statuses \ {"NONE"} /\ trailer' \in Trailers
  BY <1>1 DEF Claim, L2Statuses, Trailers
<1>4. QED
  BY <1>2, <1>3 DEF Rows, OneReturnJob, Grown

\* Closing again a delivery whose return exists changes nothing else.
LEMMA RepairLemma ==
  ASSUME IInv, NEW j \in Jobs, NEW t \in Trailers, returns = 1, Repair(j, t)
  PROVE  Rows' /\ Grown
<1>1. l1' \in Jobs /\ l1'.activated
  BY DEF Repair, Closed, Jobs, Statuses
<1>2. returns' = 1 /\ l2' = l2 /\ trailer' \in Trailers
  BY DEF Repair
<1>3. QED
  BY <1>1, <1>2 DEF IInv, Rows, OneReturnJob, Grown

\* A write of the job that does not close it without its return.
LEMMA JobLemma ==
  ASSUME IInv, l1' \in Jobs, l1'.activated = l1.activated, l1'.status = "COMPLETED" => l1.activated,
         trailer' \in Trailers, UNCHANGED <<returns, l2>>
  PROVE  Rows' /\ Grown
BY DEF IInv, Rows, OneReturnJob, Grown

\* Activation closes a completed delivery, or finds it closed.
LEMMA ActivateLemma ==
  ASSUME IInv, NEW j \in Jobs, NEW t \in Trailers, j.activated = l1.activated, Activate(j, t)
  PROVE  Rows' /\ Grown
<1>1. CASE returns > 0
  <2>1. returns = 1
    BY <1>1 DEF IInv, Rows, OneReturnJob
  <2>2. QED
    BY <1>1, <2>1, RepairLemma DEF Activate
<1>2. CASE ~ returns > 0 /\ Returnable(j)
  BY <1>2, ClaimLemma DEF Activate
<1>3. CASE ~ returns > 0 /\ ~ Returnable(j)
  <2>1. l1' = j /\ trailer' = t /\ UNCHANGED <<returns, l2>>
    BY <1>3 DEF Activate
  <2>2. ~ l1.activated
    BY <1>3 DEF IInv, Rows, OneReturnJob
  <2>3. j.status # "COMPLETED"
    <3>1. CASE j.status = "COMPLETED"
      <4>1. Stage(j.status, j.detached) = 4
        BY <3>1 DEF Stage, RampStatuses, YardStatuses
      <4>2. ~ InitialYardDrop(j)
        BY <3>1 DEF InitialYardDrop
      <4>3. QED
        BY <1>3, <2>2, <4>1, <4>2 DEF Returnable
    <3>2. QED
      BY <3>1
  <2>4. QED
    BY <2>1, <2>3, JobLemma
<1>4. QED
  BY <1>1, <1>2, <1>3

-----------------------------------------------------------------------------
(* What a status update decides. *)

LEMMA RequestLemma ==
  ASSUME NEW r \in Requests
  PROVE  /\ r.status \in Statuses /\ r.detach \in {"NO", "YES", "KEPT"}
         /\ r.place \in {"KEPT", "RAMP", "YARD"} /\ r.etc \in {"KEPT", "AHEAD"}
BY DEF Requests, Statuses, RampStatuses, YardStatuses, Detachings, Directional

\* What is asked has its type; unless a detach changes it, it is as asked.
LEMMA AskedLemma ==
  ASSUME NEW j \in Jobs, NEW r \in Requests
  PROVE  /\ Asked(j, r) \in [status : Statuses, placement : Places, detached : BOOLEAN]
         /\ \/ Asked(j, r).status \in {"READY_FOR_PICKUP", "TO_RAMP"}
            \/ IsDetach(j, r) /\ Asked(j, r).status = r.status /\ Asked(j, r).detached
            \/ /\ ~ IsDetach(j, r)
               /\ Asked(j, r).status = r.status /\ Asked(j, r).detached = AskedDetached(j, r)
<1> DEFINE p == AskedPlace(j, r)
<1>1. p \in Places
  BY RequestLemma DEF AskedPlace, Jobs, Places
<1>2. AskedDetached(j, r) \in BOOLEAN
  BY RequestLemma DEF AskedDetached, Jobs
<1>3. r.status \in Statuses /\ {"READY_FOR_PICKUP", "TO_RAMP"} \subseteq Statuses
  BY RequestLemma DEF Statuses, Directional
<1> HIDE DEF p
<1>4. CASE ~ IsDetach(j, r)
  BY <1>1, <1>2, <1>3, <1>4 DEF Asked, p
<1>5. CASE IsDetach(j, r) /\ ReassignYardDrop(j, r)
  BY <1>1, <1>3, <1>5 DEF Asked, p, Places
<1>6. CASE IsDetach(j, r) /\ ~ ReassignYardDrop(j, r) /\ FirstYardDrop(j, r)
  BY <1>1, <1>3, <1>6 DEF Asked, p, Places
<1>7. CASE IsDetach(j, r) /\ ~ ReassignYardDrop(j, r) /\ ~ FirstYardDrop(j, r)
  BY <1>1, <1>3, <1>7 DEF Asked, p, Places
<1>8. QED
  BY <1>4, <1>5, <1>6, <1>7

\* A report that is in order does not reopen a closed delivery.
LEMMA InOrderLemma ==
  ASSUME NEW j \in Jobs, NEW r \in Requests, j.status = "COMPLETED", InOrder(j, r)
  PROVE  ~ Reopening(Asked(j, r).status, Asked(j, r).detached)
<1>1. Stage(j.status, j.detached) = 4
  BY DEF Stage, RampStatuses, YardStatuses
<1>2. j.status \notin Directional \cup Detachings \cup {"RE_ASSIGNED"}
  BY DEF Directional, Detachings
<1>3. CASE r.status \in {"UNDER_WAY", "PLACED_AT_RAMP", "PLACED_AT_YARD"}
  <2>1. Stage(r.status, AskedDetached(j, r)) >= 4
    BY <1>1, <1>2, <1>3 DEF InOrder, Exempt
  <2>2. r.status # "UNDER_WAY" /\ AskedDetached(j, r)
    BY <1>3, <2>1 DEF Stage, RampStatuses, YardStatuses
  <2>3. QED
    BY <2>2, AskedLemma DEF Reopening
<1>4. CASE r.status \notin {"UNDER_WAY", "PLACED_AT_RAMP", "PLACED_AT_YARD"}
  BY <1>4, AskedLemma DEF Reopening
<1>5. QED
  BY <1>3, <1>4

LEMMA NextEtcLemma ==
  ASSUME NEW j \in Jobs, NEW r \in Requests, NEW a
  PROVE  NextEtc(j, r, a) \in Etcs
BY RequestLemma DEF NextEtc, Jobs, Etcs

-----------------------------------------------------------------------------
(* The steps. *)

LEMMA UpdateReadStep ==
  ASSUME IInv, NEW c \in Callers, UpdateRead(c)
  PROVE  IInv'
<1>1. PICK r \in Requests, soon \in BOOLEAN :
        LET a0  == Asked(l1, r)
            etc == NextEtc(l1, r, a0)
            a   == IF ToYard(a0, etc, soon)
                   THEN [a0 EXCEPT !.status = "TO_YARD", !.placement = "RAMP"] ELSE a0
        IN /\ InOrder(l1, r)
           /\ Begin(c, [step |-> "update", status |-> a.status, detached |-> a.detached,
                        placement |-> a.placement, etc |-> etc,
                        activate |-> /\ ~ l1.activated
                                     /\ a.status \in Activating
                                     /\ ~ WaitsForEtc(l1, r, a, etc),
                        behind |-> FALSE])
           /\ UNCHANGED <<l1, returns, l2, trailer>>
  BY ZenonT(60) DEF UpdateRead
<1> DEFINE a0  == Asked(l1, r)
           etc == NextEtc(l1, r, a0)
           a   == IF ToYard(a0, etc, soon)
                  THEN [a0 EXCEPT !.status = "TO_YARD", !.placement = "RAMP"] ELSE a0
           act == ~ l1.activated /\ a.status \in Activating /\ ~ WaitsForEtc(l1, r, a, etc)
           w == [step |-> "update", status |-> a.status, detached |-> a.detached,
                 placement |-> a.placement, etc |-> etc, activate |-> act, behind |-> FALSE]
<1>2. l1 \in Jobs
  BY DEF IInv, Rows
<1>3. /\ a \in [status : Statuses, placement : Places, detached : BOOLEAN]
      /\ a = a0 \/ a.status = "TO_YARD"
  BY <1>2, AskedLemma DEF Statuses, Directional, Places
<1>4. etc \in Etcs
  BY <1>2, NextEtcLemma
<1>5. l1.status = "COMPLETED" => ~ Reopening(a.status, a.detached)
  BY <1>1, <1>2, <1>3, InOrderLemma DEF Reopening
<1>6. a.status = "COMPLETED" => act \/ l1.activated
  BY DEF Activating, WaitsForEtc
<1>7. /\ act \in BOOLEAN
      /\ call' = [call EXCEPT ![c] = w]
      /\ UNCHANGED <<l1, returns, l2, trailer>>
  BY <1>1 DEF Begin
<1> HIDE DEF a, etc, act
<1>8. w \in Calls
  BY <1>3, <1>4, <1>7 DEF Calls, Steps
<1>9. Sound(w) /\ Fresh(w)
  BY <1>3, <1>5, <1>6 DEF Sound, Fresh
<1> HIDE DEF w
<1>10. Pending'
  BY <1>7, <1>8, <1>9, BeginLemma
<1>11. Rows'
  BY <1>7 DEF IInv, Rows, OneReturnJob
<1>12. QED
  BY <1>10, <1>11 DEF IInv

\* Reads by the other operations.
LEMMA OtherReadStep ==
  ASSUME IInv, NEW c \in Callers,
         \/ AssignRead(c) \/ ActivateRead(c) \/ WorkerRead(c) \/ LoadRead(c) \/ ConfirmRead(c)
         \/ ReturnRead(c) \/ Fail(c)
  PROVE  IInv'
<1>1. UNCHANGED <<l1, returns, l2, trailer>>
  BY DEF AssignRead, ActivateRead, WorkerRead, LoadRead, ConfirmRead, ReturnRead, Fail
<1>2. \E w \in Calls : Sound(w) /\ Fresh(w) /\ call' = [call EXCEPT ![c] = w]
  <2>1. l1 \in Jobs
    BY DEF IInv, Rows
  <2>2. CASE AssignRead(c)
    <3> DEFINE w == [Idle EXCEPT !.step = "assign",
                                 !.status = IF Reassigned(l1) THEN "RE_ASSIGNED" ELSE "ASSIGNED",
                                 !.placement = AssignedPlace(l1)]
    <3>1. AssignedPlace(l1) \in Places
      BY <2>1 DEF AssignedPlace, Places, Jobs
    <3>2. w \in Calls
      BY <3>1 DEF Idle, Calls, Steps, Statuses, Etcs
    <3>3. Sound(w) /\ Fresh(w)
      BY DEF Idle, Sound, Fresh, Statuses
    <3>4. call' = [call EXCEPT ![c] = w]
      BY <2>2 DEF AssignRead, Begin
    <3>5. QED
      BY <3>2, <3>3, <3>4
  <2>3. CASE ActivateRead(c)
    <3> DEFINE claim == [Idle EXCEPT !.step = "claim"]
               repair == [Idle EXCEPT !.step = "repair"]
    <3>1. claim \in Calls /\ repair \in Calls
      BY DEF Idle, Calls, Steps, Statuses, L2Statuses, Places, Etcs
    <3>2. Sound(claim) /\ Fresh(claim)
      BY DEF Idle, Sound, Fresh
    <3>3. returns > 0 => Sound(repair) /\ Fresh(repair)
      BY DEF Idle, Sound, Fresh, IInv, Rows, OneReturnJob
    <3>4. \/ call' = [call EXCEPT ![c] = claim]
          \/ returns > 0 /\ call' = [call EXCEPT ![c] = repair]
          \/ call' = [call EXCEPT ![c] = Idle]
      BY <2>3 DEF ActivateRead
    <3> HIDE DEF claim, repair
    <3>5. QED
      BY <3>1, <3>2, <3>3, <3>4, IdleLemma
  <2>4. ASSUME NEW s \in {"sweep", "load"}, NEW p \in {"YARD", "RAMP"}, l1.status \in Waiting
        PROVE  Sweep(s, p) \in Calls /\ Sound(Sweep(s, p)) /\ Fresh(Sweep(s, p))
    <3>1. Sweep(s, p) \in Calls
      BY DEF Sweep, Idle, Calls, Steps, Statuses, Directional, Places, Etcs
    <3>2. Sound(Sweep(s, p)) /\ Fresh(Sweep(s, p))
      BY <2>4 DEF Sweep, Idle, Sound, Fresh, Statuses, Directional
    <3>3. QED
      BY <3>1, <3>2
  <2>5. CASE WorkerRead(c)
    <3>1. CASE \E soon \in BOOLEAN :
                 /\ WorkerTakes(l1, soon)
                 /\ Begin(c, Sweep("sweep", IF l1.status = "PLACED_AT_YARD" \/ l1.placement = "YARD"
                                            THEN "YARD" ELSE "RAMP"))
      BY <2>4, <3>1 DEF WorkerTakes, Begin
    <3>2. CASE Begin(c, [Idle EXCEPT !.step = "due"])
      <4> DEFINE w == [Idle EXCEPT !.step = "due"]
      <4>1. w \in Calls /\ Sound(w) /\ Fresh(w)
        BY DEF Idle, Calls, Steps, Statuses, L2Statuses, Places, Etcs, Sound, Fresh
      <4>2. QED
        BY <3>2, <4>1 DEF Begin
    <3>3. QED
      BY <2>5, <3>1, <3>2 DEF WorkerRead
  <2>6. CASE LoadRead(c)
    <3>1. l1.status \in Waiting
      BY <2>6 DEF LoadRead, LoadYard, LoadRamp, Waiting, RampStatuses, Detachings
    <3>2. \E p \in {"YARD", "RAMP"} : Begin(c, Sweep("load", p))
      BY <2>6 DEF LoadRead
    <3>3. QED
      BY <2>4, <3>1, <3>2 DEF Begin
  <2>7. CASE ConfirmRead(c)
    <3> DEFINE w == [Idle EXCEPT !.step = "confirm", !.activate = ~ l1.activated]
    <3>1. w \in Calls /\ Sound(w) /\ Fresh(w)
      BY DEF Idle, Calls, Steps, Statuses, L2Statuses, Places, Etcs, Sound, Fresh
    <3>2. QED
      BY <2>7, <3>1 DEF ConfirmRead, Begin
  <2>8. CASE ReturnRead(c)
    <3>1. PICK s \in {"ASSIGNED", "COMPLETED"} :
            Begin(c, [Idle EXCEPT !.step = "return", !.status = s])
      BY <2>8 DEF ReturnRead
    <3> DEFINE w == [Idle EXCEPT !.step = "return", !.status = s]
    <3>2. w \in Calls
      BY DEF Idle, Calls, Steps, Statuses, Places, Etcs
    <3>3. returns = 1
      BY <2>8 DEF ReturnRead, IInv, Rows, OneReturnJob
    <3>4. Sound(w) /\ Fresh(w)
      BY <3>3 DEF Idle, Sound, Fresh
    <3>5. QED
      BY <3>1, <3>2, <3>4 DEF Begin
  <2>9. CASE Fail(c)
    BY <2>9, IdleLemma DEF Fail
  <2>10. QED
    BY <2>2, <2>3, <2>5, <2>6, <2>7, <2>8, <2>9
<1>3. Pending'
  BY <1>1, <1>2, BeginLemma
<1>4. Rows'
  BY <1>1 DEF IInv, Rows, OneReturnJob
<1>5. QED
  BY <1>3, <1>4 DEF IInv

LEMMA ActivateWriteStep ==
  ASSUME IInv, NEW c \in Callers, ActivateWrite(c)
  PROVE  IInv'
<1>1. l1 \in Jobs /\ trailer \in Trailers
  BY DEF IInv, Rows
<1>2. Rows' /\ Grown
  <2>1. CASE Claim(l1, trailer)
    BY <1>1, <2>1, ClaimLemma
  <2>2. CASE UNCHANGED <<l1, returns, l2, trailer>>
    BY <2>2 DEF IInv, Rows, OneReturnJob, Grown
  <2>3. CASE At(c, "repair") /\ Repair(l1, trailer)
    <3>1. returns = 1
      BY <2>3 DEF At, IInv, Pending, Sound
    <3>2. QED
      BY <1>1, <2>3, <3>1, RepairLemma
  <2>4. QED
    BY <2>1, <2>2, <2>3 DEF ActivateWrite
<1>3. QED
  BY <1>2, WrittenLemma DEF ActivateWrite, IInv

\* The log holds an origin.
LEMMA LoggedLemma ==
  ASSUME IInv, NEW c \in Callers, NEW o \in Origins \cup {"NONE"}
  PROVE  Logged(c, o) \subseteq Origins
BY DEF Logged, IInv, Rows, Jobs

LEMMA UpdateWriteStep ==
  ASSUME IInv, NEW c \in Callers, UpdateWrite(c)
  PROVE  IInv'
<1> DEFINE w == call[c]
<1>1. w \in Calls /\ Sound(w) /\ w.step = "update"
  BY DEF UpdateWrite, At, IInv, Pending
<1>2. PICK o \in Logged(c, OriginOf(w.status)) :
        LET j == [l1 EXCEPT !.status = w.status, !.detached = w.detached,
                            !.placement = w.placement, !.etc = w.etc, !.origin = o]
        IN IF w.activate THEN Activate(j, Synced(w))
           ELSE l1' = j /\ trailer' = Synced(w) /\ UNCHANGED <<returns, l2>>
  BY DEF UpdateWrite
<1> DEFINE j == [l1 EXCEPT !.status = w.status, !.detached = w.detached,
                           !.placement = w.placement, !.etc = w.etc, !.origin = o]
<1>3. OriginOf(w.status) \in Origins \cup {"NONE"}
  BY DEF OriginOf, Origins
<1>4. o \in Origins
  BY <1>2, <1>3, LoggedLemma
<1>5. w.status \in Statuses /\ w.detached \in BOOLEAN /\ w.placement \in Places /\ w.etc \in Etcs
  BY <1>1 DEF Sound, Calls
<1> HIDE DEF w
<1>6. j \in Jobs /\ j.activated = l1.activated /\ j.status = w.status
  BY <1>4, <1>5 DEF IInv, Rows, Jobs
<1>7. Synced(w) \in Trailers
  BY DEF Synced, Trailers
<1> HIDE DEF j
<1>8. Rows' /\ Grown
  <2>1. CASE w.activate
    <3>1. Activate(j, Synced(w))
      BY <1>2, <2>1 DEF j
    <3>2. QED
      BY <1>6, <1>7, <3>1, ActivateLemma
  <2>2. CASE ~ w.activate
    <3>1. l1' = j /\ trailer' = Synced(w) /\ UNCHANGED <<returns, l2>>
      BY <1>2, <2>2 DEF j
    <3>2. j.status = "COMPLETED" => l1.activated
      BY <1>1, <1>6, <2>2 DEF Sound
    <3>3. QED
      BY <1>6, <1>7, <3>1, <3>2, JobLemma
  <2>3. QED
    BY <2>1, <2>2
<1>9. QED
  BY <1>8, WrittenLemma DEF UpdateWrite, IInv

\* Writes that neither make the return nor close the delivery.
LEMMA OtherWriteStep ==
  ASSUME IInv, NEW c \in Callers, AssignWrite(c) \/ SweepWrite(c)
  PROVE  IInv'
<1> DEFINE w == call[c]
<1>1. w \in Calls /\ Sound(w)
  BY DEF IInv, Pending
<1>2. /\ l1' \in Jobs /\ l1'.activated = l1.activated /\ l1'.status # "COMPLETED"
      /\ trailer' \in Trailers
      /\ UNCHANGED <<returns, l2>>
  <2>1. CASE AssignWrite(c)
    <3>1. w.step = "assign" /\ w.status \in Statuses \ {"COMPLETED"}
      BY <1>1, <2>1 DEF AssignWrite, At, Sound, Statuses
    <3>2. w.placement \in Places
      BY <1>1 DEF Calls
    <3>3. /\ l1' = [l1 EXCEPT !.status = w.status, !.detached = FALSE, !.tractor = TRUE,
                              !.placement = IF w.placement = "NONE" THEN @ ELSE w.placement]
          /\ trailer' = "IN_USE" /\ UNCHANGED <<returns, l2>>
      BY <2>1 DEF AssignWrite
    <3> HIDE DEF w
    <3>4. QED
      BY <3>1, <3>2, <3>3 DEF IInv, Rows, Jobs, Trailers
  <2>2. CASE SweepWrite(c)
    <3>1. w.step \in {"sweep", "load"} /\ w.status \in Statuses \ {"COMPLETED"}
      BY <1>1, <2>2 DEF SweepWrite, Sound, Statuses, Directional
    <3>2. w.placement \in Places
      BY <1>1 DEF Calls
    <3>3. PICK o \in Logged(c, IF w.step = "sweep" THEN "OTHER" ELSE "NONE") :
            l1' = [l1 EXCEPT !.status = w.status, !.placement = w.placement, !.tractor = FALSE,
                             !.origin = o]
      BY <2>2 DEF SweepWrite
    <3>4. o \in Origins
      BY <3>3, LoggedLemma DEF Origins
    <3>5. UNCHANGED <<returns, l2, trailer>>
      BY <2>2 DEF SweepWrite
    <3> HIDE DEF w
    <3>6. QED
      BY <3>1, <3>2, <3>3, <3>4, <3>5 DEF IInv, Rows, Jobs
  <2>3. QED
    BY <2>1, <2>2
<1>3. Rows' /\ Grown
  BY <1>2, JobLemma
<1>4. WrittenBy(c)
  BY DEF AssignWrite, SweepWrite
<1>5. QED
  BY <1>3, <1>4, WrittenLemma DEF IInv

LEMMA ConfirmWriteStep ==
  ASSUME IInv, NEW c \in Callers, ConfirmWrite(c)
  PROVE  IInv'
<1>1. PICK o \in Logged(c, "OTHER") :
        LET j == [l1 EXCEPT !.status = "READY_FOR_PICKUP", !.etc = "PAST", !.origin = o]
        IN IF call[c].activate THEN Activate(j, trailer)
           ELSE l1' = j /\ UNCHANGED <<returns, l2, trailer>>
  BY DEF ConfirmWrite
<1> DEFINE j == [l1 EXCEPT !.status = "READY_FOR_PICKUP", !.etc = "PAST", !.origin = o]
<1>2. o \in Origins
  BY <1>1, LoggedLemma DEF Origins
<1>3. j \in Jobs /\ j.activated = l1.activated /\ j.status # "COMPLETED" /\ trailer \in Trailers
  BY <1>2 DEF IInv, Rows, Jobs, Statuses, Etcs
<1> HIDE DEF j
<1>4. Rows' /\ Grown
  <2>1. CASE call[c].activate
    <3>1. Activate(j, trailer)
      BY <1>1, <2>1 DEF j
    <3>2. QED
      BY <1>3, <3>1, ActivateLemma
  <2>2. CASE ~ call[c].activate
    <3>1. l1' = j /\ UNCHANGED <<returns, l2, trailer>>
      BY <1>1, <2>2 DEF j
    <3>2. QED
      BY <1>3, <3>1, JobLemma
  <2>3. QED
    BY <2>1, <2>2
<1>5. QED
  BY <1>4, WrittenLemma DEF ConfirmWrite, IInv

LEMMA ReturnWriteStep ==
  ASSUME IInv, NEW c \in Callers, ReturnWrite(c)
  PROVE  IInv'
<1>1. returns = 1 /\ l2' \in {"ASSIGNED", "COMPLETED"}
  BY DEF IInv, Pending, Sound, ReturnWrite, At
<1>2. l1' \in Jobs /\ l1'.activated = l1.activated /\ l1.activated /\ trailer' \in Trailers
  <2>1. l1 \in Jobs /\ l1.activated
    BY <1>1 DEF IInv, Rows, OneReturnJob
  <2>2. \/ l1' = [l1 EXCEPT !.status = "COMPLETED"] /\ trailer' = "AVAILABLE"
        \/ l1' = l1 /\ trailer' = "IN_USE"
    BY DEF ReturnWrite
  <2>3. QED
    BY <2>1, <2>2 DEF Jobs, Statuses, Trailers
<1>3. returns' = 1
  BY <1>1 DEF ReturnWrite
<1>4. Rows' /\ Grown
  BY <1>1, <1>2, <1>3 DEF Rows, OneReturnJob, Grown, L2Statuses
<1>5. QED
  BY <1>4, WrittenLemma DEF ReturnWrite, IInv

\* The swap, the extension and the passing of time.
LEMMA AtOnceStep ==
  ASSUME IInv, SwapTractor \/ ExtendEtc \/ EtcPasses
  PROVE  IInv'
<1>1. /\ l1' \in Jobs /\ l1'.activated = l1.activated
      /\ l1'.status = "COMPLETED" => l1.status = "COMPLETED"
      /\ trailer' \in Trailers
      /\ UNCHANGED <<returns, l2>>
  <2>1. CASE SwapTractor
    BY <2>1 DEF SwapTractor, IInv, Rows, Jobs, Statuses, Origins
  <2>2. CASE ExtendEtc
    BY <2>2 DEF ExtendEtc, IInv, Rows, Jobs, Etcs
  <2>3. CASE EtcPasses
    BY <2>3 DEF EtcPasses, IInv, Rows, Jobs, Etcs
  <2>4. QED
    BY <2>1, <2>2, <2>3
<1>2. Rows' /\ Grown
  BY <1>1, JobLemma DEF IInv, Rows, OneReturnJob
<1>3. CASE SwapTractor \/ ExtendEtc
  BY <1>2, <1>3, AllOvertakenLemma DEF SwapTractor, ExtendEtc, IInv
<1>4. CASE EtcPasses
  <2>1. call' = call /\ l1'.status = l1.status /\ l1'.activated = l1.activated /\ returns' = returns
    BY <1>4 DEF EtcPasses, IInv, Rows, Jobs
  <2>2. Pending'
    BY <2>1 DEF IInv, Pending, Sound, Fresh
  <2>3. QED
    BY <1>2, <2>2 DEF IInv
<1>5. QED
  BY <1>3, <1>4

LEMMA Initialised == Init => IInv
<1>1. SUFFICES ASSUME Init PROVE IInv
  OBVIOUS
<1>2. Rows
  BY <1>1 DEF Init, NewJob, Rows, OneReturnJob, Jobs, Statuses, Places, Etcs, Origins, L2Statuses, Trailers
<1>3. \A c \in Callers : call[c] = Idle
  BY <1>1 DEF Init
<1>4. Pending
  BY <1>1, <1>3, IdleLemma DEF Init, Pending
<1>5. QED
  BY <1>2, <1>4 DEF IInv

LEMMA Inductive == IInv /\ [Next]_vars => IInv'
<1>1. SUFFICES ASSUME IInv, [Next]_vars PROVE IInv'
  OBVIOUS
<1>2. ASSUME NEW c \in Callers,
             \/ UpdateRead(c) \/ UpdateWrite(c) \/ AssignRead(c) \/ AssignWrite(c)
             \/ ActivateRead(c) \/ ActivateWrite(c)
             \/ WorkerRead(c) \/ LoadRead(c) \/ SweepWrite(c)
             \/ ConfirmRead(c) \/ ConfirmWrite(c)
             \/ ReturnRead(c) \/ ReturnWrite(c)
             \/ Fail(c)
      PROVE  IInv'
  BY <1>1, <1>2, UpdateReadStep, UpdateWriteStep, OtherReadStep, OtherWriteStep, ActivateWriteStep,
     ConfirmWriteStep, ReturnWriteStep
<1>3. CASE SwapTractor \/ ExtendEtc \/ EtcPasses
  BY <1>1, <1>3, AtOnceStep
<1>4. CASE UNCHANGED vars
  BY <1>1, <1>4 DEF vars, IInv, Rows, Pending, OneReturnJob, Sound, Fresh
<1>5. QED
  BY <1>1, <1>2, <1>3, <1>4 DEF Next

LEMMA Invariant == Spec => []IInv
BY Initialised, Inductive, PTL DEF Spec

-----------------------------------------------------------------------------
(* The theorems. *)

\* The job, the return, the trailer and every pending write keep their types,
\* for any number of operations in flight.
THEOREM TypeCorrect == Spec => []TypeOK
<1>1. IInv => TypeOK
  BY DEF IInv, Rows, Pending, TypeOK
<1>2. QED
  BY <1>1, Invariant, PTL

\* However many operations activate the return at once (activateL2EmptyReturnJob),
\* there is one, and no delivery stays closed without it: the claim is
\* conditional, activations are never taken back, and a write that completes
\* the delivery without activating it had read that it was activated.
THEOREM ReturnedOnce == Spec => []OneReturnJob
<1>1. IInv => OneReturnJob
  BY DEF IInv, Rows
<1>2. QED
  BY <1>1, Invariant, PTL

\* What a step undoes of others' work, if it does, and by which call.
Undoing ==
  \/ l1.status = "COMPLETED" /\ Reopening(l1'.status, l1'.detached)
  \/ l1.tractor /\ ~ l1'.tractor /\ l1.status \notin Waiting

\* Activation leaves the job written, or closes it.
LEMMA ActivatedJob ==
  ASSUME NEW j, NEW t, Activate(j, t)
  PROVE  l1' = j \/ l1' = Closed(j)
BY DEF Activate, Repair, Claim

LEMMA UndoingStep ==
  ASSUME IInv, [Next]_vars, Undoing
  PROVE  \E c \in Callers : WritesBehind(c)
<1>1. l1 \in Jobs /\ l1' # l1
  BY DEF IInv, Rows, Undoing, Reopening
<1>2. ASSUME NEW c \in Callers, WrittenBy(c), call[c].behind
      PROVE  WritesBehind(c)
  BY <1>2 DEF WrittenBy, WritesBehind, Idle
<1>3. ASSUME NEW c \in Callers, UpdateWrite(c)
      PROVE  call[c].behind
  <2> DEFINE w == call[c]
  <2>1. w.step = "update" /\ Fresh(w)
    BY <1>3 DEF UpdateWrite, At, IInv, Pending
  <2>2. PICK o \in Logged(c, OriginOf(w.status)) :
          LET j == [l1 EXCEPT !.status = w.status, !.detached = w.detached,
                              !.placement = w.placement, !.etc = w.etc, !.origin = o]
          IN IF w.activate THEN Activate(j, Synced(w))
             ELSE l1' = j /\ trailer' = Synced(w) /\ UNCHANGED <<returns, l2>>
    BY <1>3 DEF UpdateWrite
  <2> DEFINE j == [l1 EXCEPT !.status = w.status, !.detached = w.detached,
                             !.placement = w.placement, !.etc = w.etc, !.origin = o]
  <2>3. l1' = j \/ l1' = Closed(j)
    BY <2>2, ActivatedJob
  <2>4. j.status = w.status /\ j.detached = w.detached /\ j.tractor = l1.tractor
    BY <1>1 DEF Jobs
  <2>5. Closed(j).status = "COMPLETED" /\ Closed(j).tractor = j.tractor
    BY <1>1 DEF Closed, Jobs
  <2> HIDE DEF w, j
  <2>6. l1.status = "COMPLETED" /\ Reopening(w.status, w.detached)
    BY <2>3, <2>4, <2>5 DEF Undoing, Reopening
  <2>7. QED
    BY <2>1, <2>6 DEF Fresh, w
<1>4. ASSUME NEW c \in Callers, SweepWrite(c)
      PROVE  call[c].behind
  <2> DEFINE w == call[c]
  <2>1. w.step \in {"sweep", "load"} /\ Fresh(w) /\ w.status \in Directional
    BY <1>4 DEF SweepWrite, IInv, Pending, Sound
  <2>2. l1'.status = w.status
    BY <1>1, <1>4 DEF SweepWrite, Jobs
  <2> HIDE DEF w
  <2>3. l1.status \notin Waiting
    BY <2>1, <2>2 DEF Undoing, Reopening, Directional
  <2>4. QED
    BY <2>1, <2>3 DEF Fresh, w
<1>5. ASSUME NEW c \in Callers, AssignWrite(c)
      PROVE  FALSE
  <2>1. call[c].status \in {"ASSIGNED", "RE_ASSIGNED"}
    BY <1>5 DEF AssignWrite, At, IInv, Pending, Sound
  <2>2. l1'.status = call[c].status /\ l1'.tractor
    BY <1>1, <1>5 DEF AssignWrite, Jobs
  <2>3. QED
    BY <2>1, <2>2 DEF Undoing, Reopening
<1>6. ASSUME NEW c \in Callers, ActivateWrite(c)
      PROVE  FALSE
  <2>1. l1' = Closed(l1)
    BY <1>1, <1>6 DEF ActivateWrite, Claim, Repair
  <2>2. QED
    BY <1>1, <2>1 DEF Closed, Jobs, Undoing, Reopening
<1>7. ASSUME NEW c \in Callers, ConfirmWrite(c)
      PROVE  FALSE
  <2>1. PICK o \in Logged(c, "OTHER") :
          LET j == [l1 EXCEPT !.status = "READY_FOR_PICKUP", !.etc = "PAST", !.origin = o]
          IN IF call[c].activate THEN Activate(j, trailer)
             ELSE l1' = j /\ UNCHANGED <<returns, l2, trailer>>
    BY <1>7 DEF ConfirmWrite
  <2> DEFINE j == [l1 EXCEPT !.status = "READY_FOR_PICKUP", !.etc = "PAST", !.origin = o]
  <2>2. l1' = j \/ l1' = Closed(j)
    BY <2>1, ActivatedJob
  <2>3. QED
    BY <1>1, <2>2 DEF Closed, Jobs, Undoing, Reopening
<1>8. ASSUME NEW c \in Callers, ReturnWrite(c)
      PROVE  FALSE
  BY <1>1, <1>8 DEF ReturnWrite, Jobs, Undoing, Reopening
<1>9. CASE SwapTractor \/ ExtendEtc \/ EtcPasses
  BY <1>1, <1>9 DEF SwapTractor, ExtendEtc, EtcPasses, Jobs, Undoing, Reopening
<1>10. ASSUME NEW c \in Callers,
              \/ UpdateRead(c) \/ AssignRead(c) \/ ActivateRead(c) \/ WorkerRead(c) \/ LoadRead(c)
              \/ ConfirmRead(c) \/ ReturnRead(c) \/ Fail(c)
       PROVE  FALSE
  BY <1>1, <1>10 DEF UpdateRead, AssignRead, ActivateRead, WorkerRead, LoadRead, ConfirmRead,
                     ReturnRead, Fail
<1>11. CASE UNCHANGED vars
  BY <1>1, <1>11 DEF vars
<1>12. QED
  <2>1. ASSUME NEW c \in Callers, UpdateWrite(c) \/ SweepWrite(c)
        PROVE  WritesBehind(c)
    BY <1>2, <1>3, <1>4, <2>1 DEF UpdateWrite, SweepWrite
  <2>2. QED
    BY <1>5, <1>6, <1>7, <1>8, <1>9, <1>10, <1>11, <2>1 DEF Next

\* A closed delivery goes back on the road, and an assigned tractor is taken off
\* a job that does not wait, only by a call that had read the job before it was
\* written (updateDrayageJobExecutionStatus, the ETC worker, the workspace):
\* while a call is not behind, its guards hold of the job it writes.
THEOREM StaleWritesUndo == Spec => OnlyStaleWritesUndo
<1>1. IInv /\ [Next]_vars => (Undoing => \E c \in Callers : WritesBehind(c))
  BY UndoingStep
<1>2. QED
  BY <1>1, Invariant, PTL DEF Spec, OnlyStaleWritesUndo, Undoing

\* The trailer of a return that has a tractor is set free only by completing the
\* delivery once more.
THEOREM TrailerHeld == Spec => ReturnHoldsTrailer
<1> DEFINE Freed == /\ l2' = "ASSIGNED" /\ trailer' = "AVAILABLE"
                    /\ l2 # "ASSIGNED" \/ trailer # "AVAILABLE"
           Again == /\ l2 # "NONE"
                    /\ \E c \in Callers : At(c, "update") /\ call[c].status = "COMPLETED" /\ call'[c] = Idle
<1>1. ASSUME IInv, [Next]_vars, Freed
      PROVE  Again
  <2>1. ASSUME NEW j, NEW t, Activate(j, t) \/ Claim(j, t) \/ Repair(j, t)
        PROVE  trailer' = t /\ l2' = l2
    BY <1>1, <2>1 DEF Activate, Claim, Repair
  <2>2. ASSUME NEW c \in Callers, UpdateWrite(c)
        PROVE  Again
    <3>1. At(c, "update") /\ trailer' = Synced(call[c]) /\ l2' = l2
      BY <2>1, <2>2 DEF UpdateWrite
    <3>2. call[c].status = "COMPLETED"
      BY <1>1, <3>1 DEF Synced
    <3>3. call'[c] = Idle
      BY <2>2 DEF UpdateWrite, WrittenBy
    <3>4. QED
      BY <1>1, <3>1, <3>2, <3>3
  <2>3. ASSUME NEW c \in Callers, ActivateWrite(c) \/ ConfirmWrite(c)
        PROVE  FALSE
    <3>1. trailer' = trailer /\ l2' = l2
      BY <2>1, <2>3 DEF ActivateWrite, ConfirmWrite
    <3>2. QED
      BY <1>1, <3>1
  <2>4. ASSUME NEW c \in Callers, ReturnWrite(c) \/ AssignWrite(c)
        PROVE  FALSE
    BY <1>1, <2>4 DEF ReturnWrite, AssignWrite
  <2>5. ASSUME NEW c \in Callers,
               \/ UpdateRead(c) \/ AssignRead(c) \/ ActivateRead(c) \/ WorkerRead(c) \/ LoadRead(c)
               \/ ConfirmRead(c) \/ ReturnRead(c) \/ Fail(c) \/ SweepWrite(c)
        PROVE  FALSE
    BY <1>1, <2>5 DEF UpdateRead, AssignRead, ActivateRead, WorkerRead, LoadRead, ConfirmRead,
                      ReturnRead, Fail, SweepWrite
  <2>6. CASE SwapTractor \/ ExtendEtc \/ EtcPasses \/ UNCHANGED vars
    BY <1>1, <2>6 DEF SwapTractor, ExtendEtc, EtcPasses, vars
  <2>7. QED
    BY <1>1, <2>2, <2>3, <2>4, <2>5, <2>6 DEF Next
<1>2. IInv /\ [Next]_vars => (Freed => Again)
  BY <1>1
<1>3. QED
  BY <1>2, Invariant, PTL DEF Spec, ReturnHoldsTrailer

=============================================================================
