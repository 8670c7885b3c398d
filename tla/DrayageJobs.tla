---------------------------- MODULE DrayageJobs ----------------------------
(***************************************************************************)
(* One container: its delivery job (L1) and the return of the empty (L2),  *)
(* moved by drivers, dispatchers, the consignee, the ETC worker and the    *)
(* loading of the workspace (src/src/lib/logistics/drayage-domain.ts).     *)
(*                                                                         *)
(* Every operation is a transaction (READ COMMITTED) that reads the job    *)
(* without locking it and then updates it by id: two actions, the read,    *)
(* which fixes what will be written, and the write.  Once it has written,  *)
(* the transaction holds the row until it commits.  Statuses between       *)
(* acceptance and placement are one, UNDER_WAY, and the directional labels *)
(* are TO_RAMP and TO_YARD (FCL and MT, import and export, do not matter). *)
(***************************************************************************)
EXTENDS Integers

CONSTANTS Callers  \* operations that may be in flight at once

VARIABLES
  l1,        \* the L1 row
  returns,   \* L2 rows created for it
  l2,        \* status of the L2 row, NONE before there is one
  trailer,   \* master_status of the trailer
  call       \* what each caller has read and is going to write

vars == <<l1, returns, l2, trailer, call>>

-----------------------------------------------------------------------------

Directional   == {"TO_RAMP", "TO_YARD"}
RampStatuses  == {"PLACED_AT_RAMP", "REASSIGN_PLACED_AT_RAMP"}
YardStatuses  == {"PLACED_AT_YARD", "REASSIGN_PLACED_AT_YARD"}
Detachings    == {"TRAILER_DETACHED", "REASSIGN_TRAILER_DETACHED"}
Statuses == {"PENDING", "ASSIGNED", "RE_ASSIGNED", "ACCEPTED", "TRAILER_ATTACHED", "UNDER_WAY",
             "READY_FOR_PICKUP", "COMPLETED"}
            \cup Directional \cup RampStatuses \cup YardStatuses \cup Detachings

Places == {"NONE", "RAMP", "YARD"}
Etcs   == {"NONE", "AHEAD", "PAST"}

\* What the status log says the container was placed as last.
Origins == {"OTHER", "RAMP", "YARD", "REASSIGN_YARD"}

Jobs == [status : Statuses, detached : BOOLEAN, placement : Places, etc : Etcs,
         origin : Origins, activated : BOOLEAN, tractor : BOOLEAN]
Trailers   == {"AVAILABLE", "IN_USE"}
L2Statuses == {"NONE", "PENDING", "ASSIGNED", "COMPLETED"}

Steps == {"idle", "update", "assign", "sweep", "load", "due", "claim", "repair", "confirm", "return"}

\* A pending write; behind says that the job was written since it was read.
Calls == [step : Steps, status : Statuses \cup L2Statuses, detached : BOOLEAN, placement : Places,
          etc : Etcs, activate : BOOLEAN, behind : BOOLEAN]
Idle == [step |-> "idle", status |-> "NONE", detached |-> FALSE, placement |-> "NONE",
         etc |-> "NONE", activate |-> FALSE, behind |-> FALSE]

NewJob == [status |-> "PENDING", detached |-> FALSE, placement |-> "NONE", etc |-> "NONE",
           origin |-> "OTHER", activated |-> FALSE, tractor |-> FALSE]

Init ==
  /\ l1 = NewJob
  /\ returns = 0
  /\ l2 = "NONE"
  /\ trailer = "AVAILABLE"
  /\ call = [c \in Callers |-> Idle]

-----------------------------------------------------------------------------
(* Calls. *)

At(c, s)    == call[c].step = s
Begin(c, w) == At(c, "idle") /\ call' = [call EXCEPT ![c] = w]

\* What becomes of a call when another one commits: it is behind if that has
\* changed the job it read.
Overtaken(d) ==
  [call[d] EXCEPT !.behind = call[d].step \notin {"idle", "return"} /\ (@ \/ l1' # l1)]

\* c commits and returns.
WrittenBy(c) == call' = [d \in Callers |-> IF d = c THEN Idle ELSE Overtaken(d)]

\* The log is read in the order the transactions began: the entry of a call
\* that is behind may be older than the last one.
Logged(c, o) ==
  IF o = "NONE" THEN {l1.origin} ELSE IF call[c].behind THEN {o, l1.origin} ELSE {o}

\* The ETC is near: past, or within the fifteen minutes of the first alert.
Near(etc, soon) == etc = "PAST" \/ (etc = "AHEAD" /\ soon)

-----------------------------------------------------------------------------
(* The return job: activateL2EmptyReturnJob. *)

\* getDrayageOperationalStageIndex, with its stages 2 to 4, 5 and 6 as 2, 3, 4.
Stage(s, detached) ==
  CASE s \in {"PENDING", "ASSIGNED", "RE_ASSIGNED"} -> 0
    [] s = "ACCEPTED" -> 1
    [] s \in {"UNDER_WAY", "TRAILER_ATTACHED"} -> 2
    [] s \in RampStatuses \cup YardStatuses -> IF detached THEN 4 ELSE 3
    [] OTHER -> 4

InitialYardDrop(j) == j.placement = "YARD" /\ j.status \in {"PLACED_AT_YARD", "TO_RAMP"}

\* What activation asks of the job as read.
Returnable(j) == ~ j.activated /\ Stage(j.status, j.detached) >= 3 /\ ~ InitialYardDrop(j)

Closed(j) == [j EXCEPT !.status = "COMPLETED", !.activated = TRUE]

\* Mutant of Unclaimed: the claim has no condition.
AlwaysUnclaimed(j) == TRUE

\* The condition of the claim, re-evaluated on the row as it is now.
Unclaimed(j) == ~ j.activated

\* The claim and the insert, which commit together; the return may be
\* pre-assigned a tractor, which takes the trailer (t is what it was).
Claim(j, t) ==
  /\ Unclaimed(j)
  /\ l1' = Closed(j)
  /\ returns' = returns + 1
  /\ \/ l2' = "PENDING" /\ trailer' = t
     \/ l2' = "ASSIGNED" /\ trailer' = "IN_USE"

\* A return that exists is not made twice: the job is closed again.
Repair(j, t) == l1' = Closed(j) /\ trailer' = t /\ UNCHANGED <<returns, l2>>

\* Activation inside an operation that has written the job j already.
Activate(j, t) ==
  IF returns > 0 THEN Repair(j, t)
  ELSE IF Returnable(j) THEN Claim(j, t)
  ELSE l1' = j /\ trailer' = t /\ UNCHANGED <<returns, l2>>

\* Activation by a dispatcher, or by the worker for a job it found due, reads
\* the job and what returns there are ...
ActivateRead(c) ==
  /\ call[c].step \in {"idle", "due"}
  /\ call' = [call EXCEPT ![c] =
                 IF returns = 0 /\ Returnable(l1) THEN [Idle EXCEPT !.step = "claim"]
                 ELSE IF returns > 0 /\ l1 # Closed(l1) THEN [Idle EXCEPT !.step = "repair"]
                 ELSE Idle]
  /\ UNCHANGED <<l1, returns, l2, trailer>>

\* ... and claims the job, unless another activation has, or closes it again.
ActivateWrite(c) ==
  /\ \/ At(c, "claim") /\ Claim(l1, trailer)
     \/ At(c, "claim") /\ ~ Unclaimed(l1) /\ UNCHANGED <<l1, returns, l2, trailer>>
     \/ At(c, "repair") /\ Repair(l1, trailer)
  /\ WrittenBy(c)

-----------------------------------------------------------------------------
(* Status updates: updateDrayageJobExecutionStatus. *)

\* What drivers and dispatchers ask for.  KEPT leaves a column to the job's own.
Requests ==
       [status : {"ACCEPTED", "UNDER_WAY", "COMPLETED"}, detach : {"NO", "KEPT"}, place : {"KEPT"},
        etc : {"KEPT"}]
  \cup [status : {"TRAILER_ATTACHED"}, detach : {"NO"}, place : {"KEPT"}, etc : {"KEPT"}]
  \cup [status : RampStatuses, detach : {"NO"}, place : {"RAMP"}, etc : {"KEPT", "AHEAD"}]
  \cup [status : {"PLACED_AT_YARD"}, detach : {"NO", "YES"}, place : {"YARD"}, etc : {"KEPT"}]
  \cup [status : {"REASSIGN_PLACED_AT_YARD"}, detach : {"NO"}, place : {"YARD"}, etc : {"KEPT"}]
  \cup [status : {"TRAILER_DETACHED"}, detach : {"YES"}, place : {"KEPT"}, etc : {"KEPT"}]
  \cup [status : {"REASSIGN_TRAILER_DETACHED"}, detach : {"YES"}, place : {"KEPT", "RAMP"},
        etc : {"KEPT"}]
  \cup [status : {"READY_FOR_PICKUP"}, detach : {"YES"}, place : {"KEPT", "YARD"}, etc : {"KEPT"}]

AskedPlace(j, r)    == IF r.place = "KEPT" THEN j.placement ELSE r.place
AskedDetached(j, r) == IF r.detach = "KEPT" THEN j.detached ELSE r.detach = "YES"

\* isReassignTransition: no order is kept from or to these.
Exempt(j, r) ==
  \/ j.status \in Directional \cup Detachings \cup {"RE_ASSIGNED"}
  \/ r.status \in {"ACCEPTED", "TRAILER_ATTACHED", "REASSIGN_PLACED_AT_RAMP",
                   "REASSIGN_PLACED_AT_YARD", "REASSIGN_TRAILER_DETACHED"}

\* Mutant of InOrder: no guard against moving back.
AnyOrder(j, r) == TRUE

\* Otherwise a job is never moved back a stage.
InOrder(j, r) ==
  \/ r.status = j.status
  \/ Exempt(j, r)
  \/ Stage(j.status, j.detached) = 0
  \/ Stage(r.status, AskedDetached(j, r)) >= Stage(j.status, j.detached)

IsDetach(j, r) ==
  \/ r.status \in Detachings
  \/ AskedDetached(j, r) /\ r.status \in YardStatuses

ReassignYardDrop(j, r) ==
  \/ "REASSIGN_PLACED_AT_YARD" \in {r.status, j.status}
  \/ j.origin = "REASSIGN_YARD"
  \/ r.status = "REASSIGN_TRAILER_DETACHED" /\ AskedPlace(j, r) = "YARD"

FirstYardDrop(j, r) == "PLACED_AT_YARD" \in {r.status, j.status} \/ j.origin = "YARD"

\* The directional state machine: what is asked, and what a detach makes of it.
Asked(j, r) ==
  LET p == AskedPlace(j, r) IN
  IF ~ IsDetach(j, r) THEN [status |-> r.status, placement |-> p, detached |-> AskedDetached(j, r)]
  ELSE IF ReassignYardDrop(j, r)
       THEN [status |-> "READY_FOR_PICKUP", detached |-> TRUE,
             placement |-> IF p = "NONE" THEN "YARD" ELSE p]
  ELSE IF FirstYardDrop(j, r) THEN [status |-> "TO_RAMP", placement |-> "YARD", detached |-> TRUE]
  ELSE [status |-> r.status, detached |-> TRUE,
        placement |-> IF r.status = "REASSIGN_TRAILER_DETACHED" THEN "RAMP" ELSE p]

AtRamp(a) == a.status \in RampStatuses \/ (a.detached /\ a.placement = "RAMP")

\* Mutant of NextEtc: an ETC that is not given is written as it was asked.
NextEtcAsAsked(j, r, a) == r.etc

\* The ETC: as given, as it was, or three hours from a ramp placement.
NextEtc(j, r, a) ==
  IF r.etc # "KEPT" THEN r.etc
  ELSE IF j.etc # "NONE" THEN j.etc
  ELSE IF AtRamp(a) THEN "AHEAD" ELSE "NONE"

\* An ETC that is over, or near with the trailer detached, asks for the yard.
ToYard(a, etc, soon) == AtRamp(a) /\ (etc = "PAST" \/ (Near(etc, soon) /\ a.detached))

\* How the log records a status; the statuses it skips leave the origin alone.
OriginOf(s) ==
  IF s \in RampStatuses THEN "RAMP"
  ELSE IF s = "PLACED_AT_YARD" THEN "YARD"
  ELSE IF s = "REASSIGN_PLACED_AT_YARD" THEN "REASSIGN_YARD"
  ELSE IF s \in Detachings \cup {"READY_FOR_PICKUP", "TRAILER_ATTACHED", "ACCEPTED"} THEN "NONE"
  ELSE "OTHER"

Activating == {"READY_FOR_PICKUP", "COMPLETED"}

\* A container ready at the ramp waits for its ETC.
WaitsForEtc(j, r, a, etc) ==
  /\ a.status = "READY_FOR_PICKUP"
  /\ \/ j.origin = "RAMP"
     \/ a.placement = "RAMP" /\ r.status \notin {"REASSIGN_PLACED_AT_YARD", "REASSIGN_TRAILER_DETACHED"}
  /\ etc = "AHEAD"

\* The update reads the job, which somebody has been given, and decides
\* everything ...
UpdateRead(c) ==
  \E r \in Requests :
  \E soon \in IF "AHEAD" \in {l1.etc, r.etc} THEN BOOLEAN ELSE {FALSE} :
    LET a0  == Asked(l1, r)
        etc == NextEtc(l1, r, a0)
        a   == IF ToYard(a0, etc, soon)
               THEN [a0 EXCEPT !.status = "TO_YARD", !.placement = "RAMP"] ELSE a0
    IN /\ l1.status # "PENDING"
       /\ InOrder(l1, r)
       /\ Begin(c, [step |-> "update", status |-> a.status, detached |-> a.detached,
                    placement |-> a.placement, etc |-> etc,
                    activate |-> /\ ~ l1.activated
                                 /\ a.status \in Activating
                                 /\ ~ WaitsForEtc(l1, r, a, etc),
                    behind |-> FALSE])
       /\ UNCHANGED <<l1, returns, l2, trailer>>

\* The trailer of a job that is closed is free, unless it stands at the ramp or
\* in the yard.
Synced(w) ==
  IF w.status = "COMPLETED" /\ ~ (w.detached /\ w.placement # "NONE") THEN "AVAILABLE" ELSE "IN_USE"

\* Mutant of UpdateWrite: the trailer is synchronised after the activation.
UpdateWriteThenSync(c) ==
  LET w == call[c] IN
  /\ At(c, "update")
  /\ \E o \in Logged(c, OriginOf(w.status)) :
       LET j == [l1 EXCEPT !.status = w.status, !.detached = w.detached,
                           !.placement = w.placement, !.etc = w.etc, !.origin = o]
       IN IF w.activate /\ returns = 0
          THEN /\ l1' = Closed(j)
               /\ returns' = 1
               /\ l2' \in {"PENDING", "ASSIGNED"}
               /\ trailer' = Synced(w)
          ELSE l1' = j /\ trailer' = Synced(w) /\ UNCHANGED <<returns, l2>>
  /\ WrittenBy(c)

\* ... then writes the job, its trailer and its log, and activates the return.
UpdateWrite(c) ==
  LET w == call[c] IN
  /\ At(c, "update")
  /\ \E o \in Logged(c, OriginOf(w.status)) :
       LET j == [l1 EXCEPT !.status = w.status, !.detached = w.detached,
                           !.placement = w.placement, !.etc = w.etc, !.origin = o]
       IN IF w.activate THEN Activate(j, Synced(w))
          ELSE l1' = j /\ trailer' = Synced(w) /\ UNCHANGED <<returns, l2>>
  /\ WrittenBy(c)

-----------------------------------------------------------------------------
(* Dispatchers. *)

\* assignDrayageJob reads the job: a job that was placed or detached is
\* reassigned, from where it stands.
Reassigned(j) ==
  \/ j.detached
  \/ j.status \in Directional \cup RampStatuses \cup YardStatuses \cup Detachings
                  \cup {"READY_FOR_PICKUP", "RE_ASSIGNED"}

AssignedPlace(j) ==
  IF ~ Reassigned(j) THEN j.placement
  ELSE IF j.status \in {"PLACED_AT_YARD", "TO_RAMP"} \/ j.placement = "YARD" THEN "YARD"
  ELSE IF j.status \in RampStatuses \cup {"TO_YARD"} THEN "RAMP"
  ELSE j.placement

AssignRead(c) ==
  /\ Begin(c, [Idle EXCEPT !.step = "assign",
                           !.status = IF Reassigned(l1) THEN "RE_ASSIGNED" ELSE "ASSIGNED",
                           !.placement = AssignedPlace(l1)])
  /\ UNCHANGED <<l1, returns, l2, trailer>>

AssignWrite(c) ==
  LET w == call[c] IN
  /\ At(c, "assign")
  /\ l1' = [l1 EXCEPT !.status = w.status, !.detached = FALSE, !.tractor = TRUE,
                      !.placement = IF w.placement = "NONE" THEN @ ELSE w.placement]
  /\ trailer' = "IN_USE"
  /\ WrittenBy(c)
  /\ UNCHANGED <<returns, l2>>

\* swapTractorForPortSlotRescue: decided on the row as it is.
SwapTractor ==
  /\ l1' = [l1 EXCEPT !.tractor = TRUE, !.origin = "OTHER",
                      !.status = IF @ = "PENDING" THEN "ASSIGNED" ELSE @]
  /\ call' = [d \in Callers |-> Overtaken(d)]
  /\ UNCHANGED <<returns, l2, trailer>>

\* extendDrayageJobEtcTime: far enough ahead.
ExtendEtc ==
  /\ l1' = [l1 EXCEPT !.etc = "AHEAD"]
  /\ call' = [d \in Callers |-> Overtaken(d)]
  /\ UNCHANGED <<returns, l2, trailer>>

-----------------------------------------------------------------------------
(* The worker, the workspace and the consignee. *)

EtcPasses ==
  /\ l1.etc = "AHEAD"
  /\ l1' = [l1 EXCEPT !.etc = "PAST"]
  /\ UNCHANGED <<returns, l2, trailer, call>>

\* The statuses whose ETC asks for a reassignment.
Waiting == RampStatuses \cup Detachings \cup {"PLACED_AT_YARD"}

\* checkAndAutoActivateExpiredEtcJobs: due, and over or detached.
WorkerTakes(j, soon) ==
  /\ ~ j.activated
  /\ j.status \in Waiting
  /\ Near(j.etc, soon)
  /\ j.etc = "PAST" \/ j.detached \/ j.status \in Detachings

\* A job that is ready is due whatever its ETC.
WorkerActivates(j) == ~ j.activated /\ j.status = "READY_FOR_PICKUP"

Sweep(step, place) ==
  [Idle EXCEPT !.step = step, !.placement = place,
               !.status = IF place = "YARD" THEN "TO_RAMP" ELSE "TO_YARD"]

\* The worker reads the jobs that are due ...
WorkerRead(c) ==
  /\ \/ \E soon \in BOOLEAN :
          /\ WorkerTakes(l1, soon)
          /\ Begin(c, Sweep("sweep", IF l1.status = "PLACED_AT_YARD" \/ l1.placement = "YARD"
                                     THEN "YARD" ELSE "RAMP"))
     \/ WorkerActivates(l1) /\ Begin(c, [Idle EXCEPT !.step = "due"])
  /\ UNCHANGED <<l1, returns, l2, trailer>>

\* ... and so does getDrayageWorkspaceData, with rules of its own ...
LoadYard(j) ==
  \/ j.status = "PLACED_AT_YARD" /\ j.detached
  \/ j.status = "TRAILER_DETACHED" /\ j.placement = "YARD"

LoadRamp(j, soon) ==
  /\ j.status \in RampStatuses \cup Detachings
  /\ j.placement # "YARD"
  /\ Near(j.etc, soon)
  /\ j.etc = "PAST" \/ j.detached \/ j.status \in Detachings

LoadRead(c) ==
  /\ ~ l1.activated
  /\ \E soon \in BOOLEAN :
       \/ LoadYard(l1) /\ Begin(c, Sweep("load", "YARD"))
       \/ ~ LoadYard(l1) /\ LoadRamp(l1, soon) /\ Begin(c, Sweep("load", "RAMP"))
  /\ UNCHANGED <<l1, returns, l2, trailer>>

\* ... and both take the tractor off, by the job's id alone; only the worker
\* logs it.
SweepWrite(c) ==
  LET w == call[c] IN
  /\ w.step \in {"sweep", "load"}
  /\ \E o \in Logged(c, IF w.step = "sweep" THEN "OTHER" ELSE "NONE") :
       l1' = [l1 EXCEPT !.status = w.status, !.placement = w.placement, !.tractor = FALSE, !.origin = o]
  /\ WrittenBy(c)
  /\ UNCHANGED <<returns, l2, trailer>>

\* isRampLinkActive.
RampLinkActive(j) ==
  \/ /\ j.status \in RampStatuses \cup Detachings \cup {"READY_FOR_PICKUP"}
     /\ j.placement # "YARD"
  \/ j.status = "COMPLETED" /\ j.placement \in {"RAMP", "NONE"}

\* consigneeConfirmEmptyReady reads the job ...
ConfirmRead(c) ==
  /\ RampLinkActive(l1)
  /\ Begin(c, [Idle EXCEPT !.step = "confirm", !.activate = ~ l1.activated])
  /\ UNCHANGED <<l1, returns, l2, trailer>>

\* ... and makes it ready, whatever it is now.
ConfirmWrite(c) ==
  /\ At(c, "confirm")
  /\ \E o \in Logged(c, "OTHER") :
       LET j == [l1 EXCEPT !.status = "READY_FOR_PICKUP", !.etc = "PAST", !.origin = o]
       IN IF call[c].activate THEN Activate(j, trailer)
          ELSE l1' = j /\ UNCHANGED <<returns, l2, trailer>>
  /\ WrittenBy(c)

-----------------------------------------------------------------------------
(* The return trip. *)

\* An assignment or a status update of the return reads it; from assignment to
\* delivery it is ASSIGNED (an acceptance may take it back there) ...
ReturnRead(c) ==
  /\ l2 # "NONE"
  /\ \E s \in {"ASSIGNED", "COMPLETED"} : Begin(c, [Idle EXCEPT !.step = "return", !.status = s])
  /\ UNCHANGED <<l1, returns, l2, trailer>>

\* ... and writes it; completing it closes every job of the container.
ReturnWrite(c) ==
  /\ At(c, "return")
  /\ l2' = call[c].status
  /\ IF l2' = "COMPLETED"
     THEN /\ l1' = [l1 EXCEPT !.status = "COMPLETED"]
          /\ trailer' = "AVAILABLE"
     ELSE trailer' = "IN_USE" /\ UNCHANGED l1
  /\ WrittenBy(c)
  /\ UNCHANGED returns

\* A transaction fails before it commits.
Fail(c) ==
  /\ ~ At(c, "idle")
  /\ call' = [call EXCEPT ![c] = Idle]
  /\ UNCHANGED <<l1, returns, l2, trailer>>

-----------------------------------------------------------------------------

Next ==
  \/ \E c \in Callers :
       \/ UpdateRead(c) \/ UpdateWrite(c) \/ AssignRead(c) \/ AssignWrite(c)
       \/ ActivateRead(c) \/ ActivateWrite(c)
       \/ WorkerRead(c) \/ LoadRead(c) \/ SweepWrite(c)
       \/ ConfirmRead(c) \/ ConfirmWrite(c)
       \/ ReturnRead(c) \/ ReturnWrite(c)
       \/ Fail(c)
  \/ SwapTractor \/ ExtendEtc \/ EtcPasses

Spec == Init /\ [][Next]_vars

-----------------------------------------------------------------------------

\* The rows and the pending writes have their types.
TypeOK ==
  /\ l1 \in Jobs
  /\ returns \in Nat
  /\ l2 \in L2Statuses
  /\ trailer \in Trailers
  /\ call \in [Callers -> Calls]

\* A container is returned once: however many operations activate its return
\* at once, there is one L2 row, the job says so, and a delivery is never left
\* closed without it: whatever completes it has activated its return.
OneReturnJob ==
  /\ returns <= 1
  /\ l1.activated <=> returns = 1
  /\ returns = 1 <=> l2 # "NONE"
  /\ l1.status = "COMPLETED" => l1.activated

\* c writes on the strength of a job that was written since.
WritesBehind(c) == call[c].behind /\ call'[c].step = "idle"

\* A delivery that is being carried out again.
Reopening(s, detached) ==
  s = "UNDER_WAY" \/ (s \in {"PLACED_AT_RAMP", "PLACED_AT_YARD"} /\ ~ detached)

\* What others have done is undone only by a call that had read the job before:
\* no other takes a closed delivery back on the road, nor the tractor off a job
\* that does not wait for one (one a dispatcher has just assigned).
OnlyStaleWritesUndo ==
  [][\/ l1.status = "COMPLETED" /\ Reopening(l1'.status, l1'.detached)
     \/ l1.tractor /\ ~ l1'.tractor /\ l1.status \notin Waiting
     => \E c \in Callers : WritesBehind(c)]_vars

\* The trailer of a return that has a tractor is set free only when somebody
\* completes the delivery once more (the delivery's first completion frees it
\* before the return takes it).
ReturnHoldsTrailer ==
  [][/\ l2' = "ASSIGNED" /\ trailer' = "AVAILABLE"
     /\ l2 # "ASSIGNED" \/ trailer # "AVAILABLE"
     => /\ l2 # "NONE"
        /\ \E c \in Callers : At(c, "update") /\ call[c].status = "COMPLETED" /\ call'[c] = Idle]_vars

=============================================================================
