---------------------------- MODULE RefundProofs ----------------------------
(***************************************************************************)
(* Theorems about RefundApprovals, for any levels, conditions, approvers   *)
(* and requests: its types, that refunds stay within the deposit, that an  *)
(* approval is decided once, that it passes level by level, and that it    *)
(* never waits for nobody.                                                 *)
(***************************************************************************)
EXTENDS RefundApprovals, SequenceTheorems, WellFoundedInduction, TLAPS

\* A request's approval does not exist before its insert.
Unstarted == \A r \in Requests : handler[r].pc \in {"new", "load", "check", "insert"} =>
                                   approval[r].status = "NONE"

IInv == TypeOK /\ RefundsWithinDeposit /\ Unstarted

\* Statuses that end an approval, and that no step takes back.
Ended == {"APPROVED", "REJECTED", "CANCELLED"}

-----------------------------------------------------------------------------
(* What the operators return. *)

\* GREATEST(0, ...) of cancelRefundRequest and executeRefund.
LEMMA MaxZero == \A e \in Int : Max({0, e}) = IF 0 <= e THEN e ELSE 0
<1>1. TAKE e \in Int
<1> DEFINE m == IF 0 <= e THEN e ELSE 0
<1>2. m \in {0, e} /\ \A y \in {0, e} : m >= y
  OBVIOUS
<1>3. \A n \in {0, e} : (\A y \in {0, e} : n >= y) => n = m
  OBVIOUS
<1> HIDE DEF m
<1>4. Max({0, e}) = m
  BY <1>2, <1>3 DEF Max
<1>5. QED
  BY <1>4 DEF m

\* The last level a path opens is a level.
LEMMA LastLevel ==
  ASSUME NEW p \in Chains, p # <<>>
  PROVE  p[Len(p)] \in Levels
<1>1. p \in UNION {[1..n -> Levels] : n \in 0..NumLevels}
  BY DEF Chains
<1>2. p \in Seq(Levels)
  BY <1>1, RefundAssumption, SeqDef DEF RefundAssumption
<1>3. Len(p) \in 1..Len(p)
  BY <1>2, EmptySeq, LenProperties
<1>4. QED
  BY <1>2, <1>3, ElementOfSeq

\* completeInstance ends an approval in progress and leaves any other.
LEMMA CompletedLemma ==
  ASSUME NEW x \in Approvals, NEW outcome \in {"APPROVED", "REJECTED"}
  PROVE  /\ Completed(x, outcome) \in Approvals
         /\ Running(x) => Completed(x, outcome).status = outcome
         /\ ~Running(x) => Completed(x, outcome) = x
BY DEF Completed, Running, Approvals

\* openNextLevel leaves an approval in progress or ends it as APPROVED.
LEMMA OpenedLemma ==
  ASSUME NEW x \in Approvals, NEW p \in Chains, NEW sent \in SUBSET Approvers,
         steps \in [Levels -> Orders]
  PROVE  /\ Opened(x, p, sent) \in Approvals
         /\ Running(x) => Opened(x, p, sent).status \in {"IN_PROGRESS", "APPROVED"}
         /\ ~Running(x) => Opened(x, p, sent).status = x.status
<1> DEFINE waits == p # <<>> /\ p[Len(p)] \notin Passing
           last  == p[Len(p)]
           moved == [x EXCEPT
             !.current = IF p = <<>> THEN @ ELSE steps[last],
             !.level = [l \in Levels |-> IF \A k \in DOMAIN p : p[k] # l THEN @[l]
                                         ELSE IF waits /\ l = last THEN "PENDING" ELSE "APPROVED"],
             !.sent = [l \in Levels |-> IF waits /\ l = last THEN sent ELSE @[l]]]
<1>1. p # <<>> => last \in Levels
  BY LastLevel
<1> HIDE DEF last
<1>2. moved \in Approvals /\ moved.status = x.status
  <2>1. (IF p = <<>> THEN x.current ELSE steps[last]) \in Orders
    BY <1>1 DEF Approvals
  <2>2. [l \in Levels |-> IF \A k \in DOMAIN p : p[k] # l THEN x.level[l]
                          ELSE IF waits /\ l = last THEN "PENDING" ELSE "APPROVED"]
          \in [Levels -> {"NONE", "WAITING", "PENDING", "APPROVED", "REJECTED", "SKIPPED"}]
    BY DEF Approvals
  <2>3. [l \in Levels |-> IF waits /\ l = last THEN sent ELSE x.sent[l]] \in [Levels -> SUBSET Approvers]
    BY DEF Approvals
  <2> HIDE DEF waits
  <2>4. QED
    BY <2>1, <2>2, <2>3 DEF Approvals
<1>3. Opened(x, p, sent) = IF waits THEN moved ELSE Completed(moved, "APPROVED")
  BY DEF Opened, last
<1> HIDE DEF moved, waits
<1>4. QED
  BY <1>2, <1>3, CompletedLemma DEF Running

\* A level is decided or waits.
LEMMA LevelOutcomeLemma ==
  ASSUME NEW x, NEW l
  PROVE  LevelOutcome(x, l) \in {"PENDING", "APPROVED", "REJECTED"}
BY DEF LevelOutcome

\* A decision heard on a level.
LEMMA SaidLemma ==
  ASSUME NEW x \in Approvals, NEW l \in Levels, NEW d \in People \X Actions
  PROVE  /\ [x EXCEPT !.heard[l] = @ \cup {d}] \in Approvals
         /\ [x EXCEPT !.heard[l] = @ \cup {d}].status = x.status
BY DEF Approvals

\* The new state of a level.
LEMMA ClosedLemma ==
  ASSUME NEW x \in Approvals, NEW l \in Levels, NEW s \in {"PENDING", "APPROVED", "REJECTED"}
  PROVE  /\ [x EXCEPT !.level[l] = s] \in Approvals
         /\ [x EXCEPT !.level[l] = s].status = x.status
BY DEF Approvals

\* What a withdrawal and an edit change in an approval.
LEMMA FieldLemma ==
  ASSUME NEW x \in Approvals
  PROVE  /\ [x EXCEPT !.status = "CANCELLED"] \in Approvals
         /\ \A f \in [Levels -> {"NONE", "WAITING", "PENDING", "APPROVED", "REJECTED", "SKIPPED"}] :
              [x EXCEPT !.level = f] \in Approvals /\ [x EXCEPT !.level = f].status = x.status
         /\ [x EXCEPT !.settled = FALSE] \in Approvals /\ [x EXCEPT !.settled = FALSE].status = x.status
<1>1. [x EXCEPT !.status = "CANCELLED"] \in Approvals
  BY DEF Approvals
<1>2. ASSUME NEW f \in [Levels -> {"NONE", "WAITING", "PENDING", "APPROVED", "REJECTED", "SKIPPED"}]
      PROVE  [x EXCEPT !.level = f] \in Approvals /\ [x EXCEPT !.level = f].status = x.status
  BY DEF Approvals
<1>3. [x EXCEPT !.settled = FALSE] \in Approvals /\ [x EXCEPT !.settled = FALSE].status = x.status
  BY DEF Approvals
<1>4. QED
  BY <1>1, <1>2, <1>3

-----------------------------------------------------------------------------
(* The deposit. *)

\* What is reserved exceeds the refund in progress by what was overwritten.
LEMMA PendingLemma ==
  ASSUME deposit \in Deposits, RefundsWithinDeposit, InProgress
  PROVE  /\ deposit.reserved \in Nat /\ deposit.amount \in Nat /\ deposit.overwritten \in Nat
         /\ deposit.refunded \in Nat /\ Collected \in Nat
         /\ deposit.reserved = deposit.overwritten + deposit.amount
         /\ deposit.reserved + deposit.refunded <= Collected
         /\ Max({0, deposit.reserved - deposit.amount}) = deposit.overwritten
<1>1. /\ deposit.reserved \in Nat /\ deposit.amount \in Nat /\ deposit.overwritten \in Nat
      /\ deposit.refunded \in Nat /\ Collected \in Nat
  BY RefundAssumption DEF Deposits, Sums, RefundAssumption
<1>2. /\ deposit.reserved = deposit.overwritten + deposit.amount
      /\ deposit.reserved + deposit.refunded <= Collected
  BY DEF RefundsWithinDeposit, Pending
<1>3. deposit.reserved - deposit.amount = deposit.overwritten
  BY <1>1, <1>2
<1>4. Max({0, deposit.reserved - deposit.amount}) = deposit.overwritten
  BY <1>1, <1>3, MaxZero
<1>5. QED
  BY <1>1, <1>2, <1>4

\* A release gives back what was reserved for the refund in progress, and no more.
LEMMA ReleasedLemma ==
  ASSUME deposit \in Deposits, RefundsWithinDeposit, InProgress
  PROVE  /\ Released(deposit) \in Deposits
         /\ Released(deposit).status = "CANCELLED"
         /\ Released(deposit).reserved = deposit.overwritten
         /\ Released(deposit).overwritten = deposit.overwritten
         /\ Released(deposit).refunded = deposit.refunded
<1>1. Released(deposit) = [deposit EXCEPT !.status = "CANCELLED", !.reserved = deposit.overwritten]
  BY PendingLemma DEF Released, Deposits
<1>2. QED
  BY <1>1 DEF Deposits

\* A deposit whose refund in progress was released is balanced.
LEMMA AfterRelease ==
  ASSUME deposit \in Deposits, RefundsWithinDeposit, InProgress, deposit' = Released(deposit)
  PROVE  deposit' \in Deposits /\ RefundsWithinDeposit'
<1>1. /\ deposit' \in Deposits /\ deposit'.status = "CANCELLED" /\ deposit'.reserved = deposit.overwritten
      /\ deposit'.overwritten = deposit.overwritten /\ deposit'.refunded = deposit.refunded
  BY ReleasedLemma
<1>2. deposit.overwritten + deposit.refunded <= Collected
  BY PendingLemma
<1>3. deposit.overwritten = deposit.overwritten + 0
  BY PendingLemma
<1>4. QED
  BY <1>1, <1>2, <1>3 DEF RefundsWithinDeposit, Pending, InProgress

\* An outcome, applied or not, keeps the balance.
LEMMA AppliedLemma ==
  ASSUME deposit \in Deposits, RefundsWithinDeposit, NEW outcome,
         deposit' = Applied(deposit, outcome)
  PROVE  deposit' \in Deposits /\ RefundsWithinDeposit'
<1>1. CASE deposit.status # "REQUESTED"
  BY <1>1 DEF Applied, RefundsWithinDeposit, Pending, InProgress
<1>2. CASE deposit.status = "REQUESTED" /\ outcome = "APPROVED"
  BY <1>2 DEF Applied, RefundsWithinDeposit, Pending, InProgress, Deposits
<1>3. CASE deposit.status = "REQUESTED" /\ outcome # "APPROVED"
  <2>1. deposit' = Released(deposit) /\ InProgress
    BY <1>3 DEF Applied, InProgress
  <2>2. QED
    BY <2>1, AfterRelease
<1>4. QED
  BY <1>1, <1>2, <1>3

\* What a transaction of the engine leaves of approval r and the deposit.
LEMMA WriteLemma ==
  ASSUME TypeOK, RefundsWithinDeposit,
         NEW r \in Requests, NEW x \in Approvals, NEW old, Write(r, x, old)
  PROVE  /\ approval' \in [Requests -> Approvals]
         /\ approval' = [approval EXCEPT ![r] = x]
         /\ deposit' \in Deposits /\ RefundsWithinDeposit'
         /\ deposit' # deposit => Running(old) /\ ~Running(x)
<1>1. CASE Running(old) /\ ~Running(x)
  <2>1. deposit' = Applied(deposit, x.status)
    BY <1>1 DEF Write
  <2>2. QED
    BY <1>1, <2>1, AppliedLemma DEF Write, TypeOK
<1>2. CASE ~(Running(old) /\ ~Running(x))
  BY <1>2 DEF Write, TypeOK, RefundsWithinDeposit, Pending, InProgress
<1>3. QED
  BY <1>1, <1>2

-----------------------------------------------------------------------------
(* The steps. *)

\* A decision's level is one of the approval's.
LEMMA ChosenLevel ==
  ASSUME NEW x, NEW o, \E k \in Levels : x.level[k] = "PENDING" /\ x.order[k] = o
  PROVE  (CHOOSE k \in Levels : x.level[k] = "PENDING" /\ x.order[k] = o) \in Levels
OBVIOUS

\* The types and the balance hold at the start.
LEMMA InitLemma == Init => IInv
<1> SUFFICES ASSUME Init PROVE IInv
  OBVIOUS
<1>1. NotStarted \in Approvals
  BY RefundAssumption DEF NotStarted, Approvals, Orders, Sums, RefundAssumption
<1>2. deposit \in Deposits /\ RefundsWithinDeposit
  BY RefundAssumption DEF Init, Deposits, Sums, RefundsWithinDeposit, Pending, InProgress, RefundAssumption
<1>3. steps \in [Levels -> Orders]
  BY RefundAssumption DEF Init, Levels, Orders, RefundAssumption
<1>4. mishaps \in 0..MaxMishaps
  BY RefundAssumption DEF Init, RefundAssumption
<1>5. handler \in [Requests -> [pc : {"new", "load", "check", "insert", "done"}, amount : Sums]]
  BY RefundAssumption DEF Init, Sums, RefundAssumption
<1>6. clerk \in [pc : {"idle", "record", "execute", "withdraw", "clear"}, ended : SUBSET Requests]
  BY DEF Init, Idle
<1>7. decider \in [People -> [request : Requests, order : Orders] \cup {NoDecision}]
  BY DEF Init
<1>8. approval \in [Requests -> Approvals] /\ Unstarted
  BY <1>1 DEF Init, Unstarted, NotStarted
<1>9. QED
  BY <1>2, <1>3, <1>4, <1>5, <1>6, <1>7, <1>8 DEF IInv, TypeOK

\* No step but a write of the engine changes an approval's outcome.
Kept == \A q \in Requests : approval[q].status \in Ended => approval'[q].status = approval[q].status

\* A failed lookup is counted within its bound.
LEMMA ResolvedLemma ==
  ASSUME mishaps \in 0..MaxMishaps, NEW sent, Resolved(sent)
  PROVE  mishaps' \in 0..MaxMishaps
BY RefundAssumption DEF Resolved, MayFail, RefundAssumption

\* Starting an approval: it was not there before.
LEMMA InsertLemma ==
  ASSUME IInv, NEW r \in Requests, Insert(r)
  PROVE  IInv' /\ Kept
<1> DEFINE here == {l \in Levels : steps[l] # 0}
           a == handler[r].amount
           new(f) ==
             [NotStarted EXCEPT
                !.status = "IN_PROGRESS", !.amount = a, !.order = steps, !.current = steps[f],
                !.level = [l \in Levels |-> IF l \notin here THEN "NONE"
                                            ELSE IF a \in AppliesTo[l] THEN "WAITING" ELSE "SKIPPED"],
                !.settled = \A k, l \in here : k # l => steps[k] # steps[l]]
<1>1. PICK first \in here, sent \in {Approvers, {}} :
        /\ Resolved(sent)
        /\ \E p \in Paths(new(first), 0) : Write(r, Opened(new(first), p, sent), new(first))
  BY Zenon DEF Insert
<1>2. PICK p \in Chains : Write(r, Opened(new(first), p, sent), new(first))
  BY <1>1 DEF Paths
<1>3. new(first) \in Approvals /\ Running(new(first))
  <2>1. (\A k, l \in here : k # l => steps[k] # steps[l]) \in BOOLEAN
    OBVIOUS
  <2>2. [l \in Levels |-> IF l \notin here THEN "NONE" ELSE IF a \in AppliesTo[l] THEN "WAITING" ELSE "SKIPPED"]
          \in [Levels -> {"NONE", "WAITING", "PENDING", "APPROVED", "REJECTED", "SKIPPED"}]
    OBVIOUS
  <2>3. a \in Sums /\ steps \in [Levels -> Orders] /\ steps[first] \in Orders
    BY DEF IInv, TypeOK
  <2> HIDE DEF here, a
  <2>4. QED
    BY <2>1, <2>2, <2>3 DEF NotStarted, Approvals, Running
<1> HIDE DEF new
<1>4. DEFINE x == Opened(new(first), p, sent)
<1>5. x \in Approvals
  BY <1>3, OpenedLemma DEF IInv, TypeOK
<1> HIDE DEF x
<1>6. /\ approval' = [approval EXCEPT ![r] = x]
      /\ approval' \in [Requests -> Approvals]
      /\ deposit' \in Deposits /\ RefundsWithinDeposit'
  BY <1>2, <1>5, WriteLemma DEF IInv, x
<1>7. approval[r].status = "NONE" /\ handler' = [handler EXCEPT ![r] = Done]
  BY DEF Insert, IInv, Unstarted
<1>8. handler' \in [Requests -> [pc : {"new", "load", "check", "insert", "done"}, amount : Sums]]
  BY <1>7, RefundAssumption DEF IInv, TypeOK, Done, Sums, RefundAssumption
<1>9. Unstarted'
  BY <1>6, <1>7 DEF IInv, TypeOK, Unstarted, Done
<1>10. mishaps' \in 0..MaxMishaps
  BY <1>1, ResolvedLemma DEF IInv, TypeOK
<1>11. Kept
  BY <1>6, <1>7 DEF Kept, Ended, IInv, TypeOK
<1>12. steps' = steps /\ decider' = decider /\ clerk' = clerk
  BY DEF Insert
<1>13. QED
  BY <1>6, <1>8, <1>9, <1>10, <1>11, <1>12 DEF IInv, TypeOK

\* A write on an approval that was there keeps it once it has ended.
LEMMA EngineLemma ==
  ASSUME IInv, NEW r \in Requests, NEW x \in Approvals, Write(r, x, approval[r]),
         Running(approval[r]) => x.status \in {"IN_PROGRESS", "APPROVED", "REJECTED"},
         ~Running(approval[r]) => x.status = approval[r].status,
         handler' = handler
  PROVE  /\ approval' \in [Requests -> Approvals]
         /\ deposit' \in Deposits /\ RefundsWithinDeposit' /\ Unstarted' /\ Kept
         /\ deposit' # deposit => Running(approval[r]) /\ approval'[r].status \in {"APPROVED", "REJECTED"}
<1>1. /\ approval' = [approval EXCEPT ![r] = x]
      /\ approval' \in [Requests -> Approvals]
      /\ deposit' \in Deposits /\ RefundsWithinDeposit'
      /\ deposit' # deposit => Running(approval[r]) /\ ~Running(x)
  BY WriteLemma DEF IInv
<1>2. approval \in [Requests -> Approvals]
  BY DEF IInv, TypeOK
<1>3. Unstarted'
  BY <1>1, <1>2 DEF IInv, Unstarted, Running
<1>4. Kept
  BY <1>1, <1>2 DEF Kept, Ended, Running
<1>5. QED
  BY <1>1, <1>2, <1>3, <1>4 DEF Running

\* A decision is written, or nothing is.
LEMMA DecideLemma ==
  ASSUME IInv, NEW p \in People, NEW action \in Actions, Decide(p, action)
  PROVE  /\ IInv' /\ Kept
         /\ deposit' # deposit =>
              \E r \in Requests : Running(approval[r]) /\ approval'[r].status \in {"APPROVED", "REJECTED"}
<1> DEFINE r == decider[p].request
           x == approval[r]
           l == CHOOSE k \in Levels : x.level[k] = "PENDING" /\ x.order[k] = decider[p].order
           said == [x EXCEPT !.heard[l] = @ \cup {<<p, action>>}]
           outcome == LevelOutcome(said, l)
           closed == [said EXCEPT !.level[l] = outcome]
<1>1. r \in Requests /\ x \in Approvals
  BY DEF Decide, IInv, TypeOK
<1>2. l \in Levels
  BY ChosenLevel DEF Decide
<1> HIDE DEF r, l
<1>3. said \in Approvals /\ said.status = x.status
  BY <1>1, <1>2, SaidLemma
<1> HIDE DEF said
<1>4. outcome \in {"PENDING", "APPROVED", "REJECTED"}
  BY LevelOutcomeLemma
<1> HIDE DEF outcome
<1>5. closed \in Approvals /\ closed.status = x.status
  BY <1>2, <1>3, <1>4, ClosedLemma
<1> HIDE DEF closed
<1>6. PICK y \in Approvals :
        /\ Write(r, y, approval[r])
        /\ Running(approval[r]) => y.status \in {"IN_PROGRESS", "APPROVED", "REJECTED"}
        /\ ~Running(approval[r]) => y.status = approval[r].status
        /\ mishaps' \in 0..MaxMishaps
  <2>1. \/ outcome = "PENDING" /\ Write(r, said, x) /\ UNCHANGED mishaps
        \/ outcome = "REJECTED" /\ Write(r, Completed(closed, "REJECTED"), x) /\ UNCHANGED mishaps
        \/ /\ outcome = "APPROVED"
           /\ \E path \in Paths(closed, decider[p].order), sent \in {Approvers, {}} :
                Resolved(sent) /\ Write(r, Opened(closed, path, sent), x)
    BY DEF Decide, r, l, said, outcome, closed
  <2>2. CASE outcome = "PENDING" /\ Write(r, said, x) /\ UNCHANGED mishaps
    BY <1>3, <2>2 DEF Running, IInv, TypeOK
  <2>3. CASE outcome = "REJECTED" /\ Write(r, Completed(closed, "REJECTED"), x) /\ UNCHANGED mishaps
    BY <1>5, <2>3, CompletedLemma DEF Running, IInv, TypeOK
  <2>4. CASE \E path \in Paths(closed, decider[p].order), sent \in {Approvers, {}} :
               Resolved(sent) /\ Write(r, Opened(closed, path, sent), x)
    <3>1. PICK path \in Chains, sent \in {Approvers, {}} :
            Resolved(sent) /\ Write(r, Opened(closed, path, sent), x)
      BY <2>4 DEF Paths
    <3>2. mishaps' \in 0..MaxMishaps
      BY <3>1, ResolvedLemma DEF IInv, TypeOK
    <3>3. /\ Opened(closed, path, sent) \in Approvals
          /\ Running(closed) => Opened(closed, path, sent).status \in {"IN_PROGRESS", "APPROVED"}
          /\ ~Running(closed) => Opened(closed, path, sent).status = closed.status
      BY <1>5, OpenedLemma DEF IInv, TypeOK
    <3>4. QED
      BY <1>5, <3>1, <3>2, <3>3 DEF Running
  <2>5. QED
    BY <2>1, <2>2, <2>3, <2>4
<1>7. handler' = handler /\ steps' = steps /\ clerk' = clerk /\ decider' = [decider EXCEPT ![p] = NoDecision]
  BY DEF Decide
<1>8. /\ approval' \in [Requests -> Approvals]
      /\ deposit' \in Deposits /\ RefundsWithinDeposit' /\ Unstarted' /\ Kept
      /\ deposit' # deposit => Running(approval[r]) /\ approval'[r].status \in {"APPROVED", "REJECTED"}
  BY <1>1, <1>6, <1>7, EngineLemma
<1>9. decider' \in [People -> [request : Requests, order : Orders] \cup {NoDecision}]
  BY <1>7 DEF IInv, TypeOK
<1>10. QED
  BY <1>1, <1>6, <1>7, <1>8, <1>9 DEF IInv, TypeOK

\* requestRefund: what it reserves is the new refund in progress, and what was
\* in progress before is overwritten.
LEMMA RequestedLemma ==
  ASSUME IInv, NEW a \in Nat, a <= Available
  PROVE  /\ Requested(a) \in Deposits
         /\ Requested(a).status = "REQUESTED" /\ Requested(a).amount = a
         /\ Requested(a).reserved = Requested(a).overwritten + a
         /\ Requested(a).reserved + Requested(a).refunded <= Collected
<1>1. /\ deposit.reserved \in Nat /\ deposit.refunded \in Nat /\ deposit.overwritten \in Nat
      /\ deposit.amount \in Nat /\ Collected \in Nat /\ deposit \in Deposits
  BY RefundAssumption DEF IInv, TypeOK, Deposits, Sums, RefundAssumption
<1>2. /\ Pending \in Nat
      /\ deposit.reserved = deposit.overwritten + Pending
      /\ deposit.reserved + a + deposit.refunded <= Collected
  BY <1>1 DEF IInv, RefundsWithinDeposit, Available, Pending
<1> DEFINE reserved == deposit.reserved + a
           over == deposit.overwritten + Pending
<1>3. Requested(a) = [deposit EXCEPT !.status = "REQUESTED", !.amount = a, !.reserved = reserved, !.overwritten = over]
  BY DEF Requested
<1>4. a \in Sums /\ reserved \in Sums /\ over \in Sums /\ reserved = over + a
      /\ reserved + deposit.refunded <= Collected
  BY <1>1, <1>2 DEF Sums
<1> HIDE DEF reserved, over
<1>5. QED
  BY <1>1, <1>3, <1>4 DEF Deposits

\* A request is made, or the contract is closed with or without one.
LEMMA RequestLemma ==
  ASSUME IInv, NEW r \in Requests, (\E a \in Amounts : Request(r, a)) \/ CloseContract(r)
  PROVE  IInv' /\ Kept
<1>1. /\ handler[r].pc = "new" /\ UNCHANGED <<steps, approval, decider, clerk, mishaps>>
      /\ \/ handler' = [handler EXCEPT ![r].pc = "load"]
         \/ handler' = [handler EXCEPT ![r] = Done]
  BY DEF Request, CloseContract
<1>2. /\ handler' \in [Requests -> [pc : {"new", "load", "check", "insert", "done"}, amount : Sums]]
      /\ Unstarted'
  <2>1. 0 \in Sums
    BY RefundAssumption DEF Sums, RefundAssumption
  <2>2. CASE handler' = [handler EXCEPT ![r].pc = "load"]
    BY <1>1, <2>2 DEF IInv, TypeOK, Unstarted
  <2>3. CASE handler' = [handler EXCEPT ![r] = Done]
    BY <1>1, <2>1, <2>3 DEF IInv, TypeOK, Unstarted, Done
  <2>4. QED
    BY <1>1, <2>2, <2>3
<1>3. \/ \E a \in Nat : a <= Available /\ deposit' \in {Requested(a), [Requested(a) EXCEPT !.closed = TRUE]}
      \/ deposit' = [deposit EXCEPT !.closed = TRUE]
  <2>1. CASE \E a \in Amounts : Request(r, a)
    BY <2>1, RefundAssumption DEF Request, RefundAssumption
  <2>2. CASE CloseContract(r)
    <3>1. Collected - deposit.reserved \in Int
      BY RefundAssumption DEF IInv, TypeOK, Deposits, Sums, RefundAssumption
    <3> DEFINE rest == Collected - deposit.reserved
    <3>2. \/ rest > 0 /\ rest <= Available /\ deposit' = [Requested(rest) EXCEPT !.closed = TRUE]
          \/ deposit' = [deposit EXCEPT !.closed = TRUE]
      BY <2>2 DEF CloseContract
    <3> HIDE DEF rest
    <3>3. rest > 0 => rest \in Nat
      BY <3>1 DEF rest
    <3>4. QED
      BY <3>2, <3>3
  <2>3. QED
    BY <2>1, <2>2
<1>4. deposit' \in Deposits /\ RefundsWithinDeposit'
  <2>1. ASSUME NEW a \in Nat, a <= Available,
               deposit' \in {Requested(a), [Requested(a) EXCEPT !.closed = TRUE]}
        PROVE  deposit' \in Deposits /\ RefundsWithinDeposit'
    <3>1. /\ deposit' \in Deposits /\ deposit'.status = "REQUESTED" /\ deposit'.amount = a
          /\ deposit'.reserved = deposit'.overwritten + a
          /\ deposit'.reserved + deposit'.refunded <= Collected
      BY <2>1, RequestedLemma DEF Deposits
    <3>2. QED
      BY <3>1 DEF RefundsWithinDeposit, Pending, InProgress
  <2>2. CASE deposit' = [deposit EXCEPT !.closed = TRUE]
    BY <2>2 DEF IInv, TypeOK, Deposits, RefundsWithinDeposit, Pending, InProgress
  <2>3. QED
    BY <1>3, <2>1, <2>2
<1>5. QED
  BY <1>1, <1>2, <1>4 DEF IInv, TypeOK, Kept

\* Recording moves the status, paying moves the reservation to what was paid.
LEMMA ClerkLemma ==
  ASSUME IInv, Record \/ Execute
  PROVE  IInv' /\ Kept
<1>1. deposit' \in Deposits /\ RefundsWithinDeposit'
  <2>1. CASE Record
    BY <2>1 DEF Record, IInv, TypeOK, RefundsWithinDeposit, Pending, InProgress, Deposits
  <2>2. CASE Execute /\ deposit.status # "RECORDED"
    BY <2>2 DEF Execute, IInv, TypeOK, RefundsWithinDeposit, Pending, InProgress
  <2>3. CASE Execute /\ deposit.status = "RECORDED"
    <3> DEFINE total == deposit.refunded + deposit.amount
               paid == [deposit EXCEPT !.status = "EXECUTED", !.refunded = total, !.reserved = deposit.overwritten]
    <3>1. /\ deposit.reserved = deposit.overwritten + deposit.amount
          /\ deposit.reserved + deposit.refunded <= Collected
          /\ deposit.amount \in Nat /\ deposit.refunded \in Nat /\ deposit.overwritten \in Nat /\ Collected \in Nat
          /\ Max({0, deposit.reserved - deposit.amount}) = deposit.overwritten
      BY <2>3, PendingLemma DEF IInv, TypeOK, InProgress
    <3>2. deposit' = paid
      BY <2>3, <3>1 DEF Execute, IInv, TypeOK, Deposits
    <3>3. total \in Sums /\ deposit.overwritten + total <= Collected /\ deposit.overwritten = deposit.overwritten + 0
      BY <3>1 DEF Sums
    <3> HIDE DEF total
    <3>4. /\ paid \in Deposits /\ paid.status = "EXECUTED" /\ paid.reserved = deposit.overwritten
          /\ paid.overwritten = deposit.overwritten /\ paid.refunded = total
      BY <3>3 DEF IInv, TypeOK, Deposits
    <3> HIDE DEF paid
    <3>5. QED
      BY <3>2, <3>3, <3>4 DEF RefundsWithinDeposit, Pending, InProgress
  <2>4. QED
    BY <2>1, <2>2, <2>3
<1>2. clerk' = Idle /\ UNCHANGED <<steps, approval, handler, decider, mishaps>>
  BY DEF Record, Execute
<1>3. QED
  BY <1>1, <1>2 DEF IInv, TypeOK, Unstarted, Kept, Idle

\* Withdrawing an approval in progress, then clearing its levels.
LEMMA WithdrawLemma ==
  ASSUME IInv, Withdraw \/ Clear
  PROVE  IInv' /\ Kept
<1>1. approval' \in [Requests -> Approvals] /\ Unstarted' /\ Kept
  <2>1. CASE Withdraw
    <3>1. \A r \in Requests : approval'[r] = IF Running(approval[r]) THEN [approval[r] EXCEPT !.status = "CANCELLED"]
                                                                    ELSE approval[r]
      BY <2>1 DEF Withdraw
    <3>2. ASSUME NEW r \in Requests PROVE approval'[r] \in Approvals
      <4>1. approval[r] \in Approvals
        BY DEF IInv, TypeOK
      <4>2. [approval[r] EXCEPT !.status = "CANCELLED"] \in Approvals
        BY <4>1, FieldLemma
      <4>3. QED
        BY <3>1, <4>1, <4>2
    <3>3. handler' = handler /\ approval' = [r \in Requests |-> approval'[r]]
      BY <2>1 DEF Withdraw
    <3>4. QED
      BY <3>1, <3>2, <3>3 DEF IInv, TypeOK, Unstarted, Kept, Ended, Running
  <2>2. CASE Clear
    <3> DEFINE cleared(y) == [l \in Levels |-> IF y.level[l] \in {"PENDING", "WAITING"} THEN "SKIPPED" ELSE y.level[l]]
    <3>1. \A r \in Requests : approval'[r] = IF r \notin clerk.ended THEN approval[r]
                                            ELSE [approval[r] EXCEPT !.level = cleared(approval[r])]
      BY <2>2 DEF Clear
    <3>2. \A y \in Approvals : cleared(y) \in [Levels -> {"NONE", "WAITING", "PENDING", "APPROVED", "REJECTED", "SKIPPED"}]
      BY DEF Approvals
    <3> HIDE DEF cleared
    <3>3. ASSUME NEW r \in Requests
          PROVE  approval'[r] \in Approvals /\ approval'[r].status = approval[r].status
      <4>1. approval[r] \in Approvals
        BY DEF IInv, TypeOK
      <4> DEFINE y == [approval[r] EXCEPT !.level = cleared(approval[r])]
      <4>2. y \in Approvals /\ y.status = approval[r].status
        BY <3>2, <4>1, FieldLemma
      <4> HIDE DEF y
      <4>3. approval'[r] = IF r \notin clerk.ended THEN approval[r] ELSE y
        BY <3>1 DEF y
      <4>4. QED
        BY <4>1, <4>2, <4>3
    <3>4. handler' = handler /\ approval' = [r \in Requests |-> approval'[r]]
      BY <2>2 DEF Clear
    <3>5. QED
      BY <3>3, <3>4 DEF IInv, TypeOK, Unstarted, Kept
  <2>3. QED
    BY <2>1, <2>2
<1>2. deposit' = deposit /\ UNCHANGED <<steps, handler, decider, mishaps>>
  BY DEF Withdraw, Clear
<1>3. clerk' \in [pc : {"idle", "record", "execute", "withdraw", "clear"}, ended : SUBSET Requests]
  BY DEF Withdraw, Clear, Idle
<1>4. QED
  BY <1>1, <1>2, <1>3 DEF IInv, TypeOK, RefundsWithinDeposit, Pending, InProgress

\* A step that is edited keeps its place in the types; running approvals are marked.
LEMMA EditLemma ==
  ASSUME IInv, NEW e \in Edits, Edit(e[1], e[2])
  PROVE  IInv' /\ Kept
<1>1. e[1] \in Levels /\ e[2] \in Orders
  BY RefundAssumption DEF RefundAssumption, Orders
<1>2. steps' \in [Levels -> Orders] /\ mishaps' \in 0..MaxMishaps
  BY <1>1, RefundAssumption DEF Edit, MayFail, IInv, TypeOK, RefundAssumption
<1>3. \A r \in Requests : approval'[r] \in Approvals /\ approval'[r].status = approval[r].status
  <2>1. \A r \in Requests : approval'[r] = IF Running(approval[r]) THEN [approval[r] EXCEPT !.settled = FALSE]
                                                                  ELSE approval[r]
    BY DEF Edit
  <2>2. TAKE r \in Requests
  <2>3. approval[r] \in Approvals
    BY DEF IInv, TypeOK
  <2> DEFINE y == [approval[r] EXCEPT !.settled = FALSE]
  <2>4. y \in Approvals /\ y.status = approval[r].status
    BY <2>3, FieldLemma
  <2> HIDE DEF y
  <2>5. approval'[r] = IF Running(approval[r]) THEN y ELSE approval[r]
    BY <2>1 DEF y
  <2>6. QED
    BY <2>3, <2>4, <2>5
<1>4. approval' = [r \in Requests |-> approval'[r]] /\ UNCHANGED <<deposit, handler, decider, clerk>>
  BY DEF Edit
<1>5. QED
  BY <1>2, <1>3, <1>4 DEF IInv, TypeOK, RefundsWithinDeposit, Pending, InProgress, Unstarted, Kept

-----------------------------------------------------------------------------
(* The theorems. *)

\* Every step keeps the invariant and every approval that has ended.
LEMMA NextLemma ==
  ASSUME IInv, [Next]_vars
  PROVE  IInv' /\ Kept
<1>1. CASE UNCHANGED vars
  BY <1>1 DEF vars, IInv, TypeOK, RefundsWithinDeposit, Pending, InProgress, Unstarted, Kept
<1>2. ASSUME NEW r \in Requests, (\E a \in Amounts : Request(r, a)) \/ CloseContract(r) PROVE IInv' /\ Kept
  BY <1>2, RequestLemma
<1>3. ASSUME NEW r \in Requests, Load(r) \/ Check(r) PROVE IInv' /\ Kept
  <2>1. deposit' = deposit /\ approval' = approval /\ UNCHANGED <<steps, decider, clerk, mishaps>>
    BY <1>3 DEF Load, Check
  <2>2. deposit.amount \in Sums /\ handler[r].amount \in Sums /\ 0 \in Sums
    BY RefundAssumption DEF IInv, TypeOK, Deposits, Sums, RefundAssumption
  <2>3. /\ handler' \in [Requests -> [pc : {"new", "load", "check", "insert", "done"}, amount : Sums]]
        /\ Unstarted'
    <3>1. CASE Load(r)
      BY <2>1, <2>2, <3>1 DEF Load, Done, IInv, TypeOK, Unstarted
    <3>2. CASE Check(r)
      BY <2>1, <2>2, <3>2 DEF Check, Done, IInv, TypeOK, Unstarted
    <3>3. QED
      BY <1>3, <3>1, <3>2
  <2>4. QED
    BY <2>1, <2>3 DEF IInv, TypeOK, RefundsWithinDeposit, Pending, InProgress, Kept
<1>4. ASSUME NEW r \in Requests, Insert(r) PROVE IInv' /\ Kept
  BY <1>4, InsertLemma
<1>5. ASSUME NEW p \in People, NEW r \in Requests, Look(p, r) PROVE IInv' /\ Kept
  <2>1. /\ decider' = [decider EXCEPT ![p] = [request |-> r, order |-> approval[r].current]]
        /\ UNCHANGED <<deposit, steps, approval, handler, clerk, mishaps>>
    BY <1>5 DEF Look
  <2>2. approval[r].current \in Orders
    BY DEF IInv, TypeOK, Approvals
  <2>3. QED
    BY <2>1, <2>2 DEF IInv, TypeOK, RefundsWithinDeposit, Pending, InProgress, Unstarted, Kept
<1>6. ASSUME NEW p \in People, NEW action \in Actions, Decide(p, action) PROVE IInv' /\ Kept
  BY <1>6, DecideLemma
<1>7. ASSUME NEW p \in People, Undecided(p) PROVE IInv' /\ Kept
  BY <1>7 DEF Undecided, IInv, TypeOK, RefundsWithinDeposit, Pending, InProgress, Unstarted, Kept
<1>8. CASE Settle("record") \/ Settle("execute")
  BY <1>8 DEF Settle, Idle, IInv, TypeOK, RefundsWithinDeposit, Pending, InProgress, Unstarted, Kept
<1>9. CASE Record \/ Execute
  BY <1>9, ClerkLemma
<1>10. CASE Cancel
  <2>1. deposit' = Released(deposit) /\ clerk' = [Idle EXCEPT !.pc = "withdraw"]
        /\ InProgress /\ UNCHANGED <<steps, approval, handler, decider, mishaps>>
    BY <1>10 DEF Cancel
  <2>2. deposit' \in Deposits /\ RefundsWithinDeposit'
    BY <2>1, AfterRelease DEF IInv, TypeOK
  <2>3. QED
    BY <2>1, <2>2 DEF Idle, IInv, TypeOK, Unstarted, Kept
<1>11. CASE Withdraw \/ Clear
  BY <1>11, WithdrawLemma
<1>12. CASE ClerkStops
  BY <1>12, RefundAssumption DEF ClerkStops, MayFail, Idle, IInv, TypeOK, RefundsWithinDeposit, Pending, InProgress,
     Unstarted, Kept, RefundAssumption
<1>13. ASSUME NEW e \in Edits, Edit(e[1], e[2]) PROVE IInv' /\ Kept
  BY <1>13, EditLemma
<1>14. QED
  BY <1>1, <1>2, <1>3, <1>4, <1>5, <1>6, <1>7, <1>8, <1>9, <1>10, <1>11, <1>12, <1>13 DEF Next

\* The deposit follows a decision only in the step that ends an approval.
LEMMA FollowLemma ==
  ASSUME IInv, [Next]_vars, decider' # decider, deposit' # deposit
  PROVE  \E r \in Requests : Running(approval[r]) /\ approval'[r].status \in {"APPROVED", "REJECTED"}
<1>1. PICK p \in People, action \in Actions : Decide(p, action)
  BY DEF Next, vars, Request, CloseContract, Load, Check, Insert, Look, Undecided, Settle, Record, Execute,
     Cancel, Withdraw, Clear, ClerkStops, Edit
<1>2. QED
  BY <1>1, DecideLemma

\* The invariant holds in every state.
THEOREM Invariance == Spec => []IInv
<1>1. Init => IInv
  BY InitLemma
<1>2. IInv /\ [Next]_vars => IInv'
  BY NextLemma
<1>3. QED
  BY <1>1, <1>2, PTL DEF Spec

\* The deposit, the levels and the approvals have their types, for any number
\* of requests, approvers and levels.
THEOREM TypeCorrect == Spec => []TypeOK
<1>1. IInv => TypeOK
  BY DEF IInv
<1>2. QED
  BY <1>1, Invariance, PTL

\* Whatever is requested, closed, decided, cancelled, recorded and paid side by
\* side, and whatever is edited or dies meanwhile: what is reserved is the refund
\* in progress and what a closure overwrote, and with what was paid the deposit
\* covers it (requestRefund, cancelRefundRequest, executeRefund).
THEOREM RefundsStayWithinDeposit == Spec => []RefundsWithinDeposit
<1>1. IInv => RefundsWithinDeposit
  BY DEF IInv
<1>2. QED
  BY <1>1, Invariance, PTL

\* An approval that has ended stays as it ended, and the deposit follows a
\* decision only in the step that ends the approval (completeInstance).
THEOREM DecidedOnce == Spec => OutcomeAppliedOnce
<1>1. IInv /\ [Next]_vars =>
        [/\ \A r \in Requests : approval[r].status \in {"APPROVED", "REJECTED", "CANCELLED"}
             => approval'[r].status = approval[r].status
         /\ decider' # decider /\ deposit' # deposit
             => \E r \in Requests : Running(approval[r]) /\ approval'[r].status \in {"APPROVED", "REJECTED"}]_vars
  BY NextLemma, FollowLemma DEF Kept, Ended
<1>2. QED
  BY <1>1, Invariance, PTL DEF Spec, OutcomeAppliedOnce

-----------------------------------------------------------------------------
(* Level by level.  While no one edits the steps, an approval opens its    *)
(* levels in their order: what was passed was approved or does not apply,  *)
(* one level waits for people, and those after it have not been heard.     *)

\* Level l of approval x is behind it, rightly.
ByLevel(x, l) ==
  \/ x.level[l] = "NONE"
  \/ x.level[l] = "SKIPPED" /\ x.amount \notin AppliesTo[l]
  \/ x.level[l] = "APPROVED" /\ l \in Passing
  \/ /\ x.level[l] = "APPROVED"
     /\ \A p \in People : <<p, "REJECT">> \notin x.heard[l]
     /\ \/ <<Admin, "APPROVE">> \in x.heard[l]
        \/ x.sent[l] \X {"APPROVE"} \subseteq x.heard[l] /\ x.heard[l] # {}
        \/ l \notin RequireAll /\ x.heard[l] # {}

\* The recorded levels have the steps' orders, each its own; nobody is heard on
\* a level before it opens.
Ordered(x) ==
  /\ x.order = steps
  /\ \A l \in Levels : x.level[l] # "NONE" => x.order[l] # 0
  /\ \A k, l \in Levels : x.level[k] # "NONE" /\ x.level[l] # "NONE" /\ k # l => x.order[k] # x.order[l]
  /\ \A l \in Levels : x.level[l] = "WAITING" => x.heard[l] = {}

\* Level k waits after order o, or is behind.
AfterOrBehind(x, k, o) == (x.level[k] = "WAITING" /\ x.order[k] > o) \/ ByLevel(x, k)

\* Level l is the one that waits for people: nobody rejected it, and the
\* administrator has not decided it.
WaitsAt(x, l) ==
  /\ x.level[l] = "PENDING" /\ x.order[l] = x.current
  /\ \A k \in Levels \ {l} : AfterOrBehind(x, k, x.current)
  /\ \A p \in People : <<p, "REJECT">> \notin x.heard[l]
  /\ \A a \in Actions : <<Admin, a>> \notin x.heard[l]

Proper(x) ==
  x.settled => /\ Running(x) => Ordered(x) /\ \E l \in Levels : WaitsAt(x, l)
               /\ x.status = "APPROVED" => \A l \in Levels : ByLevel(x, l)

\* The approvals whose levels a withdrawal is about to clear were cancelled.
Clearing == clerk.pc = "clear" => \A r \in clerk.ended : approval[r].status = "CANCELLED"

LInv == IInv /\ Clearing /\ \A r \in Requests : Proper(approval[r])

\* A nonempty set of numbers has a least one.
LEMMA Least ==
  ASSUME NEW T \in SUBSET Nat, T # {}
  PROVE  \E m \in T : \A n \in T : m <= n
<1> DEFINE R == OpToRel(<, Nat)
<1>1. IsWellFoundedOn(R, Nat)
  BY NatLessThanWellFounded, Zenon
<1>2. \A y, x \in Nat : <<y, x>> \in R <=> y < x
  BY DEF OpToRel
<1>3. T \subseteq Nat
  OBVIOUS
<1> HIDE DEF R
<1>4. PICK x \in T : \A y \in T : ~ (<<y, x>> \in R)
  BY <1>1, <1>3, WFMin
<1>5. \A y \in T : ~ (y < x)
  BY <1>2, <1>3, <1>4
<1>6. \A y \in T : x <= y
  BY <1>3, <1>5
<1>7. QED
  BY <1>6

\* Among levels there is one of least order.
LEMMA LeastLevel ==
  ASSUME NEW S \in SUBSET Levels, S # {}, NEW f \in [Levels -> Orders]
  PROVE  \E l \in S : \A k \in S : f[l] <= f[k]
<1> DEFINE T == {f[l] : l \in S}
<1>1. T \in SUBSET Nat /\ T # {}
  BY RefundAssumption DEF Orders, RefundAssumption
<1> HIDE DEF T
<1>2. PICK m \in T : \A n \in T : m <= n
  BY <1>1, Least
<1>3. QED
  BY <1>2 DEF T

\* A chain is a sequence of levels.
LEMMA ChainLemma ==
  ASSUME NEW p \in Chains
  PROVE  /\ Len(p) \in Nat /\ DOMAIN p = 1..Len(p) /\ \A k \in 1..Len(p) : p[k] \in Levels
         /\ p = <<>> <=> Len(p) = 0
         /\ \A k \in 1..(Len(p) - 1) : p[k] \in Passing
<1>1. p \in UNION {[1..n -> Levels] : n \in 0..NumLevels}
  BY DEF Chains
<1>2. p \in Seq(Levels)
  BY <1>1, RefundAssumption, SeqDef DEF RefundAssumption
<1>3. Len(p) \in Nat /\ DOMAIN p = 1..Len(p) /\ \A k \in 1..Len(p) : p[k] \in Levels
  BY <1>2, LenProperties, ElementOfSeq
<1>4. p = <<>> <=> Len(p) = 0
  BY <1>2, EmptySeq
<1>5. QED
  BY <1>3, <1>4 DEF Chains

\* A path opens waiting levels in their order: those it leaves come after all of
\* it, and it leaves none unless it ends at a level that waits for people.
LEMMA PathLemma ==
  ASSUME NEW x \in Approvals, steps \in [Levels -> Orders], Ordered(x), NEW after \in Orders,
         \A w \in Levels : x.level[w] = "WAITING" => x.order[w] > after,
         NEW p \in Paths(x, after)
  PROVE  LET left == {w \in Levels : x.level[w] = "WAITING" /\ \A j \in 1..Len(p) : p[j] # w} IN
         /\ \A k \in 1..Len(p) : x.level[p[k]] = "WAITING"
         /\ \A w \in left, k \in 1..Len(p) : x.order[p[k]] < x.order[w]
         /\ p = <<>> \/ p[Len(p)] \in Passing => left = {}
<1> DEFINE left == {w \in Levels : x.level[w] = "WAITING" /\ \A j \in 1..Len(p) : p[j] # w}
           before(k) == {p[j] : j \in 1..(k - 1)}
           from(k) == IF k = 1 THEN after ELSE steps[p[k - 1]]
           open(k) == {l \in Levels \ before(k) : x.level[l] = "WAITING" /\ steps[l] # 0 /\ x.order[l] > from(k)}
<1>1. p \in Chains /\ Len(p) \in Nat /\ \A k \in 1..Len(p) : p[k] \in Levels
  BY ChainLemma DEF Paths
<1>2. \A k \in 1..Len(p) : p[k] \in open(k) /\ \A l \in open(k) : x.order[p[k]] <= x.order[l]
  BY <1>1, ChainLemma DEF Paths, NextLevels
<1>3. \A k \in 1..Len(p) : x.level[p[k]] = "WAITING"
  BY <1>2
<1>4. /\ x.order = steps /\ steps \in [Levels -> Nat] /\ after \in Nat
      /\ \A l \in Levels : x.level[l] = "WAITING" => steps[l] # 0
      /\ \A k, l \in Levels : x.level[k] = "WAITING" /\ x.level[l] = "WAITING" /\ k # l => steps[k] # steps[l]
  BY RefundAssumption DEF Ordered, Orders, RefundAssumption
\* By the least position on the path that does not come before w.
<1>5. ASSUME NEW w \in left, NEW k \in 1..Len(p)
      PROVE  x.order[p[k]] < x.order[w]
  <2> DEFINE T == {i \in 1..Len(p) : ~ (x.order[p[i]] < x.order[w])}
  <2>1. SUFFICES T = {}
    BY <1>5
  <2>2. SUFFICES ASSUME T # {} PROVE FALSE
    OBVIOUS
  <2>3. T \in SUBSET Nat
    BY <1>1
  <2>4. PICK m \in T : \A n \in T : m <= n
    BY <2>2, <2>3, Least
  <2>5. m \in 1..Len(p) /\ ~ (x.order[p[m]] < x.order[w])
    OBVIOUS
  <2>6. x.order[w] > from(m)
    <3>1. CASE m = 1
      BY <1>5, <3>1
    <3>2. CASE m # 1
      <4>1. m - 1 \in 1..Len(p) /\ ~ (m <= m - 1)
        BY <1>1, <2>5, <3>2
      <4>2. x.order[p[m - 1]] < x.order[w]
        BY <2>4, <4>1
      <4>3. QED
        BY <1>1, <1>4, <1>5, <3>2, <4>1, <4>2
    <3>3. QED
      BY <3>1, <3>2
  <2>7. w \notin before(m) /\ p[m] # w
    BY <1>1, <1>5, <2>5
  <2>8. w \in open(m)
    BY <1>4, <1>5, <2>6, <2>7
  <2>9. x.order[p[m]] <= x.order[w]
    BY <1>2, <2>5, <2>8
  <2>10. QED
    BY <1>1, <1>3, <1>4, <1>5, <2>5, <2>7, <2>9
<1>6. ASSUME p = <<>> \/ p[Len(p)] \in Passing, NEW w \in left
      PROVE  FALSE
  <2>1. NextLevels(x, before(Len(p) + 1), from(Len(p) + 1)) = {}
    BY <1>6 DEF Paths
  <2>2. x.order[w] > from(Len(p) + 1)
    <3>1. CASE Len(p) = 0
      BY <1>6, <3>1
    <3>2. CASE Len(p) # 0
      BY <1>1, <1>4, <1>5, <1>6, <3>2
    <3>3. QED
      BY <3>1, <3>2
  <2>3. w \in open(Len(p) + 1)
    BY <1>1, <1>4, <1>6, <2>2
  <2> DEFINE S == open(Len(p) + 1)
  <2>4. S \in SUBSET Levels /\ S # {} /\ NextLevels(x, before(Len(p) + 1), from(Len(p) + 1)) = {l \in S : \A k \in S : x.order[l] <= x.order[k]}
    BY <2>3 DEF NextLevels
  <2> HIDE DEF S
  <2>5. \E l \in S : \A k \in S : x.order[l] <= x.order[k]
    BY <1>4, <2>4, LeastLevel
  <2>6. QED
    BY <2>1, <2>4, <2>5
<1>7. QED
  BY <1>3, <1>5, <1>6

\* What decides whether a level is behind.
LEMMA SameLevel ==
  ASSUME NEW x, NEW y, NEW l, y.level[l] = x.level[l], y.amount = x.amount,
         y.heard[l] = x.heard[l], y.sent[l] = x.sent[l]
  PROVE  ByLevel(y, l) <=> ByLevel(x, l)
BY DEF ByLevel

\* openNextLevel, from an approval whose levels wait after the order or are
\* behind: it waits for people at the level it opens last, or has none left.
LEMMA OpenedProper ==
  ASSUME NEW x \in Approvals, steps \in [Levels -> Orders], Running(x), Ordered(x),
         NEW after \in Orders, \A l \in Levels : AfterOrBehind(x, l, after),
         NEW p \in Paths(x, after), NEW sent \in SUBSET Approvers
  PROVE  Proper(Opened(x, p, sent))
<1> DEFINE waits == p # <<>> /\ p[Len(p)] \notin Passing
           last  == p[Len(p)]
           on(l) == \E k \in 1..Len(p) : p[k] = l
           moved == [x EXCEPT
             !.current = IF p = <<>> THEN @ ELSE steps[last],
             !.level = [l \in Levels |-> IF \A k \in DOMAIN p : p[k] # l THEN @[l]
                                         ELSE IF waits /\ l = last THEN "PENDING" ELSE "APPROVED"],
             !.sent = [l \in Levels |-> IF waits /\ l = last THEN sent ELSE @[l]]]
<1>1. /\ p \in Chains /\ Len(p) \in Nat /\ DOMAIN p = 1..Len(p) /\ \A k \in 1..Len(p) : p[k] \in Levels
      /\ p = <<>> <=> Len(p) = 0
      /\ \A k \in 1..(Len(p) - 1) : p[k] \in Passing
  BY ChainLemma DEF Paths
<1>2. \A w \in Levels : x.level[w] = "WAITING" => x.order[w] > after
  BY DEF AfterOrBehind, ByLevel
<1>3. /\ \A l \in Levels : on(l) => x.level[l] = "WAITING"
      /\ p # <<>> => \A w \in Levels : x.level[w] = "WAITING" /\ ~ on(w) => x.order[last] < x.order[w]
      /\ ~ waits => \A w \in Levels : x.level[w] = "WAITING" => on(w)
  <2> DEFINE left == {w \in Levels : x.level[w] = "WAITING" /\ \A j \in 1..Len(p) : p[j] # w}
  <2>1. /\ \A k \in 1..Len(p) : x.level[p[k]] = "WAITING"
        /\ \A w \in left, k \in 1..Len(p) : x.order[p[k]] < x.order[w]
        /\ p = <<>> \/ p[Len(p)] \in Passing => left = {}
    BY <1>2, PathLemma
  <2>2. \A w \in Levels : x.level[w] = "WAITING" /\ ~ on(w) => w \in left
    OBVIOUS
  <2>3. p # <<>> => Len(p) \in 1..Len(p)
    BY <1>1
  <2> HIDE DEF left
  <2>4. QED
    BY <2>1, <2>2, <2>3
<1>4. \A l \in Levels : on(l) /\ ~ (waits /\ l = last) => l \in Passing
  BY <1>1
<1>5. \A l \in Levels : x.level[l] # "WAITING" => ByLevel(x, l)
  BY DEF AfterOrBehind
<1>6. waits => last \in Levels /\ on(last)
  BY <1>1
<1>7. /\ moved.status = x.status /\ moved.settled = x.settled /\ moved.amount = x.amount
      /\ moved.order = x.order /\ moved.heard = x.heard
      /\ p # <<>> => moved.current = steps[last]
      /\ \A l \in Levels : moved.level[l] = IF ~ on(l) THEN x.level[l]
                                            ELSE IF waits /\ l = last THEN "PENDING" ELSE "APPROVED"
      /\ \A l \in Levels : moved.sent[l] = IF waits /\ l = last THEN sent ELSE x.sent[l]
  BY <1>1 DEF Approvals
<1>8. Opened(x, p, sent) = IF waits THEN moved ELSE Completed(moved, "APPROVED")
  BY DEF Opened
<1> HIDE DEF moved, on, last
<1>9. \A l \in Levels : x.level[l] # "WAITING" \/ (on(l) /\ ~ (waits /\ l = last)) => ByLevel(moved, l)
  <2>1. ASSUME NEW l \in Levels, x.level[l] # "WAITING" PROVE ByLevel(moved, l)
    <3>1. ~ on(l) /\ ~ (waits /\ l = last)
      BY <1>3, <1>6, <2>1
    <3>2. QED
      BY <1>5, <1>7, <2>1, <3>1, SameLevel
  <2>2. ASSUME NEW l \in Levels, on(l) /\ ~ (waits /\ l = last) PROVE ByLevel(moved, l)
    BY <1>4, <1>7, <2>2 DEF ByLevel
  <2>3. QED
    BY <2>1, <2>2
<1>10. CASE waits
  <2>1. Opened(x, p, sent) = moved /\ p # <<>>
    BY <1>8, <1>10
  <2>2. Ordered(moved)
    BY <1>3, <1>7 DEF Ordered
  <2>3. WaitsAt(moved, last)
    <3>1. moved.level[last] = "PENDING" /\ moved.order[last] = moved.current /\ moved.heard[last] = {}
      BY <1>3, <1>6, <1>7, <1>10, <2>1 DEF Ordered
    <3>2. ASSUME NEW k \in Levels \ {last} PROVE AfterOrBehind(moved, k, moved.current)
      <4>1. CASE x.level[k] # "WAITING" \/ on(k)
        BY <1>9, <3>2, <4>1 DEF AfterOrBehind
      <4>2. CASE x.level[k] = "WAITING" /\ ~ on(k)
        <5>1. x.order[last] < x.order[k] /\ x.order[last] \in Int /\ x.order[k] \in Int
          BY <1>3, <1>6, <1>10, <2>1, <4>2, RefundAssumption DEF Approvals, Orders, RefundAssumption
        <5>2. moved.level[k] = "WAITING" /\ moved.order[k] = x.order[k] /\ moved.current = x.order[last]
          BY <1>7, <2>1, <4>2 DEF Ordered
        <5>3. QED
          BY <5>1, <5>2 DEF AfterOrBehind
      <4>3. QED
        BY <4>1, <4>2
    <3>3. QED
      BY <3>1, <3>2 DEF WaitsAt
  <2>4. moved.status # "APPROVED"
    BY <1>7 DEF Running
  <2>5. QED
    BY <1>6, <1>10, <2>1, <2>2, <2>3, <2>4 DEF Proper
<1>11. CASE ~ waits
  <2> DEFINE y == Opened(x, p, sent)
  <2>1. /\ y.status = "APPROVED" /\ y.amount = moved.amount /\ y.heard = moved.heard /\ y.sent = moved.sent
        /\ \A l \in Levels : y.level[l] = moved.level[l]
    <3>1. moved \in Approvals /\ Running(moved)
      <4>1. (IF p = <<>> THEN x.current ELSE steps[last]) \in Orders
        BY <1>1, LastLevel DEF Approvals, last
      <4>2. [l \in Levels |-> IF \A k \in DOMAIN p : p[k] # l THEN x.level[l]
                              ELSE IF waits /\ l = last THEN "PENDING" ELSE "APPROVED"]
              \in [Levels -> {"NONE", "WAITING", "PENDING", "APPROVED", "REJECTED", "SKIPPED"}]
        BY DEF Approvals
      <4>3. [l \in Levels |-> IF waits /\ l = last THEN sent ELSE x.sent[l]] \in [Levels -> SUBSET Approvers]
        BY DEF Approvals
      <4> HIDE DEF waits
      <4>4. moved \in Approvals
        BY <4>1, <4>2, <4>3 DEF Approvals, moved, last
      <4>5. QED
        BY <1>7, <4>4 DEF Running
    <3> DEFINE f == [l \in Levels |-> IF "APPROVED" = "REJECTED" /\ moved.level[l] = "WAITING" THEN "SKIPPED"
                                      ELSE moved.level[l]]
    <3>2. y = [moved EXCEPT !.status = "APPROVED", !.level = f]
      BY <1>8, <1>11, <3>1 DEF Completed
    <3>3. \A l \in Levels : f[l] = moved.level[l]
      OBVIOUS
    <3> HIDE DEF f, y
    <3>4. QED
      BY <3>1, <3>2, <3>3 DEF Approvals
  <2> HIDE DEF y
  <2>2. ASSUME NEW l \in Levels PROVE ByLevel(y, l)
    <3>1. ByLevel(moved, l)
      BY <1>3, <1>9, <1>11
    <3>2. QED
      BY <2>1, <3>1, SameLevel
  <2>3. QED
    BY <2>1, <2>2 DEF Proper, Running, y
<1>12. QED
  BY <1>10, <1>11

\* Opening and completing leave what says whether the steps were edited.
LEMMA SettledLemma ==
  ASSUME NEW x \in Approvals
  PROVE  /\ \A outcome : Completed(x, outcome).settled = x.settled
         /\ \A p, sent : Opened(x, p, sent).settled = x.settled
<1>1. \A y, outcome : y.settled = x.settled => Completed(y, outcome).settled = x.settled
  BY DEF Completed
<1>2. QED
  BY <1>1 DEF Opened, Approvals

\* A decision heard on the level that waits.
LEMMA HeardLemma ==
  ASSUME NEW x \in Approvals, NEW l \in Levels, NEW d
  PROVE  LET said == [x EXCEPT !.heard[l] = @ \cup {d}] IN
         /\ said.status = x.status /\ said.settled = x.settled /\ said.amount = x.amount
         /\ said.order = x.order /\ said.level = x.level /\ said.current = x.current /\ said.sent = x.sent
         /\ said.heard[l] = x.heard[l] \cup {d}
         /\ \A k \in Levels \ {l} : said.heard[k] = x.heard[k]
BY DEF Approvals

\* What the outcome of a level says of the decisions heard on it.
LEMMA OutcomeLemma ==
  ASSUME NEW x \in Approvals, NEW l \in Levels, steps[l] # 0
  PROVE  /\ LevelOutcome(x, l) = "PENDING" =>
              /\ \A p \in People : <<p, "REJECT">> \notin x.heard[l]
              /\ <<Admin, "APPROVE">> \notin x.heard[l]
         /\ LevelOutcome(x, l) = "APPROVED" =>
              /\ \A p \in People : <<p, "REJECT">> \notin x.heard[l]
              /\ \/ <<Admin, "APPROVE">> \in x.heard[l]
                 \/ x.sent[l] \X {"APPROVE"} \subseteq x.heard[l] /\ x.heard[l] # {}
                 \/ l \notin RequireAll /\ x.heard[l] # {}
<1> DEFINE nays == {p \in People : <<p, "REJECT">> \in x.heard[l]}
           ayes == {p \in People : <<p, "APPROVE">> \in x.heard[l]}
           all  == l \in RequireAll /\ x.sent[l] # {}
<1>1. /\ Admin \in People /\ x.sent[l] \subseteq People
      /\ \A p \in People : /\ <<p, "REJECT">> \in x.heard[l] <=> p \in nays
                           /\ <<p, "APPROVE">> \in x.heard[l] <=> p \in ayes
  BY DEF People, Approvals
<1>2. LevelOutcome(x, l) =
        IF nays # {} THEN "REJECTED"
        ELSE IF Admin \in ayes \/ (~all /\ ayes # {}) \/ (all /\ x.sent[l] \subseteq ayes) THEN "APPROVED"
        ELSE "PENDING"
  BY DEF LevelOutcome
<1>3. ayes # {} => x.heard[l] # {}
  OBVIOUS
<1>4. x.sent[l] \subseteq ayes => x.sent[l] \X {"APPROVE"} \subseteq x.heard[l]
  OBVIOUS
<1> HIDE DEF nays, ayes, all
<1>5. CASE LevelOutcome(x, l) = "PENDING"
  <2>1. nays = {} /\ Admin \notin ayes
    BY <1>2, <1>5
  <2>2. QED
    BY <1>1, <1>5, <2>1
<1>6. CASE LevelOutcome(x, l) = "APPROVED"
  <2>1. nays = {} /\ (Admin \in ayes \/ (~all /\ ayes # {}) \/ (all /\ x.sent[l] \subseteq ayes))
    BY <1>2, <1>6
  <2>2. ~all /\ ayes # {} => l \notin RequireAll \/ x.sent[l] \subseteq ayes
    BY DEF all
  <2>3. all /\ x.sent[l] \subseteq ayes => ayes # {}
    BY DEF all
  <2>4. QED
    BY <1>1, <1>3, <1>4, <1>6, <2>1, <2>2, <2>3
<1>7. QED
  BY <1>5, <1>6

\* The level that waits is the only one pending.
LEMMA OneWaits ==
  ASSUME NEW x, NEW l \in Levels, WaitsAt(x, l), NEW k \in Levels, x.level[k] = "PENDING"
  PROVE  k = l
BY DEF WaitsAt, AfterOrBehind, ByLevel

\* A decision that leaves its level pending, or closes it as approved.
LEMMA DecidedLevel ==
  ASSUME NEW x \in Approvals, steps \in [Levels -> Orders], Ordered(x),
         NEW l \in Levels, WaitsAt(x, l), NEW p \in People, NEW action \in Actions
  PROVE  LET said    == [x EXCEPT !.heard[l] = @ \cup {<<p, action>>}]
             outcome == LevelOutcome(said, l)
             closed  == [said EXCEPT !.level[l] = outcome]
         IN /\ outcome = "PENDING" => Ordered(said) /\ WaitsAt(said, l)
            /\ outcome = "APPROVED" => /\ Ordered(closed)
                                       /\ \A k \in Levels : AfterOrBehind(closed, k, x.current)
<1> DEFINE said    == [x EXCEPT !.heard[l] = @ \cup {<<p, action>>}]
           outcome == LevelOutcome(said, l)
           closed  == [said EXCEPT !.level[l] = outcome]
<1>1. /\ said \in Approvals
      /\ said.status = x.status /\ said.settled = x.settled /\ said.amount = x.amount
      /\ said.order = x.order /\ said.level = x.level /\ said.current = x.current /\ said.sent = x.sent
      /\ said.heard[l] = x.heard[l] \cup {<<p, action>>}
      /\ \A k \in Levels \ {l} : said.heard[k] = x.heard[k]
  <2>1. PICK d \in People \X Actions : d = <<p, action>>
    OBVIOUS
  <2>2. said = [x EXCEPT !.heard[l] = @ \cup {d}]
    BY <2>1
  <2> HIDE DEF said
  <2>3. said \in Approvals
    BY <2>2, SaidLemma
  <2>4. /\ said.status = x.status /\ said.settled = x.settled /\ said.amount = x.amount
        /\ said.order = x.order /\ said.level = x.level /\ said.current = x.current /\ said.sent = x.sent
        /\ said.heard[l] = x.heard[l] \cup {d}
        /\ \A k \in Levels \ {l} : said.heard[k] = x.heard[k]
    BY <2>2, HeardLemma
  <2>5. QED
    BY <2>1, <2>3, <2>4
<1>2. /\ x.level[l] = "PENDING" /\ x.order[l] = x.current /\ steps[l] # 0
      /\ \A k \in Levels \ {l} : AfterOrBehind(x, k, x.current)
      /\ \A a \in Actions : <<Admin, a>> \notin x.heard[l]
      /\ \A q \in People : <<q, "REJECT">> \notin x.heard[l]
  BY DEF WaitsAt, Ordered
<1> HIDE DEF said
<1>3. /\ outcome = "PENDING" =>
           /\ \A q \in People : <<q, "REJECT">> \notin said.heard[l]
           /\ <<Admin, "APPROVE">> \notin said.heard[l]
      /\ outcome = "APPROVED" =>
           /\ \A q \in People : <<q, "REJECT">> \notin said.heard[l]
           /\ \/ <<Admin, "APPROVE">> \in said.heard[l]
              \/ said.sent[l] \X {"APPROVE"} \subseteq said.heard[l] /\ said.heard[l] # {}
              \/ l \notin RequireAll /\ said.heard[l] # {}
  BY <1>1, <1>2, OutcomeLemma
<1> HIDE DEF outcome
<1>4. Ordered(said)
  BY <1>1, <1>2 DEF Ordered
<1>5. \A k \in Levels \ {l} : AfterOrBehind(said, k, x.current)
  BY <1>1, <1>2 DEF AfterOrBehind, ByLevel
<1>6. ASSUME outcome = "PENDING" PROVE WaitsAt(said, l)
  <2>1. \A a \in Actions : <<Admin, a>> \notin said.heard[l]
    BY <1>3, <1>6 DEF Actions, People
  <2>2. QED
    BY <1>1, <1>2, <1>3, <1>5, <1>6, <2>1 DEF WaitsAt
<1>7. ASSUME outcome = "APPROVED"
      PROVE  Ordered(closed) /\ \A k \in Levels : AfterOrBehind(closed, k, x.current)
  <2>1. /\ closed.order = said.order /\ closed.heard = said.heard /\ closed.sent = said.sent
        /\ closed.amount = said.amount /\ closed.level[l] = "APPROVED"
        /\ \A k \in Levels \ {l} : closed.level[k] = said.level[k]
    BY <1>1, <1>7 DEF Approvals
  <2> HIDE DEF closed
  <2>2. Ordered(closed)
    BY <1>1, <1>2, <1>4, <2>1 DEF Ordered
  <2>3. ByLevel(closed, l)
    BY <1>3, <1>7, <2>1 DEF ByLevel
  <2>4. ASSUME NEW k \in Levels \ {l} PROVE AfterOrBehind(closed, k, x.current)
    BY <1>5, <2>1 DEF AfterOrBehind, ByLevel
  <2>5. QED
    BY <2>2, <2>3, <2>4 DEF AfterOrBehind
<1>8. QED
  BY <1>4, <1>6, <1>7 DEF said, outcome

-----------------------------------------------------------------------------
(* The steps keep every approval level by level. *)

\* A transaction of the engine on one approval.
LEMMA WrittenProper ==
  ASSUME LInv, IInv', Kept, NEW r \in Requests, NEW y, Proper(y),
         approval' = [approval EXCEPT ![r] = y], steps' = steps, clerk' = clerk
  PROVE  LInv'
<1>1. approval \in [Requests -> Approvals] /\ clerk.ended \subseteq Requests
  BY DEF LInv, IInv, TypeOK
<1>2. ASSUME NEW q \in Requests PROVE Proper(approval[q])'
  <2>1. approval'[q] = IF q = r THEN y ELSE approval[q]
    BY <1>1
  <2>2. Proper(approval[q]) /\ Proper(y)
    BY DEF LInv
  <2>3. QED
    BY <2>1, <2>2 DEF Proper, Ordered, Running
<1>3. Clearing'
  BY <1>1 DEF LInv, Clearing, Kept, Ended
<1>4. QED
  BY <1>2, <1>3 DEF LInv

\* An approval starts with every level waiting in its order, skipped because it
\* does not apply, or not there.
LEMMA InsertProper ==
  ASSUME LInv, IInv', Kept, NEW r \in Requests, Insert(r)
  PROVE  LInv'
<1> DEFINE here == {l \in Levels : steps[l] # 0}
           a == handler[r].amount
           new(f) ==
             [NotStarted EXCEPT
                !.status = "IN_PROGRESS", !.amount = a, !.order = steps, !.current = steps[f],
                !.level = [l \in Levels |-> IF l \notin here THEN "NONE"
                                            ELSE IF a \in AppliesTo[l] THEN "WAITING" ELSE "SKIPPED"],
                !.settled = \A k, l \in here : k # l => steps[k] # steps[l]]
<1>1. PICK first \in here, sent \in {Approvers, {}} :
        \E p \in Paths(new(first), 0) : Write(r, Opened(new(first), p, sent), new(first))
  BY Zenon DEF Insert
<1>2. PICK p \in Paths(new(first), 0) : Write(r, Opened(new(first), p, sent), new(first))
  BY <1>1
<1> DEFINE x == new(first)
<1>3. /\ x.status = "IN_PROGRESS" /\ x.amount = a /\ x.order = steps
      /\ \A l \in Levels : x.level[l] = IF l \notin here THEN "NONE" ELSE IF a \in AppliesTo[l] THEN "WAITING" ELSE "SKIPPED"
      /\ \A l \in Levels : x.heard[l] = {}
      /\ x.settled = (\A k, l \in here : k # l => steps[k] # steps[l])
  BY DEF NotStarted
<1>4. steps \in [Levels -> Orders] /\ steps \in [Levels -> Nat] /\ 0 \in Orders /\ a \in Sums
  BY RefundAssumption DEF LInv, IInv, TypeOK, Orders, RefundAssumption
<1>5. x \in Approvals
  <2>1. (\A k, l \in here : k # l => steps[k] # steps[l]) \in BOOLEAN
    OBVIOUS
  <2>2. [l \in Levels |-> IF l \notin here THEN "NONE" ELSE IF a \in AppliesTo[l] THEN "WAITING" ELSE "SKIPPED"]
          \in [Levels -> {"NONE", "WAITING", "PENDING", "APPROVED", "REJECTED", "SKIPPED"}]
    OBVIOUS
  <2>3. steps[first] \in Orders
    BY <1>4
  <2> HIDE DEF here, a
  <2>4. QED
    BY <1>4, <2>1, <2>2, <2>3 DEF NotStarted, Approvals
<1>6. Write(r, Opened(x, p, sent), x) /\ p \in Paths(x, 0) /\ sent \in SUBSET Approvers
  BY <1>2
<1> HIDE DEF new, x, a
<1>7. Proper(Opened(x, p, sent))
  <2>1. CASE ~ x.settled
    <3>1. Opened(x, p, sent).settled = x.settled
      BY <1>5, SettledLemma
    <3>2. QED
      BY <2>1, <3>1 DEF Proper
  <2>2. CASE x.settled
    <3>1. Ordered(x)
      BY <1>3, <1>4, <2>2 DEF Ordered
    <3>2. ASSUME NEW l \in Levels PROVE AfterOrBehind(x, l, 0)
      <4>1. steps[l] \in Nat /\ x.order[l] = steps[l]
        BY <1>3, <1>4
      <4>2. QED
        BY <1>3, <4>1 DEF AfterOrBehind, ByLevel
    <3>3. Running(x)
      BY <1>3 DEF Running
    <3>4. QED
      BY <1>4, <1>5, <1>6, <3>1, <3>2, <3>3, OpenedProper
  <2>3. QED
    BY <2>1, <2>2
<1>8. approval' = [approval EXCEPT ![r] = Opened(x, p, sent)] /\ steps' = steps /\ clerk' = clerk
  BY <1>6 DEF Write, Insert
<1>9. QED
  BY <1>7, <1>8, WrittenProper

\* A decision on the level that waits: it still waits, or its approval is
\* recorded and the next level opens, or the approval ends.
LEMMA DecideProper ==
  ASSUME LInv, IInv', Kept, NEW p \in People, NEW action \in Actions, Decide(p, action)
  PROVE  LInv'
<1> DEFINE r == decider[p].request
           x == approval[r]
           o == decider[p].order
           l == CHOOSE k \in Levels : x.level[k] = "PENDING" /\ x.order[k] = o
           said == [x EXCEPT !.heard[l] = @ \cup {<<p, action>>}]
           outcome == LevelOutcome(said, l)
           closed == [said EXCEPT !.level[l] = outcome]
<1>1. /\ r \in Requests /\ x \in Approvals /\ o \in Orders /\ steps \in [Levels -> Orders] /\ Proper(x)
  BY DEF Decide, LInv, IInv, TypeOK
<1>2. l \in Levels /\ x.level[l] = "PENDING" /\ x.order[l] = o
  BY DEF Decide
<1>3. \/ outcome = "PENDING" /\ Write(r, said, x)
      \/ outcome = "REJECTED" /\ Write(r, Completed(closed, "REJECTED"), x)
      \/ /\ outcome = "APPROVED"
         /\ \E path \in Paths(closed, o), sent \in {Approvers, {}} : Write(r, Opened(closed, path, sent), x)
  BY DEF Decide
<1>4. steps' = steps /\ clerk' = clerk
  BY DEF Decide
<1> HIDE DEF r, x, o, l
<1>5. said \in Approvals /\ said.status = x.status /\ said.settled = x.settled /\ said.current = x.current
  <2>1. said \in Approvals /\ said.status = x.status
    <3>1. <<p, action>> \in People \X Actions
      OBVIOUS
    <3>2. QED
      BY <1>1, <1>2, <3>1, SaidLemma
  <2>2. said.settled = x.settled /\ said.current = x.current
    BY <1>1, <1>2 DEF Approvals
  <2>3. QED
    BY <2>1, <2>2
<1>6. Running(x) /\ x.settled =>
        /\ o = x.current
        /\ outcome = "PENDING" => Ordered(said) /\ WaitsAt(said, l)
        /\ outcome = "APPROVED" => Ordered(closed) /\ \A k \in Levels : AfterOrBehind(closed, k, o)
  <2>1. SUFFICES ASSUME Running(x), x.settled
                 PROVE  /\ o = x.current
                        /\ outcome = "PENDING" => Ordered(said) /\ WaitsAt(said, l)
                        /\ outcome = "APPROVED" => Ordered(closed) /\ \A k \in Levels : AfterOrBehind(closed, k, o)
    OBVIOUS
  <2>2. PICK k \in Levels : Ordered(x) /\ WaitsAt(x, k)
    BY <1>1, <2>1 DEF Proper
  <2>3. k = l
    BY <1>2, <2>2, OneWaits
  <2>4. o = x.current
    BY <1>2, <2>2, <2>3 DEF WaitsAt
  <2>5. Ordered(x) /\ WaitsAt(x, l)
    BY <2>2, <2>3
  <2>6. /\ outcome = "PENDING" => Ordered(said) /\ WaitsAt(said, l)
        /\ outcome = "APPROVED" => Ordered(closed) /\ \A j \in Levels : AfterOrBehind(closed, j, x.current)
    BY <1>1, <1>2, <2>5, DecidedLevel, Zenon
  <2> HIDE DEF said, outcome, closed
  <2>7. QED
    BY <2>4, <2>6
<1>7. x.status = "APPROVED" => ~ x.settled
  BY <1>1, <1>2 DEF Proper, ByLevel
<1> HIDE DEF said, outcome
<1>8. closed \in Approvals /\ closed.status = x.status /\ closed.settled = x.settled
  <2>1. outcome \in {"PENDING", "APPROVED", "REJECTED"}
    BY LevelOutcomeLemma DEF outcome
  <2>2. closed \in Approvals /\ closed.status = said.status
    BY <1>2, <1>5, <2>1, ClosedLemma
  <2>3. QED
    BY <1>5, <2>2 DEF Approvals
<1> HIDE DEF closed
<1>9. ASSUME NEW y, Write(r, y, x), Proper(y) PROVE LInv'
  BY <1>1, <1>4, <1>9, WrittenProper DEF Write
<1>10. \A y : ~ (Running(x) /\ x.settled) /\ y.settled = x.settled /\ (~ Running(x) => y.status = x.status) => Proper(y)
  BY <1>7 DEF Proper, Running
<1>11. CASE outcome = "PENDING" /\ Write(r, said, x)
  <2>1. Proper(said)
    <3>1. CASE Running(x) /\ x.settled
      BY <1>2, <1>5, <1>6, <1>11, <3>1 DEF Proper, Running
    <3>2. CASE ~ (Running(x) /\ x.settled)
      BY <1>5, <1>10, <3>2
    <3>3. QED
      BY <3>1, <3>2
  <2>2. QED
    BY <1>9, <1>11, <2>1
<1>12. CASE outcome = "REJECTED" /\ Write(r, Completed(closed, "REJECTED"), x)
  <2> DEFINE y == Completed(closed, "REJECTED")
  <2>1. /\ y.settled = closed.settled
        /\ Running(closed) => y.status = "REJECTED"
        /\ ~ Running(closed) => y.status = closed.status
    BY <1>8, SettledLemma, CompletedLemma
  <2> HIDE DEF y
  <2>2. Proper(y)
    BY <1>7, <1>8, <2>1 DEF Proper, Running
  <2>3. QED
    BY <1>9, <1>12, <2>2 DEF y
<1>13. ASSUME outcome = "APPROVED", NEW path \in Paths(closed, o), NEW sent \in {Approvers, {}},
              Write(r, Opened(closed, path, sent), x)
       PROVE  LInv'
  <2> DEFINE y == Opened(closed, path, sent)
  <2>1. sent \in SUBSET Approvers /\ path \in Chains
    BY <1>13 DEF Paths
  <2>2. Proper(y)
    <3>1. CASE Running(x) /\ x.settled
      <4>1. Running(closed)
        BY <1>8, <3>1 DEF Running
      <4>2. QED
        BY <1>1, <1>6, <1>8, <1>13, <2>1, <3>1, <4>1, OpenedProper
    <3>2. CASE ~ (Running(x) /\ x.settled)
      <4>1. y.settled = closed.settled
        BY <1>8, SettledLemma
      <4>2. ~ Running(closed) => y.status = closed.status
        BY <1>1, <1>8, <2>1, OpenedLemma
      <4> HIDE DEF y
      <4>3. QED
        BY <1>8, <1>10, <3>2, <4>1, <4>2 DEF Running
    <3>3. QED
      BY <3>1, <3>2
  <2>3. QED
    BY <1>9, <1>13, <2>2
<1>14. QED
  BY <1>3, <1>11, <1>12, <1>13

\* The steps that leave the approvals and the levels alone.
LEMMA OtherProper ==
  ASSUME LInv, IInv', UNCHANGED <<approval, steps>>, clerk' = clerk \/ clerk'.pc # "clear"
  PROVE  LInv'
BY DEF LInv, Clearing, Proper, Ordered, Running

\* A withdrawal cancels what is running, then clears only what it cancelled.
LEMMA WithdrawProper ==
  ASSUME LInv, IInv', Kept, Withdraw \/ Clear
  PROVE  LInv'
<1>1. approval \in [Requests -> Approvals] /\ clerk.ended \subseteq Requests /\ steps' = steps
  BY DEF LInv, IInv, TypeOK, Withdraw, Clear
<1>2. CASE Withdraw
  <2>1. \A r \in Requests : approval'[r] = IF Running(approval[r]) THEN [approval[r] EXCEPT !.status = "CANCELLED"]
                                                                  ELSE approval[r]
    BY <1>2 DEF Withdraw
  <2>2. ASSUME NEW r \in Requests PROVE Proper(approval[r])'
    <3>1. CASE Running(approval[r])
      <4>1. approval'[r].status = "CANCELLED"
        BY <1>1, <2>1, <3>1 DEF Approvals
      <4>2. QED
        BY <4>1 DEF Proper, Running
    <3>2. CASE ~ Running(approval[r])
      BY <1>1, <2>1, <3>2 DEF LInv, Proper, Running
    <3>3. QED
      BY <3>1, <3>2
  <2>3. Clearing'
    <3>1. clerk'.pc = "clear" => clerk'.ended = {r \in Requests : Running(approval[r])}
      BY <1>2 DEF Withdraw, Idle
    <3>2. ASSUME NEW r \in Requests, Running(approval[r]) PROVE approval'[r].status = "CANCELLED"
      BY <1>1, <2>1, <3>2 DEF Approvals
    <3>3. QED
      BY <3>1, <3>2 DEF Clearing
  <2>4. QED
    BY <2>2, <2>3 DEF LInv
<1>3. CASE Clear
  <2>1. \A r \in clerk.ended : approval[r].status = "CANCELLED"
    BY <1>3 DEF LInv, Clearing, Clear
  <2>2. \A r \in Requests : r \notin clerk.ended => approval'[r] = approval[r]
    BY <1>3 DEF Clear
  <2>3. \A r \in Requests : r \in clerk.ended => approval'[r].status = "CANCELLED"
    BY <2>1 DEF Kept, Ended
  <2>4. ASSUME NEW r \in Requests PROVE Proper(approval[r])'
    BY <1>1, <2>2, <2>3 DEF LInv, Proper, Ordered, Running
  <2>5. Clearing'
    BY <1>3 DEF Clear, Idle, Clearing
  <2>6. QED
    BY <2>4, <2>5 DEF LInv
<1>4. QED
  BY <1>2, <1>3

\* An edit of the steps marks every approval that is running.
LEMMA EditProper ==
  ASSUME LInv, IInv', Kept, NEW e \in Edits, Edit(e[1], e[2])
  PROVE  LInv'
<1>1. approval \in [Requests -> Approvals] /\ clerk.ended \subseteq Requests /\ clerk' = clerk
  BY DEF LInv, IInv, TypeOK, Edit
<1>2. \A r \in Requests : approval'[r] = IF Running(approval[r]) THEN [approval[r] EXCEPT !.settled = FALSE]
                                                                ELSE approval[r]
  BY DEF Edit
<1>3. ASSUME NEW r \in Requests PROVE Proper(approval[r])'
  <2>1. CASE Running(approval[r])
    <3>1. approval'[r].settled = FALSE
      BY <1>1, <1>2, <2>1 DEF Approvals
    <3>2. QED
      BY <3>1 DEF Proper
  <2>2. CASE ~ Running(approval[r])
    BY <1>2, <2>2 DEF LInv, Proper, Running
  <2>3. QED
    BY <2>1, <2>2
<1>4. Clearing'
  BY <1>1 DEF LInv, Clearing, Kept, Ended
<1>5. QED
  BY <1>3, <1>4 DEF LInv

LEMMA ProperNext == LInv /\ [Next]_vars => LInv'
<1>1. SUFFICES ASSUME LInv, [Next]_vars PROVE LInv'
  OBVIOUS
<1>2. IInv' /\ Kept
  BY <1>1, NextLemma DEF LInv
<1>3. CASE \E r \in Requests : Insert(r)
  BY <1>1, <1>2, <1>3, InsertProper
<1>4. CASE \E p \in People, action \in Actions : Decide(p, action)
  BY <1>1, <1>2, <1>4, DecideProper
<1>5. CASE Withdraw \/ Clear
  BY <1>1, <1>2, <1>5, WithdrawProper
<1>6. CASE \E e \in Edits : Edit(e[1], e[2])
  BY <1>1, <1>2, <1>6, EditProper
<1>7. CASE \/ \E r \in Requests : (\E a \in Amounts : Request(r, a)) \/ CloseContract(r) \/ Load(r) \/ Check(r)
           \/ \E p \in People : (\E r \in Requests : Look(p, r)) \/ Undecided(p)
           \/ Settle("record") \/ Settle("execute") \/ Record \/ Execute \/ Cancel \/ ClerkStops
           \/ UNCHANGED vars
  <2>1. UNCHANGED <<approval, steps>>
    BY <1>7 DEF Request, CloseContract, Load, Check, Look, Undecided, Settle, Record, Execute, Cancel, ClerkStops, vars
  <2>2. CASE Settle("record") \/ Settle("execute") \/ Record \/ Execute \/ Cancel \/ ClerkStops
    <3>1. clerk'.pc # "clear"
      BY <2>2 DEF Settle, Record, Execute, Cancel, ClerkStops, Idle
    <3>2. QED
      BY <1>1, <1>2, <2>1, <3>1, OtherProper
  <2>3. CASE clerk' = clerk
    BY <1>1, <1>2, <2>1, <2>3, OtherProper
  <2>4. QED
    BY <1>7, <2>2, <2>3 DEF Request, CloseContract, Load, Check, Look, Undecided, vars
<1>8. QED
  BY <1>1, <1>3, <1>4, <1>5, <1>6, <1>7 DEF Next

LEMMA ProperInit == Init => LInv
<1>1. SUFFICES ASSUME Init PROVE LInv
  OBVIOUS
<1>2. IInv
  BY <1>1, InitLemma
<1>3. Clearing
  BY <1>1 DEF Init, Idle, Clearing
<1>4. \A r \in Requests : Proper(approval[r])
  BY <1>1 DEF Init, NotStarted, Proper, Running
<1>5. QED
  BY <1>2, <1>3, <1>4 DEF LInv

\* Every approval is, and stays, level by level while its levels are not edited,
\* for any levels, conditions, approvers, requests, cancellations and mishaps.
THEOREM LevelByLevel == Spec => []LInv
BY ProperInit, ProperNext, PTL DEF Spec

\* An approval whose levels were not edited ends as APPROVED only when every
\* level was approved by those it asks for, with nobody against it, or does not
\* apply to its amount (levelOutcome, openNextLevel, completeInstance).
THEOREM ApprovedByLevels == Spec => []ApprovedLevelByLevel
<1>1. LInv => ApprovedLevelByLevel
  BY DEF LInv, Proper, ByLevel, ApprovedLevelByLevel
<1>2. QED
  BY <1>1, LevelByLevel, PTL

\* While it runs, one level is pending, the current one, and an administrator
\* at least can still decide it: an approval never waits for nobody.
THEOREM NeverWaitsForNobody == Spec => []SomeoneCanDecide
<1>1. ASSUME LInv, NEW r \in Requests, Running(approval[r]), approval[r].settled
      PROVE  LET x == approval[r] IN
             \E l \in Levels :
               /\ \A k \in Levels : x.level[k] = "PENDING" <=> k = l
               /\ x.order[l] = x.current
               /\ \E p \in x.sent[l] \cup {Admin} : \A a \in Actions : <<p, a>> \notin x.heard[l]
  <2> DEFINE x == approval[r]
  <2>1. PICK l \in Levels : WaitsAt(x, l)
    BY <1>1 DEF LInv, Proper
  <2>2. \A k \in Levels : x.level[k] = "PENDING" <=> k = l
    BY <2>1, OneWaits DEF WaitsAt
  <2>3. x.order[l] = x.current /\ \A a \in Actions : <<Admin, a>> \notin x.heard[l]
    BY <2>1 DEF WaitsAt
  <2>4. QED
    BY <2>2, <2>3
<1>2. LInv => SomeoneCanDecide
  BY <1>1 DEF SomeoneCanDecide
<1>3. QED
  BY <1>2, LevelByLevel, PTL

\* What RecordedAmountWasApproved says, where the approval decided the amount
\* that is recorded and its levels were not edited: a level removed before it
\* started is not asked.
RecordedAsApproved ==
  [][deposit.status = "REQUESTED" /\ deposit'.status = "RECORDED" =>
       \A r \in Requests :
         /\ Running(approval[r]) /\ approval'[r].status = "APPROVED"
         /\ approval'[r].settled /\ approval'[r].amount = deposit.amount
         => \A l \in Levels : deposit.amount \in AppliesTo[l] =>
              approval'[r].level[l] \in {"APPROVED", "NONE"}]_vars

\* When an approval records the refund it decided, every level it has that
\* applies to the refund's amount has approved it: levels that apply to larger
\* amounts approve larger refunds, except when the approval is of another
\* amount than the deposit's.
THEOREM LargerLevelsApproveLarger == Spec => RecordedAsApproved
<1>1. LInv' => [deposit.status = "REQUESTED" /\ deposit'.status = "RECORDED" =>
       \A r \in Requests :
         /\ Running(approval[r]) /\ approval'[r].status = "APPROVED"
         /\ approval'[r].settled /\ approval'[r].amount = deposit.amount
         => \A l \in Levels : deposit.amount \in AppliesTo[l] =>
              approval'[r].level[l] \in {"APPROVED", "NONE"}]_vars
  BY DEF LInv, Proper, ByLevel
<1>2. QED
  BY <1>1, LevelByLevel, PTL DEF RecordedAsApproved
=============================================================================
