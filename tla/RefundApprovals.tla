-------------------------- MODULE RefundApprovals --------------------------
(***************************************************************************)
(* The refund of one security deposit under a company's approval workflow: *)
(* the workflow engine (src/src/lib/workflow-db.ts and workflow/           *)
(* approvals.ts), the subject it decides (finance_deposit_refund of        *)
(* workflow/subjects.ts) and the deposit (finance/security-deposit.ts,     *)
(* api/finance/deposits/route.ts, the closure of its leasing contract).    *)
(*                                                                         *)
(* A request is a transaction on the deposit, then a read of the record,   *)
(* then a transaction that starts the approval: three commits.  A decision *)
(* reads the approval, then decides in a transaction that holds the row of *)
(* its level.  A cancellation is a transaction on the deposit and then two *)
(* statements on the approvals.  Any of them may stop between two commits. *)
(* The company keeps at least one level, so a refund always needs approval *)
(* here; levels are edited while approvals run.                            *)
(***************************************************************************)
EXTENDS Integers, Sequences, FiniteSets, FiniteSetsExt, Functions

CONSTANTS
  Approvers,   \* the people every level is assigned to
  Admin,       \* a tenant administrator: decides a level for its approvers
  Requests,    \* refund requests, the closure's with them; each names the approval it starts
  Amounts,     \* amounts asked for
  Collected,   \* collected_amount of the deposit, less its deductions
  NumLevels,   \* WorkflowStep rows, numbered in their first order
  Passing,     \* NOTIFICATION and AUTO_APPROVE levels
  RequireAll,  \* levels with requireAllApprovers
  AppliesTo,   \* the amounts each level's condition holds for
  Edits,       \* an edit gives a level an order, or removes it (order 0)
  MaxMishaps,  \* bound on edits, handlers that die and lookups that fail
  MaxDeciding  \* bound on mishaps and decisions read and not yet written

Levels == 1..NumLevels

ASSUME RefundAssumption ==
  /\ Admin \notin Approvers
  /\ Amounts \subseteq Nat \ {0}
  /\ Collected \in Nat
  /\ NumLevels \in Nat
  /\ Edits \subseteq Levels \X (0..(NumLevels + 1))
  /\ MaxMishaps \in Nat /\ MaxMishaps < NumLevels
  /\ MaxDeciding \in Nat \ {0}
  /\ AppliesTo \in [Levels -> SUBSET Nat]

VARIABLES
  deposit,   \* refund_status, refund_requested_amount, reserved_amount and
             \* refunded_amount; whether its contract is closed; and, as
             \* history, what was reserved for requests the closure overwrote
  steps,     \* stepOrder of each WorkflowStep, 0 when deleted
  approval,  \* WorkflowInstance of each request, with its WorkflowStepInstances
  handler,   \* the handler of each request
  decider,   \* each person's decision: read, not yet written
  clerk,     \* the handler that records, executes or cancels
  mishaps    \* edits, deaths and failed lookups so far

vars == <<deposit, steps, approval, handler, decider, clerk, mishaps>>

People  == Approvers \cup {Admin}
Actions == {"APPROVE", "REJECT"}
Orders  == 0..(NumLevels + 1)

Sums    == 0..Collected

Deposits == [status : {"NONE", "REQUESTED", "RECORDED", "EXECUTED", "CANCELLED"},
             amount : Sums, reserved : Sums, refunded : Sums,
             closed : BOOLEAN, overwritten : Sums]

Approvals ==
  [status  : {"NONE", "IN_PROGRESS", "APPROVED", "REJECTED", "CANCELLED"},
   amount  : Sums,                                \* contextJson
   current : Orders,                              \* currentStepOrder
   order   : [Levels -> Orders],                  \* stepOrder, as copied at the start
   level   : [Levels -> {"NONE", "WAITING", "PENDING", "APPROVED", "REJECTED", "SKIPPED"}],
   sent    : [Levels -> SUBSET Approvers],        \* approverEmails
   heard   : [Levels -> SUBSET (People \X Actions)],
   settled : BOOLEAN]                             \* steps in distinct order and unedited since

NotStarted ==
  [status |-> "NONE", amount |-> 0, current |-> 0,
   order |-> [l \in Levels |-> 0], level |-> [l \in Levels |-> "NONE"],
   sent |-> [l \in Levels |-> {}], heard |-> [l \in Levels |-> {}], settled |-> TRUE]

NoDecision == [request |-> "none", order |-> 0]
Done       == [pc |-> "done", amount |-> 0]
Idle       == [pc |-> "idle", ended |-> {}]

Init ==
  /\ deposit = [status |-> "NONE", amount |-> 0, reserved |-> 0, refunded |-> 0,
                closed |-> FALSE, overwritten |-> 0]
  /\ steps = [l \in Levels |-> l]
  /\ approval = [r \in Requests |-> NotStarted]
  /\ handler = [r \in Requests |-> [pc |-> "new", amount |-> 0]]
  /\ decider = [p \in People |-> NoDecision]
  /\ clerk = Idle
  /\ mishaps = 0

(***************************************************************************)
(* The deposit (finance/security-deposit.ts); its row is locked.           *)
(***************************************************************************)

InProgress == deposit.status \in {"REQUESTED", "RECORDED"}

\* Mutant of Available: what has been refunded is left out.
AvailableUnpaid == Collected - deposit.reserved

\* availableBalance
Available == Collected - deposit.reserved - deposit.refunded

\* The refund in progress.
Pending == IF InProgress THEN deposit.amount ELSE 0

\* requestRefund reserves a, whatever refund is in progress.
Requested(a) ==
  [deposit EXCEPT !.status = "REQUESTED", !.amount = a, !.reserved = @ + a, !.overwritten = @ + Pending]

\* cancelRefundRequest
Released(d) == [d EXCEPT !.status = "CANCELLED", !.reserved = Max({0, @ - d.amount})]

\* What finance_deposit_refund.apply makes of an outcome.
Applied(d, outcome) ==
  IF d.status # "REQUESTED" THEN d
  ELSE IF outcome = "APPROVED" THEN [d EXCEPT !.status = "RECORDED"] ELSE Released(d)

\* The people whose decision is read and not yet written, and the bound on what
\* may go wrong.
Deciding == {p \in People : decider[p] # NoDecision}
MayFail  == mishaps < MaxMishaps /\ mishaps + Cardinality(Deciding) < MaxDeciding

(***************************************************************************)
(* The engine (workflow-db.ts): one approval x.                            *)
(***************************************************************************)

Running(x) == x.status = "IN_PROGRESS"

\* Mutant of LevelOutcome: the first approval decides every level.
LevelOutcomeFirst(x, l) ==
  LET said(action) == {p \in People : <<p, action>> \in x.heard[l]}
  IN IF said("REJECT") # {} THEN "REJECTED" ELSE IF said("APPROVE") # {} THEN "APPROVED" ELSE "PENDING"

\* Mutant of LevelOutcome: a rejection does not settle a level of all approvers.
LevelOutcomeUnheard(x, l) ==
  LET said(action) == {p \in People : <<p, action>> \in x.heard[l]}
  IN IF said("REJECT") # {} /\ l \notin RequireAll THEN "REJECTED"
     ELSE IF said("REJECT") = {} /\ (l \notin RequireAll \/ x.sent[l] \subseteq said("APPROVE"))
     THEN "APPROVED" ELSE "PENDING"

\* levelOutcome over the decisions heard on level l.
LevelOutcome(x, l) ==
  LET said(action) == {p \in People : <<p, action>> \in x.heard[l]}
      all == l \in RequireAll /\ steps[l] # 0 /\ x.sent[l] # {}
  IN IF said("REJECT") # {} THEN "REJECTED"
     ELSE IF Admin \in said("APPROVE") \/ (~all /\ said("APPROVE") # {})
             \/ (all /\ x.sent[l] \subseteq said("APPROVE"))
     THEN "APPROVED" ELSE "PENDING"

\* The level openNextLevel selects: waiting, its step still there, after an order.
NextLevels(x, opened, after) ==
  LET open == {l \in Levels \ opened : x.level[l] = "WAITING" /\ steps[l] # 0 /\ x.order[l] > after}
  IN {l \in open : \A k \in open : x.order[l] <= x.order[k]}

\* Levels that openNextLevel may open one after the other: all but the last pass.
Chains ==
  {p \in UNION {[1..n -> Levels] : n \in 0..NumLevels} :
     IsInjective(p) /\ \A k \in 1..(Len(p) - 1) : p[k] \in Passing}

\* Those it does open: it goes on from the order the step has by now.
Paths(x, after) ==
  {p \in Chains :
     LET before(k) == {p[j] : j \in 1..(k - 1)}
         from(k)   == IF k = 1 THEN after ELSE steps[p[k - 1]]
     IN /\ \A k \in DOMAIN p : p[k] \in NextLevels(x, before(k), from(k))
        /\ \/ p # <<>> /\ p[Len(p)] \notin Passing
           \/ NextLevels(x, before(Len(p) + 1), from(Len(p) + 1)) = {}}

\* Mutant of Completed: any approval ends.
CompletedAgain(x, outcome) == [x EXCEPT !.status = outcome]

\* completeInstance: only an approval in progress ends, and a rejection
\* skips the levels that never opened.
Completed(x, outcome) ==
  IF ~Running(x) THEN x
  ELSE [x EXCEPT !.status = outcome,
                 !.level = [l \in Levels |-> IF outcome = "REJECTED" /\ @[l] = "WAITING" THEN "SKIPPED" ELSE @[l]]]

\* openNextLevel along path p, its last level sent to the people in sent.
Opened(x, p, sent) ==
  LET waits == p # <<>> /\ p[Len(p)] \notin Passing
      last  == p[Len(p)]
      moved == [x EXCEPT
        !.current = IF p = <<>> THEN @ ELSE steps[last],
        !.level = [l \in Levels |-> IF \A k \in DOMAIN p : p[k] # l THEN @[l]
                                    ELSE IF waits /\ l = last THEN "PENDING" ELSE "APPROVED"],
        !.sent = [l \in Levels |-> IF waits /\ l = last THEN sent ELSE @[l]]]
  IN IF waits THEN moved ELSE Completed(moved, "APPROVED")

\* resolveStepApprovers for the level a path opens; when nobody is found, or the
\* lookup fails, it opens all the same.
Resolved(sent) ==
  \/ sent = Approvers /\ UNCHANGED mishaps
  \/ sent = {} /\ MayFail /\ mishaps' = mishaps + 1

\* The transaction that leaves approval r as x: the outcome is applied to
\* the deposit by the call that ends the approval, and only by it.
Write(r, x, old) ==
  /\ approval' = [approval EXCEPT ![r] = x]
  /\ deposit' = IF Running(old) /\ ~Running(x) THEN Applied(deposit, x.status) ELSE deposit

(***************************************************************************)
(* Requests: PATCH request_refund or the closure of the contract, then     *)
(* startApproval.                                                          *)
(***************************************************************************)

\* startRefundRequest, with requestRefund's check of the balance.
Request(r, a) ==
  /\ handler[r].pc = "new"
  /\ ~InProgress
  /\ a <= Available
  /\ deposit' = Requested(a)
  /\ handler' = [handler EXCEPT ![r].pc = "load"]
  /\ UNCHANGED <<steps, approval, decider, clerk, mishaps>>

\* The closure of the contract requests what is not reserved: also while a
\* refund is in progress, which it overwrites.  Its sum leaves out what was
\* refunded, so requestRefund may refuse it; the closure stands all the same.
CloseContract(r) ==
  LET rest == Collected - deposit.reserved
      asks == rest > 0 /\ rest <= Available
  IN /\ handler[r].pc = "new"
     /\ ~deposit.closed
     /\ deposit' = [IF asks THEN Requested(rest) ELSE deposit EXCEPT !.closed = TRUE]
     /\ handler' = [handler EXCEPT ![r] = IF asks THEN [@ EXCEPT !.pc = "load"] ELSE Done]
     /\ UNCHANGED <<steps, approval, decider, clerk, mishaps>>

\* startApproval reads what is being approved.
Load(r) ==
  /\ handler[r].pc = "load"
  /\ handler' = [handler EXCEPT ![r] =
       IF deposit.status = "REQUESTED" THEN [pc |-> "check", amount |-> deposit.amount]
       ELSE Done]
  /\ UNCHANGED <<deposit, steps, approval, decider, clerk, mishaps>>

\* triggerWorkflow looks for a running approval of the record: it is reused.
Check(r) ==
  /\ handler[r].pc = "check"
  /\ handler' = [handler EXCEPT ![r] =
       IF \E q \in Requests : Running(approval[q]) THEN Done ELSE [@ EXCEPT !.pc = "insert"]]
  /\ UNCHANGED <<deposit, steps, approval, decider, clerk, mishaps>>

\* The rest of triggerWorkflow's transaction: every level recorded, those
\* whose condition does not hold skipped, and the first one opened.
Insert(r) ==
  LET here == {l \in Levels : steps[l] # 0}
      a    == handler[r].amount
      new(first) ==
        [NotStarted EXCEPT
           !.status = "IN_PROGRESS", !.amount = a, !.order = steps, !.current = steps[first],
           !.level = [l \in Levels |-> IF l \notin here THEN "NONE"
                                       ELSE IF a \in AppliesTo[l] THEN "WAITING" ELSE "SKIPPED"],
           !.settled = \A k, l \in here : k # l => steps[k] # steps[l]]
  IN /\ handler[r].pc = "insert"
     /\ \E first \in here, sent \in {Approvers, {}} :
          /\ \A l \in here : steps[first] <= steps[l]
          /\ Resolved(sent)
          /\ \E p \in Paths(new(first), 0) : Write(r, Opened(new(first), p, sent), new(first))
     /\ handler' = [handler EXCEPT ![r] = Done]
     /\ UNCHANGED <<steps, decider, clerk>>

(***************************************************************************)
(* Decisions (decideAs, then advanceWorkflow's transaction).               *)
(***************************************************************************)

\* decideAs reads an approval in progress and the level that is waiting.
Look(p, r) ==
  LET x == approval[r]
  IN /\ decider[p] = NoDecision
     /\ mishaps + Cardinality(Deciding) < MaxDeciding
     /\ Running(x)
     /\ \E l \in Levels :
          /\ x.level[l] = "PENDING" /\ x.order[l] = x.current
          /\ p \in Approvers /\ l \in RequireAll /\ x.sent[l] # {} => p \in x.sent[l]
     /\ decider' = [decider EXCEPT ![p] = [request |-> r, order |-> x.current]]
     /\ UNCHANGED <<deposit, steps, approval, handler, clerk, mishaps>>

\* advanceWorkflowInTx: the decision, the level it settles and what follows.
Decide(p, action) ==
  LET r == decider[p].request
      x == approval[r]
      l == CHOOSE k \in Levels : x.level[k] = "PENDING" /\ x.order[k] = decider[p].order
      said == [x EXCEPT !.heard[l] = @ \cup {<<p, action>>}]
      outcome == LevelOutcome(said, l)
      closed == [said EXCEPT !.level[l] = outcome]
  IN /\ decider[p] # NoDecision
     /\ \E k \in Levels : x.level[k] = "PENDING" /\ x.order[k] = decider[p].order
     /\ \A a \in Actions : <<p, a>> \notin x.heard[l]
     /\ \/ outcome = "PENDING" /\ Write(r, said, x) /\ UNCHANGED mishaps
        \/ outcome = "REJECTED" /\ Write(r, Completed(closed, "REJECTED"), x) /\ UNCHANGED mishaps
        \/ /\ outcome = "APPROVED"
           /\ \E path \in Paths(closed, decider[p].order), sent \in {Approvers, {}} :
                Resolved(sent) /\ Write(r, Opened(closed, path, sent), x)
     /\ decider' = [decider EXCEPT ![p] = NoDecision]
     /\ UNCHANGED <<steps, handler, clerk>>

\* NOT_PENDING, ALREADY_DECIDED, a transaction that rolls back or a handler
\* that dies: nothing is written.
Undecided(p) ==
  /\ decider[p] # NoDecision
  /\ decider' = [decider EXCEPT ![p] = NoDecision]
  /\ UNCHANGED <<deposit, steps, approval, handler, clerk, mishaps>>

(***************************************************************************)
(* The other PATCH actions of finance/deposits.                            *)
(***************************************************************************)

\* record_refund_details and execute_refund: approvalInProgress is read first.
Settle(op) ==
  /\ clerk = Idle
  /\ \A r \in Requests : ~Running(approval[r])
  /\ clerk' = [Idle EXCEPT !.pc = op]
  /\ UNCHANGED <<deposit, steps, approval, handler, decider, mishaps>>

\* recordRefundDetails
Record ==
  /\ clerk.pc = "record"
  /\ deposit' = IF deposit.status = "REQUESTED" THEN [deposit EXCEPT !.status = "RECORDED"] ELSE deposit
  /\ clerk' = Idle
  /\ UNCHANGED <<steps, approval, handler, decider, mishaps>>

\* Mutant of Execute: a refund that was paid is paid again.
ExecuteAgain ==
  /\ clerk.pc = "execute"
  /\ deposit' = IF deposit.status \notin {"RECORDED", "EXECUTED"} THEN deposit
                ELSE [deposit EXCEPT !.status = "EXECUTED", !.refunded = @ + deposit.amount,
                                     !.reserved = Max({0, @ - deposit.amount})]
  /\ clerk' = Idle
  /\ UNCHANGED <<steps, approval, handler, decider, mishaps>>

\* executeRefund
Execute ==
  /\ clerk.pc = "execute"
  /\ deposit' = IF deposit.status # "RECORDED" THEN deposit
                ELSE [deposit EXCEPT !.status = "EXECUTED", !.refunded = @ + deposit.amount,
                                     !.reserved = Max({0, @ - deposit.amount})]
  /\ clerk' = Idle
  /\ UNCHANGED <<steps, approval, handler, decider, mishaps>>

\* cancel_refund_request: the request is released, whatever approval is running.
Cancel ==
  /\ clerk = Idle
  /\ InProgress
  /\ deposit' = Released(deposit)
  /\ clerk' = [Idle EXCEPT !.pc = "withdraw"]
  /\ UNCHANGED <<steps, approval, handler, decider, mishaps>>

\* cancelActiveInstancesForReference: first the approvals, then their levels.
Withdraw ==
  LET ended == {r \in Requests : Running(approval[r])}
  IN /\ clerk.pc = "withdraw"
     /\ approval' = [r \in Requests |-> IF r \in ended THEN [approval[r] EXCEPT !.status = "CANCELLED"]
                                                       ELSE approval[r]]
     /\ clerk' = IF ended = {} THEN Idle ELSE [pc |-> "clear", ended |-> ended]
     /\ UNCHANGED <<deposit, steps, handler, decider, mishaps>>

Clear ==
  /\ clerk.pc = "clear"
  /\ approval' = [r \in Requests |->
       IF r \notin clerk.ended THEN approval[r]
       ELSE [approval[r] EXCEPT !.level =
               [l \in Levels |-> IF @[l] \in {"PENDING", "WAITING"} THEN "SKIPPED" ELSE @[l]]]]
  /\ clerk' = Idle
  /\ UNCHANGED <<deposit, steps, handler, decider, mishaps>>

\* The handler dies, or the withdrawal fails: it is best-effort.
ClerkStops ==
  /\ clerk # Idle
  /\ MayFail
  /\ mishaps' = mishaps + 1
  /\ clerk' = Idle
  /\ UNCHANGED <<deposit, steps, approval, handler, decider>>

\* updateStep gives a step another order; deleteStep removes it (order 0).
Edit(l, o) ==
  /\ MayFail
  /\ steps[l] \notin {0, o}
  /\ steps' = [steps EXCEPT ![l] = o]
  /\ mishaps' = mishaps + 1
  /\ approval' = [r \in Requests |-> IF Running(approval[r]) THEN [approval[r] EXCEPT !.settled = FALSE]
                                                             ELSE approval[r]]
  /\ UNCHANGED <<deposit, handler, decider, clerk>>

Next ==
  \/ \E r \in Requests :
       \/ \E a \in Amounts : Request(r, a)
       \/ CloseContract(r)
       \/ Load(r) \/ Check(r) \/ Insert(r)
  \/ \E p \in People :
       \/ \E r \in Requests : Look(p, r)
       \/ \E action \in Actions : Decide(p, action)
       \/ Undecided(p)
  \/ Settle("record") \/ Settle("execute") \/ Record \/ Execute
  \/ Cancel \/ Withdraw \/ Clear \/ ClerkStops
  \/ \E e \in Edits : Edit(e[1], e[2])

Spec == Init /\ [][Next]_vars

(***************************************************************************)
(* Properties                                                              *)
(***************************************************************************)

\* The deposit, the levels, the approvals and the handlers have their types; what
\* is reserved and what was refunded stays between nothing and the deposit.
TypeOK ==
  /\ deposit \in Deposits
  /\ steps \in [Levels -> Orders]
  /\ mishaps \in 0..MaxMishaps
  /\ approval \in [Requests -> Approvals]
  /\ handler \in [Requests -> [pc : {"new", "load", "check", "insert", "done"}, amount : Sums]]
  /\ decider \in [People -> [request : Requests, order : Orders] \cup {NoDecision}]
  /\ clerk \in [pc : {"idle", "record", "execute", "withdraw", "clear"}, ended : SUBSET Requests]

\* Whatever is requested, closed, cancelled, decided and paid side by side: what
\* is reserved is the refund in progress and what a closure overwrote, which is
\* never released, and with what was paid the deposit covers it: no refund is
\* released or paid twice (requestRefund, cancelRefundRequest, executeRefund).
RefundsWithinDeposit ==
  /\ deposit.reserved = deposit.overwritten + Pending
  /\ deposit.reserved + deposit.refunded <= Collected

\* An approval whose levels were not edited while it ran is APPROVED only
\* level by level: each was approved, with nobody against it and everyone it
\* was sent to heard where all must agree, or did not apply to the amount.
ApprovedLevelByLevel ==
  \A r \in Requests : LET x == approval[r] IN
    x.status = "APPROVED" /\ x.settled =>
      \A l \in Levels :
        \/ x.level[l] = "NONE"
        \/ x.level[l] = "SKIPPED" /\ x.amount \notin AppliesTo[l]
        \/ x.level[l] = "APPROVED" /\ l \in Passing
        \/ /\ x.level[l] = "APPROVED"
           /\ \A p \in People : <<p, "REJECT">> \notin x.heard[l]
           /\ \/ <<Admin, "APPROVE">> \in x.heard[l]
              \/ x.sent[l] \X {"APPROVE"} \subseteq x.heard[l] /\ x.heard[l] # {}
              \/ l \notin RequireAll /\ x.heard[l] # {}

\* A running approval whose levels were not edited has one level waiting,
\* the current one, and somebody who can still decide it: it never waits for
\* nobody.
SomeoneCanDecide ==
  \A r \in Requests : LET x == approval[r] IN
    Running(x) /\ x.settled =>
      \E l \in Levels :
        /\ \A k \in Levels : x.level[k] = "PENDING" <=> k = l
        /\ x.order[l] = x.current
        /\ \E p \in x.sent[l] \cup {Admin} : \A a \in Actions : <<p, a>> \notin x.heard[l]

\* An approval that ended stays as it ended, also when a decision taken from
\* it before is written after; and the deposit follows a decision only in
\* the step that ends a running approval.
OutcomeAppliedOnce ==
  [][/\ \A r \in Requests : approval[r].status \in {"APPROVED", "REJECTED", "CANCELLED"}
          => approval'[r].status = approval[r].status
     /\ decider' # decider /\ deposit' # deposit
          => \E r \in Requests : Running(approval[r]) /\ approval'[r].status \in {"APPROVED", "REJECTED"}]_vars

\* Levels that apply to larger amounts approve larger refunds (levels.ts):
\* when an approval records the refund, every level that applies to the
\* refund's amount has been approved.
RecordedAmountWasApproved ==
  [][deposit.status = "REQUESTED" /\ deposit'.status = "RECORDED" =>
       \A r \in Requests : Running(approval[r]) /\ approval'[r].status = "APPROVED" =>
         \A l \in Levels : deposit.amount \in AppliesTo[l] => approval'[r].level[l] = "APPROVED"]_vars
=============================================================================
