-------------------------- MODULE CollectionStages --------------------------
(***************************************************************************)
(* The collection stages of one lease invoice: the daily sweep that moves  *)
(* them (src/src/lib/jobs/dunning-sweep.ts over resolveDunningTransition,  *)
(* src/src/lib/finance/dunning-transition.ts), the approval of a legal     *)
(* referral (src/src/app/api/leasing/dunning/legal-referral/[id]/approve/  *)
(* route.ts), and the payments, voids, disputes and suppressions they race *)
(* with.                                                                   *)
(*                                                                         *)
(* The sweep and the approval read the invoice and what they decide on     *)
(* before they take the invoice's dunning lock, and do not read it again   *)
(* under the lock: each is two or three steps here, and others commit in   *)
(* between.  A transaction's writes are one step, its commit.  Dispatch of *)
(* a notice is DunningDispatch's; here it is what this machine sees of it. *)
(***************************************************************************)
EXTENDS Integers

CONSTANTS
  MaxCycle,    \* bound on collection cycles
  MaxChanges,  \* bound on what people do to the invoice, and on aborts
  Approvers    \* requests approving a legal referral

ASSUME StagesAssumption ==
  /\ MaxCycle \in Nat \ {0}
  /\ MaxChanges \in Nat

VARIABLES
  invoice,     \* status, current_dunning_stage, dunning_collection_cycle
  owed,        \* is the canonical outstanding balance above 0.005?
  age,         \* the band of days overdue
  notices,     \* dispatch status of the notice of a cycle and stage
  waited,      \* cycles whose accepted final notice is LEGAL_REFERRAL_WAIT_DAYS old
  approved,    \* cycles with an approved legal referral
  reviews,     \* cycles with an open LEGAL_REFERRAL_REVIEW alert
  suppressed,  \* scopes with an active suppression
  sweep,       \* the sweep's transaction
  approval,    \* the approval requests
  changes      \* changes so far

vars == <<invoice, owed, age, notices, waited, approved, reviews, suppressed,
          sweep, approval, changes>>

Cycles   == 1..MaxCycle
Stages   == {"REMINDER", "OVERDUE", "FINAL_NOTICE", "LEGAL_REFERRAL"}
Terminal == {"SETTLED", "FROZEN_DISPUTE", "FROZEN_SUPPRESSED"}
Statuses == {"OPEN", "OVERDUE", "PAID", "CANCELLED", "DISPUTED"}  \* OPEN: SENT, PARTIALLY_PAID
Scopes   == {"INVOICE", "CONTRACT"}                               \* INVOICE: or CUSTOMER
Dispatch == {"NONE", "PENDING", "SUBMITTING", "SUBMITTED", "FAILED", "SUPPRESSED"}

\* Bands of days overdue: from 0, 15, 45, 75 and 120 days.
Bands  == 0..4
Target == [a \in 1..3 |-> CASE a = 1 -> "REMINDER" [] a = 2 -> "OVERDUE" [] a = 3 -> "FINAL_NOTICE"]

Invoices    == [status : Statuses, stage : Stages \cup Terminal \cup {"NONE"}, cycle : Cycles]
Transitions == [action : {"none", "mark_overdue", "settled", "create_review_task"}, stage : {"NONE"}]
               \cup [action : {"frozen"}, stage : Terminal] \cup [action : {"queue"}, stage : Stages]

NewInvoice   == [status |-> "OPEN", stage |-> "NONE", cycle |-> 1]
NoTransition == [action |-> "none", stage |-> "NONE"]
Resting      == [pc |-> "idle", seen |-> NewInvoice, transition |-> NoTransition]
NotApproving == [pc |-> "idle", cycle |-> 1, stage |-> "NONE"]

Init ==
  /\ invoice = NewInvoice
  /\ owed = TRUE
  /\ age = 0
  /\ notices = [c \in Cycles |-> [s \in Stages |-> "NONE"]]
  /\ waited = {} /\ approved = {} /\ reviews = {} /\ suppressed = {}
  /\ sweep = Resting
  /\ approval = [a \in Approvers |-> NotApproving]
  /\ changes = 0

-----------------------------------------------------------------------------
(* resolveDunningTransition. *)

\* What getInvoiceOutstandingBalance and the three queries find, for the
\* invoice row seen.
Settled(seen)  == ~ owed \/ seen.status \in {"PAID", "CANCELLED"}
Ready(seen)    == seen.cycle \in waited
Approved(seen) == seen.cycle \in approved

\* The sweep and the approval look for suppressions of the invoice or the
\* customer; the dispatch's recheck also for those of the contract.
SuppressedForSweep    == "INVOICE" \in suppressed
SuppressedForDispatch == suppressed # {}

\* 120 days or more: final notice, wait, review, approval.
LegalTransition(seen) ==
  CASE ~ Ready(seen) ->
         IF seen.stage = "FINAL_NOTICE" THEN NoTransition
         ELSE [action |-> "queue", stage |-> "FINAL_NOTICE"]
    [] Ready(seen) /\ seen.stage = "LEGAL_REFERRAL" -> NoTransition
    [] Ready(seen) /\ seen.stage # "LEGAL_REFERRAL" /\ Approved(seen) ->
         [action |-> "queue", stage |-> "LEGAL_REFERRAL"]
    [] OTHER -> [action |-> "create_review_task", stage |-> "NONE"]

\* Mutant of Resolve: a settled invoice is looked at like an open one.
ResolveUnsettled(seen) ==
  IF age = 0 THEN NoTransition
  ELSE IF age = 4 THEN LegalTransition(seen)
  ELSE IF seen.stage = Target[age] THEN NoTransition ELSE [action |-> "queue", stage |-> Target[age]]

Resolve(seen) ==
  CASE Settled(seen) ->
         IF seen.stage = "SETTLED" THEN NoTransition ELSE [action |-> "settled", stage |-> "NONE"]
    [] ~ Settled(seen) /\ seen.status = "DISPUTED" ->
         IF seen.stage = "FROZEN_DISPUTE" THEN NoTransition
         ELSE [action |-> "frozen", stage |-> "FROZEN_DISPUTE"]
    [] ~ Settled(seen) /\ seen.status # "DISPUTED" /\ SuppressedForSweep ->
         IF seen.stage = "FROZEN_SUPPRESSED" THEN NoTransition
         ELSE [action |-> "frozen", stage |-> "FROZEN_SUPPRESSED"]
    [] OTHER ->
         CASE age = 0 -> IF seen.status = "OVERDUE" THEN NoTransition
                         ELSE [action |-> "mark_overdue", stage |-> "NONE"]
           [] age \in 1..3 -> IF seen.stage = Target[age] THEN NoTransition
                              ELSE [action |-> "queue", stage |-> Target[age]]
           [] age = 4 -> LegalTransition(seen)

-----------------------------------------------------------------------------
(* runDunningSweep. *)

\* Mutant of GiveUp: the reason is written to the status.
GiveUpSwapped(row, which) ==
  [s \in Stages |-> IF s \in which /\ row[s] \in {"PENDING", "FAILED"} THEN "SUPERSEDED" ELSE row[s]]

\* The stages' notices with every unclaimed one of those in which given up.
GiveUp(row, which) ==
  [s \in Stages |-> IF s \in which /\ row[s] \in {"PENDING", "FAILED"} THEN "SUPPRESSED" ELSE row[s]]

\* findMany at the start of the tenant's transaction.
SweepRead ==
  /\ sweep.pc = "idle"
  /\ invoice.status \in {"PAID", "CANCELLED"} => invoice.stage \notin {"NONE", "SETTLED"}
  /\ sweep' = [pc |-> "read", seen |-> invoice, transition |-> NoTransition]
  /\ UNCHANGED <<invoice, owed, age, notices, waited, approved, reviews, suppressed,
                 approval, changes>>

\* The invoice's turn in the loop: balance, suppressions, approval, final notice.
SweepResolve ==
  /\ sweep.pc = "read"
  /\ sweep' = [sweep EXCEPT !.pc = "resolved", !.transition = Resolve(sweep.seen)]
  /\ UNCHANGED <<invoice, owed, age, notices, waited, approved, reviews, suppressed,
                 approval, changes>>

SweepWrites(action) ==
  /\ sweep.pc = "resolved"
  /\ sweep.transition.action = action
  /\ sweep' = Resting
  /\ UNCHANGED <<owed, age, waited, approved, suppressed, approval, changes>>

SweepNothing ==
  /\ SweepWrites("none")
  /\ UNCHANGED <<invoice, notices, reviews>>

SweepMarkOverdue ==
  /\ SweepWrites("mark_overdue")
  /\ invoice' = [invoice EXCEPT !.status = "OVERDUE"]
  /\ UNCHANGED <<notices, reviews>>

\* 'settled' and 'frozen'.
SweepStop ==
  LET settled == sweep.transition.action = "settled" IN
  /\ SweepWrites("settled") \/ SweepWrites("frozen")
  /\ invoice' = [invoice EXCEPT !.stage = IF settled THEN "SETTLED" ELSE sweep.transition.stage]
  /\ notices' = [notices EXCEPT ![sweep.seen.cycle] = GiveUp(@, Stages)]
  /\ UNCHANGED reviews

SweepReview ==
  /\ SweepWrites("create_review_task")
  /\ reviews' = reviews \cup {sweep.seen.cycle}
  /\ UNCHANGED <<invoice, notices>>

\* Mutant of CycleFor: a reopened invoice stays in its cycle.
SameCycle(seen) == seen.cycle

\* A reopened invoice starts a new cycle.
CycleFor(seen) == IF seen.stage \in Terminal THEN seen.cycle + 1 ELSE seen.cycle

\* Mutant of KeyIsFree: no unique key.
KeyIgnored(c, s) == c \in Cycles /\ s \in Stages

\* The unique key of the notices (occurrence_seq is always 1).
KeyIsFree(c, s) == notices[c][s] = "NONE"

\* 'queue': the stage, its notice and what it supersedes, all or nothing.
SweepQueue ==
  LET c == CycleFor(sweep.seen)
      s == sweep.transition.stage
      over == IF sweep.seen.stage \in Stages THEN {sweep.seen.stage} ELSE {}
  IN
  /\ SweepWrites("queue")
  /\ c \in Cycles
  /\ KeyIsFree(c, s)
  /\ invoice' = [invoice EXCEPT !.stage = s, !.cycle = c]
  /\ notices' = [notices EXCEPT ![c] = [GiveUp(@, over) EXCEPT ![s] = "PENDING"]]
  /\ UNCHANGED <<reviews>>

\* The insert hits the unique key: the error is caught, but it has aborted the
\* tenant's transaction.
SweepDuplicate ==
  /\ SweepWrites("queue")
  /\ CycleFor(sweep.seen) \in Cycles
  /\ ~ KeyIsFree(CycleFor(sweep.seen), sweep.transition.stage)
  /\ UNCHANGED <<invoice, notices, reviews>>

\* Another invoice's error, a timeout or a crash rolls the sweep back.
SweepAborts ==
  /\ sweep.pc # "idle"
  /\ changes < MaxChanges
  /\ changes' = changes + 1
  /\ sweep' = Resting
  /\ UNCHANGED <<invoice, owed, age, notices, waited, approved, reviews, suppressed,
                 approval>>

-----------------------------------------------------------------------------
(* The legal-referral approval. *)

\* The conditions the route checks on the cycle its caller saw.
Referable(c) ==
  /\ invoice.cycle = c
  /\ invoice.status \notin {"DISPUTED", "CANCELLED"}
  /\ owed
  /\ ~ SuppressedForSweep
  /\ c \in waited
  /\ c \notin approved

ApproveRead(a) ==
  /\ approval[a].pc = "idle"
  /\ Referable(invoice.cycle)
  /\ approval' = [approval EXCEPT ![a] = [pc |-> "checked", cycle |-> invoice.cycle,
                                          stage |-> invoice.stage]]
  /\ UNCHANGED <<invoice, owed, age, notices, waited, approved, reviews, suppressed,
                 sweep, changes>>

\* The approval row, the stage, the notice and the resolved review, at once.
ApproveWrite(a) ==
  LET c == approval[a].cycle IN
  /\ approval[a].pc = "checked"
  /\ c \notin approved
  /\ KeyIsFree(c, "LEGAL_REFERRAL")
  /\ approved' = approved \cup {c}
  /\ invoice' = [invoice EXCEPT !.stage = "LEGAL_REFERRAL"]
  /\ notices' = [notices EXCEPT ![c] =
                   [GiveUp(@, {approval[a].stage}) EXCEPT !["LEGAL_REFERRAL"] = "PENDING"]]
  /\ reviews' = reviews \ {c}
  /\ approval' = [approval EXCEPT ![a] = NotApproving]
  /\ UNCHANGED <<owed, age, waited, suppressed, sweep, changes>>

\* One of the unique keys turns the transaction back.
ApproveDuplicate(a) ==
  /\ approval[a].pc = "checked"
  /\ approval[a].cycle \in approved \/ ~ KeyIsFree(approval[a].cycle, "LEGAL_REFERRAL")
  /\ approval' = [approval EXCEPT ![a] = NotApproving]
  /\ UNCHANGED <<invoice, owed, age, notices, waited, approved, reviews, suppressed,
                 sweep, changes>>

-----------------------------------------------------------------------------
(* Dispatch, as the stages see it. *)

\* Mutant of Dispatchable: a referral needs no approval of its own.
DispatchableUnapproved(c, s) ==
  /\ invoice.status \notin {"DISPUTED", "CANCELLED"}
  /\ owed
  /\ ~ SuppressedForDispatch
  /\ invoice.cycle = c /\ invoice.stage = s

\* preDispatchRecheck.
Dispatchable(c, s) ==
  /\ invoice.status \notin {"DISPUTED", "CANCELLED"}
  /\ owed
  /\ ~ SuppressedForDispatch
  /\ invoice.cycle = c /\ invoice.stage = s
  /\ s = "LEGAL_REFERRAL" => c \in approved

SetNotice(c, s, status) ==
  /\ notices' = [notices EXCEPT ![c][s] = status]
  /\ UNCHANGED <<invoice, owed, age, waited, approved, reviews, suppressed, sweep,
                 approval>>

\* The consumer claims a notice, or finds that it must not be sent.
Claim(c, s) ==
  /\ notices[c][s] = "PENDING"
  /\ SetNotice(c, s, IF Dispatchable(c, s) THEN "SUBMITTING" ELSE "SUPPRESSED")
  /\ UNCHANGED changes

Sent(c, s) ==
  /\ notices[c][s] = "SUBMITTING"
  /\ SetNotice(c, s, "SUBMITTED") \/ SetNotice(c, s, "FAILED")
  /\ UNCHANGED changes

\* A retry after a failure; after a pause, whatever the notice's status.
Requeue(c, s) ==
  /\ notices[c][s] \in {"FAILED", "SUPPRESSED"}
  /\ changes < MaxChanges
  /\ changes' = changes + 1
  /\ SetNotice(c, s, "PENDING")

-----------------------------------------------------------------------------
(* People and time. *)

Change ==
  /\ changes < MaxChanges
  /\ changes' = changes + 1
  /\ UNCHANGED <<age, waited, approved, reviews, sweep, approval>>

\* applyInvoicePayment marks an invoice PAID that a deposit pays in full.
\* record-payment leaves it PARTIALLY_PAID, also when a deposit had paid the
\* rest; a payment it takes for the full amount is rolled back, for the reset of
\* the dunning that follows names columns the tables do not have.
Pay ==
  /\ Change
  /\ owed /\ invoice.status \notin {"PAID", "CANCELLED"}
  /\ \E status \in {"PAID", "OPEN"} : invoice' = [invoice EXCEPT !.status = status]
  /\ owed' \in {FALSE, invoice'.status = "OPEN"}
  /\ UNCHANGED <<notices, suppressed>>

\* A payment against the mirrored finance invoice: the lease invoice's own
\* balance, its status before and its cycle play no part.
PayInFinance ==
  /\ Change
  /\ invoice' = [invoice EXCEPT !.status = "PAID", !.stage = "SETTLED"]
  /\ notices' = [c \in Cycles |-> GiveUp(notices[c], Stages)]
  /\ UNCHANGED <<owed, suppressed>>

\* A deposit application is reversed.
Reverse ==
  /\ Change
  /\ ~ owed
  /\ owed' = TRUE
  /\ invoice' = IF invoice.status = "CANCELLED" THEN invoice
                ELSE [invoice EXCEPT !.status = "OPEN"]
  /\ UNCHANGED <<notices, suppressed>>

Void ==
  /\ Change
  /\ invoice.status \notin {"CANCELLED", "PAID"}
  /\ invoice' = [invoice EXCEPT !.status = "CANCELLED"]
  /\ UNCHANGED <<owed, notices, suppressed>>

\* The status is edited by hand, to any other and from any: a dispute is entered
\* or withdrawn so, and an invoice can be made PAID with its balance left.
EditStatus ==
  /\ Change
  /\ \E status \in Statuses \ {invoice.status} : invoice' = [invoice EXCEPT !.status = status]
  /\ UNCHANGED <<owed, notices, suppressed>>

\* POST and DELETE of a suppression, or its expiry.
EditSuppression ==
  /\ Change
  /\ \E scope \in Scopes : suppressed' = IF scope \in suppressed THEN suppressed \ {scope}
                                         ELSE suppressed \cup {scope}
  /\ UNCHANGED <<invoice, owed, notices>>

Days ==
  /\ age < 4
  /\ age' = age + 1
  /\ UNCHANGED <<invoice, owed, notices, waited, approved, reviews, suppressed, sweep,
                 approval, changes>>

\* LEGAL_REFERRAL_WAIT_DAYS after the final notice of a cycle was accepted.
WaitOver(c) ==
  /\ notices[c]["FINAL_NOTICE"] = "SUBMITTED"
  /\ c \notin waited
  /\ waited' = waited \cup {c}
  /\ UNCHANGED <<invoice, owed, age, notices, approved, reviews, suppressed, sweep,
                 approval, changes>>

-----------------------------------------------------------------------------

SweepStep ==
  \/ SweepRead \/ SweepResolve \/ SweepNothing \/ SweepMarkOverdue \/ SweepStop
  \/ SweepReview \/ SweepQueue \/ SweepDuplicate

Next ==
  \/ SweepStep \/ SweepAborts
  \/ \E a \in Approvers : ApproveRead(a) \/ ApproveWrite(a) \/ ApproveDuplicate(a)
  \/ \E c \in Cycles, s \in Stages : Claim(c, s) \/ Sent(c, s) \/ Requeue(c, s)
  \/ Pay \/ PayInFinance \/ Reverse \/ Void \/ EditStatus \/ EditSuppression
  \/ Days \/ \E c \in Cycles : WaitOver(c)

Spec == Init /\ [][Next]_vars

\* The daily job keeps running, and the outbox keeps delivering.
FairSpec ==
  /\ Spec
  /\ WF_vars(SweepStep)
  /\ \A a \in Approvers : WF_vars(ApproveWrite(a) \/ ApproveDuplicate(a))
  /\ \A c \in Cycles, s \in Stages : WF_vars(Claim(c, s))

-----------------------------------------------------------------------------

\* The invoice, its notices and the transactions have their types.
TypeOK ==
  /\ invoice \in Invoices
  /\ owed \in BOOLEAN /\ age \in Bands
  /\ notices \in [Cycles -> [Stages -> Dispatch]]
  /\ waited \subseteq Cycles /\ approved \subseteq Cycles /\ reviews \subseteq Cycles
  /\ suppressed \subseteq Scopes
  /\ sweep \in [pc : {"idle", "read", "resolved"}, seen : Invoices, transition : Transitions]
  /\ approval \in [Approvers -> [pc : {"idle", "checked"}, cycle : Cycles,
                                 stage : Stages \cup Terminal \cup {"NONE"}]]
  /\ changes \in 0..MaxChanges

\* A legal referral goes out only in a cycle whose own final notice was accepted
\* long enough ago and whose own referral was approved, whatever the sweep
\* queued from an older cycle's approval.
ReferralIsGated ==
  \A c \in Cycles :
    notices[c]["LEGAL_REFERRAL"] \in {"SUBMITTING", "SUBMITTED", "FAILED"} =>
      c \in approved /\ c \in waited

\* A notice that was accepted, or is being sent, is never queued again: not by a
\* reopening, a stale sweep or a second approval.
AcceptedStaysAccepted ==
  [][\A c \in Cycles, s \in Stages :
       /\ notices[c][s] = "SUBMITTED" => notices'[c][s] = "SUBMITTED"
       /\ notices[c][s] = "SUBMITTING" => notices'[c][s] \in {"SUBMITTING", "SUBMITTED", "FAILED"}]_vars

\* The next sweep can insert what it decides to queue: a duplicate would abort
\* the sweep of the whole tenant, every day.  Excepted is an
\* invoice that stands at LEGAL_REFERRAL: the route refuses neither an approval
\* before day 120 nor one that is written when a new cycle has begun, and the
\* sweep then wants a stage that the cycle had already.
SweepBlockedOnlyByReferral ==
  LET next == Resolve(invoice) IN
  next.action = "queue" /\ CycleFor(invoice) \in Cycles =>
    KeyIsFree(CycleFor(invoice), next.stage) \/ invoice.stage = "LEGAL_REFERRAL"

\* An invoice that stays paid ends up settled, or was never contacted, and
\* nothing stays queued for it, whatever the sweep and the approvals wrote late.
PaidComesToRest ==
  (<>[] (~ owed)) => <>[] (/\ invoice.stage \in {"NONE", "SETTLED"}
                           /\ \A c \in Cycles, s \in Stages : notices[c][s] # "PENDING")

-----------------------------------------------------------------------------
(* What comments and documents of the code say, read literally. *)

\* RELEASE_EVIDENCE.md:188, "zero transport calls for a suppressed/settled/
\* disputed synthetic invoice".
SettledNeverDispatched ==
  [][\A c \in Cycles, s \in Stages :
       notices[c][s] = "PENDING" /\ notices'[c][s] = "SUBMITTING" => ~ Settled(invoice)]_vars

=============================================================================
