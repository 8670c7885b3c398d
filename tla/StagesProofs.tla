---------------------------- MODULE StagesProofs ----------------------------
(***************************************************************************)
(* Theorems about CollectionStages, for any number of cycles, changes and  *)
(* approval requests: its types, that a legal referral is gated, that an   *)
(* accepted notice is never queued again, and that nothing but a referral  *)
(* keeps the next sweep from queueing what it decides on.                  *)
(***************************************************************************)
EXTENDS CollectionStages, TLAPS

\* A notice that was claimed for sending.
Out == {"SUBMITTING", "SUBMITTED", "FAILED"}

\* What a step may do to a notice: only a claim that passes the recheck sends.
Moves(c, s, new) ==
  LET old == notices[c][s] IN
  /\ old = "SUBMITTED" => new = "SUBMITTED"
  /\ old = "SUBMITTING" => new \in Out
  /\ new \in Out => old \in Out \/ Dispatchable(c, s)

\* The approvals that exist, or are about to be written, are of cycles whose
\* final notice has waited; what was claimed of a referral was approved.
Gated ==
  /\ approved \subseteq waited
  /\ \A a \in Approvers : approval[a].pc = "checked" => approval[a].cycle \in waited
  /\ \A c \in Cycles : notices[c]["LEGAL_REFERRAL"] \in Out => c \in approved

IInv == TypeOK /\ Gated

-----------------------------------------------------------------------------
(* What the operators return. *)

LEMMA CycleLemma == 1 \in Cycles
BY StagesAssumption DEF Cycles, StagesAssumption

LEMMA ResolveLemma ==
  ASSUME TypeOK, NEW seen \in Invoices
  PROVE  Resolve(seen) \in Transitions
<1>1. LegalTransition(seen) \in Transitions
  BY DEF LegalTransition, Transitions, NoTransition, Stages, Terminal
<1>2. \A a \in 1..3 : Target[a] \in Stages
  BY DEF Target, Stages
<1>3. \A a \in 1..3 : [action |-> "queue", stage |-> Target[a]] \in Transitions
  BY <1>2 DEF Transitions
<1>4. age \in 0..4
  BY DEF TypeOK, Bands
<1>5. NoTransition \in Transitions
  BY DEF NoTransition, Transitions
<1>6. \A s \in Terminal : [action |-> "frozen", stage |-> s] \in Transitions
  BY DEF Transitions
<1>7. \A x \in {"mark_overdue", "settled"} : [action |-> x, stage |-> "NONE"] \in Transitions
  BY DEF Transitions
<1>8. CASE Settled(seen)
  BY <1>5, <1>7, <1>8 DEF Resolve
<1>9. CASE ~ Settled(seen) /\ seen.status = "DISPUTED"
  BY <1>5, <1>6, <1>9 DEF Resolve, Terminal
<1>10. CASE ~ Settled(seen) /\ seen.status # "DISPUTED" /\ SuppressedForSweep
  BY <1>5, <1>6, <1>10 DEF Resolve, Terminal
<1>11. CASE ~ Settled(seen) /\ seen.status # "DISPUTED" /\ ~ SuppressedForSweep
  <2>1. CASE age = 0
    BY <1>5, <1>7, <1>11, <2>1 DEF Resolve
  <2>2. CASE age \in 1..3
    BY <1>3, <1>5, <1>11, <2>2 DEF Resolve
  <2>3. CASE age = 4
    BY <1>1, <1>11, <2>3 DEF Resolve
  <2>4. QED
    BY <1>4, <2>1, <2>2, <2>3
<1>12. QED
  BY <1>8, <1>9, <1>10, <1>11

LEMMA GiveUpLemma ==
  ASSUME NEW row \in [Stages -> Dispatch], NEW which
  PROVE  /\ GiveUp(row, which) \in [Stages -> Dispatch]
         /\ \A s \in Stages : \/ GiveUp(row, which)[s] = row[s]
                              \/ row[s] \in {"PENDING", "FAILED"} /\ GiveUp(row, which)[s] = "SUPPRESSED"
BY DEF GiveUp, Dispatch

\* One cycle's notices are given up, and perhaps one is queued, that was free.
LEMMA QueueLemma ==
  ASSUME TypeOK, NEW c \in Cycles, NEW which, NEW s \in Stages, KeyIsFree(c, s),
         notices' = [notices EXCEPT ![c] = [GiveUp(@, which) EXCEPT ![s] = "PENDING"]]
  PROVE  /\ notices' \in [Cycles -> [Stages -> Dispatch]]
         /\ \A d \in Cycles : \A x \in Stages : Moves(d, x, notices'[d][x])
<1> DEFINE row == [GiveUp(notices[c], which) EXCEPT ![s] = "PENDING"]
<1>1. notices \in [Cycles -> [Stages -> Dispatch]] /\ notices[c] \in [Stages -> Dispatch]
  BY DEF TypeOK
<1>2. /\ row \in [Stages -> Dispatch] /\ row[s] = "PENDING"
      /\ \A x \in Stages : x # s =>
           \/ row[x] = notices[c][x]
           \/ notices[c][x] \in {"PENDING", "FAILED"} /\ row[x] = "SUPPRESSED"
  BY <1>1, GiveUpLemma DEF Dispatch
<1>3. notices' = [notices EXCEPT ![c] = row]
  OBVIOUS
<1> HIDE DEF row
<1>4. /\ notices' \in [Cycles -> [Stages -> Dispatch]] /\ notices'[c] = row
      /\ \A d \in Cycles : d # c => notices'[d] = notices[d]
  BY <1>1, <1>2, <1>3
<1>5. notices[c][s] = "NONE"
  BY DEF KeyIsFree
<1>6. ASSUME NEW d \in Cycles, NEW x \in Stages
      PROVE  Moves(d, x, notices'[d][x])
  BY <1>2, <1>4, <1>5, <1>6 DEF Moves, Out
<1>7. QED
  BY <1>4, <1>6

\* Notices of some cycles are given up.
LEMMA StopLemma ==
  ASSUME TypeOK, NEW which, NEW S,
         notices' = [c \in Cycles |-> IF c \in S THEN GiveUp(notices[c], which) ELSE notices[c]]
  PROVE  /\ notices' \in [Cycles -> [Stages -> Dispatch]]
         /\ \A d \in Cycles : \A x \in Stages : Moves(d, x, notices'[d][x])
<1>1. ASSUME NEW d \in Cycles
      PROVE  notices'[d] \in [Stages -> Dispatch] /\ \A x \in Stages : Moves(d, x, notices'[d][x])
  <2>1. notices[d] \in [Stages -> Dispatch]
    BY DEF TypeOK
  <2>2. notices'[d] = GiveUp(notices[d], which) \/ notices'[d] = notices[d]
    OBVIOUS
  <2>3. /\ notices'[d] \in [Stages -> Dispatch]
        /\ \A x \in Stages : \/ notices'[d][x] = notices[d][x]
                             \/ notices[d][x] \in {"PENDING", "FAILED"} /\ notices'[d][x] = "SUPPRESSED"
    BY <2>1, <2>2, GiveUpLemma
  <2>4. QED
    BY <2>3 DEF Moves, Out
<1>2. QED
  BY <1>1

\* The dispatch of one notice.
LEMMA SetLemma ==
  ASSUME TypeOK, NEW c \in Cycles, NEW s \in Stages, NEW status \in Dispatch,
         SetNotice(c, s, status), Moves(c, s, status)
  PROVE  /\ notices' \in [Cycles -> [Stages -> Dispatch]]
         /\ \A d \in Cycles : \A x \in Stages : Moves(d, x, notices'[d][x])
<1> DEFINE row == [notices[c] EXCEPT ![s] = status]
<1>1. notices \in [Cycles -> [Stages -> Dispatch]] /\ notices[c] \in [Stages -> Dispatch]
  BY DEF TypeOK
<1>2. row \in [Stages -> Dispatch] /\ row[s] = status /\ \A x \in Stages : x # s => row[x] = notices[c][x]
  BY <1>1
<1>3. notices' = [notices EXCEPT ![c] = row]
  BY DEF SetNotice
<1> HIDE DEF row
<1>4. /\ notices' \in [Cycles -> [Stages -> Dispatch]] /\ notices'[c] = row
      /\ \A d \in Cycles : d # c => notices'[d] = notices[d]
  BY <1>1, <1>2, <1>3
<1>5. ASSUME NEW d \in Cycles, NEW x \in Stages, d # c \/ x # s
      PROVE  Moves(d, x, notices'[d][x])
  BY <1>2, <1>4, <1>5 DEF Moves, Out
<1>6. QED
  BY <1>2, <1>4, <1>5

LEMMA SameLemma ==
  ASSUME TypeOK, notices' = notices
  PROVE  /\ notices' \in [Cycles -> [Stages -> Dispatch]]
         /\ \A d \in Cycles : \A x \in Stages : Moves(d, x, notices'[d][x])
BY DEF TypeOK, Moves, Out

-----------------------------------------------------------------------------
(* The steps. *)

Kept ==
  /\ TypeOK'
  /\ \A d \in Cycles : \A x \in Stages : Moves(d, x, notices'[d][x])
  /\ waited \subseteq waited' /\ approved \subseteq approved' /\ approved' \subseteq waited'
  /\ \A a \in Approvers : approval'[a].pc = "checked" => approval'[a].cycle \in waited'

LEMMA RestingLemma ==
  /\ NewInvoice \in Invoices /\ NoTransition \in Transitions
  /\ Resting \in [pc : {"idle", "read", "resolved"}, seen : Invoices, transition : Transitions]
  /\ NotApproving \in [pc : {"idle", "checked"}, cycle : Cycles, stage : Stages \cup Terminal \cup {"NONE"}]
<1>1. NewInvoice \in Invoices /\ NoTransition \in Transitions
  BY CycleLemma DEF NewInvoice, Invoices, NoTransition, Transitions, Statuses
<1>2. QED
  BY <1>1, CycleLemma DEF Resting, NotApproving

LEMMA SweepSteps == ASSUME IInv, SweepStep \/ SweepAborts PROVE Kept
<1>1. TypeOK /\ Gated
  BY DEF IInv
<1>2. /\ sweep \in [pc : {"idle", "read", "resolved"}, seen : Invoices, transition : Transitions]
      /\ invoice \in Invoices
  BY <1>1 DEF TypeOK
<1>3. UNCHANGED <<owed, age, waited, approved, suppressed, approval>>
  BY DEF SweepStep, SweepRead, SweepResolve, SweepNothing, SweepMarkOverdue, SweepStop, SweepReview,
     SweepQueue, SweepDuplicate, SweepWrites, SweepAborts
<1>4. ASSUME sweep' \in [pc : {"idle", "read", "resolved"}, seen : Invoices, transition : Transitions],
             invoice' \in Invoices, reviews' \subseteq Cycles, changes' \in 0..MaxChanges,
             notices' \in [Cycles -> [Stages -> Dispatch]],
             \A d \in Cycles : \A x \in Stages : Moves(d, x, notices'[d][x])
      PROVE  Kept
  BY <1>1, <1>3, <1>4 DEF Kept, TypeOK, Gated
<1>5. CASE SweepRead
  <2>1. sweep' \in [pc : {"idle", "read", "resolved"}, seen : Invoices, transition : Transitions]
    BY <1>2, <1>5, RestingLemma DEF SweepRead
  <2>2. invoice' = invoice /\ notices' = notices /\ reviews' = reviews /\ changes' = changes
    BY <1>5 DEF SweepRead
  <2>3. QED
    BY <1>1, <1>4, <2>1, <2>2, SameLemma DEF TypeOK
<1>6. CASE SweepResolve
  <2>1. Resolve(sweep.seen) \in Transitions
    BY <1>1, <1>2, ResolveLemma
  <2>2. sweep' \in [pc : {"idle", "read", "resolved"}, seen : Invoices, transition : Transitions]
    BY <1>2, <1>6, <2>1 DEF SweepResolve
  <2>3. invoice' = invoice /\ notices' = notices /\ reviews' = reviews /\ changes' = changes
    BY <1>6 DEF SweepResolve
  <2>4. QED
    BY <1>1, <1>4, <2>2, <2>3, SameLemma DEF TypeOK
<1>7. CASE SweepAborts
  <2>1. changes' \in 0..MaxChanges
    BY <1>1, <1>7, StagesAssumption DEF SweepAborts, TypeOK, StagesAssumption
  <2>2. sweep' = Resting /\ invoice' = invoice /\ notices' = notices /\ reviews' = reviews
    BY <1>7 DEF SweepAborts
  <2>3. QED
    BY <1>1, <1>4, <2>1, <2>2, RestingLemma, SameLemma DEF TypeOK
<1>8. ASSUME sweep' = Resting, changes' = changes, invoice' \in Invoices, reviews' \subseteq Cycles,
             notices' \in [Cycles -> [Stages -> Dispatch]],
             \A d \in Cycles : \A x \in Stages : Moves(d, x, notices'[d][x])
      PROVE  Kept
  BY <1>1, <1>4, <1>8, RestingLemma DEF TypeOK
<1>9. CASE SweepNothing \/ SweepDuplicate
  BY <1>1, <1>8, <1>9, SameLemma DEF SweepNothing, SweepDuplicate, SweepWrites, TypeOK
<1>10. CASE SweepMarkOverdue
  <2>1. invoice' \in Invoices
    BY <1>2, <1>10 DEF SweepMarkOverdue, Invoices, Statuses
  <2>2. sweep' = Resting /\ changes' = changes /\ reviews' = reviews /\ notices' = notices
    BY <1>10 DEF SweepMarkOverdue, SweepWrites
  <2>3. QED
    BY <1>1, <1>8, <2>1, <2>2, SameLemma DEF TypeOK
<1>11. CASE SweepReview
  <2>1. reviews' \subseteq Cycles
    BY <1>1, <1>2, <1>11 DEF SweepReview, TypeOK, Invoices
  <2>2. sweep' = Resting /\ changes' = changes /\ invoice' = invoice /\ notices' = notices
    BY <1>11 DEF SweepReview, SweepWrites
  <2>3. QED
    BY <1>1, <1>2, <1>8, <2>1, <2>2, SameLemma
<1>12. CASE SweepStop
  <2>1. sweep.transition.action = "frozen" => sweep.transition.stage \in Terminal
    BY <1>2 DEF Transitions
  <2>2. sweep.transition.action \in {"settled", "frozen"}
    BY <1>12 DEF SweepStop, SweepWrites
  <2>3. \E s \in Terminal : invoice' = [invoice EXCEPT !.stage = s]
    BY <1>12, <2>1, <2>2 DEF SweepStop, Terminal
  <2>4. invoice' \in Invoices
    BY <1>2, <2>3 DEF Invoices
  <2>5. notices' = [c \in Cycles |-> IF c \in {sweep.seen.cycle} THEN GiveUp(notices[c], Stages) ELSE notices[c]]
    BY <1>1, <1>12 DEF SweepStop, TypeOK
  <2>6. /\ notices' \in [Cycles -> [Stages -> Dispatch]]
        /\ \A d \in Cycles : \A x \in Stages : Moves(d, x, notices'[d][x])
    BY <1>1, <2>5, StopLemma
  <2>7. sweep' = Resting /\ changes' = changes /\ reviews' = reviews
    BY <1>12 DEF SweepStop, SweepWrites
  <2>8. QED
    BY <1>1, <1>8, <2>4, <2>6, <2>7 DEF TypeOK
<1>13. CASE SweepQueue
  <2> DEFINE over == IF sweep.seen.stage \in Stages THEN {sweep.seen.stage} ELSE {}
  <2>1. PICK c \in Cycles, s \in Stages :
          /\ KeyIsFree(c, s)
          /\ invoice' = [invoice EXCEPT !.stage = s, !.cycle = c]
          /\ notices' = [notices EXCEPT ![c] = [GiveUp(@, over) EXCEPT ![s] = "PENDING"]]
    <3>1. sweep.transition.action = "queue" => sweep.transition.stage \in Stages
      BY <1>2 DEF Transitions
    <3>2. QED
      BY <1>13, <3>1 DEF SweepQueue, SweepWrites
  <2>2. invoice' \in Invoices
    BY <1>2, <2>1 DEF Invoices
  <2>3. /\ notices' \in [Cycles -> [Stages -> Dispatch]]
        /\ \A d \in Cycles : \A x \in Stages : Moves(d, x, notices'[d][x])
    <3> HIDE DEF over
    <3>1. PICK which : which = over
      OBVIOUS
    <3>2. QED
      BY <1>1, <2>1, <3>1, QueueLemma
  <2>4. sweep' = Resting /\ changes' = changes /\ reviews' = reviews
    BY <1>13 DEF SweepQueue, SweepWrites
  <2>5. QED
    BY <1>1, <1>8, <2>2, <2>3, <2>4 DEF TypeOK
<1>14. QED
  BY <1>5, <1>6, <1>7, <1>9, <1>10, <1>11, <1>12, <1>13 DEF SweepStep

LEMMA ApproveSteps ==
  ASSUME IInv, NEW a \in Approvers, ApproveRead(a) \/ ApproveWrite(a) \/ ApproveDuplicate(a)
  PROVE  Kept
<1> DEFINE Slots == [pc : {"idle", "checked"}, cycle : Cycles, stage : Stages \cup Terminal \cup {"NONE"}]
<1>1. TypeOK /\ Gated /\ approval \in [Approvers -> Slots] /\ invoice \in Invoices
  BY DEF IInv, TypeOK
<1>2. UNCHANGED <<owed, age, waited, suppressed, sweep, changes>>
  BY DEF ApproveRead, ApproveWrite, ApproveDuplicate
<1>3. ASSUME NEW x \in Slots, approval' = [approval EXCEPT ![a] = x], x.pc = "checked" => x.cycle \in waited,
             invoice' \in Invoices, reviews' \subseteq Cycles,
             approved \subseteq approved', approved' \subseteq waited,
             notices' \in [Cycles -> [Stages -> Dispatch]],
             \A d \in Cycles : \A s \in Stages : Moves(d, s, notices'[d][s])
      PROVE  Kept
  <2>1. approval' \in [Approvers -> Slots]
    BY <1>1, <1>3
  <2>2. \A b \in Approvers : approval'[b].pc = "checked" => approval'[b].cycle \in waited
    BY <1>1, <1>3 DEF Gated
  <2>3. TypeOK'
    BY <1>1, <1>2, <1>3, <2>1 DEF TypeOK
  <2>4. QED
    BY <1>2, <1>3, <2>2, <2>3 DEF Kept
<1>4. CASE ApproveRead(a)
  <2> DEFINE x == [pc |-> "checked", cycle |-> invoice.cycle, stage |-> invoice.stage]
  <2>1. x \in Slots
    BY <1>1 DEF Invoices
  <2>2. approval' = [approval EXCEPT ![a] = x] /\ x.cycle \in waited
    BY <1>4 DEF ApproveRead, Referable
  <2>3. invoice' = invoice /\ reviews' = reviews /\ approved' = approved /\ notices' = notices
    BY <1>4 DEF ApproveRead
  <2> HIDE DEF x
  <2>4. \E y \in Slots : approval' = [approval EXCEPT ![a] = y] /\ y.cycle \in waited
    BY <2>1, <2>2
  <2>5. QED
    BY <1>1, <1>3, <2>3, <2>4, SameLemma DEF TypeOK, Gated
<1>5. CASE ApproveDuplicate(a)
  <2>1. /\ approval' = [approval EXCEPT ![a] = NotApproving]
        /\ invoice' = invoice /\ reviews' = reviews /\ approved' = approved /\ notices' = notices
    BY <1>5 DEF ApproveDuplicate
  <2>2. NotApproving \in Slots /\ NotApproving.pc # "checked"
    BY RestingLemma DEF NotApproving
  <2>3. QED
    BY <1>1, <1>3, <2>1, <2>2, SameLemma DEF TypeOK, Gated
<1>6. CASE ApproveWrite(a)
  <2>1. PICK c \in Cycles, which \in SUBSET (Stages \cup Terminal \cup {"NONE"}) :
          /\ c = approval[a].cycle /\ which = {approval[a].stage}
    BY <1>1
  <2>2. /\ KeyIsFree(c, "LEGAL_REFERRAL") /\ approved' = approved \cup {c} /\ c \in waited
        /\ invoice' = [invoice EXCEPT !.stage = "LEGAL_REFERRAL"]
        /\ notices' = [notices EXCEPT ![c] = [GiveUp(@, which) EXCEPT !["LEGAL_REFERRAL"] = "PENDING"]]
        /\ reviews' = reviews \ {c} /\ approval' = [approval EXCEPT ![a] = NotApproving]
    BY <1>1, <1>6, <2>1 DEF ApproveWrite, Gated
  <2>3. /\ notices' \in [Cycles -> [Stages -> Dispatch]]
        /\ \A d \in Cycles : \A s \in Stages : Moves(d, s, notices'[d][s])
    <3>1. "LEGAL_REFERRAL" \in Stages
      BY DEF Stages
    <3>2. QED
      BY <1>1, <2>2, <3>1, QueueLemma
  <2>4. invoice' \in Invoices
    BY <1>1, <2>2 DEF Invoices, Stages
  <2>5. NotApproving \in Slots /\ NotApproving.pc # "checked"
    BY RestingLemma DEF NotApproving
  <2>6. reviews' \subseteq Cycles /\ approved \subseteq approved' /\ approved' \subseteq waited
    BY <1>1, <2>2 DEF TypeOK, Gated
  <2>7. QED
    BY <1>3, <2>2, <2>3, <2>4, <2>5, <2>6
<1>7. QED
  BY <1>4, <1>5, <1>6

LEMMA DispatchSteps ==
  ASSUME IInv, NEW c \in Cycles, NEW s \in Stages, Claim(c, s) \/ Sent(c, s) \/ Requeue(c, s)
  PROVE  Kept
<1>1. TypeOK /\ Gated
  BY DEF IInv
<1>2. ASSUME NEW status \in Dispatch, SetNotice(c, s, status), Moves(c, s, status), changes' \in 0..MaxChanges
      PROVE  Kept
  <2>1. /\ notices' \in [Cycles -> [Stages -> Dispatch]]
        /\ \A d \in Cycles : \A x \in Stages : Moves(d, x, notices'[d][x])
    BY <1>1, <1>2, SetLemma
  <2>2. UNCHANGED <<invoice, owed, age, waited, approved, reviews, suppressed, sweep, approval>>
    BY <1>2 DEF SetNotice
  <2>3. QED
    BY <1>1, <1>2, <2>1, <2>2 DEF Kept, TypeOK, Gated
<1>3. CASE Claim(c, s)
  <2>1. changes' \in 0..MaxChanges /\ notices[c][s] = "PENDING"
    BY <1>1, <1>3 DEF Claim, TypeOK
  <2>2. CASE Dispatchable(c, s)
    <3>1. SetNotice(c, s, "SUBMITTING")
      BY <1>3, <2>2 DEF Claim
    <3>2. Moves(c, s, "SUBMITTING") /\ "SUBMITTING" \in Dispatch
      BY <2>1, <2>2 DEF Moves, Dispatch
    <3>3. QED
      BY <1>2, <2>1, <3>1, <3>2
  <2>3. CASE ~ Dispatchable(c, s)
    <3>1. SetNotice(c, s, "SUPPRESSED")
      BY <1>3, <2>3 DEF Claim
    <3>2. Moves(c, s, "SUPPRESSED") /\ "SUPPRESSED" \in Dispatch
      BY <2>1 DEF Moves, Dispatch, Out
    <3>3. QED
      BY <1>2, <2>1, <3>1, <3>2
  <2>4. QED
    BY <2>2, <2>3
<1>4. CASE Sent(c, s)
  <2>1. changes' \in 0..MaxChanges /\ notices[c][s] = "SUBMITTING"
    BY <1>1, <1>4 DEF Sent, TypeOK
  <2>2. \A x \in {"SUBMITTED", "FAILED"} : Moves(c, s, x) /\ x \in Dispatch
    BY <2>1 DEF Moves, Dispatch, Out
  <2>3. \E x \in {"SUBMITTED", "FAILED"} : SetNotice(c, s, x)
    BY <1>4 DEF Sent
  <2>4. QED
    BY <1>2, <2>1, <2>2, <2>3
<1>5. CASE Requeue(c, s)
  <2>1. changes' \in 0..MaxChanges
    BY <1>1, <1>5, StagesAssumption DEF Requeue, TypeOK, StagesAssumption
  <2>2. Moves(c, s, "PENDING") /\ "PENDING" \in Dispatch /\ SetNotice(c, s, "PENDING")
    BY <1>5 DEF Requeue, Moves, Dispatch, Out
  <2>3. QED
    BY <1>2, <2>1, <2>2
<1>6. QED
  BY <1>3, <1>4, <1>5

LEMMA PeopleSteps ==
  ASSUME IInv,
         \/ Pay \/ PayInFinance \/ Reverse \/ Void \/ EditStatus \/ EditSuppression
         \/ Days \/ \E c \in Cycles : WaitOver(c)
  PROVE  Kept
<1>1. TypeOK /\ Gated /\ invoice \in Invoices
  BY DEF IInv, TypeOK
<1>2. Change => changes' \in 0..MaxChanges
  BY <1>1, StagesAssumption DEF Change, TypeOK, StagesAssumption
<1>3. ASSUME Change, invoice' \in Invoices, owed' \in BOOLEAN, suppressed' \subseteq Scopes,
             notices' \in [Cycles -> [Stages -> Dispatch]],
             \A d \in Cycles : \A x \in Stages : Moves(d, x, notices'[d][x])
      PROVE  Kept
  BY <1>1, <1>2, <1>3 DEF Change, Kept, TypeOK, Gated
<1>4. CASE Pay
  <2>1. invoice' \in Invoices
    BY <1>1, <1>4 DEF Pay, Invoices, Statuses
  <2>2. Change /\ owed' \in BOOLEAN /\ suppressed' = suppressed /\ notices' = notices
    BY <1>4 DEF Pay
  <2>3. QED
    BY <1>1, <1>3, <2>1, <2>2, SameLemma DEF TypeOK
<1>5. CASE PayInFinance
  <2>1. invoice' \in Invoices
    BY <1>1, <1>5 DEF PayInFinance, Invoices, Statuses, Terminal
  <2>2. /\ Change /\ owed' = owed /\ suppressed' = suppressed
        /\ notices' = [c \in Cycles |-> IF c \in Cycles THEN GiveUp(notices[c], Stages) ELSE notices[c]]
    BY <1>5 DEF PayInFinance
  <2>3. /\ notices' \in [Cycles -> [Stages -> Dispatch]]
        /\ \A d \in Cycles : \A x \in Stages : Moves(d, x, notices'[d][x])
    BY <1>1, <2>2, StopLemma
  <2>4. QED
    BY <1>1, <1>3, <2>1, <2>2, <2>3 DEF TypeOK
<1>6. CASE Reverse \/ Void \/ EditStatus \/ EditSuppression
  <2>1. \E status \in Statuses : invoice' = [invoice EXCEPT !.status = status] \/ invoice' = invoice
    BY <1>6 DEF Reverse, Void, EditStatus, EditSuppression, Statuses
  <2>2. invoice' \in Invoices
    BY <1>1, <2>1 DEF Invoices
  <2>3. Change /\ owed' \in BOOLEAN /\ suppressed' \subseteq Scopes /\ notices' = notices
    BY <1>1, <1>6 DEF Reverse, Void, EditStatus, EditSuppression, TypeOK
  <2>4. QED
    BY <1>1, <1>3, <2>2, <2>3, SameLemma
<1>7. CASE Days
  <2>1. age' \in Bands
    BY <1>1, <1>7 DEF Days, TypeOK, Bands
  <2>2. UNCHANGED <<invoice, owed, notices, waited, approved, reviews, suppressed, sweep, approval, changes>>
    BY <1>7 DEF Days
  <2>3. QED
    BY <1>1, <2>1, <2>2, SameLemma DEF Kept, TypeOK, Gated
<1>8. ASSUME NEW c \in Cycles, WaitOver(c)
      PROVE  Kept
  <2>1. /\ waited' = waited \cup {c}
        /\ UNCHANGED <<invoice, owed, age, notices, approved, reviews, suppressed, sweep, approval, changes>>
    BY <1>8 DEF WaitOver
  <2>2. QED
    BY <1>1, <2>1, SameLemma DEF Kept, TypeOK, Gated
<1>9. QED
  BY <1>4, <1>5, <1>6, <1>7, <1>8

LEMMA NextKept == ASSUME IInv, [Next]_vars PROVE Kept
<1>1. CASE UNCHANGED vars
  BY <1>1, SameLemma DEF IInv, vars, Kept, TypeOK, Gated
<1>2. CASE Next
  BY <1>2, SweepSteps, ApproveSteps, DispatchSteps, PeopleSteps DEF Next
<1>3. QED
  BY <1>1, <1>2

LEMMA Inductive == IInv /\ [Next]_vars => IInv'
<1>1. SUFFICES ASSUME IInv, [Next]_vars PROVE IInv'
  OBVIOUS
<1>2. Kept
  BY <1>1, NextKept
<1>3. ASSUME NEW c \in Cycles, notices'[c]["LEGAL_REFERRAL"] \in Out
      PROVE  c \in approved'
  <2>1. Moves(c, "LEGAL_REFERRAL", notices'[c]["LEGAL_REFERRAL"])
    BY <1>2 DEF Kept, Stages
  <2>2. notices[c]["LEGAL_REFERRAL"] \in Out \/ Dispatchable(c, "LEGAL_REFERRAL")
    BY <1>3, <2>1 DEF Moves
  <2>3. c \in approved
    BY <1>1, <2>2 DEF IInv, Gated, Dispatchable
  <2>4. QED
    BY <1>2, <2>3 DEF Kept
<1>4. QED
  BY <1>2, <1>3 DEF IInv, Kept, Gated

LEMMA InitLemma == Init => IInv
<1>1. SUFFICES ASSUME Init PROVE IInv
  OBVIOUS
<1>2. TypeOK
  BY <1>1, RestingLemma, StagesAssumption DEF Init, TypeOK, StagesAssumption, Bands, Dispatch
<1>3. Gated
  BY <1>1 DEF Init, Gated, NotApproving, Out, Stages
<1>4. QED
  BY <1>2, <1>3 DEF IInv

\* The invariant holds in every state, for any cycles, changes and requests.
THEOREM Invariance == Spec => []IInv
BY InitLemma, Inductive, PTL DEF Spec

\* The invoice, its notices, the sweep and the approvals keep their types.
THEOREM TypeCorrect == Spec => []TypeOK
<1>1. IInv => TypeOK
  BY DEF IInv
<1>2. QED
  BY <1>1, Invariance, PTL

\* A legal referral is sent only in a cycle that was approved and whose final
\* notice has waited, however late the sweep, the approvals and people write.
THEOREM ReferralGated == Spec => []ReferralIsGated
<1>1. IInv => ReferralIsGated
  BY DEF IInv, Gated, ReferralIsGated, Out
<1>2. QED
  BY <1>1, Invariance, PTL

\* No reopening, stale sweep or second approval queues again what was accepted.
THEOREM AcceptedStays == Spec => AcceptedStaysAccepted
<1>1. IInv /\ [Next]_vars =>
        \A c \in Cycles, s \in Stages :
          /\ notices[c][s] = "SUBMITTED" => notices'[c][s] = "SUBMITTED"
          /\ notices[c][s] = "SUBMITTING" => notices'[c][s] \in {"SUBMITTING", "SUBMITTED", "FAILED"}
  BY NextKept DEF Kept, Moves, Out
<1>2. QED
  BY <1>1, Invariance, PTL DEF Spec, AcceptedStaysAccepted

-----------------------------------------------------------------------------
(* The sweep is blocked by nothing but a referral.  Stages are queued in   *)
(* order within a cycle, and the sweep alone opens cycles and queues the   *)
(* stages before a referral.                                               *)

Early == Stages \ {"LEGAL_REFERRAL"}

\* The band of days from which a stage is the target; none yet is 0.
Level == [s \in Early \cup {"NONE"} |->
            CASE s = "NONE" -> 0 [] s = "REMINDER" -> 1 [] s = "OVERDUE" -> 2 [] s = "FINAL_NOTICE" -> 3]

Queued(c, s) == notices[c][s] # "NONE"

\* Some stage of the cycle beyond level was queued already.
Ahead(c, level) == \E s \in Early : Queued(c, s) /\ Level[s] > level

\* No cycle was queued in before it began, no stage before its days; the
\* invoice stands at the latest stage queued before a referral; an approved
\* referral, once queued, leaves the invoice there or stopped.
Ordered ==
  /\ \A c \in Cycles, s \in Stages : Queued(c, s) => c <= invoice.cycle
  /\ \A s \in Early : Queued(invoice.cycle, s) => Level[s] <= age
  /\ invoice.stage \in Early \cup {"NONE"} =>
       ~ Ahead(invoice.cycle, Level[invoice.stage]) /\ Level[invoice.stage] <= age
  /\ \A c \in waited : Queued(c, "FINAL_NOTICE")
  /\ invoice.cycle \in approved /\ Queued(invoice.cycle, "LEGAL_REFERRAL") =>
       invoice.stage \in Terminal \cup {"LEGAL_REFERRAL"}

\* The sweep's reading is of the invoice's cycle, and the stage it is about to
\* queue is behind none of the cycle it is for.
SweepOrdered ==
  LET c == CycleFor(sweep.seen)
      s == sweep.transition.stage
  IN
  /\ sweep.pc # "idle" => sweep.seen.cycle = invoice.cycle
  /\ sweep.pc = "resolved" /\ sweep.transition.action = "queue" /\ s \in Early =>
       Level[s] <= age /\ (c \in Cycles => ~ Ahead(c, Level[s]))

OInv == IInv /\ Ordered /\ SweepOrdered

LEMMA LevelLemma ==
  /\ Level["NONE"] = 0 /\ Level["REMINDER"] = 1 /\ Level["OVERDUE"] = 2 /\ Level["FINAL_NOTICE"] = 3
  /\ \A s \in Early \cup {"NONE"} : Level[s] \in 0..3
  /\ \A a \in 1..3 : Target[a] \in Early /\ Level[Target[a]] = a
  /\ Early = {"REMINDER", "OVERDUE", "FINAL_NOTICE"}
<1>1. Early = {"REMINDER", "OVERDUE", "FINAL_NOTICE"}
  BY DEF Early, Stages
<1>2. Level["NONE"] = 0 /\ Level["REMINDER"] = 1 /\ Level["OVERDUE"] = 2 /\ Level["FINAL_NOTICE"] = 3
  BY <1>1 DEF Level
<1>3. \A s \in Early \cup {"NONE"} : Level[s] \in 0..3
  BY <1>1, <1>2
<1>4. Target[1] = "REMINDER" /\ Target[2] = "OVERDUE" /\ Target[3] = "FINAL_NOTICE"
  BY DEF Target
<1>5. \A a \in 1..3 : Target[a] \in Early /\ Level[Target[a]] = a
  BY <1>1, <1>2, <1>4
<1>6. QED
  BY <1>1, <1>2, <1>3, <1>5

-----------------------------------------------------------------------------
(* The steps that queue nothing new and open no cycle. *)

\* No notice comes to be and none goes.
SameKeys == \A d \in Cycles : \A x \in Stages : notices'[d][x] = "NONE" <=> notices[d][x] = "NONE"

\* What such a step leaves alone: a stage may stop, days pass, a wait ends.
Quiet ==
  /\ SameKeys
  /\ invoice'.cycle = invoice.cycle /\ invoice'.stage \in {invoice.stage} \cup Terminal
  /\ age <= age' /\ approved' = approved
  /\ \A c \in waited' : c \in waited \/ Queued(c, "FINAL_NOTICE")

LEMMA QuietLemma == ASSUME OInv, TypeOK', Quiet PROVE Ordered'
<1>1. /\ TypeOK /\ Ordered /\ invoice \in Invoices /\ invoice.cycle \in Cycles
      /\ invoice.stage \in Stages \cup Terminal \cup {"NONE"} /\ age \in Int /\ age' \in Int
      /\ waited' \subseteq Cycles
      /\ invoice'.cycle = invoice.cycle /\ invoice'.stage \in {invoice.stage} \cup Terminal
      /\ age <= age' /\ approved' = approved
      /\ \A c \in waited' : c \in waited \/ Queued(c, "FINAL_NOTICE")
  BY DEF OInv, IInv, TypeOK, Invoices, Bands, Quiet
<1>2. Early \subseteq Stages /\ {"FINAL_NOTICE", "LEGAL_REFERRAL"} \subseteq Stages
  BY DEF Early, Stages
<1>3. \A d \in Cycles : \A x \in Stages : Queued(d, x)' <=> Queued(d, x)
  BY DEF Quiet, SameKeys, Queued
<1>4. \A c \in Cycles, s \in Stages : Queued(c, s)' => c <= invoice'.cycle
  BY <1>1, <1>3 DEF Ordered
<1>5. \A s \in Early : Queued(invoice.cycle, s)' => Level[s] <= age'
  <2>1. \A s \in Early : Queued(invoice.cycle, s)' => Level[s] <= age /\ Level[s] \in Int
    BY <1>1, <1>2, <1>3, LevelLemma DEF Ordered
  <2>2. QED
    BY <1>1, <2>1
<1>6. invoice'.stage \in Early \cup {"NONE"} =>
        ~ Ahead(invoice.cycle, Level[invoice.stage])' /\ Level[invoice'.stage] <= age'
  <2>1. SUFFICES ASSUME invoice'.stage \in Early \cup {"NONE"}
                 PROVE  ~ Ahead(invoice.cycle, Level[invoice.stage])' /\ Level[invoice'.stage] <= age'
    OBVIOUS
  <2>2. invoice'.stage = invoice.stage
    BY <1>1, <2>1 DEF Early, Stages, Terminal
  <2>3. ~ Ahead(invoice.cycle, Level[invoice.stage]) /\ Level[invoice.stage] <= age
    BY <1>1, <2>1, <2>2 DEF Ordered
  <2>4. Level[invoice.stage] \in Int
    BY <2>1, <2>2, LevelLemma
  <2>5. \A s \in Early : Queued(invoice.cycle, s)' => ~ (Level[s] > Level[invoice'.stage])
    BY <1>1, <1>2, <1>3, <2>2, <2>3 DEF Ahead
  <2>6. QED
    BY <1>1, <2>2, <2>3, <2>4, <2>5 DEF Ahead
<1>7. \A c \in waited' : Queued(c, "FINAL_NOTICE")'
  BY <1>1, <1>2, <1>3 DEF Ordered
<1>8. invoice'.cycle \in approved' /\ Queued(invoice.cycle, "LEGAL_REFERRAL")' =>
        invoice'.stage \in Terminal \cup {"LEGAL_REFERRAL"}
  BY <1>1, <1>2, <1>3 DEF Ordered
<1>9. QED
  BY <1>4, <1>5, <1>6, <1>7, <1>8 DEF Ordered

\* A sweep that rests, or goes on as it was.
LEMMA SweepQuiet ==
  ASSUME OInv, TypeOK', age <= age', sweep' = Resting \/ sweep' = sweep,
         sweep' = sweep => /\ invoice'.cycle = invoice.cycle
                           /\ \A d \in Cycles : \A x \in Early : Queued(d, x)' => Queued(d, x)
  PROVE  SweepOrdered'
<1>1. CASE sweep' = Resting
  BY <1>1 DEF SweepOrdered, Resting
<1>2. CASE sweep' = sweep
  <2>1. SweepOrdered /\ age \in Int /\ age' \in Int
    BY DEF OInv, IInv, TypeOK, Bands
  <2>2. \A s \in Early : Level[s] \in Int
    BY LevelLemma
  <2>3. \A d \in Cycles : \A s \in Early : ~ Ahead(d, Level[s]) => ~ Ahead(d, Level[s])'
    BY <1>2 DEF Ahead
  <2>4. CycleFor(sweep.seen)' = CycleFor(sweep.seen)
    BY <1>2 DEF CycleFor
  <2>5. QED
    BY <1>2, <2>1, <2>2, <2>3, <2>4 DEF SweepOrdered
<1>3. QED
  BY <1>1, <1>2

LEMMA GivenUpKeys ==
  ASSUME TypeOK, NEW which, NEW S,
         notices' = [c \in Cycles |-> IF c \in S THEN GiveUp(notices[c], which) ELSE notices[c]]
  PROVE  SameKeys
<1>1. ASSUME NEW d \in Cycles, NEW x \in Stages
      PROVE  notices'[d][x] = "NONE" <=> notices[d][x] = "NONE"
  <2>1. notices[d] \in [Stages -> Dispatch]
    BY DEF TypeOK
  <2>2. GiveUp(notices[d], which)[x] = "NONE" <=> notices[d][x] = "NONE"
    BY <2>1, GiveUpLemma
  <2>3. notices'[d] = GiveUp(notices[d], which) \/ notices'[d] = notices[d]
    OBVIOUS
  <2>4. QED
    BY <2>2, <2>3
<1>2. QED
  BY <1>1 DEF SameKeys

LEMMA SetKeys ==
  ASSUME TypeOK, NEW c \in Cycles, NEW s \in Stages, NEW status,
         notices[c][s] # "NONE", status # "NONE", SetNotice(c, s, status)
  PROVE  SameKeys
<1>1. notices' = [notices EXCEPT ![c] = [notices[c] EXCEPT ![s] = status]] /\ notices \in [Cycles -> [Stages -> Dispatch]]
  BY DEF SetNotice, TypeOK
<1>2. notices[c] \in [Stages -> Dispatch]
  BY <1>1
<1>3. QED
  BY <1>1, <1>2 DEF SameKeys

LEMMA QuietSteps ==
  ASSUME OInv, TypeOK',
         \/ SweepNothing \/ SweepMarkOverdue \/ SweepStop \/ SweepReview \/ SweepDuplicate \/ SweepAborts
         \/ \E a \in Approvers : ApproveRead(a) \/ ApproveDuplicate(a)
         \/ \E c \in Cycles, s \in Stages : Claim(c, s) \/ Sent(c, s) \/ Requeue(c, s)
         \/ Pay \/ PayInFinance \/ Reverse \/ Void \/ EditStatus \/ EditSuppression
         \/ Days \/ \E c \in Cycles : WaitOver(c)
         \/ UNCHANGED vars
  PROVE  Ordered' /\ SweepOrdered'
<1>1. TypeOK /\ invoice \in Invoices /\ age \in Int /\ notices \in [Cycles -> [Stages -> Dispatch]]
  BY DEF OInv, IInv, TypeOK, Bands
<1>2. ASSUME Quiet, sweep' = Resting \/ sweep' = sweep
      PROVE  Ordered' /\ SweepOrdered'
  <2>1. \A d \in Cycles : \A x \in Early : Queued(d, x)' => Queued(d, x)
    BY <1>2 DEF Quiet, SameKeys, Queued, Early
  <2>2. invoice'.cycle = invoice.cycle /\ age <= age'
    BY <1>2 DEF Quiet
  <2>3. QED
    BY <1>2, <2>1, <2>2, QuietLemma, SweepQuiet
<1>3. ASSUME SameKeys, age' = age, approved' = approved, waited' = waited,
             sweep' = Resting \/ sweep' = sweep,
             invoice'.cycle = invoice.cycle, invoice'.stage \in {invoice.stage} \cup Terminal
      PROVE  Ordered' /\ SweepOrdered'
  BY <1>1, <1>2, <1>3 DEF Quiet
<1>4. notices' = notices => SameKeys
  BY DEF SameKeys
<1>5. CASE SweepNothing \/ SweepReview \/ SweepDuplicate \/ SweepAborts \/ UNCHANGED vars
  BY <1>3, <1>4, <1>5 DEF SweepNothing, SweepReview, SweepDuplicate, SweepAborts, SweepWrites, vars
<1>6. CASE SweepMarkOverdue
  BY <1>1, <1>3, <1>4, <1>6 DEF SweepMarkOverdue, SweepWrites, Invoices
<1>7. CASE SweepStop
  <2>1. /\ sweep' = Resting /\ age' = age /\ approved' = approved /\ waited' = waited
        /\ sweep.transition.action \in {"settled", "frozen"}
    BY <1>7 DEF SweepStop, SweepWrites
  <2>2. sweep.transition.action = "frozen" => sweep.transition.stage \in Terminal
    BY <1>1 DEF TypeOK, Transitions
  <2>3. \E s \in Terminal : invoice' = [invoice EXCEPT !.stage = s]
    BY <1>7, <2>1, <2>2 DEF SweepStop, Terminal
  <2>4. notices' = [c \in Cycles |-> IF c \in {sweep.seen.cycle} THEN GiveUp(notices[c], Stages) ELSE notices[c]]
    BY <1>1, <1>7 DEF SweepStop
  <2>5. SameKeys
    BY <1>1, <2>4, GivenUpKeys
  <2>6. invoice'.cycle = invoice.cycle /\ invoice'.stage \in {invoice.stage} \cup Terminal
    BY <1>1, <2>3 DEF Invoices
  <2>7. QED
    BY <1>3, <2>1, <2>5, <2>6
<1>8. CASE \E a \in Approvers : ApproveRead(a) \/ ApproveDuplicate(a)
  BY <1>3, <1>4, <1>8 DEF ApproveRead, ApproveDuplicate
<1>9. ASSUME NEW c \in Cycles, NEW s \in Stages, Claim(c, s) \/ Sent(c, s) \/ Requeue(c, s)
      PROVE  Ordered' /\ SweepOrdered'
  <2>1. /\ \E status \in {"PENDING", "SUBMITTING", "SUBMITTED", "FAILED", "SUPPRESSED"} : SetNotice(c, s, status)
        /\ notices[c][s] # "NONE"
    BY <1>9 DEF Claim, Sent, Requeue
  <2>2. SameKeys
    BY <1>1, <2>1, SetKeys
  <2>3. UNCHANGED <<invoice, age, waited, approved, sweep>>
    BY <2>1 DEF SetNotice
  <2>4. QED
    BY <1>3, <2>2, <2>3
<1>10. CASE PayInFinance
  <2>1. notices' = [c \in Cycles |-> IF c \in Cycles THEN GiveUp(notices[c], Stages) ELSE notices[c]]
    BY <1>10 DEF PayInFinance
  <2>2. SameKeys
    BY <1>1, <2>1, GivenUpKeys
  <2>3. invoice'.cycle = invoice.cycle /\ invoice'.stage \in {invoice.stage} \cup Terminal
    BY <1>1, <1>10 DEF PayInFinance, Invoices, Terminal
  <2>4. QED
    BY <1>3, <1>10, <2>2, <2>3 DEF PayInFinance, Change
<1>11. CASE Pay \/ Reverse \/ Void \/ EditStatus \/ EditSuppression
  <2>1. \E status \in Statuses : invoice' = [invoice EXCEPT !.status = status] \/ invoice' = invoice
    BY <1>11 DEF Pay, Reverse, Void, EditStatus, EditSuppression, Statuses
  <2>2. invoice'.cycle = invoice.cycle /\ invoice'.stage = invoice.stage
    BY <1>1, <2>1 DEF Invoices
  <2>3. UNCHANGED <<age, waited, approved, sweep, notices>>
    BY <1>11 DEF Pay, Reverse, Void, EditStatus, EditSuppression, Change
  <2>4. QED
    BY <1>3, <1>4, <2>2, <2>3
<1>12. CASE Days
  <2>1. UNCHANGED <<invoice, waited, approved, sweep, notices>> /\ age <= age'
    BY <1>1, <1>12 DEF Days
  <2>2. QED
    BY <1>2, <1>4, <2>1 DEF Quiet
<1>13. ASSUME NEW c \in Cycles, WaitOver(c)
       PROVE  Ordered' /\ SweepOrdered'
  <2>1. /\ UNCHANGED <<invoice, age, approved, sweep, notices>>
        /\ waited' = waited \cup {c} /\ Queued(c, "FINAL_NOTICE")
    BY <1>13 DEF WaitOver, Queued
  <2>2. QED
    BY <1>1, <1>2, <1>4, <2>1 DEF Quiet
<1>14. QED
  BY <1>5, <1>6, <1>7, <1>8, <1>9, <1>10, <1>11, <1>12, <1>13

-----------------------------------------------------------------------------
(* The sweep's reading and resolving, and the two steps that queue.        *)

LEMMA ReadStep == ASSUME OInv, TypeOK', SweepRead PROVE Ordered' /\ SweepOrdered'
<1>1. UNCHANGED <<invoice, age, notices, waited, approved>>
  BY DEF SweepRead
<1>2. Ordered'
  <2>1. age \in Int
    BY DEF OInv, IInv, TypeOK, Bands
  <2>2. Quiet
    BY <1>1, <2>1 DEF Quiet, SameKeys
  <2>3. QED
    BY <2>2, QuietLemma
<1>3. sweep'.pc = "read" /\ sweep'.seen = invoice'
  BY <1>1 DEF SweepRead
<1>4. QED
  BY <1>2, <1>3 DEF SweepOrdered

\* What resolving an invoice queues: the days' target, or what day 120 asks for.
LEMMA QueuedStage ==
  ASSUME TypeOK, NEW seen \in Invoices, Resolve(seen).action = "queue"
  PROVE  LET s == Resolve(seen).stage IN
         \/ age \in 1..3 /\ s = Target[age] /\ seen.stage # s
         \/ age = 4 /\ s = "FINAL_NOTICE" /\ seen.stage # s
         \/ age = 4 /\ s = "LEGAL_REFERRAL" /\ seen.stage # s /\ seen.cycle \in approved
<1>1. age \in 0..4
  BY DEF TypeOK, Bands
<1>2. ~ Settled(seen) /\ seen.status # "DISPUTED" /\ ~ SuppressedForSweep
  BY DEF Resolve, NoTransition
<1>3. CASE age = 0
  BY <1>2, <1>3 DEF Resolve, NoTransition
<1>4. CASE age \in 1..3
  <2>1. Resolve(seen) = IF seen.stage = Target[age] THEN NoTransition ELSE [action |-> "queue", stage |-> Target[age]]
    BY <1>2, <1>4 DEF Resolve
  <2>2. QED
    BY <1>4, <2>1 DEF NoTransition
<1>5. CASE age = 4
  <2>1. Resolve(seen) = LegalTransition(seen)
    BY <1>2, <1>5 DEF Resolve
  <2>2. QED
    BY <1>5, <2>1 DEF LegalTransition, NoTransition, Approved
<1>6. QED
  BY <1>1, <1>3, <1>4, <1>5

LEMMA ResolveStep == ASSUME OInv, TypeOK', SweepResolve PROVE Ordered' /\ SweepOrdered'
<1>1. /\ TypeOK /\ Ordered /\ age \in Int /\ invoice.cycle \in Cycles
      /\ sweep.seen \in Invoices /\ sweep.seen.cycle = invoice.cycle
      /\ UNCHANGED <<invoice, age, notices, waited, approved>>
  BY DEF OInv, IInv, TypeOK, Bands, Invoices, SweepOrdered, SweepResolve
<1>2. Ordered'
  <2>1. Quiet
    BY <1>1 DEF Quiet, SameKeys
  <2>2. QED
    BY <2>1, QuietLemma
<1>3. sweep'.seen = sweep.seen /\ sweep'.transition = Resolve(sweep.seen)
  BY DEF SweepResolve, OInv, IInv, TypeOK
<1>4. ASSUME sweep'.transition.action = "queue", sweep'.transition.stage \in Early
      PROVE  LET c == CycleFor(sweep.seen) s == sweep'.transition.stage IN
             Level[s] <= age /\ (c \in Cycles => ~ Ahead(c, Level[s]))
  <2> DEFINE c == CycleFor(sweep.seen)
             s == sweep'.transition.stage
  <2>1. \/ age \in 1..3 /\ s = Target[age]
        \/ age = 4 /\ s = "FINAL_NOTICE"
    BY <1>1, <1>3, <1>4, QueuedStage DEF Early
  <2>2. Level[s] <= age /\ Level[s] \in 0..3 /\ (Level[s] = age \/ Level[s] = 3)
    BY <1>4, <2>1, LevelLemma
  <2>3. c = invoice.cycle \/ c = invoice.cycle + 1
    BY <1>1 DEF CycleFor
  <2>4. CASE c = invoice.cycle
    <3>1. \A x \in Early : Queued(c, x) => Level[x] <= age
      BY <1>1, <2>4 DEF Ordered
    <3>2. \A x \in Early : Level[x] \in 0..3
      BY LevelLemma
    <3> HIDE DEF c, s
    <3>3. ~ Ahead(c, Level[s])
      BY <1>1, <2>2, <3>1, <3>2 DEF Ahead
    <3>4. QED
      BY <2>2, <3>3 DEF c, s
  <2>5. CASE c = invoice.cycle + 1
    <3>1. c \in Cycles => \A x \in Early : ~ Queued(c, x)
      BY <1>1, <2>5 DEF Ordered, Cycles, Early
    <3>2. QED
      BY <2>2, <3>1 DEF Ahead
  <2>6. QED
    BY <2>3, <2>4, <2>5
<1>5. CycleFor(sweep.seen)' = CycleFor(sweep.seen)
  BY <1>3 DEF CycleFor
<1>6. \A d, level : Ahead(d, level)' <=> Ahead(d, level)
  BY <1>1 DEF Ahead, Queued
<1>7. QED
  BY <1>1, <1>2, <1>3, <1>4, <1>5, <1>6 DEF SweepOrdered

\* One notice comes to be.
LEMMA NewKey ==
  ASSUME TypeOK, NEW c \in Cycles, NEW which, NEW s \in Stages,
         notices' = [notices EXCEPT ![c] = [GiveUp(@, which) EXCEPT ![s] = "PENDING"]]
  PROVE  \A d \in Cycles : \A x \in Stages : Queued(d, x)' <=> Queued(d, x) \/ (d = c /\ x = s)
<1> DEFINE row == [GiveUp(notices[c], which) EXCEPT ![s] = "PENDING"]
<1>1. notices \in [Cycles -> [Stages -> Dispatch]] /\ notices[c] \in [Stages -> Dispatch]
  BY DEF TypeOK
<1>2. row[s] = "PENDING" /\ \A x \in Stages : x # s => (row[x] = "NONE" <=> notices[c][x] = "NONE")
  BY <1>1, GiveUpLemma
<1>3. notices' = [notices EXCEPT ![c] = row]
  OBVIOUS
<1> HIDE DEF row
<1>4. notices'[c] = row /\ \A d \in Cycles : d # c => notices'[d] = notices[d]
  BY <1>1, <1>3
<1>5. QED
  BY <1>2, <1>4 DEF Queued

\* A referral is approved in a cycle whose final notice was queued: not in one
\* that has not begun.
LEMMA ApproveStep ==
  ASSUME OInv, TypeOK', NEW a \in Approvers, ApproveWrite(a)
  PROVE  Ordered' /\ SweepOrdered'
<1> DEFINE c == approval[a].cycle
           which == {approval[a].stage}
<1>1. /\ TypeOK /\ Ordered /\ c \in Cycles /\ c \in waited /\ invoice \in Invoices /\ age \in Int
      /\ waited \subseteq Cycles /\ UNCHANGED <<age, waited, sweep>>
      /\ notices' = [notices EXCEPT ![c] = [GiveUp(@, which) EXCEPT !["LEGAL_REFERRAL"] = "PENDING"]]
      /\ invoice' = [invoice EXCEPT !.stage = "LEGAL_REFERRAL"]
  BY DEF OInv, IInv, Gated, TypeOK, Bands, ApproveWrite
<1>2. "LEGAL_REFERRAL" \in Stages /\ "FINAL_NOTICE" \in Stages /\ Early \subseteq Stages /\ "LEGAL_REFERRAL" \notin Early
  BY DEF Stages, Early
<1> HIDE DEF c, which
<1>3. \A d \in Cycles : \A x \in Stages : Queued(d, x)' <=> Queued(d, x) \/ (d = c /\ x = "LEGAL_REFERRAL")
  <2>1. PICK w : w = which
    OBVIOUS
  <2>2. QED
    BY <1>1, <1>2, <2>1, NewKey
<1>4. invoice'.cycle = invoice.cycle /\ invoice'.stage = "LEGAL_REFERRAL" /\ invoice.cycle \in Cycles
  BY <1>1 DEF Invoices
<1>5. c <= invoice.cycle
  BY <1>1, <1>2 DEF Ordered
<1>6. \A d \in Cycles, x \in Stages : Queued(d, x)' => d <= invoice'.cycle
  BY <1>1, <1>3, <1>4, <1>5 DEF Ordered
<1>7. \A x \in Early : Queued(invoice.cycle, x)' => Level[x] <= age'
  BY <1>1, <1>2, <1>3, <1>4 DEF Ordered
<1>8. \A d \in waited' : Queued(d, "FINAL_NOTICE")'
  BY <1>1, <1>2, <1>3 DEF Ordered
<1>9. Ordered'
  BY <1>2, <1>4, <1>6, <1>7, <1>8 DEF Ordered
<1>10. SweepOrdered'
  <2>1. \A d \in Cycles : \A x \in Early : Queued(d, x)' => Queued(d, x)
    BY <1>2, <1>3
  <2>2. QED
    BY <1>1, <1>4, <2>1, SweepQuiet
<1>11. QED
  BY <1>9, <1>10

\* The sweep queues a stage that is behind none in its cycle, and opens a cycle
\* in which nothing was queued, waited for or approved.
LEMMA QueueStep == ASSUME OInv, TypeOK', SweepQueue PROVE Ordered' /\ SweepOrdered'
<1>1. /\ TypeOK /\ Ordered /\ Gated /\ SweepOrdered /\ invoice \in Invoices /\ age \in Int
      /\ waited \subseteq Cycles /\ approved \subseteq waited
      /\ sweep.pc = "resolved" /\ sweep.transition.action = "queue"
      /\ UNCHANGED <<age, waited, approved>> /\ sweep' = Resting
  BY DEF OInv, IInv, Gated, TypeOK, Bands, SweepQueue, SweepWrites
<1>2. PICK c \in Cycles, s \in Stages :
        /\ c = CycleFor(sweep.seen) /\ s = sweep.transition.stage
        /\ KeyIsFree(c, s)
        /\ invoice' = [invoice EXCEPT !.stage = s, !.cycle = c]
        /\ \E over : notices' = [notices EXCEPT ![c] = [GiveUp(@, over) EXCEPT ![s] = "PENDING"]]
  <2>1. sweep.transition.stage \in Stages
    BY <1>1 DEF TypeOK, Transitions
  <2>2. QED
    BY <2>1 DEF SweepQueue
<1>3. c = invoice.cycle \/ c = invoice.cycle + 1
  BY <1>1, <1>2 DEF SweepOrdered, CycleFor
<1>4. s \in Early => Level[s] <= age /\ ~ Ahead(c, Level[s])
  BY <1>1, <1>2 DEF SweepOrdered
<1>5. \A d \in Cycles : \A x \in Stages : Queued(d, x)' <=> Queued(d, x) \/ (d = c /\ x = s)
  <2>1. PICK over : notices' = [notices EXCEPT ![c] = [GiveUp(@, over) EXCEPT ![s] = "PENDING"]]
    BY <1>2
  <2>2. QED
    BY <1>1, <2>1, NewKey
<1>6. invoice'.cycle = c /\ invoice'.stage = s /\ invoice.cycle \in Int /\ c \in Int
  BY <1>1, <1>2 DEF Invoices, Cycles
<1>7. Early \subseteq Stages /\ {"LEGAL_REFERRAL", "FINAL_NOTICE"} \subseteq Stages
      /\ "LEGAL_REFERRAL" \notin Early /\ \A x \in Stages : x \in Early \/ x = "LEGAL_REFERRAL"
  BY DEF Stages, Early
<1>8. \A d \in Cycles, x \in Stages : Queued(d, x) => d <= invoice.cycle
  BY <1>1 DEF Ordered
<1>9. \A d \in Cycles, x \in Stages : Queued(d, x)' => d <= invoice'.cycle
  BY <1>3, <1>5, <1>6, <1>8 DEF Cycles
<1>10. \A x \in Early : Queued(c, x) => Level[x] <= age
  <2>1. CASE c = invoice.cycle
    BY <1>1, <2>1 DEF Ordered
  <2>2. CASE c = invoice.cycle + 1
    BY <1>1, <1>6, <1>7, <1>8, <2>2
  <2>3. QED
    BY <1>3, <2>1, <2>2
<1>11. \A x \in Early : Queued(c, x)' => Level[x] <= age'
  BY <1>1, <1>4, <1>5, <1>7, <1>10
<1>12. s \in Early => ~ (\E x \in Early : Queued(c, x)' /\ Level[x] > Level[s])
  <2>1. SUFFICES ASSUME s \in Early, NEW x \in Early, Queued(c, x)', Level[x] > Level[s]
                 PROVE  FALSE
    OBVIOUS
  <2>2. Level[s] \in Int
    BY <2>1, LevelLemma
  <2>3. Queued(c, x) \/ x = s
    BY <1>1, <1>5, <1>7, <2>1
  <2>4. QED
    BY <1>4, <2>1, <2>2, <2>3 DEF Ahead
<1>13. \A d \in waited' : Queued(d, "FINAL_NOTICE")'
  BY <1>1, <1>5, <1>7 DEF Ordered
\* An approved cycle had its final notice queued: nothing before it is left to
\* queue, and the final notice itself is not free.
<1>14. c \in approved' => s = "LEGAL_REFERRAL"
  <2>1. SUFFICES ASSUME c \in approved, s \in Early PROVE FALSE
    BY <1>1, <1>7
  <2>2. Queued(c, "FINAL_NOTICE")
    BY <1>1, <2>1 DEF Ordered
  <2>3. s # "FINAL_NOTICE"
    BY <1>2, <2>2 DEF KeyIsFree, Queued
  <2>4. Level["FINAL_NOTICE"] > Level[s] /\ "FINAL_NOTICE" \in Early
    BY <2>1, <2>3, LevelLemma
  <2>5. QED
    BY <1>4, <2>1, <2>2, <2>4 DEF Ahead
<1>15. s # "NONE" /\ (s = "LEGAL_REFERRAL" \/ s \in Early)
  BY <1>7 DEF Stages
<1>16. Ordered'
  <2>1. s \in Early => ~ Ahead(c, Level[s])'
    BY <1>12 DEF Ahead
  <2>2. QED
    BY <1>1, <1>4, <1>6, <1>9, <1>11, <1>12, <1>13, <1>14, <1>15 DEF Ordered, Ahead
<1>17. SweepOrdered'
  BY <1>1 DEF SweepOrdered, Resting
<1>18. QED
  BY <1>16, <1>17

LEMMA OrderedInductive == OInv /\ [Next]_vars => OInv'
<1>1. SUFFICES ASSUME OInv, [Next]_vars PROVE OInv'
  OBVIOUS
<1>2. IInv'
  BY <1>1, Inductive DEF OInv
<1>3. TypeOK'
  BY <1>2 DEF IInv
<1>4. Ordered' /\ SweepOrdered'
  <2>1. CASE SweepRead
    BY <1>1, <1>3, <2>1, ReadStep
  <2>2. CASE SweepResolve
    BY <1>1, <1>3, <2>2, ResolveStep
  <2>3. CASE SweepQueue
    BY <1>1, <1>3, <2>3, QueueStep
  <2>4. CASE \E a \in Approvers : ApproveWrite(a)
    BY <1>1, <1>3, <2>4, ApproveStep
  <2>5. CASE ~ SweepRead /\ ~ SweepResolve /\ ~ SweepQueue /\ ~ \E a \in Approvers : ApproveWrite(a)
    BY <1>1, <1>3, <2>5, QuietSteps DEF Next, SweepStep
  <2>6. QED
    BY <2>1, <2>2, <2>3, <2>4, <2>5
<1>5. QED
  BY <1>2, <1>4 DEF OInv

LEMMA OrderedInit == Init => OInv
<1>1. SUFFICES ASSUME Init PROVE OInv
  OBVIOUS
<1>2. IInv
  BY <1>1, InitLemma
<1>3. \A c \in Cycles, s \in Stages : ~ Queued(c, s)
  BY <1>1 DEF Init, Queued
<1>4. /\ invoice.cycle \in Cycles /\ invoice.stage = "NONE" /\ age = 0 /\ waited = {} /\ approved = {}
      /\ sweep.pc = "idle" /\ Early \subseteq Stages
  BY <1>1, CycleLemma DEF Init, NewInvoice, Resting, Early
<1>5. Level["NONE"] = 0
  BY LevelLemma
<1>6. Ordered
  BY <1>3, <1>4, <1>5 DEF Ordered, Ahead
<1>7. SweepOrdered
  BY <1>4 DEF SweepOrdered
<1>8. QED
  BY <1>2, <1>6, <1>7 DEF OInv

\* What would block the next sweep is a referral approved before its day.
LEMMA FreeLemma == OInv => SweepBlockedOnlyByReferral
<1> DEFINE c == CycleFor(invoice)
           s == Resolve(invoice).stage
<1>1. SUFFICES ASSUME OInv, Resolve(invoice).action = "queue", c \in Cycles, invoice.stage # "LEGAL_REFERRAL"
               PROVE  KeyIsFree(c, s)
  BY DEF SweepBlockedOnlyByReferral
<1>2. TypeOK /\ Ordered /\ invoice \in Invoices /\ age \in Int
  BY <1>1 DEF OInv, IInv, TypeOK, Bands
<1>3. \/ age \in 1..3 /\ s = Target[age] /\ invoice.stage # s
      \/ age = 4 /\ s = "FINAL_NOTICE" /\ invoice.stage # s
      \/ age = 4 /\ s = "LEGAL_REFERRAL" /\ invoice.stage # s /\ invoice.cycle \in approved
  BY <1>1, <1>2, QueuedStage
<1>4. s \in Stages /\ (s \in Early \/ s = "LEGAL_REFERRAL")
  BY <1>3, LevelLemma DEF Stages
<1>5. CASE invoice.stage \in Terminal
  <2>1. c = invoice.cycle + 1 /\ invoice.cycle \in Int
    BY <1>2, <1>5 DEF CycleFor, Invoices, Cycles
  <2>2. ~ Queued(c, s)
    BY <1>1, <1>2, <1>4, <2>1 DEF Ordered
  <2>3. QED
    BY <2>2 DEF Queued, KeyIsFree
<1>6. CASE invoice.stage \notin Terminal
  <2>1. c = invoice.cycle /\ invoice.stage \in Early \cup {"NONE"}
    BY <1>1, <1>2, <1>6 DEF CycleFor, Invoices, Early
  <2>2. ~ Ahead(c, Level[invoice.stage]) /\ Level[invoice.stage] <= age
    BY <1>2, <2>1 DEF Ordered
  <2>3. SUFFICES ASSUME Queued(c, s) PROVE FALSE
    BY DEF Queued, KeyIsFree
  <2>4. CASE s = "LEGAL_REFERRAL"
    <3>1. invoice.cycle \in approved
      BY <1>3, <2>4, LevelLemma
    <3>2. QED
      BY <1>1, <1>2, <1>6, <2>1, <2>3, <2>4, <3>1 DEF Ordered
  <2>5. CASE s \in Early
    <3>1. ~ (Level[s] > Level[invoice.stage])
      BY <2>2, <2>3, <2>5 DEF Ahead
    <3>2. invoice.stage # s /\ (Level[s] = age \/ s = "FINAL_NOTICE")
      BY <1>3, <2>5, LevelLemma
    <3>3. QED
      BY <2>1, <2>2, <2>5, <3>1, <3>2, LevelLemma, <1>2
  <2>6. QED
    BY <1>4, <2>4, <2>5
<1>7. QED
  BY <1>5, <1>6

\* What is queued goes through the stages in order within a cycle, and no cycle
\* is written to before the sweep opens it.
THEOREM StagesInOrder == Spec => []OInv
BY OrderedInit, OrderedInductive, PTL DEF Spec

\* The next sweep can always insert the notice it decides on, for any cycles,
\* changes and approvals, unless the invoice stands at a legal referral: what
\* aborts a tenant's sweep is a referral approved early or written late.
THEOREM SweepUnblocked == Spec => []SweepBlockedOnlyByReferral
BY FreeLemma, StagesInOrder, PTL

-----------------------------------------------------------------------------
(* What only a payment in finance or an edit of the status does. *)

\* A step that leaves an invoice PAID while its lease ledger has a balance.
PaidByStatus == (PayInFinance \/ EditStatus) /\ owed /\ invoice'.status = "PAID"

\* PAID means that nothing is owed.
PaidIsSettled == invoice.status = "PAID" => ~ owed

LEMMA PaidNext ==
  ASSUME TypeOK, PaidIsSettled, [Next]_vars, ~ PaidByStatus
  PROVE  PaidIsSettled'
<1>1. invoice \in Invoices
  BY DEF TypeOK
<1>2. CASE SweepStep \/ SweepAborts
  <2>1. owed' = owed /\ invoice'.status \in {invoice.status, "OVERDUE"}
    BY <1>1, <1>2 DEF SweepStep, SweepAborts, SweepRead, SweepResolve, SweepNothing, SweepMarkOverdue,
                      SweepStop, SweepReview, SweepQueue, SweepDuplicate, SweepWrites, Invoices
  <2>2. QED
    BY <2>1 DEF PaidIsSettled
<1>3. CASE \E a \in Approvers : ApproveRead(a) \/ ApproveWrite(a) \/ ApproveDuplicate(a)
  <2>1. owed' = owed /\ invoice'.status = invoice.status
    BY <1>1, <1>3 DEF ApproveRead, ApproveWrite, ApproveDuplicate, Invoices
  <2>2. QED
    BY <2>1 DEF PaidIsSettled
<1>4. CASE Pay
  BY <1>1, <1>4 DEF Pay, Change, PaidIsSettled, Invoices
<1>5. CASE Reverse
  BY <1>1, <1>5 DEF Reverse, PaidIsSettled, Invoices
<1>6. CASE Void
  BY <1>1, <1>6 DEF Void, PaidIsSettled, Invoices
<1>7. CASE PayInFinance \/ EditStatus
  <2>1. owed' = owed /\ (invoice'.status = "PAID" => ~ owed)
    BY <1>7 DEF PayInFinance, EditStatus, PaidByStatus
  <2>2. QED
    BY <2>1 DEF PaidIsSettled
<1>8. CASE \/ \E c \in Cycles, s \in Stages : Claim(c, s) \/ Sent(c, s) \/ Requeue(c, s)
           \/ EditSuppression \/ Days \/ (\E c \in Cycles : WaitOver(c)) \/ UNCHANGED vars
  <2>1. owed' = owed /\ invoice' = invoice
    BY <1>8 DEF Claim, Sent, Requeue, SetNotice, EditSuppression, Days, WaitOver, vars
  <2>2. QED
    BY <2>1 DEF PaidIsSettled
<1>9. QED
  BY <1>2, <1>3, <1>4, <1>5, <1>6, <1>7, <1>8 DEF Next

\* A notice becomes SUBMITTING by a claim that passes the recheck.
LEMMA ClaimedOwed ==
  ASSUME IInv, PaidIsSettled, [Next]_vars, NEW c \in Cycles, NEW s \in Stages,
         notices[c][s] = "PENDING", notices'[c][s] = "SUBMITTING"
  PROVE  ~ Settled(invoice)
<1>1. Moves(c, s, notices'[c][s])
  BY NextKept DEF Kept
<1>2. Dispatchable(c, s)
  BY <1>1 DEF Moves, Out
<1>3. QED
  BY <1>2 DEF Dispatchable, PaidIsSettled, Settled

\* Two steps make an invoice PAID whatever its lease ledger says: a payment in
\* finance and an edit of the status.  Where neither leaves a balance behind, no
\* notice of a settled invoice is dispatched: preDispatchRecheck, which does not
\* look at PAID, sees every payment, deposit, void and reversal between the sweep
\* and the dispatch by what is owed.
THEOREM SettledNotDispatchedByLeasing ==
  Spec /\ [][~ PaidByStatus]_vars => SettledNeverDispatched
<1>1. Init => PaidIsSettled
  BY DEF Init, NewInvoice, PaidIsSettled
<1>2. IInv /\ PaidIsSettled /\ [Next]_vars /\ [~ PaidByStatus]_vars => PaidIsSettled'
  <2>1. SUFFICES ASSUME IInv, PaidIsSettled, [Next]_vars, [~ PaidByStatus]_vars PROVE PaidIsSettled'
    OBVIOUS
  <2>2. CASE ~ PaidByStatus
    BY <2>1, <2>2, PaidNext DEF IInv
  <2>3. CASE UNCHANGED vars
    BY <2>1, <2>3 DEF vars, PaidIsSettled
  <2>4. QED
    BY <2>1, <2>2, <2>3
<1>3. IInv /\ PaidIsSettled /\ [Next]_vars =>
        [\A c \in Cycles, s \in Stages :
           notices[c][s] = "PENDING" /\ notices'[c][s] = "SUBMITTING" => ~ Settled(invoice)]_vars
  BY ClaimedOwed
<1>4. Spec => []IInv
  BY Invariance
<1>5. QED
  BY <1>1, <1>2, <1>3, <1>4, PTL DEF Spec, SettledNeverDispatched

=============================================================================
