--------------------------- MODULE PartnerProofs ---------------------------
(***************************************************************************)
(* Theorems about PartnerAwards, for any partners and callers: its types,  *)
(* what an award settles, and what may still happen to a trip that ended.  *)
(***************************************************************************)
EXTENDS PartnerAwards, FiniteSetTheorems, TLAPS

QuotingSteps == QuoteSteps \ {"withdraw"}

\* What a call has read is there.
Sound(w) ==
  /\ w.step \in QuotingSteps <=> w.partner # NoPartner
  /\ w.step \in {"found", "withdraw", "award"} => w.quote # 0
  /\ w.quote # 0 => quotes[w.quote].status # "NONE"
  /\ w.step \in TripSteps \cup {"apply"} => award.quote # 0

\* The quote rows are numbered as they were created; a revision is counted from
\* an earlier row.
Rows ==
  /\ \E n \in 0..MaxQuotes : \A q \in QuoteIds : quotes[q].status # "NONE" <=> q <= n
  /\ \A q \in QuoteIds : quotes[q].revision <= q

\* Nothing happens before there is a request.
Started ==
  /\ request = "NONE" => /\ award.quote = 0
                         /\ \A q \in QuoteIds : quotes[q].status = "NONE"
                         /\ \A c \in Callers : call[c].step = "idle"
  /\ award.quote = 0 <=> award.status = "NONE"
  /\ trip.link > 0 => award.quote # 0

Shape == TypeOK /\ Rows /\ Started /\ \A c \in Callers : Sound(call[c])

\* Rows and the award are never taken back.
Kept ==
  /\ \A q \in QuoteIds : quotes[q].status # "NONE" => quotes'[q].status # "NONE"
  /\ award.quote # 0 => award'.quote # 0

-----------------------------------------------------------------------------
(* The calls. *)

\* A call that changes to w, and is sound, leaves all calls sound.
LEMMA CallLemma ==
  ASSUME Shape, Kept, NEW c \in Callers, NEW w \in Calls, Sound(w)',
         call' = [call EXCEPT ![c] = w]
  PROVE  call' \in [Callers -> Calls] /\ \A d \in Callers : Sound(call[d])'
<1>1. call \in [Callers -> Calls] /\ \A d \in Callers : Sound(call[d])
  BY DEF Shape, TypeOK
<1>2. call' \in [Callers -> Calls]
  BY <1>1
<1>3. ASSUME NEW d \in Callers
      PROVE  Sound(call[d])'
  <2>1. CASE d = c
    <3>1. call'[d] = w
      BY <1>1, <2>1
    <3>2. QED
      BY <3>1 DEF Sound
  <2>2. CASE d # c
    <3>1. call'[d] = call[d]
      BY <1>1, <2>2
    <3>2. call[d] \in Calls /\ Sound(call[d])
      BY <1>1
    <3>3. call[d].quote # 0 => call[d].quote \in QuoteIds
      BY <3>2, AwardsAssumption DEF Calls, QuoteIds, AwardsAssumption
    <3>4. QED
      BY <3>1, <3>2, <3>3 DEF Sound, Kept
  <2>3. QED
    BY <2>1, <2>2
<1>4. QED
  BY <1>2, <1>3

\* A call that is not in flight.
LEMMA IdleLemma == Idle \in Calls /\ Sound(Idle)
<1>1. 0 \in 0..MaxQuotes
  BY AwardsAssumption DEF AwardsAssumption
<1>2. QED
  BY <1>1 DEF Idle, Calls, Steps, RequestStatuses, Sound, QuotingSteps, QuoteSteps, TripSteps

\* A call that returns.
LEMMA ReturnLemma ==
  ASSUME Shape, Kept, NEW c \in Callers, call' = [call EXCEPT ![c] = Idle]
  PROVE  call' \in [Callers -> Calls] /\ \A d \in Callers : Sound(call[d])'
<1>1. Idle \in Calls
  BY IdleLemma
<1>2. Sound(Idle)'
  BY DEF Sound, Idle, QuotingSteps, QuoteSteps, TripSteps
<1>3. QED
  BY <1>1, <1>2, CallLemma

\* A call that goes on, inside its part of the work.
LEMMA GoToLemma ==
  ASSUME Shape, Kept, NEW c \in Callers, NEW s \in Steps, GoTo(c, s),
         s \in QuotingSteps <=> call[c].step \in QuotingSteps,
         s \in {"found", "withdraw", "award"} => call[c].quote # 0,
         s \in TripSteps \cup {"apply"} => award'.quote # 0
  PROVE  call' \in [Callers -> Calls] /\ \A d \in Callers : Sound(call[d])'
<1>1. call[c] \in Calls /\ Sound(call[c])
  BY DEF Shape, TypeOK
<1>2. [call[c] EXCEPT !.step = s] \in Calls
  BY <1>1 DEF Calls
<1>3. ASSUME NEW w \in Calls, w = [call[c] EXCEPT !.step = s]
      PROVE  call' \in [Callers -> Calls] /\ \A d \in Callers : Sound(call[d])'
  <2>1. call' = [call EXCEPT ![c] = w]
    BY <1>3 DEF GoTo
  <2>2. w.step = s /\ w.partner = call[c].partner /\ w.quote = call[c].quote
    BY <1>1, <1>3 DEF Calls
  <2>3. w.quote # 0 => w.quote \in QuoteIds
    BY <1>3, AwardsAssumption DEF Calls, QuoteIds, AwardsAssumption
  <2>4. Sound(w)'
    BY <1>1, <2>2, <2>3 DEF Sound, Kept
  <2>5. QED
    BY <2>1, <2>4, CallLemma
<1>4. QED
  BY <1>2, <1>3

-----------------------------------------------------------------------------
(* The steps keep the shape. *)

\* The next row is the first free one.
LEMMA NextQuoteLemma ==
  ASSUME Shape
  PROVE  \E n \in 0..MaxQuotes : /\ NextQuote = n + 1
                                 /\ \A q \in QuoteIds : quotes[q].status # "NONE" <=> q <= n
<1>1. PICK n \in 0..MaxQuotes : \A q \in QuoteIds : quotes[q].status # "NONE" <=> q <= n
  BY DEF Shape, Rows
<1>2. {q \in QuoteIds : quotes[q].status # "NONE"} = 1..n
  BY <1>1, AwardsAssumption DEF QuoteIds, AwardsAssumption
<1>3. Cardinality(1..n) = n
  BY FS_Interval
<1>4. NextQuote = 1 + Cardinality(1..n)
  BY <1>2 DEF NextQuote
<1>5. NextQuote = n + 1
  BY <1>3, <1>4
<1>6. QED
  BY <1>1, <1>5

\* A call in flight, or a row, needs a request.
LEMMA RequestLemma ==
  ASSUME Shape,
         \/ award.quote # 0
         \/ \E c \in Callers : call[c].step # "idle"
         \/ \E q \in QuoteIds : quotes[q].status # "NONE"
  PROVE  request # "NONE"
BY DEF Shape, Started

\* Steps that leave the sourcing and the award alone, once there is a request.
LEMMA FrameLemma ==
  ASSUME Shape, request # "NONE", UNCHANGED <<quotes, award>>, request' = request,
         invites' \in [Partners -> InviteStatuses],
         call' \in [Callers -> Calls] /\ \A d \in Callers : Sound(call[d])',
         trip' \in Trips, trip'.link > 0 => award.quote # 0,
         schedule' \in {"SCHEDULED", "ASSIGNED", "IN_PROGRESS", "COMPLETED"},
         crossed' = crossed, doubled' \subseteq Partners, late' \subseteq Callers, tangled' \in BOOLEAN,
         faults' \in 0..MaxFaults
  PROVE  Shape'
<1>1. TypeOK'
  BY DEF Shape, TypeOK
<1>2. Rows'
  BY DEF Shape, Rows
<1>3. Started'
  BY DEF Shape, Started
<1>4. QED
  BY <1>1, <1>2, <1>3 DEF Shape

\* Reads, failures and returns.
LEMMA CallStep ==
  ASSUME Shape, NEW c \in Callers,
         \/ \E p \in Partners : BeginQuote(c, p)
         \/ ReadRequest(c) \/ FindPrevious(c)
         \/ \E q \in QuoteIds : BeginWithdraw(c, q) \/ BeginAward(c, q)
         \/ AwardFails(c) \/ ApplyAward(c) \/ Fault(c)
  PROVE  Shape'
<1>1. UNCHANGED <<request, invites, quotes, award, trip, crossed>>
  BY DEF BeginQuote, ReadRequest, FindPrevious, BeginWithdraw, BeginAward, AwardFails, ApplyAward, Fault,
         sourcing, carriage, noted
<1>2. Kept
  BY <1>1 DEF Kept
<1>3. request # "NONE"
  BY RequestLemma DEF BeginQuote, ReadRequest, FindPrevious, BeginWithdraw, BeginAward, AwardFails,
         ApplyAward, Fault, OpenForQuotes, Step, IsIdle
<1>4. call[c] \in Calls /\ Sound(call[c])
  BY DEF Shape, TypeOK
<1>5. \E w \in Calls : Sound(w) /\ call' = [call EXCEPT ![c] = w]
  <2>1. ASSUME NEW p \in Partners, BeginQuote(c, p)
        PROVE  \E w \in Calls : Sound(w) /\ call' = [call EXCEPT ![c] = w]
    <3> DEFINE w == [Idle EXCEPT !.step = "eligible", !.partner = p]
    <3>1. w \in Calls
      BY IdleLemma DEF Calls, Steps, QuoteSteps
    <3>2. Sound(w)
      BY AwardsAssumption DEF Idle, Sound, QuotingSteps, QuoteSteps, TripSteps, AwardsAssumption
    <3>3. QED
      BY <2>1, <3>1, <3>2 DEF BeginQuote
  <2>2. CASE ReadRequest(c)
    <3> DEFINE w == [call[c] EXCEPT !.step = "read", !.status = request]
    <3>1. w \in Calls
      BY <1>4 DEF Calls, Steps, QuoteSteps, Shape, TypeOK
    <3>2. Sound(w)
      BY <1>4, <2>2 DEF ReadRequest, Step, Calls, Sound, QuotingSteps, QuoteSteps, TripSteps
    <3>3. call' = [call EXCEPT ![c] = w]
      BY <2>2 DEF ReadRequest
    <3>4. QED
      BY <3>1, <3>2, <3>3
  <2>3. CASE FindPrevious(c)
    <3>1. CASE call' = [call EXCEPT ![c].step = "superseded"]
      <4> DEFINE w == [call[c] EXCEPT !.step = "superseded"]
      <4>1. w \in Calls
        BY <1>4 DEF Calls, Steps, QuoteSteps
      <4>2. Sound(w)
        BY <1>4, <2>3 DEF FindPrevious, Step, Calls, Sound, QuotingSteps, QuoteSteps, TripSteps
      <4>3. QED
        BY <3>1, <4>1, <4>2
    <3>2. ASSUME NEW q \in Revisable(call[c].partner),
                 call' = [call EXCEPT ![c].step = "found", ![c].quote = q]
          PROVE  \E w \in Calls : Sound(w) /\ call' = [call EXCEPT ![c] = w]
      <4> DEFINE w == [call[c] EXCEPT !.step = "found", !.quote = q]
      <4>1. q \in QuoteIds /\ quotes[q].status = "SUBMITTED"
        BY DEF Revisable, Submitted
      <4>2. q \in 0..MaxQuotes /\ q # 0
        BY <4>1, AwardsAssumption DEF QuoteIds, AwardsAssumption
      <4>3. w \in Calls
        BY <1>4, <4>2 DEF Calls, Steps, QuoteSteps
      <4>4. w.step = "found" /\ w.partner = call[c].partner /\ w.quote = q
        BY <1>4 DEF Calls
      <4>5. call' = [call EXCEPT ![c] = w]
        BY <3>2
      <4> HIDE DEF w
      <4>6. Sound(w)
        BY <1>4, <2>3, <4>1, <4>2, <4>4 DEF FindPrevious, Step, Sound, QuotingSteps, QuoteSteps, TripSteps
      <4>7. QED
        BY <4>3, <4>5, <4>6
    <3>3. QED
      BY <2>3, <3>1, <3>2 DEF FindPrevious
  <2>4. ASSUME NEW q \in QuoteIds, NEW s \in {"withdraw", "award"}, quotes[q].status = "SUBMITTED",
               call' = [call EXCEPT ![c] = [Idle EXCEPT !.step = s, !.quote = q]]
        PROVE  \E w \in Calls : Sound(w) /\ call' = [call EXCEPT ![c] = w]
    <3> DEFINE w == [Idle EXCEPT !.step = s, !.quote = q]
    <3>1. q \in 0..MaxQuotes /\ q # 0
      BY AwardsAssumption DEF QuoteIds, AwardsAssumption
    <3>2. w \in Calls
      BY <3>1, IdleLemma DEF Calls, Steps, QuoteSteps
    <3>3. Sound(w)
      BY <2>4, <3>1 DEF Idle, Sound, QuotingSteps, QuoteSteps, TripSteps
    <3>4. QED
      BY <2>4, <3>2, <3>3
  <2>5. CASE call' = [call EXCEPT ![c] = Idle]
    BY <2>5, IdleLemma
  <2>6. QED
    BY <2>1, <2>2, <2>3, <2>4, <2>5 DEF BeginWithdraw, BeginAward, AwardFails, ApplyAward, Fault, Return
<1>6. call' \in [Callers -> Calls] /\ \A d \in Callers : Sound(call[d])'
  <2>1. PICK w \in Calls : Sound(w) /\ call' = [call EXCEPT ![c] = w]
    BY <1>5
  <2>2. Sound(w)'
    BY <1>1, <2>1 DEF Sound
  <2>3. QED
    BY <1>2, <2>1, <2>2, CallLemma
<1>7. /\ late' \subseteq Callers /\ doubled' \subseteq Partners /\ tangled' \in BOOLEAN
      /\ faults' \in 0..MaxFaults
      /\ schedule' \in {"SCHEDULED", "ASSIGNED", "IN_PROGRESS", "COMPLETED"}
  <2>1. TypeOK
    BY DEF Shape
  <2>2. CASE Fault(c)
    BY <1>4, <2>1, <2>2, AwardsAssumption DEF Fault, Return, TypeOK, Calls, carriage, AwardsAssumption
  <2>3. CASE ~ Fault(c)
    BY <2>1, <2>3 DEF BeginQuote, ReadRequest, FindPrevious, BeginWithdraw, BeginAward, AwardFails,
         ApplyAward, Return, TypeOK, carriage, noted
  <2>4. QED
    BY <2>2, <2>3
<1>8. trip' \in Trips /\ (trip'.link > 0 => award.quote # 0)
  BY <1>1 DEF Shape, TypeOK, Started
<1>9. invites' \in [Partners -> InviteStatuses]
  BY <1>1 DEF Shape, TypeOK
<1>10. QED
  BY <1>1, <1>3, <1>6, <1>7, <1>8, <1>9, FrameLemma

\* Writes of rows that exist: they are superseded, withdrawn or decided.
LEMMA RowWriteStep ==
  ASSUME Shape, NEW c \in Callers, Supersede(c) \/ Withdraw(c) \/ CommitAward(c)
  PROVE  Shape'
<1>1. /\ call[c] \in Calls /\ Sound(call[c]) /\ request # "NONE"
      /\ call[c].step \in {"found", "withdraw", "award"}
  BY RequestLemma DEF Shape, TypeOK, Supersede, Withdraw, CommitAward, Step
<1>2. call[c].quote \in QuoteIds /\ call[c].quote # 0
  BY <1>1, AwardsAssumption DEF Sound, Calls, QuoteIds, AwardsAssumption
<1>3. /\ quotes' \in [QuoteIds -> Quotes]
      /\ \A q \in QuoteIds : /\ quotes'[q].revision = quotes[q].revision
                             /\ quotes[q].status = "NONE" <=> quotes'[q].status = "NONE"
  <2>1. quotes \in [QuoteIds -> Quotes] /\ quotes[call[c].quote].status # "NONE"
    BY <1>1, <1>2 DEF Shape, TypeOK, Sound
  <2>2. CASE Supersede(c)
    BY <1>2, <2>1, <2>2 DEF Supersede, Quotes, QuoteStatuses
  <2>3. CASE Withdraw(c)
    BY <1>2, <2>1, <2>3 DEF Withdraw, Quotes, QuoteStatuses
  <2>4. CASE CommitAward(c)
    BY <1>2, <2>1, <2>4 DEF CommitAward, AwardedQuotes, Quotes, QuoteStatuses
  <2>5. QED
    BY <2>2, <2>3, <2>4
<1>4. /\ award' \in Awards
      /\ award'.quote = 0 <=> award'.status = "NONE"
      /\ award.quote # 0 => award'.quote # 0
  <2>1. CASE CommitAward(c)
    BY <1>1, <1>2, <2>1 DEF CommitAward, Awards, AwardStatuses, Calls
  <2>2. CASE ~ CommitAward(c)
    BY <2>2 DEF Supersede, Withdraw, Shape, TypeOK, Started
  <2>3. QED
    BY <2>1, <2>2
<1>5. Kept
  BY <1>3, <1>4 DEF Kept
<1>6. call' \in [Callers -> Calls] /\ \A d \in Callers : Sound(call[d])'
  <2>1. CASE call' = [call EXCEPT ![c] = Idle]
    BY <1>5, <2>1, ReturnLemma
  <2>2. CASE Supersede(c)
    BY <1>1, <1>5, <2>2, GoToLemma DEF Supersede, Step, Steps, QuotingSteps, QuoteSteps, TripSteps
  <2>3. CASE CommitAward(c) /\ GoTo(c, "apply")
    <3>1. award'.quote # 0
      BY <1>2, <2>3 DEF CommitAward
    <3>2. QED
      BY <1>1, <1>5, <2>3, <3>1, GoToLemma DEF CommitAward, Step, Steps, QuotingSteps, QuoteSteps, TripSteps
  <2>4. QED
    BY <2>1, <2>2, <2>3 DEF Withdraw, CommitAward, Return
<1>7. request' \in RequestStatuses \ {"NONE"} /\ invites' \in [Partners -> InviteStatuses]
  BY <1>1 DEF Supersede, Withdraw, CommitAward, AwardedInvites, InviteStatuses, RequestStatuses, Shape, TypeOK
<1>8. /\ late' \subseteq Callers /\ crossed' \in BOOLEAN
      /\ UNCHANGED <<trip, schedule, doubled, tangled, faults>>
  BY DEF Supersede, Withdraw, CommitAward, Return, OtherAt, Shape, TypeOK, carriage, noted
<1>9. TypeOK'
  BY <1>3, <1>4, <1>6, <1>7, <1>8 DEF Shape, TypeOK
<1>10. Rows'
  <2>1. PICK n \in 0..MaxQuotes : \A q \in QuoteIds : quotes[q].status # "NONE" <=> q <= n
    BY DEF Shape, Rows
  <2>2. \A q \in QuoteIds : quotes'[q].status # "NONE" <=> q <= n
    BY <1>3, <2>1
  <2>3. \A q \in QuoteIds : quotes'[q].revision <= q
    BY <1>3 DEF Shape, Rows
  <2>4. QED
    BY <2>2, <2>3 DEF Rows
<1>11. Started'
  BY <1>4, <1>7, <1>8 DEF Shape, Started
<1>12. QED
  BY <1>6, <1>9, <1>10, <1>11 DEF Shape

\* A new quote takes the next row.
LEMMA CreateQuoteStep ==
  ASSUME Shape, NEW c \in Callers, CreateQuote(c)
  PROVE  Shape'
<1> DEFINE w == call[c]
           row == [partner |-> w.partner, status |-> "SUBMITTED", revision |-> NextRevision(c)]
<1>1. w \in Calls /\ Sound(w) /\ w.step = "superseded" /\ request # "NONE"
  BY RequestLemma DEF Shape, TypeOK, CreateQuote, Step
<1>2. PICK n \in 0..MaxQuotes : /\ NextQuote = n + 1
                                /\ \A q \in QuoteIds : quotes[q].status # "NONE" <=> q <= n
  BY NextQuoteLemma
<1>3. n + 1 \in QuoteIds /\ quotes' = [quotes EXCEPT ![n + 1] = row]
  BY <1>2 DEF CreateQuote
<1>4. NextRevision(c) \in 0..MaxQuotes /\ NextRevision(c) <= n + 1
  <2>1. n + 1 <= MaxQuotes /\ n \in Nat /\ MaxQuotes \in Nat
    BY <1>3, AwardsAssumption DEF QuoteIds, AwardsAssumption
  <2>2. CASE w.quote = 0
    <3>1. NextRevision(c) = 1
      BY <2>2 DEF NextRevision
    <3>2. QED
      BY <2>1, <3>1
  <2>3. CASE w.quote # 0
    <3>1. w.quote \in QuoteIds
      BY <1>1, <2>3, AwardsAssumption DEF Calls, QuoteIds, AwardsAssumption
    <3>2. w.quote <= n /\ quotes[w.quote].revision <= w.quote
      BY <1>1, <1>2, <2>3, <3>1 DEF Sound, Shape, Rows
    <3>3. quotes[w.quote].revision \in 0..MaxQuotes
      BY <3>1 DEF Shape, TypeOK, Quotes
    <3>4. NextRevision(c) = quotes[w.quote].revision + 1
      BY <2>3 DEF NextRevision
    <3>5. \A i, j \in Nat : i <= n /\ j <= i => j + 1 \in 0..MaxQuotes /\ j + 1 <= n + 1
      BY <2>1
    <3>6. w.quote \in Nat /\ quotes[w.quote].revision \in Nat
      BY <3>1, <3>3 DEF QuoteIds
    <3>7. QED
      BY <3>2, <3>4, <3>5, <3>6
  <2>4. QED
    BY <2>2, <2>3
<1>5. row \in Quotes
  BY <1>1, <1>4 DEF Quotes, QuoteStatuses, Calls
<1>6. /\ quotes' \in [QuoteIds -> Quotes]
      /\ \A q \in QuoteIds \ {n + 1} : quotes'[q] = quotes[q]
      /\ quotes'[n + 1].status = "SUBMITTED" /\ quotes'[n + 1].revision <= n + 1
  BY <1>3, <1>4, <1>5 DEF Shape, TypeOK
<1>7. Kept
  BY <1>6 DEF Kept, CreateQuote
<1>8. call' \in [Callers -> Calls] /\ \A d \in Callers : Sound(call[d])'
  BY <1>1, <1>7, GoToLemma DEF CreateQuote, Steps, QuotingSteps, QuoteSteps, TripSteps
<1>9. UNCHANGED <<request, invites, award, trip, schedule, crossed, doubled, late, tangled, faults>>
  BY DEF CreateQuote, carriage, noted
<1>10. TypeOK'
  BY <1>6, <1>8, <1>9 DEF Shape, TypeOK
<1>11. Rows'
  <2>1. \A q \in QuoteIds : quotes'[q].status # "NONE" <=> q <= n + 1
    <3>1. ASSUME NEW q \in QuoteIds
          PROVE  quotes'[q].status # "NONE" <=> q <= n + 1
      <4>1. q \in Int /\ n \in Int
        BY DEF QuoteIds
      <4>2. CASE q = n + 1
        BY <1>6, <4>1, <4>2
      <4>3. CASE q # n + 1
        <5>1. q <= n <=> q <= n + 1
          BY <4>1, <4>3
        <5>2. QED
          BY <1>2, <1>6, <4>3, <5>1
      <4>4. QED
        BY <4>2, <4>3
    <3>2. QED
      BY <3>1
  <2>2. n + 1 \in 0..MaxQuotes
    BY <1>3 DEF QuoteIds
  <2>3. \A q \in QuoteIds : quotes'[q].revision <= q
    BY <1>6 DEF Shape, Rows
  <2>4. QED
    BY <2>1, <2>2, <2>3 DEF Rows
<1>12. Started'
  BY <1>1, <1>9 DEF Shape, Started
<1>13. QED
  BY <1>8, <1>10, <1>11, <1>12 DEF Shape

\* The request's own steps.
LEMMA RequestStep ==
  ASSUME Shape,
         \/ \E invited \in SUBSET Partners : CreateRequest(invited)
         \/ \E p \in Partners : DeclineRequest(p)
  PROVE  Shape'
<1>1. UNCHANGED <<quotes, award, trip, schedule, call, crossed, doubled, late, tangled, faults>>
  BY DEF CreateRequest, DeclineRequest, carriage, noted
<1>2. /\ request' \in RequestStatuses /\ invites' \in [Partners -> InviteStatuses]
      /\ request' = "NONE" => request = "NONE"
  BY DEF CreateRequest, DeclineRequest, RequestStatuses, InviteStatuses, Shape, TypeOK
<1>3. TypeOK'
  BY <1>1, <1>2 DEF Shape, TypeOK
<1>4. Rows' /\ Started' /\ \A d \in Callers : Sound(call[d])'
  BY <1>1, <1>2 DEF Shape, Rows, Started, Sound
<1>5. QED
  BY <1>3, <1>4 DEF Shape

\* Marking the invitation and the request.
LEMMA MarkStep ==
  ASSUME Shape, NEW c \in Callers, MarkInvite(c) \/ MarkRequest(c)
  PROVE  Shape'
<1>1. UNCHANGED <<quotes, award, trip, schedule, crossed, doubled, tangled, faults>>
  BY DEF MarkInvite, MarkRequest, carriage, noted
<1>2. Kept
  BY <1>1 DEF Kept
<1>3. request # "NONE"
  BY RequestLemma DEF MarkInvite, MarkRequest, Step
<1>4. /\ request' \in RequestStatuses \ {"NONE"} /\ invites' \in [Partners -> InviteStatuses]
      /\ late' \subseteq Callers
  BY <1>3 DEF MarkInvite, MarkRequest, Return, RequestStatuses, InviteStatuses, Shape, TypeOK, noted
<1>5. call' \in [Callers -> Calls] /\ \A d \in Callers : Sound(call[d])'
  <2>1. CASE MarkInvite(c)
    BY <1>2, <2>1, GoToLemma DEF MarkInvite, Step, Steps, QuotingSteps, QuoteSteps, TripSteps
  <2>2. CASE MarkRequest(c)
    BY <1>2, <2>2, ReturnLemma DEF MarkRequest, Return
  <2>3. QED
    BY <2>1, <2>2
<1>6. TypeOK'
  BY <1>1, <1>4, <1>5 DEF Shape, TypeOK
<1>7. Rows' /\ Started'
  BY <1>1, <1>4 DEF Shape, Rows, Started
<1>8. QED
  BY <1>5, <1>6, <1>7 DEF Shape

\* The contract award, which makes the first quote.
LEMMA ContractStep ==
  ASSUME Shape, NEW p \in Partners, ContractDirectAward(p)
  PROVE  Shape'
<1> DEFINE row == [partner |-> p, revision |-> 1, status |-> "ACCEPTED"]
<1>1. /\ 1 \in QuoteIds /\ 1 \in 0..MaxQuotes /\ quotes' = [quotes EXCEPT ![1] = row]
      /\ award' = [status |-> "AWARDED", quote |-> 1]
      /\ request = "NONE" /\ request' = "AWARDED"
      /\ UNCHANGED <<trip, schedule, call, crossed, doubled, late, tangled, faults>>
  BY AwardsAssumption DEF ContractDirectAward, QuoteIds, carriage, noted, AwardsAssumption
<1>2. /\ \A q \in QuoteIds : quotes[q].status = "NONE"
      /\ \A d \in Callers : call[d].step = "idle"
  BY <1>1 DEF Shape, Started
<1>3. /\ quotes' \in [QuoteIds -> Quotes]
      /\ \A q \in QuoteIds \ {1} : quotes'[q] = quotes[q]
      /\ quotes'[1] = row
  BY <1>1 DEF Shape, TypeOK, Quotes, QuoteStatuses
<1>4. award' \in Awards /\ award'.quote = 1 /\ award'.status = "AWARDED"
  BY <1>1 DEF Awards, AwardStatuses
<1>5. invites' \in [Partners -> InviteStatuses]
  BY DEF ContractDirectAward, InviteStatuses, Shape, TypeOK
<1>6. TypeOK'
  BY <1>1, <1>3, <1>4, <1>5 DEF Shape, TypeOK, RequestStatuses
<1>7. Rows'
  <2>1. \A q \in QuoteIds : quotes'[q].status # "NONE" <=> q <= 1
    BY <1>2, <1>3 DEF QuoteIds
  <2>2. \A q \in QuoteIds : quotes'[q].revision <= q
    BY <1>3 DEF Shape, Rows
  <2>3. QED
    BY <1>1, <2>1, <2>2 DEF Rows
<1>8. Started'
  BY <1>1, <1>4 DEF Started
<1>9. \A d \in Callers : Sound(call[d])'
  <2>1. ASSUME NEW d \in Callers
        PROVE  Sound(call[d])'
    <3>1. call'[d] = call[d] /\ call[d] \in Calls /\ Sound(call[d]) /\ call[d].step = "idle"
      BY <1>1, <1>2 DEF Shape, TypeOK
    <3>2. call[d].quote = 0
      <4>1. call[d].quote # 0 => call[d].quote \in QuoteIds
        BY <3>1, AwardsAssumption DEF Calls, QuoteIds, AwardsAssumption
      <4>2. QED
        BY <1>2, <3>1, <4>1 DEF Sound
    <3>3. QED
      BY <3>1, <3>2 DEF Sound, QuotingSteps, QuoteSteps, TripSteps
  <2>2. QED
    BY <2>1
<1>10. QED
  BY <1>6, <1>7, <1>8, <1>9 DEF Shape

\* Every step of the trip needs an award.
LEMMA AwardedLemma ==
  ASSUME Shape, NEW c \in Callers, TripStep(c)
  PROVE  award.quote # 0 /\ request # "NONE"
<1>1. Sound(call[c])
  BY DEF Shape
<1>2. CASE call[c].step \in TripSteps
  BY <1>1, <1>2, RequestLemma DEF Sound
<1>3. CASE trip.link > 0 \/ award.quote # 0
  BY <1>3, RequestLemma DEF Shape, Started
<1>4. QED
  BY <1>2, <1>3 DEF TripStep, Assign, MarkAssigned, BeginMilestone, BeginGeofence, RecordReached,
     AwardStarted, RecordStarted, AwardCompleted, RecordCompleted, SyncSchedule, BeginCancel,
     CancelAward, CancelTrip, BeginAbort, AbortTrip, Step, LinkWorks, TripSteps

\* What the steps of the trip write, one row at a time.
LEMMA TripWrites ==
  ASSUME Shape, NEW c \in Callers, TripStep(c)
  PROVE  /\ UNCHANGED <<request, invites, quotes, crossed, doubled, faults>>
         /\ award' \in Awards
         /\ award'.quote = award.quote
         /\ award'.status = "NONE" => award.status = "NONE"
         /\ trip' \in Trips
         /\ schedule' \in {"SCHEDULED", "ASSIGNED", "IN_PROGRESS", "COMPLETED"}
<1> DEFINE Goal == /\ UNCHANGED <<request, invites, quotes, crossed, doubled, faults>>
                   /\ award' \in Awards
                   /\ award'.quote = award.quote
                   /\ award'.status = "NONE" => award.status = "NONE"
                   /\ trip' \in Trips
                   /\ schedule' \in {"SCHEDULED", "ASSIGNED", "IN_PROGRESS", "COMPLETED"}
<1>1. /\ award \in Awards /\ trip \in Trips
      /\ schedule \in {"SCHEDULED", "ASSIGNED", "IN_PROGRESS", "COMPLETED"}
  BY DEF Shape, TypeOK
<1>2. CASE Assign(c)
  <2>1. trip.link + 1 \in 0..MaxLinks
    BY <1>1, <1>2, AwardsAssumption DEF Assign, Trips, AwardsAssumption
  <2>2. trip' \in Trips
    BY <1>1, <1>2, <2>1 DEF Assign, NewLink, Trips
  <2>3. QED
    BY <1>1, <1>2, <2>2 DEF Assign, sourcing
<1>3. CASE MarkAssigned(c) \/ AwardStarted(c) \/ AwardCompleted(c) \/ CancelAward(c) \/ AbortTrip(c)
  BY <1>1, <1>3 DEF MarkAssigned, AwardStarted, AwardCompleted, CancelAward, AbortTrip, Awards,
     AwardStatuses, sourcing, carriage, noted
<1>4. CASE RecordReached(c) \/ RecordStarted(c) \/ RecordCompleted(c) \/ CancelTrip(c)
  BY <1>1, <1>4 DEF RecordReached, RecordStarted, RecordCompleted, CancelTrip, Trips, sourcing, noted
<1>5. CASE SyncSchedule(c)
  BY <1>1, <1>5 DEF SyncSchedule, sourcing
<1>6. CASE BeginMilestone(c) \/ BeginGeofence(c) \/ BeginCancel(c) \/ BeginAbort(c)
  BY <1>1, <1>6 DEF BeginMilestone, BeginGeofence, BeginCancel, BeginAbort, sourcing, carriage
<1>7. QED
  BY <1>2, <1>3, <1>4, <1>5, <1>6 DEF TripStep

\* A call on the trip stays on the trip, or returns.
LEMMA TripCalls ==
  ASSUME Shape, NEW c \in Callers, TripStep(c)
  PROVE  /\ call[c].step \in TripSteps \cup {"idle"}
         /\ \/ call' = [call EXCEPT ![c] = Idle]
            \/ \E s \in TripSteps : GoTo(c, s)
BY DEF TripStep, Assign, MarkAssigned, BeginMilestone, BeginGeofence, RecordReached,
     AwardStarted, RecordStarted, AwardCompleted, RecordCompleted, SyncSchedule, BeginCancel,
     CancelAward, CancelTrip, BeginAbort, AbortTrip, BeginOnTrip, Return, Step, IsIdle, TripSteps

LEMMA TripStepLemma ==
  ASSUME Shape, NEW c \in Callers, TripStep(c)
  PROVE  Shape'
<1>1. award.quote # 0 /\ request # "NONE" /\ award.status # "NONE"
  BY AwardedLemma DEF Shape, Started
<1>2. Kept
  BY TripWrites DEF Kept
<1>3. call' \in [Callers -> Calls] /\ \A d \in Callers : Sound(call[d])'
  <2>1. CASE call' = [call EXCEPT ![c] = Idle]
    BY <1>2, <2>1, ReturnLemma
  <2>2. ASSUME NEW s \in TripSteps, GoTo(c, s)
        PROVE  call' \in [Callers -> Calls] /\ \A d \in Callers : Sound(call[d])'
    <3>1. s \in Steps /\ s \notin QuotingSteps /\ call[c].step \notin QuotingSteps
          /\ s \notin {"found", "withdraw", "award"}
      BY TripCalls DEF Steps, QuotingSteps, QuoteSteps, TripSteps
    <3>2. award'.quote # 0
      BY <1>1, TripWrites
    <3>3. QED
      BY <1>2, <2>2, <3>1, <3>2, GoToLemma
  <2>3. QED
    BY <2>1, <2>2, TripCalls
<1>4. late' \subseteq Callers /\ tangled' \in BOOLEAN
  <2>1. late \subseteq Callers /\ tangled \in BOOLEAN
    BY DEF Shape, TypeOK
  <2>2. late' \subseteq Callers
    BY <2>1 DEF TripStep, Assign, MarkAssigned, BeginMilestone, BeginGeofence, RecordReached,
       AwardStarted, RecordStarted, AwardCompleted, RecordCompleted, SyncSchedule, BeginCancel,
       CancelAward, CancelTrip, BeginAbort, AbortTrip, Return, NoteEnd, noted
  <2>3. tangled' \in BOOLEAN
    BY <2>1 DEF TripStep, Assign, MarkAssigned, BeginMilestone, BeginGeofence, RecordReached,
       AwardStarted, RecordStarted, AwardCompleted, RecordCompleted, SyncSchedule, BeginCancel,
       CancelAward, CancelTrip, BeginAbort, AbortTrip, BeginOnTrip, OtherAt, noted
  <2>4. QED
    BY <2>2, <2>3
<1>5. TypeOK'
  BY <1>3, <1>4, TripWrites DEF Shape, TypeOK
<1>6. Rows' /\ Started'
  BY <1>1, TripWrites DEF Shape, Rows, Started
<1>7. QED
  BY <1>3, <1>5, <1>6 DEF Shape

LEMMA ReplaceResourceStep == ASSUME Shape, ReplaceResource PROVE Shape'
<1>1. award.quote # 0 /\ request # "NONE"
  BY RequestLemma DEF Shape, Started, ReplaceResource
<1>2. trip.link + 1 \in 0..MaxLinks /\ trip \in Trips
  BY AwardsAssumption DEF ReplaceResource, Shape, TypeOK, Trips, AwardsAssumption
<1>3. trip' \in Trips
  BY <1>2 DEF ReplaceResource, NewLink, Trips
<1>4. UNCHANGED <<request, invites, quotes, award, schedule, call, crossed, doubled, late, tangled, faults>>
  BY DEF ReplaceResource, sourcing, noted
<1>5. call' \in [Callers -> Calls] /\ \A d \in Callers : Sound(call[d])'
  BY <1>4 DEF Shape, TypeOK, Sound
<1>6. QED
  BY <1>1, <1>3, <1>4, <1>5, FrameLemma DEF Shape, TypeOK

LEMMA ShapeInit == Init => Shape
<1>1. SUFFICES ASSUME Init PROVE Shape
  OBVIOUS
<1>2. 0 \in 0..MaxQuotes /\ 0 \in 0..MaxLinks /\ 0 \in 0..MaxFaults
  BY AwardsAssumption DEF AwardsAssumption
<1>3. TypeOK
  BY <1>1, <1>2, IdleLemma DEF Init, TypeOK, RequestStatuses, InviteStatuses, NoQuote, Quotes,
     QuoteStatuses, Awards, AwardStatuses, NoTrip, Trips
<1>4. Rows
  <2>1. \A q \in QuoteIds : quotes[q].status = "NONE" /\ quotes[q].revision <= q /\ ~ (q <= 0)
    BY <1>1 DEF Init, NoQuote, QuoteIds
  <2>2. QED
    BY <1>2, <2>1 DEF Rows
<1>5. Started
  BY <1>1 DEF Init, Started, NoQuote, NoTrip, Idle
<1>6. \A c \in Callers : Sound(call[c])
  BY <1>1, IdleLemma DEF Init
<1>7. QED
  BY <1>3, <1>4, <1>5, <1>6 DEF Shape

LEMMA ShapeNext == Shape /\ [Next]_vars => Shape'
<1>1. SUFFICES ASSUME Shape, [Next]_vars PROVE Shape'
  OBVIOUS
<1>2. CASE UNCHANGED vars
  BY <1>1, <1>2 DEF vars, Shape, TypeOK, Rows, Started, Sound
<1>3. ASSUME NEW c \in Callers, QuoteStep(c) \/ AwardStep(c) \/ Fault(c)
      PROVE  Shape'
  BY <1>1, <1>3, CallStep, RowWriteStep, CreateQuoteStep, MarkStep DEF QuoteStep, AwardStep
<1>4. ASSUME NEW c \in Callers, TripStep(c)
      PROVE  Shape'
  BY <1>1, <1>4, TripStepLemma
<1>5. ASSUME NEW p \in Partners, ContractDirectAward(p)
      PROVE  Shape'
  BY <1>1, <1>5, ContractStep
<1>6. QED
  BY <1>1, <1>2, <1>3, <1>4, <1>5, RequestStep, ReplaceResourceStep DEF Next

LEMMA ShapeInvariant == Spec => []Shape
BY ShapeInit, ShapeNext, PTL DEF Spec

\* Every row, call and history keeps its type.
THEOREM TypeCorrect == Spec => []TypeOK
<1>1. Shape => TypeOK
  BY DEF Shape
<1>2. QED
  BY <1>1, ShapeInvariant, PTL

-----------------------------------------------------------------------------
(* The award. *)

\* An award keeps its quote: both award functions insert only when there is no
\* award, whatever happens to the trip afterwards.
THEOREM AwardStays == Spec => AwardIsFinal
<1>1. ASSUME Shape, [Next]_vars, award.quote # 0
      PROVE  award'.quote = award.quote
  <2>1. CASE UNCHANGED award
    BY <2>1
  <2>2. ASSUME NEW c \in Callers, TripStep(c)
        PROVE  award'.quote = award.quote
    BY <1>1, <2>2, TripWrites
  <2>3. ASSUME NEW c \in Callers, CommitAward(c)
        PROVE  FALSE
    BY <1>1, <2>3 DEF CommitAward, NoAwardYet
  <2>4. ASSUME NEW p \in Partners, ContractDirectAward(p)
        PROVE  FALSE
    BY <1>1, <2>4 DEF ContractDirectAward, Shape, Started
  <2>5. CASE \/ \E invited \in SUBSET Partners : CreateRequest(invited)
             \/ \E p \in Partners : DeclineRequest(p)
             \/ ReplaceResource \/ UNCHANGED vars
    BY <2>5 DEF CreateRequest, DeclineRequest, ReplaceResource, vars
  <2>6. ASSUME NEW c \in Callers, QuoteStep(c) \/ Fault(c) \/ (AwardStep(c) /\ ~ CommitAward(c))
        PROVE  UNCHANGED award
    BY <2>6 DEF QuoteStep, AwardStep, BeginQuote, ReadRequest, FindPrevious, Supersede, CreateQuote,
       MarkInvite, MarkRequest, BeginWithdraw, Withdraw, BeginAward, AwardFails, ApplyAward, Fault
  <2>7. QED
    BY <1>1, <2>1, <2>2, <2>3, <2>4, <2>5, <2>6 DEF Next
<1>2. Shape /\ [Next]_vars => (award.quote # 0 => award'.quote = award.quote)
  BY <1>1
<1>3. QED
  BY <1>2, ShapeInvariant, PTL DEF Spec, AwardIsFinal

\* An award that no quoting crossed: nothing is left open, and nobody quotes.
Settled ==
  award.quote # 0 /\ ~ crossed =>
    /\ request = "AWARDED"
    /\ quotes[award.quote].status = "ACCEPTED"
    /\ \A q \in QuoteIds : quotes[q].status # "SUBMITTED"
    /\ \A c \in Callers : call[c].step \notin QuoteSteps

\* The two award functions settle the sourcing.
LEMMA SettledByAward ==
  ASSUME Shape, Settled,
         \/ \E p \in Partners : ContractDirectAward(p)
         \/ \E c \in Callers : CommitAward(c)
  PROVE  Settled'
<1>1. ASSUME NEW p \in Partners, ContractDirectAward(p)
      PROVE  Settled'
  <2>1. /\ \A q \in QuoteIds : quotes[q].status = "NONE"
        /\ \A c \in Callers : call[c].step = "idle"
    BY <1>1 DEF ContractDirectAward, Shape, Started
  <2>2. 1 \in QuoteIds
    BY <1>1, AwardsAssumption DEF ContractDirectAward, QuoteIds, AwardsAssumption
  <2>3. /\ quotes'[1].status = "ACCEPTED"
        /\ \A q \in QuoteIds : quotes'[q].status # "SUBMITTED"
    BY <1>1, <2>1, <2>2 DEF ContractDirectAward, Shape, TypeOK
  <2>4. request' = "AWARDED" /\ award'.quote = 1 /\ call' = call
    BY <1>1 DEF ContractDirectAward
  <2>5. QED
    BY <2>1, <2>3, <2>4 DEF Settled, QuoteSteps
<1>2. ASSUME NEW c \in Callers, CommitAward(c)
      PROVE  Settled'
  <2> DEFINE q == call[c].quote
  <2>1. q \in QuoteIds
    BY <1>2, AwardsAssumption
       DEF CommitAward, Step, Shape, TypeOK, Sound, Calls, QuoteIds, AwardsAssumption
  <2>2. /\ quotes'[q].status = "ACCEPTED"
        /\ \A r \in QuoteIds : quotes'[r].status # "SUBMITTED"
    BY <1>2, <2>1 DEF CommitAward, AwardedQuotes, Shape, TypeOK, Quotes
  <2>3. request' = "AWARDED" /\ award'.quote = q /\ crossed' = OtherAt(c, QuoteSteps)
    BY <1>2 DEF CommitAward
  <2>4. /\ call'[c].step \notin QuoteSteps
        /\ \A d \in Callers \ {c} : call'[d] = call[d]
    BY <1>2 DEF CommitAward, Return, GoTo, Idle, QuoteSteps, Shape, TypeOK, Calls
  <2>5. ~ crossed' => \A d \in Callers : call'[d].step \notin QuoteSteps
    BY <2>3, <2>4 DEF OtherAt
  <2>6. QED
    BY <2>2, <2>3, <2>5 DEF Settled
<1>3. QED
  BY <1>1, <1>2

LEMMA SettledNext == Shape /\ Settled /\ [Next]_vars => Settled'
<1>1. SUFFICES ASSUME Shape, Settled, [Next]_vars PROVE Settled'
  OBVIOUS
<1>2. CASE \/ \E p \in Partners : ContractDirectAward(p)
           \/ \E c \in Callers : CommitAward(c)
  BY <1>1, <1>2, SettledByAward
<1>3. ASSUME UNCHANGED <<request, quotes, crossed>>, award'.quote = award.quote,
             award.quote # 0 /\ ~ crossed =>
               \A c \in Callers : call'[c].step \in QuoteSteps => call[c].step \in QuoteSteps
      PROVE  Settled'
  BY <1>1, <1>3 DEF Settled
<1>4. CASE \/ \E invited \in SUBSET Partners : CreateRequest(invited)
           \/ \E p \in Partners : DeclineRequest(p)
           \/ ReplaceResource \/ UNCHANGED vars
  <2>1. CASE \E invited \in SUBSET Partners : CreateRequest(invited)
    BY <1>1, <2>1 DEF CreateRequest, Shape, Started, Settled
  <2>2. CASE (\E p \in Partners : DeclineRequest(p)) \/ ReplaceResource \/ UNCHANGED vars
    BY <1>3, <2>2 DEF DeclineRequest, ReplaceResource, vars, sourcing, carriage, noted
  <2>3. QED
    BY <1>4, <2>1, <2>2
<1>5. ASSUME NEW c \in Callers, TripStep(c)
      PROVE  Settled'
  <2>1. \A d \in Callers : call'[d].step \in QuoteSteps => call[d].step \in QuoteSteps
    BY <1>1, <1>5, TripCalls DEF GoTo, Idle, Shape, TypeOK, Calls, QuoteSteps, TripSteps
  <2>2. QED
    BY <1>1, <1>3, <1>5, <2>1, TripWrites
<1>6. ASSUME NEW c \in Callers, QuoteStep(c)
      PROVE  Settled'
  <2>1. UNCHANGED <<award, crossed>>
    BY <1>6 DEF QuoteStep, BeginQuote, ReadRequest, FindPrevious, Supersede, CreateQuote,
       MarkInvite, MarkRequest, BeginWithdraw, Withdraw, noted
  <2>2. \/ call[c].step \in QuoteSteps
        \/ request \in {"PUBLISHED", "QUOTED"}
        \/ \E q \in QuoteIds : quotes[q].status = "SUBMITTED"
    BY <1>6 DEF QuoteStep, BeginQuote, ReadRequest, FindPrevious, Supersede, CreateQuote,
       MarkInvite, MarkRequest, BeginWithdraw, Withdraw, Step, QuoteSteps, OpenForQuotes
  <2>3. ~ (award.quote # 0 /\ ~ crossed)
    BY <1>1, <2>2 DEF Settled
  <2>4. QED
    BY <2>1, <2>3 DEF Settled
<1>7. ASSUME NEW c \in Callers, Fault(c) \/ (AwardStep(c) /\ ~ CommitAward(c))
      PROVE  Settled'
  <2>1. UNCHANGED <<request, quotes, crossed, award>>
    BY <1>7 DEF AwardStep, BeginAward, AwardFails, ApplyAward, Fault, sourcing, noted
  <2>2. \/ call' = [call EXCEPT ![c] = Idle]
        \/ award.quote = 0
    BY <1>7 DEF AwardStep, BeginAward, AwardFails, ApplyAward, Fault, Return
  <2>3. award.quote # 0 => \A d \in Callers : call'[d].step \in QuoteSteps => call[d].step \in QuoteSteps
    BY <1>1, <2>2 DEF Idle, Shape, TypeOK, QuoteSteps
  <2>4. QED
    BY <1>3, <2>1, <2>3
<1>8. QED
  BY <1>1, <1>2, <1>4, <1>5, <1>6, <1>7 DEF Next

\* An award settles the sourcing (awardQuote, createContractDirectAward): its
\* quote is ACCEPTED and stays so, no other is left open and the request stays
\* AWARDED, unless somebody was quoting or withdrawing when it committed.
THEOREM AwardSettles == Spec => []AwardSettlesSourcing
<1>1. Init => Settled
  BY DEF Init, Settled
<1>2. Settled => AwardSettlesSourcing
  BY DEF Settled, AwardSettlesSourcing
<1>3. QED
  BY <1>1, <1>2, SettledNext, ShapeInvariant, PTL DEF Spec

-----------------------------------------------------------------------------
(* The end of the trip. *)

Milestones == {"start", "started", "complete", "completed"}

\* Once the trip has ended, the milestones in flight are late.
Late == award.status \in Ended => \A c \in Callers : call[c].step \in Milestones => c \in late

\* A step other than the end of the trip: nothing new is begun on an ended trip,
\* and a late call stays late until it returns.
LEMMA LateLemma ==
  ASSUME Shape, Late, NEW c \in Callers,
         award'.status \in Ended => award.status \in Ended,
         late \ {c} \subseteq late',
         \A d \in Callers \ {c} : call'[d] = call[d],
         award.status \in Ended /\ call'[c].step \in Milestones =>
           call[c].step \in Milestones /\ (c \in late => c \in late')
  PROVE  Late'
BY DEF Late

LEMMA LateNext == Shape /\ Late /\ [Next]_vars => Late'
<1>1. SUFFICES ASSUME Shape, Late, [Next]_vars PROVE Late'
  OBVIOUS
<1>2. call \in [Callers -> Calls] /\ late \subseteq Callers
  BY <1>1 DEF Shape, TypeOK
<1>3. CASE UNCHANGED vars
  BY <1>1, <1>3 DEF vars, Late
<1>4. ASSUME NEW c \in Callers, AwardCompleted(c) \/ CancelAward(c) \/ AbortTrip(c)
      PROVE  Late'
  <2>1. ASSUME NEW d \in Callers, call'[d].step \in Milestones
        PROVE  d \in late'
    <3>1. call[d].step \in Milestones
      BY <1>2, <1>4, <2>1 DEF AwardCompleted, CancelAward, AbortTrip, GoTo, Idle, Step, Calls, Milestones
    <3>2. award.status \in Ended => d \in late
      BY <1>1, <3>1 DEF Late
    <3>3. NoteEnd
      BY <1>4 DEF AwardCompleted, CancelAward, AbortTrip
    <3>4. QED
      BY <2>1, <3>2, <3>3 DEF NoteEnd, Milestones
  <2>2. QED
    BY <2>1 DEF Late
<1>5. ASSUME NEW c \in Callers, TripStep(c), ~ (AwardCompleted(c) \/ CancelAward(c) \/ AbortTrip(c))
      PROVE  Late'
  <2>1. award'.status \in Ended => award.status \in Ended
    BY <1>1, <1>5 DEF TripStep, Assign, MarkAssigned, BeginMilestone, BeginGeofence, RecordReached,
       AwardStarted, RecordStarted, RecordCompleted, SyncSchedule, BeginCancel, CancelTrip, BeginAbort,
       Shape, TypeOK, Awards, Ended
  <2>2. late \ {c} \subseteq late'
    BY <1>5 DEF TripStep, Assign, MarkAssigned, BeginMilestone, BeginGeofence, RecordReached,
       AwardStarted, RecordStarted, RecordCompleted, SyncSchedule, BeginCancel, CancelTrip, BeginAbort,
       Return, noted
  <2>3. \A d \in Callers \ {c} : call'[d] = call[d]
    BY <1>1, <1>2, <1>5, TripCalls DEF GoTo
  <2>4. award.status \in Ended /\ call'[c].step \in Milestones =>
          call[c].step \in Milestones /\ (c \in late => c \in late')
    BY <1>2, <1>5 DEF TripStep, Assign, MarkAssigned, BeginMilestone, BeginGeofence, RecordReached,
       AwardStarted, RecordStarted, RecordCompleted, SyncSchedule, BeginCancel, CancelTrip, BeginAbort,
       BeginOnTrip, Finalized, Return, GoTo, Idle, Step, Calls, Milestones, noted
  <2>5. QED
    BY <1>1, <2>1, <2>2, <2>3, <2>4, LateLemma
<1>6. ASSUME NEW c \in Callers, QuoteStep(c) \/ AwardStep(c) \/ Fault(c)
      PROVE  Late'
  <2>1. award' = award \/ award'.status = "AWARDED"
    <3>1. CASE CommitAward(c)
      BY <3>1 DEF CommitAward
    <3>2. CASE ~ CommitAward(c)
      BY <1>6, <3>2 DEF QuoteStep, AwardStep, BeginQuote, ReadRequest, FindPrevious, Supersede, CreateQuote,
         MarkInvite, MarkRequest, BeginWithdraw, Withdraw, BeginAward, AwardFails, ApplyAward, Fault
    <3>3. QED
      BY <3>1, <3>2
  <2>2. late \ {c} \subseteq late'
    BY <1>6 DEF QuoteStep, AwardStep, BeginQuote, ReadRequest, FindPrevious, Supersede, CreateQuote,
       MarkInvite, MarkRequest, BeginWithdraw, Withdraw, BeginAward, CommitAward, AwardFails, ApplyAward,
       Fault, Return, noted
  <2>3. \A d \in Callers \ {c} : call'[d] = call[d]
    BY <1>2, <1>6 DEF QuoteStep, AwardStep, BeginQuote, ReadRequest, FindPrevious, Supersede, CreateQuote,
       MarkInvite, MarkRequest, BeginWithdraw, Withdraw, BeginAward, CommitAward, AwardFails, ApplyAward,
       Fault, Return, GoTo
  <2>4. call'[c].step \notin Milestones
    <3>1. ASSUME \/ \E p \in Partners : BeginQuote(c, p)
                 \/ \E q \in QuoteIds : BeginWithdraw(c, q) \/ BeginAward(c, q)
          PROVE  call'[c].step \notin Milestones
      <4>1. \E s \in {"eligible", "withdraw", "award"} : call'[c].step = s
        BY <1>2, <3>1 DEF BeginQuote, BeginWithdraw, BeginAward, Idle
      <4>2. QED
        BY <4>1 DEF Milestones
    <3>2. CASE ReadRequest(c) \/ FindPrevious(c)
      BY <1>2, <3>2 DEF ReadRequest, FindPrevious, Calls, Milestones
    <3>3. CASE Supersede(c) \/ CreateQuote(c) \/ MarkInvite(c) \/ (CommitAward(c) /\ GoTo(c, "apply"))
      BY <1>2, <3>3 DEF Supersede, CreateQuote, MarkInvite, GoTo, Calls, Milestones
    <3>4. CASE call' = [call EXCEPT ![c] = Idle]
      BY <1>2, <3>4 DEF Idle, Milestones
    <3>5. QED
      BY <1>6, <3>1, <3>2, <3>3, <3>4 DEF QuoteStep, AwardStep, MarkRequest, Withdraw, CommitAward, AwardFails,
         ApplyAward, Fault, Return
  <2>5. award'.status \in Ended => award.status \in Ended
    BY <2>1 DEF Ended
  <2>6. QED
    BY <1>1, <2>2, <2>3, <2>4, <2>5, LateLemma
<1>7. CASE \/ \E invited \in SUBSET Partners : CreateRequest(invited)
           \/ \E p \in Partners : ContractDirectAward(p) \/ DeclineRequest(p)
           \/ ReplaceResource
  <2>1. /\ award' = award \/ award'.status = "AWARDED"
        /\ UNCHANGED <<call, late>>
    BY <1>7 DEF CreateRequest, ContractDirectAward, DeclineRequest, ReplaceResource, noted
  <2>2. QED
    BY <1>1, <2>1 DEF Late, Ended
<1>8. QED
  BY <1>1, <1>3, <1>4, <1>5, <1>6, <1>7 DEF Next

\* A step on an ended trip.
LEMMA EndedStep ==
  ASSUME Shape, Late, Next, award.status \in Ended
  PROVE  \/ award'.status \in Ended /\ trip'.started = trip.started
                                    /\ (trip'.completed => trip.completed \/ award.status = "COMPLETED")
         \/ \E c \in late : call'[c] # call[c]
         \/ \E c \in Callers : Step(c, "assigned") /\ IsIdle(c)'
<1>1. award.quote # 0 /\ request # "NONE" /\ trip \in Trips /\ award \in Awards /\ call \in [Callers -> Calls]
  BY RequestLemma DEF Shape, TypeOK, Started, Ended
<1>2. ASSUME NEW c \in Callers, TripStep(c), call[c].step \in Milestones
      PROVE  c \in late /\ call'[c] # call[c]
  <2>1. c \in late
    BY <1>2 DEF Late
  <2>2. call'[c].step # call[c].step
    BY <1>1, <1>2 DEF TripStep, Assign, MarkAssigned, BeginMilestone, BeginGeofence, RecordReached,
       AwardStarted, RecordStarted, AwardCompleted, RecordCompleted, SyncSchedule, BeginCancel,
       CancelAward, CancelTrip, BeginAbort, AbortTrip, BeginOnTrip, IsIdle, Return, GoTo, Idle, Step, Calls,
       Milestones
  <2>3. QED
    BY <2>1, <2>2
<1>3. ASSUME NEW c \in Callers, MarkAssigned(c)
      PROVE  Step(c, "assigned") /\ IsIdle(c)'
  BY <1>1, <1>3 DEF MarkAssigned, Return, IsIdle, Idle
<1>4. ASSUME NEW c \in Callers, TripStep(c), call[c].step \notin Milestones, ~ MarkAssigned(c)
      PROVE  award'.status \in Ended /\ trip'.started = trip.started /\ trip'.completed = trip.completed
  <2>1. CASE CancelAward(c) \/ AbortTrip(c)
    BY <1>1, <2>1 DEF CancelAward, AbortTrip, Ended, Awards, carriage
  <2>2. CASE Assign(c) \/ RecordReached(c) \/ CancelTrip(c)
    BY <1>1, <2>2 DEF Assign, NewLink, RecordReached, CancelTrip, Trips
  <2>3. CASE SyncSchedule(c) \/ BeginMilestone(c) \/ BeginGeofence(c) \/ BeginCancel(c) \/ BeginAbort(c)
    BY <2>3 DEF SyncSchedule, BeginMilestone, BeginGeofence, BeginCancel, BeginAbort, carriage
  <2>4. QED
    BY <1>4, <2>1, <2>2, <2>3
       DEF TripStep, AwardStarted, RecordStarted, AwardCompleted, RecordCompleted, Step, Milestones
<1>5. ASSUME ~ \E c \in Callers : TripStep(c)
      PROVE  award' = award /\ trip'.started = trip.started /\ trip'.completed = trip.completed
  <2>1. CASE ReplaceResource
    BY <1>1, <2>1 DEF ReplaceResource, NewLink, Trips
  <2>2. ASSUME NEW c \in Callers, QuoteStep(c) \/ AwardStep(c) \/ Fault(c)
        PROVE  UNCHANGED <<award, trip>>
    BY <1>1, <2>2 DEF QuoteStep, AwardStep, BeginQuote, ReadRequest, FindPrevious, Supersede, CreateQuote,
       MarkInvite, MarkRequest, BeginWithdraw, Withdraw, BeginAward, CommitAward, NoAwardYet, AwardFails,
       ApplyAward, Fault, carriage
  <2>3. CASE \/ \E invited \in SUBSET Partners : CreateRequest(invited)
             \/ \E p \in Partners : ContractDirectAward(p) \/ DeclineRequest(p)
    BY <1>1, <2>3 DEF CreateRequest, ContractDirectAward, DeclineRequest, carriage
  <2>4. QED
    BY <1>5, <2>1, <2>2, <2>3 DEF Next
<1>6. QED
  BY <1>2, <1>3, <1>4, <1>5

\* An ended trip is read-only (updateDriverMilestone): only a call that was in
\* flight when it ended, or a new assignment, takes it on.
THEOREM EndedReadOnly == Spec => EndedTripIsReadOnly
<1>1. Init => Late
  BY DEF Init, Late, Ended
<1>2. ASSUME Shape, Late, [Next]_vars, award.status \in Ended
      PROVE  \/ award'.status \in Ended /\ trip'.started = trip.started
                                        /\ (trip'.completed => trip.completed \/ award.status = "COMPLETED")
             \/ \E c \in late : call'[c] # call[c]
             \/ \E c \in Callers : Step(c, "assigned") /\ IsIdle(c)'
  <2>1. CASE Next
    BY <1>2, <2>1, EndedStep
  <2>2. CASE UNCHANGED vars
    BY <1>2, <2>2 DEF vars
  <2>3. QED
    BY <1>2, <2>1, <2>2
<1>3. Shape /\ Late /\ [Next]_vars =>
        (award.status \in Ended =>
           \/ award'.status \in Ended /\ trip'.started = trip.started
                                      /\ (trip'.completed => trip.completed \/ award.status = "COMPLETED")
           \/ \E c \in late : call'[c] # call[c]
           \/ \E c \in Callers : Step(c, "assigned") /\ IsIdle(c)')
  BY <1>2
<1>4. QED
  BY <1>1, <1>3, LateNext, ShapeInvariant, PTL DEF Spec, EndedTripIsReadOnly

-----------------------------------------------------------------------------
(* The live quotes of a partner. *)

\* A partner that never quoted in two calls at once has one submission in
\* flight at most, which knows of every live quote that partner has.
LiveOf(p) ==
  /\ \A q, r \in Submitted(p) : q = r
  /\ \A c, d \in Callers : call[c].partner = p /\ call[d].partner = p => c = d
  /\ \A c \in Callers : call[c].partner = p =>
       /\ Step(c, "found") => Submitted(p) \subseteq {call[c].quote}
       /\ Step(c, "superseded") => Submitted(p) = {}

Live == \A p \in Partners \ doubled : LiveOf(p)

\* A step that opens no quote, begins no submission and finds none.
LEMMA LiveLemma ==
  ASSUME Live, doubled \subseteq doubled',
         \A p \in Partners : Submitted(p)' \subseteq Submitted(p),
         \A c \in Callers : call'[c].partner \in Partners =>
           /\ call'[c].partner = call[c].partner
           /\ call'[c].step \in {"found", "superseded"} =>
                /\ call'[c].step = call[c].step
                /\ call'[c].quote = call[c].quote
  PROVE  Live'
<1>1. ASSUME NEW p \in Partners \ doubled'
      PROVE  LiveOf(p)'
  <2>1. LiveOf(p)
    BY DEF Live
  <2>2. Submitted(p)' \subseteq Submitted(p)
    OBVIOUS
  <2>3. \A q, r \in Submitted(p)' : q = r
    BY <2>1, <2>2 DEF LiveOf
  <2>4. \A c, d \in Callers : call'[c].partner = p /\ call'[d].partner = p => c = d
    BY <2>1 DEF LiveOf
  <2>5. ASSUME NEW c \in Callers, call'[c].partner = p
        PROVE  /\ call'[c].step = "found" => Submitted(p)' \subseteq {call'[c].quote}
               /\ call'[c].step = "superseded" => Submitted(p)' = {}
    BY <2>1, <2>2, <2>5 DEF LiveOf, Step
  <2>6. QED
    BY <2>3, <2>4, <2>5 DEF LiveOf, Step
<1>2. QED
  BY <1>1 DEF Live

\* The submission of a quote, from its beginning to the row it creates.
LEMMA LiveBegin ==
  ASSUME Shape, Live, NEW c \in Callers, NEW x \in Partners, BeginQuote(c, x)
  PROVE  Live'
<1>1. /\ call \in [Callers -> Calls] /\ call[c].partner = NoPartner
      /\ NoPartner \notin Partners /\ doubled \subseteq doubled'
      /\ quotes' = quotes
  BY AwardsAssumption DEF Shape, TypeOK, Sound, BeginQuote, IsIdle, QuotingSteps, QuoteSteps, AwardsAssumption,
     sourcing
<1>2. /\ call'[c].partner = x /\ call'[c].step = "eligible"
      /\ \A d \in Callers \ {c} : call'[d] = call[d]
  BY <1>1 DEF BeginQuote, Idle
<1>3. x \notin doubled' => \A d \in Callers : call[d].partner # x
  BY DEF BeginQuote
<1>4. ASSUME NEW p \in Partners \ doubled'
      PROVE  LiveOf(p)'
  <2>1. LiveOf(p)
    BY <1>1 DEF Live
  <2>2. Submitted(p)' = Submitted(p)
    BY <1>1 DEF Submitted
  <2>3. \A d, e \in Callers : call'[d].partner = p /\ call'[e].partner = p => d = e
    BY <1>2, <1>3, <1>4, <2>1 DEF LiveOf
  <2>4. ASSUME NEW d \in Callers, call'[d].partner = p
        PROVE  /\ call'[d].step = "found" => Submitted(p)' \subseteq {call'[d].quote}
               /\ call'[d].step = "superseded" => Submitted(p)' = {}
    <3>1. CASE d = c
      BY <1>2, <3>1
    <3>2. CASE d # c
      <4>1. call'[d] = call[d]
        BY <1>2, <3>2
      <4>2. QED
        BY <2>1, <2>2, <2>4, <4>1 DEF LiveOf, Step
    <3>3. QED
      BY <3>1, <3>2
  <2>5. QED
    BY <2>1, <2>2, <2>3, <2>4 DEF LiveOf, Step
<1>5. QED
  BY <1>4 DEF Live

LEMMA LiveFind ==
  ASSUME Shape, Live, NEW c \in Callers, FindPrevious(c)
  PROVE  Live'
<1> DEFINE x == call[c].partner
<1>1. /\ call \in [Callers -> Calls] /\ quotes \in [QuoteIds -> Quotes]
      /\ quotes' = quotes /\ doubled' = doubled
  BY DEF Shape, TypeOK, FindPrevious, sourcing, noted
<1>2. /\ call'[c].partner = x
      /\ \A d \in Callers \ {c} : call'[d] = call[d]
  BY <1>1 DEF FindPrevious, Calls
<1>3. \/ Revisable(x) = {} /\ call'[c].step = "superseded"
      \/ \E q \in Revisable(x) : call'[c].step = "found" /\ call'[c].quote = q
  BY <1>1 DEF FindPrevious, Calls
<1>4. ASSUME LiveOf(x)
      PROVE  \/ Submitted(x) = {} /\ call'[c].step = "superseded"
             \/ call'[c].step = "found" /\ Submitted(x) \subseteq {call'[c].quote}
  <2>1. Revisable(x) \subseteq Submitted(x)
    BY DEF Revisable
  <2>2. ASSUME NEW q \in Submitted(x)
        PROVE  q \in Revisable(x)
    <3>1. quotes[q].revision \in Int
      BY <1>1, AwardsAssumption DEF Submitted, Quotes, AwardsAssumption
    <3>2. \A r \in Submitted(x) : r = q
      BY <1>4 DEF LiveOf
    <3>3. QED
      BY <3>1, <3>2 DEF Revisable
  <2>3. QED
    BY <1>3, <1>4, <2>1, <2>2 DEF LiveOf
<1>5. ASSUME NEW p \in Partners \ doubled'
      PROVE  LiveOf(p)'
  <2>1. LiveOf(p)
    BY <1>1 DEF Live
  <2>2. Submitted(p)' = Submitted(p)
    BY <1>1 DEF Submitted
  <2>3. \A d \in Callers : call'[d].partner = call[d].partner
    BY <1>2
  <2>4. ASSUME NEW d \in Callers, call'[d].partner = p
        PROVE  /\ call'[d].step = "found" => Submitted(p) \subseteq {call'[d].quote}
               /\ call'[d].step = "superseded" => Submitted(p) = {}
    <3>1. CASE d = c
      BY <1>2, <1>4, <2>1, <2>4, <3>1
    <3>2. CASE d # c
      <4>1. call'[d] = call[d]
        BY <1>2, <3>2
      <4>2. QED
        BY <2>1, <2>4, <4>1 DEF LiveOf, Step
    <3>3. QED
      BY <3>1, <3>2
  <2>5. QED
    BY <2>1, <2>2, <2>3, <2>4 DEF LiveOf, Step
<1>6. QED
  BY <1>5 DEF Live

LEMMA LiveSupersede ==
  ASSUME Shape, Live, NEW c \in Callers, Supersede(c)
  PROVE  Live'
<1> DEFINE x == call[c].partner
<1>1. /\ call \in [Callers -> Calls] /\ quotes \in [QuoteIds -> Quotes]
      /\ call[c].step = "found" /\ call[c].quote \in QuoteIds /\ doubled' = doubled
  BY AwardsAssumption
     DEF Shape, TypeOK, Supersede, Step, Sound, Calls, QuoteIds, AwardsAssumption, noted
<1>2. /\ call'[c].partner = x /\ call'[c].step = "superseded"
      /\ \A d \in Callers \ {c} : call'[d] = call[d]
  BY <1>1 DEF Supersede, GoTo, Calls
<1>3. \A p \in Partners : Submitted(p)' \subseteq Submitted(p) \ {call[c].quote}
  BY <1>1 DEF Supersede, Submitted, Quotes
<1>4. ASSUME NEW p \in Partners \ doubled'
      PROVE  LiveOf(p)'
  <2>1. LiveOf(p)
    BY <1>1 DEF Live
  <2>2. Submitted(p)' \subseteq Submitted(p) \ {call[c].quote}
    BY <1>3
  <2>3. \A d \in Callers : call'[d].partner = call[d].partner
    BY <1>2
  <2>4. \A q, r \in Submitted(p)' : q = r
    BY <2>1, <2>2 DEF LiveOf
  <2>5. ASSUME NEW d \in Callers, call'[d].partner = p
        PROVE  /\ call'[d].step = "found" => Submitted(p)' \subseteq {call'[d].quote}
               /\ call'[d].step = "superseded" => Submitted(p)' = {}
    <3>1. CASE d = c
      <4>1. Submitted(p) \subseteq {call[c].quote}
        BY <1>1, <1>2, <2>1, <2>5, <3>1 DEF LiveOf, Step
      <4>2. QED
        BY <1>2, <2>2, <3>1, <4>1
    <3>2. CASE d # c
      <4>1. call'[d] = call[d]
        BY <1>2, <3>2
      <4>2. QED
        BY <2>1, <2>2, <2>5, <4>1 DEF LiveOf, Step
    <3>3. QED
      BY <3>1, <3>2
  <2>6. QED
    BY <2>1, <2>3, <2>4, <2>5 DEF LiveOf, Step
<1>5. QED
  BY <1>4 DEF Live

LEMMA LiveCreate ==
  ASSUME Shape, Live, NEW c \in Callers, CreateQuote(c)
  PROVE  Live'
<1> DEFINE x == call[c].partner
<1>1. /\ call \in [Callers -> Calls] /\ quotes \in [QuoteIds -> Quotes]
      /\ call[c].step = "superseded" /\ doubled' = doubled
  BY DEF Shape, TypeOK, CreateQuote, Step, noted
<1>2. /\ call'[c].partner = x /\ call'[c].step = "created"
      /\ \A d \in Callers \ {c} : call'[d] = call[d]
  BY <1>1 DEF CreateQuote, GoTo, Calls
<1>3. PICK n \in 0..MaxQuotes : /\ NextQuote = n + 1
                                /\ \A q \in QuoteIds : quotes[q].status # "NONE" <=> q <= n
  BY NextQuoteLemma
<1>4. /\ n + 1 \in QuoteIds /\ quotes[n + 1].status = "NONE"
      /\ quotes'[n + 1].partner = x
      /\ \A q \in QuoteIds \ {n + 1} : quotes'[q] = quotes[q]
  <2>1. n + 1 \in QuoteIds
    BY <1>3 DEF CreateQuote
  <2>2. quotes[n + 1].status = "NONE"
    BY <1>3, <2>1
  <2>3. QED
    BY <1>1, <1>3, <2>1, <2>2 DEF CreateQuote
<1>5. \A p \in Partners : /\ p # x => Submitted(p)' \subseteq Submitted(p)
                          /\ p = x => Submitted(p)' \subseteq Submitted(p) \cup {n + 1}
  BY <1>4 DEF Submitted
<1>6. ASSUME NEW p \in Partners \ doubled'
      PROVE  LiveOf(p)'
  <2>1. LiveOf(p)
    BY <1>1 DEF Live
  <2>2. \A d \in Callers : call'[d].partner = call[d].partner
    BY <1>2
  <2>3. p = x => Submitted(p) = {}
    BY <1>1, <2>1 DEF LiveOf, Step
  <2>4. \A q, r \in Submitted(p)' : q = r
    BY <1>5, <2>1, <2>3 DEF LiveOf
  <2>5. ASSUME NEW d \in Callers, call'[d].partner = p
        PROVE  /\ call'[d].step = "found" => Submitted(p)' \subseteq {call'[d].quote}
               /\ call'[d].step = "superseded" => Submitted(p)' = {}
    <3>1. CASE d = c
      BY <1>2, <3>1
    <3>2. CASE d # c
      <4>1. call'[d] = call[d]
        BY <1>2, <3>2
      <4>2. p # x
        BY <2>1, <2>2, <2>5, <3>2 DEF LiveOf
      <4>3. Submitted(p)' \subseteq Submitted(p)
        BY <1>5, <4>2
      <4>4. QED
        BY <2>1, <2>5, <4>1, <4>3 DEF LiveOf, Step
    <3>3. QED
      BY <3>1, <3>2
  <2>6. QED
    BY <2>1, <2>2, <2>4, <2>5 DEF LiveOf, Step
<1>7. QED
  BY <1>6 DEF Live

LEMMA LiveNext == Shape /\ Live /\ [Next]_vars => Live'
<1>1. SUFFICES ASSUME Shape, Live, [Next]_vars PROVE Live'
  OBVIOUS
<1>2. /\ call \in [Callers -> Calls] /\ quotes \in [QuoteIds -> Quotes]
      /\ NoPartner \notin Partners
  BY <1>1, AwardsAssumption DEF Shape, TypeOK, AwardsAssumption
<1>3. ASSUME NEW c \in Callers, NEW s \in Steps \ {"found", "superseded"},
             doubled \subseteq doubled',
             \A p \in Partners : Submitted(p)' \subseteq Submitted(p),
             \/ call' = [call EXCEPT ![c] = Idle]
             \/ \E w \in Calls : w.partner \in {NoPartner, call[c].partner} /\ w.step = s
                                 /\ call' = [call EXCEPT ![c] = w]
      PROVE  Live'
  <2>1. ASSUME NEW d \in Callers, call'[d].partner \in Partners
        PROVE  /\ call'[d].partner = call[d].partner
               /\ call'[d].step \in {"found", "superseded"} =>
                    call'[d].step = call[d].step /\ call'[d].quote = call[d].quote
    <3>1. CASE call' = [call EXCEPT ![c] = Idle]
      BY <1>2, <2>1, <3>1 DEF Idle
    <3>2. ASSUME NEW w \in Calls, w.partner \in {NoPartner, call[c].partner}, w.step = s,
                 call' = [call EXCEPT ![c] = w]
          PROVE  /\ call'[d].partner = call[d].partner
                 /\ call'[d].step \in {"found", "superseded"} =>
                      call'[d].step = call[d].step /\ call'[d].quote = call[d].quote
      <4>1. CASE d = c
        BY <1>2, <2>1, <3>2, <4>1
      <4>2. CASE d # c
        BY <1>2, <3>2, <4>2
      <4>3. QED
        BY <4>1, <4>2
    <3>3. QED
      BY <1>3, <3>1, <3>2
  <2>2. QED
    BY <1>1, <1>3, <2>1, LiveLemma
<1>4. ASSUME NEW c \in Callers, NEW s \in Steps
      PROVE  [call[c] EXCEPT !.step = s] \in Calls /\ [Idle EXCEPT !.step = s] \in Calls
  BY <1>2, IdleLemma DEF Calls
<1>5. ASSUME NEW c \in Callers, TripStep(c)
      PROVE  Live'
  <2>1. quotes' = quotes /\ doubled' = doubled
    BY <1>1, <1>5, TripWrites
  <2>2. \A p \in Partners : Submitted(p)' \subseteq Submitted(p)
    BY <2>1 DEF Submitted
  <2>3. CASE call' = [call EXCEPT ![c] = Idle]
    <3>1. "idle" \in Steps \ {"found", "superseded"}
      BY DEF Steps
    <3>2. QED
      BY <1>3, <2>1, <2>2, <2>3, <3>1
  <2>4. ASSUME NEW s \in TripSteps, GoTo(c, s)
        PROVE  Live'
    <3>1. s \in Steps \ {"found", "superseded"}
      BY DEF Steps, TripSteps
    <3>2. [call[c] EXCEPT !.step = s] \in Calls /\ call' = [call EXCEPT ![c] = [call[c] EXCEPT !.step = s]]
      BY <1>2, <1>4, <2>4, <3>1 DEF GoTo
    <3>3. [call[c] EXCEPT !.step = s].partner = call[c].partner /\ [call[c] EXCEPT !.step = s].step = s
      BY <1>2 DEF Calls
    <3>4. QED
      BY <1>3, <2>1, <2>2, <3>1, <3>2, <3>3
  <2>5. QED
    BY <1>1, <1>5, <2>3, <2>4, TripCalls
<1>6. ASSUME NEW c \in Callers,
             \/ MarkRequest(c) \/ Withdraw(c) \/ AwardFails(c) \/ ApplyAward(c) \/ Fault(c)
             \/ CommitAward(c) /\ Return(c)
      PROVE  Live'
  <2>1. call' = [call EXCEPT ![c] = Idle] /\ doubled \subseteq doubled'
    BY <1>6 DEF MarkRequest, Withdraw, AwardFails, ApplyAward, Fault, CommitAward, Return
  <2>2. \A p \in Partners : Submitted(p)' \subseteq Submitted(p)
    <3>1. CASE Withdraw(c)
      BY <1>2, <3>1 DEF Withdraw, Submitted, Quotes
    <3>2. CASE CommitAward(c)
      BY <1>2, <3>2 DEF CommitAward, AwardedQuotes, Submitted, Quotes
    <3>3. CASE quotes' = quotes
      BY <3>3 DEF Submitted
    <3>4. QED
      BY <1>6, <3>1, <3>2, <3>3 DEF MarkRequest, AwardFails, ApplyAward, Fault, sourcing
  <2>3. "idle" \in Steps \ {"found", "superseded"}
    BY DEF Steps
  <2>4. QED
    BY <1>3, <2>1, <2>2, <2>3
<1>7. ASSUME NEW c \in Callers, NEW s \in {"read", "invited", "apply"}, doubled' = doubled,
             \A p \in Partners : Submitted(p)' \subseteq Submitted(p),
             \/ GoTo(c, s)
             \/ call' = [call EXCEPT ![c].step = s, ![c].status = request]
      PROVE  Live'
  <2>1. s \in Steps \ {"found", "superseded"} /\ request \in RequestStatuses
    BY <1>1 DEF Steps, QuoteSteps, Shape, TypeOK
  <2>2. \E w \in Calls : w.partner = call[c].partner /\ w.step = s /\ call' = [call EXCEPT ![c] = w]
    <3>1. CASE GoTo(c, s)
      <4> DEFINE w == [call[c] EXCEPT !.step = s]
      <4>1. w \in Calls /\ w.partner = call[c].partner /\ w.step = s
        BY <1>2, <1>4, <2>1 DEF Calls
      <4>2. call' = [call EXCEPT ![c] = w]
        BY <3>1 DEF GoTo
      <4>3. QED
        BY <4>1, <4>2
    <3>2. CASE call' = [call EXCEPT ![c].step = s, ![c].status = request]
      <4> DEFINE w == [call[c] EXCEPT !.step = s, !.status = request]
      <4>1. w \in Calls /\ w.partner = call[c].partner /\ w.step = s
        BY <1>2, <2>1 DEF Calls
      <4>2. call' = [call EXCEPT ![c] = w]
        BY <3>2
      <4>3. QED
        BY <4>1, <4>2
    <3>3. QED
      BY <1>7, <3>1, <3>2
  <2>3. QED
    BY <1>3, <1>7, <2>1, <2>2
<1>8. ASSUME NEW c \in Callers, ReadRequest(c) \/ MarkInvite(c) \/ (CommitAward(c) /\ GoTo(c, "apply"))
      PROVE  Live'
  <2>1. doubled' = doubled
    BY <1>8 DEF ReadRequest, MarkInvite, CommitAward, noted
  <2>2. \A p \in Partners : Submitted(p)' \subseteq Submitted(p)
    <3>1. CASE CommitAward(c)
      BY <1>2, <3>1 DEF CommitAward, AwardedQuotes, Submitted, Quotes
    <3>2. CASE quotes' = quotes
      BY <3>2 DEF Submitted
    <3>3. QED
      BY <1>8, <3>1, <3>2 DEF ReadRequest, MarkInvite, sourcing
  <2>3. \E s \in {"read", "invited", "apply"} :
          GoTo(c, s) \/ call' = [call EXCEPT ![c].step = s, ![c].status = request]
    BY <1>8 DEF ReadRequest, MarkInvite
  <2>4. QED
    BY <1>7, <2>1, <2>2, <2>3
<1>9. ASSUME NEW c \in Callers, NEW q \in QuoteIds, BeginWithdraw(c, q) \/ BeginAward(c, q)
      PROVE  Live'
  <2>1. PICK s \in {"withdraw", "award"} : call' = [call EXCEPT ![c] = [Idle EXCEPT !.step = s, !.quote = q]]
    BY <1>9 DEF BeginWithdraw, BeginAward
  <2>2. quotes' = quotes /\ doubled' = doubled
    BY <1>9 DEF BeginWithdraw, BeginAward, sourcing, noted
  <2>3. \A p \in Partners : Submitted(p)' \subseteq Submitted(p)
    BY <2>2 DEF Submitted
  <2>4. /\ q \in 0..MaxQuotes /\ s \in Steps \ {"found", "superseded"}
    BY AwardsAssumption DEF QuoteIds, Steps, QuoteSteps, AwardsAssumption
  <2> DEFINE w == [Idle EXCEPT !.step = s, !.quote = q]
  <2>5. w \in Calls
    BY <2>4, IdleLemma DEF Calls
  <2>6. w.partner = NoPartner /\ w.step = s
    BY DEF Idle
  <2>7. QED
    BY <1>3, <2>1, <2>2, <2>3, <2>4, <2>5, <2>6
<1>10. CASE \/ \E invited \in SUBSET Partners : CreateRequest(invited)
            \/ \E p \in Partners : DeclineRequest(p)
            \/ ReplaceResource \/ UNCHANGED vars
  <2>1. UNCHANGED <<quotes, call, doubled>>
    BY <1>10 DEF CreateRequest, DeclineRequest, ReplaceResource, vars, sourcing, noted
  <2>2. \A p \in Partners : Submitted(p)' \subseteq Submitted(p)
    BY <2>1 DEF Submitted
  <2>3. QED
    BY <1>1, <2>1, <2>2, LiveLemma
<1>11. ASSUME NEW x \in Partners, ContractDirectAward(x)
       PROVE  Live'
  <2>1. call' = call /\ doubled' = doubled
    BY <1>11 DEF ContractDirectAward, noted
  <2>2. \A q \in QuoteIds : quotes[q].status = "NONE"
    BY <1>1, <1>11 DEF ContractDirectAward, Shape, Started
  <2>3. \A q \in QuoteIds : quotes'[q].status # "SUBMITTED"
    BY <1>2, <1>11, <2>2 DEF ContractDirectAward
  <2>4. \A p \in Partners : Submitted(p)' \subseteq Submitted(p)
    BY <2>3 DEF Submitted
  <2>5. QED
    BY <1>1, <2>1, <2>4, LiveLemma
<1>12. QED
  BY <1>1, <1>5, <1>6, <1>8, <1>9, <1>10, <1>11, LiveBegin, LiveFind, LiveSupersede, LiveCreate
     DEF Next, QuoteStep, AwardStep, CommitAward

\* A partner has one live quote on a request (submitOrReviseQuote supersedes the
\* one before), unless two of its submissions overlapped or one died.
THEOREM OneLiveQuote == Spec => []OneLiveQuotePerPartner
<1>1. Init => Live
  BY AwardsAssumption DEF Init, Live, LiveOf, Submitted, NoQuote, Idle, Step, AwardsAssumption
<1>2. ASSUME Live, NEW p \in Partners \ doubled
      PROVE  Cardinality(Submitted(p)) <= 1
  <2>1. \A q, r \in Submitted(p) : q = r
    BY <1>2 DEF Live, LiveOf
  <2>2. CASE Submitted(p) = {}
    BY <2>2, FS_EmptySet
  <2>3. CASE Submitted(p) # {}
    <3>1. PICK q \in Submitted(p) : TRUE
      BY <2>3
    <3>2. Submitted(p) = {q}
      BY <2>1, <3>1
    <3>3. Cardinality({q}) = 1
      BY FS_Singleton
    <3>4. QED
      BY <3>2, <3>3
  <2>4. QED
    BY <2>2, <2>3
<1>3. Live => OneLiveQuotePerPartner
  BY <1>2 DEF OneLiveQuotePerPartner
<1>4. QED
  BY <1>1, <1>3, LiveNext, ShapeInvariant, PTL DEF Spec

-----------------------------------------------------------------------------
(* The three records of the trip. *)

Busy == TripSteps \cup {"apply"}

\* Steps between a call's first write and its last.
Mid == {"started", "startSync", "completed", "completeSync", "cancelled"}

\* What holds while an undisturbed call is at step s.
Along(s) ==
  /\ s = "apply" => award.status = "AWARDED"
  /\ s = "assigned" => award.status \in {"AWARDED", "ASSIGNED"}
  /\ s \in {"start", "started", "startSync", "complete", "completed"} => ~ trip.completed /\ ~ trip.cancelled
  /\ s \in {"started", "startSync"} => award.status = "IN_PROGRESS"
  /\ s \in {"startSync", "complete", "completed", "completeSync"} => trip.started
  /\ s \in {"completed", "completeSync"} => award.status = "COMPLETED"
  /\ s = "completeSync" => trip.completed /\ ~ trip.cancelled
  /\ s \in {"cancel", "cancelBare"} => award.status \notin {"IN_PROGRESS", "COMPLETED"}
  /\ s = "cancelBare" => trip.link = 0
  /\ s = "cancelled" => award.status = "CANCELLED" /\ ~ trip.completed
  /\ s = "abort" => award.status # "COMPLETED"

\* At most one call is on the trip.
Alone == \A c, d \in Callers : call[c].step \in Busy /\ call[d].step \in Busy => c = d

Undisturbed ==
  /\ Alone
  /\ award.quote = 0 => ~ trip.started /\ ~ trip.completed /\ ~ trip.cancelled
  /\ \A c \in Callers : Along(call[c].step)
  /\ (\A c \in Callers : call[c].step \notin Mid) => Agreement

Quiet == ~ tangled => Undisturbed

\* Steps that leave the records alone, and begin nothing on the trip.
LEMMA QuietFrame ==
  ASSUME Quiet, tangled => tangled', award' = award, trip' = trip, schedule' = schedule,
         \A c \in Callers : call'[c].step = call[c].step \/ call'[c].step \notin Busy,
         \A c \in Callers : call[c].step \in Mid => call'[c].step = call[c].step \/ tangled'
  PROVE  Quiet'
<1>1. SUFFICES ASSUME ~ tangled' PROVE Undisturbed'
  BY DEF Quiet
<1>2. Undisturbed
  BY <1>1 DEF Quiet
<1>3. Alone'
  BY <1>2 DEF Undisturbed, Alone
<1>4. \A c \in Callers : Along(call[c].step)'
  BY <1>2 DEF Undisturbed, Along, Busy, TripSteps
<1>5. (\A c \in Callers : call'[c].step \notin Mid) => Agreement'
  BY <1>1, <1>2 DEF Undisturbed, Agreement
<1>6. QED
  BY <1>2, <1>3, <1>4, <1>5 DEF Undisturbed

\* The step of the one call that is on the trip.
LEMMA QuietAlone ==
  ASSUME NEW c \in Callers,
         \A d \in Callers \ {c} : call'[d] = call[d] /\ call[d].step \notin Busy,
         award'.quote # 0, Along(call[c].step)', call'[c].step \in Mid \/ Agreement'
  PROVE  Undisturbed'
<1>1. \A d \in Callers \ {c} : call'[d].step \notin Busy
  OBVIOUS
<1>2. Alone'
  BY <1>1 DEF Alone
<1>3. \A d \in Callers : Along(call[d].step)'
  BY <1>1 DEF Along, Busy, TripSteps
<1>4. QED
  BY <1>2, <1>3 DEF Undisturbed

LEMMA QuietTrip ==
  ASSUME Shape, Quiet, NEW c \in Callers, TripStep(c)
  PROVE  Quiet'
<1>1. /\ call \in [Callers -> Calls] /\ trip \in Trips /\ award \in Awards /\ call[c] \in Calls
      /\ award.quote # 0
  BY AwardedLemma DEF Shape, TypeOK
<1>2. SUFFICES ASSUME ~ tangled' PROVE Undisturbed'
  BY DEF Quiet
<1>3. Undisturbed
  BY <1>2 DEF Quiet, TripStep, Assign, MarkAssigned, BeginMilestone, BeginGeofence, RecordReached,
     AwardStarted, RecordStarted, AwardCompleted, RecordCompleted, SyncSchedule, BeginCancel,
     CancelAward, CancelTrip, BeginAbort, AbortTrip, BeginOnTrip, noted
<1>4. \A d \in Callers \ {c} : call'[d] = call[d] /\ call[d].step \notin Busy
  <2>1. \A d \in Callers \ {c} : call'[d] = call[d]
    BY <1>1, TripCalls DEF GoTo
  <2>2. CASE call[c].step \in Busy
    BY <1>3, <2>1, <2>2 DEF Undisturbed, Alone
  <2>3. CASE call[c].step \notin Busy
    <3>1. ~ OtherAt(c, TripSteps \cup {"award", "apply"})
      BY <1>2, <2>3 DEF TripStep, Assign, MarkAssigned, BeginMilestone, BeginGeofence, RecordReached,
         AwardStarted, RecordStarted, AwardCompleted, RecordCompleted, SyncSchedule, BeginCancel,
         CancelAward, CancelTrip, BeginAbort, AbortTrip, BeginOnTrip, Step, Busy, TripSteps
    <3>2. QED
      BY <2>1, <3>1 DEF OtherAt, Busy
  <2>4. QED
    BY <2>2, <2>3
<1>5. award'.quote # 0
  BY <1>1, TripWrites
<1>6. Along(call[c].step)
  BY <1>3 DEF Undisturbed
<1>7. call[c].step \in Mid \/ Agreement
  BY <1>3, <1>4 DEF Undisturbed, Mid, Busy, TripSteps
<1>8. Along(call[c].step)' /\ (call'[c].step \in Mid \/ Agreement')
  <2>1. CASE Assign(c)
    <3>1. award.status \in {"AWARDED", "ASSIGNED"} /\ award' = award /\ schedule' = schedule
      BY <1>2, <2>1 DEF Assign
    <3>2. /\ trip'.started = trip.started /\ trip'.completed = trip.completed
          /\ trip'.cancelled = trip.cancelled
      BY <1>1, <2>1 DEF Assign, NewLink, Trips
    <3>3. call[c].step = "idle" /\ call'[c].step = "assigned"
      BY <1>1, <2>1 DEF Assign, IsIdle, GoTo, Calls
    <3>4. QED
      BY <1>7, <3>1, <3>2, <3>3 DEF Along, Agreement, Mid
  <2>2. CASE MarkAssigned(c)
    <3>1. award'.status = "ASSIGNED" /\ trip' = trip /\ schedule' = schedule
      BY <1>1, <2>2 DEF MarkAssigned, Awards, carriage
    <3>2. call[c].step = "assigned" /\ call'[c].step = "idle"
      BY <1>1, <2>2 DEF MarkAssigned, Step, Return, Idle
    <3>3. QED
      BY <1>6, <1>7, <3>1, <3>2 DEF Along, Agreement, Mid
  <2>3. CASE BeginMilestone(c)
    <3>1. award' = award /\ trip' = trip /\ schedule' = schedule
      BY <2>3 DEF BeginMilestone, carriage
    <3>2. ~ trip.completed /\ ~ trip.cancelled /\ call[c].step = "idle"
      BY <2>3 DEF BeginMilestone, Finalized, BeginOnTrip, IsIdle
    <3>3. call'[c].step \in {"reach", "start"} \/ (call'[c].step = "complete" /\ trip.started)
      BY <1>1, <2>3 DEF BeginMilestone, BeginOnTrip, GoTo, Calls
    <3>4. QED
      BY <1>7, <3>1, <3>2, <3>3 DEF Along, Agreement, Mid
  <2>4. CASE BeginGeofence(c)
    <3>1. award' = award /\ trip' = trip /\ schedule' = schedule
      BY <2>4 DEF BeginGeofence, carriage
    <3>2. call[c].step = "idle" /\ call'[c].step = "geofence"
      BY <1>1, <2>4 DEF BeginGeofence, BeginOnTrip, IsIdle, GoTo, Calls
    <3>3. QED
      BY <1>7, <3>1, <3>2 DEF Along, Agreement, Mid
  <2>5. CASE RecordReached(c)
    <3>1. award' = award /\ schedule' = schedule
      BY <2>5 DEF RecordReached
    <3>2. /\ trip'.started = trip.started /\ trip'.completed = trip.completed
          /\ trip'.cancelled = trip.cancelled /\ trip'.link = trip.link
      BY <1>1, <2>5 DEF RecordReached, Trips
    <3>3. call[c].step \in {"reach", "geofence"} /\ call'[c].step = "idle"
      BY <1>1, <2>5 DEF RecordReached, Return, Idle
    <3>4. QED
      BY <1>7, <3>1, <3>2, <3>3 DEF Along, Agreement, Mid
  <2>6. CASE AwardStarted(c)
    <3>1. award'.status = "IN_PROGRESS" /\ trip' = trip
      BY <1>1, <2>6 DEF AwardStarted, Awards, carriage
    <3>2. call[c].step = "start" /\ call'[c].step = "started"
      BY <1>1, <2>6 DEF AwardStarted, Step, GoTo, Calls
    <3>3. QED
      BY <1>6, <3>1, <3>2 DEF Along, Mid
  <2>7. CASE RecordStarted(c)
    <3>1. award' = award
      BY <2>7 DEF RecordStarted
    <3>2. /\ trip'.started /\ trip'.completed = trip.completed /\ trip'.cancelled = trip.cancelled
      BY <1>1, <2>7 DEF RecordStarted, Trips
    <3>3. call[c].step = "started" /\ call'[c].step = "startSync"
      BY <1>1, <2>7 DEF RecordStarted, Step, GoTo, Calls
    <3>4. QED
      BY <1>6, <3>1, <3>2, <3>3 DEF Along, Mid
  <2>8. CASE AwardCompleted(c)
    <3>1. award'.status = "COMPLETED" /\ trip' = trip
      BY <1>1, <2>8 DEF AwardCompleted, Awards, carriage
    <3>2. call[c].step = "complete" /\ call'[c].step = "completed"
      BY <1>1, <2>8 DEF AwardCompleted, Step, GoTo, Calls
    <3>3. QED
      BY <1>6, <3>1, <3>2 DEF Along, Mid
  <2>9. CASE RecordCompleted(c)
    <3>1. award' = award
      BY <2>9 DEF RecordCompleted
    <3>2. /\ trip'.completed /\ trip'.started = trip.started /\ trip'.cancelled = trip.cancelled
      BY <1>1, <2>9 DEF RecordCompleted, Trips
    <3>3. call[c].step = "completed" /\ call'[c].step = "completeSync"
      BY <1>1, <2>9 DEF RecordCompleted, Step, GoTo, Calls
    <3>4. QED
      BY <1>6, <3>1, <3>2, <3>3 DEF Along, Mid
  <2>10. CASE SyncSchedule(c)
    <3>1. award' = award /\ trip' = trip
      BY <2>10 DEF SyncSchedule
    <3>2. /\ call'[c].step = "idle"
          /\ \/ call[c].step = "startSync" /\ schedule' = "IN_PROGRESS"
             \/ call[c].step = "completeSync" /\ schedule' = "COMPLETED"
      BY <1>1, <2>10 DEF SyncSchedule, Step, Return, Idle
    <3>3. QED
      BY <1>6, <3>1, <3>2 DEF Along, Agreement
  <2>11. CASE BeginCancel(c)
    <3>1. /\ award' = award /\ trip' = trip /\ schedule' = schedule
          /\ award.status \notin {"IN_PROGRESS", "COMPLETED"}
      BY <2>11 DEF BeginCancel, carriage
    <3>2. /\ call[c].step = "idle"
          /\ call'[c].step = IF trip.link > 0 THEN "cancel" ELSE "cancelBare"
      BY <1>1, <2>11 DEF BeginCancel, BeginOnTrip, IsIdle, GoTo, Calls
    <3>3. trip.link > 0 \/ trip.link = 0
      BY <1>1, AwardsAssumption DEF Trips, AwardsAssumption
    <3>4. QED
      BY <1>7, <3>1, <3>2, <3>3 DEF Along, Agreement, Mid
  <2>12. CASE CancelAward(c)
    <3>1. award'.status = "CANCELLED" /\ trip' = trip /\ schedule' = schedule
      BY <1>1, <2>12 DEF CancelAward, Awards, carriage
    <3>2. \/ call[c].step = "cancel" /\ call'[c].step = "cancelled"
          \/ call[c].step = "cancelBare" /\ call'[c].step = "idle"
      BY <1>1, <2>12 DEF CancelAward, Step, GoTo, Calls, Idle
    <3>3. QED
      BY <1>6, <1>7, <3>1, <3>2 DEF Along, Agreement, Mid
  <2>13. CASE CancelTrip(c)
    <3>1. award' = award /\ schedule' = schedule
      BY <2>13 DEF CancelTrip
    <3>2. /\ trip'.cancelled /\ trip'.started = trip.started /\ trip'.completed = trip.completed
      BY <1>1, <2>13 DEF CancelTrip, Trips
    <3>3. call[c].step = "cancelled" /\ call'[c].step = "idle"
      BY <1>1, <2>13 DEF CancelTrip, Step, Return, Idle
    <3>4. QED
      BY <1>6, <3>1, <3>2, <3>3 DEF Along, Agreement
  <2>14. CASE BeginAbort(c)
    <3>1. /\ award' = award /\ trip' = trip /\ schedule' = schedule
          /\ award.status # "COMPLETED"
      BY <2>14 DEF BeginAbort, carriage
    <3>2. call[c].step = "idle" /\ call'[c].step = "abort"
      BY <1>1, <2>14 DEF BeginAbort, BeginOnTrip, IsIdle, GoTo, Calls
    <3>3. QED
      BY <1>7, <3>1, <3>2 DEF Along, Agreement, Mid
  <2>15. CASE AbortTrip(c)
    <3>1. award'.status = "ABORTED" /\ trip' = trip /\ schedule' = schedule
      BY <1>1, <2>15 DEF AbortTrip, Awards, carriage
    <3>2. call[c].step = "abort" /\ call'[c].step = "idle"
      BY <1>1, <2>15 DEF AbortTrip, Step, Idle
    <3>3. QED
      BY <1>6, <1>7, <3>1, <3>2 DEF Along, Agreement, Mid
  <2>16. QED
    BY <2>1, <2>2, <2>3, <2>4, <2>5, <2>6, <2>7, <2>8, <2>9, <2>10, <2>11, <2>12, <2>13, <2>14, <2>15
       DEF TripStep
<1>9. QED
  BY <1>4, <1>5, <1>8, QuietAlone

\* The award itself, and the note on the trip schedule that may follow it.
LEMMA QuietAward ==
  ASSUME Shape, Quiet, NEW c \in Callers, CommitAward(c) \/ ApplyAward(c)
  PROVE  Quiet'
<1>1. /\ call \in [Callers -> Calls] /\ trip \in Trips /\ award \in Awards
      /\ \A d \in Callers : Sound(call[d])
  BY DEF Shape, TypeOK
<1>2. SUFFICES ASSUME ~ tangled' PROVE Undisturbed'
  BY DEF Quiet
<1>3. Undisturbed /\ trip' = trip
  BY <1>2 DEF Quiet, CommitAward, ApplyAward, carriage
<1>4. CASE CommitAward(c)
  <2>1. award.quote = 0 /\ award'.status = "AWARDED"
    BY <1>4 DEF CommitAward, NoAwardYet
  <2>2. award'.quote # 0
    BY <1>1, <1>4 DEF CommitAward, Step, Sound
  <2>3. \A d \in Callers \ {c} : call'[d] = call[d] /\ call[d].step \notin Busy
    BY <1>1, <1>4, <2>1 DEF CommitAward, Return, GoTo, Sound, Busy
  <2>4. call'[c].step \in {"idle", "apply"}
    BY <1>1, <1>4 DEF CommitAward, Return, GoTo, Idle, Calls
  <2>5. Agreement'
    BY <1>3, <2>1 DEF Undisturbed, Agreement
  <2>6. Along(call[c].step)'
    BY <2>1, <2>4 DEF Along
  <2>7. QED
    BY <2>2, <2>3, <2>5, <2>6, QuietAlone
<1>5. CASE ApplyAward(c)
  <2>1. award' = award /\ call[c].step = "apply" /\ call'[c].step = "idle"
    BY <1>1, <1>5 DEF ApplyAward, Step, Return, Idle
  <2>2. award.quote # 0 /\ award.status = "AWARDED"
    BY <1>1, <1>3, <2>1 DEF Sound, Undisturbed, Along
  <2>3. \A d \in Callers \ {c} : call'[d] = call[d] /\ call[d].step \notin Busy
    BY <1>1, <1>3, <1>5, <2>1 DEF ApplyAward, Return, Undisturbed, Alone, Busy
  <2>4. Agreement
    BY <1>3, <2>1, <2>3 DEF Undisturbed, Mid, Busy, TripSteps
  <2>5. Agreement'
    BY <1>3, <2>1, <2>2, <2>4 DEF Agreement
  <2>6. Along(call[c].step)'
    BY <2>1 DEF Along
  <2>7. QED
    BY <2>1, <2>2, <2>3, <2>5, <2>6, QuietAlone
<1>6. QED
  BY <1>4, <1>5

LEMMA QuietNext == Shape /\ Quiet /\ [Next]_vars => Quiet'
<1>1. SUFFICES ASSUME Shape, Quiet, [Next]_vars PROVE Quiet'
  OBVIOUS
<1>2. /\ call \in [Callers -> Calls] /\ trip \in Trips /\ award \in Awards
      /\ \A c \in Callers : Sound(call[c])
  BY <1>1 DEF Shape, TypeOK
<1>3. ASSUME NEW c \in Callers, QuoteStep(c) \/ AwardFails(c) \/ \E q \in QuoteIds : BeginAward(c, q)
      PROVE  Quiet'
  <2>1. award' = award /\ trip' = trip /\ schedule' = schedule /\ tangled' = tangled
    BY <1>3 DEF QuoteStep, BeginQuote, ReadRequest, FindPrevious, Supersede, CreateQuote, MarkInvite,
       MarkRequest, BeginWithdraw, Withdraw, AwardFails, BeginAward, carriage, noted
  <2>2. \A d \in Callers \ {c} : call'[d] = call[d]
    BY <1>2, <1>3 DEF QuoteStep, BeginQuote, ReadRequest, FindPrevious, Supersede, CreateQuote, MarkInvite,
       MarkRequest, BeginWithdraw, Withdraw, AwardFails, BeginAward, Return, GoTo
  <2>3. call[c].step \notin Mid
    BY <1>3 DEF QuoteStep, BeginQuote, ReadRequest, FindPrevious, Supersede, CreateQuote, MarkInvite,
       MarkRequest, BeginWithdraw, Withdraw, AwardFails, BeginAward, IsIdle, Step, Mid
  <2>4. call'[c].step \notin Busy
    <3>1. \E s \in QuoteSteps \cup {"award", "idle"} : call'[c].step = s
      <4>1. ASSUME \/ \E p \in Partners : BeginQuote(c, p)
                   \/ \E q \in QuoteIds : BeginWithdraw(c, q) \/ BeginAward(c, q)
            PROVE  \E s \in {"eligible", "withdraw", "award"} : call'[c].step = s
        BY <1>2, <4>1 DEF BeginQuote, BeginWithdraw, BeginAward, Idle
      <4>2. ASSUME ReadRequest(c) \/ FindPrevious(c)
            PROVE  call'[c].step \in {"read", "found", "superseded"}
        BY <1>2, <4>2 DEF ReadRequest, FindPrevious, Calls
      <4>3. ASSUME Supersede(c) \/ CreateQuote(c) \/ MarkInvite(c)
            PROVE  call'[c].step \in {"superseded", "created", "invited"}
        BY <1>2, <4>3 DEF Supersede, CreateQuote, MarkInvite, GoTo, Calls
      <4>4. ASSUME MarkRequest(c) \/ Withdraw(c) \/ AwardFails(c)
            PROVE  call'[c].step = "idle"
        BY <1>2, <4>4 DEF MarkRequest, Withdraw, AwardFails, Return, Idle
      <4>5. QED
        BY <1>3, <4>1, <4>2, <4>3, <4>4 DEF QuoteStep, QuoteSteps
    <3>2. QED
      BY <3>1 DEF QuoteSteps, Busy, TripSteps
  <2>5. QED
    BY <1>1, <2>1, <2>2, <2>3, <2>4, QuietFrame
<1>4. ASSUME NEW c \in Callers, Fault(c)
      PROVE  Quiet'
  <2>1. /\ award' = award /\ trip' = trip /\ schedule' = schedule
        /\ tangled' = (tangled \/ call[c].step \in TripSteps)
        /\ call' = [call EXCEPT ![c] = Idle]
    BY <1>4 DEF Fault, Return, carriage
  <2>2. \A d \in Callers : call'[d].step = call[d].step \/ call'[d].step \notin Busy
    BY <1>2, <2>1 DEF Idle, Busy, TripSteps
  <2>3. \A d \in Callers : call[d].step \in Mid => call'[d].step = call[d].step \/ tangled'
    BY <1>2, <2>1 DEF Mid, TripSteps
  <2>4. QED
    BY <1>1, <2>1, <2>2, <2>3, QuietFrame
<1>5. CASE \/ \E invited \in SUBSET Partners : CreateRequest(invited)
           \/ \E p \in Partners : DeclineRequest(p)
           \/ UNCHANGED vars
  <2>1. UNCHANGED <<award, trip, schedule, call, tangled>>
    BY <1>5 DEF CreateRequest, DeclineRequest, vars, carriage, noted
  <2>2. QED
    BY <1>1, <2>1, QuietFrame
<1>6. ASSUME NEW p \in Partners, ContractDirectAward(p)
      PROVE  Quiet'
  <2>1. /\ UNCHANGED <<trip, schedule, call, tangled>>
        /\ award'.status = "AWARDED" /\ award'.quote = 1
    BY <1>6 DEF ContractDirectAward, carriage, noted
  <2>2. award.quote = 0 /\ \A c \in Callers : call[c].step = "idle"
    BY <1>1, <1>6 DEF ContractDirectAward, Shape, Started
  <2>3. QED
    BY <1>1, <2>1, <2>2 DEF Quiet, Undisturbed, Alone, Along, Agreement
<1>7. CASE ReplaceResource
  <2>1. /\ UNCHANGED <<award, schedule, call, tangled>> /\ trip.link > 0
        /\ trip'.started = trip.started /\ trip'.completed = trip.completed /\ trip'.cancelled = trip.cancelled
    BY <1>2, <1>7 DEF ReplaceResource, NewLink, Trips, noted
  <2>2. Undisturbed => Undisturbed'
    <3>1. SUFFICES ASSUME Undisturbed PROVE Undisturbed'
      OBVIOUS
    <3>2. \A c \in Callers : Along(call[c].step)'
      BY <2>1, <3>1 DEF Undisturbed, Along
    <3>3. Agreement => Agreement'
      BY <2>1 DEF Agreement
    <3>4. QED
      BY <2>1, <3>1, <3>2, <3>3 DEF Undisturbed, Alone
  <2>3. QED
    BY <1>1, <2>1, <2>2 DEF Quiet
<1>8. QED
  BY <1>1, <1>3, <1>4, <1>5, <1>6, <1>7, QuietTrip, QuietAward DEF Next, AwardStep

\* The award, the assignment and the native schedule agree at rest: updateDriver-
\* Milestone, cancelAward, abortTrip and the schedule adapter write them one by
\* one, and leave them in step unless calls overlapped or died.
THEOREM RecordsInStep == Spec => []RecordsAgree
<1>1. Init => Quiet
  BY DEF Init, Quiet, Undisturbed, Alone, Along, Agreement, NoTrip, Idle, Busy, TripSteps
<1>2. Quiet => RecordsAgree
  BY DEF Quiet, Undisturbed, RecordsAgree, AtRest, Mid, TripSteps
<1>3. QED
  BY <1>1, <1>2, QuietNext, ShapeInvariant, PTL DEF Spec

=============================================================================
