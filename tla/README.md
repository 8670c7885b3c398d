# Fleet360: models, checks and proofs

Fleet360 is a multi-tenant fleet platform: a Next.js application over
PostgreSQL (Prisma), a Go service for logistics, and mobile shells. Most of its
code is screens, forms and CRUD routes. What is hard to get right is the part
that keeps promises across transactions, processes and people:

* jobs that several replicas fire and one must run;
* events that must reach every consumer, through crashes and retries;
* dunning emails that must not be sent twice, nor to a customer who has paid;
* approvals that several people decide while the record moves under them;
* refunds that must never exceed what was collected;
* an outsourced trip that partners quote for, win and carry out, each through
  its own portal;
* a container that drivers, dispatchers, the consignee and a worker move, and
  whose empty must be returned once.

This directory holds TLA+ modules of that part, TLC configurations that check
them on small instances, and TLAPS proofs of what matters most for every
instance. Paths below are relative to the repository root; `PROJECT.json` maps
every definition to its lines.

Contents: 1 inventory, 2 modules and code, 3 runs and bounds, 4 fairness,
5 proofs, 6 where the code and its documents disagree, 7 assumptions and what
is not modelled, 8 plan, 9 how to run.


## 1. Inventory

### 1.1 Modelled components

**Job-run claims and the scheduler** (`src/lib/jobs/job-runs.ts`,
`scheduler.ts`, `occurrence.ts`, `src/app/api/jobs/run/route.ts`).
State: the table `job_runs` (one row per job, scope and occurrence, with owner,
lease and status), and in each web replica the minute its scheduler last looked
at. Operations: the 15-second scheduler tick posts a request for every due job;
the route claims a run (close expired leases, refuse if one is RUNNING, insert
on a unique key), runs the handler and records the outcome; finished history
older than 30 days is trimmed. Hard: every replica runs the scheduler, a reboot
repeats a minute, requests are lost or late, and a handler may outlive its
lease. Correct when
one row per job is RUNNING, an occurrence's handler starts once, and an outcome
is final.

**Event outbox, publisher, inbox and replay** (`src/lib/jobs/outbox-publisher.ts`,
`src/events/consumer-base.ts`, `event-bus.ts`, `registry.ts`, the cron route and
the admin replay route). State: `event_outbox` (claim, retry count, failure,
publication) and `event_consumer_inbox` (one row per event and consumer).
Operations: a business transaction records an event; a publisher run claims a
batch, hands each event to its consumers side by side, and acknowledges, counts
a failure or parks; a consumer claims its inbox row, handles the event in or out
of a transaction and marks it; an operator replays parked rows. Hard: publisher
runs overlap (the cron route takes no job claim), claims expire while their
owner is at work, and late marks arrive after a successor's. Correct when an
event is acknowledged only after every consumer's effect, a transactional effect
happens once, and nothing claimed is lost.

**Dunning notice dispatch** (`src/lib/finance/dunning-dispatch.ts`,
`src/events/consumers/dunning-notice.consumer.ts`,
`src/lib/jobs/dunning-reconciliation.ts`, the resolve route). State: a notice
and its attempts, each with a token, an outcome and a resolution. Operations:
the consumer of `leasing.dunning.notice_queued` reads the gate, claims the
attempt, rechecks the invoice (without locking it), commits the evidence and
counts the send, calls the mail server and records the outcome; a reconciliation job recovers stale,
due, failed and deferred attempts; a person resolves what is unknown. Hard: mail
cannot be rolled back, so the protocol must never repeat a send it is not sure
about, while at-least-once events, crashes and pauses keep asking for one; and
payments and sweeps commit between the recheck and the send.

**Collection stages** (`src/lib/jobs/dunning-sweep.ts`,
`src/lib/finance/dunning-transition.ts`, `dunning-engine.ts`, the legal-referral
approval route, the payment, void, dispute and suppression routes). State: an
invoice's status, dunning stage and collection cycle, its notices by cycle and
stage, referral approvals, review alerts, suppressions. Operations: a daily
sweep resolves and writes the transition of every invoice; an approval writes
the referral. Hard: both decide on rows read before they take the invoice's
lock, and do not read them again; payments, voids and disputes commit in
between. Correct when a legal referral is sent only in a cycle that earned it, an
accepted notice is never queued again, and a paid invoice comes to rest.

**Workflow approvals, with the deposit refund** (`src/lib/workflow-db.ts`,
`src/lib/workflow/approvals.ts`, `levels.ts`, `subjects.ts`,
`src/app/api/finance/deposits/route.ts`, `src/lib/finance/security-deposit.ts`, the
contract closure route). State: an approval with its levels, the decisions heard, the deposit's refund
request and reserved and refunded amounts. Operations: start (reuse a running
approval or insert one), decide, advance, complete and apply the outcome,
withdraw; edit the company's levels; request, record, execute and cancel a
refund; close the contract, which requests one whatever is in progress. Hard:
request and cancellation are three commits each, approvals are looked for and
then inserted, levels are edited while approvals run, and a closure overwrites
the request it finds. Correct
when an approval passes level by level, its outcome is applied once, and refunds
stay within the deposit.

**Partner exchange** (`src/lib/exchange/outsource-engine.ts`, `partner-auth.ts`,
`bus-ops-adapter.ts`, `telematics-service.ts`, the quotes, outsource and
partner-driver routes). State: an outsource request, its partners' quotes and
invitations, the award, the vehicle assignment with its driver link, and the
schedule of the native trip. Operations: create or award directly, quote,
revise, withdraw, decline, award, assign, replace, a driver's milestones (from
the link or a geofence), cancel, abort. Hard: every operation checks what it read
before its transaction, under no lock, and a milestone is three commits. Correct
when an award settles the sourcing and is final, a partner has one live quote, an
ended trip stays ended, and award, assignment and schedule agree.

**Container drayage** (`src/lib/logistics/drayage-domain.ts`, the driver's and the
dispatcher's routes). State: a container's delivery job (L1) with its place,
empty-time commitment (ETC) and tractor, the return of the empty (L2), the
trailer, the status log. Operations: status updates by driver and dispatcher,
assignment, the tractor swap, the ETC worker, the loading of the workspace
(which does the worker's work once more), the consignee's "empty ready", and the
activation of the return inside any of them. Hard: each transaction decides on a
job it read without locking and updates it by id. Correct when a container is
returned once, what was closed or assigned is not undone by anyone who knew of
it, and the return's trailer is not given away.

### 1.2 How they interact

```
 scheduler (every replica) --POST /api/jobs/run--> claimRun           JobRuns
    |                                                |
    |       dunning-sweep job ------------------- collection stages   CollectionStages
    |       dunning-reconciliation job --+           | notice + attempt 1 + event,
    |       outbox-publisher job         |           | one transaction
    |            |                       |           v
 cron route -----+--> claimRows -------- | --> event_outbox           EventDelivery
                 (no job claim)          |           | at least once
                                         v           v
                                      attempts <-- consumer --> mail  DunningDispatch
                                         ^
                            people: resolve, approve, pay, void, dispute

 deposits route -> startApproval -> levels -> decisions -> apply      RefundApprovals

 partners: quote -> dispatcher: award -> partner: assign -> driver    PartnerAwards
                     |                                |
                     +-- native trip (bus-ops) <------+ milestones

 driver, dispatcher, consignee --> L1 --activate--> L2 (return)       DrayageJobs
 ETC worker, workspace load -------^                 trailer
```

The modules do not share variables: what one promises the next is an
assumption there that the former's runs check.
`DunningDispatch` takes from `EventDelivery` that an event may be delivered
repeatedly, by several workers at once, until it is acknowledged (`queue`,
`Deliver`); it does not rely on the inbox to keep two workers apart, because the
inbox does not (see 6.2).
`CollectionStages` takes from `DunningDispatch` what the stages see of a notice:
PENDING, claimed or suppressed by the recheck, sent or failed, made PENDING
again by the reconciliation. `DunningDispatch` sees of the stages whether the
invoice has moved on (`Settle`, `Supersede`). That an action of one is a step the other
allows is by construction of the two abstractions, not by a composed run.

### 1.3 Components left out

| component | state and operations | why, and what would be worth saying |
|---|---|---|
| approval escalation, decision links | overdue levels, links without a session | on top of RefundApprovals, planned: a level is escalated once, a link decides once |
| partner exchange, the rest | tiered sourcing, marketplace deadlines, exceptions, invoices, settlements, disputes | `PartnerAwards` has one trip up to its end; what follows is sums and single-row status tables |
| drayage, the rest | allowances, receipts, payouts, street turns, bogie pairs, port tokens, inspections, chat | `DrayageJobs` has one container; see 6.2 for what was seen of the allowances |
| driver app offline queue | a persistent queue, send then dequeue | planned: order, an item the server always refuses, resending after the last attempt |
| lease invoices, deposit applications, returns | the money behind `owed` | planned: ledgers agree with balances, reversals give back once |
| finance journal and documents | double entries in one transaction | sums of decimals; no interleaving of its own |
| rental bookings, trips | status tables consulted by routes | planned: two routes move one booking |
| dispatch engine, trip merging | scores over floating-point distances | proposals only; confirmed elsewhere |
| in-process resilience helpers | breaker, limiter, revocation list, caches | the breaker is planned: one probe in half-open state |
| tenant isolation, data access | row-level security | enforced by PostgreSQL; every modelled transaction is one tenant's |
| other scheduled jobs | handlers | the abstract work between a claim and its outcome in JobRuns |
| realtime hub, tracking, telematics | best-effort sockets | the code promises neither order nor delivery |
| service tickets, alerts, SLA timers | rows read by people | not planned |
| AI agents | model calls behind a gate | results not determined by the code |
| Go backend | a service of its own | not planned |
| permissions, identity | guards per request | no state of their own |
| UI, PDF, email templates, i18n, mobile shells | presentation | out of scope |


## 2. Modules and the code they model

| module | role |
|---|---|
| `JobRuns` | the claim protocol, scheduler and replicas; `MCJobRuns` instantiates it |
| `JobRunsProofs` | its theorems |
| `DeliveryContract` | abstract: what outbox and inbox promise publishers and consumers |
| `EventDelivery` | outbox, publisher runs, inbox, replay; `Implements` is the refinement of the contract; `MCEventDelivery` |
| `EventProofs` | its theorems, the refinement among them |
| `DunningDispatch` | notices, attempts, workers, reconciliation, resolution; `MCDunning` |
| `DunningProofs`, `DunningNoticeProofs` | its theorems |
| `CollectionStages` | one invoice: sweep, approval, payments; `MCStages` |
| `StagesProofs` | its theorems |
| `RefundApprovals` | one deposit, its refund requests and their approvals; `MCRefunds` |
| `RefundProofs` | its theorems |
| `PartnerAwards` | one outsourced trip, from the request to its end; `MCPartnerAwards` |
| `PartnerProofs` | its theorems |
| `DrayageJobs` | one container's delivery and return; `MCDrayage` |
| `DrayageProofs` | its theorems |

A definition with "Mutant of X" in its comment is a plausible bug of X. It is
used by no specification; substituted for X it makes the property named beside
it in `PROJECT.json` ("mutants") fail, which shows that the property depends on
that part of the code.

### 2.1 JobRuns

One step of the clock is one minute, the scheduler's unit. `row[j][o]` is the
`job_runs` row of a job and an occurrence (a scheduled minute, or an ad-hoc
run); `NONE` means no row. `claimRun` is one transaction under the pair's
advisory lock, hence one action, `Claim`: `CloseExpired` is its first UPDATE,
`Claimable` its check for a RUNNING row and the insert's ON CONFLICT. `Return`
ends the handler whenever it likes: `maxDuration` is honoured by a serverless
host only, and nothing in the process stops a handler. `Finish` is `finishRun`
with its guard on id, owner and RUNNING (`Mine`) and the occasional trim;
`FinishLost` is its error, which is caught. `Crash` stops a replica and boots
it under a new owner id: `fired` forgets the minute. `started` is a history
variable.

### 2.2 DeliveryContract and EventDelivery

`DeliveryContract` has two variables: the stage of each event (absent, queued,
acknowledged, parked) and the consumers whose effect has happened. An event is
acknowledged only when every consumer of its type is done, and one that nobody
handles only if it is recorded as such by design (`EVENTS_WITHOUT_CONSUMERS`).

`EventDelivery` has the two tables and the publisher runs. `ClaimRows` is the
claiming statement (`FOR UPDATE SKIP LOCKED` in one statement); a run then works
through its batch, oldest first, and every consumer of the current event has a
task (`Promise.allSettled`). `InboxClaim` is the INSERT ... ON CONFLICT of
`process()`, with its three results: claimed, PROCESSED or busy, or an error.
`HandleInTransaction` commits writes and mark together; `HandleOnItsOwn` and
`MarkProcessed` are two commits. `RecordThrow` writes FAILED with no condition
on the row, as the code does. `MarkPublished`, `MarkFailed`, `ParkUnrouted` and
`AckRecordOnly` write only under the run's own claim token (`Owns`).
`Crash` ends a run anywhere. Ages replace clock values and stop one past the
threshold they are compared with, so the state space is finite without a bound
on time. `effects`, `threw` and `shared` are history variables.

The refinement mapping `Contract` reads the stage off the outbox row and `done`
off `effects`.

### 2.3 DunningDispatch

A token is an attempt's number in its notice. `Deliver` reads the gate, as
`handle()` does before anything else; the worker then either defers
(`RecordDeferred`) or runs the claim transaction. It ends at once with
`ClaimStale` or `ClaimSuppressed` (the recheck says no), or goes on after
`Recheck`, which reads the invoice without a lock, to one of three ends:
`ClaimDeferred` (no staging override), `ClaimCommitted` (evidence and counted send
commit), `ClaimRefused` (one of the two guarded UPDATEs finds no row). In between
it holds the notice's row (`Unlocked` is a guard of the other transactions that
write the row while it is PENDING), and not the invoice's. `SendEmail` and
`RecordSend` are outside it. `RecordOutcome` is `recordOutcome` with its guard and its mirror on
the notice; `ReserveNextAttempt` is `reserveNextAttempt`.
`RecoverStale`, `EnqueueDueAttempt`, `SelectFailed` with `RequeueFailed` and
`RecoverDeferred` are the four sub-jobs of the reconciliation; the third selects
notices and retries them later, whatever they are by then. `Resolve` is the route,
`Supersede` what the sweep, an approval or a finance payment does to a notice,
`Settle` a payment or a deposit that settles the lease balance and touches no
notice. `sends`, `late` and `accepted` are history variables: calls of
`sendEmail`, those made after the invoice had moved on, and emails the mail server
took.

### 2.4 CollectionStages

`invoice`, `owed` and `age` are what `resolveDunningTransition` looks at
(`Resolve`, case by case in the code's order). The sweep is three steps:
`SweepRead` (the tenant's `findMany`), `SweepResolve` (the balance and the
queries of the invoice's turn), and one action per write. The approval is two:
`ApproveRead` and `ApproveWrite`. Everything else may commit between them.
`EditStatus` is PATCH of the invoice, which writes any status, PAID among them.
`SweepDuplicate` is the unique-key error: it is caught, but PostgreSQL has
aborted the tenant's transaction.

### 2.5 RefundApprovals

`deposit` holds the refund request, the reservation and what was refunded;
`steps` the company's levels by order; `approval[r]` the approval that request
`r` started, with the orders copied at its start (a `WorkflowStepInstance` keeps
its own `stepOrder`), the level's status, the people it was sent to and what
they said. A request is `Request`, `Load`, `Check`, `Insert`: the deposit's
commit, the read of the record, the look for a running approval, the insert.
`CloseContract` starts the same way and asks for what is not reserved, without
looking at the refund in progress (`requestRefund`, that is `Requested`, has no
such check; `startRefundRequest`, that is `Request`, has). `overwritten` counts the
reservations it left behind.
A decision is `Look` and `Decide`; `Decide` is the whole transaction of
`advanceWorkflow`: record the decision, settle the level (`LevelOutcome`), and
reject, wait, or open the next level, passing through notification levels
(`Paths`, `Opened`), complete, and apply to the deposit (`Write`, `Applied`).
`Cancel`, `Withdraw` and `Clear` are the three commits of a cancellation.
`Settle`, `Record` and `Execute` read `approvalInProgress` before their
transaction, as the route does. `Paths` is a set of sequences, not a recursion,
so that the module can be proved about.

### 2.6 PartnerAwards

A call is a record in `call[c]`: the step it has reached and what it read before
it (`step` names the next statement to commit). Every engine function starts
with its reads and checks (`BeginQuote`, `BeginAward`, `BeginWithdraw`,
`BeginMilestone`, `BeginCancel`, `BeginAbort`), and each of its commits is an
action: a submission is `ReadRequest`, `FindPrevious`, `Supersede`,
`CreateQuote`, `MarkInvite`, `MarkRequest`; an award is one transaction,
`CommitAward` (`AwardFails` when the unique key of `OutsourceAward` refuses it),
and then `ApplyAward` on the native trip; a milestone is the award
(`AwardStarted`, `AwardCompleted`), the assignment (`RecordReached`,
`RecordStarted`, `RecordCompleted`) and `SyncSchedule`. `Fault` ends a call
between two of its commits. `BeginGeofence` is the milestone that a GPS ping
records. History variables say what a property may not blame on the code's
sequential path: `doubled` (partners with two submissions at once, or one that
died), `crossed` (a quote was in flight when the award committed), `late` (calls
that were in flight when the trip ended), `tangled` (calls on the trip
overlapped, one died, or a trip past ASSIGNED was assigned).

### 2.7 DrayageJobs

Every operation is a transaction at READ COMMITTED that reads the job without a
lock and then updates it by id: two actions, `UpdateRead` and `UpdateWrite`,
`AssignRead` and `AssignWrite`, and so on. The write uses what the read saw; a
call that others have overtaken is `behind`. `UpdateRead` is the state machine of
`updateDrayageJobExecutionStatus`: the origin from the status log, the detach
aliases, the directional relabelling by placement and ETC, the return's
activation. `Unclaimed` is the conditional UPDATE that claims the activation; it
is re-evaluated on the row as it is, which is the only thing that makes the
return unique. `WorkerRead` and `SweepWrite` are the ETC worker, `LoadRead` the
same repairs in the loading of the workspace; `ActivateRead` and `ActivateWrite`
the activation by either, or by a dispatcher. The statuses between acceptance and
placement (stages 2 to 4) are one, `UNDER_WAY`; FCL and MT, import and export do
not differ in what is modelled; the fifteen-minute window before the ETC is a
choice (`soon`) while the ETC is ahead.


## 3. Runs and bounds

Every run is listed in `PROJECT.json`. "Violation" runs end in a counterexample
and are explained in section 6.

| run | asks | instance | distinct states |
|---|---|---|---|
| `job_runs` | one RUNNING row, one start per occurrence, what overlap needs, final outcomes | two replicas with a request slot each, one job due every second minute, clock to 3, one ad-hoc run; lease, history and delay of one minute | 1.92 M |
| `event_delivery` | who may work on an event when, what happens once, the contract, and that it settles | two publisher runs, one event, one transactional consumer, 2 retries, claims 1 and 2 minutes, a crash, a replay | 158 k |
| `event_mix` | the contract, for several events, consumers and kinds of event in one batch | one run, batches of 2 of three events, a transactional and a plain consumer, a replay | 96 k |
| `event_parked_busy` | violation | one run, one consumer, the code's own MAX_RETRIES 5, claims 5 and 10 minutes | |
| `dunning` | sends, counts, outcomes, what the customer may get | one notice, two workers, 3 attempts, cap 2, two pauses, a fault, a resolution | 2.12 M |
| `dunning_rest` | a notice comes to rest | the same, one pause, no resolution | 648 k |
| `stages` | referral gate, accepted notices, what blocks the sweep, a paid invoice comes to rest | one invoice, one approver, two cycles, two changes | 776 k |
| `stages_settled_sent` | violation | as `stages` | |
| `refunds` | refunds within the deposit, levels, someone to decide, one outcome | two requests of 1 or 2, either of which may be the closure, deposit of 2, two approvers and an administrator, three levels, one mishap; `ClosedWithoutMishap` | 1.73 M |
| `refund_amount` | violation | as `refunds`, no mishaps | |
| `partner_awards` | what an award settles, one live quote, an ended trip, three records in step | two partners, two calls at once, two quotes, two driver links, a failure; `OneQuoteBeforeTheTrip` | 1.58 M |
| `drayage` | one return, what a stale write may undo, the return's trailer | one container, two calls at once; `OvertakenOnce` | 374 k |

Deadlock is not checked in any run: every machine has a bound on time, changes
or attempts after which it may stop, and at rest each of these systems has
nothing to do. That nothing is stuck before it should be is what the liveness
properties say.

Why the bounds are enough:

* **JobRuns.** Two replicas with a slot each are needed for any race, and a
  third would repeat one of them (the claim is serialised). The clock reaches 3
  with a job due every second minute: two scheduled occurrences and an ad-hoc
  one, and time for a lease, and a history, of one minute to pass. Swapping the
  replicas with their slots is a symmetry: no definition tells them apart.
  The theorems say the same for every value of these constants.
* **EventDelivery.** Two runs, one crash, one replay and two retries reach an
  expired claim, a takeover, a late mark of the old owner, parking, replay and
  redelivery, each of them in combination with the others. Ages stop one past
  their threshold, so runs may stall for ever. `event_mix` has three events in
  batches of two: a batch with an event of two consumers, a recorded fact and
  an event nobody handles. Its claim time is 0, so a single run already meets
  its own expired claims.
* **DunningDispatch.** One notice: notices never meet, each transaction touches
  one. Two workers, three attempts and two pauses, a fault and a resolution
  reach every pair of a late writer with a recovery. Two sends allowed is the
  least at which the cap differs from the first send; the code's default is 3.
* **CollectionStages.** Two cycles are needed for anything to leak from one into
  another, two changes for a payment and a reversal, or a dispute and its end,
  between a read and a write; the theorems hold for any number of either. One
  approver suffices: two approvals meet only at the
  unique key, which the second sees as already approved.
* **RefundApprovals.** Two requests, so that one can be cancelled while its
  approval runs and another started; amounts 1 and 2 of a deposit of 2, so that
  both cannot be paid in full; three levels, one of each kind there is: all
  approvers (for the large amount only), a notification, any one approver.
  `MaxMishaps` is shared by edits, deaths and failed lookups, and `MaxDeciding`
  bounds mishaps and open decisions together (`MayFail`, `Look`): two decisions
  are open side by side, or one beside a mishap. A company keeps at least one
  level (`MaxMishaps < NumLevels`): without levels a refund needs no approval,
  and that path is not modelled. `Edits` is the removal of the first level;
  moves of a level are in the module (`Edit` with another order) and in the
  proofs, and 6.2 says what they do. The state constraint `ClosedWithoutMishap`
  follows a mishap only while the contract is open and a closure only without a
  mishap: the closure meets an edit, a death or a failed lookup as any other
  request does. The run also passes without it (2.71 M states, but minutes more),
  and the theorems do without it.
* **PartnerAwards.** Two partners and two calls are the least for any race; a
  failure may hit any of them. The state constraint `OneQuoteBeforeTheTrip`
  follows the trip only once a request with a single quote is settled: the
  sourcing writes no variable of the trip and the trip none of the sourcing's
  save the award, so their product adds no behaviour to either. The theorems of
  `PartnerProofs` hold without it and for any number of partners, calls, quotes,
  links and failures.
* **DrayageJobs.** Two calls at once, any two operations, over the whole life of
  the container. The constraint `OvertakenOnce` cuts two kinds of state: while a
  call is behind no other is in flight, and a delivery that was reopened after
  its return was made is not taken further. The theorems hold without it and for
  any number of calls.

### What the properties say

`JobRuns`: **OneRunningRow** is mutual exclusion in the table,
**OccurrenceRunsOnce** the once-only promise (the trim of rows older than 30 days
is part of the model and does not disturb it, as no request is that late). **OverlapNeedsExpiredLease** is what is
left of "a job never overlaps itself". **OutcomeIsFinal**: a worker that was
given up on cannot write over the row.

`EventDelivery`: **Implements** is the refinement of `DeliveryContract`: no
event is acknowledged without its effects. **TransactionalOnce**: a second
effect of a transactional consumer needs a takeover of a live worker.
**TwoRunsNeedExpiredClaim** and **TakeoverNeedsStaleClaim** say when two may be
at work on one thing, and what opens a slot that was finished.
**ParkedUntilReplay**: no late run brings back what was parked or published.
**EventuallySettled**: every event ends acknowledged or parked.

`DunningDispatch`: **TokenSentOnce**: `sendEmail` once per attempt.
**NoticeAgreesWithAttempts**: what was sent is counted and never beyond the cap,
through pauses, retries and resolutions; the notice row never lies about its
current attempt, and FAILED means that a try is left.
**SecondEmailNeedsDeferredClaim**: the one way a customer gets a notice twice is
the deferral over a claimed attempt of 6.2. **OutcomeIsFinal**: no late worker
rewrites an outcome. **OneLateSend**: a customer who has paid, or is at another
stage, may still get the email of a handler that had rechecked before, and no
more than one, whatever is retried, recovered or made PENDING again afterwards,
except through the same deferral.
**NoticesComeToRest**: none is forgotten.

`CollectionStages`: **ReferralIsGated** (a referral is sent only in a cycle
whose own final notice was accepted long enough ago and whose own referral was
approved), **AcceptedStaysAccepted**, **SweepBlockedOnlyByReferral** (the only
invoice whose next notice is a duplicate, and so aborts the sweep of its whole
tenant, is one that stands at LEGAL_REFERRAL), **PaidComesToRest**.

`RefundApprovals`: **RefundsWithinDeposit** (what is reserved is the refund in
progress and the reservations a closure overwrote, and with what was paid it is
covered), **ApprovedLevelByLevel**,
**SomeoneCanDecide** (an approval never waits for nobody), **OutcomeAppliedOnce**.
The second and third speak of approvals whose levels were not edited while they
ran; see 6.2 for the others.

`PartnerAwards`: **AwardSettlesSourcing** (the winning quote is ACCEPTED and no
other stays open, unless a quote was being submitted or withdrawn when the award
committed), **OneLiveQuotePerPartner** (two need two submissions of the partner
at once, or one that died), **AwardIsFinal** (two dispatchers may both see no
award; the unique key decides), **EndedTripIsReadOnly** (a milestone reaches a
cancelled or finished trip only from a call that was in flight when it ended;
what else takes the award out of its end is a new assignment), **RecordsAgree**
(award, assignment and schedule tell the same story whenever nothing is in
flight, if calls did not overlap and none died between its commits).

`DrayageJobs`: **OneReturnJob** (one return per container however many operations
activate it at once, and no delivery closed without it), **OnlyStaleWritesUndo**
(a closed delivery goes back on the road, or a tractor comes off a job that does
not wait for one, only by a call that had read the job before it was last
written), **ReturnHoldsTrailer** (the trailer of a return with a tractor is set
free only by completing the delivery once more).


## 4. Fairness

Liveness is checked only under fairness the code justifies; crashes, faults,
pauses, replays and people's actions are never forced.

* `EventDelivery!FairSpec`: time passes (`WF(Tick)`), and each publisher run
  takes its steps (`WF(RunStep(p))`): the publisher is a scheduled job that fires
  every minute in every replica, and a handler returns in the end. This alone is
  not enough: runs that always outlive their claims hand a row to each other for
  ever, each finishing a row it no longer owns. `EventuallySettled` therefore
  assumes `<>[]Timely`, that from some time on no run outlives its claim. The
  scheduler's cadence does not bound how many runs there are.
* `DunningDispatch!FairSpec`: a handler that was started returns (weak fairness
  of `Handle(w)`), an unacknowledged event is delivered again (weak fairness of
  `Deliver` for each token, by some worker), the reconciliation job keeps running
  over every notice, a retry's backoff elapses, and a pause ends. The publisher
  really parks an event after its retries; a notice whose event was parked stays
  PENDING until an operator replays it, so delivery is fair up to that.
* `PartnerAwards` and `DrayageJobs` have none: partners, drivers and dispatchers
  act when they like, and the drayage worker is driven by page loads and an
  operator's cron, so nothing in the code says that any of it happens.
* `CollectionStages!FairSpec`: the daily sweep keeps running, a request that has
  been checked is written or turned back, and queued notices are claimed.


## 5. Proofs

Each proof module EXTENDS its component's module and proves for every value of
the constants allowed by the module's one assumption (`JobsAssumption`,
`DeliveryAssumption`, `DispatchAssumption`, `StagesAssumption`,
`RefundAssumption`, `AwardsAssumption`; `DrayageJobs` has none), with one lemma
per action or group of actions, an inductive invariant, and theorems drawn from
it. The bounds on faults, changes, attempts and so on are constants, so the
theorems hold for any of them; no theorem uses the fairness of a specification
or a state constraint of a run. Every safety invariant, action property and
refinement that a passing run checks is a theorem. For each statement of a document
that a run refutes (6.1) there is a theorem that says what it would take to make
the statement true; two of these have a hypothesis on the steps taken, which
their names and comments give.

**JobRunsProofs.** Proved: `TypeCorrect`, `MutualExclusionOfRows`,
`OccurrencesRunOnce`, `OverlapIsLate`, `OutcomesAreFinal`. None of the
properties is inductive. Two extra conjuncts carry the argument. `LeaseHolds`:
until its lease has passed, a worker's row exists, is RUNNING and carries its
start time, so a claim of the same job is refused; this gives the overlap
theorem. `Forgotten`: a scheduled minute that ran and has no row is older than
the history. With `RequestTimes` and the assumption `MaxDelay <= Retention` no
request can still name it, so its handler is not started again. `RowTimes`,
`FreshManual`, `SlotTimes` and `OwnKey` relate rows, requests and slots to the
clock and to `started`. The two assumptions `Lease <= Retention` and
`MaxDelay <= Retention` compare leases of minutes (`leaseSecondsFor`: twice the job's
longest duration, ten minutes at least) and requests in flight for seconds with
30 days of history.

**DunningProofs.** Proved: `TypeCorrect`, `AttemptsSentOnce`,
`OutcomesAreFinal`. `SendInv` says who is about to send:
one worker at most per attempt, one that is claimed and was not sent; whatever
was sent was claimed. It is inductive because `commitPreparedEvidence` claims
only an unclaimed attempt and nothing ever unclaims one, which needs
`Unreserved`: attempts beyond the current one do not exist, so
`reserveNextAttempt` cannot overwrite one that was claimed. `ResultInv` types
what a worker is about to record. The lemmas `RecordOutcomeKeeps` and
`ReserveKeeps` state once what the two shared writes preserve.

**DunningNoticeProofs.** Proved, on top of `DunningProofs`: `NoticesAgree`,
`SecondEmail`, `LateSendAlone`. The invariant has three parts for a notice. `Agrees` is what the
row says of its current attempt. `Booked`, the attempts sent or about to be
sent, are at most as many as the counter says: the claim that books one counts
it in the same transaction, so a crash between the claim and the send leaves
the counter too high, never too low. `Truthful` and `Settled` follow acceptance:
a recorded failure, and a failure about to be recorded, is of an email that was
not accepted, and nobody is sending what was recorded as failed or unknown. An
attempt is replaced only after a failure, after a deferral, or by a person who
knows that the email was not accepted, so a replaced attempt was not accepted
and never will be, except one that was claimed and then written off as
deferred. `LInv` follows the late sends. `Held`: a worker past the recheck holds
the notice's row, so the notice stays PENDING under the worker's attempt. `LateAlone`:
unless an attempt was claimed and written off as deferred, an attempt that was
sent late, and one that may still be sent without another recheck (`Live`), is the
only such attempt. A live attempt is the current one (`LiveIsCurrent`), since an
attempt that is being sent is not replaced; a new one becomes live only through a
recheck, which an invoice that has moved on does not pass. `Quiet` collects what the steps that neither claim nor send have in
common; `RecordOutcomeAgrees` and `ReserveAgrees` prove it of the two shared
writes.

**RefundProofs.** Proved: `TypeCorrect`, `RefundsStayWithinDeposit`,
`DecidedOnce`, `ApprovedByLevels`, `NeverWaitsForNobody`,
`LargerLevelsApproveLarger`. `RefundsWithinDeposit` is inductive with types: every
transaction on the deposit but the closure's is guarded by its status, so the
reservation of the refund in progress is released or paid once; the closure adds
one and books the one it overwrites. `DecidedOnce` needs `Unstarted`: a request's approval does not exist
before its insert, so the insert cannot overwrite one that ended. The lemmas
about `Completed`, `Opened` and `LevelOutcome` show that no path through the
levels leads out of an ended approval. Moves and removals of levels are included.
The other theorems speak of approvals whose levels were not edited while they ran
(`settled`; an edit ends what is known of every running approval, `EditProper`).
Neither property is inductive. `Proper` says of such an approval: while it
runs, its levels are still there, each with its own order; one is pending, the
current one, nobody has rejected it and an administrator has not decided it
(`WaitsAt`), everything before it has passed or does not apply, and everything
after it is waiting (`AfterOrBehind`); and what has passed, passed as `ByLevel`
asks. `Clearing` keeps the second statement of a withdrawal to approvals that have
ended. The step that needs an argument is the one that opens the next levels:
`PathLemma` shows that a path takes the waiting levels in their order and leaves
none behind it, so an approval that ends by running out of levels has passed them
all. The code's loop is an induction over the path; the proof takes the first
position where it could go wrong, which exists because positions are natural
numbers (`Least`, from the library's `WFMin`). `LargerLevelsApproveLarger` draws
the consequence for 6.1: where the approval is of the amount that is recorded,
every level it has that applies to the amount has approved it.

**EventProofs.** Proved: `TypeCorrect`, `SharedRowExpired`, `ParkedStays`,
`EffectOnce`, `TakeoverIsLate`, `ImplementsContract`: every safety property of
the event runs. `Shape` is types with what rows and runs keep (`Row`, `Work`: a
run works on recorded rows that had tries left when claimed, and only for their
consumers). `Claims` says that a run younger than its claim holds its batch and
is as old as the claim, so a second claim of a row comes after the first has
expired. `Slots` is the argument for effects: as long as a slot's worker was
never robbed of it, that worker is the only one, its claim is as old as its
work, and the effect of a transactional consumer is there exactly once its row
is PROCESSED; the late FAILED mark of a robbed worker is why nothing holds of the
slot afterwards. `Accounts` is the argument for the refinement: a PROCESSED row,
and a task settled as delivered, stand for an effect. With it every step of the
publisher, the inbox and the replay maps to a step of `DeliveryContract` or a
stutter (`FinishMaps`, `TaskMaps`, `ReplayMaps`).
`WaitingParksNothing`: in a behaviour where no run dies or outlives its claims an
event is parked only after a throw. Batches are then disjoint (`ApartLemma`, from
`SharedRowExpired`), so whoever finds a slot taken would have to be the one who
took it (`Undisturbed`); 6.1 has the behaviour with a crash. `FailuresAddUp`: the
retry count of a row falls only by a replay, and a failure recorded by its holder
raises it, because the count read at the claim is never below the row's
(`Counted`). It is the safety half of `EventuallySettled`: the number of tries
left bounds how often a row can come back.

**StagesProofs.** Proved: `TypeCorrect`, `ReferralGated`, `AcceptedStays`,
`StagesInOrder`, `SweepUnblocked`, `SettledNotDispatchedByLeasing`. The
invariant `Gated` follows the two gates through the approval's two steps: a
request that has passed its check, and an approval that was written, are of a
cycle whose final notice has waited; a referral that was claimed is of an
approved cycle. `Moves` says what any step may do to a notice: only a claim that
passes the recheck takes one out of the queue, and nothing takes back what was
accepted.
`SweepUnblocked` needs to know where every key of the notices may be taken.
`Ordered`: no cycle is written to before the sweep opens it; within the current
cycle no stage before a referral was queued before its days, and none beyond the
stage the invoice stands at; a cycle whose final notice has waited had it queued;
an approved referral that was queued leaves the invoice there or stopped.
`SweepOrdered` keeps this true of what a sweep has read and decided and not yet
written: no one else opens cycles or queues early stages, so the cycle it read is
still the invoice's, however much was paid, disputed or approved meanwhile. Most
steps add no key (`Quiet`); the four that matter have a lemma each. What is left
is the invoice that stands at LEGAL_REFERRAL, approved before day 120.
`SettledNotDispatchedByLeasing`: in a behaviour where an invoice that is owed
becomes PAID neither by a finance payment nor by a PATCH (`PaidByStatus`), PAID
means that nothing is owed, and then no notice of a settled invoice is dispatched;
6.1 has the behaviour with one.

**PartnerProofs.** Proved: `TypeCorrect`, `AwardStays`, `AwardSettles`,
`EndedReadOnly`, `OneLiveQuote`, `RecordsInStep`. `Shape`: types, quote rows
numbered without gaps, and what a call has read is there. `Settled`: after an
award that no quoting crossed, nobody is in the middle of quoting and nothing is
open. `Late`: the milestones in flight when a trip has ended are late.
`Live` (`LiveOf`): a partner that never quoted in two calls at once has one
submission in flight at most, which knows every live quote of that partner; this
is why finding and superseding need no lock then. `Quiet` (`Undisturbed`,
`Along`): while calls on the trip do not overlap, what holds at each step
between a call's first write and its last; at its end the three records agree.

**DrayageProofs.** Proved: `TypeCorrect`, `ReturnedOnce`, `StaleWritesUndo`,
`TrailerHeld`. `Sound` is what a pending write is sure of however old it is
(nothing takes an activation back, so an update that completes the delivery
either activates the return or knows it exists), `Fresh` what it is sure of
while nobody has overtaken it. `OneReturnJob` is inductive with these: the
conditional claim is what keeps a second return from being made.

Model-checked only: liveness (`EventuallySettled`, `NoticesComeToRest`,
`PaidComesToRest`), which, like anything that depends on ENABLED, is beyond the
prover. So is induction over data (what a recursive definition computes for every
input): where an argument needs it, over the rows of a batch or the levels of a
path, the proofs take a least counterexample instead. No module uses a RECURSIVE
operator.



## 6. Where the code and its documents disagree

### 6.1 Kept as runs

**`event_parked_busy`** (`outbox-publisher.ts:329`, `consumer-base.ts:8`, `:105`).
A worker dies while handling. Its outbox claim expires after 5 minutes, its inbox
claim after 10. The publisher, every minute from then on, finds the slot busy and
counts a failed attempt; after five the event is parked, minutes before the slot
could be taken over. No handler ever failed. The comments say that a busy event
is retried later and an abandoned one taken over.

**`stages_settled_sent`** (`dunning-dispatch.ts:388`,
`docs/RELEASE_EVIDENCE.md:188`). The sweep reads an overdue invoice; a payment
recorded in finance marks it PAID and SETTLED, without a lease payment; the sweep
writes its stage over SETTLED and queues a notice. The recheck looks at DISPUTED,
CANCELLED and the lease balance, which still shows the amount as owed: the email
is sent. PATCH of an invoice may set PAID with a balance left and leads to the
same (`invoices/[id]/route.ts:55-57`). `confirmPaymentIntent` would, too
(`payment-intents-store.ts:140`); it is imported by the record-payment route
(`record-payment/route.ts:29`) and called nowhere, so it is not an action.

**`refund_amount`** (`api/finance/deposits/route.ts:322`,
`workflow/levels.ts:6-8`). `cancel_refund_request` cancels the deposit's request
in one commit and withdraws the approval in later ones, best effort. A new request
of a larger amount meanwhile reuses the running approval, whose levels were chosen
for the smaller one. Approving it records the larger refund, and the level for
large refunds was never asked.

### 6.2 Observed while modelling, not kept as runs

Job runs and events
* "A job never overlaps itself" (`job-runs.ts:12`): it does when a handler
  outlives its lease (`:64`). `OverlapNeedsExpiredLease` is what holds.
* "No event is handed to two runs at once" (`outbox-publisher.ts:177`): it is
  when a claim has expired (`:186`). `TwoRunsNeedExpiredClaim`.
* "Exactly one worker runs handle()" (`consumer-base.ts:7`): two do when one
  takes longer than STALE_CLAIM_MINUTES (`:79`). `TakeoverNeedsStaleClaim`.
* The FAILED mark has no condition (`consumer-base.ts:141`): a worker that was
  taken over reopens the row its successor PROCESSED, or frees the slot under the
  successor's live claim. `TakeoverNeedsStaleClaim`.
* The replay route says it verifies that rows named by id are parked
  (`replay/route.ts:64`) and asks only that they are unpublished (`:70`).
* The cron route runs the publisher without a job claim.

Dunning
* A second delivery of an event reads the gate just after it was closed and
  writes DEFERRED over an attempt that another worker has claimed and is sending
  (`dunning-notice.consumer.ts:118`): the guard asks only whether the attempt is
  PENDING. The outcome of the send is then rejected, and deferred-work recovery
  sends a fresh attempt, where a claim that never resolved is "never assumed
  sent or failed" (`dunning-reconciliation.ts:8-11`). `SecondEmailNeedsDeferredClaim` shows that this is the only way to a
  second email.
* DEFERRED leaves a notice "PENDING" (`dunning-dispatch.ts:337`); a missing
  staging override defers inside the claim transaction, which had made it
  SUBMITTING. Deferred-work recovery finds it all the same.
* CONFIRMED_NOT_SUBMITTED of a DELIVERY_UNKNOWN notice at its cap reserves an
  attempt that can only be refused: the ceiling is raised for FAILED_EXHAUSTED
  alone (`resolve/route.ts:106`).
* The recheck reads the invoice without a lock (`dunning-dispatch.ts:384`): a
  payment that commits between it and the claim's commit does not stop the email.
  `OneLateSend` is what holds.
* A notice selected as FAILED and suppressed before it is retried is made PENDING
  again (`dunning-reconciliation.ts:140`, `:148`): `reserveNextAttempt` looks at the
  attempt only (`dunning-dispatch.ts:169`). So is a suppressed notice whose attempt
  was deferred. The recheck suppresses both once more.
* A claim refused at the cap keeps the evidence its first UPDATE wrote
  (`dunning-dispatch.ts:260`, `:301`).
* An SQL error in one row of the reconciliation is caught, but has aborted the
  tenant's transaction and with it the other rows' work
  (`dunning-reconciliation.ts:132`).

Collection stages
* The sweep looks for an approval in the cycle it read and only then starts the
  next one (`dunning-transition.ts:106`): an invoice reopened past day 120 gets its new cycle's LEGAL_REFERRAL queued on the old approval. The recheck
  suppresses it (`ReferralIsGated`), but its row keeps the unique key, and the
  new cycle's own approval then fails on it, where the approve route promises to
  queue the notice immediately (`:7-9`).
* The approve route "approves the pending review" (`:6-7`); no open review, and
  no 120 days, are required (`:53`). Nor is a settled cycle excluded (`:12-14`,
  `:60`).
* CONTRACT suppressions are not seen by the sweep (`dunning-sweep.ts:98`), where
  `RELEASE_EVIDENCE.md:183` says they are; the recheck sees them.
* mark_overdue writes OVERDUE over an invoice paid or voided since the sweep
  read it (`dunning-sweep.ts:144`); a voided one is then collected.
* A finance payment flips a voided lease invoice to PAID
  (`finance/payments/route.ts:196`), which `invoice-balance.ts:55-56` says
  nothing should.
* `resetInvoiceDunningOnSettlement` updates columns that its tables do not have
  (`module-ledger.ts:202`); the error is swallowed, the transaction is aborted,
  and a payment in full is answered as recorded and rolled back. `Pay` leaves it
  out, as the database does.
* The review's fingerprint is matched by substring (`dunning-sweep.ts:183`):
  cycle 1's is contained in cycle 10's.
* Two reversals of one deposit application both pass a check made before the
  deposit is locked (`security-deposit.ts:178`); the one caller holds another
  lock.

* record-payment compares the amount with what the payments leave and overlooks
  deposit applications (`record-payment/route.ts:81`); PATCH of an invoice writes
  any field, the due date among them (`invoices/[id]/route.ts:57`).

Approvals and refunds
* A workflow's levels are "passed in step order" (`levels.ts:4`). When a step is
  moved while an approval runs, `openNextLevel` goes on from the step's present
  order (`workflow-db.ts:700-710`) over levels that keep the copied one: levels
  are passed over, or `currentStepOrder` matches no level and decisions are
  refused. TLC shows the first with `Edits <- {<<2, 4>>}`. Swapping two levels
  takes two requests; an approval started in between has two levels of one
  order, and the second is never opened.
* The closure of a contract calls `requestRefund` without asking whether a refund
  is in progress (`contracts-v2/[id]/close/route.ts:90`;
  `security-deposit.ts:265` asks). It overwrites `refund_requested_amount`, puts a
  RECORDED refund back to REQUESTED, and the first reservation is never released:
  that part of the deposit can be neither refunded nor deducted any more.
  `RefundsWithinDeposit` says what still holds. The running approval of the first
  request then decides the second (as in `refund_amount`).
* The closure's sum leaves out what was refunded (`close/route.ts:88`, where
  `availableBalance` counts it): after a refund `requestRefund` refuses it, the
  error is swallowed, and the contract closes without asking for the rest.
* Levels of a cancelled approval stay PENDING when the second statement of the
  withdrawal is lost, and stay in people's lists.
* Two running approvals of one record: check, then insert, no key
  (`workflow-db.ts:628`).
* Between the request's commit and the approval's insert, or when the start
  fails, nothing is in progress and `record_refund_details` goes through
  unapproved (`deposits/route.ts:180`).
* "The refund can't be recorded, paid or cancelled here while it decides"
  (`deposits/route.ts:169`): `cancel_refund_request` is not held back, which is
  what `refund_amount` starts from.
* Emails and after-hooks run from memory after the commit (`workflow-db.ts:502`).

Partner exchange
* "Row Locking" (`outsource-engine.ts:396`) and "Concurrency and race-condition
  defenses" (`:16`) name locks that no statement takes: a quote withdrawn or
  superseded between an award's read and its write is ACCEPTED, and one submitted
  meanwhile stays open beside the award. `AwardSettlesSourcing` is what is left.
* A trip that was cancelled while a milestone was in flight ends IN_PROGRESS or
  COMPLETED (`:760`), where the code says ended trips are read-only (`:788`).
* abortTrip accepts a CANCELLED award and cancelAward an ABORTED one;
  assignVehicleAndDriver asks for no status at all.
* A milestone whose schedule sync fails is not repaired: the retry is refused as
  recorded. A STARTED sync may be delayed past COMPLETED's.
* withdrawQuote, cancelAward, abortTrip, declineRequest, extendDeadline,
  publishOpportunity and awardMarketplaceOpportunity have no route that calls
  them at this commit; they are the engine's interface, and its tests use them.
* Partner invoices and settlements sum the same trips from two places.

Container drayage
* COMPLETED from a "FCL_Reassign to Ramp" status activates the return although
  the container stands full in the yard; the message at `:6117` says it cannot.
* "READY_FOR_PICKUP waits until etc_time expires" (`:5193`): the worker's query
  takes READY_FOR_PICKUP jobs whatever their ETC (`:6637`). Asked for while
  detached at the ramp with the ETC over or near, READY_FOR_PICKUP and COMPLETED
  become TO_YARD.
* The guard against skipping stages applies to the actor 'Dispatch Console', for
  which the dispatcher's route puts the user's name (`route.ts:285`): it never
  applies, and the model leaves it out.
* ACCEPTED, TRAILER_ATTACHED, REASSIGN_* and moves within a stage, an assignment
  and the consignee's confirmation reopen a closed delivery whose return exists.
* A driver who sends COMPLETED of the delivery once more frees the trailer that
  the return is using. `ReturnHoldsTrailer`.
* A directional status written by an update keeps the tractor; the same status
  written by the worker or the workspace takes it off.
* A dispatcher's ETC extension is overwritten by an update that read before it.
* Assign locks job, trailer, container; update job, container, trailer:
  PostgreSQL may find a deadlock and abort one. `.catch(() => {})` on a statement
  inside a transaction cannot save it.
* Missing allowances (`:7073`) and receipts (`:7208`) are looked for and inserted
  without a lock or a key; a payout (`:7414`) asks for no status.

Others
* The mirror breaker's half-open state lets every caller through
  (`mirror-circuit-breaker.ts:61`), its header promises one probe (`:11`).
* The driver app's queue resends an item at every drain after its last automatic
  attempt (`driver-offline/sync.ts:120`, `db.ts:410`).


## 7. Assumptions and what is not modelled

* A transaction is one step: PostgreSQL commits it whole or not at all, and its
  guarded UPDATEs lock the rows they decide on. The acknowledgement of a commit
  is not lost: a caller that sees an error has not written.
* `JobRuns`: the database clock is the only clock. Jobs' names stand for (job,
  scope) pairs.
* `EventDelivery`: a transactional consumer's 60-second transaction timeout is
  not modelled; it counts from the begin of the transaction, so a stalled run may
  still commit late. The dry run writes nothing. A failed `claimRows` is a run
  that did not start.
* `DunningDispatch`: `RecoverStale` waits until no send of the attempt can still
  be under way: STALE_SUBMITTING_THRESHOLD_MS is longer than the transport's
  timeouts. Whoever resolves an unknown delivery knows the truth. Addresses,
  templates and the evidence's contents are abstract. An invoice that has moved on
  stays so for its notice: a payment that is reversed, or a dispute that ends
  before the stage changed, and lets the same notice go out after all is not
  modelled. The reconciliation's list of FAILED notices outlives the run that
  selected it, which adds retries the code would not make.
* `CollectionStages`: one invoice. Not modelled: amounts and partial balances
  beyond "owed", due dates edited by PATCH (bands only grow), invoices not yet
  due, DRAFT invoices, the pairing of reversals with applications. A
  reconciliation that makes a notice PENDING again is a bounded change.
* `RefundApprovals`: one deposit, its deductions taken off `Collected`; its
  contract closes once. Not
  modelled: deductions and forfeits while a refund runs, the legacy `refund` and
  pay-now actions, the 0.005 tolerance, delegation, decision links, escalation,
  emails, subjects other than the refund. Every level is assigned to the same
  people.
* `PartnerAwards`: one request and its trip. Prices, evidence, proofs of delivery
  and notifications are left out; a link is live or revoked. `CreateRequest` is one
  step where the code commits the request and then its opportunities or
  invitations; no property speaks of a request in between.
* `DrayageJobs`: one container, one trailer, one tractor. A PENDING job is not
  reported on; the return's statuses between assignment and delivery are
  ASSIGNED; job and log are read as one. Not asked for: CONTAINER_DETACHED and
  CONTAINER_OFFLOADED, directional statuses and statuses of stage 0, which `update_status` accepts
  (`logistics/drayage/route.ts:732-743`), and an ETC that is already past when it is given.


## 8. Plan

Done, in this order: job runs, events, dunning dispatch, collection stages,
refund approvals, partner awards, container drayage, with the proofs of section 5.

Models worth adding, the most important first:

1. Approval escalation and decision links, on `RefundApprovals`: a level
   escalates once, a link and a session decide once.
2. Driver offline queue: the persistent queue, drain, backoff, app restarts, and
   the server's side of a repeated item. Abstract specification: each item
   applied, in order.
3. Invoice money: payments, deposit applications and reversals behind `owed`;
   then `CollectionStages` on top of it.
4. Rental bookings and trip assignments: two routes and a status table.
5. Drayage allowances and payouts; two jobs that share a tractor or a trailer.
6. The mirror circuit breaker, as a small machine: one probe in half-open state.

Theorems worth adding: with each of these models, its safety properties; and for
the dunning notices, the measure that `NoticesComeToRest` goes down by (attempts
left within the allowance), as `FailuresAddUp` is for events.


## 9. How to run

```
tlc -workers 2 -config MCJobRuns.cfg MCJobRuns      # any run of PROJECT.json
tlapm JobRunsProofs.tla                             # any module of proofs
```

The passing runs take from some seconds to three minutes each on two cores, the
proofs some minutes each.
