# DhyanaStays: a verification of the booking platform

DhyanaStays is a marketplace for stays at retreats. Its API
(`src/apps/api/src`, NestJS over PostgreSQL through Prisma, with Redis/BullMQ
jobs and Razorpay as payment gateway) takes a guest from a checkout hold to a
booking, a payment, a check-in and a payout to the host, and runs a score of
services around that path. These modules model the parts of it where several
transactions, jobs, webhooks and people act on the same rows. TLC checks the
models on small instances; TLAPS proves the most important properties for every
instance.

## 1. Inventory

### The booking core

| Component | State | Operations | Hard because | Correct when |
|---|---|---|---|---|
| Booking state machine (`booking/state-machine.ts`) | `Booking.status` | `transition` on 17 events | its callers lock the row, or do not | a transition is unambiguous and lands on a status |
| Holds (`hold/hold.service.ts`) | `Hold` rows | create, release, expire, reap | expiry races creation of a booking; the reaper reads, then deletes | no two live holds of different guests overlap; a booking keeps its hold |
| Booking service (`booking/booking.service.ts`) | `Booking` rows | create, pay on arrival, confirm, settle, balance due, cancel, manual confirm / check-in / complete | two isolation levels; reads outside the transaction that writes | no night is sold twice |
| Overlap trigger (`prisma/migrations/0003_db_integrity`) | none | checks a row when its status is written | sees committed rows only | as above |
| Calendar (`listing/availability.service.ts`) | none (reads) | `getAvailability` | a status list of its own | a query, not modelled |
| Payments (`payment/payment.service.ts`) | `Payment`, `ProcessedRazorpayEvent`, ledger | init, webhook, capture, failure, reconcile | webhooks are late, lost, repeated, reordered; the event id is stored before the event is handled | a capture is booked once; status follows money |
| Refunds (`cancelBookingInternal`, `AdminService.createRefund`) | `Refund`, ledger | cancel, refund | the sum paid is read before the transaction | refunds stay within what was collected |
| Pay Later (`pay-later/pay-later.service.ts`) | plan, instalments | first capture, instalment, sweep, cancel | the sweep is several statements and may die; orders are paid in any order | an instalment is booked once, in order; arrears are dunned |
| Payout (`payout/payout.service.ts`) | `PayoutLine`, `PayoutBatch`, ledger | eligibility, weekly batch, mark paid | reads outside the transaction; job and admins overlap | lines, batches and ledger agree |
| Job scheduler (`jobs/*`) | BullMQ jobs | periodic calls of the above | overlapping and dying workers | the periodic work is eventually done |

They interact through the database alone: every component reads and writes the
`Booking` row, most through `BookingStateMachine.transition`. A capture
(webhook or reconciliation) calls `confirmPayment` or `settleBalance`, which
write the ledger and the payout lines; a cancellation calls `cancelPlan` and
`cancelBookingAddOns` within its transaction; check-in restarts the clock of
the payout lines.

### The services around it

| Component | State | Operations | Hard because | Correct when |
|---|---|---|---|---|
| Prices (`pricing/pricing.service.ts`, `splitAmount`, payout lines) | `PriceSnapshot`, instalments, `PayoutLine` | quote, split, capture | three places divide one price and round on their own | captures make the price, the host is promised the stay, to the paisa of a rounding |
| Stay pass (`stay-pass/*`, `qr/checkin.service.ts`) | `Ticket`, `PassportStamp` | render, void and seal by a sweep, check-in by scan | lists read before long renders; the booking moves on meanwhile | a cancelled ticket ends voided; a completed stay gets its stamp |
| Notification outbox (`notification/outbox*.ts`) | `NotificationOutbox` rows | enqueue, claim, send, mark, retry | claiming marks nothing; dispatchers overlap and die | a row is sent once and settles |
| Experiences (`experience/experience.service.ts`) | `Experience`, `ExperienceBooking` | book, cancel, edit, close, moderate | two isolation levels; moderation and edits cross | seats sold fit; what is on sale was vetted |
| Refresh tokens (`auth/auth.service.ts`) | families, sessions, tokens | login, refresh, reuse, logout | lookup, update and issue are separate | one usable token; a token shown twice is a theft; listed sessions can be refreshed |
| Rewards (`membership/*`, `referral/*`) | `Membership`, `TripSip`, `Referral`, credits | award, deposit, refer | read, decide, write by id | points add up, money is credited once |
| Idempotency (`idempotency.interceptor.ts`) | `IdempotencyKey` | find, create, handle, store, clean | four statements, each of which may fail; handlers that throw after their commit | a handler takes effect once per key, unless it threw with its work done |
| SOS (`sos/*`) | `SosIncident`, `SosBroadcast`, job | open, broadcast, acknowledge, work, close | retried job, refusing providers, operators who cross | everybody is tried; an incident only advances |
| Concierge (`messaging/*`, SLA job) | `Conversation` and its reply clock | message, sweep, close | three statements a message, sweeps overlap | the clock follows the talk; a lapse is alerted |
| Trip planner (`itinerary/itinerary.service.ts`) | `Itinerary`, usage, a lock in Redis and in each process | ideas, generate, chat, finalize | a lease that runs out, a lost connection, an answer a minute late | the plan follows the talk; the cap holds but for what is in flight |

They read what the booking core writes (the stay pass its statuses, rewards its
completions) or are called after it (the outbox), and share no row with one
another that two of them write. Add-ons, investor distributions, trip groups,
the guest, host, CRM and content services, ad-hoc chat, the assistant, storage,
ticket themes and the web front end are CRUD, queries, presentation or calls to
outside services. Section 6 says why each is left out; `PROJECT.json` lists
every component.

## 2. Plan

| | Module | Builds on | Status |
|---|---|---|---|
| A | `BookingStateMachine`: the transition table | | modelled, proved |
| B | `Reservation`: holds, bookings, trigger, jobs as transactions; `HoldBoard`: what holds promise | A | checked; refinement and all safety proved |
| C | `Payments`: orders, webhooks, reconciliation, refunds | A | checked; safety proved |
| D | `PayLater`: plan, sweep, default | A | checked; safety proved |
| E | `Payout`: lines, batches, ledger | | checked; safety proved |
| F | `Outbox`: rows and overlapping dispatchers | | checked; safety proved |
| G | `Amounts`: the paise of a booking | | checked; proved |
| H | `Seats`: experience bookings under serializable transactions | | checked; safety proved |
| I | `RefreshTokens`, `Rewards`, `Idempotency`, `Itinerary` | | checked; safety proved |
| J | `StayPass`, `Sos`, `Concierge`: sweeps and jobs that must finish | A for `StayPass` | checked; safety proved |
| K | the compositions `MCBookings`, `MCLifecycles`, `MCJobs`, `MCServices` | B to J | checked; shown to be compositions |

Every invariant and every action property of a passing run is proved. What is
left are the liveness properties, which stay with TLC, and sharper statements of
what the histories name: that a fork of tokens needs two refreshes in flight,
that a demoted row needs a declined attempt.

## 3. The models

### How transactions are modelled

PostgreSQL runs most code paths at READ COMMITTED; only those wrapped in
`withSerializableRetry` are SERIALIZABLE.

* A SERIALIZABLE transaction is one atomic action (`CreateHold`,
  `ConfirmPayment`, `Capture`, ...). A transaction whose retries are exhausted
  changes nothing, which a stuttering step already is.
* A READ COMMITTED path is a request with a stage: it reads a row, later writes
  it **by id** and commits. Between the two anything may happen. In
  `Reservation` the write and the commit are also separate steps, because the
  trigger of another transaction cannot see a row that is written and not yet
  committed; `RowLocked` is the row lock. In `Payments`, `PayLater` and
  `Payout` nobody reads in between and both are one step.
* `Abort` (`RollBack` in `Payments`, `Stop`, `Halt` and the like elsewhere) is a
  roll-back or a dead process, at any stage.
* The serializable transactions of `Seats` are taken apart, because there the
  isolation level is the guarantee: a transaction works on the snapshot of its
  first statement, and whatever commits after that sends it back to its start.

### BookingStateMachine

The table `TRANSITIONS` is a set of rows (event, from, to, plans); `Target` is
what `transition` writes, with `CancelTarget` for the cancellation events whose
target depends on the refund. It has no variables. `Reservation`, `Payments`,
`PayLater` and `StayPass` extend it, so that a slip in the table shows in their
runs.

### HoldBoard and Reservation

`HoldBoard` is the promise of the hold service: a lease of nights per guest,
disjoint from all others. `Reservation` is one listing's calendar. A hold is
`unused`, `live`, `expired` (its `expiresAt` has passed, the row is still
there) or `gone`; a booking is named by its hold (`Booking.holdId` is unique). State
and code:

| Variable | Code |
|---|---|
| `hold`, `booking`, `blocks` | the rows of `Hold`, `Booking`, `AvailabilityBlock` |
| `tx` | what each READ COMMITTED request has read and written |
| `reaper` | the batch `expireStaleHolds` has read and not yet deleted |
| `revived` | history: bookings put back on the calendar by a write that started from a stale status |

`revived` exists for `SoldOnceUnlessRevived`: `manualConfirm`, `manualCheckIn`
and `collectOnArrival` read the booking before they own its row, and may
overwrite a cancellation. `BoardSpec` instantiates `HoldBoard` with a lease
computed from the hold rows.

### Payments

One booking, plan FULL or DEPOSIT_50. `rows` are the `Payment` rows with their
orders, numbered as they are created, `attempts` what the gateway knows
(external), `processed` and `inbox` the event ids stored and the events not yet
handled. A run of the reconciliation job has a list, `batch`, of the `ReconLimit`
oldest INITIATED rows that are old enough for its cut-off (`ReconList`), and is at
the order in `recon`: it reads what the gateway knows (`ReconRead`), applies it
(`ReconApply`), or passes over an order that has no outcome or throws
(`ReconSkip`). A run may die (`ReconDies`); a `sound` run is one in which nothing
fails. A webhook is received (`ReceiveWebhook`, the id
stored), handled (`HandleWebhook`) or lost with its process (`LoseWebhook`);
after that the id is never handled again. `booked` counts ledger entries,
`demoted` is the history of CAPTURED rows that `handlePaymentFailed` overwrote.
`refunds` keeps every refund's amount with the total so far (`TotalRefunded`, the
sum the code takes over the rows); the sum of captures is a count of orders of
each kind times its amount (`SumOfOrders`). Neither needs recursion, so both can be
proved about.

### PayLater

One plan of `Months` instalments. Orders are pairs of an instalment and a
number, so that one instalment may be ordered twice. Time is a clock of half
months: due dates are a month apart and the grace period is shorter than a
month. The sweep is a sequence of steps (`SweepReads`, `SweepMarksOverdue`,
`SweepReadsOverdue`, `SweepMarksDefaulted`, `SweepCancels`) and may die between
any two (`SweepDies`).

### Payout

`line` and `batch` are the rows; `scheduled` and `sent` count a line's ledger
entries. `runWeeklyBatch` and `markBatchPaid` each are a read (`ReadEligible`,
`ReadBatch`) and a transaction (`CreateBatch`, `PayBatch`): what the
transaction updates it selects anew (`LinkLines`, `LinesToPay`), what it enters
in the ledger it takes from the read.

### Amounts

One booking's `quote`, the number and sum of its `captures`, and the sum of its
payout `lines`, all in paise. `Quote` computes fee, tier discount, commission
and tax with `Math.round` as `Rounded`; the deposit, the first instalment of the
quote (`SplitFirst`) and the schedule of `splitAmount` (`Instalment`) are
computed apart, as in the code, and every capture adds a payout line rounded by
itself (`Share`), but for later instalments, for which
`recordInstalmentCapture` writes no line. The comment over `settleBalance` says
that deposit and balance shares sum to the host's share; they may come to one
paisa more, which is what the run `host_share` shows.

### StayPass

`trip` is the status of each booking, `recent` their order by `updatedAt`,
`ticket` and `stamp` their rows; `sweeper` is what each worker of the 30-second
sweep has listed and is drawing, `scanner` the check-ins by scan. A ticket being
drawn is written by id when the images are there, whatever it has become. The
stay-pass feature flag is taken as enabled. `MoveTrip` is the rest of the
booking service, by the transition table.

### Outbox

`row` is a notification with its status and attempts, `worker` the batch a
dispatcher has read and the row it is at. `sends`, `unmarked` and `repeated` are
histories: how often a provider was called for a row, whose `markSent` threw,
and which rows were in two hands or survived the death of one. `SentOnceUnlessDisturbed` says
that nothing else sends twice. Providers that refuse do not appear:
`sendEmail` and `sendSms` swallow the refusal, so such a row is marked SENT.

### Seats

`experience` and `ticket` are the rows; `caller` is a request with its stage and
its snapshot; `looked` and `vetted` say which version of the content an admin
had in front of them when they decided. A capacity edit and a booking lock the
experience's row; all other edits and decisions are single updates by id.

### RefreshTokens

`family`, `session` and `token` are the rows, numbered as they come; `client` is
each request between its statements. `shown` counts presentations of a used
token, `forked` records families in which two refreshes looked one token up
before either marked it, `disturbed` those whose logout or revocation crossed
another request, was cut short, or came from a replay, `stranded` those in which a
refresh ended after it had used the old token up and before the new one was
stored.

### Rewards

A guest's stays, membership row, referral, savings plan and deposits, one unit
of points per award. `crossed` names what two processes were about to write at
the same time; the properties hold of everything else, and say what the code
guarantees as long as its handlers do not cross.

### Idempotency

`record` is the `IdempotencyKey` row, `request` one HTTP request between the
interceptor's statements. A failed `update` or `delete` is swallowed, as in the
code, and a process may stop anywhere, after its handler committed too. A handler
throws with nothing done, or with its work done: `createBooking` awaits the audit
entry after its transaction (booking.service.ts:155-165), `initPayment` makes the
order at the gateway before it stores the row (payment.service.ts:136-164). The
interceptor tells neither apart and frees the key; `torn` keeps the keys of the
second kind, for which `HandledOnceUnlessTorn` promises no single run.

### Itinerary

`trip` is one guest's plan: its status, and the chat messages its days are built
from. `call` is each request between its statements: ideas, a new plan, or a
message. The lock of `generate` has four variables: `lock`, the token under the
guest's key in Redis (with its lease, `ExpireLease`); `linked`, the processes
whose connection is up; `kept`, `generationLockTokens`; `busy`,
`inProcessGenerations`. A token is drawn anew from the few that are stored
nowhere. An answer costs 0 to `MaxCost`; `used` is the month's sum.

### Sos

`incident` is the row, `opener` the request that stores it and queues the
broadcast, `console` each operator's read, `job` the queue's job with the runs
that threw and the workers that died on it, `told` and `logged` the channels
tried in this run and recorded. BullMQ is external: three attempts, one
re-run after a stall.

### Concierge

`thread` is the conversation with its reply clock (`off`, `running`, `lapsed`)
and breach flag; `writer` is each `sendMessage` between reading the thread,
storing the message and touching the thread; `monitor` each sweep. `alerted`,
`muted` and `mistimed` are histories.

## 4. The runs

Components that share no row need no interleaving: a step of one neither
enables nor disturbs a step of the other. The MC modules of the passing runs
therefore put several components side by side and let each behaviour exercise one
of them (`side`, `service`) while the others stay as they are. Such a run covers
the same behaviours as one run per component would.

| Run | Components and instance | Shows |
|---|---|---|
| `bookings` | *nights* (`Reservation`): 2 guests, 2 holds, 2 requests, 2 overlapping ranges, deposit and pay-on-arrival; *money* (`Payments`): 2 orders, a price of 2, refunds of 0, 50 and 100 % | exclusive holds, bookings keep their hold, holds overrun by none but a booking that came late, no night sold twice; captures booked once, status follows money, single refunds are covered |
| `lifecycles` | *holds* (`Reservation`): a host block, Pay Later, the other events, fair jobs; *outbox*: 2 rows, 2 dispatchers, batches of one, 2 attempts, one death; *money*: 2 orders with a cancellation or a move of the booking, *backlog*: 3 orders, lists of 2, a price of 3 | holds implement `HoldBoard`, lapsed holds are reaped; a row is sent once unless it was in two hands or its dispatcher died, and every row settles; a capture without a webhook reaches its booking, if its row is on the list and the booking can take it |
| `jobs` | *dunning* (`PayLater`): 3 instalments, 4 orders, one death; *sweeps*, *scans* (`StayPass`): 2 bookings, 2 workers, lists of one, one cut, and the same with a scan of one booking; *alarm* (`Sos`): 2 operators, 2 channels, 3 tries; *concierge*: 2 messages, 2 sweeps, one cut short | what a request begins and a job must finish: arrears dunned, instalments in order, cancelled tickets voided, stays in reach sealed, every channel tried, incidents only advance, reply clock follows the talk, lapses alerted |
| `services` | *payout*: 3 lines of 2 bookings, 3 batches; *seats*: 2 keys, capacity 2 and after an edit 1 or 2; *tokens*: 2 logins, 3 tokens; *rewards*: 2 stays, 1 deposit, 2 tiers to reach; *amounts*: 10 stay prices, 4 add-on prices, 3 discounts, 3, 6 and 12 months; *requests* (`Idempotency`): 1 key, 2 bodies; *planner*: 2 processes, 2 messages, a cap of 1; 2 requests in flight each | lines and batches agree; no overselling, vetted content on sale, selling only while approved; one usable token, thefts noticed, listed sessions can be refreshed; points, credits and deposits counted once; paise add up; one run per key unless torn; plan follows the talk, cap, lease |

`jobs` runs `StayPass` as two services because neither two workers nor a scan
can be left out, and both at once on two bookings are too many states: in
*sweeps* nobody scans, in *scans* the second booking waits.

Eight runs end in a counterexample to what the repository says of itself
(`findings` in `PROJECT.json` quotes each line):

| Run | The statement | What happens |
|---|---|---|
| `double_occupancy` | migration 0003: no two confirmed bookings overlap | CHECKED_IN is in none of the conflict lists (the calendar has it, though it claims to have the same list as the engine) |
| `double_settlement` | payment service: routing is unambiguous, the row is not yet CAPTURED | a late `payment.failed` overwrites CAPTURED; the deposit is then settled as the balance |
| `over_refund` | cancellation caps the refund at what was paid | refunds by an admin are not deducted |
| `default_limbo` | the sweep auto-cancels a defaulted booking | a death between DEFAULTED and the cancellation is never made up for |
| `batch_ledger` | the batch links all eligible lines and enters each | read and update select different lines |
| `unsealed_stay` | every completed stay earns its stamp | the list of the latest stays keeps those already sealed; earlier ones are never reached |
| `host_share` | booking service: deposit and balance shares sum to the host's full accommodation share | each is rounded by itself, and two halves of a paisa are both rounded up |
| `two_generations` | an itinerary is already being generated, please wait | a request refused by Redis goes on to the guard inside the process, which the first never entered |

### Bounds, and why they are enough

Two guests, two holds and two overlapping ranges are the smallest instance in
which a hold lapses, a rival takes its nights and the late booking arrives; all
properties of `Reservation` relate at most two holds. A second request is
needed for a write and a commit to straddle another's; the liveness runs use
one, since the races are already in the safety run. Two orders are a deposit
and its balance, or one payment started twice; three instalments are the
shortest plan on offer and the first with a middle one. In `bookings` a price of 2
makes the deposit and the balance one unit each, and attempts on the first order
alone may be declined; in `lifecycles` the price is 3, which does not split evenly,
and nothing is declined. Three batches are as many as three lines
can fill. Everywhere else two requests suffice, because each of these handlers
can only be crossed between a read and a write, and every property is about one
row or a pair of rows; a third token is what a fork and its rotation need, a
third try what the queue is configured with.

Lists are shorter than in the code: `SweepLimit` 1 stands for 10 tickets,
`Limit` 1 for 50 notifications and `ReconLimit` 2 for 100 payments, with two
bookings, two notifications and three payments, which is what makes a list
overflow. The sound runs of the reconciliation job matter to recovery only and are
left to `lifecycles`; for safety a run that fails may do all that a sound one does. `MaxAttempts` 2 stands for 5 sends: the first may be retried and the
second is the last. `MaxContent`, `MaxParty`, `MaxFamily`, `MaxToken`, `MaxRow`,
`MaxChat`, `MaxRefunds`, `MaxClock` bound what would otherwise grow,
`MaxDeaths`, `MaxCuts` and `MaxStops` how often a job dies; each is a guard of
the actions that count. `MaxClock` ends after the last grace period, when time
changes nothing more. The totals leave every remainder modulo 2, 3, 6 and 12, so
that every shape of a deposit and of a schedule occurs.

Symmetry is used in `bookings`, `services` and `batch_ledger` only, whose properties
are all safety: requests, holds and guests are exchangeable. A model value may
serve two components (processes of the planner are named like stays of
*rewards*), so that one permutation covers both; the instances share nothing else.
Orders are numbers and not exchangeable: the job lists the oldest first.

Every id is used once or every counter is bounded, so behaviours may end, and
runs do not check for deadlock: a booking whose life is over really stops.

### Fairness, and why the code justifies it

* Repeatable BullMQ jobs (`jobs/jobs.scheduler.ts`: holds, the outbox and ticket
  sweeps, dunning, the hourly SLA sweep) run for ever: weak fairness on the steps
  of each worker; strong fairness where a step waits for a row another
  transaction may lock again and again.
* Reconciliation runs every 15 minutes, and a run goes on or dies: weak fairness on
  `ReconStep`. A run may die each time, or throw for each row, so recovery also
  needs that time and again there is a run in which nothing fails, late enough
  for every INITIATED row there is: strong fairness on `SoundRun`. That a given
  row gets onto the list is not assumed. Rows whose guests gave up stay INITIATED
  and keep their places among the 100 oldest for ever, so `ReconRecovers` promises
  recovery only to rows on the list.
* The queue's workers keep taking and running broadcast jobs: weak fairness on
  `Broadcast`. Deaths and throws are not fair, and bounded by the queue itself.
* A transaction ends, by commit or roll-back: weak fairness on the disjunction
  of a request's last steps. Time passes for a row that waits for its next
  attempt.
* Nothing is assumed of guests, hosts, admins, operators, providers, the gateway
  or webhooks.

In the runs of several components the fairness of a service is that of its own
specification; it constrains only the behaviours that exercise the service.

## 5. The proofs

| Module | Theorems |
|---|---|
| `BookingStateMachine_proofs` | `TableUnambiguous`, `TargetIsStatus`, `RefundedIsFinal` |
| `Reservation_proofs` | `CalendarTyped`, `HoldsAreExclusive`, `BookedHoldSurvives`, `SoldOnce`, `HoldHonoured`, `HoldsImplementBoard` |
| `Payments_proofs` | `MoneyTyped`, `LedgerBooksOnce`, `PaidInFull`, `ExtraCaptures`, `NoRefundExceedsCollected`; `BookingsAreComposed`, `BookingsTyped` |
| `PayLater_proofs` | `PlanTyped`, `LedgerBooksInstalmentsOnce`, `InstalmentsInOrder`, `CompleteMeansPaid` |
| `Hosts_proofs` (`Seats`, `Payout`, `Amounts`) | `SeatsTyped`, `NeverOversold`, `SoldOnSale`, `OnSaleAsVetted`; `PayoutTyped`, `LinesAndBatchesAgree`, `LedgerIsSound`, `NoLineChangesBatch`; `AmountsTyped`, `CapturesMakeThePrice`, `HostIsPromisedTheStay` |
| `Outbox_proofs` | `OutboxTyped`, `NoneIsStranded`, `SentOnce`, `OnlyUnsendableFail`; `LifecyclesAreComposed` |
| `Jobs_proofs` (`Sos`, `Concierge`, `StayPass`) | `SosTyped`, `IncidentAdvances`; `ConciergeTyped`, `ClockFollowsTalk`; `PassTyped`, `RevokedForGood`; `JobsAreComposed`, `JobsTyped` |
| `Accounts_proofs` (`Idempotency`, `RefreshTokens`, `Rewards`, `Itinerary`) | `KeysTyped`, `HandledOnce`; `TokensTyped`, `OneUsableToken`, `TheftNeedsReplay`, `SessionsListLogins`; `RewardsTyped`, `PointsAddUp`, `CreditedOnce`, `DepositedOnce`; `PlannerTyped`, `PlanFollowsTalk`, `OverrunIsBounded`, `LeaseFreedByOwner`; `ServicesAreComposed`, `ServicesTyped` |

They hold for any sets of guests, holds, ranges, requests, orders, months, lines,
batches, keys, workers, operators, processes and rows, for any prices, discounts
and limits, from the named ASSUMEs of the modules alone, which TLC evaluates on
every run. Where a sum or a count is over a set, the set is assumed to be finite
(orders in `Payments`, requests in `Itinerary`), as the rows and requests of one
booking or guest are; `IdemAssumption` says that there is a key and a body.

*Compositions.* A run of several components is only worth what it says of each
of them. `BookingsAreComposed`, `LifecyclesAreComposed`, `JobsAreComposed` and
`ServicesAreComposed` show that every behaviour of the composed specification is
a behaviour of each component's own, so that each theorem about a component
holds in the composition; `BookingsTyped`, `JobsTyped` and `ServicesTyped` use
that. They are about initial states and steps, and about fairness where the
composition states it as the component does (`Sos`); that a service's fairness
carries over otherwise needs ENABLED.

*Reservation.* No property is inductive by itself. `IInv` adds what a request
knows between its read and its write (`ReadWell`: the status it read allowed
its event, and since then the row has not become pending again), what it has
written but not committed (`WrittenWell`: a pending booking over a raw hold, or
a sold status on a row that is not pending), and that row locks exclude each
other. The sale argument: a booking enters a sold status from PAYMENT_PENDING
only in a SERIALIZABLE step that checks for clashes, and from a cancelled status
only by a stale write, which puts it in `revived`. For the refinement,
`OneRawHoldEach` says that a guest has at most one unbooked hold, so that the
end of a hold is the end of the lease.

*Payments.* `PInv` adds that only what was paid is ever reported
(`OnlyPaidIsReported`), that a booked row says CAPTURED until it is overwritten,
and that every confirmed status, and every confirmed status a request has read,
is backed by money that came in (`StatusIsBacked`, `TaskIsBacked`); money never
goes away, so a stale read still witnesses it. For the refunds, `RefundInv` adds
that the sum a request has read is at most what the booking had brought in by
then (`TasksWithinCollected`). Captured rows are rows paid at the gateway, so a
sum over the first is at most a sum over the second (a lemma on counts of finite
sets), and what is collected never falls: a refund computed from a sum that is
stale is too small, never too large. The sum of several refunds has no such
bound, as `over_refund` shows.

*PayLater.* `IInv` adds that an order exists only for an instalment whose
predecessors are paid (`OrdersInOrder`), that nothing is paid before there is a
plan, and that a request ready to fire its event has read a status the event may
leave. Paid instalments only become more, so what admitted an order still holds
when its capture is reported.

*Payout.* `PayoutInv` adds that lines read as ELIGIBLE never fall back short of it
(`RunsReadOpenLines`) and that the lines of an existing batch never change
(`PaysReadTheirBatch`), so the ledger entries of a payment, taken from the read,
are those of the lines it updates.

*Amounts.* One lemma bounds `Math.round`: twice the rounded quotient is within
the divisor of twice the quotient (`RoundedIsNearest`). From it follows that
the two shares of the host make the price of the stay or one paisa more
(`SharesMeet`): the code rounds each line by itself, and `host_share` shows that
the paisa is real. That the captures make the
price follows from the place of the remainder, which goes to the earliest
instalments, one paisa each.

*Seats.* `SeatsInv` says what a snapshot is worth (`SnapshotHolds`): a transaction past its lock has
the status and the capacity of the row as it is now and at least the seats sold
now, because whatever commits in between sends open transactions back to their
start and the lock keeps the others out. A resize is safe for the same reason.
For `OnSaleAsVetted`, `VettedInv` adds that an edit under way over an approved
experience either resets the status when it writes, or crossed the decision that
approved it.

*Outbox.* `OutboxInv` says what a dispatcher's place implies about the row in its
hand (`HandOK`), what the status of a row implies about its attempts and its
address (`RowOK`), and that an undisturbed row is in at most one hand, was sent
at most once, and is then SENT or about to be marked (`CalmOK`). A row that is
PENDING has attempts left, so it can be claimed again (`NoneIsStranded`);
a row is given up only if it was never sendable (`OnlyUnsendableFail`).

*Sos.* While no write crossed another, what an operator has read is behind or at
the incident's status, and if it is the status itself, whoever acknowledged it
is the one he read (`UncrossedIsInOrder`); so his write moves the incident on. `JobHasRuns`
keeps the tries of the broadcast within those the queue is configured with.

*Concierge.* `ClockIsOfLatest`: the latest message is stored, and once its touch
is done the clock is that message's, unless a touch was out of order. Sweeps
write the breach flag and close threads, never the clock.

*StayPass.* `ScansRead`: a check-in writes a status only if the table has a
transition for the one it read, so every booking keeps a status. Tickets are
written from lists that may be stale; none of these writes touches `revoked`
but to set it (`RevokedForGood`, which says more than `CancelledIsVoided` needs,
and for every step).

*Idempotency.* `HoldersRule` ties each request past `create` to the row: a key
has one holder, the row is PROCESSING with his body, nobody was answered under it
before he is about to store his answer, and, unless the key is torn, the handler
has run once if he is about to store it and never if he is not. `RunsShow` is the
rest: no row, no run, unless the key is torn; COMPLETED, a run. Only the count of
runs gives way for torn keys: a key that was answered keeps its row and its body in
any case.

*RefreshTokens.* `RowsFit` says that tokens, families and requests name rows that
exist, and that a token is used exactly when it has been shown. `ChainsAreSingle`:
an unforked family has one unused token or one request about to issue it, and
one request at most about to use it up. `SessionsFollow`: an undisturbed family
that is live is not being logged out, one that is being refreshed is live, and a
session outlives its family only until its logout ends. `LoginsLast`: a family
that is live has a token to refresh with, or a request about to issue one, or is
stranded.

*Rewards.* The three handlers read, decide and write by id. `AwardsAreApart`,
`CreditsAreApart` and `DepositsAreApart` say the same of each: unless two of
them crossed, one at most is between read and write, and what it has read is
still the row.

*Itinerary.* `LeaseIsKeptByHolder`: a process whose kept token is the one under
the key took the lease, since a token is drawn from those stored nowhere.
`TalkIsInOrder`: a message still to be written has read the plan as it is, up to
messages that overlapped it. `OverrunIsInFlight` is inductive: a request passes
the cap only below it, and its cost moves from "in flight" to "used".

Some theorems state properties no run lists, since the runs are limited to those
with the most to say: `LedgerBooksInstalmentsOnce`, `LedgerIsSound`,
`NoLineChangesBatch`, `HostIsPromisedTheStay`, `NoneIsStranded`,
`OnlyUnsendableFail`, `RevokedForGood`. TLC confirmed each on the instance of its module before it was
proved, and so the inductive invariants.

Model-checked only:

* liveness, since fairness and ENABLED are beyond the prover: `ExpiredHoldsReaped`,
  `ReconRecovers`, `ArrearsAreDunned`, `CancelledIsVoided`, `SealedWhileInReach`,
  `EveryChannelIsTried`, `LapseIsAlerted`, `EveryRowSettles`;
* the counterexamples of the eight violation runs.

## 6. What is left out

### Abstracted within the models

* Prices: in `Payments` a booking costs `Total`; how the total comes about is
  `Amounts`, which takes the nights and cleaning, and the add-ons, as one sum
  each. Validation of dates and guests and the signature of a quote are left out.
  A cancellation refunds a percentage of the price, capped as the code caps it.
* The calendar (`availability.service.ts`): a query. The hosts' blocks, which it
  shows, are `blocks` of `Reservation`.
* Refunds at the gateway: the code records refunds and never calls
  `razorpay.createRefund`, so `refund.processed` is not modelled.
* One listing, one booking or one plan at a time: the loops of the booking jobs
  over several bookings are not modelled. In `autoCancelUnpaidBalance`
  (booking.service.ts:1166) one booking that throws stops the loop for those
  after it.
* ON_HOLD and REVERSED payout lines (`docs/state-machines.md`): nothing writes
  them, and `handleRefundAfterPayout` has no caller.
* Audit rows and log lines, but for the audit entry whose failure frees an
  idempotency key. The weekly payout job signs its audit entry `system`
  (weekly-payout.processor.ts:18), which is no user: where the foreign key is in
  place, each scheduled batch is rolled back and batches are made by admins alone.
* Passwords, one-time codes, MFA and Auth0: a login ends in a new family or does not.
* Prompts, grounding, parsing and validation of plans: the model's answer is a
  change, no change, or a failure.

### Components not modelled

* **Abandoned bookings**: a booking nobody pays stays PAYMENT_PENDING and keeps its
  nights closed; availability.service.ts:27-29 calls that state a transient hold,
  but no job ends it. There is no step to model.
* **Investor distributions**: each close overwrites one row per investor and period
  whatever its status, so a recomputation turns PAID into CALCULATED
  (investor.service.ts:493-647). There is no guard or protocol to check.
* **Add-ons**: catalogue CRUD with a moderation status written by id; rows are
  copied from the signed quote and marked in the cancellation's transaction.
* **Trip groups**: CRUD by one owner; balances are a query over the expenses.
* **Guest, host, CRM and content services, ad-hoc chat**: one statement each, or
  append-only. **Assistant**: a query with a model call. **Storage**: pure I/O.
  **Web front end**: presentation, no authoritative state. **`apps/api/dist`**:
  compiled from `apps/api/src`. These make up most of the repository's lines.

### Seen while modelling

What the models take over from the code as it is, and a maintainer may not expect:

* The calendar says its statuses are exactly those of the booking engine
  (availability.service.ts:7-9). Its list has CHECKED_IN and the engine's three
  lists have not: nights of a guest who has checked in are shown as booked, and
  can be held and confirmed.
* `manualConfirm`, `collectOnArrival`, `manualCheckIn` and the balance-due job run the
  state machine on a row read before it is locked, and write the target by id: they
  may overwrite a cancellation, or a payment, that committed in between
  (booking.service.ts:435). The payments survive it, the status does not.
* A reconciliation run lists the 100 oldest INITIATED rows
  (payment.service.ts:475-483). Nothing ever closes the row of a guest who started a
  payment and gave up, so behind a hundred of those a newer capture that lost its
  webhook is never asked about. A row that `payment.failed` has put to FAILED is
  not on the list either, though a later attempt of its order was captured.
* If a price is odd, its deposit is a paisa more than its balance: a second DEPOSIT
  order, paid, is refused as an amount mismatch by `settleBalance` each time it is
  reported (booking.service.ts:868-876), and its row stays INITIATED.
* A guarded handler that throws after its work is done, because the audit entry
  after the transaction or the row after the gateway order fails, has its
  idempotency key deleted (idempotency.interceptor.ts:99-104): the client's retry
  under the same key does the work again.
* The dunning sweep writes OVERDUE and DEFAULTED by id over a plan that was COMPLETED
  or CANCELLED since it was read (pay-later.service.ts:346, 381); such a plan takes
  instalment orders again.
* A dispatcher's `markSent` follows a refused mail as well as an accepted one
  (notification.service.ts:433-436, 451-454), so the retries described in
  outbox.service.ts:53-55 concern only failures before the provider; for the same
  reason the SMS breaker of the SOS broadcast never leaves CLOSED. Investor
  notifications carry no address and always end FAILED.
* `createIncident` stores the incident and then queues its broadcast: a process
  that ends in between leaves an open incident nobody is told of
  (sos.service.ts:120-142). A broadcast that runs again tells every channel again.
* The SLA sweep alerts "exactly once per thread" (jobs.scheduler.ts:155-156) only
  if no sweeps overlap, none ends between flag and notification, and the guest
  does not write again.
* A message in flight when an itinerary is finalized still changes it
  (itinerary.service.ts:543). Answers that fail validation, calls that are
  retried and a crash before `recordUsage` cost money that the monthly cap never
  sees; a release frees a lease that another request of the same process has
  taken meanwhile.
* `awardPoints` reads and writes the membership row in two statements and loses an
  award when two cross; manual and bulk completion award nothing; a referral is
  not paid if the count of completed stays passes from none to two.
* `paymentRef` of a deposit is looked up and is not unique (sip.service.ts:112-127);
  `setStatus` may reopen a CLOSED plan.
* Reuse of a refresh token revokes its family and leaves the session listed
  (auth.service.ts:168-188), while the answer says that all sessions are revoked;
  a refresh that ends between `usedAt` and the new token (203-212) leaves a session
  listed that cannot be refreshed, and the guest's retry looks like a theft; two refreshes that overlap fork the family; the web
  client has no single flight for them (apps/web/lib/api.ts:138-165).
* An idempotency key whose request was cut off stays PROCESSING and is refused for
  ever: `expiresAt` is never read.
* Later instalments write no payout line (`recordInstalmentCapture`), so a Pay
  Later stay promises the host the share of its first instalment only.
* A permanently failing ticket stays at the head of the render list, oldest first.
