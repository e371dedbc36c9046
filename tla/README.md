# TLA+ verification of the ypa-center backend

The backend of a children's centre (Django, Postgres, Redis, Taskiq): parents
buy subscriptions for weekly classes, pay through an external provider
(YooKassa), attend lessons and get the unused rest back as a deposit. What can
go wrong with it is seldom in one function. It is in two database transactions
that interleave, a webhook that comes after a timeout, a worker that dies
between a provider's payout and the row that records it. This directory models
those parts in TLA+, checks them with TLC on small instances and proves the
central properties with TLAPS for every value of the constants.

Paths below are relative to the repository root (`src/` here is its copy);
`services.py` without a directory is `apps/billing/services.py`.

## 1. Inventory

| Component | State it keeps | Operations | Interaction and hard behaviour | What makes it correct |
|---|---|---|---|---|
| Checkout idempotency (`services.py:313-553`, `billing/views.py`) | one `IdempotencyRecord` per key: status 202/201, fingerprint, body, `locked_until`, `lock_token` | reserve, take over, finalize, release, purge | calls of one client race, stall past the reservation, die; the daily purge | one order per key; its answer stays available; nobody is told of an order that was rolled back |
| Orders, seats, deposits (`services.py:366-1018`, `1159-1224`) | `Transaction`, `Subscription`, `Enrollment`, `ParentDeposit` and its journal | checkout, prepaid fulfilment, provider verdicts, TTL sweep, expiry sweep, freeze, admin change | webhooks and two cron sweeps settle the same order; holds die of age before they are swept; seats are sold while a payment is under way | no overselling, one verdict per order, sessions or money back and never both, deposit equals journal |
| Compensation refunds (`services.py:1021-1108`, `billing/adapters.py`) | `requires_compensation`, `compensation_claimed_until`, refund metadata | list, claim a lease, call the provider, record, quarantine | overlapping cron runs and retries; lost answers; dead workers; repeated webhooks | paid out once, recorded truthfully, every demand closed, parallel calls kept apart |
| Tokens and attendance (`services.py:263-310`, `1227-1296`) | `Attendance.status/token_debited`, `SubscriptionSlot.remaining_tokens` | mark, correct, debit, refund, settle at expiry | two teachers mark one lesson; the subscription is read without a lock while the sweep settles it | tokens are conserved, every debited session is charged |
| Journal (`apps/journal`) | `Lesson`, attendance marks | `open_lesson`, morning task | reads masks and enrolments outside the transaction that writes; delivered again after a death | every lesson of the day is open with its marks, and a teacher's correction stays |
| Schedule (`apps/schedule`) | group slots, masks (cancel, reschedule) | create masks, week grid | room and teacher locks; edits of the grid do not take them | no two lessons in one room or of one teacher |
| Events (`apps/events`) | `Event.seats_taken`, registrations | register, cancel, TTL sweep, admin forms | denormalised counter moved by several writers; the sweep acts on a list it read before, a form on a row it read before | counter equals live registrations, at most the capacity |
| One-time codes (`apps/users/services.py`) | OTP rows, attempts | request, verify, purge | concurrent requests and verifications of one address, snapshots older than the lock they wait for | one working code, bounded guesses, one session per code |
| Public forms (`apps/public_forms`) | lead rows | submit, notify | commit, then enqueue, at-least-once delivery | an accepted form is notified, the task never runs ahead of its row |
| Public API and cache (`apps/public_api`, `apps/core/caching.py`) | cached payloads | fill, invalidate | a slow producer against an invalidation; signals sent before the commit | no payload staler than its TTL, edits visible at once |
| Task broker (`config/tkq.py`) | Redis stream, pending list, retry labels | deliver, retry, reclaim, acknowledge | a death between effect, retry and acknowledgement; a slow worker whose message moves to another | nothing accepted is lost, nothing is retried without end |
| Personal account (`apps/me`) | read models, single rows | upcoming feed, profile edits | projects the timetable with code of its own | the feed agrees with the public grid |
| Catalog, content, dashboard, middleware | single rows, read models | CRUD | none of their own | - |

`PROJECT.json` lists every component with its status, and the hazards with the
line where each one bites and the property that would catch it.

## 2. Modules and the code

Each component is a module of its own; the variables of one module that stand
for state another one owns are named in the header of the module. The `Proofs`
modules extend the component's module, the `MC` modules instantiate it.

| Module | Component | Instances | Proofs |
|---|---|---|---|
| `CheckoutIdempotency` | checkout idempotency | `MCCheckoutIdempotency` | `CheckoutIdempotencyProofs` |
| `Orders` | orders, seats, deposits | `MCOrders` | `OrdersProofs` |
| `Refunds` | compensation refunds | `MCRefunds` | `RefundsProofs` |
| `Tokens` | tokens and attendance | `MCTokens` | `TokensProofs` |
| `EventSeats` | events | `MCEventSeats` | `EventSeatsProofs` |
| `ScheduleMasks` | schedule | `MCScheduleMasks` | `AgendaProofs` |
| `Agenda` (extends `ScheduleMasks`) | journal and parent's feed on top of the timetable | `MCAgenda` | `AgendaProofs` |
| `OneTimeCodes`, abstract `LoginCode` | one-time codes | `MCOneTimeCodes` | `OneTimeCodesProofs` |
| `TaskDelivery` | public forms, webhooks and mails through the task broker | `MCTaskDelivery` | `PublicSiteProofs` |
| `PayloadCache` | public API and its cache | `MCPayloadCache` | `PublicSiteProofs` |

How they fit: the order transaction that `CheckoutIdempotency` treats as one
step that commits or fails is `Checkout` of `Orders`. An order with
`compensation` in `Orders` is a member of `Txs` in `Refunds`; one that the TTL
sweep had taken down is in `Late` there. An order with `granted` in `Orders` is
the subscription of `Tokens`, and the parameter `used` of `SweepExpired` in
`Orders` is the number of sessions `Settle` charges in `Tokens`. `Agenda`
composes the timetable with the journal and the feed: every step of
`ScheduleMasks` is a step of it. Its marks are those of `Tokens`, which says what
becomes of the tokens. `TaskDelivery` is the way from `Enqueue` of
`OneTimeCodes`, from the webhook view to `ConfirmPayment` of `Orders`, and from
a stored form to the managers. `EventSeats` and `ScheduleMasks` share no state
with billing: events have seats and payments of their own, and billing sees the
schedule only through its port.

### CheckoutIdempotency

One key, any number of calls. The autocommit statements of `create_payment`
(the two SELECTs and the INSERT of `get_or_create`, the takeover UPDATE, the
release DELETE, the re-read after a lost lock) are separate actions. The order
transaction ends with the finalize UPDATE that holds the row to COMMIT, so
finalize and the order are one action, `Commit`. The `lock_token` (uuid4) is
the call itself, the stored body is the call whose order it describes. A call
may stall anywhere (the clock goes on) and may be killed anywhere.

### Orders

One action per database transaction. That this is the right grain rests on the
locks of the code: transactions of one order serialize on its `Transaction`
row (`select_for_update`), transactions that take seats of a slot on the slot's
advisory lock (`core/locks.py`), deposit movements on the `ParentDeposit` row.
What a transaction reads before its locks is either terminal or tested again
under them. Sweeps are one action per row because each iteration commits on
its own. A checkout that raises rolls everything back and is not a step.

`Checkout` includes the cancellation of stale holds in the booked slots, the
deposit part and the immediate activation of an order the deposit pays in full.
`Activate`, `CompensatePaid`, `FailMismatch`, `LateSuccess` and
`ApplyCancellation` are the branches of `confirm_payment`. The task that calls it
may spend its retries without reaching the provider; then the verification is
dropped (`DropVerification`) and only another webhook leads to it. The schedule port
(`billing/ports.py`) has no implementation in the repository: capacity, removal
and the first lesson are choices of the environment.

Left out: an order whose transaction has an empty `external_id` (creating it
stores one, so the branch is not reachable); the administrator may set any
status in the subscription form, of which the model has cancellation only.

### Refunds

`issue_pending_refunds` as a program of each worker: list (`Begin`), claim UPDATE
(`Claim`), provider call (`CallReturns`, `CallBreaks`), and the closing transaction
(`RecordRefund`, `QuarantineRefund`). The clock matters: a lease is `moment +
_REFUND_CLAIM_TTL` with `moment` read once per run. A tick is the unit of the lease;
statements take no tick and a call at most `CallTimeout`. One call fits into a
lease, a batch need not. The provider pays once per `Idempotence-Key`, so its book
is a set of keys.

### Tokens

One subscription. A call of `set_attendance_status` locks the attendance row
and reads enrolment and subscription without locks (`SetStatus`), then locks
the slot row and commits (`DebitToken`, `RefundToken`). The sweep holds the slot
rows from reading to COMMIT and no call keeps one between steps, so the sweep
is one action. The change form of an Attendance (`billing/admin.py:147-186`) is
two actions, `FetchMark` and `SaveMark`: it reads the row without a lock and
writes every column back, moving no token. The history variable `edited` holds
the marks a form has left apart from their tokens, and the properties speak of
the slots without such a mark. The form's enrollment field and the form that
adds an Attendance are left out.

### EventSeats

One event. `register_for_event` and `cancel_registration` are one transaction
each under the event's row lock. The TTL sweep and the admin action "cancel"
list registrations first and cancel them one transaction at a time, so a list
is state (`todo`) and a confirmation, another list or the death of the worker
may come between. The status `NEW` exists but no code path creates it. Each
change form is two actions: `FetchEvent` and `FetchRegistration` read the row
without a lock, `SaveEvent` and `SaveRegistration` write all columns, the counter
of the event and the status of the registration included, as they were fetched. The
history variable `overwritten` says that a stale counter was written back, or a
stale status that blocks seats where the current one does not or the other way
round; the database then may refuse a cancellation that would make the counter
negative (`CancelFails`).

### ScheduleMasks

`create_schedule_mask` as a program: row of the group, advisory lock of the
room, of the teacher, collision checks, insert. Who holds a lock follows from
where each call stands. The collision checks are the two queries of the code
(`GridCollision`, `MaskCollision`); what is shown to clients is the projection of
`build_week_grid` (`Projected`), a different computation, and `NoDoubleBooking`
is stated on the projection. Edits of groups, time slots and activities are
actions under the exclusion constraints of the grid, and the history variable
`edited` remembers whom they touched. The two check queries of a call are one
step: masks are never deleted and the locks keep other landings out, so
between them the answer can only become more cautious.

### Agenda

`materialize_today_lessons` as a program of each execution: the date and the list
of groups (`StartMorning`), the reads of `open_lesson` outside any transaction
(`CheckGroup`), its transaction (`WriteLesson`). Executions overlap and die, the
teacher takes children off, enrolments change and all of `ScheduleMasks` goes
on. The feed of a parent (`Feed`, from `build_upcoming_feed`) and the public grid
(`Projected`, from `_project_schedule`) are different code over the same rows;
`FeedMatchesGrid` compares them, dates and times. Neither the feed nor the journal
follows a lesson to another day; the properties leave such a lesson out
(`MovedAway`, `MovedIn`) and say so.

### OneTimeCodes and LoginCode

One address. The model is as fine as the races of READ COMMITTED: the clock of
`request_otp` is read before its transaction (`StartRequest`), the try-lock on the
email and the cooldown are one step (`Admit`, `Refuse`), the burning UPDATE
waits for rows that a verification holds, and what it has locked becomes visible
with the insert (`Issue`). `verify_otp` takes a snapshot (`Select`) and then locks
the newest row of it; a row that was burned or deleted during the wait is
dropped and the next row of the same snapshot is tried (`LockNewest`), which is
what Postgres does. Codes are abstracted: a guess is right or wrong.

`LoginCode` is what all this promises, in four actions without rows, locks or
clocks: a code is issued and replaces the one before, is guessed wrongly at
most `MaxAttempts` times, is redeemed once, or lapses. The refinement maps the
working code to the newest unused row (`LiveCode`), the wrong guesses to the
`attempts_count` of that row; `ImplementsLoginCode` checks it step by step.

### TaskDelivery

Three kinds of jobs (a form, a payment's webhook, a code's mail) from the web
process to the acknowledgement. The stream and the pending list are bags of
messages (job, retries), kept as the number of messages of each job and label. The
broker and the retry middleware are libraries, modelled from how `config/tkq.py`
configures them: the message of a killed worker stays in the pending list and is
reclaimed (`Reclaim`). So is that of a worker which is alive and takes longer than
`reclaim_idle_timeout_ms` (`ClaimSlow`): the comment there asks for a value above the
longest task, but nothing enforces it. Then two workers execute one entry, and the
XACK of either removes it, also from under the other. An error of a task with
`retry_on_error` enqueues a new message with a higher label before the old one is
acknowledged; `max_retries` 5 is five executions of a chain. The mail task has no
retries. The specification is `DeliverySpec` (`DeliveryInit`, `DeliveryNext`), so that one
module of proofs can extend both parts of the public site.

### PayloadCache

Pages share no key, so a behaviour follows one page, chosen at the start, under
all kinds of saves. A payload is abstracted to its lag: 0 if it has every commit
the page reads, otherwise the age of the first commit it lacks. What a page
reads comes from its view and serializer (`Reads`), what a save drops from its
receiver (`Drops`), and the two are compared by the properties. A save inside a
transaction sends its signal before the commit, one outside after it, and
`QuerySet.update` sends none.

## 3. Runs

TLC ends with no error on the runs marked pass; the other two show
disagreements between the code and its own documents (section 4).

| Run | Configuration | Shows |
|---|---|---|
| `CheckoutKey` (pass) | 3 calls, 2 bodies, reservation TTL 1, record TTL 2, clock to 5 | `OneOrderPerKey`, `CommittedOrderIsStored`, `ReportedOrderExists`, `ReservationIsRespected` |
| `CheckoutLockLost` (violation) | the same, clock to 3 | `AnswerMatchesRequest` fails |
| `Orders` (pass) | 2 orders of one parent, 2 slots, one shared, capacity at most 1, clock to 4, fairness | `SeatsNotOversold`, `SettledOnce`, `CompensatedOrderIsDead`, `SessionsOrDepositBack`, `DepositMatchesJournal`, `ActiveHasItsSeats`, `HoldsEnd`, `PaidIsAnswered` |
| `RefundsQueue` (pass) | 2 workers, 2 transactions (one late), lease 1, call 1, clock to 4, 1 fault, 2 webhooks, fairness | `PaidOutOnce`, `RecordedRefundIsReal`, `OverlapsAreSpaced`, `CompensationsClose` |
| `RefundsOverlap` (violation) | the same, without fairness | `NoParallelRefundCalls` fails |
| `TokensCalls` (pass) | 3 lessons over 2 slots, 2 calls, 2 forms | `TokensConserved`, `UsedSessionsAreCharged`, `DebitedWasAttended`, `SettledBooksBalance` |
| `EventSeats` (pass) | 2 parties, capacity at most 2, a sweep, an admin request, an administrator with change forms of the event and of registrations, clock to 2, 1 death, fairness | `CounterMatches`, `NeverOverbooks`, `UnpaidIsDecided` |
| `ScheduleMasks` (pass) | 2 groups, 2 calls, 3 rows, 4 overrides, a week of two days, 1 edit, fairness | `NoDoubleBooking`, `CallsEnd` |
| `Agenda` (pass) | 2 groups, 1 child, 1 mask call, 3 rows, 2 overrides, 1 execution that may be repeated, a week of two days, 1 edit | `AbsenceIsKept`, `MorningIsComplete`, `FeedMatchesGrid` |
| `OneTimeCodes` (pass) | 2 requests, 2 verifications, 2 codes, 1 guess, cooldown 1, TTL 2, retention 1, clock to 6, fairness | `OneLiveCode`, `CooldownKept`, `GuessesBounded`, `ImplementsLoginCode`, `CodesAreForgotten` |
| `TaskDelivery` (pass) | a form, a payment with 1 webhook and a mail, two of them at a time, 2 workers, budget 2, 1 death, 1 slow execution, fairness | `AcceptedIsNotLost`, `ExecutionsBounded`, `AcceptedIsResolved` |
| `PayloadCache` (pass) | 2 activities (8 pages), 2 editors, 2 visitors, TTLs 3 and 1, production at most 2 | `StalenessBounded`, `QuietEditIsVisible` |

Every module has a type invariant (`TypeOK`, `AgendaTypeOK`, `DeliveryTypeOK`). The
runs check those of `Orders` and `Tokens`, whose types say that no deposit and no
token balance goes negative; the theorems `TypeCorrect` (and `AgendaTypeCorrect`,
`DeliveryTypeCorrect`) prove those of all modules for every value of the constants.

### Bounds and why they are enough

- `CheckoutKey`: the protocol fails, if it fails, between an owner, a call that
  takes over and a third that comes while the first two are in flight. Clock
  and TTLs let two takeovers and a purge happen in one behaviour.
- `Orders`: the two orders are of two children, compete for the shared slot and
  share a deposit that pays the second in full. Two slots make the loss of a part
  of a booking possible; capacity 0 or 1 changes under way. A hold dies after
  two ticks, the clock allows checkout, expiry of the hold, a booking by the
  other order and a late payment, or a month, a freeze and the expiry sweep. Used
  sessions at base price can cost more than the purchase, so the clamp of the
  credit is reached.
- `RefundsQueue`: two calls of one tick against a lease of one tick, as 500 calls of
  5 s stand against a lease of 600 s: the second lease of a batch is at its end
  when its call begins, and runs do overlap. Both workers, a fault and a repeated
  demand fit into the clock. `ChunkSize` 2 makes one batch hold both
  transactions; a queue longer than a batch is not exercised. The second webhook
  comes after the compensation it demands was closed.
- `TokensCalls`: two lessons of one slot with one token compete for it, a third
  lesson shows that slots are independent. Two forms: one row is fetched by a
  form, changed by a call and fetched again.
- `EventSeats`: the sweep and a request list the same registration, one of them
  dies or is overtaken by a confirmation, and a form of the event or of a
  registration overlaps all of it; the larger party does not fit where a single
  guest does.
- `ScheduleMasks`: a collision is between two groups and a wait between two
  calls, so two of each suffice. The overrides move a lesson to another day, to
  another room and teacher, to another teacher, and in time only, so that
  landings share a room, a teacher, both or nothing. One week: the code never
  moves a lesson out of its week.
- `Agenda`: one execution is idle, at work or dead again and again, so repeated
  delivery is covered by one; two groups let a task fail on one of them with the
  other open or not. Two overrides: to another day, and to another time.
- `OneTimeCodes`: one code supersedes another, two requests race for the email,
  two verifications for a row, and a request for the row of a verification;
  more codes repeat the same pairs. The clock covers cooldown, expiry and
  retention of both. `MaxStall` bounds a request; `OneTimeCodesAssumption` says
  that it is no longer than the TTL without the cooldown, four minutes in the code.
  That is an assumption on the deployment: no limit on a single request is
  enforced in the repository (`Dockerfile:36`, gunicorn with threads).
- `TaskDelivery`: two workers, so that a slow one is overtaken and either may
  acknowledge first; two executions of a chain have a first and a last. With one
  death and one slow execution a chain is split at most twice. Jobs meet only at the
  workers, so a behaviour has requests for at most two of the three (`TwoJobs`). With
  one webhook per payment its deaths, retries and claims are still all there; several
  webhooks are left to the theorems.
- `PayloadCache`: two editors give an edit that commits while another page
  version is stored, two visitors a slow producer and a fast one. The two TTLs
  differ so that the events page is told apart. The lag is cut off beyond every
  bound the properties mention (`MaxLag`).

`MaxTime` bounds clocks (and in `Orders` the checkouts, so that every hold can
outlive its TTL, and freezes), `MaxFaults` kills and network errors,
`MaxKills` deaths of the event workers, `MaxDeaths` those of the task workers,
`MaxSlow` the messages claimed from slow ones,
`MaxEdits` edits of the grid, `MaxForms` change forms of attendances, `MaxWebhooks`
repeated webhooks, `MaxTokens`, `LastRequest` and `Horizon` the codes and their
clock, `MaxCapacity` seats, `Weeks` the dates. Deadlock is checked in
`OneTimeCodes` and `PayloadCache`, where something can always be asked for. It is
not checked elsewhere: a behaviour in which the clock has reached its bound and
every order is settled, every call answered, every lesson swept, every task
acknowledged has come to its end, and the system may indeed be idle for ever.

Symmetry is used only in runs without liveness: calls with the same body in
`CheckoutKey`, the two lessons of one slot and the calls in `TokensCalls`,
activities, editors and visitors in `PayloadCache`.

### Fairness

- `Orders!FairSpec`: the clock goes on and the cron task
  `sweep_billing_states` runs every five minutes and takes every stale order, so
  `SweepStale` is weakly fair for each order. `ConfirmPayment` is weakly fair as
  long as the verification is not dropped: a webhook is queued in Redis Streams,
  delivered at least once and executed again after an error until its budget is
  spent (`TaskDelivery` has that part). It may be dropped at any time.
  Nothing is assumed of clients, administrators or the provider's decision.
- `Refunds!FairSpec`: the cron task starts runs for ever, a live worker goes
  on, a call ends by its timeout, time passes. Faults are finitely many.
- `EventSeats!FairSpec`: the cron task of the sweep runs every ten minutes and a
  live run finishes its list; nothing is assumed of administrators.
- `ScheduleMasks!FairSpec`: strong fairness of the two lock steps, because
  Postgres queues the waiters of a lock and serves them in turn, so a call that
  could get the lock again and again gets it.
- `OneTimeCodes!FairSpec`: a request that was admitted and a verification that
  holds its row go on, time passes, the hourly purge runs. The burning UPDATE
  and the purge wait for row locks that ever new verifications may take; they
  are strongly fair for the same reason. Nobody has to ask for or enter a code.
- `TaskDelivery!FairDelivery` (in the run with `TwoJobs`): a worker is restarted and
  goes on with the stream and the orphaned messages. Deaths and slow executions are
  finitely many; no execution has to succeed, and none has to be claimed early.

## 4. Findings and observations

The run `CheckoutLockLost` must fail: on the lock-lost path (`services.py:476`) the
stored answer is returned without comparing fingerprints, so a call can be
answered with the order of a different body. `billing/models.py:313` and
`docs/api-core-contracts.md:408` promise a 409.

The run `RefundsOverlap` must fail: all leases of a refund batch are counted from its
beginning (`services.py:1043`), so in a batch longer than the lease a claim is born
at its end or past it, and the next run claims the transaction while the first is in its call.
`services.py:1033-1035` and `billing/models.py:181-182` say that a parallel tick does
not send a second `create_refund`, and `services.py:250-251` that the lease outlives
the call. With 500 entries, 5 s per call, 600 s of lease and a cron tick every ten
minutes (`billing/tasks.py:86`) a full queue on a slow provider is enough. In the trace a
run lists two transactions, spends a tick on the first and claims the second; a run
that begins later finds the second lease expired. `OverlapsAreSpaced` says how far
apart the overlapping runs are; the provider's key still prevents a second payout
(`PaidOutOnce`).

Other disagreements between the code and its documents, met while modelling.
The models behave as the code does; no run is spent on them.

Money and sessions:

- A payment that succeeds after the TTL sweep is always refunded
  (`services.py:596`); `docs/api-core-contracts.md:438-441` promises that the
  booking is revived while the seat is free.
- Closing a compensation resets the flag that the late-success branch tests
  (`services.py:600`): a repeated webhook demands the refund again, while
  `docs/api-core-contracts.md:430-431` says that it has no second effect.
  `PaidOutOnce` shows that no money moves twice.
- `refund_token` reads the status of the subscription without a lock
  (`services.py:1247`) and can add a token to a balance that the sweep has just
  zeroed, which the comment at 1244-1246 says is forbidden because it would put the
  books apart. `SettledBooksBalance` says what that token is: a session the parent was
  charged for and can no longer spend.
- The Attendance change form writes a stale row back and moves no token
  (`billing/admin.py:147-186`), while `docs/admin.md:53` says that changing the status
  moves the token in the same transaction.
- `open_lesson` (`apps/journal/services.py:38`) creates `ATTENDED` marks without
  a debit and re-marking them is a no-op, while `docs/project-context.md:211`
  says that a mark spends a token.
- A payment of another amount or currency than the order's closes the order as
  failed (`services.py:606-621`): the deposit part goes back, the money at the
  provider stays there and no compensation is demanded. `PaidIsAnswered` names
  this end (`ClosedOnMismatch`).
- A webhook whose retry budget is spent is dropped (`billing/tasks.py:62`), and no
  job reconciles payments with the provider; `PaidIsAnswered` names this end too. A
  refund the provider answers with `pending` or `canceled` closes the compensation;
  nobody asks again.
- An active subscription canceled in the administration keeps its seats: the
  expiry sweep looks at active subscriptions only.

Events, timetable, journal:

- The event form (`apps/events/admin.py:13-26`) saves `seats_taken` as it was
  fetched, though read-only; a registration in between is lost from the counter,
  which `apps/events/models.py:34` says only the services move. A cancellation
  that would make the counter negative is then refused and ends the sweep.
- The form of a registration (`apps/events/admin.py:29-45`) saves `status` as it was
  fetched, though read-only. A registration canceled in between comes back and
  blocks seats the counter no longer has; one confirmed in between goes back to
  pending and the sweep cancels it. `apps/events/admin.py:39-40` and
  `docs/admin.md:38` say that the status changes through services and actions only.
- The TTL sweep of events cancels what it listed even if it was confirmed since.
- An edit of the grid is checked against the grid and not against masks; a group
  that is moved, reopened or whose activity is switched on again can collide with
  a rescheduled lesson. The repository's `README.md:16` promises a schedule
  without collisions. `create_schedule_mask` has no caller outside the tests.
- A lesson moved to another day is opened in the journal, and shown in the
  parent's feed, on its old date and not on its new one
  (`apps/journal/services.py:63-67`, `apps/me/services.py:165-195`), against
  `apps/journal/tasks.py:9-10` and `apps/me/services.py:141-142`. The feed also
  shows groups of an activity that is switched off, which the grid hides.
- A group switched off while the morning task runs raises `DoesNotExist`
  (`apps/journal/services.py:26`), which ends the task; nothing repeats it.

Public site:

- `docs/admin.md:7` says that every edit is visible at once. Receivers leave some
  pages to the TTL (`LeftToTtl`): Enrollment, Parent and TimeSlot have none, the
  one of Activity forgets the teachers' page, that of TeacherProfile the pages of
  activities, that of Schedule the page a group was moved away from. And signals
  are sent before the commit of a form, so a visitor in between can store the old
  page again. `StalenessBounded` shows that the TTL bounds all of it.
- The mail of a one-time code is not retried; after a failure the user waits for
  the cooldown.

## 5. Proofs

All proofs are checked by TLAPS from the named assumptions on the constants
(`ParamAssumption`, `OrdersAssumption`, `RefundsAssumption`, `TokensAssumption`,
`EventAssumption`, `ScheduleAssumption`, `AgendaAssumption`,
`OneTimeCodesAssumption`, `PayloadCacheAssumption`, `TaskDeliveryAssumption`): types
of the parameters, finiteness of the sets that are counted, NULL values outside the
sets they extend, at least one week, lessons that end after they begin. Two
relations between constants are assumed: in `OneTimeCodes` a request stalls no
longer than the TTL without the cooldown (nothing in the repository enforces it), in
`Refunds` one call of the provider takes no longer than the lease of a transaction
(5 s and 600 s in the code). Otherwise the results hold for every TTL, price,
capacity and number of orders, calls or lessons. One theorem, `LeaseExclusive`, has
a hypothesis on the behaviour besides, see below.

Each argument has an inductive invariant in the component's module, `IInv` where
nothing else is said: `Init => IInv`, `IInv /\ [Next]_vars => IInv'`, `IInv` implies the
property.

- **CheckoutIdempotency.** `OneOrderPerKey` is not inductive: nothing in it says
  that the call about to commit finds no earlier order. `IInv` adds that an
  unpurged order is the stored answer (`CommittedOrderIsStored`), that stored and
  purged answers are those of committed orders, that a call with an order has
  returned, and that no call's clock is ahead of the database's. A call commits
  only over a row in progress, and then by `CommittedOrderIsStored` there is no
  unpurged order. `ReservationSafe` uses the clock part: a takeover compares
  `locked_until` with the caller's clock reading, which is never ahead.
- **Orders.** `IInv` says what every pair of transaction and subscription status
  may look like (`Unbooked`, `Waiting`, `Served`, `Unserved`). From it follow
  `DepositSafe`, `CompensationSafe` and `SeatsSafe`. The lemma `Frame` says that
  a step preserves the description of the orders it does not touch;
  `SettleUnserved` covers all ways of settling an order without serving it.
  `NeverOversold` counts: a step makes at most one more order occupy a slot,
  and only after finding a free seat; `VerdictsStand` goes through the actions.
  `DepositIsExact` is the balance of a deposit as the sum of its journal. The sum
  is the number of kopecks, pairs of an order and a number up to its entry
  (`Total`), because what a fold computes would need induction over a set; then
  `TotalMoves` says that a total changes by what one entry changes, and each of
  the three steps that move a deposit writes an entry of the same amount.
- **Refunds.** `PaidOutOnce` follows from the provider's key: what is paid out is
  paid under the key of the transaction (`PayoutsAreKnown`), whatever runs overlap
  or are repeated. A worker with a successful answer has its transaction in the
  provider's book, which gives `RecordsAreTrue`. `LeaseExclusive` is a theorem under
  a hypothesis, `Spec /\ []BatchFits => []NoParallelRefundCalls`: as long as the
  calls for all candidates together fit into one lease. In the code that is 120
  entries of the queue (600 s and 5 s per call); a full batch of 500 does not
  satisfy it, and `RefundsOverlap` shows what happens then. Its invariant: the lease
  of a transaction at work is the one its worker took (`LeasesAreHeld`), and the
  calls a run has left fit into what is left of its lease (`RunsAreTimely`).
  `LeaseSpacesRuns` says what is left without the hypothesis, and what
  `RefundsQueue` checks: two runs call for one transaction only if one began more
  than a lease after the other (`OverlapsAreSpaced`). Its invariant `SpacedInv`
  keeps the lease of an open compensation at least as long as any run busy with it
  asked for (`LeasesAreOrdered`), so a claim that goes through finds all of them run
  out. It excepts the transactions in `Late`: closing one clears the lease while
  another run may still be in its call, and a repeated webhook opens it again.
- **Tokens.** `IInv` is conservation, its form after settlement
  (`SettledBooksBalance`: what is left and what is debited is what was charged, so a
  late refund moves a token and does not make one), both for the slots no change
  form has left wrong, and `RowsAreHeld`: a call between its two steps holds its
  row, and the row is as the call read it. Without the last part a debit could
  raise a flag twice. After settlement no debit goes through, because the balances
  are zero; a token that a late refund put there could be spent again only by a
  call that had read the subscription before the sweep, which again moves it.
  `ChargesComplete` and `SettledBooks` follow.
- **EventSeats.** Seats are counted as a set of places, pairs of a party and a
  number up to its size; parties have disjoint places, so registering adds and
  cancelling removes exactly the size of the party (`OneMoreParty`).
  `CounterMatches` with the types is inductive once listed registrations are known
  to exist (`ListsAreReal`): every decrement is guarded by the conditional UPDATE
  that makes the registration not live. It holds until a form writes a stale counter
  back or makes a registration live, or not, with a stale status; a stale status of
  the same kind (confirmed to pending) leaves the places alone. The type, that is, a
  counter not below zero, holds also after that, because the column refuses it.
  `NoOverbooking` follows because the code compares the counter, the theorem the
  places.
- **ScheduleMasks** (in `AgendaProofs`). `NoDoubleBooking` alone is not inductive:
  nothing in it speaks of a call between its check and its insert. `IInv` adds that
  the landings of two calls with locks share no room and no teacher
  (`LocksExclude`) and that a landing that passed the check collides with nothing
  shown in its week (`CheckedIsFree`). The check compares rows and masks, the
  property what is shown; `NoCollisionIsFree` is the bridge and needs that a landing
  stays in its week (`WeekAndDay`, `LandsInWeek`: arithmetic of dates for any length
  of a week). Another call's insert changes one group in one week, to that call's
  landing (`SavedIsLanding`), against which the locks protect; an edit cannot touch
  the group of a call under way, whose row is locked.
- **Agenda** (in `AgendaProofs`). `AbsencesAreKept`: no step takes a mark back
  (`MarksGrow`). `MorningsAreComplete` needs `NothingIsSkipped`: an undisturbed
  execution has each lesson of its day ahead or open, and an open lesson stays
  open. `FeedAgreesWithGrid` follows from the types: days of the feed and weeks of
  the grid correspond one to one, and unless the lesson is moved to another day the
  item of a day has the date and times of the projection of its week (`ItemIsProjected`).
- **OneTimeCodes.** `IInv`: rows are inserted in order and only the last can be
  unused (`RowsInOrder`), a request past the email lock holds it and the rows it
  burns (`RequestsHoldLocks`), a verification at its decision holds its row
  (`VerifiesHoldRow`), comparisons are counted (`GuessesAreCounted`), and an
  admitted request comes after the cooldown of the last code; a code expires after
  its cooldown, so the purge deletes none that still counts (`CooldownsAreOver`).
  `Refinement` shows that the initial states map to those of `LoginCode` and every
  step to a step or a stutter: `IssueRefines`, `WrongCodeRefines`,
  `RightCodeRefines`, `PurgeRefines`, and `Unseen` for the rest.
- **PayloadCache.** What a visitor has read is no older than its production
  (`PayloadsAreYoung`), and the age of an entry and the life it has left add up
  (`EntryIsYoung`); `StalenessIsBounded` follows. For `QuietEditsAreSeen` an edit that
  nobody overlaps has no entry between its signal and its commit
  (`QuietIsUncached`), and `ReceiversCover` compares, for each model, the pages a
  save changes with the keys its receiver deletes.
- **TaskDelivery** (in `PublicSiteProofs`, with `DeliveryInv`). `AcceptedIsNotLost`
  is not inductive: a worker whose entry another one has claimed, or which has only
  the acknowledgement left, still counts as running there, and its XACK may take
  the entry of equal label from under the other worker. `NothingIsLost` therefore
  counts only messages that will be executed wherever a worker dies (`Secured`): an
  accepted job is settled or has such a message, and before a worker acknowledges
  a message its job is settled or one with a higher label is secured (`Safe`),
  because the retry is enqueued before. `MessagesAreGenuine` supplies
  what that needs, a label that counts the executions that raised, and shows that no
  task runs ahead of the row of its form. For `ExecutionsBounded` every message has a
  weight, place by place (`Weight`): 1 for its chain, and the executions its chain
  has left (`Left`, `LeftAfter`). What has happened and what the messages weigh
  together never exceeds what the enqueued messages, the deaths and the claims from
  slow workers gave (`ExecutionsAreCounted`, `Grants`): an execution moves weight to
  the counters, a retry hands it on, a death or a claim may double at most one
  message. Sums are cardinalities of sets of units, as in `Orders`, so that no
  induction is needed.

Only model-checked are the liveness properties `HoldsEnd`, `PaidIsAnswered`,
`CompensationsClose`, `UnpaidIsDecided`, `CallsEnd`, `CodesAreForgotten` and
`AcceptedIsResolved`: the prover does not handle fairness. Every other property
that a passing run checks is a theorem.

## 6. Not modelled

Decimal and JSON parsing of the provider's answers, hashing of the fingerprint,
HTTP headers, the IP allowlist and the throttling by IP, formatting of errors,
the dashboard and demo data: no protocol state. Of the personal account only the
feed; the rest is read models and edits of single rows. Django migrations and
constraints appear as guards where code relies on them (the unique index on active
enrolments, the exclusion constraints of the grid, the primary key of the
idempotency record). The order in which one billing transaction takes its locks:
`Orders` has one action per transaction, so a deadlock between the multi-row UPDATE
at `services.py:783-788` and a checkout's cleanup of stale holds, which Postgres
would resolve by aborting one of them, does not appear. Two facts limit the
model: the implementation of the schedule port is not in the repository, and clock
differences between web workers and the database are not modelled.

## 7. Plan

Order of the modules, the most important behaviour first: money and seats of
orders (`CheckoutIdempotency`, `Orders`), money going back (`Refunds`), sessions
(`Tokens`), the other counters and bookings (`EventSeats`, `ScheduleMasks`), sign-in
(`OneTimeCodes`), background work (`TaskDelivery`), what visitors, parents and
teachers see (`PayloadCache`, `Agenda`). All exist, and every safety property
that a passing run checks is a theorem. What is worth adding when the code moves:

1. `Orders`: the locks inside one transaction, if the lock order at
   `services.py:783-788` is changed or a deadlock is seen in production.
2. `Refunds`: `LeaseExclusive` without `BatchFits` and for `Late` transactions, once
   the code counts each lease from its own claim and keeps it when a demand is
   closed.
