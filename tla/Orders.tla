------------------------------- MODULE Orders -------------------------------
(***************************************************************************)
(* The life of a subscription order in apps/billing/services.py: checkout  *)
(* holds seats and deposit money, the provider's verdict or the TTL sweep  *)
(* settles the order, the expiry sweep ends the subscription.              *)
(*                                                                         *)
(* One action per database transaction.  The transactions of one order     *)
(* serialize on its Transaction row, those that take seats of a slot on    *)
(* the slot's advisory lock, those that move a deposit on its row; what a  *)
(* transaction reads before its locks is terminal or re-checked under      *)
(* them.  A checkout that raises rolls back, so it is not a step.          *)
(*                                                                         *)
(* Refunding a compensated order is the module Refunds, spending the       *)
(* sessions of an active subscription is the module Tokens (here their     *)
(* number is any the subscription grants), the Idempotency-Key around      *)
(* checkout is the module CheckoutIdempotency.                             *)
(***************************************************************************)
EXTENDS Integers, FiniteSets

CONSTANTS
    Orders,        \* order ids: a Transaction with its Subscription
    Slots,         \* weekly schedule slots
    Parents,       \* payers, each with one ParentDeposit
    Students,
    ParentOf, StudentOf, SlotsOf,   \* what each order is for
    Price,         \* plan.price, the snapshot purchase_price of each order
    SessionPrice,  \* base_session_price
    TokensPerSlot, \* _TOKENS_PER_SLOT
    HoldTTL,       \* _PENDING_TRANSACTION_TTL, in ticks
    LessonDelays,  \* ticks until the first lesson, as the schedule port says
    Month,         \* _month_after, in ticks
    FreezeDays,    \* shifts a freeze may apply, in ticks
    Opening,       \* deposit of each parent from earlier subscriptions
    MaxCapacity,   \* bound on the seats of a slot
    MaxTime        \* bound on the clock, on deadlines and on checkouts

ASSUME OrdersAssumption ==
    /\ IsFiniteSet(Orders)
    /\ ParentOf \in [Orders -> Parents]
    /\ StudentOf \in [Orders -> Students]
    /\ SlotsOf \in [Orders -> SUBSET Slots]
    /\ Price \in [Orders -> Nat]
    /\ SessionPrice \in Nat
    /\ TokensPerSlot \in Nat
    /\ HoldTTL \in Nat
    /\ LessonDelays \subseteq Nat
    /\ Month \in Nat
    /\ FreezeDays \subseteq Nat
    /\ Opening \in [Parents -> Nat]
    /\ MaxCapacity \in Nat
    /\ MaxTime \in Nat

VARIABLES
    now,
    txStatus,     \* Transaction.status, "NONE" before checkout
    createdAt,    \* Transaction.created_at and created_at of its enrollments
    amount,       \* Transaction.amount: money asked of the provider
    applied,      \* metadata.deposit_applied_kopecks: the CHECKOUT_SPEND entry
    returned,     \* sum of the order's ORDER_CANCELED_RETURN entries
    credited,     \* sum of the subscription's SUBSCRIPTION_EXPIRY_CREDIT entries
    ttlExpired,   \* metadata.canceled_reason = TTL_EXPIRED
    compensation, \* metadata.compensation_required
    subStatus,    \* Subscription.status
    expiresAt,    \* Subscription.expires_at
    granted,      \* SubscriptionSlot rows exist: the parent got the sessions
    seat,         \* Enrollment.status for each slot of the order
    balance,      \* ParentDeposit.balance
    payment,      \* the provider's view of the payment
    dropped,      \* orders whose verification spent its retries and was dropped
    capacity,     \* schedule_port.get_slot_capacity
    removed       \* slots for which the port raises UnknownSlotError

txVars   == <<txStatus, createdAt, amount, applied, ttlExpired, compensation>>
subVars  == <<subStatus, expiresAt, granted>>
moneyVars == <<returned, credited, balance>>
portVars == <<capacity, removed>>
payVars  == <<payment, dropped>>
vars == <<now, txVars, subVars, moneyVars, portVars, seat, payVars>>

-----------------------------------------------------------------------------
(* Types and initial state *)

TxStatus   == {"NONE", "PENDING", "SUCCEEDED", "CANCELED", "FAILED"}
SubStatus  == {"NONE", "PENDING", "ACTIVE", "EXPIRED", "CANCELED"}
SeatStatus == {"NONE", "HELD", "ENROLLED", "CANCELED"}
Payment    == {"none", "open", "succeeded", "mismatch", "canceled"}

TypeOK ==
    /\ now \in Nat
    /\ txStatus \in [Orders -> TxStatus]
    /\ createdAt \in [Orders -> Nat]
    /\ amount \in [Orders -> Nat]
    /\ applied \in [Orders -> Nat]
    /\ returned \in [Orders -> Nat]
    /\ credited \in [Orders -> Nat]
    /\ ttlExpired \in [Orders -> BOOLEAN]
    /\ compensation \in [Orders -> BOOLEAN]
    /\ subStatus \in [Orders -> SubStatus]
    /\ expiresAt \in [Orders -> Nat]
    /\ granted \in [Orders -> BOOLEAN]
    /\ seat \in [Orders -> [Slots -> SeatStatus]]
    /\ balance \in [Parents -> Nat]
    /\ payment \in [Orders -> Payment]
    /\ dropped \subseteq Orders
    /\ capacity \in [Slots -> Nat]
    /\ removed \subseteq Slots

Init ==
    /\ now = 0
    /\ txStatus = [o \in Orders |-> "NONE"]
    /\ createdAt = [o \in Orders |-> 0]
    /\ amount = [o \in Orders |-> 0]
    /\ applied = [o \in Orders |-> 0]
    /\ returned = [o \in Orders |-> 0]
    /\ credited = [o \in Orders |-> 0]
    /\ ttlExpired = [o \in Orders |-> FALSE]
    /\ compensation = [o \in Orders |-> FALSE]
    /\ subStatus = [o \in Orders |-> "NONE"]
    /\ expiresAt = [o \in Orders |-> 0]
    /\ granted = [o \in Orders |-> FALSE]
    /\ seat = [o \in Orders |-> [s \in Slots |-> "NONE"]]
    /\ balance = Opening
    /\ payment = [o \in Orders |-> "none"]
    /\ dropped = {}
    /\ capacity \in [Slots -> 0..MaxCapacity]
    /\ removed = {}

-----------------------------------------------------------------------------
(* Seats *)

Lesser(a, b)  == IF a <= b THEN a ELSE b
Greater(a, b) == IF a >= b THEN a ELSE b

\* A hold older than the TTL no longer counts, whether or not it was swept.
Stale(o) == createdAt[o] + HoldTTL < now

Occupies(o, s) ==
    \/ seat[o][s] = "ENROLLED"
    \/ seat[o][s] = "HELD" /\ ~Stale(o)

\* _occupied_seats
Occupied(s) == Cardinality({o \in Orders : Occupies(o, s)})

\* _occupied_seats(exclude_enrollment_pk=...)
TakenByOthers(o, s) == Cardinality({q \in Orders \ {o} : Occupies(q, s)})

\* The row of the order that the partial unique index keeps single.
Seated(o, s) == seat[o][s] \in {"HELD", "ENROLLED"}

\* The seats after _release_order_resources / the expiry sweep canceled them.
Released(row) == [s \in Slots |-> IF row[s] \in {"HELD", "ENROLLED"}
                                  THEN "CANCELED" ELSE row[s]]

\* The stale hold that checkout of order n cancels in each slot it books.
Cleaned(n, o, s) == s \in SlotsOf[n] /\ seat[o][s] = "HELD" /\ Stale(o)

-----------------------------------------------------------------------------
(* Checkout *)

\* Mutant: the balance is not checked against the price.
DepositShare_All(o, useDeposit) == IF useDeposit THEN balance[ParentOf[o]] ELSE 0

\* min(deposit.balance, plan.price), when the client asked for it.
DepositShare(o, useDeposit) ==
    IF useDeposit THEN Lesser(balance[ParentOf[o]], Price[o]) ELSE 0

\* The slot exists, has a free seat, and the student has none in it (after
\* the stale holds of the slot are canceled).
SeatAvailable(o, s) ==
    /\ s \notin removed
    /\ Occupied(s) < capacity[s]
    /\ \A q \in Orders : Seated(q, s) /\ ~Cleaned(o, q, s)
                          => StudentOf[q] # StudentOf[o]

\* The seats after checkout: stale holds canceled, its own created.
BookedSeats(o, status) ==
    [q \in Orders |-> [s \in Slots |->
        IF q = o /\ s \in SlotsOf[o] THEN status
        ELSE IF Cleaned(o, q, s) THEN "CANCELED" ELSE seat[q][s]]]

\* create_payment: the order transaction.  An order the deposit pays in full
\* is activated at once (_fulfill_prepaid_order), any other waits for money.
\* The first conjunct is a bound: every hold can outlive its TTL in the model.
Checkout(o, useDeposit) ==
    /\ now + HoldTTL < MaxTime
    /\ txStatus[o] = "NONE"
    /\ \A s \in SlotsOf[o] : SeatAvailable(o, s)
    /\ LET share == DepositShare(o, useDeposit)
       IN /\ applied' = [applied EXCEPT ![o] = share]
          /\ amount' = [amount EXCEPT ![o] = Price[o] - share]
          /\ balance' = [balance EXCEPT ![ParentOf[o]] = @ - share]
    /\ createdAt' = [createdAt EXCEPT ![o] = now]
    /\ \/ /\ amount'[o] = 0
          /\ \E delay \in LessonDelays :
                expiresAt' = [expiresAt EXCEPT ![o] = now + delay + Month]
          /\ txStatus' = [txStatus EXCEPT ![o] = "SUCCEEDED"]
          /\ subStatus' = [subStatus EXCEPT ![o] = "ACTIVE"]
          /\ granted' = [granted EXCEPT ![o] = TRUE]
          /\ seat' = BookedSeats(o, "ENROLLED")
          /\ UNCHANGED payment
       \/ /\ amount'[o] # 0
          /\ txStatus' = [txStatus EXCEPT ![o] = "PENDING"]
          /\ subStatus' = [subStatus EXCEPT ![o] = "PENDING"]
          /\ seat' = BookedSeats(o, "HELD")
          /\ payment' = [payment EXCEPT ![o] = "open"]
          /\ UNCHANGED <<expiresAt, granted>>
    /\ UNCHANGED <<now, returned, credited, ttlExpired, compensation, portVars, dropped>>

-----------------------------------------------------------------------------
(* Settling an order *)

\* Mutant: only the money is given back, the deposit is forgotten.
ReleaseOrder_NoDeposit(o) ==
    /\ seat' = [seat EXCEPT ![o] = Released(@)]
    /\ subStatus' = [subStatus EXCEPT ![o] = IF @ = "PENDING" THEN "CANCELED" ELSE @]
    /\ UNCHANGED <<returned, balance>>

\* _release_order_resources with _return_deposit_hold: the seats are freed, a
\* pending subscription is canceled, the deposit returned unless it was already.
ReleaseOrder(o) ==
    /\ seat' = [seat EXCEPT ![o] = Released(@)]
    /\ subStatus' = [subStatus EXCEPT ![o] = IF @ = "PENDING" THEN "CANCELED" ELSE @]
    /\ IF applied[o] > 0 /\ returned[o] = 0
       THEN /\ returned' = [returned EXCEPT ![o] = @ + applied[o]]
            /\ balance' = [balance EXCEPT ![ParentOf[o]] = @ + applied[o]]
       ELSE UNCHANGED <<returned, balance>>

\* Mutant: the re-check after payment trusts the hold.
CanEnroll_TrustsHold(o) == \A s \in SlotsOf[o] : seat[o][s] = "HELD"

\* Mutant: the re-check forgets that the hold may have been taken away.
CanEnroll_NoHoldCheck(o) ==
    \A s \in SlotsOf[o] : s \notin removed /\ TakenByOthers(o, s) < capacity[s]

\* _try_enroll_held_seats returns None; otherwise the hold was lost, the slot
\* removed or the seat taken while the payment was on its way.
CanEnroll(o) ==
    \A s \in SlotsOf[o] :
        /\ seat[o][s] = "HELD"
        /\ s \notin removed
        /\ TakenByOthers(o, s) < capacity[s]

\* _activation_window and the conditional UPDATE of the subscription succeed.
Activatable(o) ==
    /\ SlotsOf[o] \cap removed = {}
    /\ subStatus[o] = "PENDING"

\* _apply_success on a pending order, everything in place.
Activate(o) ==
    /\ txStatus[o] = "PENDING" /\ payment[o] = "succeeded"
    /\ Activatable(o) /\ CanEnroll(o)
    /\ txStatus' = [txStatus EXCEPT ![o] = "SUCCEEDED"]
    /\ subStatus' = [subStatus EXCEPT ![o] = "ACTIVE"]
    /\ \E delay \in LessonDelays :
          expiresAt' = [expiresAt EXCEPT ![o] = now + delay + Month]
    /\ seat' = [seat EXCEPT ![o] = [s \in Slots |->
                   IF s \in SlotsOf[o] /\ @[s] = "HELD" THEN "ENROLLED" ELSE @[s]]]
    /\ granted' = [granted EXCEPT ![o] = TRUE]
    /\ UNCHANGED <<now, createdAt, amount, applied, ttlExpired, compensation,
                   moneyVars, portVars, payVars>>

\* _apply_success on a pending order that cannot be served any more: slot
\* removed, subscription not activatable, hold lost or seats taken.
CompensatePaid(o) ==
    /\ txStatus[o] = "PENDING" /\ payment[o] = "succeeded"
    /\ ~(Activatable(o) /\ CanEnroll(o))
    /\ txStatus' = [txStatus EXCEPT ![o] = "SUCCEEDED"]
    /\ compensation' = [compensation EXCEPT ![o] = TRUE]
    /\ ReleaseOrder(o)
    /\ UNCHANGED <<now, createdAt, amount, applied, ttlExpired, expiresAt,
                   granted, credited, portVars, payVars>>

\* _apply_success, amount or currency differ from what was asked.
FailMismatch(o) ==
    /\ txStatus[o] = "PENDING" /\ payment[o] = "mismatch"
    /\ txStatus' = [txStatus EXCEPT ![o] = "FAILED"]
    /\ ReleaseOrder(o)
    /\ UNCHANGED <<now, createdAt, amount, applied, ttlExpired, compensation,
                   expiresAt, granted, credited, portVars, payVars>>

\* Mutant: any canceled order is compensated again, paid at the provider or not.
LateSuccess_AnyVerdict(o) ==
    /\ txStatus[o] = "CANCELED" /\ ~compensation[o]
    /\ compensation' = [compensation EXCEPT ![o] = TRUE]
    /\ UNCHANGED <<now, txStatus, createdAt, amount, applied, ttlExpired, subVars,
                   moneyVars, portVars, seat, payVars>>

\* Mutant: a success that comes after the sweep is ignored.
LateSuccess_Ignored(o) == FALSE /\ UNCHANGED vars

\* _apply_success after the sweep took the order down: the money goes back.
LateSuccess(o) ==
    /\ payment[o] \in {"succeeded", "mismatch"}
    /\ txStatus[o] = "CANCELED" /\ ttlExpired[o] /\ ~compensation[o]
    /\ compensation' = [compensation EXCEPT ![o] = TRUE]
    /\ UNCHANGED <<now, txStatus, createdAt, amount, applied, ttlExpired, subVars,
                   moneyVars, portVars, seat, payVars>>

\* _apply_cancellation
ApplyCancellation(o) ==
    /\ txStatus[o] = "PENDING" /\ payment[o] = "canceled"
    /\ txStatus' = [txStatus EXCEPT ![o] = "CANCELED"]
    /\ ReleaseOrder(o)
    /\ UNCHANGED <<now, createdAt, amount, applied, ttlExpired, compensation,
                   expiresAt, granted, credited, portVars, payVars>>

\* Mutant: the order is settled on what the list query saw, without the second
\* look at its status under the row lock.
SweepStale_NoRecheck(o) ==
    /\ txStatus[o] # "NONE" /\ Stale(o) /\ ~ttlExpired[o]
    /\ txStatus' = [txStatus EXCEPT ![o] = "CANCELED"]
    /\ ttlExpired' = [ttlExpired EXCEPT ![o] = TRUE]
    /\ ReleaseOrder(o)
    /\ UNCHANGED <<now, createdAt, amount, applied, compensation, expiresAt,
                   granted, credited, portVars, payVars>>

\* Mutant: only orders that still hold a seat are swept.
SweepStale_NeedsHold(o) ==
    /\ txStatus[o] = "PENDING" /\ Stale(o)
    /\ \E s \in Slots : seat[o][s] = "HELD"
    /\ txStatus' = [txStatus EXCEPT ![o] = "CANCELED"]
    /\ ttlExpired' = [ttlExpired EXCEPT ![o] = TRUE]
    /\ ReleaseOrder(o)
    /\ UNCHANGED <<now, createdAt, amount, applied, compensation, expiresAt,
                   granted, credited, portVars, payVars>>

\* One iteration of sweep_stale_pending_transactions.
SweepStale(o) ==
    /\ txStatus[o] = "PENDING" /\ Stale(o)
    /\ txStatus' = [txStatus EXCEPT ![o] = "CANCELED"]
    /\ ttlExpired' = [ttlExpired EXCEPT ![o] = TRUE]
    /\ ReleaseOrder(o)
    /\ UNCHANGED <<now, createdAt, amount, applied, compensation, expiresAt,
                   granted, credited, portVars, payVars>>

\* confirm_payment, for whatever verdict the provider has by now.
ConfirmPayment(o) ==
    Activate(o) \/ CompensatePaid(o) \/ FailMismatch(o) \/ LateSuccess(o)
    \/ ApplyCancellation(o)

\* verify_and_process_payment gives up: no execution within its retries reached
\* the provider, and no job looks at the payment again.  Only another webhook
\* for the same payment still leads to confirm_payment.
DropVerification(o) ==
    /\ payment[o] \in {"succeeded", "mismatch", "canceled"}
    /\ ~granted[o] /\ ~compensation[o]
    /\ dropped' = dropped \cup {o}
    /\ UNCHANGED <<now, txVars, subVars, moneyVars, portVars, seat, payment>>

-----------------------------------------------------------------------------
(* The end of a subscription *)

\* Mutant: used sessions are credited instead of deducted.
Credit_Inverted(o, used) ==
    Greater(0, Price[o] + used * SessionPrice)

\* _credit_unused_sessions: the price less the used sessions at base price.
Credit(o, used) ==
    Greater(0, Lesser(Price[o] - used * SessionPrice, Price[o]))

\* One iteration of sweep_expired_subscriptions.
SweepExpired(o, used) ==
    /\ subStatus[o] = "ACTIVE" /\ expiresAt[o] < now
    /\ subStatus' = [subStatus EXCEPT ![o] = "EXPIRED"]
    /\ seat' = [seat EXCEPT ![o] = Released(@)]
    /\ credited' = [credited EXCEPT ![o] = @ + Credit(o, used)]
    /\ balance' = [balance EXCEPT ![ParentOf[o]] = @ + Credit(o, used)]
    /\ UNCHANGED <<now, txVars, expiresAt, granted, returned, portVars, payVars>>

\* bulk_freeze_subscriptions: expires_at of the active ones moves.
BulkFreeze(batch, days) ==
    LET frozen == {o \in batch : subStatus[o] = "ACTIVE"}
    IN /\ frozen # {}
       /\ \A o \in frozen : expiresAt[o] + days <= MaxTime
       /\ expiresAt' = [o \in Orders |-> IF o \in frozen THEN expiresAt[o] + days
                                                         ELSE expiresAt[o]]
       /\ UNCHANGED <<now, txVars, subStatus, granted, moneyVars, portVars, seat, payVars>>

\* SubscriptionAdmin: the status field of the change form is editable.
AdminCancel(o) ==
    /\ subStatus[o] \in {"PENDING", "ACTIVE"}
    /\ subStatus' = [subStatus EXCEPT ![o] = "CANCELED"]
    /\ UNCHANGED <<now, txVars, expiresAt, granted, moneyVars, portVars, seat, payVars>>

-----------------------------------------------------------------------------
(* Environment: the provider, the schedule behind the port, time *)

Verdict(o, verdict) ==
    /\ payment[o] = "open"
    /\ payment' = [payment EXCEPT ![o] = verdict]
    /\ UNCHANGED <<now, txVars, subVars, moneyVars, portVars, seat, dropped>>

SetCapacity(s, seats) ==
    /\ capacity' = [capacity EXCEPT ![s] = seats]
    /\ UNCHANGED <<now, txVars, subVars, moneyVars, removed, seat, payVars>>

RemoveSlot(s) ==
    /\ removed' = removed \cup {s}
    /\ UNCHANGED <<now, txVars, subVars, moneyVars, capacity, seat, payVars>>

Tick ==
    /\ now < MaxTime
    /\ now' = now + 1
    /\ UNCHANGED <<txVars, subVars, moneyVars, portVars, seat, payVars>>

Next ==
    \/ \E o \in Orders :
          \/ \E useDeposit \in BOOLEAN : Checkout(o, useDeposit)
          \/ ConfirmPayment(o)
          \/ DropVerification(o)
          \/ SweepStale(o)
          \/ \E used \in 0..(TokensPerSlot * Cardinality(SlotsOf[o])) : SweepExpired(o, used)
          \/ AdminCancel(o)
          \/ \E verdict \in {"succeeded", "mismatch", "canceled"} : Verdict(o, verdict)
    \/ \E batch \in SUBSET Orders, days \in FreezeDays : BulkFreeze(batch, days)
    \/ \E s \in Slots : RemoveSlot(s) \/ \E seats \in 0..MaxCapacity : SetCapacity(s, seats)
    \/ Tick

Spec == Init /\ [][Next]_vars

\* The cron sweeps run every five minutes, time passes, and a queued webhook is
\* executed until it succeeds or its retries are spent: as long as it is not
\* dropped the verification goes on.  Nothing keeps it from being dropped, and
\* nothing is assumed of clients, administrators or the verdict itself.
Fairness ==
    /\ WF_vars(Tick)
    /\ \A o \in Orders :
          /\ WF_vars(SweepStale(o))
          /\ WF_vars(o \notin dropped /\ ConfirmPayment(o))

FairSpec == Spec /\ Fairness

-----------------------------------------------------------------------------
(* Properties *)

Settled(o) == txStatus[o] \in {"SUCCEEDED", "CANCELED", "FAILED"}

\* No step that takes a seat leaves more seats taken than the slot has at that
\* moment: neither two checkouts, nor a paid order whose hold ran out while
\* another client booked (services.py:379-392, 740-777).
SeatsNotOversold ==
    [][\A s \in Slots : Occupied(s)' > Occupied(s) => Occupied(s)' <= capacity[s]]_vars

\* An order is settled once: a webhook, a repeated webhook and the sweep never
\* undo each other's verdict (services.py:596, 822-829, 916-931).
SettledOnce ==
    [][\A o \in Orders : Settled(o) => txStatus'[o] = txStatus[o]]_vars

\* A settled order gave the parent either the sessions or the deposit part back,
\* never both and never neither (services.py:780-819).
SessionsOrDepositBack ==
    \A o \in Orders : Settled(o) =>
        returned[o] = IF granted[o] THEN 0 ELSE applied[o]

\* Only a payment the provider confirmed is sent back, and then the order keeps
\* no seat, no sessions and no subscription (services.py:583-717).
CompensatedOrderIsDead ==
    \A o \in Orders : compensation[o] =>
        /\ payment[o] \in {"succeeded", "mismatch"}
        /\ ~granted[o] /\ subStatus[o] = "CANCELED"
        /\ \A s \in Slots : ~Seated(o, s)

\* An active subscription has its sessions and every seat it paid for; nobody
\* else sits on a sold seat (services.py:487-522, 770-777).
ActiveHasItsSeats ==
    \A o \in Orders :
        /\ subStatus[o] = "ACTIVE" =>
              granted[o] /\ \A s \in SlotsOf[o] : seat[o][s] = "ENROLLED"
        /\ ~granted[o] => \A s \in Slots : seat[o][s] # "ENROLLED"

OrdersOf(p) == {o \in Orders : ParentOf[o] = p}

\* The kopecks of the entries of some orders, one by one: their number is the sum.
Kopecks(orders, entries) == UNION {{o} \X (1..entries[o]) : o \in orders}
Total(orders, entries) == Cardinality(Kopecks(orders, entries))

\* The deposit balance is the sum of its journal, and no order pays out more
\* than was paid for it (services.py:794-819, 974-1009).
DepositMatchesJournal ==
    /\ \A p \in Parents :
          balance[p] + Total(OrdersOf(p), applied) =
            Opening[p] + Total(OrdersOf(p), returned) + Total(OrdersOf(p), credited)
    /\ \A o \in Orders : returned[o] + credited[o] <= Price[o]

\* An order that nobody pays stops holding seats and deposit (services.py:903-933).
HoldsEnd ==
    \A o \in Orders : txStatus[o] = "PENDING" ~> txStatus[o] # "PENDING"

\* The order was closed because the provider took another amount than was asked;
\* it keeps that money and nobody is told to send it back (services.py:606-621).
ClosedOnMismatch(o) == payment[o] = "mismatch" /\ txStatus[o] = "FAILED"

\* Money taken by the provider is answered by sessions or by a refund, however
\* late the webhook comes and whatever happened to the order, its seats or its
\* slots meanwhile (services.py:583-717).  Two ends leave the money where it is:
\* an amount that differs on a pending order closes it without a compensation,
\* and a verification that spent its retries is dropped (tasks.py:62).
PaidIsAnswered ==
    \A o \in Orders : payment[o] \in {"succeeded", "mismatch"} ~>
        granted[o] \/ compensation[o] \/ ClosedOnMismatch(o) \/ o \in dropped

-----------------------------------------------------------------------------
(* The inductive invariant behind the safety properties: what each pair of a
   transaction status and a subscription status may look like. *)

Unbooked(o) ==
    /\ subStatus[o] = "NONE" /\ payment[o] = "none"
    /\ applied[o] = 0 /\ returned[o] = 0 /\ credited[o] = 0
    /\ ~granted[o] /\ ~compensation[o]
    /\ \A s \in Slots : seat[o][s] = "NONE"

\* Waiting for the provider; the hold may be gone, an administrator may have
\* canceled the subscription.
Waiting(o) ==
    /\ subStatus[o] \in {"PENDING", "CANCELED"}
    /\ returned[o] = 0 /\ credited[o] = 0
    /\ ~granted[o] /\ ~compensation[o]
    /\ \A s \in Slots : seat[o][s] # "ENROLLED"

Served(o) ==
    /\ granted[o] /\ ~compensation[o]
    /\ returned[o] = 0 /\ credited[o] <= Price[o]
    /\ subStatus[o] \in {"ACTIVE", "EXPIRED", "CANCELED"}
    /\ subStatus[o] = "ACTIVE" =>
          credited[o] = 0 /\ \A s \in SlotsOf[o] : seat[o][s] = "ENROLLED"

Unserved(o) ==
    /\ subStatus[o] = "CANCELED"
    /\ returned[o] = applied[o] /\ credited[o] = 0
    /\ ~granted[o]
    /\ \A s \in Slots : ~Seated(o, s)

Consistent(o) ==
    /\ txStatus[o] = "NONE" => Unbooked(o)
    /\ txStatus[o] = "PENDING" => Waiting(o)
    /\ txStatus[o] = "SUCCEEDED" => Served(o) \/ (Unserved(o) /\ compensation[o])
    /\ txStatus[o] \in {"CANCELED", "FAILED"} => Unserved(o)
    /\ compensation[o] => payment[o] \in {"succeeded", "mismatch"}
    /\ applied[o] <= Price[o]

IInv == TypeOK /\ \A o \in Orders : Consistent(o)

=============================================================================
