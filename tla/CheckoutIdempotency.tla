------------------------- MODULE CheckoutIdempotency -------------------------
(***************************************************************************)
(* The Idempotency-Key protocol of apps/billing/services.py:create_payment *)
(* for ONE key: calls that carry the same key race through                 *)
(*   get_or_create  ->  [reclaim]  ->  order transaction + finalize        *)
(* where the first three are autocommit statements and the order           *)
(* transaction commits together with the finalize UPDATE (its last         *)
(* statement, which holds the row lock until COMMIT).  A failed call       *)
(* deletes its reservation, a killed one leaves it to expire, and the      *)
(* cron sweep purges old records.                                          *)
(*                                                                         *)
(* What the order transaction does to seats and money is the module        *)
(* Orders; here it either fails or produces the order named after the      *)
(* call.  The lock_token uuid4 is unique per call, so the call itself      *)
(* stands for it.                                                          *)
(***************************************************************************)
EXTENDS Naturals

CONSTANTS
    Requests,        \* calls of create_payment that carry the key
    Fingerprints,    \* values of request_fingerprint
    Fingerprint,     \* the fingerprint of each call
    NoRequest,       \* the NULL of lock_token and of an absent result
    ReservationTTL,  \* _RESERVATION_TTL, in ticks
    RecordTTL,       \* _IDEMPOTENCY_RECORD_TTL, in ticks
    MaxTime          \* bound on the clock

ASSUME ParamAssumption ==
    /\ Fingerprints # {}
    /\ Fingerprint \in [Requests -> Fingerprints]
    /\ NoRequest \notin Requests
    /\ ReservationTTL \in Nat
    /\ RecordTTL \in Nat
    /\ MaxTime \in Nat

VARIABLES
    now,      \* wall clock of the database and of the workers
    record,   \* the idempotency_record row of the key
    pc,       \* where each call stands
    readAt,   \* the "now" each call read before get_or_create
    result,   \* the order a call reported with 201, NoRequest if none
    orders,   \* calls whose order transaction committed
    purged    \* orders whose stored response the sweep deleted

vars == <<now, record, pc, readAt, result, orders, purged>>

-----------------------------------------------------------------------------
(* States *)

MaybeRequest == Requests \cup {NoRequest}

\* status "ABSENT" is "no row"; IN_PROGRESS is response_status 202, DONE 201.
RecordRow ==
    [status : {"ABSENT", "IN_PROGRESS", "DONE"}, fingerprint : Fingerprints,
     body : MaybeRequest, lockedUntil : Nat, lockToken : MaybeRequest,
     createdAt : Nat]

\* Running states of a call, and the ways create_payment ends: "created" and
\* "replayed" return a result, the others raise.
Running  == {"get", "insert", "reget", "reclaim", "work", "lost", "release"}
Finished == {"created", "replayed", "reused", "inProgress", "failed",
             "integrityError", "killed"}

TypeOK ==
    /\ now \in Nat
    /\ record \in RecordRow
    /\ pc \in [Requests -> {"idle"} \cup Running \cup Finished]
    /\ readAt \in [Requests -> Nat]
    /\ result \in [Requests -> MaybeRequest]
    /\ orders \subseteq Requests
    /\ purged \subseteq Requests

\* The initial row is ABSENT; its other columns are never read.
Init ==
    /\ now = 0
    /\ record = [status |-> "ABSENT", fingerprint |-> CHOOSE f \in Fingerprints : TRUE,
                 body |-> NoRequest, lockedUntil |-> 0,
                 lockToken |-> NoRequest, createdAt |-> 0]
    /\ pc = [r \in Requests |-> "idle"]
    /\ readAt = [r \in Requests |-> 0]
    /\ result = [r \in Requests |-> NoRequest]
    /\ orders = {}
    /\ purged = {}

Goto(r, label) == pc' = [pc EXCEPT ![r] = label]

Report(r, order) == result' = [result EXCEPT ![r] = order]

-----------------------------------------------------------------------------
(* Conditions of the UPDATE and DELETE statements on the row *)

\* Mutant: the statements look for the key alone, whoever holds it.
OwnsReservation_ByKey(r) == record.status # "ABSENT"

\* WHERE response_status = 202 AND lock_token = <mine>
OwnsReservation(r) ==
    /\ record.status = "IN_PROGRESS"
    /\ record.lockToken = r

\* Mutant: a reservation can be reclaimed as soon as it is seen in progress.
Reclaimable_Early(r) == record.status = "IN_PROGRESS"

\* WHERE response_status = 202 AND locked_until < <now read by the call>
Reclaimable(r) ==
    /\ record.status = "IN_PROGRESS"
    /\ record.lockedUntil < readAt[r]

-----------------------------------------------------------------------------
(* Steps of one call *)

\* The checks of plan, slots and student have passed: the call reads its clock.
Start(r) ==
    /\ pc[r] = "idle"
    /\ readAt' = [readAt EXCEPT ![r] = now]
    /\ Goto(r, "get")
    /\ UNCHANGED <<now, record, result, orders, purged>>

\* What a call does with the row that get_or_create found.
UseExisting(r) ==
    \/ /\ record.fingerprint # Fingerprint[r]
       /\ Goto(r, "reused")
       /\ UNCHANGED result
    \/ /\ record.fingerprint = Fingerprint[r]
       /\ record.status = "DONE"
       /\ Report(r, record.body)
       /\ Goto(r, "replayed")
    \/ /\ record.fingerprint = Fingerprint[r]
       /\ record.status = "IN_PROGRESS"
       /\ Goto(r, "reclaim")
       /\ UNCHANGED result

\* get_or_create, first SELECT.
Get(r) ==
    /\ pc[r] = "get"
    /\ \/ record.status = "ABSENT" /\ Goto(r, "insert") /\ UNCHANGED result
       \/ record.status # "ABSENT" /\ UseExisting(r)
    /\ UNCHANGED <<now, record, readAt, orders, purged>>

\* get_or_create, INSERT: the primary key refuses a second row.
Insert(r) ==
    /\ pc[r] = "insert"
    /\ \/ /\ record.status = "ABSENT"
          /\ record' = [status |-> "IN_PROGRESS", fingerprint |-> Fingerprint[r],
                        body |-> NoRequest,
                        lockedUntil |-> readAt[r] + ReservationTTL,
                        lockToken |-> r, createdAt |-> now]
          /\ Goto(r, "work")
       \/ /\ record.status # "ABSENT"
          /\ Goto(r, "reget")
          /\ UNCHANGED record
    /\ UNCHANGED <<now, readAt, result, orders, purged>>

\* get_or_create, SELECT after the IntegrityError; the row may be gone again,
\* and then the IntegrityError is raised out of create_payment.
Reget(r) ==
    /\ pc[r] = "reget"
    /\ \/ record.status = "ABSENT" /\ Goto(r, "integrityError") /\ UNCHANGED result
       \/ record.status # "ABSENT" /\ UseExisting(r)
    /\ UNCHANGED <<now, record, readAt, orders, purged>>

\* The conditional UPDATE that takes over an expired reservation.
Reclaim(r) ==
    /\ pc[r] = "reclaim"
    /\ \/ /\ Reclaimable(r)
          /\ record' = [record EXCEPT !.lockedUntil = readAt[r] + ReservationTTL,
                                      !.lockToken = r]
          /\ Goto(r, "work")
       \/ ~Reclaimable(r) /\ Goto(r, "inProgress") /\ UNCHANGED record
    /\ UNCHANGED <<now, readAt, result, orders, purged>>

\* The order transaction reaches the finalize UPDATE: it commits when the
\* reservation is still its own, and is rolled back otherwise.
Commit(r) ==
    /\ pc[r] = "work"
    /\ \/ /\ OwnsReservation(r)
          /\ record' = [record EXCEPT !.status = "DONE", !.body = r,
                                      !.lockedUntil = 0, !.lockToken = NoRequest]
          /\ orders' = orders \cup {r}
          /\ Report(r, r)
          /\ Goto(r, "created")
       \/ ~OwnsReservation(r) /\ Goto(r, "lost") /\ UNCHANGED <<record, result, orders>>
    /\ UNCHANGED <<now, readAt, purged>>

\* The order transaction raises (no seats, unknown slot, duplicate, ...).
Fail(r) ==
    /\ pc[r] = "work"
    /\ Goto(r, "release")
    /\ UNCHANGED <<now, record, readAt, result, orders, purged>>

\* Mutant: a call whose lock was lost reports the order it has rolled back.
Lost_OwnResult(r) ==
    /\ pc[r] = "lost"
    /\ Report(r, r)
    /\ Goto(r, "replayed")
    /\ UNCHANGED <<now, record, readAt, orders, purged>>

\* except _IdempotencyLockLostError: report whatever the row now stores.
Lost(r) ==
    /\ pc[r] = "lost"
    /\ \/ record.status = "DONE" /\ Report(r, record.body) /\ Goto(r, "replayed")
       \/ record.status # "DONE" /\ Goto(r, "inProgress") /\ UNCHANGED result
    /\ UNCHANGED <<now, record, readAt, orders, purged>>

\* Mutant: a failed call deletes the row of its key, whoever holds it.
Release_ByKey(r) ==
    /\ pc[r] = "release"
    /\ record' = [record EXCEPT !.status = "ABSENT"]
    /\ Goto(r, "failed")
    /\ UNCHANGED <<now, readAt, result, orders, purged>>

\* _release_reservation: delete the row if it is still this call's.
Release(r) ==
    /\ pc[r] = "release"
    /\ record' = IF OwnsReservation(r) THEN [record EXCEPT !.status = "ABSENT"] ELSE record
    /\ Goto(r, "failed")
    /\ UNCHANGED <<now, readAt, result, orders, purged>>

-----------------------------------------------------------------------------
(* Environment *)

\* The worker process is killed: its open transaction is rolled back, its
\* reservation stays.
Kill(r) ==
    /\ pc[r] \in Running
    /\ Goto(r, "killed")
    /\ UNCHANGED <<now, record, readAt, result, orders, purged>>

\* sweep_finalized_idempotency_records
Purge ==
    /\ record.status # "ABSENT"
    /\ record.createdAt + RecordTTL < now
    /\ record.status = "DONE" \/ record.lockedUntil + RecordTTL < now
    /\ purged' = IF record.status = "DONE" THEN purged \cup {record.body} ELSE purged
    /\ record' = [record EXCEPT !.status = "ABSENT"]
    /\ UNCHANGED <<now, pc, readAt, result, orders>>

Tick ==
    /\ now < MaxTime
    /\ now' = now + 1
    /\ UNCHANGED <<record, pc, readAt, result, orders, purged>>

CallStep(r) ==
    \/ Start(r) \/ Get(r) \/ Insert(r) \/ Reget(r) \/ Reclaim(r)
    \/ Commit(r) \/ Fail(r) \/ Lost(r) \/ Release(r)

Next ==
    \/ \E r \in Requests : CallStep(r) \/ Kill(r)
    \/ Purge
    \/ Tick

Spec == Init /\ [][Next]_vars

-----------------------------------------------------------------------------
(* Properties *)

\* A key stands for at most one order while its response is kept: neither a
\* retry, nor a stalled call that wakes up after its reservation was taken
\* over, nor a takeover of a reservation that is being finalized, creates a
\* second order (services.py:366-474).
OneOrderPerKey ==
    \A r, s \in orders \ purged : r = s

\* The response of a committed order stays stored until the sweep purges it:
\* every later call of the client finds it (services.py:449-472, 548-553).
CommittedOrderIsStored ==
    \A r \in orders \ purged : record.status = "DONE" /\ record.body = r

\* A 201 always names an order that was committed, never one that was rolled
\* back with its transaction (services.py:475-479).
ReportedOrderExists ==
    \A r \in Requests : result[r] # NoRequest => result[r] \in orders

\* While a reservation is in force only its owner ends or replaces it; others
\* have to wait for locked_until (services.py:356-364, 548-553).
ReservationIsRespected ==
    [][ (record.status = "IN_PROGRESS" /\ record.lockedUntil >= now /\ record' # record)
        => pc'[record.lockToken] # pc[record.lockToken] ]_vars

\* The contract of the key: a call with another body is refused with 409 and is
\* never answered with somebody else's order (billing/models.py:313).
AnswerMatchesRequest ==
    \A r \in Requests :
        result[r] # NoRequest => Fingerprint[result[r]] = Fingerprint[r]

-----------------------------------------------------------------------------
(* The inductive invariant behind these properties *)

\* A call that has not returned yet has no order, so committing it adds one.
OrdersAreFinished ==
    \A r \in orders : pc[r] \in Finished

\* A stored response is that of a committed order, and only orders are purged.
StoredIsCommitted ==
    /\ record.status = "DONE" => record.body \in orders
    /\ purged \subseteq orders

\* A call never reads a clock ahead of the database's.
ClocksAreSane ==
    \A r \in Requests : readAt[r] <= now

IInv ==
    /\ TypeOK
    /\ CommittedOrderIsStored
    /\ ReportedOrderExists
    /\ OrdersAreFinished
    /\ StoredIsCommitted
    /\ ClocksAreSane

=============================================================================
