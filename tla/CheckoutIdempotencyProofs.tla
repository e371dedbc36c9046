---------------------- MODULE CheckoutIdempotencyProofs ----------------------
(***************************************************************************)
(* Proofs about the Idempotency-Key protocol, for any number of calls, any *)
(* fingerprints and any lengths of the reservation and of the record.      *)
(***************************************************************************)
EXTENDS CheckoutIdempotency, TLAPS

\* The reservation starts from a state in which no order exists.
LEMMA InitIInv == Init => IInv
BY ParamAssumption DEF Init, IInv, TypeOK, CommittedOrderIsStored, ReportedOrderExists,
   OrdersAreFinished, StoredIsCommitted, ClocksAreSane, RecordRow, MaybeRequest,
   Running, Finished

\* Every step of a call, of the sweep and of the clock keeps the invariant.
LEMMA NextIInv == IInv /\ [Next]_vars => IInv'
<1> SUFFICES ASSUME IInv, [Next]_vars
             PROVE  IInv'
  OBVIOUS
<1> USE ParamAssumption DEF IInv, TypeOK, CommittedOrderIsStored, ReportedOrderExists,
        OrdersAreFinished, StoredIsCommitted, ClocksAreSane, RecordRow, MaybeRequest,
        Running, Finished, Goto, Report
<1>1. ASSUME NEW r \in Requests, Start(r) PROVE IInv'
  BY <1>1 DEF Start
<1>2. ASSUME NEW r \in Requests, Get(r) PROVE IInv'
  BY <1>2 DEF Get, UseExisting
<1>3. ASSUME NEW r \in Requests, Insert(r) PROVE IInv'
  BY <1>3 DEF Insert
<1>4. ASSUME NEW r \in Requests, Reget(r) PROVE IInv'
  BY <1>4 DEF Reget, UseExisting
<1>5. ASSUME NEW r \in Requests, Reclaim(r) PROVE IInv'
  <2>1. CASE Reclaimable(r)
    <3>1. readAt[r] + ReservationTTL \in Nat
      OBVIOUS
    <3>2. record' \in RecordRow
      BY <1>5, <2>1, <3>1 DEF Reclaim
    <3>3. /\ record'.status = record.status
          /\ record.status = "IN_PROGRESS"
      BY <1>5, <2>1 DEF Reclaim, Reclaimable
    <3> QED
      BY <1>5, <2>1, <3>2, <3>3 DEF Reclaim
  <2>2. CASE ~Reclaimable(r)
    BY <1>5, <2>2 DEF Reclaim
  <2> QED
    BY <2>1, <2>2
<1>6. ASSUME NEW r \in Requests, Commit(r) PROVE IInv'
  <2>1. CASE OwnsReservation(r)
    <3>1. record' \in RecordRow /\ record'.status = "DONE" /\ record'.body = r
      <4>1. record' = [record EXCEPT !.status = "DONE", !.body = r,
                                     !.lockedUntil = 0, !.lockToken = NoRequest]
        BY <1>6, <2>1 DEF Commit
      <4>2. record' = [status |-> "DONE", fingerprint |-> record.fingerprint,
                       body |-> r, lockedUntil |-> 0, lockToken |-> NoRequest,
                       createdAt |-> record.createdAt]
        BY <4>1
      <4> QED
        BY <4>2
    <3>2. orders \subseteq purged /\ r \notin orders
      BY <1>6, <2>1 DEF Commit, OwnsReservation
    <3> QED
      BY <1>6, <2>1, <3>1, <3>2 DEF Commit
  <2>2. CASE ~OwnsReservation(r)
    BY <1>6, <2>2 DEF Commit
  <2> QED
    BY <2>1, <2>2
<1>7. ASSUME NEW r \in Requests, Fail(r) PROVE IInv'
  BY <1>7 DEF Fail
<1>8. ASSUME NEW r \in Requests, Lost(r) PROVE IInv'
  BY <1>8 DEF Lost
<1>9. ASSUME NEW r \in Requests, Release(r) PROVE IInv'
  BY <1>9 DEF Release, OwnsReservation
<1>10. ASSUME NEW r \in Requests, Kill(r) PROVE IInv'
  BY <1>10 DEF Kill
<1>11. CASE Purge
  BY <1>11 DEF Purge
<1>12. CASE Tick
  BY <1>12 DEF Tick
<1>13. CASE UNCHANGED vars
  BY <1>13 DEF vars
<1> QED
  BY <1>1, <1>2, <1>3, <1>4, <1>5, <1>6, <1>7, <1>8, <1>9, <1>10, <1>11, <1>12, <1>13
  DEF Next, CallStep

\* The type invariant, for every number of calls.
THEOREM TypeCorrect == Spec => []TypeOK
<1>1. IInv => TypeOK
  BY DEF IInv
<1> QED
  BY <1>1, InitIInv, NextIInv, PTL DEF Spec

\* One Idempotency-Key never stands for two orders whose responses are kept:
\* the fencing token makes the order transaction of create_payment exclusive.
THEOREM OneOrder == Spec => []OneOrderPerKey
<1>1. IInv => OneOrderPerKey
  BY DEF IInv, CommittedOrderIsStored, OneOrderPerKey
<1> QED
  BY <1>1, InitIInv, NextIInv, PTL DEF Spec

\* The response of a committed order is found by every later call until the
\* sweep purges it: no release, takeover or insert overwrites it.
THEOREM ResponseKept == Spec => []CommittedOrderIsStored
<1>1. IInv => CommittedOrderIsStored
  BY DEF IInv
<1> QED
  BY <1>1, InitIInv, NextIInv, PTL DEF Spec

\* A 201 never names an order that was rolled back.
THEOREM ReportsAreReal == Spec => []ReportedOrderExists
<1>1. IInv => ReportedOrderExists
  BY DEF IInv
<1> QED
  BY <1>1, InitIInv, NextIInv, PTL DEF Spec

\* A reservation in force changes hands only by a step of its owner.
THEOREM ReservationSafe == Spec => ReservationIsRespected
<1> DEFINE A == (record.status = "IN_PROGRESS" /\ record.lockedUntil >= now /\ record' # record)
                  => pc'[record.lockToken] # pc[record.lockToken]
<1>1. IInv /\ [Next]_vars => [A]_vars
  <2> SUFFICES ASSUME IInv, Next, record.status = "IN_PROGRESS",
                      record.lockedUntil >= now, record' # record
               PROVE  pc'[record.lockToken] # pc[record.lockToken]
    BY DEF vars
  <2> USE ParamAssumption DEF IInv, TypeOK, RecordRow, MaybeRequest, Goto
  <2>1. ASSUME NEW r \in Requests, CallStep(r) \/ Kill(r)
        PROVE  OwnsReservation(r) /\ pc'[r] # pc[r]
    <3>1. CASE Reclaim(r)
      <4>1. readAt[r] <= now
        BY DEF ClocksAreSane
      <4>2. record.lockedUntil < readAt[r]
        BY <3>1 DEF Reclaim, Reclaimable
      <4> QED
        BY <4>1, <4>2
    <3>2. CASE Commit(r) \/ Release(r)
      BY <3>2 DEF Commit, Release, OwnsReservation
    <3> QED
      BY <2>1, <3>1, <3>2 DEF CallStep, Start, Get, Insert, Reget, Fail, Lost, Kill
  <2>2. ~Purge
    BY DEF Purge
  <2>3. ~Tick
    BY DEF Tick
  <2> QED
    BY <2>1, <2>2, <2>3 DEF Next, OwnsReservation
<1> QED
  BY <1>1, InitIInv, NextIInv, PTL DEF Spec, ReservationIsRespected

=============================================================================
