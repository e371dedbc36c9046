---------------------------- MODULE OrdersProofs ----------------------------
(***************************************************************************)
(* Proofs about the life of an order, for any sets of orders, slots and    *)
(* parents, any prices and any lengths of time.                            *)
(***************************************************************************)
EXTENDS Orders, FiniteSetTheorems, TLAPS

\* Before the first checkout every order is unbooked.
LEMMA InitIInv == Init => IInv
BY OrdersAssumption DEF Init, IInv, TypeOK, Consistent, Unbooked, TxStatus, SubStatus,
   SeatStatus, Payment

\* An order whose rows a step leaves alone stays consistent, even if some of
\* its waiting holds were canceled by another order's checkout.
LEMMA Frame ==
    ASSUME TypeOK, TypeOK', NEW q \in Orders, Consistent(q),
           txStatus'[q] = txStatus[q], subStatus'[q] = subStatus[q],
           applied'[q] = applied[q], returned'[q] = returned[q],
           credited'[q] = credited[q], granted'[q] = granted[q],
           compensation'[q] = compensation[q], payment'[q] = payment[q],
           \A s \in Slots : seat'[q][s] = seat[q][s]
                             \/ (seat[q][s] = "HELD" /\ seat'[q][s] = "CANCELED")
    PROVE  Consistent(q)'
<1>1. Unbooked(q) => Unbooked(q)'
  BY DEF Unbooked
<1>2. Waiting(q) => Waiting(q)'
  BY DEF Waiting
<1>3. Served(q) => Served(q)'
  <2>1. SlotsOf[q] \subseteq Slots
    BY OrdersAssumption
  <2> QED
    BY <2>1 DEF Served
<1>4. Unserved(q) => Unserved(q)'
  BY DEF Unserved, Seated
<1> QED
  BY <1>1, <1>2, <1>3, <1>4 DEF Consistent

\* Releasing a waiting order cancels its subscription, frees its seats and
\* returns exactly the deposit it had taken.
LEMMA Release ==
    ASSUME IInv, NEW o \in Orders, txStatus[o] = "PENDING", ReleaseOrder(o)
    PROVE  /\ seat' \in [Orders -> [Slots -> SeatStatus]]
           /\ \A s \in Slots : seat'[o][s] \notin {"HELD", "ENROLLED"}
           /\ \A q \in Orders \ {o} : seat'[q] = seat[q]
           /\ subStatus' = [subStatus EXCEPT ![o] = "CANCELED"]
           /\ returned' = [returned EXCEPT ![o] = applied[o]]
           /\ balance' \in [Parents -> Nat]
<1> USE OrdersAssumption DEF IInv, TypeOK, Consistent, Waiting
<1>1. Released(seat[o]) \in [Slots -> SeatStatus]
  BY DEF Released, SeatStatus
<1>2. \A s \in Slots : Released(seat[o])[s] \notin {"HELD", "ENROLLED"}
  BY DEF Released, SeatStatus
<1>3. seat' = [seat EXCEPT ![o] = Released(seat[o])]
  BY DEF ReleaseOrder
<1>4. subStatus' = [subStatus EXCEPT ![o] = "CANCELED"]
  BY DEF ReleaseOrder
<1>5. returned' = [returned EXCEPT ![o] = applied[o]]
  BY DEF ReleaseOrder
<1>6. balance' \in [Parents -> Nat]
  BY DEF ReleaseOrder
<1> QED
  BY <1>1, <1>2, <1>3, <1>4, <1>5, <1>6

\* Settling a waiting order without serving it keeps the invariant: the four
\* ways to do it differ in the status, the TTL mark and the compensation mark.
LEMMA SettleUnserved ==
    ASSUME IInv, NEW o \in Orders, txStatus[o] = "PENDING", ReleaseOrder(o),
           NEW status \in {"SUCCEEDED", "CANCELED", "FAILED"},
           NEW comp \in BOOLEAN,
           NEW expired \in BOOLEAN,
           status = "SUCCEEDED" => comp,
           comp => payment[o] = "succeeded",
           txStatus' = [txStatus EXCEPT ![o] = status],
           compensation' = [compensation EXCEPT ![o] = comp],
           ttlExpired' = [ttlExpired EXCEPT ![o] = expired],
           UNCHANGED <<now, createdAt, amount, applied, expiresAt, granted,
                       credited, portVars, payVars>>
    PROVE  IInv'
<1>0. /\ seat' \in [Orders -> [Slots -> SeatStatus]]
      /\ \A s \in Slots : seat'[o][s] \notin {"HELD", "ENROLLED"}
      /\ \A q \in Orders \ {o} : seat'[q] = seat[q]
      /\ subStatus' = [subStatus EXCEPT ![o] = "CANCELED"]
      /\ returned' = [returned EXCEPT ![o] = applied[o]]
      /\ balance' \in [Parents -> Nat]
  BY Release
<1>1. TypeOK'
  BY <1>0, OrdersAssumption DEF IInv, TypeOK, portVars, payVars, TxStatus, SubStatus
<1>2. Consistent(o)'
  BY <1>0, <1>1, OrdersAssumption DEF IInv, TypeOK, Consistent, Waiting, Unserved, Served, Seated,
     portVars, payVars, TxStatus, SubStatus
<1>3. ASSUME NEW q \in Orders, q # o PROVE Consistent(q)'
  <2>1. Consistent(q)
    BY DEF IInv
  <2>2. /\ txStatus'[q] = txStatus[q] /\ subStatus'[q] = subStatus[q]
        /\ applied'[q] = applied[q] /\ returned'[q] = returned[q]
        /\ credited'[q] = credited[q] /\ granted'[q] = granted[q]
        /\ compensation'[q] = compensation[q] /\ payment'[q] = payment[q]
        /\ seat'[q] = seat[q]
    BY <1>0, <1>3 DEF IInv, TypeOK, payVars
  <2>3. TypeOK
    BY DEF IInv
  <2> QED
    BY <1>1, <2>1, <2>2, <2>3, Frame
<1> QED
  BY <1>1, <1>2, <1>3 DEF IInv

\* A checkout keeps the invariant.
LEMMA CheckoutIInv ==
    ASSUME IInv, NEW o \in Orders, NEW useDeposit \in BOOLEAN, Checkout(o, useDeposit)
    PROVE  IInv'
<1> DEFINE share == DepositShare(o, useDeposit)
<1> USE OrdersAssumption
<1>1. /\ share \in Nat /\ share <= Price[o] /\ share <= balance[ParentOf[o]]
      /\ Price[o] - share \in Nat /\ balance[ParentOf[o]] - share \in Nat
  BY DEF DepositShare, Lesser, IInv, TypeOK
<1>2. /\ applied' = [applied EXCEPT ![o] = share]
      /\ amount' = [amount EXCEPT ![o] = Price[o] - share]
      /\ balance' = [balance EXCEPT ![ParentOf[o]] = @ - share]
      /\ createdAt' = [createdAt EXCEPT ![o] = now]
      /\ UNCHANGED <<now, returned, credited, ttlExpired, compensation, capacity, removed, dropped>>
      /\ txStatus[o] = "NONE"
  BY DEF Checkout, portVars, payVars
<1> HIDE DEF share
<1>3. applied' \in [Orders -> Nat] /\ amount' \in [Orders -> Nat] /\ balance' \in [Parents -> Nat]
  BY <1>1, <1>2 DEF IInv, TypeOK
<1>4. ASSUME NEW status \in SeatStatus, seat' = BookedSeats(o, status)
      PROVE  /\ seat' \in [Orders -> [Slots -> SeatStatus]]
             /\ \A s \in SlotsOf[o] : seat'[o][s] = status
             /\ \A s \in Slots \ SlotsOf[o] : seat'[o][s] = "NONE"
             /\ \A q \in Orders \ {o}, s \in Slots :
                   seat'[q][s] = seat[q][s]
                   \/ (seat[q][s] = "HELD" /\ seat'[q][s] = "CANCELED")
  <2>1. \A q \in Orders, s \in Slots :
           seat'[q][s] = IF q = o /\ s \in SlotsOf[o] THEN status
                         ELSE IF Cleaned(o, q, s) THEN "CANCELED" ELSE seat[q][s]
    BY <1>4 DEF BookedSeats
  <2>2. \A s \in Slots : seat[o][s] = "NONE"
    BY <1>2 DEF IInv, Consistent, Unbooked
  <2>3. seat' \in [Orders -> [Slots -> SeatStatus]]
    BY <1>4 DEF BookedSeats, SeatStatus, IInv, TypeOK
  <2>4. \A s \in SlotsOf[o] : s \in Slots
    OBVIOUS
  <2>5. \A s \in Slots : ~Cleaned(o, o, s)
    BY <2>2 DEF Cleaned
  <2> QED
    BY <2>1, <2>2, <2>3, <2>4, <2>5 DEF Cleaned
<1>5. CASE amount'[o] = 0
  <2>1. /\ txStatus' = [txStatus EXCEPT ![o] = "SUCCEEDED"]
        /\ subStatus' = [subStatus EXCEPT ![o] = "ACTIVE"]
        /\ granted' = [granted EXCEPT ![o] = TRUE]
        /\ seat' = BookedSeats(o, "ENROLLED")
        /\ UNCHANGED payment
        /\ \E delay \in LessonDelays :
              expiresAt' = [expiresAt EXCEPT ![o] = now + delay + Month]
    BY <1>5 DEF Checkout
  <2>2. TypeOK'
    <3>1. expiresAt' \in [Orders -> Nat]
      BY <2>1 DEF IInv, TypeOK
    <3> QED
      BY <1>2, <1>3, <1>4, <2>1, <3>1 DEF IInv, TypeOK, TxStatus, SubStatus, SeatStatus
  <2>3. Consistent(o)'
    BY <1>1, <1>2, <1>4, <2>1, <2>2 DEF IInv, TypeOK, Consistent, Unbooked, Served, SeatStatus
  <2>4. ASSUME NEW q \in Orders, q # o PROVE Consistent(q)'
    <3>1. /\ txStatus'[q] = txStatus[q] /\ subStatus'[q] = subStatus[q]
          /\ applied'[q] = applied[q] /\ returned'[q] = returned[q]
          /\ credited'[q] = credited[q] /\ granted'[q] = granted[q]
          /\ compensation'[q] = compensation[q] /\ payment'[q] = payment[q]
      BY <1>2, <2>1, <2>4 DEF IInv, TypeOK
    <3>2. \A s \in Slots : seat'[q][s] = seat[q][s]
                            \/ (seat[q][s] = "HELD" /\ seat'[q][s] = "CANCELED")
      BY <1>4, <2>1, <2>4 DEF SeatStatus
    <3>3. TypeOK /\ Consistent(q)
      BY DEF IInv
    <3> QED
      BY <2>2, <3>1, <3>2, <3>3, Frame
  <2> QED
    BY <2>2, <2>3, <2>4 DEF IInv
<1>6. CASE amount'[o] # 0
  <2>1. /\ txStatus' = [txStatus EXCEPT ![o] = "PENDING"]
        /\ subStatus' = [subStatus EXCEPT ![o] = "PENDING"]
        /\ seat' = BookedSeats(o, "HELD")
        /\ payment' = [payment EXCEPT ![o] = "open"]
        /\ UNCHANGED <<expiresAt, granted>>
    BY <1>6 DEF Checkout
  <2>2. TypeOK'
    BY <1>2, <1>3, <1>4, <2>1 DEF IInv, TypeOK, TxStatus, SubStatus, SeatStatus, Payment
  <2>3. Consistent(o)'
    BY <1>1, <1>2, <1>4, <2>1, <2>2 DEF IInv, TypeOK, Consistent, Unbooked, Waiting, SeatStatus
  <2>4. ASSUME NEW q \in Orders, q # o PROVE Consistent(q)'
    <3>1. /\ txStatus'[q] = txStatus[q] /\ subStatus'[q] = subStatus[q]
          /\ applied'[q] = applied[q] /\ returned'[q] = returned[q]
          /\ credited'[q] = credited[q] /\ granted'[q] = granted[q]
          /\ compensation'[q] = compensation[q] /\ payment'[q] = payment[q]
      BY <1>2, <2>1, <2>4 DEF IInv, TypeOK
    <3>2. \A s \in Slots : seat'[q][s] = seat[q][s]
                            \/ (seat[q][s] = "HELD" /\ seat'[q][s] = "CANCELED")
      BY <1>4, <2>1, <2>4 DEF SeatStatus
    <3>3. TypeOK /\ Consistent(q)
      BY DEF IInv
    <3> QED
      BY <2>2, <3>1, <3>2, <3>3, Frame
  <2> QED
    BY <2>2, <2>3, <2>4 DEF IInv
<1> QED
  BY <1>5, <1>6

\* Serving a paid order keeps the invariant.
LEMMA ActivateIInv ==
    ASSUME IInv, NEW o \in Orders, Activate(o)
    PROVE  IInv'
<1> USE OrdersAssumption
<1>1. /\ txStatus[o] = "PENDING" /\ payment[o] = "succeeded"
      /\ txStatus' = [txStatus EXCEPT ![o] = "SUCCEEDED"]
      /\ subStatus' = [subStatus EXCEPT ![o] = "ACTIVE"]
      /\ granted' = [granted EXCEPT ![o] = TRUE]
      /\ seat' = [seat EXCEPT ![o] = [s \in Slots |->
                     IF s \in SlotsOf[o] /\ seat[o][s] = "HELD" THEN "ENROLLED"
                     ELSE seat[o][s]]]
      /\ UNCHANGED <<now, createdAt, amount, applied, ttlExpired, compensation,
                     returned, credited, balance, capacity, removed, payment, dropped>>
  BY DEF Activate, moneyVars, portVars, payVars
<1>2. expiresAt' \in [Orders -> Nat]
  BY DEF Activate, IInv, TypeOK
<1>3. TypeOK'
  <2>1. seat' \in [Orders -> [Slots -> SeatStatus]]
    BY <1>1 DEF IInv, TypeOK, SeatStatus
  <2> QED
    BY <1>1, <1>2, <2>1 DEF IInv, TypeOK, TxStatus, SubStatus
<1>4. Consistent(o)'
  <2>1. SlotsOf[o] \subseteq Slots /\ \A s \in SlotsOf[o] : seat[o][s] = "HELD"
    BY DEF Activate, CanEnroll
  <2>2. \A s \in SlotsOf[o] : seat'[o][s] = "ENROLLED"
    BY <1>1, <2>1 DEF IInv, TypeOK
  <2>3. /\ txStatus'[o] = "SUCCEEDED" /\ subStatus'[o] = "ACTIVE" /\ granted'[o]
        /\ compensation'[o] = compensation[o] /\ payment'[o] = "succeeded"
        /\ returned'[o] = returned[o] /\ credited'[o] = credited[o]
        /\ applied'[o] = applied[o]
    BY <1>1 DEF IInv, TypeOK
  <2>4. /\ ~compensation[o] /\ returned[o] = 0 /\ credited[o] = 0
        /\ applied[o] <= Price[o] /\ Price[o] \in Nat
    BY <1>1 DEF IInv, Consistent, Waiting
  <2> QED
    BY <2>2, <2>3, <2>4 DEF Consistent, Served
<1>5. ASSUME NEW q \in Orders, q # o PROVE Consistent(q)'
  <2>1. /\ txStatus'[q] = txStatus[q] /\ subStatus'[q] = subStatus[q]
        /\ applied'[q] = applied[q] /\ returned'[q] = returned[q]
        /\ credited'[q] = credited[q] /\ granted'[q] = granted[q]
        /\ compensation'[q] = compensation[q] /\ payment'[q] = payment[q]
        /\ seat'[q] = seat[q]
    BY <1>1, <1>5 DEF IInv, TypeOK
  <2>2. TypeOK /\ Consistent(q)
    BY DEF IInv
  <2> QED
    BY <1>3, <2>1, <2>2, Frame
<1> QED
  BY <1>3, <1>4, <1>5 DEF IInv

\* The four settlements without service, and the compensation of an order that
\* the sweep had taken down, keep the invariant.
LEMMA SettleIInv ==
    ASSUME IInv, NEW o \in Orders,
           CompensatePaid(o) \/ FailMismatch(o) \/ ApplyCancellation(o)
           \/ SweepStale(o) \/ LateSuccess(o)
    PROVE  IInv'
<1>0. /\ compensation = [compensation EXCEPT ![o] = compensation[o]]
      /\ ttlExpired = [ttlExpired EXCEPT ![o] = ttlExpired[o]]
      /\ compensation[o] \in BOOLEAN /\ ttlExpired[o] \in BOOLEAN
      /\ txStatus[o] = "PENDING" => compensation[o] = FALSE
  BY DEF IInv, TypeOK, Consistent, Waiting
<1>1. CASE CompensatePaid(o)
  BY <1>0, <1>1, SettleUnserved DEF CompensatePaid
<1>2. CASE FailMismatch(o)
  BY <1>0, <1>2, SettleUnserved DEF FailMismatch
<1>3. CASE ApplyCancellation(o)
  BY <1>0, <1>3, SettleUnserved DEF ApplyCancellation
<1>4. CASE SweepStale(o)
  BY <1>0, <1>4, SettleUnserved DEF SweepStale
<1>5. CASE LateSuccess(o)
  <2>1. TypeOK'
    BY <1>5 DEF LateSuccess, subVars, moneyVars, portVars, payVars, IInv, TypeOK
  <2>2. Consistent(o)'
    BY <1>5 DEF LateSuccess, subVars, moneyVars, portVars, payVars, IInv, TypeOK, Consistent,
       Unserved, Seated
  <2>3. ASSUME NEW q \in Orders, q # o PROVE Consistent(q)'
    <3>1. TypeOK /\ Consistent(q) /\ compensation'[q] = compensation[q]
      BY <1>5, <2>3 DEF LateSuccess, IInv, TypeOK
    <3> QED
      BY <1>5, <2>1, <3>1, Frame DEF LateSuccess, subVars, moneyVars, portVars, payVars
  <2> QED
    BY <2>1, <2>2, <2>3 DEF IInv
<1> QED
  BY <1>1, <1>2, <1>3, <1>4, <1>5

\* What the credit of an expired subscription may be.
LEMMA CreditBounds ==
    ASSUME NEW o \in Orders, NEW used \in Nat
    PROVE  Credit(o, used) \in Nat /\ Credit(o, used) <= Price[o]
<1>1. Price[o] \in Nat /\ used * SessionPrice \in Nat
  BY OrdersAssumption
<1> QED
  BY <1>1 DEF Credit, Greater, Lesser

\* The expiry sweep keeps the invariant.
LEMMA SweepExpiredIInv ==
    ASSUME IInv, NEW o \in Orders, NEW used \in Nat, SweepExpired(o, used)
    PROVE  IInv'
<1> USE OrdersAssumption
<1> DEFINE c == Credit(o, used)
<1>1. c \in Nat /\ c <= Price[o]
  BY CreditBounds
<1>2. /\ subStatus[o] = "ACTIVE"
      /\ subStatus' = [subStatus EXCEPT ![o] = "EXPIRED"]
      /\ seat' = [seat EXCEPT ![o] = Released(seat[o])]
      /\ credited' = [credited EXCEPT ![o] = @ + c]
      /\ balance' = [balance EXCEPT ![ParentOf[o]] = @ + c]
      /\ UNCHANGED <<now, txStatus, createdAt, amount, applied, ttlExpired, compensation,
                     expiresAt, granted, returned, capacity, removed, payment, dropped>>
  BY DEF SweepExpired, txVars, portVars, payVars
<1> HIDE DEF c
<1>3. TypeOK'
  <2>1. Released(seat[o]) \in [Slots -> SeatStatus]
    BY DEF Released, SeatStatus, IInv, TypeOK
  <2>2. credited' \in [Orders -> Nat] /\ balance' \in [Parents -> Nat]
    BY <1>1, <1>2 DEF IInv, TypeOK
  <2> QED
    BY <1>2, <2>1, <2>2 DEF IInv, TypeOK, SubStatus
<1>4. Consistent(o)'
  <2>1. txStatus[o] = "SUCCEEDED" /\ Served(o)
    BY <1>2 DEF IInv, TypeOK, TxStatus, Consistent, Unbooked, Waiting, Unserved
  <2>2. credited'[o] = c
    BY <1>1, <1>2, <2>1 DEF IInv, TypeOK, Served
  <2> QED
    BY <1>1, <1>2, <2>1, <2>2 DEF IInv, TypeOK, Consistent, Served
<1>5. ASSUME NEW q \in Orders, q # o PROVE Consistent(q)'
  <2>1. /\ txStatus'[q] = txStatus[q] /\ subStatus'[q] = subStatus[q]
        /\ applied'[q] = applied[q] /\ returned'[q] = returned[q]
        /\ credited'[q] = credited[q] /\ granted'[q] = granted[q]
        /\ compensation'[q] = compensation[q] /\ payment'[q] = payment[q]
        /\ seat'[q] = seat[q]
    BY <1>2, <1>5 DEF IInv, TypeOK
  <2>2. TypeOK /\ Consistent(q)
    BY DEF IInv
  <2> QED
    BY <1>3, <2>1, <2>2, Frame
<1> QED
  BY <1>3, <1>4, <1>5 DEF IInv

\* Administrators, the provider, the schedule and the clock keep the invariant.
LEMMA EnvironmentIInv ==
    ASSUME IInv,
           \/ \E o \in Orders : AdminCancel(o) \/ DropVerification(o)
           \/ \E o \in Orders, verdict \in {"succeeded", "mismatch", "canceled"} :
                 Verdict(o, verdict)
           \/ \E batch \in SUBSET Orders, days \in FreezeDays : BulkFreeze(batch, days)
           \/ \E s \in Slots : RemoveSlot(s)
           \/ \E s \in Slots, seats \in 0..MaxCapacity : SetCapacity(s, seats)
           \/ Tick
           \/ UNCHANGED vars
    PROVE  IInv'
<1> USE OrdersAssumption DEF txVars, subVars, moneyVars, portVars, payVars
<1>1. ASSUME NEW o \in Orders, AdminCancel(o) PROVE IInv'
  <2>1. TypeOK'
    BY <1>1 DEF AdminCancel, IInv, TypeOK, SubStatus
  <2>2. Consistent(o)'
    BY <1>1 DEF AdminCancel, IInv, TypeOK, Consistent, Unbooked, Waiting, Served, Unserved, Seated
  <2>3. ASSUME NEW q \in Orders, q # o PROVE Consistent(q)'
    <3>1. TypeOK /\ Consistent(q) /\ subStatus'[q] = subStatus[q]
      BY <1>1, <2>3 DEF AdminCancel, IInv, TypeOK
    <3> QED
      BY <1>1, <2>1, <3>1, Frame DEF AdminCancel
  <2> QED
    BY <2>1, <2>2, <2>3 DEF IInv
<1>2. ASSUME NEW o \in Orders, NEW verdict \in {"succeeded", "mismatch", "canceled"},
             Verdict(o, verdict)
      PROVE  IInv'
  <2>1. TypeOK'
    BY <1>2 DEF Verdict, IInv, TypeOK, Payment
  <2>2. Consistent(o)'
    <3>1. txStatus[o] # "NONE" /\ ~compensation[o] /\ Consistent(o)
      BY <1>2 DEF Verdict, IInv, Consistent, Unbooked
    <3>2. /\ Waiting(o) => Waiting(o)'
          /\ Served(o) => Served(o)'
          /\ Unserved(o) => Unserved(o)'
      BY <1>2 DEF Verdict, Waiting, Served, Unserved, Seated
    <3> QED
      BY <1>2, <3>1, <3>2 DEF Verdict, Consistent
  <2>3. ASSUME NEW q \in Orders, q # o PROVE Consistent(q)'
    <3>1. TypeOK /\ Consistent(q) /\ payment'[q] = payment[q]
      BY <1>2, <2>3 DEF Verdict, IInv, TypeOK
    <3> QED
      BY <1>2, <2>1, <3>1, Frame DEF Verdict
  <2> QED
    BY <2>1, <2>2, <2>3 DEF IInv
<1>3. ASSUME TypeOK',
             UNCHANGED <<txStatus, subStatus, applied, returned, credited, granted,
                         compensation, payment, seat>>
      PROVE  IInv'
  BY <1>3, Frame DEF IInv
<1>4. ASSUME NEW batch \in SUBSET Orders, NEW days \in FreezeDays, BulkFreeze(batch, days)
      PROVE  IInv'
  <2>1. expiresAt' \in [Orders -> Nat]
    BY <1>4 DEF BulkFreeze, IInv, TypeOK
  <2>2. TypeOK'
    BY <1>4, <2>1 DEF BulkFreeze, IInv, TypeOK
  <2> QED
    BY <1>3, <1>4, <2>2 DEF BulkFreeze
<1>5. ASSUME NEW s \in Slots, RemoveSlot(s) PROVE IInv'
  <2>1. TypeOK'
    BY <1>5 DEF RemoveSlot, IInv, TypeOK
  <2> QED
    BY <1>3, <1>5, <2>1 DEF RemoveSlot
<1>6. ASSUME NEW s \in Slots, NEW seats \in 0..MaxCapacity, SetCapacity(s, seats) PROVE IInv'
  <2>1. TypeOK'
    BY <1>6 DEF SetCapacity, IInv, TypeOK
  <2> QED
    BY <1>3, <1>6, <2>1 DEF SetCapacity
<1>7. CASE Tick
  <2>1. TypeOK'
    BY <1>7 DEF Tick, IInv, TypeOK
  <2> QED
    BY <1>3, <1>7, <2>1 DEF Tick
<1>8. CASE UNCHANGED vars
  <2>1. TypeOK'
    BY <1>8 DEF vars, IInv, TypeOK
  <2> QED
    BY <1>3, <1>8, <2>1 DEF vars
<1>9. ASSUME NEW o \in Orders, DropVerification(o) PROVE IInv'
  <2>1. TypeOK'
    BY <1>9 DEF DropVerification, IInv, TypeOK
  <2> QED
    BY <1>3, <1>9, <2>1 DEF DropVerification
<1> QED
  BY <1>1, <1>2, <1>4, <1>5, <1>6, <1>7, <1>8, <1>9

\* Every step keeps the invariant.
LEMMA NextIInv == IInv /\ [Next]_vars => IInv'
<1> SUFFICES ASSUME IInv, [Next]_vars
             PROVE  IInv'
  OBVIOUS
<1>1. ASSUME NEW o \in Orders, NEW used \in 0..(TokensPerSlot * Cardinality(SlotsOf[o])),
             SweepExpired(o, used)
      PROVE  IInv'
  BY <1>1, SweepExpiredIInv
<1> QED
  BY <1>1, CheckoutIInv, ActivateIInv, SettleIInv, EnvironmentIInv
  DEF Next, ConfirmPayment

\* The type invariant.
THEOREM TypeCorrect == Spec => []TypeOK
<1>1. IInv => TypeOK
  BY DEF IInv
<1> QED
  BY <1>1, InitIInv, NextIInv, PTL DEF Spec

\* Whatever order webhooks, sweeps, checkouts and administrators come in, a
\* settled order gave its parent the sessions or the deposit part, not both.
THEOREM DepositSafe == Spec => []SessionsOrDepositBack
<1>1. IInv => SessionsOrDepositBack
  BY OrdersAssumption DEF IInv, TypeOK, Consistent, Served, Unserved, Settled, SessionsOrDepositBack
<1> QED
  BY <1>1, InitIInv, NextIInv, PTL DEF Spec

\* Only confirmed payments are sent back, and only of orders that keep nothing.
THEOREM CompensationSafe == Spec => []CompensatedOrderIsDead
<1>1. IInv => CompensatedOrderIsDead
  <2> SUFFICES ASSUME IInv, NEW o \in Orders, compensation[o]
               PROVE  /\ payment[o] \in {"succeeded", "mismatch"}
                      /\ ~granted[o] /\ subStatus[o] = "CANCELED"
                      /\ \A s \in Slots : ~Seated(o, s)
    BY DEF CompensatedOrderIsDead
  <2>1. Consistent(o) /\ txStatus[o] \in TxStatus
    BY DEF IInv, TypeOK
  <2>2. ~Unbooked(o) /\ ~Waiting(o) /\ ~Served(o)
    BY DEF Unbooked, Waiting, Served
  <2>3. Unserved(o) /\ payment[o] \in {"succeeded", "mismatch"}
    BY <2>1, <2>2 DEF Consistent, TxStatus
  <2> QED
    BY <2>3 DEF Unserved
<1> QED
  BY <1>1, InitIInv, NextIInv, PTL DEF Spec

\* An active subscription has its sessions and all its seats.
THEOREM SeatsSafe == Spec => []ActiveHasItsSeats
<1>1. IInv => ActiveHasItsSeats
  <2> SUFFICES ASSUME IInv, NEW o \in Orders
               PROVE  /\ subStatus[o] = "ACTIVE" =>
                            granted[o] /\ \A s \in SlotsOf[o] : seat[o][s] = "ENROLLED"
                      /\ ~granted[o] => \A s \in Slots : seat[o][s] # "ENROLLED"
    BY DEF ActiveHasItsSeats
  <2>1. Consistent(o) /\ txStatus[o] \in TxStatus
    BY DEF IInv, TypeOK
  <2>2. CASE Unbooked(o) \/ Waiting(o) \/ Unserved(o)
    BY <2>2 DEF Unbooked, Waiting, Unserved, Seated
  <2>3. CASE Served(o)
    BY <2>3 DEF Served
  <2> QED
    BY <2>1, <2>2, <2>3 DEF Consistent, TxStatus
<1> QED
  BY <1>1, InitIInv, NextIInv, PTL DEF Spec

\* Webhooks and sweeps never undo the verdict of one another.
THEOREM VerdictsStand == Spec => SettledOnce
<1> DEFINE A == \A o \in Orders : Settled(o) => txStatus'[o] = txStatus[o]
<1>1. IInv /\ [Next]_vars => [A]_vars
  <2> SUFFICES ASSUME IInv, Next, NEW q \in Orders, Settled(q)
               PROVE  txStatus'[q] = txStatus[q]
    OBVIOUS
  <2> USE DEF IInv, TypeOK, Settled
  <2>1. ASSUME NEW o \in Orders, NEW useDeposit \in BOOLEAN, Checkout(o, useDeposit)
        PROVE  txStatus'[q] = txStatus[q]
    BY <2>1 DEF Checkout
  <2>2. ASSUME NEW o \in Orders, ConfirmPayment(o)
        PROVE  txStatus'[q] = txStatus[q]
    BY <2>2 DEF ConfirmPayment, Activate, CompensatePaid, FailMismatch, LateSuccess,
       ApplyCancellation
  <2>3. ASSUME NEW o \in Orders, SweepStale(o)
        PROVE  txStatus'[q] = txStatus[q]
    BY <2>3 DEF SweepStale
  <2> QED
    BY <2>1, <2>2, <2>3 DEF Next, DropVerification, SweepExpired, AdminCancel, Verdict,
       BulkFreeze, RemoveSlot, SetCapacity, Tick, txVars
<1> QED
  BY <1>1, InitIInv, NextIInv, PTL DEF Spec, SettledOnce

\* Counting seats: a set of orders that grows by at most one order counts at
\* most one more, and one that does not grow counts no more.
LEMMA CountAtMostOneMore ==
    ASSUME NEW S, NEW T \in SUBSET Orders, NEW o \in Orders, S \subseteq T \cup {o}
    PROVE  /\ Cardinality(S) \in Nat /\ Cardinality(T) \in Nat
           /\ Cardinality(S) <= Cardinality(T) + 1
           /\ S \subseteq T => Cardinality(S) <= Cardinality(T)
<1>1. IsFiniteSet(T) /\ Cardinality(T) \in Nat
  BY OrdersAssumption, FS_Subset, FS_CardinalityType
<1>2. /\ IsFiniteSet(T \cup {o})
      /\ Cardinality(T \cup {o}) \in Nat
      /\ Cardinality(T \cup {o}) <= Cardinality(T) + 1
  <2>1. /\ IsFiniteSet(T \cup {o})
        /\ Cardinality(T \cup {o}) = IF o \in T THEN Cardinality(T) ELSE Cardinality(T) + 1
    BY <1>1, FS_AddElement, Zenon
  <2> QED
    BY <1>1, <2>1
<1>3. /\ IsFiniteSet(S)
      /\ Cardinality(S) \in Nat
      /\ Cardinality(S) <= Cardinality(T \cup {o})
      /\ S \subseteq T => Cardinality(S) <= Cardinality(T)
  BY <1>1, <1>2, FS_Subset, FS_CardinalityType
<1> QED
  BY <1>1, <1>2, <1>3

\* No step that takes a seat oversells the slot, with any number of orders in
\* flight and any changes of capacity in between.
THEOREM NeverOversold == Spec => SeatsNotOversold
<1> DEFINE A == \A s \in Slots : Occupied(s)' > Occupied(s) => Occupied(s)' <= capacity[s]
           Occ(s) == {q \in Orders : Occupies(q, s)}
<1>1. IInv /\ [Next]_vars => [A]_vars
  <2> SUFFICES ASSUME IInv, Next, NEW s \in Slots, Occupied(s)' > Occupied(s)
               PROVE  Occupied(s)' <= capacity[s]
    OBVIOUS
  <2> USE OrdersAssumption
  <2>0. /\ Occupied(s) = Cardinality(Occ(s)) /\ Occupied(s)' = Cardinality(Occ(s)')
        /\ Occ(s) \in SUBSET Orders /\ capacity[s] \in Nat
    BY DEF Occupied, IInv, TypeOK
  <2>1. ASSUME NEW o \in Orders, Occ(s)' \subseteq Occ(s) \cup {o} PROVE
          /\ Occupied(s) \in Nat /\ Occupied(s)' \in Nat
          /\ Occupied(s)' <= Occupied(s) + 1
          /\ ~(Occ(s)' \subseteq Occ(s))
    BY <2>0, <2>1, CountAtMostOneMore
  <2>2. ASSUME Orders # {} PROVE ~(Occ(s)' \subseteq Occ(s))
    BY <2>1, <2>2
  <2>3. ASSUME NEW o \in Orders, NEW useDeposit \in BOOLEAN, Checkout(o, useDeposit)
        PROVE  Occupied(s)' <= capacity[s]
    <3>1. ASSUME NEW q \in Orders, Occupies(q, s)', q # o PROVE Occupies(q, s)
      BY <2>3, <3>1 DEF Checkout, BookedSeats, Occupies, Stale, IInv, TypeOK
    <3>2. Occ(s)' \subseteq Occ(s) \cup {o}
      BY <3>1
    <3>3. s \in SlotsOf[o]
      <4> SUFFICES ASSUME s \notin SlotsOf[o] PROVE FALSE
        OBVIOUS
      <4>1. ~Occupies(o, s)'
        <5>1. seat[o][s] = "NONE"
          BY <2>3 DEF Checkout, IInv, Consistent, Unbooked
        <5>2. seat'[o][s] = IF Cleaned(o, o, s) THEN "CANCELED" ELSE seat[o][s]
          BY <2>3 DEF Checkout, BookedSeats
        <5> QED
          BY <5>1, <5>2 DEF Cleaned, Occupies
      <4> QED
        BY <2>2, <3>2, <4>1
    <3>4. Occupied(s) < capacity[s]
      BY <2>3, <3>3 DEF Checkout, SeatAvailable
    <3>5. /\ Occupied(s) \in Nat /\ Occupied(s)' \in Nat
          /\ Occupied(s)' <= Occupied(s) + 1
      BY <2>1, <3>2
    <3> QED
      BY <2>0, <3>4, <3>5
  <2>4. ASSUME NEW o \in Orders, Activate(o)
        PROVE  Occupied(s)' <= capacity[s]
    <3> DEFINE Others == {q \in Orders \ {o} : Occupies(q, s)}
    <3>1. ASSUME NEW q \in Orders, Occupies(q, s)', q # o PROVE Occupies(q, s)
      BY <2>4, <3>1 DEF Activate, Occupies, Stale, IInv, TypeOK
    <3>2. Occ(s)' \subseteq Others \cup {o}
      BY <3>1
    <3>3. s \in SlotsOf[o]
      <4> SUFFICES ASSUME s \notin SlotsOf[o] PROVE FALSE
        OBVIOUS
      <4>1. Occupies(o, s)' => Occupies(o, s)
        BY <2>4 DEF Activate, Occupies, Stale, IInv, TypeOK
      <4> QED
        BY <2>2, <3>1, <4>1
    <3>4. Cardinality(Others) < capacity[s]
      BY <2>4, <3>3 DEF Activate, CanEnroll, TakenByOthers
    <3>5. Cardinality(Others) \in Nat /\ Cardinality(Occ(s)') \in Nat
          /\ Cardinality(Occ(s)') <= Cardinality(Others) + 1
      BY <3>2, CountAtMostOneMore
    <3> QED
      BY <2>0, <3>4, <3>5
  <2>5. ASSUME NEW o \in Orders, UNCHANGED <<now, createdAt>>,
               seat' = [seat EXCEPT ![o] = Released(seat[o])]
        PROVE  FALSE
    <3>1. ASSUME NEW q \in Orders, Occupies(q, s)' PROVE Occupies(q, s)
      BY <2>5, <3>1 DEF Occupies, Stale, Released, IInv, TypeOK
    <3> QED
      BY <2>2, <3>1
  <2>6. ASSUME NEW o \in Orders,
               \/ CompensatePaid(o) \/ FailMismatch(o) \/ ApplyCancellation(o)
               \/ SweepStale(o) \/ \E used : SweepExpired(o, used)
        PROVE  FALSE
    BY <2>5, <2>6 DEF CompensatePaid, FailMismatch, ApplyCancellation, SweepStale,
       SweepExpired, ReleaseOrder, txVars
  <2>7. ASSUME UNCHANGED <<seat, createdAt>>, now' \in Nat, now' >= now PROVE Orders = {}
    <3>1. ASSUME NEW q \in Orders, Occupies(q, s)' PROVE Occupies(q, s)
      BY <2>7, <3>1 DEF Occupies, Stale, IInv, TypeOK
    <3> QED
      BY <2>2, <3>1
  <2>8. Orders # {}
    <3> SUFFICES ASSUME Orders = {} PROVE FALSE
      OBVIOUS
    <3>1. Occ(s) = {} /\ Occ(s)' = {}
      OBVIOUS
    <3> QED
      BY <2>0, <3>1, FS_EmptySet
  <2>9. ASSUME \/ \E o \in Orders : AdminCancel(o) \/ LateSuccess(o) \/ DropVerification(o)
               \/ \E o \in Orders, verdict \in {"succeeded", "mismatch", "canceled"} :
                     Verdict(o, verdict)
               \/ \E batch \in SUBSET Orders, days \in FreezeDays : BulkFreeze(batch, days)
               \/ \E t \in Slots : RemoveSlot(t)
               \/ \E t \in Slots, seats \in 0..MaxCapacity : SetCapacity(t, seats)
               \/ Tick
        PROVE  FALSE
    <3>1. UNCHANGED <<seat, createdAt>> /\ now' \in Nat /\ now' >= now
      BY <2>9 DEF AdminCancel, LateSuccess, DropVerification, Verdict, BulkFreeze, RemoveSlot,
         SetCapacity, Tick, txVars, IInv, TypeOK
    <3> QED
      BY <2>7, <2>8, <3>1
  <2> QED
    BY <2>3, <2>4, <2>6, <2>9 DEF Next, ConfirmPayment
<1> QED
  BY <1>1, InitIInv, NextIInv, PTL DEF Spec, SeatsNotOversold

-----------------------------------------------------------------------------
(* The deposit and its journal *)

\* The kopecks of finitely many orders are finitely many.
LEMMA KopecksFinite ==
    ASSUME NEW S \in SUBSET Orders, NEW f \in [Orders -> Nat]
    PROVE  IsFiniteSet(Kopecks(S, f)) /\ Total(S, f) \in Nat
<1> DEFINE K(o) == {o} \X (1..f[o])
<1>1. \A o \in S : IsFiniteSet(K(o))
  <2> TAKE o \in S
  <2>1. IsFiniteSet({o}) /\ IsFiniteSet(1..f[o])
    <3>1. 1 \in Int /\ f[o] \in Int
      OBVIOUS
    <3> QED
      BY <3>1, FS_Singleton, FS_Interval
  <2> QED
    BY <2>1, FS_Product
<1>2. IsFiniteSet({K(o) : o \in S})
  <2> DEFINE k == [o \in S |-> K(o)]
  <2>1. IsFiniteSet(S)
    BY OrdersAssumption, FS_Subset
  <2>2. k \in Surjection(S, {K(o) : o \in S})
    BY DEF Surjection
  <2> QED
    BY <2>1, <2>2, FS_Surjection
<1>3. \A k \in {K(o) : o \in S} : IsFiniteSet(k)
  BY <1>1
<1>4. IsFiniteSet(Kopecks(S, f))
  BY <1>2, <1>3, FS_UNION DEF Kopecks
<1> QED
  BY <1>4, FS_CardinalityType DEF Total

\* An order's share of a total.
LEMMA TotalSplits ==
    ASSUME NEW S \in SUBSET Orders, NEW f \in [Orders -> Nat], NEW o \in S
    PROVE  Total(S, f) = Total(S \ {o}, f) + f[o] /\ Total(S \ {o}, f) \in Nat
<1> DEFINE K == {o} \X (1..f[o])
           R == Kopecks(S \ {o}, f)
<1>1. f[o] \in Nat /\ IsFiniteSet(R) /\ Cardinality(R) \in Nat
  BY KopecksFinite DEF Total
<1>2. IsFiniteSet(K) /\ Cardinality(K) = f[o]
  <2>1. IsFiniteSet({o}) /\ Cardinality({o}) = 1
    BY FS_Singleton
  <2>2. IsFiniteSet(1..f[o]) /\ Cardinality(1..f[o]) = f[o]
    <3>1. 1 \in Int /\ f[o] \in Int
      BY <1>1
    <3>2. /\ IsFiniteSet(1..f[o])
          /\ Cardinality(1..f[o]) = IF 1 > f[o] THEN 0 ELSE f[o] - 1 + 1
      BY <3>1, FS_Interval
    <3> QED
      BY <1>1, <3>2
  <2>3. IsFiniteSet(K) /\ Cardinality(K) = 1 * f[o]
    BY <2>1, <2>2, FS_Product
  <2> QED
    BY <1>1, <2>3
<1>3. Kopecks(S, f) = R \cup K /\ R \cap K = {}
  BY DEF Kopecks
<1> HIDE DEF R, K
<1>4. Cardinality(R \cup K) = Cardinality(R) + Cardinality(K) - Cardinality(R \cap K)
  BY <1>1, <1>2, FS_Union
<1>5. Cardinality(R \cap K) = 0
  BY <1>3, FS_EmptySet
<1> QED
  BY <1>1, <1>2, <1>3, <1>4, <1>5 DEF Total, R

\* A total changes by what one entry of it changes.
LEMMA TotalMoves ==
    ASSUME NEW f \in [Orders -> Nat], NEW e \in [Orders -> Nat], NEW o \in Orders,
           \A q \in Orders \ {o} : e[q] = f[q], NEW p \in Parents
    PROVE  Total(OrdersOf(p), e) = Total(OrdersOf(p), f)
                                   + (IF p = ParentOf[o] THEN e[o] - f[o] ELSE 0)
<1>1. \A S \in SUBSET (Orders \ {o}) : Total(S, e) = Total(S, f)
  <2> TAKE S \in SUBSET (Orders \ {o})
  <2>1. \A q \in S : {q} \X (1..e[q]) = {q} \X (1..f[q])
    OBVIOUS
  <2>2. {{q} \X (1..e[q]) : q \in S} = {{q} \X (1..f[q]) : q \in S}
    BY <2>1, Zenon
  <2> QED
    BY <2>2 DEF Total, Kopecks
<1>2. OrdersOf(p) \in SUBSET Orders /\ Total(OrdersOf(p), f) \in Nat
  BY KopecksFinite DEF OrdersOf
<1>3. CASE p # ParentOf[o]
  <2>1. OrdersOf(p) \in SUBSET (Orders \ {o})
    BY <1>3 DEF OrdersOf
  <2> QED
    BY <1>1, <1>2, <1>3, <2>1
<1>4. CASE p = ParentOf[o]
  <2> DEFINE S == OrdersOf(p) \ {o}
  <2>1. o \in OrdersOf(p) /\ S \in SUBSET (Orders \ {o})
    BY <1>4 DEF OrdersOf
  <2>2. Total(OrdersOf(p), f) = Total(S, f) + f[o] /\ Total(OrdersOf(p), e) = Total(S, e) + e[o]
    BY <1>2, <2>1, TotalSplits
  <2>3. Total(S, e) = Total(S, f) /\ Total(S, f) \in Nat /\ e[o] \in Nat /\ f[o] \in Nat
    BY <1>1, <1>2, <2>1, TotalSplits
  <2> HIDE DEF S
  <2> QED
    BY <1>4, <2>2, <2>3
<1> QED
  BY <1>3, <1>4

\* The balance of every parent agrees with the journal.
Balanced ==
    \A p \in Parents :
        balance[p] + Total(OrdersOf(p), applied) =
            Opening[p] + Total(OrdersOf(p), returned) + Total(OrdersOf(p), credited)

\* A step that writes the entries of one order and moves the balance of its parent by
\* what the entries say.
LEMMA BalanceMoves ==
    ASSUME TypeOK, TypeOK', Balanced, NEW o \in Orders,
           \A q \in Orders \ {o} : /\ applied'[q] = applied[q] /\ returned'[q] = returned[q]
                                   /\ credited'[q] = credited[q],
           \A p \in Parents \ {ParentOf[o]} : balance'[p] = balance[p],
           balance'[ParentOf[o]] + applied'[o] - applied[o] =
               balance[ParentOf[o]] + returned'[o] - returned[o] + credited'[o] - credited[o]
    PROVE  Balanced'
<1> SUFFICES ASSUME NEW p \in Parents
             PROVE  balance'[p] + Total(OrdersOf(p), applied') =
                       Opening[p] + Total(OrdersOf(p), returned') + Total(OrdersOf(p), credited')
  BY DEF Balanced, OrdersOf, Total, Kopecks
<1> DEFINE A == Total(OrdersOf(p), applied)   A1 == Total(OrdersOf(p), applied')
           B == Total(OrdersOf(p), returned)  B1 == Total(OrdersOf(p), returned')
           C == Total(OrdersOf(p), credited)  C1 == Total(OrdersOf(p), credited')
<1>1. /\ {applied, applied', returned, returned', credited, credited'} \subseteq [Orders -> Nat]
      /\ OrdersOf(p) \in SUBSET Orders
  BY DEF TypeOK, OrdersOf
<1>2. {A, A1, B, B1, C, C1} \subseteq Nat
  BY <1>1, KopecksFinite
<1>3. /\ A1 = A + (IF p = ParentOf[o] THEN applied'[o] - applied[o] ELSE 0)
      /\ B1 = B + (IF p = ParentOf[o] THEN returned'[o] - returned[o] ELSE 0)
      /\ C1 = C + (IF p = ParentOf[o] THEN credited'[o] - credited[o] ELSE 0)
  BY <1>1, TotalMoves
<1>4. balance[p] + A = Opening[p] + B + C
  BY DEF Balanced
<1>5. /\ balance[p] \in Nat /\ balance'[p] \in Nat /\ Opening[p] \in Nat
      /\ applied[o] \in Nat /\ returned[o] \in Nat /\ credited[o] \in Nat
      /\ applied'[o] \in Nat /\ returned'[o] \in Nat /\ credited'[o] \in Nat
  BY OrdersAssumption DEF TypeOK
<1> HIDE DEF A, A1, B, B1, C, C1
<1>6. balance'[p] + A1 = Opening[p] + B1 + C1
  <2>1. CASE p = ParentOf[o]
    <3> DEFINE x == applied'[o] - applied[o]
               y == returned'[o] - returned[o]
               z == credited'[o] - credited[o]
    <3>1. A1 = A + x /\ B1 = B + y /\ C1 = C + z
      BY <1>3, <2>1
    <3>2. balance'[p] + x = balance[p] + y + z /\ x \in Int /\ y \in Int /\ z \in Int
      <4>1. balance'[p] + applied'[o] - applied[o] =
              balance[p] + returned'[o] - returned[o] + credited'[o] - credited[o]
        BY <2>1
      <4> QED
        BY <1>5, <4>1
    <3>3. A \in Nat /\ B \in Nat /\ C \in Nat
      BY <1>2
    <3> HIDE DEF x, y, z
    <3>4. balance'[p] + (A + x) = Opening[p] + (B + y) + (C + z)
      <4> DEFINE b == balance[p]
                 b1 == balance'[p]
                 open == Opening[p]
      <4>1. /\ b + A = open + B + C /\ b1 + x = b + y + z
            /\ b \in Nat /\ b1 \in Nat /\ open \in Nat
        BY <1>4, <1>5, <3>2
      <4> HIDE DEF b, b1, open
      <4>2. b1 + (A + x) = open + (B + y) + (C + z)
        BY <3>2, <3>3, <4>1
      <4> QED
        BY <4>2 DEF b1, open
    <3> QED
      BY <3>1, <3>4
  <2>2. CASE p # ParentOf[o]
    BY <1>2, <1>3, <1>4, <1>5, <2>2
  <2> QED
    BY <2>1, <2>2
<1> QED
  BY <1>6 DEF A1, B1, C1

LEMMA NextBalanced ==
    ASSUME IInv, Balanced, [Next]_vars
    PROVE  Balanced'
<1> USE OrdersAssumption
<1>1. TypeOK /\ TypeOK' /\ \A o \in Orders : Consistent(o)
  BY NextIInv DEF IInv
<1>2. ASSUME NEW o \in Orders, NEW useDeposit \in BOOLEAN, Checkout(o, useDeposit)
      PROVE  Balanced'
  <2> DEFINE share == DepositShare(o, useDeposit)
  <2>1. /\ applied' = [applied EXCEPT ![o] = share] /\ applied[o] = 0
        /\ balance' = [balance EXCEPT ![ParentOf[o]] = @ - share]
        /\ UNCHANGED <<returned, credited>>
    BY <1>1, <1>2 DEF Checkout, Consistent, Unbooked
  <2>2. share \in Nat /\ balance[ParentOf[o]] \in Nat /\ ParentOf[o] \in Parents
    BY <1>1 DEF DepositShare, Lesser, TypeOK
  <2> HIDE DEF share
  <2>3. /\ applied'[o] = share /\ balance'[ParentOf[o]] = balance[ParentOf[o]] - share
        /\ \A q \in Orders \ {o} : applied'[q] = applied[q]
        /\ \A p \in Parents \ {ParentOf[o]} : balance'[p] = balance[p]
        /\ returned[o] \in Nat /\ credited[o] \in Nat
    BY <1>1, <2>1, <2>2 DEF TypeOK
  <2>4. balance'[ParentOf[o]] + applied'[o] - applied[o] =
          balance[ParentOf[o]] + returned'[o] - returned[o] + credited'[o] - credited[o]
    BY <2>1, <2>2, <2>3
  <2> QED
    BY <1>1, <2>1, <2>3, <2>4, BalanceMoves
<1>3. ASSUME NEW o \in Orders, ReleaseOrder(o), UNCHANGED <<applied, credited>>
      PROVE  Balanced'
  <2>1. /\ applied[o] \in Nat /\ returned[o] \in Nat /\ credited[o] \in Nat
        /\ balance[ParentOf[o]] \in Nat /\ ParentOf[o] \in Parents
    BY <1>1 DEF TypeOK
  <2>2. /\ \A q \in Orders \ {o} : returned'[q] = returned[q]
        /\ \A p \in Parents \ {ParentOf[o]} : balance'[p] = balance[p]
        /\ \/ /\ returned'[o] = returned[o] + applied[o]
              /\ balance'[ParentOf[o]] = balance[ParentOf[o]] + applied[o]
           \/ returned'[o] = returned[o] /\ balance'[ParentOf[o]] = balance[ParentOf[o]]
    BY <1>1, <1>3, <2>1 DEF ReleaseOrder, TypeOK
  <2>3. balance'[ParentOf[o]] + applied'[o] - applied[o] =
          balance[ParentOf[o]] + returned'[o] - returned[o] + credited'[o] - credited[o]
    BY <1>3, <2>1, <2>2
  <2> QED
    BY <1>1, <1>3, <2>2, <2>3, BalanceMoves
<1>4. ASSUME NEW o \in Orders, NEW used \in Nat, SweepExpired(o, used)
      PROVE  Balanced'
  <2> DEFINE c == Credit(o, used)
  <2>1. /\ c \in Nat /\ applied[o] \in Nat /\ returned[o] \in Nat /\ credited[o] \in Nat
        /\ balance[ParentOf[o]] \in Nat /\ ParentOf[o] \in Parents
    BY <1>1, CreditBounds DEF TypeOK
  <2>2. /\ credited' = [credited EXCEPT ![o] = @ + c] /\ UNCHANGED <<applied, returned>>
        /\ balance' = [balance EXCEPT ![ParentOf[o]] = @ + c]
    BY <1>4 DEF SweepExpired, txVars
  <2> HIDE DEF c
  <2>3. /\ credited'[o] = credited[o] + c /\ balance'[ParentOf[o]] = balance[ParentOf[o]] + c
        /\ \A q \in Orders \ {o} : credited'[q] = credited[q]
        /\ \A p \in Parents \ {ParentOf[o]} : balance'[p] = balance[p]
    BY <1>1, <2>1, <2>2 DEF TypeOK
  <2>4. balance'[ParentOf[o]] + applied'[o] - applied[o] =
          balance[ParentOf[o]] + returned'[o] - returned[o] + credited'[o] - credited[o]
    BY <2>1, <2>2, <2>3
  <2> QED
    BY <1>1, <2>2, <2>3, <2>4, BalanceMoves
<1>5. ASSUME UNCHANGED <<applied, returned, credited, balance>>
      PROVE  Balanced'
  BY <1>5 DEF Balanced, OrdersOf, Total, Kopecks
<1>6. ASSUME NEW o \in Orders, ConfirmPayment(o) \/ SweepStale(o)
      PROVE  Balanced'
  BY <1>3, <1>5, <1>6 DEF ConfirmPayment, Activate, CompensatePaid, FailMismatch, LateSuccess,
     ApplyCancellation, SweepStale, moneyVars
<1>7. ASSUME NEW o \in Orders, NEW used \in 0..(TokensPerSlot * Cardinality(SlotsOf[o])),
             SweepExpired(o, used)
      PROVE  Balanced'
  BY <1>4, <1>7
<1>8. ASSUME \/ \E o \in Orders : AdminCancel(o) \/ DropVerification(o)
             \/ \E o \in Orders, verdict \in {"succeeded", "mismatch", "canceled"} :
                   Verdict(o, verdict)
             \/ \E batch \in SUBSET Orders, days \in FreezeDays : BulkFreeze(batch, days)
             \/ \E s \in Slots : RemoveSlot(s)
             \/ \E s \in Slots, seats \in 0..MaxCapacity : SetCapacity(s, seats)
             \/ Tick
             \/ UNCHANGED vars
      PROVE  Balanced'
  BY <1>5, <1>8 DEF AdminCancel, DropVerification, Verdict, BulkFreeze, RemoveSlot,
     SetCapacity, Tick, vars, txVars, moneyVars
<1> QED
  BY <1>2, <1>6, <1>7, <1>8 DEF Next

\* A deposit is worth what its journal says, however checkouts, returns and expiry
\* credits of its orders interleave, and no order brings the parent more than its
\* price (services.py:402-432, 794-819, 974-1009).
THEOREM DepositIsExact == Spec => []DepositMatchesJournal
<1>1. Init => IInv /\ Balanced
  <2>1. ASSUME Init
        PROVE  Balanced
    <3>1. applied = returned /\ credited = [o \in Orders |-> 0] /\ balance = Opening
      BY <2>1 DEF Init
    <3>2. \A p \in Parents : Total(OrdersOf(p), credited) = 0
      BY <3>1, FS_EmptySet DEF Total, Kopecks, OrdersOf
    <3>3. \A p \in Parents : Opening[p] \in Nat /\ Total(OrdersOf(p), applied) \in Nat
      BY <2>1, OrdersAssumption, InitIInv, KopecksFinite DEF IInv, TypeOK, OrdersOf
    <3> QED
      BY <3>1, <3>2, <3>3 DEF Balanced
  <2> QED
    BY <2>1, InitIInv
<1>2. IInv /\ Balanced /\ [Next]_vars => (IInv /\ Balanced)'
  BY NextIInv, NextBalanced
<1>3. IInv /\ Balanced => DepositMatchesJournal
  <2>1. ASSUME IInv, NEW o \in Orders
        PROVE  returned[o] + credited[o] <= Price[o]
    <3>1. /\ Consistent(o) /\ txStatus[o] \in TxStatus /\ Price[o] \in Nat
          /\ returned[o] \in Nat /\ credited[o] \in Nat /\ applied[o] \in Nat
      BY <2>1, OrdersAssumption DEF IInv, TypeOK
    <3> QED
      BY <3>1 DEF Consistent, Unbooked, Waiting, Served, Unserved, TxStatus
  <2> QED
    BY <2>1 DEF Balanced, DepositMatchesJournal
<1> QED
  BY <1>1, <1>2, <1>3, PTL DEF Spec

=============================================================================
