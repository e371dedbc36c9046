-------------------------- MODULE EventSeatsProofs --------------------------
(* The counter of an event and its capacity, for any registrations, party     *)
(* sizes and overlapping lists.                                                *)
EXTENDS EventSeats, FiniteSetTheorems, TLAPS

PlacesOf(R) == UNION {Places(r) : r \in R}

\* Finitely many parties take finitely many places.
LEMMA FinitePlaces ==
    ASSUME NEW R \in SUBSET Regs
    PROVE  /\ \A q \in Regs : IsFiniteSet(Places(q)) /\ Cardinality(Places(q)) = Count[q]
           /\ IsFiniteSet(PlacesOf(R)) /\ Cardinality(PlacesOf(R)) \in Nat
<1>1. \A q \in Regs : /\ IsFiniteSet(Places(q))
                      /\ Cardinality(Places(q)) = Count[q]
  <2> TAKE q \in Regs
  <2>1. Count[q] \in Nat /\ Count[q] > 0
    BY EventAssumption
  <2>2. IsFiniteSet({q}) /\ Cardinality({q}) = 1
    BY FS_Singleton
  <2>3. IsFiniteSet(1..Count[q]) /\ Cardinality(1..Count[q]) = Count[q]
    <3>1. 1 \in Int /\ Count[q] \in Int
      BY <2>1
    <3>2. /\ IsFiniteSet(1..Count[q])
          /\ Cardinality(1..Count[q]) = IF 1 > Count[q] THEN 0 ELSE Count[q] - 1 + 1
      BY <3>1, FS_Interval
    <3> QED BY <2>1, <3>2
  <2>4. IsFiniteSet({q} \X (1..Count[q]))
        /\ Cardinality({q} \X (1..Count[q])) = 1 * Count[q]
    BY <2>2, <2>3, FS_Product
  <2> QED BY <2>1, <2>4 DEF Places
<1>2. IsFiniteSet(PlacesOf(R))
  <2>1. IsFiniteSet(R)
    BY EventAssumption, FS_Subset
  <2>2. IsFiniteSet({Places(q) : q \in R})
    <3> DEFINE seats == [q \in R |-> Places(q)]
    <3>1. seats \in Surjection(R, {Places(q) : q \in R})
      BY DEF Surjection
    <3> QED BY <2>1, <3>1, FS_Surjection
  <2>3. \A P \in {Places(q) : q \in R} : IsFiniteSet(P)
    BY <1>1
  <2> QED BY <2>2, <2>3, FS_UNION DEF PlacesOf
<1> QED BY <1>1, <1>2, FS_CardinalityType

\* Parties have disjoint places: a set of parties grows by the size of the new one.
LEMMA OneMoreParty ==
    ASSUME NEW R \in SUBSET Regs, NEW r \in Regs \ R
    PROVE  /\ IsFiniteSet(PlacesOf(R)) /\ Cardinality(PlacesOf(R)) \in Nat
           /\ Cardinality(PlacesOf(R \cup {r})) = Cardinality(PlacesOf(R)) + Count[r]
<1>1. \A q \in Regs : IsFiniteSet(Places(q)) /\ Cardinality(Places(q)) = Count[q]
  BY FinitePlaces
<1>2. IsFiniteSet(PlacesOf(R))
  BY FinitePlaces
<1>3. PlacesOf(R \cup {r}) = PlacesOf(R) \cup Places(r)
  BY DEF PlacesOf
<1>4. PlacesOf(R) \cap Places(r) = {}
  BY DEF PlacesOf, Places
<1>5. Cardinality(PlacesOf(R)) \in Nat
  BY <1>2, FS_CardinalityType
<1>6. Cardinality({}) = 0
  BY FS_EmptySet
<1>7. Cardinality(PlacesOf(R) \cup Places(r)) =
        Cardinality(PlacesOf(R)) + Cardinality(Places(r))
        - Cardinality(PlacesOf(R) \cap Places(r))
  BY <1>1, <1>2, FS_Union
<1>8. Count[r] \in Nat
  BY EventAssumption
<1>9. Cardinality(PlacesOf(R \cup {r})) = Cardinality(PlacesOf(R)) + Count[r]
  <2>1. Cardinality(Places(r)) = Count[r]
    BY <1>1
  <2>2. Cardinality(PlacesOf(R) \cap Places(r)) = 0
    BY <1>4, <1>6
  <2>3. Cardinality(PlacesOf(R) \cup Places(r)) = Cardinality(PlacesOf(R)) + Count[r]
    BY <1>5, <1>7, <1>8, <2>1, <2>2
  <2> QED BY <1>3, <2>3
<1> QED BY <1>2, <1>5, <1>9

\* The same for the registrations that are live.
LEMMA LiveParty ==
    ASSUME NEW r \in Regs
    PROVE  /\ Cardinality(TakenPlaces) \in Nat
           /\ r \in Live =>
                Cardinality(TakenPlaces) = Cardinality(PlacesOf(Live \ {r})) + Count[r]
                /\ Cardinality(PlacesOf(Live \ {r})) \in Nat
           /\ r \notin Live =>
                Cardinality(PlacesOf(Live \cup {r})) = Cardinality(TakenPlaces) + Count[r]
<1>1. Live \subseteq Regs /\ TakenPlaces = PlacesOf(Live)
  BY DEF Live, TakenPlaces, PlacesOf
<1>2. CASE r \notin Live
  BY <1>1, <1>2, OneMoreParty
<1>3. CASE r \in Live
  <2>1. Live \ {r} \in SUBSET Regs /\ r \in Regs \ (Live \ {r})
    BY <1>1
  <2>2. (Live \ {r}) \cup {r} = Live
    BY <1>3
  <2>3. Cardinality(PlacesOf(Live)) = Cardinality(PlacesOf(Live \ {r})) + Count[r]
        /\ Cardinality(PlacesOf(Live \ {r})) \in Nat
    BY <2>1, <2>2, OneMoreParty
  <2>4. Count[r] \in Nat
    BY EventAssumption
  <2> QED BY <1>1, <1>3, <2>3, <2>4
<1> QED BY <1>2, <1>3

LEMMA InitIInv == Init => IInv
<1> SUFFICES ASSUME Init PROVE IInv
  OBVIOUS
<1>1. TypeOK
  <2>1. now \in Nat /\ capacity \in Nat /\ seatsTaken \in Nat /\ kills \in Nat
    BY EventAssumption DEF Init
  <2>2. published \in BOOLEAN /\ free \in BOOLEAN /\ overwritten \in BOOLEAN
    BY Zenon DEF Init
  <2>3. /\ status \in [Regs -> RegistrationStatus]
        /\ createdAt \in [Regs -> Nat]
        /\ todo \in [Workers -> SUBSET Regs]
    BY DEF Init, RegistrationStatus
  <2>4. form \in [Forms -> [open : BOOLEAN, seatsTaken : Nat]]
    BY DEF Init, NoForm
  <2>5. regForm \in [Forms -> [Regs -> RegistrationStatus]]
    BY DEF Init, RegistrationStatus
  <2> QED BY <2>1, <2>2, <2>3, <2>4, <2>5, Zenon DEF TypeOK
<1>2. TakenPlaces = {}
  BY DEF Init, TakenPlaces, Live, SEAT_BLOCKING_STATUSES
<1>3. CounterMatches
  BY <1>2, FS_EmptySet DEF Init, CounterMatches
<1>4. ListsAreReal
  BY DEF Init, ListsAreReal
<1> QED BY <1>1, <1>3, <1>4 DEF IInv

\* register_for_event: the party was not live and is now.
LEMMA RegisterIInv ==
    ASSUME IInv, NEW r \in Regs, Register(r)
    PROVE  /\ IInv'
           /\ Cardinality(TakenPlaces') = Cardinality(TakenPlaces) + Count[r]
           /\ ~overwritten => Cardinality(TakenPlaces') <= capacity
<1> USE DEF IInv
<1>1. TypeOK'
  <2>1. Count[r] \in Nat
    BY EventAssumption
  <2>2. status' \in [Regs -> RegistrationStatus]
    BY DEF TypeOK, Register, RegistrationStatus
  <2> QED BY <2>1, <2>2 DEF TypeOK, Register, eventVars, formVars
<1>2. r \notin Live /\ Live' = Live \cup {r}
  BY DEF TypeOK, Register, Live, SEAT_BLOCKING_STATUSES
<1>3. TakenPlaces' = PlacesOf(Live \cup {r})
  BY <1>2 DEF TakenPlaces, PlacesOf, Places
<1>4. Cardinality(TakenPlaces') = Cardinality(TakenPlaces) + Count[r]
  BY <1>2, <1>3, LiveParty
<1>5. CounterMatches'
  BY <1>4 DEF CounterMatches, Register, formVars
<1>6. ListsAreReal'
  BY DEF ListsAreReal, Register, TypeOK
<1>7. ~overwritten => Cardinality(TakenPlaces') <= capacity
  <2>1. seatsTaken + Count[r] <= capacity
    <3>1. Count[r] \in Nat /\ Count[r] > 0
      BY EventAssumption
    <3> QED BY <3>1 DEF Register, SeatsFree, TypeOK
  <2> QED BY <1>4, <2>1 DEF CounterMatches
<1> QED BY <1>1, <1>4, <1>5, <1>6, <1>7

\* cancel_registration, from whichever list.
LEMMA CancelIInv ==
    ASSUME IInv, NEW w \in Workers, NEW r \in Regs, CancelNext(w, r)
    PROVE  /\ IInv'
           /\ Cardinality(TakenPlaces') <= Cardinality(TakenPlaces)
<1> USE DEF IInv
<1>0. Cardinality(TakenPlaces) \in Nat /\ Count[r] \in Nat
  BY LiveParty, EventAssumption
<1>1. CASE r \notin Live
  <2>1. UNCHANGED <<status, seatsTaken>>
    BY <1>1 DEF CancelNext, CancelRegistration, Releases, Live
  <2>2. TakenPlaces' = TakenPlaces
    BY <2>1 DEF TakenPlaces, Live, Places
  <2>3. TypeOK'
    BY <2>1 DEF TypeOK, CancelNext, eventVars, formVars
  <2>4. ListsAreReal'
    BY <2>1 DEF ListsAreReal, CancelNext, TypeOK
  <2> QED BY <1>0, <2>1, <2>2, <2>3, <2>4 DEF CounterMatches, CancelNext, formVars
<1>2. CASE r \in Live
  <2>1. /\ status' = [status EXCEPT ![r] = "CANCELED"]
        /\ seatsTaken' = seatsTaken - Count[r]
        /\ ~(seatsTaken < Count[r])
    BY <1>2 DEF CancelNext, CancelRegistration, Releases, Refused, Live
  <2>2. Live' = Live \ {r}
    BY <2>1 DEF TypeOK, Live, SEAT_BLOCKING_STATUSES
  <2>3. TakenPlaces' = PlacesOf(Live \ {r})
    BY <2>2 DEF TakenPlaces, PlacesOf, Places
  <2>4. /\ Cardinality(TakenPlaces) = Cardinality(TakenPlaces') + Count[r]
        /\ Cardinality(TakenPlaces') \in Nat
    BY <1>2, <2>3, LiveParty
  <2>5. CounterMatches'
    BY <1>0, <2>1, <2>4 DEF CounterMatches, CancelNext, formVars, TypeOK
  <2>6. seatsTaken' \in Nat
    BY <1>0, <2>1 DEF TypeOK
  <2>7. TypeOK'
    BY <2>1, <2>6 DEF TypeOK, CancelNext, eventVars, formVars, RegistrationStatus
  <2>8. ListsAreReal'
    BY <2>1 DEF ListsAreReal, CancelNext, TypeOK
  <2> QED BY <1>0, <2>4, <2>5, <2>7, <2>8
<1> QED BY <1>1, <1>2

\* confirm_selected changes the kind of a booking, not who is live.
LEMMA ConfirmIInv ==
    ASSUME IInv, NEW batch \in SUBSET Regs, ConfirmSelected(batch)
    PROVE  IInv' /\ TakenPlaces' = TakenPlaces
<1> USE DEF IInv
<1>1. TypeOK'
  BY DEF TypeOK, ConfirmSelected, eventVars, formVars, RegistrationStatus
<1>2. Live' = Live
  BY DEF TypeOK, ConfirmSelected, Live, SEAT_BLOCKING_STATUSES
<1>3. TakenPlaces' = TakenPlaces
  BY <1>2 DEF TakenPlaces, Places
<1>4. ListsAreReal'
  BY DEF ListsAreReal, ConfirmSelected, TypeOK
<1> QED BY <1>1, <1>3, <1>4 DEF CounterMatches, ConfirmSelected, formVars

\* A form keeps the counter it fetched, or the history says that it did not.
LEMMA SaveIInv ==
    ASSUME IInv, NEW f \in Forms,
           NEW seats \in 1..MaxCapacity, NEW isPublished \in BOOLEAN, NEW isFree \in BOOLEAN,
           SaveEvent(f, seats, isPublished, isFree)
    PROVE  IInv' /\ TakenPlaces' = TakenPlaces
<1> USE DEF IInv
<1>1. seatsTaken' = form[f].seatsTaken /\ UNCHANGED <<now, status, createdAt, todo, regForm, kills>>
  BY DEF SaveEvent
<1>2. form[f].seatsTaken \in Nat /\ overwritten \in BOOLEAN
  BY DEF TypeOK
<1>3. overwritten' \in BOOLEAN /\ (~overwritten' => ~overwritten /\ seatsTaken' = seatsTaken)
  BY <1>1, <1>2 DEF SaveEvent
<1>4. form' \in [Forms -> [open : BOOLEAN, seatsTaken : Nat]]
  BY DEF SaveEvent, TypeOK, NoForm
<1>5. capacity' \in Nat /\ published' \in BOOLEAN /\ free' \in BOOLEAN
  BY EventAssumption DEF SaveEvent
<1>6. TypeOK'
  BY <1>1, <1>2, <1>3, <1>4, <1>5 DEF TypeOK
<1>7. TakenPlaces' = TakenPlaces
  BY <1>1 DEF TakenPlaces, Live, Places
<1>8. ListsAreReal'
  BY <1>1 DEF ListsAreReal
<1> QED BY <1>3, <1>6, <1>7, <1>8 DEF CounterMatches

\* So does the form of a registration: who blocks seats stays, or the history says so.
LEMMA SaveRegistrationIInv ==
    ASSUME IInv, NEW f \in Forms, NEW r \in Regs, SaveRegistration(f, r)
    PROVE  IInv' /\ (~overwritten' => TakenPlaces' = TakenPlaces)
<1> USE DEF IInv
<1>1. regForm[f][r] \in RegistrationStatus /\ regForm[f][r] # "NONE"
  BY DEF TypeOK, SaveRegistration
<1>2. status' = [status EXCEPT ![r] = regForm[f][r]]
  BY DEF SaveRegistration
<1>3. overwritten' \in BOOLEAN /\ (~overwritten' => ~overwritten /\ ~Revives(f, r))
  BY DEF SaveRegistration, TypeOK, Revives
<1>4. regForm' \in [Forms -> [Regs -> RegistrationStatus]]
  BY DEF SaveRegistration, TypeOK, RegistrationStatus
<1>5. TypeOK'
  <2>1. UNCHANGED <<now, capacity, published, free, seatsTaken, createdAt, todo, form, kills>>
    BY DEF SaveRegistration, eventVars
  <2> QED BY <1>1, <1>2, <1>3, <1>4, <2>1 DEF TypeOK
<1>6. ~Revives(f, r) => Live' = Live
  BY <1>2 DEF Revives, Live, TypeOK
<1>7. ~Revives(f, r) => TakenPlaces' = TakenPlaces
  BY <1>6 DEF TakenPlaces, Places
<1>8. CounterMatches'
  BY <1>3, <1>7 DEF CounterMatches, SaveRegistration
<1>9. ListsAreReal'
  BY <1>1, <1>2 DEF ListsAreReal, SaveRegistration, TypeOK
<1> QED BY <1>3, <1>5, <1>7, <1>8, <1>9

\* Every other step leaves registrations and counter alone.
LEMMA OtherIInv ==
    ASSUME IInv,
           \/ \E batch \in SUBSET Regs, w \in Requests : ListSelected(w, batch)
           \/ \E w \in Sweeps : ListExpired(w)
           \/ \E w \in Workers : Kill(w)
           \/ \E w \in Workers, r \in Regs : CancelFails(w, r)
           \/ \E f \in Forms : FetchEvent(f)
           \/ \E f \in Forms, r \in Regs : FetchRegistration(f, r)
           \/ Tick
           \/ UNCHANGED vars
    PROVE  IInv' /\ TakenPlaces' = TakenPlaces
<1> USE DEF IInv
<1>1. UNCHANGED <<seatsTaken, status>>
  BY DEF ListSelected, ListExpired, Kill, CancelFails, FetchEvent, FetchRegistration, Tick, vars
<1>2. TakenPlaces' = TakenPlaces
  BY <1>1 DEF TakenPlaces, Live, Places
<1>3. TypeOK'
  <2>1. now' \in Nat /\ kills' \in Nat
    BY DEF TypeOK, ListSelected, ListExpired, Kill, CancelFails, FetchEvent,
           FetchRegistration, Tick, vars
  <2>2. todo' \in [Workers -> SUBSET Regs]
    BY DEF TypeOK, ListSelected, ListExpired, Kill, CancelFails, FetchEvent,
           FetchRegistration, Tick, vars
  <2>3. form' \in [Forms -> [open : BOOLEAN, seatsTaken : Nat]]
    <3>1. ASSUME NEW f \in Forms, FetchEvent(f)
          PROVE  form' \in [Forms -> [open : BOOLEAN, seatsTaken : Nat]]
      <4>1. [open |-> TRUE, seatsTaken |-> seatsTaken] \in [open : BOOLEAN, seatsTaken : Nat]
        BY DEF TypeOK
      <4> QED BY <3>1, <4>1 DEF TypeOK, FetchEvent
    <3>2. (\E f \in Forms : FetchEvent(f)) \/ UNCHANGED form
      BY DEF ListSelected, ListExpired, Kill, CancelFails, FetchRegistration, Tick, vars, formVars
    <3> QED BY <3>1, <3>2 DEF TypeOK
  <2>4. UNCHANGED <<eventVars, seatsTaken, status, createdAt, overwritten>>
    BY DEF ListSelected, ListExpired, Kill, CancelFails, FetchEvent, FetchRegistration,
           Tick, vars, formVars
  <2>5. regForm' \in [Forms -> [Regs -> RegistrationStatus]]
    <3>1. (\E f \in Forms, r \in Regs : FetchRegistration(f, r)) \/ UNCHANGED regForm
      BY DEF ListSelected, ListExpired, Kill, CancelFails, FetchEvent, Tick, vars, formVars
    <3>2. ASSUME NEW f \in Forms, NEW r \in Regs, FetchRegistration(f, r)
          PROVE  regForm' \in [Forms -> [Regs -> RegistrationStatus]]
      <4>1. status[r] \in RegistrationStatus
        BY DEF TypeOK
      <4>2. regForm' = [regForm EXCEPT ![f][r] = status[r]]
        BY <3>2 DEF FetchRegistration
      <4> QED BY <4>1, <4>2 DEF TypeOK
    <3> QED BY <3>1, <3>2 DEF TypeOK
  <2> QED BY <2>1, <2>2, <2>3, <2>4, <2>5 DEF TypeOK, eventVars
<1>4. ListsAreReal'
  BY <1>1 DEF ListsAreReal, TypeOK, ListSelected, ListExpired, Expired, Kill,
              CancelFails, FetchEvent, FetchRegistration, Tick, vars, Workers
<1>5. UNCHANGED overwritten
  BY DEF ListSelected, ListExpired, Kill, CancelFails, FetchEvent, FetchRegistration,
           Tick, vars, formVars
<1> QED BY <1>1, <1>2, <1>3, <1>4, <1>5 DEF CounterMatches

\* No step breaks the invariant, and one that takes places leaves no more than
\* the capacity taken.
LEMMA NextIInv ==
    ASSUME IInv, [Next]_vars
    PROVE  /\ IInv'
           /\ Cardinality(TakenPlaces') > Cardinality(TakenPlaces) /\ ~overwritten'
                => Cardinality(TakenPlaces') <= capacity
<1> DEFINE NoMore == Cardinality(TakenPlaces') <= Cardinality(TakenPlaces)
<1>0. Cardinality(TakenPlaces) \in Nat /\ Cardinality(TakenPlaces') \in Nat
  <2>1. Live \in SUBSET Regs /\ Live' \in SUBSET Regs
    BY DEF Live
  <2>2. TakenPlaces = PlacesOf(Live) /\ TakenPlaces' = PlacesOf(Live')
    BY DEF TakenPlaces, PlacesOf, Places
  <2> QED BY <2>1, <2>2, FinitePlaces
<1>1. ASSUME NEW r \in Regs, Register(r)
      PROVE  IInv' /\ (~overwritten' => Cardinality(TakenPlaces') <= capacity)
  BY <1>1, RegisterIInv DEF Register, formVars
<1>2. ASSUME NEW w \in Workers, NEW r \in Regs, CancelNext(w, r)
      PROVE  IInv' /\ NoMore
  BY <1>2, CancelIInv
<1>3. IInv' /\ TakenPlaces' = TakenPlaces => IInv' /\ NoMore
  BY <1>0
<1>4. ASSUME NEW batch \in SUBSET Regs, ConfirmSelected(batch)
      PROVE  IInv' /\ NoMore
  BY <1>3, <1>4, ConfirmIInv
<1>5. ASSUME NEW f \in Forms, NEW seats \in 1..MaxCapacity, NEW isPublished \in BOOLEAN,
             NEW isFree \in BOOLEAN, SaveEvent(f, seats, isPublished, isFree)
      PROVE  IInv' /\ NoMore
  BY <1>3, <1>5, SaveIInv
<1>6. ASSUME \/ \E batch \in SUBSET Regs, w \in Requests : ListSelected(w, batch)
             \/ \E w \in Sweeps : ListExpired(w)
             \/ \E w \in Workers : Kill(w)
             \/ \E w \in Workers, r \in Regs : CancelFails(w, r)
             \/ \E f \in Forms : FetchEvent(f)
             \/ \E f \in Forms, r \in Regs : FetchRegistration(f, r)
             \/ Tick
             \/ UNCHANGED vars
      PROVE  IInv' /\ NoMore
  BY <1>3, <1>6, OtherIInv
<1>7. ASSUME NEW f \in Forms, NEW r \in Regs, SaveRegistration(f, r)
      PROVE  IInv' /\ (~overwritten' => NoMore)
  BY <1>0, <1>7, SaveRegistrationIInv
<1>8. \/ IInv' /\ (~overwritten' => NoMore)
      \/ IInv' /\ (~overwritten' => Cardinality(TakenPlaces') <= capacity)
  BY <1>1, <1>2, <1>4, <1>5, <1>6, <1>7 DEF Next
<1> QED BY <1>0, <1>8

LEMMA Inductive == Spec => []IInv
<1>1. IInv /\ [Next]_vars => IInv'
  BY NextIInv
<1> QED BY <1>1, InitIInv, PTL DEF Spec

\* The columns keep their types: the counter never goes negative, although a form
\* may write a stale one that is smaller than the next party (events/models.py:35).
THEOREM TypeCorrect == Spec => []TypeOK
<1>1. IInv => TypeOK
  BY DEF IInv
<1> QED BY <1>1, Inductive, PTL

\* The denormalised counter is the number of places of the live registrations,
\* for any parties, any overlapping lists and any forms, until a form writes a
\* stale counter or revives a registration (events/models.py:32-35).
THEOREM CounterIsExact == Spec => []CounterMatches
<1>1. IInv => CounterMatches
  BY DEF IInv
<1> QED BY <1>1, Inductive, PTL

\* Up to then no step takes places beyond the capacity at that moment
\* (events/services.py:61-89).
THEOREM NoOverbooking == Spec => NeverOverbooks
<1>1. IInv /\ [Next]_vars =>
        [Cardinality(TakenPlaces') > Cardinality(TakenPlaces) /\ ~overwritten'
            => Cardinality(TakenPlaces') <= capacity]_vars
  BY NextIInv
<1> QED BY <1>1, Inductive, PTL DEF Spec, NeverOverbooks
=============================================================================
