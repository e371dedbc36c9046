------------------------------ MODULE EventSeats ------------------------------
(***************************************************************************)
(* The seats of one event (apps/events): a denormalised counter,           *)
(* Event.seats_taken, that registrations, cancellations and the TTL sweep  *)
(* move under the row lock of the event.                                   *)
(*                                                                         *)
(* register_for_event and cancel_registration are one database transaction *)
(* each, serialized by the event's row.  The sweep and the administrator's *)
(* action "cancel" first list registrations and then cancel them one       *)
(* transaction at a time; a confirmation, one UPDATE that does not lock    *)
(* the event, may come in between.  The worker may die in the middle of    *)
(* its list.  The change forms of an event and of a registration read the  *)
(* row without a lock and later write all its columns back, the counter of *)
(* the one and the status of the other included.                           *)
(***************************************************************************)
EXTENDS Integers, FiniteSets

CONSTANTS
    Regs,        \* registrations that clients may submit
    Count,       \* attendees_count of each
    Sweeps,      \* runs of the sweep that may overlap
    Requests,    \* requests of administrators that cancel a list
    Forms,       \* administrators who save change forms at the same time
    PaymentTTL,  \* PENDING_PAYMENT_TTL, in ticks
    StartsAt,    \* start_datetime, in ticks
    MaxCapacity, \* bound on the capacity
    MaxTime,     \* bound on the clock
    MaxKills     \* bound on the deaths of workers

ASSUME EventAssumption ==
    /\ IsFiniteSet(Regs)
    /\ Count \in [Regs -> Nat \ {0}]
    /\ PaymentTTL \in Nat /\ StartsAt \in Nat
    /\ MaxCapacity \in Nat /\ MaxTime \in Nat /\ MaxKills \in Nat

Workers == Sweeps \cup Requests

VARIABLES
    now,
    capacity, published, free,  \* columns of the event the change form edits
    seatsTaken,                 \* Event.seats_taken
    status,                     \* EventRegistration.status, "NONE" before it
    createdAt,                  \* EventRegistration.created_at
    todo,                       \* registrations each worker has listed
    form,                       \* forms of the event under way: the row as fetched
    regForm,                    \* forms of registrations: the status fetched, or "NONE"
    overwritten,                \* history: a form wrote a stale counter back, or a
                                \* stale status that does not block the same seats
    kills

eventVars == <<capacity, published, free>>
formVars == <<form, regForm, overwritten>>
vars == <<now, eventVars, seatsTaken, status, createdAt, todo, formVars, kills>>

-----------------------------------------------------------------------------

\* NEW blocks seats too, but no code path creates such a registration.
RegistrationStatus == {"NONE", "PENDING_PAYMENT", "CONFIRMED", "CANCELED"}
SEAT_BLOCKING_STATUSES == {"PENDING_PAYMENT", "CONFIRMED"}
NoForm == [open |-> FALSE, seatsTaken |-> 0]

TypeOK ==
    /\ now \in Nat
    /\ capacity \in Nat /\ published \in BOOLEAN /\ free \in BOOLEAN
    /\ seatsTaken \in Nat
    /\ status \in [Regs -> RegistrationStatus]
    /\ createdAt \in [Regs -> Nat]
    /\ todo \in [Workers -> SUBSET Regs]
    /\ form \in [Forms -> [open : BOOLEAN, seatsTaken : Nat]]
    /\ regForm \in [Forms -> [Regs -> RegistrationStatus]]
    /\ overwritten \in BOOLEAN
    /\ kills \in Nat

Init ==
    /\ now = 0
    /\ capacity \in 1..MaxCapacity
    /\ published \in BOOLEAN /\ free \in BOOLEAN
    /\ seatsTaken = 0
    /\ status = [r \in Regs |-> "NONE"]
    /\ createdAt = [r \in Regs |-> 0]
    /\ todo = [w \in Workers |-> {}]
    /\ form = [f \in Forms |-> NoForm]
    /\ regForm = [f \in Forms |-> [r \in Regs |-> "NONE"]]
    /\ overwritten = FALSE
    /\ kills = 0

-----------------------------------------------------------------------------
(* Registration *)

\* Event.seats_free
SeatsFree == IF seatsTaken <= capacity THEN capacity - seatsTaken ELSE 0

\* Mutant: the counter is not compared with the size of the party.
Register_AnySeat(r) ==
    /\ status[r] = "NONE"
    /\ published /\ now < StartsAt
    /\ SeatsFree > 0
    /\ status' = [status EXCEPT ![r] = IF free THEN "CONFIRMED" ELSE "PENDING_PAYMENT"]
    /\ createdAt' = [createdAt EXCEPT ![r] = now]
    /\ seatsTaken' = seatsTaken + Count[r]
    /\ UNCHANGED <<now, eventVars, todo, formVars, kills>>

\* register_for_event; what it refuses is not a step.
Register(r) ==
    /\ status[r] = "NONE"
    /\ published /\ now < StartsAt
    /\ SeatsFree >= Count[r]
    /\ status' = [status EXCEPT ![r] = IF free THEN "CONFIRMED" ELSE "PENDING_PAYMENT"]
    /\ createdAt' = [createdAt EXCEPT ![r] = now]
    /\ seatsTaken' = seatsTaken + Count[r]
    /\ UNCHANGED <<now, eventVars, todo, formVars, kills>>

\* confirm_selected: one UPDATE over the selected registrations.
ConfirmSelected(batch) ==
    /\ \E r \in batch : status[r] = "PENDING_PAYMENT"
    /\ status' = [r \in Regs |-> IF r \in batch /\ status[r] = "PENDING_PAYMENT"
                                 THEN "CONFIRMED" ELSE status[r]]
    /\ UNCHANGED <<now, eventVars, seatsTaken, createdAt, todo, formVars, kills>>

-----------------------------------------------------------------------------
(* Cancellation *)

\* Mutant: the status is not tested again under the lock of the event.
Releases_NoRecheck(r) == TRUE

\* The UPDATE of cancel_registration finds the registration blocking seats.
Releases(r) == status[r] \in SEAT_BLOCKING_STATUSES

\* The CHECK of PositiveIntegerField refuses a counter below zero.
Refused(r) == Releases(r) /\ seatsTaken < Count[r]

\* cancel_registration: a registration that blocks no seats is left alone.
CancelRegistration(r) ==
    IF Releases(r)
    THEN /\ status' = [status EXCEPT ![r] = "CANCELED"]
         /\ seatsTaken' = seatsTaken - Count[r]
    ELSE UNCHANGED <<status, seatsTaken>>

Expired(r) == status[r] = "PENDING_PAYMENT" /\ createdAt[r] + PaymentTTL < now

\* Mutant: only registrations of an event that is still to come are swept.
ListExpired_Upcoming(w) ==
    /\ todo[w] = {} /\ \E r \in Regs : Expired(r)
    /\ now < StartsAt
    /\ todo' = [todo EXCEPT ![w] = {r \in Regs : Expired(r)}]
    /\ UNCHANGED <<now, eventVars, seatsTaken, status, createdAt, formVars, kills>>

\* release_expired_pending_registrations: the list (an empty one is no step).
ListExpired(w) ==
    /\ todo[w] = {} /\ \E r \in Regs : Expired(r)
    /\ todo' = [todo EXCEPT ![w] = {r \in Regs : Expired(r)}]
    /\ UNCHANGED <<now, eventVars, seatsTaken, status, createdAt, formVars, kills>>

\* cancel_selected: the registrations the administrator ticked.
ListSelected(w, batch) ==
    /\ todo[w] = {} /\ batch # {}
    /\ \A r \in batch : status[r] # "NONE"
    /\ todo' = [todo EXCEPT ![w] = batch]
    /\ UNCHANGED <<now, eventVars, seatsTaken, status, createdAt, formVars, kills>>

\* The next transaction of a worker that goes through its list.
CancelNext(w, r) ==
    /\ r \in todo[w] /\ ~Refused(r)
    /\ todo' = [todo EXCEPT ![w] = @ \ {r}]
    /\ CancelRegistration(r)
    /\ UNCHANGED <<now, eventVars, createdAt, formVars, kills>>

\* The database refuses the counter: the transaction rolls back, and the error
\* ends the worker's whole list.
CancelFails(w, r) ==
    /\ r \in todo[w] /\ Refused(r)
    /\ todo' = [todo EXCEPT ![w] = {}]
    /\ UNCHANGED <<now, eventVars, seatsTaken, status, createdAt, formVars, kills>>

-----------------------------------------------------------------------------
(* Environment *)

\* EventAdmin: the POST of the change form fetches the row, without a lock.
FetchEvent(f) ==
    /\ ~form[f].open
    /\ form' = [form EXCEPT ![f] = [open |-> TRUE, seatsTaken |-> seatsTaken]]
    /\ UNCHANGED <<now, eventVars, seatsTaken, status, createdAt, todo, regForm,
                   overwritten, kills>>

\* save() writes every column: those of the form, and seats_taken as fetched
\* (readonly_fields keeps it out of the form, not out of the UPDATE).
SaveEvent(f, seats, isPublished, isFree) ==
    /\ form[f].open
    /\ capacity' = seats /\ published' = isPublished /\ free' = isFree
    /\ seatsTaken' = form[f].seatsTaken
    /\ overwritten' = (overwritten \/ form[f].seatsTaken # seatsTaken)
    /\ form' = [form EXCEPT ![f] = NoForm]
    /\ UNCHANGED <<now, status, createdAt, todo, regForm, kills>>

\* EventRegistrationAdmin: the same for the row of a registration.
FetchRegistration(f, r) ==
    /\ status[r] # "NONE" /\ \A q \in Regs : regForm[f][q] = "NONE"
    /\ regForm' = [regForm EXCEPT ![f][r] = status[r]]
    /\ UNCHANGED <<now, eventVars, seatsTaken, status, createdAt, todo, form,
                   overwritten, kills>>

\* The fetched status blocks seats and the one it overwrites does not, or vice versa.
Revives(f, r) ==
    (regForm[f][r] \in SEAT_BLOCKING_STATUSES) # (status[r] \in SEAT_BLOCKING_STATUSES)

\* save() of contact data writes status as fetched; nothing touches the counter.
SaveRegistration(f, r) ==
    /\ regForm[f][r] # "NONE"
    /\ status' = [status EXCEPT ![r] = regForm[f][r]]
    /\ overwritten' = (overwritten \/ Revives(f, r))
    /\ regForm' = [regForm EXCEPT ![f][r] = "NONE"]
    /\ UNCHANGED <<now, eventVars, seatsTaken, createdAt, todo, form, kills>>

Kill(w) ==
    /\ todo[w] # {}
    /\ kills < MaxKills /\ kills' = kills + 1
    /\ todo' = [todo EXCEPT ![w] = {}]
    /\ UNCHANGED <<now, eventVars, seatsTaken, status, createdAt, formVars>>

Tick ==
    /\ now < MaxTime
    /\ now' = now + 1
    /\ UNCHANGED <<eventVars, seatsTaken, status, createdAt, todo, formVars, kills>>

Next ==
    \/ \E r \in Regs : Register(r)
    \/ \E batch \in SUBSET Regs :
          ConfirmSelected(batch) \/ \E w \in Requests : ListSelected(w, batch)
    \/ \E w \in Sweeps : ListExpired(w)
    \/ \E w \in Workers : Kill(w) \/ \E r \in Regs : CancelNext(w, r) \/ CancelFails(w, r)
    \/ \E f \in Forms :
          \/ FetchEvent(f)
          \/ \E seats \in 1..MaxCapacity, isPublished, isFree \in BOOLEAN :
                SaveEvent(f, seats, isPublished, isFree)
          \/ \E r \in Regs : FetchRegistration(f, r) \/ SaveRegistration(f, r)
    \/ Tick

Spec == Init /\ [][Next]_vars

\* The cron task runs every ten minutes for ever, a live worker finishes its
\* list, time passes.
FairSpec ==
    /\ Spec
    /\ WF_vars(Tick)
    /\ \A w \in Sweeps :
          /\ WF_vars(ListExpired(w))
          /\ WF_vars(\E r \in Regs : CancelNext(w, r) \/ CancelFails(w, r))

-----------------------------------------------------------------------------
(* Properties *)

Live == {r \in Regs : status[r] \in SEAT_BLOCKING_STATUSES}

\* The places a party sits on, and those taken by all live registrations.
Places(r) == {r} \X (1..Count[r])
TakenPlaces == UNION {Places(r) : r \in Live}

\* The counter is the number of places of the live registrations, whatever lists
\* overlap, whoever confirms in between (events/models.py:32-35, services.py:42-46)
\* and whatever forms are open, until a form writes a stale counter back
\* (events/admin.py:26) or revives a canceled registration (admin.py:39-41 says that
\* status is only edited through services and actions, but the UPDATE contains it).
CounterMatches == ~overwritten => seatsTaken = Cardinality(TakenPlaces)

\* As long as no form has done either of that, a step that takes places leaves no
\* more taken than the capacity at that moment (events/services.py:61-89); the event
\* can become overbooked only when the form lowers the capacity.
NeverOverbooks ==
    [][Cardinality(TakenPlaces') > Cardinality(TakenPlaces) /\ ~overwritten'
        => Cardinality(TakenPlaces') <= capacity]_vars

\* A booking nobody pays for is decided in the end, although a sweep may die in
\* the middle of its list and a form may put a confirmed booking back to pending
\* (events/services.py:113-128); after a stale counter or a revived registration the
\* database may refuse the cancellation for ever.
UnpaidIsDecided ==
    \A r \in Regs : status[r] = "PENDING_PAYMENT"
                        ~> status[r] # "PENDING_PAYMENT" \/ overwritten

-----------------------------------------------------------------------------
(* The inductive invariant *)

\* Only submitted registrations are listed.
ListsAreReal == \A w \in Workers : \A r \in todo[w] : status[r] # "NONE"

IInv == TypeOK /\ CounterMatches /\ ListsAreReal

=============================================================================
