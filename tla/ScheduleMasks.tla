----------------------------- MODULE ScheduleMasks -----------------------------
(***************************************************************************)
(* Cancelling and rescheduling single lessons (apps/schedule):             *)
(* create_schedule_mask against other calls of itself and against the      *)
(* administrator, who edits the weekly grid without looking at masks, and  *)
(* the week that build_week_grid shows.                                    *)
(*                                                                         *)
(* A call locks the row of its group, computes where the lesson lands,     *)
(* takes the advisory locks of the room and then of the teacher, checks    *)
(* for collisions and inserts the mask: five steps.  A cancellation waits  *)
(* for the row only, so it is one.  All locks last to the end of the       *)
(* transaction, hence who holds one follows from where each call stands.   *)
(* Dates are numbers and week 0 begins on a Monday with date 0.            *)
(***************************************************************************)
EXTENDS Integers, FiniteSets

CONSTANTS
    Groups,      \* Schedule rows
    Rooms, Teachers,
    None,        \* NULL room, teacher or override
    NoMask, CANCELLATION,   \* a date without a mask, a mask that cancels it
    DaysInWeek,  \* 7
    Weeks,       \* bound on the dates: number of weeks
    Rows,        \* values the administrator may give a group (see Row)
    Overrides,   \* what a reschedule may ask for (see Override)
    Calls,       \* concurrent calls of create_schedule_mask
    NoRequest,   \* the request of a call that is not under way
    MaxEdits     \* bound on the edits of the grid

VARIABLES
    grid,    \* the Row of each group
    active,  \* groups with is_active
    offered, \* groups whose activity is active
    masks,   \* ScheduleMask of each group and date
    today,   \* timezone.localdate()
    pc,      \* where each call stands
    call,    \* the group, date and override of each call
    edited,  \* groups the administrator has edited
    edits

gridVars == <<grid, active, offered, edited, edits>>
vars == <<gridVars, masks, today, pc, call>>

-----------------------------------------------------------------------------
(* Rows *)

Days  == 0..(DaysInWeek - 1)
Dates == 0..(DaysInWeek * Weeks - 1)

\* day_of_week, start_time and end_time are copied from the time slot by a trigger.
Row == [day : Days, start : Nat, end : Nat,
        room : Rooms \cup {None}, teacher : Teachers \cup {None}]

\* new_day_of_week, new_start_time, new_end_time, new_room, new_teacher; a
\* reschedule has to name both times (_clean_reschedule).
Override == [day : Days \cup {None}, start : Nat, end : Nat,
             room : Rooms \cup {None}, teacher : Teachers \cup {None}]

\* The group, date and override of a reschedule.
Request == [group : Groups, date : Dates, over : Overrides]

ASSUME ScheduleAssumption ==
    /\ DaysInWeek \in Nat \ {0} /\ Weeks \in Nat \ {0}
    /\ Rows \subseteq {row \in Row : row.start < row.end}
    /\ Overrides \subseteq {over \in Override : over.start < over.end}
    /\ None \notin Rooms \cup Teachers \cup Days
    /\ {NoMask, CANCELLATION} \cap Overrides = {}
    /\ MaxEdits \in Nat

-----------------------------------------------------------------------------
(* Sessions *)

DayOf(date)  == date % DaysInWeek
WeekOf(date) == date - DayOf(date)   \* normalize_week_start

\* A field of the mask, or the group's own when the mask leaves it empty.
Inherit(new, old) == IF new # None THEN new ELSE old

\* _effective_session: where a rescheduled lesson lands, inside its week.
EffectiveSession(row, date, over) ==
    [date    |-> WeekOf(date) + Inherit(over.day, row.day),
     start   |-> over.start, end |-> over.end,
     room    |-> Inherit(over.room, row.room),
     teacher |-> Inherit(over.teacher, row.teacher)]

RegularSession(row, week) ==
    [date |-> week + row.day, start |-> row.start, end |-> row.end,
     room |-> row.room, teacher |-> row.teacher]

\* Half-open intervals: adjacent lessons do not overlap.
Overlap(s, t) == s.start < t.end /\ t.start < s.end

\* _collided_fields
SameResource(s, t) ==
    \/ s.room # None /\ s.room = t.room
    \/ s.teacher # None /\ s.teacher = t.teacher

Collide(s, t) == s.date = t.date /\ Overlap(s, t) /\ SameResource(s, t)

\* The exclusion constraints no_teacher_time_overlap and no_room_time_overlap.
GridIsExclusive(rows, groups) ==
    \A g, h \in groups : g # h =>
        ~Collide(RegularSession(rows[g], 0), RegularSession(rows[h], 0))

TypeOK ==
    /\ grid \in [Groups -> Rows]
    /\ active \subseteq Groups /\ offered \subseteq Groups /\ edited \subseteq Groups
    /\ masks \in [Groups -> [Dates -> Overrides \cup {NoMask, CANCELLATION}]]
    /\ today \in Dates /\ edits \in Nat
    /\ pc \in [Calls -> {"idle", "room", "teacher", "check", "insert"}]
    /\ call \in [Calls -> Request \cup {NoRequest}]
    /\ \A c \in Calls : pc[c] # "idle" => call[c] \in Request

Init ==
    /\ grid \in [Groups -> Rows]
    /\ active = Groups /\ offered = Groups
    /\ GridIsExclusive(grid, active)
    /\ masks = [g \in Groups |-> [d \in Dates |-> NoMask]]
    /\ today = 0
    /\ pc = [c \in Calls |-> "idle"]
    /\ call = [c \in Calls |-> NoRequest]
    /\ edited = {} /\ edits = 0

-----------------------------------------------------------------------------
(* Locks *)

Landing(c) == EffectiveSession(grid[call[c].group], call[c].date, call[c].over)

\* SELECT ... FOR UPDATE of the group's row
RowFree(g) == \A c \in Calls : pc[c] # "idle" => call[c].group # g

\* Mutant: the room is not locked.
RoomFree_NoLock(room) == TRUE

\* The advisory lock of a room, taken after the row.
RoomFree(room) ==
    room = None \/ \A c \in Calls : pc[c] \in {"teacher", "check", "insert"}
                                      => Landing(c).room # room

\* The advisory lock of a teacher, taken after the room.
TeacherFree(teacher) ==
    teacher = None \/ \A c \in Calls : pc[c] \in {"check", "insert"}
                                         => Landing(c).teacher # teacher

-----------------------------------------------------------------------------
(* create_schedule_mask *)

\* What is asked of the date and of the group, and by the unique constraint.
ValidateMaskTarget(g, date) ==
    /\ date >= today
    /\ g \in active
    /\ DayOf(date) = grid[g].day
    /\ masks[g][date] = NoMask

Goto(c, label) == pc' = [pc EXCEPT ![c] = label]

PutMask(g, date, mask) == masks' = [masks EXCEPT ![g][date] = mask]

\* The whole transaction of a cancellation.
CancelLesson(g, date) ==
    /\ RowFree(g) /\ ValidateMaskTarget(g, date)
    /\ PutMask(g, date, CANCELLATION)
    /\ UNCHANGED <<gridVars, today, pc, call>>

\* A reschedule up to the advisory locks.
BeginReschedule(c, g, date, over) ==
    /\ pc[c] = "idle"
    /\ RowFree(g) /\ ValidateMaskTarget(g, date)
    /\ call' = [call EXCEPT ![c] = [group |-> g, date |-> date, over |-> over]]
    /\ Goto(c, "room")
    /\ UNCHANGED <<gridVars, masks, today>>

\* _lock_resources: the room, then the teacher.
LockRoom(c) ==
    /\ pc[c] = "room" /\ RoomFree(Landing(c).room)
    /\ Goto(c, "teacher")
    /\ UNCHANGED <<gridVars, masks, today, call>>

LockTeacher(c) ==
    /\ pc[c] = "teacher" /\ TeacherFree(Landing(c).teacher)
    /\ Goto(c, "check")
    /\ UNCHANGED <<gridVars, masks, today, call>>

\* _grid_collision_fields: a group with any mask on that date has no regular
\* lesson on it.
GridCollision(g, session) ==
    \E h \in (active \cap offered) \ {g} :
        /\ masks[h][session.date] = NoMask
        /\ Collide(session, RegularSession(grid[h], WeekOf(session.date)))

\* _mask_collision_fields: where the other reschedules of the week land.
MaskCollision(g, session) ==
    \E h \in (active \cap offered) \ {g}, date \in Dates :
        /\ masks[h][date] \in Overrides
        /\ WeekOf(date) = WeekOf(session.date)
        /\ Collide(session, EffectiveSession(grid[h], date, masks[h][date]))

Collision(c) ==
    GridCollision(call[c].group, Landing(c)) \/ MaskCollision(call[c].group, Landing(c))

\* COMMIT or ROLLBACK: the locks are released.
End(c) ==
    /\ Goto(c, "idle")
    /\ call' = [call EXCEPT ![c] = NoRequest]

\* Mutant: a refused call keeps its locks.
EnsureNoCollision_KeepsLocks(c) ==
    /\ pc[c] = "check" /\ ~Collision(c)
    /\ Goto(c, "insert")
    /\ UNCHANGED <<gridVars, masks, today, call>>

\* _ensure_no_collision: a collision rolls the transaction back.
EnsureNoCollision(c) ==
    /\ pc[c] = "check"
    /\ \/ Collision(c) /\ End(c)
       \/ ~Collision(c) /\ Goto(c, "insert") /\ UNCHANGED call
    /\ UNCHANGED <<gridVars, masks, today>>

\* mask.save() and COMMIT
SaveMask(c) ==
    /\ pc[c] = "insert"
    /\ PutMask(call[c].group, call[c].date, call[c].over)
    /\ End(c)
    /\ UNCHANGED <<gridVars, today>>

-----------------------------------------------------------------------------
(* The administrator and time *)

\* ScheduleAdmin and TimeSlotAdmin (whose change a trigger copies): any columns of
\* a group, under the exclusion constraints of the grid.
EditGroup(g, row, isActive) ==
    /\ edits < MaxEdits /\ edits' = edits + 1
    /\ RowFree(g)
    /\ grid' = [grid EXCEPT ![g] = row]
    /\ active' = IF isActive THEN active \cup {g} ELSE active \ {g}
    /\ GridIsExclusive(grid', active')
    /\ edited' = edited \cup {g}
    /\ UNCHANGED <<offered, masks, today, pc, call>>

\* The activity of a group is switched on or off.
ToggleActivity(g) ==
    /\ edits < MaxEdits /\ edits' = edits + 1
    /\ offered' = IF g \in offered THEN offered \ {g} ELSE offered \cup {g}
    /\ edited' = edited \cup {g}
    /\ UNCHANGED <<grid, active, masks, today, pc, call>>

Midnight ==
    /\ today + 1 \in Dates
    /\ today' = today + 1
    /\ UNCHANGED <<gridVars, masks, pc, call>>

CallStep(c) == LockRoom(c) \/ LockTeacher(c) \/ EnsureNoCollision(c) \/ SaveMask(c)

Next ==
    \/ \E g \in Groups, date \in Dates :
          \/ CancelLesson(g, date)
          \/ \E c \in Calls, over \in Overrides : BeginReschedule(c, g, date, over)
    \/ \E c \in Calls : CallStep(c)
    \/ \E g \in Groups :
          \/ \E row \in Rows, isActive \in BOOLEAN : EditGroup(g, row, isActive)
          \/ ToggleActivity(g)
    \/ Midnight

Spec == Init /\ [][Next]_vars

\* A call that waits for a lock is served in turn: Postgres queues lock requests.
FairSpec ==
    /\ Spec
    /\ \A c \in Calls : SF_vars(LockRoom(c)) /\ SF_vars(LockTeacher(c))
                        /\ WF_vars(EnsureNoCollision(c)) /\ WF_vars(SaveMask(c))

-----------------------------------------------------------------------------
(* The week that build_week_grid shows *)

Shown == active \cap offered

MaskOf(g, week) == masks[g][week + grid[g].day]

\* _project_schedule and _apply_reschedule
Projected(g, week) ==
    IF MaskOf(g, week) \in Overrides
    THEN EffectiveSession(grid[g], week + grid[g].day, MaskOf(g, week))
    ELSE RegularSession(grid[g], week)

WeekStarts == {DaysInWeek * n : n \in 0..(Weeks - 1)}

-----------------------------------------------------------------------------
(* Properties *)

\* In the week that is shown no room and no teacher is booked twice, however
\* reschedules and cancellations interleave; a double booking always involves a
\* group whose row or activity was edited (schedule/services.py:187-294).
NoDoubleBooking ==
    \A week \in WeekStarts, g, h \in Shown \ edited :
        /\ g # h
        /\ MaskOf(g, week) # CANCELLATION /\ MaskOf(h, week) # CANCELLATION
        => ~Collide(Projected(g, week), Projected(h, week))

\* Every call ends: the fixed order of the locks leaves no circle of waiting
\* calls (schedule/services.py:69-72).
CallsEnd ==
    \A c \in Calls : pc[c] # "idle" ~> pc[c] = "idle"

-----------------------------------------------------------------------------
(* The inductive invariant *)

\* Two calls never hold the lock of the same room, nor of the same teacher.
LocksExclude ==
    \A c, d \in Calls : c # d =>
        /\ {pc[c], pc[d]} \subseteq {"teacher", "check", "insert"} /\ Landing(c).room # None
              => Landing(c).room # Landing(d).room
        /\ {pc[c], pc[d]} \subseteq {"check", "insert"} /\ Landing(c).teacher # None
              => Landing(c).teacher # Landing(d).teacher

\* What _ensure_no_collision has found free stays free until the insert, but for
\* groups that the administrator edits.
CheckedIsFree ==
    \A c \in Calls : pc[c] = "insert" =>
        \A h \in (Shown \ edited) \ {call[c].group} :
            MaskOf(h, WeekOf(call[c].date)) # CANCELLATION
                => ~Collide(Landing(c), Projected(h, WeekOf(call[c].date)))

IInv ==
    /\ TypeOK
    /\ LocksExclude
    /\ CheckedIsFree
    /\ NoDoubleBooking

=============================================================================
