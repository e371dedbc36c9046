----------------------------- MODULE AgendaProofs -----------------------------
(***************************************************************************)
(* Proofs for ScheduleMasks and for Agenda, which extends it: for any      *)
(* groups, rooms, teachers, calls and number of weeks, reschedules never   *)
(* book a room or a teacher twice, the feed agrees with the public grid,   *)
(* an absence stays, and a morning task leaves a complete journal.         *)
(***************************************************************************)
EXTENDS Agenda, TLAPS

USE ScheduleAssumption, AgendaAssumption

-----------------------------------------------------------------------------
(* Dates *)

\* A Monday and a weekday make a date, and normalize_week_start finds them again.
LEMMA WeekAndDay ==
    ASSUME NEW week \in WeekStarts, NEW day \in Days
    PROVE  week + day \in Dates /\ DayOf(week + day) = day /\ WeekOf(week + day) = week
<1> DEFINE D == DaysInWeek
           W == Weeks
<1>1. PICK n \in 0..(W - 1) : week = D * n
  BY DEF WeekStarts
<1>2. D \in Nat \ {0} /\ W \in Nat \ {0} /\ n \in Nat /\ day \in 0..(D - 1) /\ n <= W - 1
  BY <1>1 DEF Days
<1> HIDE DEF D, W
<1>3. (D * n + day) % D = day
  BY <1>2
<1>4. D * n + day \in Nat /\ D * n + day <= D * W - 1
  <2>1. D * n <= D * (W - 1) /\ D * n \in Nat /\ D * W \in Nat
    BY <1>2
  <2> QED
    BY <2>1, <1>2
<1>5. (D * n + day) - day = D * n
  BY <1>2
<1> QED
  BY <1>1, <1>2, <1>3, <1>4, <1>5 DEF D, W, Dates, DayOf, WeekOf

\* Every date is a Monday and a weekday.
LEMMA DateSplits ==
    ASSUME NEW date \in Dates
    PROVE  /\ WeekOf(date) \in WeekStarts /\ DayOf(date) \in Days
           /\ WeekOf(date) + DayOf(date) = date /\ date \in Nat
<1> DEFINE D == DaysInWeek
           W == Weeks
           n == date \div D
           x == date % D
<1>1. D \in Nat \ {0} /\ W \in Nat \ {0} /\ date \in Nat /\ date <= D * W - 1
  BY DEF Dates
<1>2. x \in 0..(D - 1) /\ date = D * n + x /\ n \in Nat
  <2> HIDE DEF D, W
  <2> QED
    BY <1>1
<1>3. n <= W - 1
  <2> HIDE DEF D, W, n, x
  <2> QED
    BY <1>1, <1>2
<1>4. date - x = D * n /\ (date - x) + x = date
  <2> HIDE DEF D, W, n, x
  <2> QED
    BY <1>1, <1>2
<1>5. date - x \in {D * i : i \in 0..(W - 1)}
  <2> HIDE DEF D, W, n, x
  <2> QED
    BY <1>1, <1>2, <1>3, <1>4
<1> QED
  BY <1>1, <1>2, <1>4, <1>5 DEF WeekStarts, WeekOf, DayOf, Days

-----------------------------------------------------------------------------
(* Sessions *)

LEMMA CollideSymmetric ==
    ASSUME NEW s, NEW t, Collide(s, t)
    PROVE  Collide(t, s)
  BY DEF Collide, Overlap, SameResource

LEMMA RowTyped ==
    ASSUME TypeOK, NEW g \in Groups
    PROVE  grid[g].day \in Days /\ grid[g] \in Row
  BY DEF TypeOK, Row

LEMMA OverTyped ==
    ASSUME NEW over \in Overrides
    PROVE  over.day \in Days \cup {None} /\ over \in Override
  BY DEF Override

LEMMA MaskTyped ==
    ASSUME TypeOK, NEW g \in Groups, NEW week \in WeekStarts
    PROVE  /\ week + grid[g].day \in Dates
           /\ MaskOf(g, week) \in Overrides \cup {NoMask, CANCELLATION}
<1>1. week + grid[g].day \in Dates
  BY RowTyped, WeekAndDay
<1> QED
  BY <1>1 DEF TypeOK, MaskOf

\* A rescheduled lesson lands inside its week.
LEMMA LandsInWeek ==
    ASSUME TypeOK, NEW g \in Groups, NEW date \in Dates, NEW over \in Overrides
    PROVE  /\ EffectiveSession(grid[g], date, over).date \in Dates
           /\ WeekOf(EffectiveSession(grid[g], date, over).date) = WeekOf(date)
<1>1. Inherit(over.day, grid[g].day) \in Days
  BY RowTyped, OverTyped DEF Inherit
<1>2. EffectiveSession(grid[g], date, over).date = WeekOf(date) + Inherit(over.day, grid[g].day)
  BY DEF EffectiveSession
<1> QED
  BY <1>1, <1>2, DateSplits, WeekAndDay

\* What a group shows in a week depends on its row and its mask of that week.
LEMMA ProjectedFrame ==
    ASSUME NEW g, NEW week, grid'[g] = grid[g], MaskOf(g, week)' = MaskOf(g, week)
    PROVE  Projected(g, week)' = Projected(g, week)
  BY DEF Projected

LEMMA LandingFrame ==
    ASSUME NEW c, call'[c] = call[c], grid'[call[c].group] = grid[call[c].group]
    PROVE  Landing(c)' = Landing(c)
  BY DEF Landing

-----------------------------------------------------------------------------
(* ScheduleMasks: types *)

LEMMA InitTypeOK == Init => TypeOK
<1> SUFFICES ASSUME Init PROVE TypeOK
  OBVIOUS
<1>1. 0 \in Dates
  BY DEF Dates
<1> QED
  BY <1>1 DEF Init, TypeOK

LEMMA GotoType ==
    ASSUME TypeOK, NEW c \in Calls,
           NEW label \in {"idle", "room", "teacher", "check", "insert"}, Goto(c, label)
    PROVE  /\ pc' \in [Calls -> {"idle", "room", "teacher", "check", "insert"}]
           /\ \A d \in Calls : pc'[d] = IF d = c THEN label ELSE pc[d]
  BY DEF TypeOK, Goto

LEMMA PutMaskType ==
    ASSUME TypeOK, NEW g \in Groups, NEW date \in Dates,
           NEW mask \in Overrides \cup {NoMask, CANCELLATION}, PutMask(g, date, mask)
    PROVE  /\ masks' \in [Groups -> [Dates -> Overrides \cup {NoMask, CANCELLATION}]]
           /\ \A h \in Groups, d \in Dates :
                 masks'[h][d] = IF h = g /\ d = date THEN mask ELSE masks[h][d]
<1> DEFINE M == Overrides \cup {NoMask, CANCELLATION}
<1>1. masks \in [Groups -> [Dates -> M]] /\ mask \in M
  BY DEF TypeOK
<1>2. masks' = [masks EXCEPT ![g] = [masks[g] EXCEPT ![date] = mask]]
  BY DEF PutMask
<1>3. [masks[g] EXCEPT ![date] = mask] \in [Dates -> M]
  <2> HIDE DEF M
  <2> QED
    BY <1>1
<1> QED
  <2> HIDE DEF M
  <2>1. masks' \in [Groups -> [Dates -> M]]
    BY <1>1, <1>2, <1>3
  <2>2. \A h \in Groups, d \in Dates :
           masks'[h][d] = IF h = g /\ d = date THEN mask ELSE masks[h][d]
    BY <1>1, <1>2, <1>3
  <2> QED
    BY <2>1, <2>2 DEF M

LEMMA EndType ==
    ASSUME TypeOK, NEW c \in Calls, End(c)
    PROVE  /\ pc' \in [Calls -> {"idle", "room", "teacher", "check", "insert"}]
           /\ call' \in [Calls -> Request \cup {NoRequest}]
           /\ \A d \in Calls : pc'[d] = IF d = c THEN "idle" ELSE pc[d]
           /\ \A d \in Calls : d # c => call'[d] = call[d]
  BY GotoType DEF TypeOK, End

LEMMA StepTypeOK ==
    ASSUME TypeOK, [Next]_vars
    PROVE  TypeOK'
<1>1. ASSUME NEW g \in Groups, NEW date \in Dates, CancelLesson(g, date)
      PROVE  TypeOK'
  <2>1. PutMask(g, date, CANCELLATION)
    BY <1>1 DEF CancelLesson
  <2> QED
    BY <1>1, <2>1, PutMaskType DEF TypeOK, CancelLesson, gridVars
<1>2. ASSUME NEW g \in Groups, NEW date \in Dates, NEW c \in Calls, NEW over \in Overrides,
             BeginReschedule(c, g, date, over)
      PROVE  TypeOK'
  <2> DEFINE r == [group |-> g, date |-> date, over |-> over]
  <2>1. r \in Request
    BY DEF Request
  <2>2. Goto(c, "room") /\ call' = [call EXCEPT ![c] = r]
    BY <1>2 DEF BeginReschedule
  <2> HIDE DEF r
  <2>3. call' \in [Calls -> Request \cup {NoRequest}]
        /\ \A d \in Calls : call'[d] = IF d = c THEN r ELSE call[d]
    BY <2>1, <2>2 DEF TypeOK
  <2> QED
    BY <1>2, <2>1, <2>2, <2>3, GotoType DEF TypeOK, BeginReschedule, gridVars
<1>3. ASSUME NEW c \in Calls, LockRoom(c)
      PROVE  TypeOK'
  BY <1>3, GotoType DEF TypeOK, LockRoom, gridVars
<1>4. ASSUME NEW c \in Calls, LockTeacher(c)
      PROVE  TypeOK'
  BY <1>4, GotoType DEF TypeOK, LockTeacher, gridVars
<1>5. ASSUME NEW c \in Calls, EnsureNoCollision(c)
      PROVE  TypeOK'
  <2>1. CASE End(c)
    BY <1>5, <2>1, EndType DEF TypeOK, EnsureNoCollision, gridVars
  <2>2. CASE Goto(c, "insert") /\ UNCHANGED call
    BY <1>5, <2>2, GotoType DEF TypeOK, EnsureNoCollision, gridVars
  <2> QED
    BY <1>5, <2>1, <2>2 DEF EnsureNoCollision
<1>6. ASSUME NEW c \in Calls, SaveMask(c)
      PROVE  TypeOK'
  <2>1. call[c] \in Request /\ End(c)
    BY <1>6 DEF SaveMask, TypeOK
  <2>2. call[c].group \in Groups /\ call[c].date \in Dates /\ call[c].over \in Overrides
    BY <2>1 DEF Request
  <2>3. PutMask(call[c].group, call[c].date, call[c].over)
    BY <1>6 DEF SaveMask
  <2>4. masks' \in [Groups -> [Dates -> Overrides \cup {NoMask, CANCELLATION}]]
    BY <2>2, <2>3, PutMaskType
  <2> QED
    BY <1>6, <2>1, <2>4, EndType DEF TypeOK, SaveMask, gridVars
<1>7. ASSUME NEW g \in Groups, NEW row \in Rows, NEW isActive \in BOOLEAN,
             EditGroup(g, row, isActive)
      PROVE  TypeOK'
  BY <1>7 DEF TypeOK, EditGroup
<1>8. ASSUME NEW g \in Groups, ToggleActivity(g)
      PROVE  TypeOK'
  BY <1>8 DEF TypeOK, ToggleActivity
<1>9. CASE Midnight
  BY <1>9 DEF TypeOK, Midnight, gridVars
<1>10. CASE UNCHANGED vars
  BY <1>10 DEF TypeOK, vars, gridVars
<1> QED
  BY <1>1, <1>2, <1>3, <1>4, <1>5, <1>6, <1>7, <1>8, <1>9, <1>10 DEF Next, CallStep

\* Every variable of ScheduleMasks keeps its type: a call under way has a group, a
\* date and an override, and no mask lies outside the dates (schedule/services.py:
\* 27-100).
THEOREM TypeCorrect == Spec => []TypeOK
<1>1. TypeOK /\ [Next]_vars => TypeOK'
  BY StepTypeOK
<1> QED
  BY <1>1, InitTypeOK, PTL DEF Spec

-----------------------------------------------------------------------------
(* ScheduleMasks: no double booking *)

LEMMA ShownTyped ==
    ASSUME TypeOK
    PROVE  Shown \subseteq Groups
  BY DEF TypeOK, Shown

LEMMA CallTyped ==
    ASSUME TypeOK, NEW c \in Calls, pc[c] # "idle"
    PROVE  /\ call[c].group \in Groups /\ call[c].date \in Dates /\ call[c].over \in Overrides
           /\ WeekOf(call[c].date) \in WeekStarts
           /\ WeekOf(Landing(c).date) = WeekOf(call[c].date)
           /\ Landing(c).date \in Dates
<1>1. call[c] \in Request
  BY DEF TypeOK
<1>2. call[c].group \in Groups /\ call[c].date \in Dates /\ call[c].over \in Overrides
  BY <1>1 DEF Request
<1> QED
  BY <1>2, DateSplits, LandsInWeek DEF Landing

\* Groups of the grid that do not collide in week 0 do so in no week.
LEMMA RegularShift ==
    ASSUME NEW row \in Row, NEW other \in Row, NEW week \in WeekStarts,
           Collide(RegularSession(row, week), RegularSession(other, week))
    PROVE  Collide(RegularSession(row, 0), RegularSession(other, 0))
<1>1. row.day \in Days /\ other.day \in Days
  BY DEF Row
<1>2. week \in Int /\ row.day \in Int /\ other.day \in Int
  BY <1>1 DEF WeekStarts, Days
<1>3. week + row.day = week + other.day
  BY DEF Collide, RegularSession
<1>4. row.day = other.day
  BY <1>2, <1>3
<1> QED
  BY <1>4 DEF Collide, RegularSession, Overlap, SameResource

LEMMA InitIInv == Init => IInv
<1> SUFFICES ASSUME Init PROVE IInv
  OBVIOUS
<1>1. TypeOK
  BY InitTypeOK
<1>2. LocksExclude /\ CheckedIsFree
  BY DEF Init, LocksExclude, CheckedIsFree
<1>3. ASSUME NEW week \in WeekStarts, NEW g \in Shown, NEW h \in Shown, g # h,
             Collide(Projected(g, week), Projected(h, week))
      PROVE  FALSE
  <2>1. g \in Groups /\ h \in Groups
    BY <1>1, ShownTyped
  <2>2. MaskOf(g, week) = NoMask /\ MaskOf(h, week) = NoMask
    BY <1>1, <2>1, MaskTyped DEF Init, MaskOf
  <2>3. /\ Projected(g, week) = RegularSession(grid[g], week)
        /\ Projected(h, week) = RegularSession(grid[h], week)
    BY <2>2 DEF Projected
  <2>4. Collide(RegularSession(grid[g], 0), RegularSession(grid[h], 0))
    BY <1>1, <1>3, <2>1, <2>3, RegularShift, RowTyped
  <2> QED
    BY <1>3, <2>1, <2>4 DEF Init, GridIsExclusive
<1>4. NoDoubleBooking
  BY <1>3 DEF NoDoubleBooking
<1> QED
  BY <1>1, <1>2, <1>4 DEF IInv

\* What a step that leaves a group's row and masks alone leaves of its week.
LEMMA SameWeek ==
    ASSUME TypeOK, NEW g \in Groups, NEW week \in WeekStarts, grid'[g] = grid[g],
           \A d \in Dates : masks'[g][d] = masks[g][d]
    PROVE  MaskOf(g, week)' = MaskOf(g, week) /\ Projected(g, week)' = Projected(g, week)
<1>1. MaskOf(g, week)' = MaskOf(g, week)
  BY MaskTyped DEF MaskOf
<1> QED
  BY <1>1, ProjectedFrame

\* Locks: a step that moves no call to a lock, nor its landing.
LEMMA LocksFrame ==
    ASSUME LocksExclude,
           \A c \in Calls : \/ pc'[c] \in {"idle", "room"}
                            \/ pc'[c] = pc[c] /\ Landing(c)' = Landing(c)
                            \/ pc[c] = "check" /\ pc'[c] = "insert" /\ Landing(c)' = Landing(c)
    PROVE  LocksExclude'
  BY DEF LocksExclude

\* CheckedIsFree after a step, with the week named.
LEMMA CheckedNext ==
    ASSUME \A c \in Calls, week \in WeekStarts :
               pc'[c] = "insert" /\ week = WeekOf(call'[c].date) =>
               \A h \in (Shown \ edited)' \ {call'[c].group} :
                   MaskOf(h, week)' # CANCELLATION => ~Collide(Landing(c)', Projected(h, week)'),
           TypeOK'
    PROVE  CheckedIsFree'
<1> SUFFICES ASSUME NEW c \in Calls, pc'[c] = "insert",
                    NEW h \in (Shown \ edited)' \ {call'[c].group},
                    MaskOf(h, WeekOf(call[c].date))' # CANCELLATION
             PROVE  ~Collide(Landing(c)', Projected(h, WeekOf(call[c].date))')
  BY DEF CheckedIsFree
<1>1. PICK week : week = WeekOf(call'[c].date)
  OBVIOUS
<1>2. week \in WeekStarts
  <2>1. call'[c] \in Request
    BY DEF TypeOK
  <2>2. call'[c].date \in Dates
    BY <2>1 DEF Request
  <2> QED
    BY <1>1, <2>2, DateSplits
<1>3. MaskOf(h, WeekOf(call[c].date))' = MaskOf(h, week)'
  BY <1>1 DEF MaskOf, WeekOf, DayOf
<1>4. Projected(h, WeekOf(call[c].date))' = Projected(h, week)'
  BY <1>1 DEF Projected, MaskOf, WeekOf, DayOf
<1> QED
  BY <1>1, <1>2, <1>3, <1>4

\* The timetable part, for a step that changes the weeks of no group but the edited.
LEMMA TimetableFrame ==
    ASSUME IInv, TypeOK', (Shown \ edited)' \subseteq Shown \ edited,
           \A g \in (Shown \ edited)', week \in WeekStarts :
               MaskOf(g, week)' # CANCELLATION =>
                   MaskOf(g, week)' = MaskOf(g, week) /\ grid'[g] = grid[g]
    PROVE  /\ NoDoubleBooking'
           /\ (\A c \in Calls : pc'[c] = "insert" =>
                    pc[c] = "insert" /\ Landing(c)' = Landing(c) /\ call'[c] = call[c])
                 => CheckedIsFree'
<1>2. \A g \in (Shown \ edited)', week \in WeekStarts : MaskOf(g, week)' # CANCELLATION =>
         MaskOf(g, week) # CANCELLATION /\ Projected(g, week)' = Projected(g, week)
  BY ProjectedFrame
<1>3. NoDoubleBooking'
  BY <1>2 DEF IInv, NoDoubleBooking
<1>4. ASSUME \A c \in Calls : pc'[c] = "insert" =>
                 pc[c] = "insert" /\ Landing(c)' = Landing(c) /\ call'[c] = call[c]
      PROVE  CheckedIsFree'
  <2> SUFFICES ASSUME NEW c \in Calls, NEW week \in WeekStarts, pc'[c] = "insert",
                      week = WeekOf(call'[c].date),
                      NEW h \in (Shown \ edited)' \ {call'[c].group},
                      MaskOf(h, week)' # CANCELLATION
               PROVE  ~Collide(Landing(c)', Projected(h, week)')
    BY CheckedNext
  <2>1. pc[c] = "insert" /\ Landing(c)' = Landing(c) /\ call'[c] = call[c]
    BY <1>4
  <2>2. h \in (Shown \ edited) \ {call[c].group} /\ week = WeekOf(call[c].date)
    BY <2>1
  <2>3. MaskOf(h, week) # CANCELLATION /\ Projected(h, week)' = Projected(h, week)
    BY <1>2
  <2>4. ~Collide(Landing(c), Projected(h, week))
    BY <2>1, <2>2, <2>3 DEF IInv, CheckedIsFree
  <2> QED
    BY <2>1, <2>3, <2>4
<1> QED
  BY <1>3, <1>4

\* A step that leaves grid and masks alone: only a call that passes the check is new
\* to CheckedIsFree.
LEMMA QuietStep ==
    ASSUME IInv, TypeOK', UNCHANGED <<gridVars, masks>>
    PROVE  /\ NoDoubleBooking'
           /\ (\A c \in Calls : pc'[c] = "insert" => pc[c] = "insert" /\ call'[c] = call[c])
                 => CheckedIsFree'
           /\ \A c \in Calls : call'[c] = call[c] => Landing(c)' = Landing(c)
<1>1. (Shown \ edited)' = Shown \ edited
  BY DEF gridVars, Shown
<1>2. \A g, week : MaskOf(g, week)' = MaskOf(g, week) /\ grid'[g] = grid[g]
  BY DEF gridVars, MaskOf
<1>3. \A c \in Calls : call'[c] = call[c] => Landing(c)' = Landing(c)
  BY DEF Landing, gridVars
<1> QED
  BY <1>1, <1>2, <1>3, TimetableFrame

LEMMA BeginIInv ==
    ASSUME IInv, TypeOK', NEW c \in Calls, NEW g \in Groups, NEW date \in Dates,
           NEW over \in Overrides, BeginReschedule(c, g, date, over)
    PROVE  IInv'
<1>1. \A d \in Calls : d # c => pc'[d] = pc[d] /\ call'[d] = call[d]
  BY DEF BeginReschedule, Goto, IInv, TypeOK
<1>2. pc'[c] = "room" /\ UNCHANGED <<gridVars, masks>>
  BY DEF BeginReschedule, Goto, IInv, TypeOK
<1>3. \A d \in Calls : d # c => Landing(d)' = Landing(d)
  BY <1>1, <1>2, QuietStep
<1>4. LocksExclude'
  <2>1. \A d \in Calls : pc'[d] \in {"idle", "room"} \/ (pc'[d] = pc[d] /\ Landing(d)' = Landing(d))
    BY <1>1, <1>2, <1>3
  <2> QED
    BY <2>1, LocksFrame DEF IInv
<1>5. NoDoubleBooking' /\ CheckedIsFree'
  <2>1. \A d \in Calls : pc'[d] = "insert" => pc[d] = "insert" /\ call'[d] = call[d]
    BY <1>1, <1>2
  <2> QED
    BY <1>2, <2>1, QuietStep
<1> QED
  BY <1>4, <1>5 DEF IInv

LEMMA LockRoomIInv ==
    ASSUME IInv, TypeOK', NEW c \in Calls, LockRoom(c)
    PROVE  IInv'
<1>1. \A d \in Calls : d # c => pc'[d] = pc[d]
  BY DEF LockRoom, Goto, IInv, TypeOK
<1>2. pc'[c] = "teacher" /\ UNCHANGED <<gridVars, masks, call>> /\ RoomFree(Landing(c).room)
  BY DEF LockRoom, Goto, IInv, TypeOK
<1>3. \A d \in Calls : Landing(d)' = Landing(d)
  BY <1>2, QuietStep
<1>4. LocksExclude'
  <2>1. ASSUME NEW d \in Calls, d # c, pc[d] \in {"teacher", "check", "insert"},
               Landing(c).room # None
        PROVE  Landing(d).room # Landing(c).room
    BY <1>2, <2>1 DEF RoomFree
  <2> QED
    BY <1>1, <1>2, <1>3, <2>1 DEF IInv, LocksExclude
<1>5. NoDoubleBooking' /\ CheckedIsFree'
  <2>1. \A d \in Calls : pc'[d] = "insert" => pc[d] = "insert" /\ call'[d] = call[d]
    BY <1>1, <1>2
  <2> QED
    BY <1>2, <2>1, QuietStep
<1> QED
  BY <1>4, <1>5 DEF IInv

LEMMA LockTeacherIInv ==
    ASSUME IInv, TypeOK', NEW c \in Calls, LockTeacher(c)
    PROVE  IInv'
<1>1. \A d \in Calls : d # c => pc'[d] = pc[d]
  BY DEF LockTeacher, Goto, IInv, TypeOK
<1>2. /\ pc[c] = "teacher" /\ pc'[c] = "check" /\ UNCHANGED <<gridVars, masks, call>>
      /\ TeacherFree(Landing(c).teacher)
  BY DEF LockTeacher, Goto, IInv, TypeOK
<1>3. \A d \in Calls : Landing(d)' = Landing(d)
  BY <1>2, QuietStep
<1>4. LocksExclude'
  <2>1. ASSUME NEW d \in Calls, d # c, pc[d] \in {"check", "insert"}, Landing(c).teacher # None
        PROVE  Landing(d).teacher # Landing(c).teacher
    BY <1>2, <2>1 DEF TeacherFree
  <2> QED
    BY <1>1, <1>2, <1>3, <2>1 DEF IInv, LocksExclude
<1>5. NoDoubleBooking' /\ CheckedIsFree'
  <2>1. \A d \in Calls : pc'[d] = "insert" => pc[d] = "insert" /\ call'[d] = call[d]
    BY <1>1, <1>2
  <2> QED
    BY <1>2, <2>1, QuietStep
<1> QED
  BY <1>4, <1>5 DEF IInv

\* A landing that _ensure_no_collision lets pass collides with no group of its week.
LEMMA NoCollisionIsFree ==
    ASSUME TypeOK, NEW c \in Calls, pc[c] # "idle", ~Collision(c),
           NEW h \in Shown \ {call[c].group}, NEW week \in WeekStarts, week = WeekOf(call[c].date),
           MaskOf(h, week) # CANCELLATION
    PROVE  ~Collide(Landing(c), Projected(h, week))
<1> SUFFICES ASSUME Collide(Landing(c), Projected(h, week)) PROVE FALSE
  OBVIOUS
<1>1. h \in (active \cap offered) \ {call[c].group} /\ h \in Groups
  BY ShownTyped DEF Shown
<1>2. week + grid[h].day \in Dates /\ WeekOf(week + grid[h].day) = week
  BY <1>1, RowTyped, WeekAndDay
<1>3. WeekOf(Landing(c).date) = week /\ Landing(c).date \in Dates
  BY CallTyped
<1>4. CASE MaskOf(h, week) \in Overrides
  <2>1. Projected(h, week) = EffectiveSession(grid[h], week + grid[h].day, MaskOf(h, week))
    BY <1>4 DEF Projected
  <2>2. MaskCollision(call[c].group, Landing(c))
    BY <1>1, <1>2, <1>3, <1>4, <2>1 DEF MaskCollision, MaskOf
  <2> QED
    BY <2>2 DEF Collision
<1>5. CASE MaskOf(h, week) \notin Overrides
  <2>1. MaskOf(h, week) = NoMask
    BY <1>1, <1>5, MaskTyped
  <2>2. Projected(h, week) = RegularSession(grid[h], week)
    BY <1>5 DEF Projected
  <2>3. Landing(c).date = week + grid[h].day
    BY <2>2 DEF Collide, RegularSession
  <2>4. GridCollision(call[c].group, Landing(c))
    BY <1>1, <1>3, <2>1, <2>2, <2>3 DEF GridCollision, MaskOf
  <2> QED
    BY <2>4 DEF Collision
<1> QED
  BY <1>4, <1>5

LEMMA EnsureIInv ==
    ASSUME IInv, TypeOK', NEW c \in Calls, EnsureNoCollision(c)
    PROVE  IInv'
<1>1. UNCHANGED <<gridVars, masks>> /\ pc[c] = "check" /\ TypeOK
  BY DEF EnsureNoCollision, IInv
<1>2. CASE Collision(c) /\ End(c)
  <2>1. pc'[c] = "idle" /\ \A d \in Calls : d # c => pc'[d] = pc[d] /\ call'[d] = call[d]
    BY <1>1, <1>2, EndType
  <2>2. \A d \in Calls : pc'[d] \in {"idle", "room"} \/ (pc'[d] = pc[d] /\ Landing(d)' = Landing(d))
    BY <1>1, <2>1, QuietStep
  <2>3. \A d \in Calls : pc'[d] = "insert" => pc[d] = "insert" /\ call'[d] = call[d]
    BY <2>1
  <2> QED
    BY <1>1, <2>2, <2>3, QuietStep, LocksFrame DEF IInv
<1>3. CASE ~Collision(c) /\ Goto(c, "insert") /\ UNCHANGED call
  <2>1. pc'[c] = "insert" /\ \A d \in Calls : d # c => pc'[d] = pc[d]
    BY <1>1, <1>3, GotoType
  <2>2. \A d \in Calls : Landing(d)' = Landing(d) /\ call'[d] = call[d]
    BY <1>1, <1>3, QuietStep
  <2>3. \A d \in Calls : \/ pc'[d] = pc[d] /\ Landing(d)' = Landing(d)
                         \/ pc[d] = "check" /\ pc'[d] = "insert" /\ Landing(d)' = Landing(d)
    BY <1>1, <2>1, <2>2
  <2>4. LocksExclude'
    BY <2>3, LocksFrame DEF IInv
  <2>5. CheckedIsFree'
    <3> SUFFICES ASSUME NEW d \in Calls, NEW week \in WeekStarts, pc'[d] = "insert",
                        week = WeekOf(call'[d].date),
                        NEW h \in (Shown \ edited)' \ {call'[d].group},
                        MaskOf(h, week)' # CANCELLATION
                 PROVE  ~Collide(Landing(d)', Projected(h, week)')
      BY CheckedNext
    <3>1. h \in (Shown \ edited) \ {call[d].group} /\ week = WeekOf(call[d].date)
      BY <1>1, <2>2 DEF gridVars, Shown
    <3>2. MaskOf(h, week)' = MaskOf(h, week) /\ Projected(h, week)' = Projected(h, week)
      BY <1>1, ProjectedFrame DEF gridVars, MaskOf
    <3>3. CASE d = c
      BY <1>1, <1>3, <2>2, <3>1, <3>2, <3>3, NoCollisionIsFree
    <3>4. CASE d # c
      BY <2>1, <2>2, <3>1, <3>2, <3>4 DEF IInv, CheckedIsFree
    <3> QED
      BY <3>3, <3>4
  <2> QED
    BY <1>1, <2>4, <2>5, QuietStep DEF IInv
<1> QED
  BY <1>2, <1>3 DEF EnsureNoCollision

\* What a saved mask changes: the week of its date, where the group now shows the
\* landing of the call.
LEMMA SavedIsLanding ==
    ASSUME TypeOK, NEW c \in Calls, SaveMask(c), NEW g \in Groups, NEW week \in WeekStarts
    PROVE  \/ MaskOf(g, week)' = MaskOf(g, week) /\ Projected(g, week)' = Projected(g, week)
           \/ /\ g = call[c].group /\ week = WeekOf(call[c].date)
              /\ Projected(g, week)' = Landing(c)
<1> DEFINE req == call[c]
           day == week + grid[g].day
<1>1. req.group \in Groups /\ req.date \in Dates /\ req.over \in Overrides
  BY CallTyped DEF SaveMask
<1>2. day \in Dates /\ WeekOf(day) = week
  BY RowTyped, WeekAndDay
<1>3. PutMask(req.group, req.date, req.over) /\ UNCHANGED gridVars
  BY DEF SaveMask
<1>4. masks'[g][day] = IF g = req.group /\ day = req.date THEN req.over ELSE masks[g][day]
  BY <1>1, <1>2, <1>3, PutMaskType
<1>5. grid' = grid
  BY <1>3 DEF gridVars
<1>6. MaskOf(g, week)' = masks'[g][day] /\ MaskOf(g, week) = masks[g][day]
  BY <1>5 DEF MaskOf
<1>7. CASE g = req.group /\ day = req.date
  <2>1. MaskOf(g, week)' = req.over
    BY <1>4, <1>6, <1>7
  <2>2. Projected(g, week)' = EffectiveSession(grid[g], day, req.over)
    BY <1>1, <1>5, <2>1 DEF Projected
  <2> QED
    BY <1>2, <1>7, <2>2 DEF Landing
<1>8. CASE ~(g = req.group /\ day = req.date)
  <2>1. MaskOf(g, week)' = MaskOf(g, week)
    BY <1>4, <1>6, <1>8
  <2> QED
    BY <2>1, <1>5, ProjectedFrame
<1> QED
  BY <1>7, <1>8

LEMMA SaveIInv ==
    ASSUME IInv, TypeOK', NEW c \in Calls, SaveMask(c)
    PROVE  IInv'
<1>1. TypeOK /\ End(c) /\ UNCHANGED gridVars /\ pc[c] = "insert"
  BY DEF IInv, SaveMask
<1>2. pc'[c] = "idle" /\ \A d \in Calls : d # c => pc'[d] = pc[d] /\ call'[d] = call[d]
  BY <1>1, EndType
<1>3. \A d \in Calls : d # c => Landing(d)' = Landing(d)
  BY <1>1, <1>2, LandingFrame DEF gridVars
<1>4. LocksExclude'
  <2>1. \A d \in Calls : pc'[d] \in {"idle", "room"} \/ (pc'[d] = pc[d] /\ Landing(d)' = Landing(d))
    BY <1>2, <1>3
  <2> QED
    BY <2>1, LocksFrame DEF IInv
<1>5. (Shown \ edited)' = Shown \ edited /\ Shown \subseteq Groups
  BY <1>1, ShownTyped DEF gridVars, Shown
<1>6. \A h \in (Shown \ edited) \ {call[c].group}, week \in WeekStarts :
         /\ MaskOf(h, week)' = MaskOf(h, week) /\ Projected(h, week)' = Projected(h, week)
         /\ week = WeekOf(call[c].date) /\ MaskOf(h, week) # CANCELLATION
               => ~Collide(Landing(c), Projected(h, week))
  <2>1. ASSUME NEW h \in (Shown \ edited) \ {call[c].group}, NEW week \in WeekStarts
        PROVE  MaskOf(h, week)' = MaskOf(h, week) /\ Projected(h, week)' = Projected(h, week)
    BY <1>1, <1>5, <2>1, SavedIsLanding
  <2> QED
    BY <1>1, <2>1 DEF IInv, CheckedIsFree
<1>7. NoDoubleBooking'
  <2> SUFFICES ASSUME NEW week \in WeekStarts, NEW g \in Shown \ edited, NEW h \in Shown \ edited,
                      g # h, MaskOf(g, week)' # CANCELLATION, MaskOf(h, week)' # CANCELLATION,
                      Collide(Projected(g, week)', Projected(h, week)')
               PROVE  FALSE
    BY <1>5 DEF NoDoubleBooking
  <2>1. CASE Projected(g, week)' = Projected(g, week) /\ MaskOf(g, week)' = MaskOf(g, week)
             /\ Projected(h, week)' = Projected(h, week) /\ MaskOf(h, week)' = MaskOf(h, week)
    BY <2>1 DEF IInv, NoDoubleBooking
  <2>2. CASE /\ g = call[c].group /\ week = WeekOf(call[c].date)
             /\ Projected(g, week)' = Landing(c)
    BY <1>6, <2>2
  <2>3. CASE /\ h = call[c].group /\ week = WeekOf(call[c].date)
             /\ Projected(h, week)' = Landing(c)
    BY <1>6, <2>3, CollideSymmetric
  <2> QED
    BY <1>1, <1>5, <2>1, <2>2, <2>3, SavedIsLanding
<1>8. CheckedIsFree'
  <2> SUFFICES ASSUME NEW d \in Calls, NEW week \in WeekStarts, pc'[d] = "insert",
                      week = WeekOf(call'[d].date),
                      NEW h \in (Shown \ edited)' \ {call'[d].group},
                      MaskOf(h, week)' # CANCELLATION
               PROVE  ~Collide(Landing(d)', Projected(h, week)')
    BY CheckedNext
  <2>1. d # c /\ pc[d] = "insert" /\ call'[d] = call[d] /\ Landing(d)' = Landing(d)
    BY <1>2, <1>3
  <2>2. h \in (Shown \ edited) \ {call[d].group} /\ week = WeekOf(call[d].date) /\ h \in Groups
    BY <1>5, <2>1
  <2>3. CASE MaskOf(h, week)' = MaskOf(h, week) /\ Projected(h, week)' = Projected(h, week)
    BY <2>1, <2>2, <2>3 DEF IInv, CheckedIsFree
  <2>4. CASE Projected(h, week)' = Landing(c)
    <3>1. ~SameResource(Landing(d), Landing(c))
      BY <1>1, <2>1 DEF IInv, LocksExclude, SameResource
    <3> QED
      BY <2>1, <2>4, <3>1 DEF Collide
  <2> QED
    BY <1>1, <2>2, <2>3, <2>4, SavedIsLanding
<1> QED
  BY <1>4, <1>7, <1>8 DEF IInv

LEMMA CancelIInv ==
    ASSUME IInv, TypeOK', NEW g \in Groups, NEW date \in Dates, CancelLesson(g, date)
    PROVE  IInv'
<1>1. TypeOK /\ UNCHANGED <<gridVars, pc, call>> /\ PutMask(g, date, CANCELLATION)
  BY DEF IInv, CancelLesson
<1>2. \A c \in Calls : Landing(c)' = Landing(c) /\ pc'[c] = pc[c] /\ call'[c] = call[c]
  BY <1>1 DEF Landing, gridVars
<1>3. LocksExclude'
  BY <1>2, LocksFrame DEF IInv
<1>4. (Shown \ edited)' = Shown \ edited /\ Shown \subseteq Groups /\ grid' = grid
  BY <1>1, ShownTyped DEF gridVars, Shown
<1>5. ASSUME NEW h \in Shown \ edited, NEW week \in WeekStarts, MaskOf(h, week)' # CANCELLATION
      PROVE  MaskOf(h, week)' = MaskOf(h, week) /\ grid'[h] = grid[h]
  <2>1. week + grid[h].day \in Dates /\ h \in Groups
    BY <1>1, <1>4, MaskTyped
  <2>2. \A d \in Dates :
           masks'[h][d] = IF h = g /\ d = date THEN CANCELLATION ELSE masks[h][d]
    BY <1>1, <2>1, PutMaskType
  <2> QED
    BY <1>4, <1>5, <2>1, <2>2 DEF MaskOf
<1>6. NoDoubleBooking' /\ CheckedIsFree'
  BY <1>2, <1>4, <1>5, TimetableFrame
<1> QED
  BY <1>3, <1>6 DEF IInv

\* The administrator edits a group: it leaves the statement, and the lock of its row
\* keeps the edit away from the calls under way.
LEMMA EditIInv ==
    ASSUME IInv, TypeOK', NEW g \in Groups, UNCHANGED <<masks, pc, call>>,
           edited' = edited \cup {g}, active' \subseteq active \cup {g},
           offered' \subseteq offered \cup {g},
           \A h \in Groups \ {g} : grid'[h] = grid[h],
           grid' = grid \/ RowFree(g)
    PROVE  IInv'
<1>1. TypeOK
  BY DEF IInv
<1>2. \A c \in Calls : pc[c] # "idle" => Landing(c)' = Landing(c)
  <2> SUFFICES ASSUME NEW c \in Calls, pc[c] # "idle" PROVE Landing(c)' = Landing(c)
    OBVIOUS
  <2>1. call[c].group \in Groups
    BY <1>1, CallTyped
  <2>2. grid'[call[c].group] = grid[call[c].group]
    BY <2>1 DEF RowFree
  <2> QED
    BY <2>2, LandingFrame
<1>3. \A c \in Calls : pc'[c] \in {"idle", "room"} \/ (pc'[c] = pc[c] /\ Landing(c)' = Landing(c))
  BY <1>2
<1>4. LocksExclude'
  BY <1>3, LocksFrame DEF IInv
<1>5. (Shown \ edited)' \subseteq Shown \ edited /\ \A h \in (Shown \ edited)' : h \in Groups \ {g}
  BY <1>1 DEF Shown, TypeOK
<1>6. \A h \in (Shown \ edited)', week \in WeekStarts :
         MaskOf(h, week)' = MaskOf(h, week) /\ grid'[h] = grid[h]
  BY <1>5 DEF MaskOf
<1>7. NoDoubleBooking' /\ CheckedIsFree'
  <2>1. \A c \in Calls : pc'[c] = "insert" =>
           pc[c] = "insert" /\ Landing(c)' = Landing(c) /\ call'[c] = call[c]
    BY <1>2
  <2> QED
    BY <1>5, <1>6, <2>1, TimetableFrame
<1> QED
  BY <1>4, <1>7 DEF IInv

LEMMA StepIInv ==
    ASSUME IInv, [Next]_vars
    PROVE  IInv'
<1>1. TypeOK'
  BY StepTypeOK DEF IInv
<1>2. ASSUME NEW g \in Groups, NEW row \in Rows, NEW isActive \in BOOLEAN,
             EditGroup(g, row, isActive)
      PROVE  IInv'
  <2>1. \A h \in Groups \ {g} : grid'[h] = grid[h]
    BY <1>2 DEF EditGroup, IInv, TypeOK
  <2>2. active' \subseteq active \cup {g}
    BY <1>2 DEF EditGroup
  <2> QED
    BY <1>1, <1>2, <2>1, <2>2, EditIInv DEF EditGroup
<1>3. ASSUME NEW g \in Groups, ToggleActivity(g)
      PROVE  IInv'
  <2>1. offered' \subseteq offered \cup {g}
    BY <1>3 DEF ToggleActivity
  <2> QED
    BY <1>1, <1>3, <2>1, EditIInv DEF ToggleActivity
<1>4. ASSUME UNCHANGED <<gridVars, masks, pc, call>>
      PROVE  IInv'
  <2>1. \A c \in Calls : pc'[c] = pc[c] /\ call'[c] = call[c] /\ Landing(c)' = Landing(c)
    BY <1>4 DEF Landing, gridVars
  <2> QED
    BY <1>1, <1>4, <2>1, QuietStep, LocksFrame DEF IInv
<1>5. CASE Midnight
  BY <1>4, <1>5 DEF Midnight
<1>6. CASE UNCHANGED vars
  BY <1>4, <1>6 DEF vars
<1> QED
  BY <1>1, <1>2, <1>3, <1>5, <1>6, CancelIInv, BeginIInv, LockRoomIInv, LockTeacherIInv, EnsureIInv,
     SaveIInv DEF Next, CallStep

\* In no week do two lessons share a room or a teacher at overlapping times, however
\* the calls of create_schedule_mask interleave, unless the administrator edited one
\* of the groups (schedule/services.py:187-294).
THEOREM NoRoomOrTeacherTwice == Spec => []NoDoubleBooking
<1>1. IInv /\ [Next]_vars => IInv'
  BY StepIInv
<1>2. IInv => NoDoubleBooking
  BY DEF IInv
<1> QED
  BY <1>1, <1>2, InitIInv, PTL DEF Spec

-----------------------------------------------------------------------------
(* Agenda: types *)

Execution == [pc : {"idle", "next", "write"}, date : Dates, todo : SUBSET Groups,
              group : Groups \cup {None}]

LEMMA IdleTyped == IdleMorning \in Execution /\ IdleMorning.pc = "idle"
<1>1. 0 \in Dates
  BY DEF Dates
<1> QED
  BY <1>1 DEF IdleMorning, Execution

LEMMA AgendaInitType == AgendaInit => AgendaTypeOK
<1> SUFFICES ASSUME AgendaInit PROVE AgendaTypeOK
  OBVIOUS
<1>1. morning \in [Mornings -> Execution]
  BY IdleTyped DEF AgendaInit
<1>2. \A m \in Mornings : morning[m].pc = "idle"
  BY IdleTyped DEF AgendaInit
<1>3. /\ TypeOK /\ enrolled \subseteq Children /\ lessons \subseteq Groups \X Dates
      /\ marks \in [Children -> [Dates -> {"none", "ATTENDED", "ABSENT"}]]
      /\ disturbed \in [Mornings -> BOOLEAN]
  BY InitTypeOK DEF AgendaInit
<1> QED
  BY <1>1, <1>2, <1>3 DEF AgendaTypeOK, Execution

\* An execution that is replaced by a well-formed one.
LEMMA MorningTyped ==
    ASSUME AgendaTypeOK, NEW m \in Mornings, NEW e \in Execution,
           e.pc = "write" => e.group \in Groups, morning' = [morning EXCEPT ![m] = e]
    PROVE  /\ morning' \in [Mornings -> Execution] /\ morning'[m] = e
           /\ \A n \in Mornings : n # m => morning'[n] = morning[n]
           /\ \A n \in Mornings : morning'[n].pc = "write" => morning'[n].group \in Groups
<1>1. morning \in [Mornings -> Execution]
  BY DEF AgendaTypeOK, Execution
<1>2. /\ morning' \in [Mornings -> Execution]
      /\ \A n \in Mornings : morning'[n] = IF n = m THEN e ELSE morning[n]
  BY <1>1
<1> QED
  BY <1>2 DEF AgendaTypeOK

\* What the steps of an execution replace it by.
LEMMA StartEffect ==
    ASSUME AgendaTypeOK, NEW m \in Mornings, StartMorning(m)
    PROVE  \E e \in Execution :
              /\ morning' = [morning EXCEPT ![m] = e]
              /\ e.pc = "next" /\ e.date = today
              /\ e.todo = {g \in active : grid[g].day = DayOf(today)}
<1> DEFINE e == [pc |-> "next", date |-> today, group |-> None,
                 todo |-> {g \in active : grid[g].day = DayOf(today)}]
<1>1. e \in Execution
  BY DEF Execution, AgendaTypeOK, TypeOK
<1>2. morning' = [morning EXCEPT ![m] = e]
  BY DEF StartMorning
<1> QED
  BY <1>1, <1>2

LEMMA CheckEffect ==
    ASSUME AgendaTypeOK, NEW m \in Mornings, CheckGroup(m)
    PROVE  \E e \in Execution :
              /\ morning' = [morning EXCEPT ![m] = e]
              /\ e.pc = "write" => e.group \in Groups
              /\ \/ e.pc = "idle"
                 \/ /\ e.date = morning[m].date
                    /\ \A g \in morning[m].todo : g \in e.todo \/ ~IsLessonDay(g, e.date)
<1> DEFINE o == morning[m]
<1>1. o \in Execution
  BY DEF AgendaTypeOK, Execution
<1>2. PICK g \in o.todo : morning' = [morning EXCEPT ![m] =
            CASE g \notin active -> IdleMorning
              [] g \in active /\ ~IsLessonDay(g, o.date) -> [o EXCEPT !.todo = o.todo \ {g}]
              [] OTHER -> [o EXCEPT !.pc = "write", !.group = g]]
  BY DEF CheckGroup
<1>3. g \in Groups
  BY <1>1, <1>2 DEF Execution
<1> HIDE DEF o
<1>4. CASE g \notin active
  <2>1. morning' = [morning EXCEPT ![m] = IdleMorning]
    BY <1>2, <1>4
  <2> QED
    BY <2>1, IdleTyped
<1>5. CASE g \in active /\ ~IsLessonDay(g, o.date)
  <2> DEFINE e == [o EXCEPT !.todo = o.todo \ {g}]
  <2>1. morning' = [morning EXCEPT ![m] = e]
    BY <1>2, <1>5
  <2>2. e \in Execution /\ e.date = o.date /\ e.todo = o.todo \ {g} /\ e.pc = o.pc
    BY <1>1 DEF Execution
  <2>3. e.pc # "write"
    BY <2>2 DEF o, CheckGroup
  <2> HIDE DEF e
  <2> QED
    BY <1>5, <2>1, <2>2, <2>3 DEF o
<1>6. CASE g \in active /\ IsLessonDay(g, o.date)
  <2> DEFINE e == [o EXCEPT !.pc = "write", !.group = g]
  <2>1. morning' = [morning EXCEPT ![m] = e]
    BY <1>2, <1>6
  <2>2. e \in Execution /\ e.date = o.date /\ e.todo = o.todo /\ e.group = g
    BY <1>1, <1>3 DEF Execution
  <2> HIDE DEF e
  <2> QED
    BY <1>3, <2>1, <2>2 DEF o
<1> QED
  BY <1>4, <1>5, <1>6

LEMMA WriteEffect ==
    ASSUME AgendaTypeOK, NEW m \in Mornings, WriteLesson(m)
    PROVE  \E e \in Execution :
              /\ morning' = [morning EXCEPT ![m] = e]
              /\ e.pc = "next" /\ e.date = morning[m].date
              /\ e.todo = morning[m].todo \ {morning[m].group}
<1> DEFINE o == morning[m]
           e == [o EXCEPT !.pc = "next", !.group = None, !.todo = o.todo \ {o.group}]
<1>1. o \in Execution
  BY DEF AgendaTypeOK, Execution
<1>2. morning' = [morning EXCEPT ![m] = e]
  BY <1>1 DEF WriteLesson, AgendaTypeOK, Execution
<1> HIDE DEF o
<1>3. e \in Execution /\ e.pc = "next" /\ e.date = o.date /\ e.todo = o.todo \ {o.group}
  BY <1>1 DEF Execution
<1> QED
  BY <1>2, <1>3 DEF o

Status == {"none", "ATTENDED", "ABSENT"}

\* The marks a lesson is opened with: those without a row become ATTENDED.
LEMMA WriteMarks ==
    ASSUME AgendaTypeOK, NEW m \in Mornings, WriteLesson(m)
    PROVE  /\ marks' \in [Children -> [Dates -> Status]]
           /\ \A k \in Children, d \in Dates :
                 marks'[k][d] = IF /\ k \in enrolled /\ GroupOf[k] = morning[m].group
                                   /\ d = morning[m].date
                                THEN MarkAttended(marks[k][d]) ELSE marks[k][d]
<1> DEFINE g == morning[m].group
           date == morning[m].date
<1>1. marks \in [Children -> [Dates -> Status]]
  BY DEF AgendaTypeOK, Status
<1>2. marks' = [k \in Children |-> IF k \in enrolled /\ GroupOf[k] = g
                                   THEN [marks[k] EXCEPT ![date] = MarkAttended(marks[k][date])]
                                   ELSE marks[k]]
  BY DEF WriteLesson
<1>3. \A old \in Status : MarkAttended(old) \in Status
  BY DEF MarkAttended, Status
<1> HIDE DEF g, date, Status
<1>4. \A k \in Children :
         /\ marks'[k] \in [Dates -> Status]
         /\ \A d \in Dates : marks'[k][d] = IF k \in enrolled /\ GroupOf[k] = g /\ d = date
                                           THEN MarkAttended(marks[k][d]) ELSE marks[k][d]
  <2> TAKE k \in Children
  <2>1. marks[k] \in [Dates -> Status]
    BY <1>1
  <2>2. CASE k \in enrolled /\ GroupOf[k] = g
    <3>1. marks'[k] = [marks[k] EXCEPT ![date] = MarkAttended(marks[k][date])]
      BY <1>2, <2>2
    <3> QED
      BY <1>3, <2>1, <2>2, <3>1
  <2>3. CASE ~(k \in enrolled /\ GroupOf[k] = g)
    BY <1>2, <2>1, <2>3
  <2> QED
    BY <2>2, <2>3
<1>5. marks' \in [Children -> [Dates -> Status]]
  BY <1>2, <1>4
<1> QED
  BY <1>4, <1>5 DEF g, date

LEMMA AbsentMarks ==
    ASSUME AgendaTypeOK, NEW k \in Children, NEW date \in Dates, MarkAbsent(k, date)
    PROVE  /\ marks' \in [Children -> [Dates -> Status]]
           /\ \A j \in Children, d \in Dates :
                 marks'[j][d] = IF j = k /\ d = date THEN "ABSENT" ELSE marks[j][d]
<1>1. marks \in [Children -> [Dates -> Status]] /\ "ABSENT" \in Status
  BY DEF AgendaTypeOK, Status
<1>2. marks' = [marks EXCEPT ![k] = [marks[k] EXCEPT ![date] = "ABSENT"]]
  BY DEF MarkAbsent
<1> HIDE DEF Status
<1>3. [marks[k] EXCEPT ![date] = "ABSENT"] \in [Dates -> Status]
  BY <1>1
<1> QED
  BY <1>1, <1>2, <1>3

\* No step takes a mark back, and none changes an absence.
LEMMA MarksGrow ==
    ASSUME AgendaTypeOK, [AgendaNext]_agendaVars
    PROVE  /\ marks' \in [Children -> [Dates -> Status]]
           /\ \A k \in Children, d \in Dates :
                 /\ marks[k][d] = "ABSENT" => marks'[k][d] = "ABSENT"
                 /\ marks[k][d] # "none" => marks'[k][d] # "none"
<1>1. ASSUME NEW m \in Mornings, WriteLesson(m)
      PROVE  /\ marks' \in [Children -> [Dates -> Status]]
             /\ \A k \in Children, d \in Dates :
                   /\ marks[k][d] = "ABSENT" => marks'[k][d] = "ABSENT"
                   /\ marks[k][d] # "none" => marks'[k][d] # "none"
  BY <1>1, WriteMarks DEF MarkAttended
<1>2. ASSUME NEW k \in Children, NEW date \in Dates, MarkAbsent(k, date)
      PROVE  /\ marks' \in [Children -> [Dates -> Status]]
             /\ \A j \in Children, d \in Dates :
                   /\ marks[j][d] = "ABSENT" => marks'[j][d] = "ABSENT"
                   /\ marks[j][d] # "none" => marks'[j][d] # "none"
  BY <1>2, AbsentMarks
<1>3. CASE UNCHANGED marks
  BY <1>3 DEF AgendaTypeOK, Status
<1> QED
  BY <1>1, <1>2, <1>3 DEF AgendaNext, agendaVars, journalVars, StartMorning, CheckGroup, EndMorning,
                          MorningDies, ChangeEnrollment, Replan

LEMMA AgendaStepType ==
    ASSUME AgendaTypeOK, [AgendaNext]_agendaVars
    PROVE  AgendaTypeOK'
<1>1. marks' \in [Children -> [Dates -> Status]]
  BY MarksGrow
<1>2. TypeOK'
  <2>1. [Next]_vars
    BY DEF AgendaNext, agendaVars, StartMorning, CheckGroup, WriteLesson, EndMorning, MorningDies,
           ChangeEnrollment, MarkAbsent, Replan
  <2> QED
    BY <2>1, StepTypeOK DEF AgendaTypeOK
<1>3. ASSUME /\ enrolled' \subseteq Children
             /\ lessons' \subseteq Groups \X Dates
             /\ morning' \in [Mornings -> Execution]
             /\ \A m \in Mornings : morning'[m].pc = "write" => morning'[m].group \in Groups
             /\ disturbed' \in [Mornings -> BOOLEAN]
      PROVE  AgendaTypeOK'
  BY <1>1, <1>2, <1>3 DEF AgendaTypeOK, Execution, Status
<1>4. /\ enrolled \subseteq Children /\ lessons \subseteq Groups \X Dates
      /\ morning \in [Mornings -> Execution] /\ disturbed \in [Mornings -> BOOLEAN]
      /\ \A m \in Mornings : morning[m].pc = "write" => morning[m].group \in Groups
  BY DEF AgendaTypeOK, Execution
<1>5. ASSUME NEW m \in Mornings, StartMorning(m)
      PROVE  AgendaTypeOK'
  <2>1. PICK e \in Execution : e.pc = "next" /\ morning' = [morning EXCEPT ![m] = e]
    BY <1>5, StartEffect
  <2>2. disturbed' \in [Mornings -> BOOLEAN] /\ UNCHANGED <<enrolled, lessons>>
    BY <1>4, <1>5 DEF StartMorning
  <2> QED
    BY <1>3, <1>4, <2>1, <2>2, MorningTyped
<1>6. ASSUME NEW m \in Mornings, CheckGroup(m)
      PROVE  AgendaTypeOK'
  <2>1. PICK e \in Execution : /\ e.pc = "write" => e.group \in Groups
                               /\ morning' = [morning EXCEPT ![m] = e]
    BY <1>6, CheckEffect
  <2>2. UNCHANGED <<enrolled, lessons, disturbed>>
    BY <1>6 DEF CheckGroup
  <2> QED
    BY <1>3, <1>4, <2>1, <2>2, MorningTyped
<1>7. ASSUME NEW m \in Mornings, WriteLesson(m)
      PROVE  AgendaTypeOK'
  <2>1. PICK e \in Execution : e.pc = "next" /\ morning' = [morning EXCEPT ![m] = e]
    BY <1>7, WriteEffect
  <2>2. morning[m].group \in Groups /\ morning[m].date \in Dates
    BY <1>4, <1>7 DEF WriteLesson, Execution
  <2>3. lessons' \subseteq Groups \X Dates /\ UNCHANGED <<enrolled, disturbed>>
    BY <1>4, <1>7, <2>2 DEF WriteLesson
  <2> QED
    BY <1>3, <1>4, <2>1, <2>3, MorningTyped
<1>8. ASSUME NEW m \in Mornings, EndMorning(m) \/ MorningDies(m)
      PROVE  AgendaTypeOK'
  <2>1. morning' = [morning EXCEPT ![m] = IdleMorning] /\ UNCHANGED <<enrolled, lessons, disturbed>>
    BY <1>8 DEF EndMorning, MorningDies
  <2> QED
    BY <1>3, <1>4, <2>1, IdleTyped, MorningTyped
<1>9. ASSUME NEW k \in Children, ChangeEnrollment(k)
      PROVE  AgendaTypeOK'
  BY <1>3, <1>4, <1>9 DEF ChangeEnrollment, Disturb
<1>10. ASSUME NEW k \in Children, NEW d \in Dates, MarkAbsent(k, d)
       PROVE  AgendaTypeOK'
  BY <1>3, <1>4, <1>10 DEF MarkAbsent
<1>11. CASE Replan
  <2>1. disturbed' \in [Mornings -> BOOLEAN]
    BY <1>4, <1>11 DEF Replan, Disturb
  <2> QED
    BY <1>3, <1>4, <1>11, <2>1 DEF Replan, journalVars
<1>12. CASE UNCHANGED agendaVars
  BY <1>3, <1>4, <1>12 DEF agendaVars, journalVars
<1> QED
  BY <1>5, <1>6, <1>7, <1>8, <1>9, <1>10, <1>11, <1>12 DEF AgendaNext

\* Lessons, marks and executions of the morning task keep their types; an execution
\* about to write has a group (journal/services.py:22-60).
THEOREM AgendaTypeCorrect == AgendaSpec => []AgendaTypeOK
<1>1. AgendaTypeOK /\ [AgendaNext]_agendaVars => AgendaTypeOK'
  BY AgendaStepType
<1> QED
  BY <1>1, AgendaInitType, PTL DEF AgendaSpec

\* A mark set to absent is never overwritten, whichever executions of the morning
\* task overlap or repeat (journal/services.py:35-42).
THEOREM AbsencesAreKept == AgendaSpec => AbsenceIsKept
<1>1. AgendaTypeOK /\ [AgendaNext]_agendaVars =>
        [\A k \in Children, d \in Dates :
            marks[k][d] = "ABSENT" => marks'[k][d] = "ABSENT"]_agendaVars
  BY MarksGrow
<1> QED
  BY <1>1, AgendaTypeCorrect, PTL DEF AgendaSpec, AbsenceIsKept

-----------------------------------------------------------------------------
(* Agenda: the journal of a morning is complete *)

\* NothingIsSkipped after a step, with the date named.
LEMMA SkippedNext ==
    ASSUME AgendaTypeOK',
           \A m \in Mornings, date \in Dates, g \in Groups :
               /\ morning'[m].pc # "idle" /\ ~disturbed'[m] /\ date = morning'[m].date
               /\ g \in active' /\ grid'[g].day = DayOf(date) /\ IsLessonDay(g, date)'
               => g \in morning'[m].todo \/ Opened(g, date)'
    PROVE  NothingIsSkipped'
<1> SUFFICES ASSUME NEW m \in Mornings, morning'[m].pc # "idle", ~disturbed'[m], NEW g \in active',
                    grid'[g].day = DayOf(morning'[m].date), IsLessonDay(g, morning[m].date)'
             PROVE  g \in morning'[m].todo \/ Opened(g, morning[m].date)'
  BY DEF NothingIsSkipped
<1>1. PICK date : date = morning'[m].date
  OBVIOUS
<1>2. g \in Groups /\ date \in Dates
  BY <1>1 DEF AgendaTypeOK, TypeOK
<1>3. IsLessonDay(g, date)'
  BY <1>1 DEF IsLessonDay
<1>4. g \in morning'[m].todo \/ Opened(g, date)'
  BY <1>1, <1>2, <1>3
<1> QED
  BY <1>1, <1>4 DEF Opened

\* While the timetable and the enrollments stand, what an execution has opened stays
\* open and what it has ahead is ahead, unless it drops the group.
LEMMA SkippedFrame ==
    ASSUME AgendaInv, [AgendaNext]_agendaVars, UNCHANGED <<gridVars, masks, enrolled>>,
           lessons \subseteq lessons', NEW m \in Mornings, morning[m].pc # "idle", ~disturbed[m],
           NEW date \in Dates, date = morning[m].date, NEW g \in Groups,
           g \in active, grid[g].day = DayOf(date), IsLessonDay(g, date)'
    PROVE  IsLessonDay(g, date) /\ (g \in morning[m].todo \/ Opened(g, date)')
<1>1. IsLessonDay(g, date)
  BY DEF IsLessonDay, gridVars
<1>2. g \in morning[m].todo \/ Opened(g, date)
  BY <1>1 DEF AgendaInv, NothingIsSkipped
<1>3. Opened(g, date) => Opened(g, date)'
  <2>1. \A k \in enrolled : k \in Children
    BY DEF AgendaInv, AgendaTypeOK
  <2> QED
    BY <2>1, MarksGrow DEF AgendaInv, Opened
<1> QED
  BY <1>1, <1>2, <1>3

LEMMA StepSkipped ==
    ASSUME AgendaInv, [AgendaNext]_agendaVars
    PROVE  AgendaInv'
<1>1. AgendaTypeOK /\ AgendaTypeOK'
  BY AgendaStepType DEF AgendaInv
<1> SUFFICES ASSUME NEW m \in Mornings, NEW date \in Dates, NEW g \in Groups,
                    morning'[m].pc # "idle", ~disturbed'[m], date = morning'[m].date,
                    g \in active', grid'[g].day = DayOf(date), IsLessonDay(g, date)'
             PROVE  g \in morning'[m].todo \/ Opened(g, date)'
  BY <1>1, SkippedNext DEF AgendaInv
\* A step that is not one of this execution and does not disturb it.
<1>2. ASSUME UNCHANGED <<gridVars, masks, enrolled>>, lessons \subseteq lessons',
             morning'[m] = morning[m], disturbed'[m] = disturbed[m]
      PROVE  g \in morning'[m].todo \/ Opened(g, date)'
  <2>1. grid[g].day = DayOf(date) /\ g \in active /\ date = morning[m].date
    BY <1>2 DEF gridVars
  <2> QED
    BY <1>2, <2>1, SkippedFrame
<1>3. ASSUME NEW n \in Mornings, StartMorning(n)
      PROVE  g \in morning'[m].todo \/ Opened(g, date)'
  <2>1. PICK e \in Execution :
           /\ e.pc = "next" /\ e.date = today /\ morning' = [morning EXCEPT ![n] = e]
           /\ e.todo = {h \in active : grid[h].day = DayOf(today)}
    BY <1>1, <1>3, StartEffect
  <2>2. UNCHANGED <<gridVars, masks, enrolled, lessons>>
    BY <1>3 DEF StartMorning, vars
  <2>3. CASE n = m
    <3>1. morning'[m] = e
      BY <1>1, <2>1, <2>3, MorningTyped
    <3> QED
      BY <2>1, <2>2, <3>1 DEF gridVars
  <2>4. CASE n # m
    <3>1. morning'[m] = morning[m]
      BY <1>1, <2>1, <2>4, MorningTyped
    <3>2. disturbed'[m] = disturbed[m]
      BY <1>1, <1>3, <2>4 DEF StartMorning, AgendaTypeOK
    <3> QED
      BY <1>2, <2>2, <3>1, <3>2
  <2> QED
    BY <2>3, <2>4
<1>4. ASSUME NEW n \in Mornings, CheckGroup(n)
      PROVE  g \in morning'[m].todo \/ Opened(g, date)'
  <2>1. PICK e \in Execution :
           /\ morning' = [morning EXCEPT ![n] = e] /\ (e.pc = "write" => e.group \in Groups)
           /\ \/ e.pc = "idle"
              \/ /\ e.date = morning[n].date
                 /\ \A h \in morning[n].todo : h \in e.todo \/ ~IsLessonDay(h, e.date)
    BY <1>1, <1>4, CheckEffect
  <2>2. UNCHANGED <<gridVars, masks, enrolled, lessons, disturbed>> /\ morning[n].pc # "idle"
    BY <1>4 DEF CheckGroup, vars
  <2>3. CASE n = m
    <3>1. morning'[m] = e
      BY <1>1, <2>1, <2>3, MorningTyped
    <3>2. /\ e.date = morning[m].date
          /\ \A h \in morning[m].todo : h \in e.todo \/ ~IsLessonDay(h, date)
      BY <2>1, <2>3, <3>1
    <3>3. IsLessonDay(g, date) /\ (g \in morning[m].todo \/ Opened(g, date)')
      <4>1. grid[g].day = DayOf(date) /\ g \in active /\ date = morning[m].date /\ ~disturbed[m]
        BY <2>2, <3>1, <3>2 DEF gridVars
      <4> QED
        BY <2>2, <2>3, <4>1, SkippedFrame
    <3> QED
      BY <3>1, <3>2, <3>3
  <2>4. CASE n # m
    <3>1. morning'[m] = morning[m]
      BY <1>1, <2>1, <2>4, MorningTyped
    <3> QED
      BY <1>2, <2>2, <3>1
  <2> QED
    BY <2>3, <2>4
<1>5. ASSUME NEW n \in Mornings, WriteLesson(n)
      PROVE  g \in morning'[m].todo \/ Opened(g, date)'
  <2>1. PICK e \in Execution :
           /\ e.pc = "next" /\ e.date = morning[n].date /\ morning' = [morning EXCEPT ![n] = e]
           /\ e.todo = morning[n].todo \ {morning[n].group}
    BY <1>1, <1>5, WriteEffect
  <2>2. /\ UNCHANGED <<gridVars, masks, enrolled, disturbed>> /\ morning[n].pc # "idle"
        /\ lessons' = lessons \cup {<<morning[n].group, morning[n].date>>}
    BY <1>5 DEF WriteLesson, vars
  <2>3. CASE n = m
    <3>1. morning'[m] = e /\ e.date = date
      BY <1>1, <2>1, <2>3, MorningTyped
    <3>2. g \in morning[m].todo \/ Opened(g, date)'
      <4>1. grid[g].day = DayOf(date) /\ g \in active /\ date = morning[m].date /\ ~disturbed[m]
        BY <2>1, <2>2, <2>3, <3>1 DEF gridVars
      <4> QED
        BY <2>2, <2>3, <4>1, SkippedFrame
    <3>3. CASE g # morning[m].group
      BY <2>1, <2>3, <3>1, <3>2, <3>3
    <3>4. CASE g = morning[m].group
      <4>1. \A k \in enrolled : GroupOf[k] = g => marks'[k][date] = MarkAttended(marks[k][date])
        BY <1>1, <1>5, <2>1, <2>3, <3>1, <3>4, WriteMarks DEF AgendaTypeOK
      <4>2. <<g, date>> \in lessons'
        BY <2>1, <2>2, <2>3, <3>1, <3>4
      <4> QED
        BY <2>2, <4>1, <4>2 DEF Opened, MarkAttended
    <3> QED
      BY <3>3, <3>4
  <2>4. CASE n # m
    <3>1. morning'[m] = morning[m]
      BY <1>1, <2>1, <2>4, MorningTyped
    <3> QED
      BY <1>2, <2>2, <3>1
  <2> QED
    BY <2>3, <2>4
<1>6. ASSUME NEW n \in Mornings, EndMorning(n) \/ MorningDies(n)
      PROVE  g \in morning'[m].todo \/ Opened(g, date)'
  <2>1. /\ morning' = [morning EXCEPT ![n] = IdleMorning]
        /\ UNCHANGED <<gridVars, masks, enrolled, lessons, disturbed>>
    BY <1>6 DEF EndMorning, MorningDies, vars
  <2>2. n # m /\ morning'[m] = morning[m]
    BY <1>1, <2>1, IdleTyped, MorningTyped
  <2> QED
    BY <1>2, <2>1, <2>2
<1>7. ASSUME NEW k \in Children, ChangeEnrollment(k)
      PROVE  FALSE
  BY <1>7 DEF ChangeEnrollment, Disturb
<1>8. ASSUME NEW k \in Children, NEW d \in Dates, MarkAbsent(k, d)
      PROVE  g \in morning'[m].todo \/ Opened(g, date)'
  BY <1>2, <1>8 DEF MarkAbsent, vars
<1>9. CASE Replan
  <2>1. UNCHANGED <<gridVars, masks>> /\ disturbed' = disturbed
    BY <1>9 DEF Replan, Disturb
  <2> QED
    BY <1>2, <1>9, <2>1 DEF Replan, journalVars
<1>10. CASE UNCHANGED agendaVars
  BY <1>2, <1>10 DEF agendaVars, journalVars, vars
<1> QED
  BY <1>3, <1>4, <1>5, <1>6, <1>7, <1>8, <1>9, <1>10 DEF AgendaNext

\* A lesson that the public grid holds on its own day is a lesson day of the journal.
LEMMA HeldIsLessonDay ==
    ASSUME AgendaTypeOK, NEW g \in Groups, NEW date \in Dates, HeldOn(g, date), ~MovedAway(g, date)
    PROVE  grid[g].day = DayOf(date) /\ IsLessonDay(g, date)
<1> DEFINE week == WeekOf(date)
<1>1. week \in WeekStarts /\ grid[g].day \in Days
  BY DateSplits, RowTyped DEF AgendaTypeOK
<1>2. date = week + grid[g].day /\ MaskOf(g, week) # CANCELLATION
  BY DEF HeldOn, MovedAway, MovedIn
<1>3. grid[g].day = DayOf(date)
  <2> HIDE DEF week
  <2> QED
    BY <1>1, <1>2, WeekAndDay
<1> QED
  BY <1>2, <1>3 DEF IsLessonDay, MaskOf

\* A morning task that ends undisturbed has opened every lesson that the public grid
\* holds on its day, with a mark of every enrolled child (journal/services.py:22-60).
THEOREM MorningsAreComplete == AgendaSpec => MorningIsComplete
<1>1. AgendaInit => AgendaInv
  <2>1. AgendaInit => NothingIsSkipped
    BY IdleTyped DEF AgendaInit, NothingIsSkipped
  <2> QED
    BY <2>1, AgendaInitType DEF AgendaInv
<1>2. AgendaInv /\ [AgendaNext]_agendaVars => AgendaInv'
  BY StepSkipped
<1>3. ASSUME AgendaInv, NEW m \in Mornings, EndMorning(m), ~disturbed[m], NEW g \in Shown,
             HeldOn(g, morning[m].date), ~MovedAway(g, morning[m].date)
      PROVE  /\ <<g, morning[m].date>> \in lessons
             /\ \A k \in enrolled : GroupOf[k] = g => marks[k][morning[m].date] # "none"
  <2>1. g \in Groups /\ g \in active /\ morning[m].date \in Dates
    BY <1>3 DEF AgendaInv, AgendaTypeOK, TypeOK, Shown
  <2>2. grid[g].day = DayOf(morning[m].date) /\ IsLessonDay(g, morning[m].date)
    BY <1>3, <2>1, HeldIsLessonDay DEF AgendaInv
  <2>3. morning[m].pc = "next" /\ morning[m].todo = {}
    BY <1>3 DEF EndMorning
  <2>4. Opened(g, morning[m].date)
    BY <1>3, <2>1, <2>2, <2>3 DEF AgendaInv, NothingIsSkipped
  <2> QED
    BY <2>4 DEF Opened
<1>4. AgendaInv =>
        [\A m \in Mornings :
            EndMorning(m) /\ ~disturbed[m] =>
                \A g \in Shown :
                    HeldOn(g, morning[m].date) /\ ~MovedAway(g, morning[m].date) =>
                        /\ <<g, morning[m].date>> \in lessons
                        /\ \A k \in enrolled : GroupOf[k] = g => marks[k][morning[m].date] # "none"
          ]_agendaVars
  BY <1>3
<1> QED
  BY <1>1, <1>2, <1>4, PTL DEF AgendaSpec, MorningIsComplete

-----------------------------------------------------------------------------
(* Agenda: the feed and the public grid *)

\* An item of the feed is what the public grid shows of that week, but for the date
\* of a lesson moved to another day.
LEMMA ItemIsProjected ==
    ASSUME AgendaTypeOK, NEW k \in Children, NEW week \in WeekStarts
    PROVE  LET g == GroupOf[k] IN
           ItemOf(k, week + grid[g].day) =
              [date |-> week + grid[g].day,
               start |-> Projected(g, week).start, end |-> Projected(g, week).end]
<1> DEFINE g == GroupOf[k]
           mask == MaskOf(g, week)
<1>1. mask = masks[g][week + grid[g].day]
  BY DEF MaskOf
<1>2. CASE mask \in Overrides
  <2>1. Projected(g, week).start = mask.start /\ Projected(g, week).end = mask.end
    BY <1>2 DEF Projected, EffectiveSession
  <2>2. ItemOf(k, week + grid[g].day) =
           [date |-> week + grid[g].day, start |-> mask.start, end |-> mask.end]
    BY <1>1, <1>2, Zenon DEF ItemOf
  <2> QED
    BY <2>1, <2>2
<1>3. CASE mask \notin Overrides
  <2>1. Projected(g, week).start = grid[g].start /\ Projected(g, week).end = grid[g].end
    BY <1>3 DEF Projected, RegularSession
  <2>2. ItemOf(k, week + grid[g].day) =
           [date |-> week + grid[g].day, start |-> grid[g].start, end |-> grid[g].end]
    BY <1>1, <1>3, Zenon DEF ItemOf
  <2> QED
    BY <2>1, <2>2
<1> QED
  BY <1>2, <1>3

LEMMA FeedIsGrid == AgendaTypeOK => FeedMatchesGrid
<1> SUFFICES ASSUME AgendaTypeOK, NEW k \in enrolled, GroupOf[k] \in Shown
             PROVE  {item \in Feed(k) : ~MovedAway(GroupOf[k], item.date)} =
                    {GridItem(GroupOf[k], week) : week \in {w \in WeekStarts :
                        /\ MaskOf(GroupOf[k], w) # CANCELLATION
                        /\ ~MovedIn(GroupOf[k], w) /\ Projected(GroupOf[k], w).date >= today}}
  BY DEF FeedMatchesGrid
<1> DEFINE g == GroupOf[k]
           day == grid[g].day
           FeedDays == {d \in Dates : d >= today /\ day = DayOf(d) /\ masks[g][d] # CANCELLATION}
           GridWeeks == {w \in WeekStarts : /\ MaskOf(g, w) # CANCELLATION
                                            /\ ~MovedIn(g, w) /\ Projected(g, w).date >= today}
<1>1. k \in Children /\ g \in Groups /\ day \in Days /\ g \in active
  BY RowTyped, ShownTyped DEF AgendaTypeOK, Shown
<1>2. Feed(k) = {ItemOf(k, d) : d \in FeedDays}
  BY <1>1 DEF Feed
<1>3. ASSUME NEW w \in WeekStarts, ~MovedIn(g, w)
      PROVE  ItemOf(k, w + day) = GridItem(g, w) /\ Projected(g, w).date = w + day
  BY <1>1, <1>3, ItemIsProjected DEF MovedIn, GridItem
<1>4. ASSUME NEW d \in FeedDays, ~MovedAway(g, ItemOf(k, d).date)
      PROVE  \E w \in GridWeeks : ItemOf(k, d) = GridItem(g, w)
  <2>1. WeekOf(d) \in WeekStarts /\ d = WeekOf(d) + day
    BY <1>4, DateSplits
  <2>2. ItemOf(k, d).date = d
    BY DEF ItemOf
  <2>3. ~MovedIn(g, WeekOf(d))
    BY <1>4, <2>2 DEF MovedAway
  <2>4. ItemOf(k, d) = GridItem(g, WeekOf(d)) /\ Projected(g, WeekOf(d)).date = d
    BY <1>3, <2>1, <2>3
  <2>5. WeekOf(d) \in GridWeeks
    BY <1>4, <2>1, <2>3, <2>4 DEF MaskOf
  <2> QED
    BY <2>4, <2>5
<1>5. ASSUME NEW w \in GridWeeks
      PROVE  \E d \in FeedDays : GridItem(g, w) = ItemOf(k, d) /\ ~MovedAway(g, ItemOf(k, d).date)
  <2>1. ItemOf(k, w + day) = GridItem(g, w) /\ Projected(g, w).date = w + day
    BY <1>3, <1>5
  <2>2. w + day \in Dates /\ DayOf(w + day) = day /\ WeekOf(w + day) = w
    BY <1>1, <1>5, WeekAndDay
  <2>3. w + day \in FeedDays
    BY <1>5, <2>1, <2>2 DEF MaskOf
  <2>4. ItemOf(k, w + day).date = w + day
    BY DEF ItemOf
  <2>5. ~MovedAway(g, ItemOf(k, w + day).date)
    BY <1>5, <2>2, <2>4 DEF MovedAway
  <2> QED
    BY <2>1, <2>3, <2>5
<1> HIDE DEF day, FeedDays, GridWeeks, g
<1>6. {item \in {ItemOf(k, d) : d \in FeedDays} : ~MovedAway(g, item.date)} =
      {GridItem(g, w) : w \in GridWeeks}
  BY <1>4, <1>5, Zenon
<1> QED
  BY <1>2, <1>6 DEF GridWeeks, g

\* Apart from lessons moved to another day, the feed of a parent's account shows the
\* lessons of the public grid with its dates and times, whatever is rescheduled,
\* cancelled or edited (me/services.py:138-202).
THEOREM FeedAgreesWithGrid == AgendaSpec => []FeedMatchesGrid
  BY FeedIsGrid, AgendaTypeCorrect, PTL

=============================================================================
