------------------------------- MODULE Agenda -------------------------------
(***************************************************************************)
(* The journal of the day (apps/journal) and the feed of a parent's        *)
(* account (build_upcoming_feed of apps/me), next to the timetable they    *)
(* are computed from.  Every step of ScheduleMasks is a step here: a       *)
(* lesson is cancelled or moved, and the grid is edited, while the morning *)
(* task opens the lessons of the day.                                      *)
(*                                                                         *)
(* materialize_today_lessons reads the date and the groups of the weekday  *)
(* once; open_lesson then reads a group and its mask outside any           *)
(* transaction, and writes the lesson and the marks in a later one.  The   *)
(* task may be delivered twice and its worker may die.                     *)
(***************************************************************************)
EXTENDS ScheduleMasks

CONSTANTS
    Children,   \* Enrollment rows
    GroupOf,    \* their groups
    Mornings    \* executions of materialize_today_lessons_task that may overlap

ASSUME AgendaAssumption == GroupOf \in [Children -> Groups]

VARIABLES
    enrolled,   \* enrollments with status ENROLLED
    lessons,    \* Lesson rows: pairs of a group and a date
    marks,      \* Attendance.status by enrollment and date, "none" without a row
    morning,    \* executions: [pc, date, todo, group]
    disturbed   \* history: the timetable or the enrollments changed since the start

journalVars == <<enrolled, lessons, marks, morning>>
agendaVars == <<vars, journalVars, disturbed>>

-----------------------------------------------------------------------------

IdleMorning == [pc |-> "idle", date |-> 0, todo |-> {}, group |-> None]

AgendaTypeOK ==
    /\ TypeOK
    /\ enrolled \subseteq Children
    /\ lessons \subseteq Groups \X Dates
    /\ marks \in [Children -> [Dates -> {"none", "ATTENDED", "ABSENT"}]]
    /\ morning \in [Mornings -> [pc : {"idle", "next", "write"}, date : Dates,
                                 todo : SUBSET Groups, group : Groups \cup {None}]]
    /\ \A m \in Mornings : morning[m].pc = "write" => morning[m].group \in Groups
    /\ disturbed \in [Mornings -> BOOLEAN]

AgendaInit ==
    /\ Init
    /\ enrolled = Children
    /\ lessons = {}
    /\ marks = [k \in Children |-> [d \in Dates |-> "none"]]
    /\ morning = [m \in Mornings |-> IdleMorning]
    /\ disturbed = [m \in Mornings |-> FALSE]

-----------------------------------------------------------------------------
(* The morning task *)

\* The schedules of today's weekday.
StartMorning(m) ==
    /\ morning[m].pc = "idle"
    /\ morning' = [morning EXCEPT ![m] =
          [pc |-> "next", date |-> today, group |-> None,
           todo |-> {g \in active : grid[g].day = DayOf(today)}]]
    /\ disturbed' = [disturbed EXCEPT ![m] = FALSE]
    /\ UNCHANGED <<vars, enrolled, lessons, marks>>

\* Mutant: any mask on the date takes the lesson off it.
IsLessonDay_AnyMask(g, date) == masks[g][date] = NoMask /\ grid[g].day = DayOf(date)

\* _is_lesson_day: a mask decides, whatever day it moves the lesson to.
IsLessonDay(g, date) ==
    IF masks[g][date] # NoMask THEN masks[g][date] # CANCELLATION
    ELSE grid[g].day = DayOf(date)

\* open_lesson up to its transaction.  A group switched off since it was listed
\* raises DoesNotExist, which ends the whole task; a date without a lesson is
\* skipped.
CheckGroup(m) ==
    LET task == morning[m] IN
    /\ task.pc = "next"
    /\ \E g \in task.todo :
        morning' = [morning EXCEPT ![m] =
            CASE g \notin active -> IdleMorning
              [] g \in active /\ ~IsLessonDay(g, task.date) ->
                    [task EXCEPT !.todo = task.todo \ {g}]
              [] OTHER -> [task EXCEPT !.pc = "write", !.group = g]]
    /\ UNCHANGED <<vars, enrolled, lessons, marks, disturbed>>

\* Mutant: update_or_create in place of get_or_create.
MarkAttended_Overwrite(old) == "ATTENDED"

\* get_or_create of the attendance: ATTENDED unless a row is there.
MarkAttended(old) == IF old = "none" THEN "ATTENDED" ELSE old

\* The transaction of open_lesson: the lesson and the marks of the enrolled.
WriteLesson(m) ==
    LET g == morning[m].group  d == morning[m].date IN
    /\ morning[m].pc = "write"
    /\ lessons' = lessons \cup {<<g, d>>}
    /\ marks' = [k \in Children |->
                    IF k \in enrolled /\ GroupOf[k] = g
                    THEN [marks[k] EXCEPT ![d] = MarkAttended(@)] ELSE marks[k]]
    /\ morning' = [morning EXCEPT ![m].pc = "next", ![m].group = None,
                                  ![m].todo = @ \ {g}]
    /\ UNCHANGED <<vars, enrolled, disturbed>>

EndMorning(m) ==
    /\ morning[m].pc = "next" /\ morning[m].todo = {}
    /\ morning' = [morning EXCEPT ![m] = IdleMorning]
    /\ UNCHANGED <<vars, enrolled, lessons, marks, disturbed>>

\* The worker dies; what is committed stays, the task is delivered again.
MorningDies(m) ==
    /\ morning[m].pc # "idle"
    /\ morning' = [morning EXCEPT ![m] = IdleMorning]
    /\ UNCHANGED <<vars, enrolled, lessons, marks, disturbed>>

-----------------------------------------------------------------------------
(* Everybody else *)

\* The teacher takes the absent off (Tokens says what becomes of their tokens).
MarkAbsent(k, d) ==
    /\ marks[k][d] = "ATTENDED"
    /\ marks' = [marks EXCEPT ![k][d] = "ABSENT"]
    /\ UNCHANGED <<vars, enrolled, lessons, morning, disturbed>>

Disturb == disturbed' = [m \in Mornings |-> TRUE]

\* A subscription ends, or another is bought.
ChangeEnrollment(k) ==
    /\ enrolled' = IF k \in enrolled THEN enrolled \ {k} ELSE enrolled \cup {k}
    /\ Disturb
    /\ UNCHANGED <<vars, lessons, marks, morning>>

\* A step of the timetable.
Replan ==
    /\ Next
    /\ IF UNCHANGED <<gridVars, masks>> THEN UNCHANGED disturbed ELSE Disturb
    /\ UNCHANGED journalVars

AgendaNext ==
    \/ \E m \in Mornings : StartMorning(m) \/ CheckGroup(m) \/ WriteLesson(m) \/ EndMorning(m)
                           \/ MorningDies(m)
    \/ \E k \in Children : ChangeEnrollment(k) \/ \E d \in Dates : MarkAbsent(k, d)
    \/ Replan

AgendaSpec == AgendaInit /\ [][AgendaNext]_agendaVars

-----------------------------------------------------------------------------
(* The feed *)

\* Mutant: the feed shows the times of the weekly grid for a moved lesson.
ItemOf_RegularTimes(k, day) ==
    [date |-> day, start |-> grid[GroupOf[k]].start, end |-> grid[GroupOf[k]].end]

\* One item of the feed: the day of the weekly grid, the times of the mask if it
\* moves the lesson.
ItemOf(k, day) ==
    LET mask == masks[GroupOf[k]][day]
        times == IF mask \in Overrides THEN mask ELSE grid[GroupOf[k]] IN
    [date |-> day, start |-> times.start, end |-> times.end]

\* build_upcoming_feed for one enrollment, over the days from today on.
Feed(k) ==
    IF k \notin enrolled \/ GroupOf[k] \notin active THEN {}
    ELSE {ItemOf(k, day) : day \in {d \in Dates : /\ d >= today
                                                   /\ grid[GroupOf[k]].day = DayOf(d)
                                                   /\ masks[GroupOf[k]][d] # CANCELLATION}}

-----------------------------------------------------------------------------
(* Properties *)

\* A mark that the teacher set to absent stays so: neither a repeated delivery of
\* the morning task nor a second one at work overwrites it (journal/services.py:35-42).
AbsenceIsKept ==
    [][\A k \in Children, d \in Dates :
        marks[k][d] = "ABSENT" => marks'[k][d] = "ABSENT"]_agendaVars

\* The lesson of a group in the week of a date is held on that date according to
\* the public grid (build_week_grid).
HeldOn(g, date) ==
    LET week == WeekOf(date) IN
    MaskOf(g, week) # CANCELLATION /\ Projected(g, week).date = date

\* A mask moves the lesson of the week to another day: neither the journal nor the
\* feed follows it there, the public grid does.
MovedIn(g, week) == Projected(g, week).date # week + grid[g].day

MovedAway(g, date) == MovedIn(g, WeekOf(date))

\* A morning task that ends, with the timetable unchanged since it began, leaves a
\* lesson and a mark of every enrolled child for every group that the public grid
\* shows that day (journal/tasks.py:9-10: the journal of the day is ready before the
\* first lesson), except lessons moved to it from another day.
MorningIsComplete ==
    [][\A m \in Mornings :
        EndMorning(m) /\ ~disturbed[m] =>
            \A g \in Shown :
                HeldOn(g, morning[m].date) /\ ~MovedAway(g, morning[m].date) =>
                    /\ <<g, morning[m].date>> \in lessons
                    /\ \A k \in enrolled : GroupOf[k] = g => marks[k][morning[m].date] # "none"
      ]_agendaVars

\* What the public grid shows of a group in a week, in the form of the feed.
GridItem(g, week) ==
    LET session == Projected(g, week) IN
    [date |-> session.date, start |-> session.start, end |-> session.end]

\* A parent's feed and the public grid, computed by different code from the same
\* rows, show the same lessons on the same dates at the same times, as the comment
\* of the feed says (me/services.py:141-142, "как в публичной сетке").  That does
\* not hold of a lesson moved to another day, which is left out on both sides: the
\* feed gives its new times on its old date, the grid shows it on the new one.
FeedMatchesGrid ==
    \A k \in enrolled :
        LET g == GroupOf[k] IN
        g \in Shown =>
            {item \in Feed(k) : ~MovedAway(g, item.date)} =
            {GridItem(g, week) : week \in {w \in WeekStarts :
                /\ MaskOf(g, w) # CANCELLATION
                /\ ~MovedIn(g, w) /\ Projected(g, w).date >= today}}

-----------------------------------------------------------------------------
(* The inductive invariant *)

\* The lesson is in the journal with a mark of every child enrolled now.
Opened(g, date) ==
    /\ <<g, date>> \in lessons
    /\ \A k \in enrolled : GroupOf[k] = g => marks[k][date] # "none"

\* An undisturbed execution has opened the lessons of its date or has them ahead.
NothingIsSkipped ==
    \A m \in Mornings : morning[m].pc # "idle" /\ ~disturbed[m] =>
        \A g \in active :
            LET date == morning[m].date IN
            grid[g].day = DayOf(date) /\ IsLessonDay(g, date)
                => g \in morning[m].todo \/ Opened(g, date)

AgendaInv == AgendaTypeOK /\ NothingIsSkipped

=============================================================================
