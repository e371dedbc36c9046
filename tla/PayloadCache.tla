---------------------------- MODULE PayloadCache ----------------------------
(***************************************************************************)
(* The payload cache of the public site: cached_payload (apps/core), the   *)
(* pages of apps/public_api/views.py and the signal receivers of           *)
(* apps/public_api/signals.py that delete entries when a model is saved.   *)
(*                                                                         *)
(* Pages share no cache key, so a behaviour follows one page, chosen at    *)
(* the start, under all kinds of edits.  What matters of a payload is how  *)
(* far it is behind: "lag" is 0 for a payload that has every commit the    *)
(* page reads, else 1 + the ticks since the first commit it lacks.         *)
(***************************************************************************)
EXTENDS Naturals

CONSTANTS
    Activities,
    None,
    Editors,         \* processes that save models
    Visitors,        \* requests of the page
    ShowcaseTtl,     \* CACHE_TTL_SHOWCASE_SECONDS
    EventsTtl,       \* CACHE_TTL_EVENTS_SECONDS
    MaxProduce       \* how long produce() and cache.set may take

ASSUME PayloadCacheAssumption ==
    /\ None \notin Activities
    /\ ShowcaseTtl \in Nat \ {0} /\ EventsTtl \in Nat \ {0} /\ MaxProduce \in Nat

-----------------------------------------------------------------------------
(* Pages, models, and who reads and drops what *)

Page(view) == [view |-> view, activity |-> None]
Detail(a) == [view |-> "activity_detail", activity |-> a]
Details == {Detail(a) : a \in Activities}

Pages == Details \cup
    {Page(v) : v \in {"activities", "activities_popular", "teachers", "gallery", "plans", "events"}}

TtlOf(p) == IF p.view = "events" THEN EventsTtl ELSE ShowcaseTtl

\* An edit of a row: "old" and "new" are the activity it belonged and belongs to.
Edit(m, a, b) == [model |-> m, old |-> a, new |-> b]
Edits ==
    {Edit("Activity", a, a) : a \in Activities}
    \cup {Edit("Schedule", a, b) : a, b \in Activities}
    \cup {Edit("Enrollment", a, a) : a \in Activities}
    \cup {Edit(m, None, None) : m \in {"TeacherProfile", "Parent", "TimeSlot", "GalleryImage",
                                       "Event", "SubscriptionPlan"}}

\* The models a page reads.  The popular activities are ranked by their enrollments;
\* an activity's page shows its groups with their free places, times (copied from
\* the time slot by a trigger) and teachers, named by their Parent rows; a
\* teacher's card names the activities.
CardReads == {"Activity", "Schedule", "Enrollment"}
DetailReads == CardReads \cup {"TimeSlot", "TeacherProfile", "Parent"}
TeacherReads == {"TeacherProfile", "Parent", "Schedule", "Activity"}
Reads(p) ==
    CASE p.view = "activities_popular" -> CardReads
      [] p.view \in {"activities", "activity_detail"} -> DetailReads
      [] p.view = "teachers" -> TeacherReads
      [] p.view = "gallery" -> {"GalleryImage"}
      [] p.view = "plans" -> {"SubscriptionPlan"}
      [] p.view = "events" -> {"Event"}

\* The pages whose payload an edit changes.
Touches(k) ==
    {p \in Pages : /\ k.model \in Reads(p)
                   /\ p \in Details /\ k.new # None => p.activity \in {k.old, k.new}}

\* _invalidate_activity_pages
ActivityPages(a) == {Page("activities"), Page("activities_popular"), Detail(a)}

\* Mutant: the receiver of Schedule forgets the cards of the teachers.
Drops_NoTeachers(k) ==
    CASE k.model \in {"Activity", "Schedule"} -> ActivityPages(k.new)
      [] k.model = "TeacherProfile" -> {Page("teachers"), Page("activities")}
      [] k.model = "GalleryImage" -> {Page("gallery")}
      [] k.model = "Event" -> {Page("events")}
      [] k.model = "SubscriptionPlan" -> {Page("plans")}
      [] OTHER -> {}

\* The entries the receiver of the model deletes; Parent, TimeSlot and Enrollment
\* have none.
Drops(k) ==
    CASE k.model = "Activity" -> ActivityPages(k.new)
      [] k.model = "Schedule" -> ActivityPages(k.new) \cup {Page("teachers")}
      [] k.model = "TeacherProfile" -> {Page("teachers"), Page("activities")}
      [] k.model = "GalleryImage" -> {Page("gallery")}
      [] k.model = "Event" -> {Page("events")}
      [] k.model = "SubscriptionPlan" -> {Page("plans")}
      [] OTHER -> {}

-----------------------------------------------------------------------------

VARIABLES
    page,      \* the page this behaviour follows
    entry,     \* its cache entry: [left, lag], left = 0 if there is none
    visit,     \* requests: [pc, lag, spent]
    edit,      \* saves: [pc, kind]
    quiet      \* history: no request has been producing since an editor's save

vars == <<page, entry, visit, edit, quiet>>

MaxLag == ShowcaseTtl + EventsTtl + MaxProduce + 2     \* bound on the history
NoEntry == [left |-> 0, lag |-> 0]
IdleVisit == [pc |-> "idle", lag |-> 0, spent |-> 0]
NoEdit == Edit("none", None, None)
IdleEdit == [pc |-> "idle", kind |-> NoEdit]
Older(lag) == IF lag \in {0, MaxLag} THEN lag ELSE lag + 1

TypeOK ==
    /\ page \in Pages
    /\ entry \in [left : 0..TtlOf(page), lag : 0..MaxLag]
    /\ visit \in [Visitors -> [pc : {"idle", "miss", "store"}, lag : 0..MaxLag,
                               spent : 0..MaxProduce]]
    /\ edit \in [Editors -> [pc : {"idle", "open", "signal"}, kind : Edits \cup {NoEdit}]]
    /\ quiet \in [Editors -> BOOLEAN]

Init ==
    /\ page \in Pages
    /\ entry = NoEntry
    /\ visit = [v \in Visitors |-> IdleVisit]
    /\ edit = [e \in Editors |-> IdleEdit]
    /\ quiet = [e \in Editors |-> TRUE]

-----------------------------------------------------------------------------
(* cached_payload *)

\* cache.get finds nothing: produce() is called.  (A hit serves the entry as it is.)
Miss(v) ==
    /\ visit[v].pc = "idle" /\ entry.left = 0
    /\ visit' = [visit EXCEPT ![v].pc = "miss"]
    /\ quiet' = [e \in Editors |-> FALSE]
    /\ UNCHANGED <<page, entry, edit>>

\* The first query of produce(): from here on the payload lacks later commits.
Query(v) ==
    /\ visit[v].pc = "miss"
    /\ visit' = [visit EXCEPT ![v] = [pc |-> "store", lag |-> 0, spent |-> 0]]
    /\ UNCHANGED <<page, entry, edit, quiet>>

\* Mutant: the entry is stored with no timeout of its own and outlives the TTL.
TimeToLive_Longer == TtlOf(page) + 1

TimeToLive == TtlOf(page)

\* cache.set of a 200: it overwrites whatever is there.
Store(v) ==
    /\ visit[v].pc = "store"
    /\ entry' = [left |-> TimeToLive, lag |-> visit[v].lag]
    /\ visit' = [visit EXCEPT ![v] = IdleVisit]
    /\ UNCHANGED <<page, edit, quiet>>

\* The answer is not 200 (a hidden activity is 404), or produce() raises.
NotStored(v) ==
    /\ visit[v].pc \in {"miss", "store"}
    /\ visit' = [visit EXCEPT ![v] = IdleVisit]
    /\ UNCHANGED <<page, entry, edit, quiet>>

-----------------------------------------------------------------------------
(* Saves *)

\* The receiver of post_save or post_delete.
Delete(k) == IF page \in Drops(k) THEN NoEntry ELSE entry

\* A commit that the page reads: what was read before lacks it.
Behind(payload, k) ==
    IF page \in Touches(k) /\ payload.lag = 0 THEN [payload EXCEPT !.lag = 1] ELSE payload
NoOneProduces == \A v \in Visitors : visit[v].pc = "idle"
Committed(k) ==
    visit' = [v \in Visitors |-> IF visit[v].pc = "store" THEN Behind(visit[v], k) ELSE visit[v]]

\* A save or a delete inside a transaction (every form of the admin): the signal
\* is sent, and the entry deleted, before the commit.
SaveInTransaction(e) ==
    /\ edit[e].pc = "idle"
    /\ \E k \in Edits :
        /\ edit' = [edit EXCEPT ![e] = [pc |-> "open", kind |-> k]]
        /\ entry' = Delete(k)
    /\ quiet' = [quiet EXCEPT ![e] = NoOneProduces]
    /\ UNCHANGED <<page, visit>>

Commit(e) ==
    /\ edit[e].pc = "open"
    /\ Committed(edit[e].kind)
    /\ entry' = IF entry.left = 0 THEN entry ELSE Behind(entry, edit[e].kind)
    /\ edit' = [edit EXCEPT ![e] = IdleEdit]
    /\ UNCHANGED <<page, quiet>>

Rollback(e) ==
    /\ edit[e].pc = "open"
    /\ edit' = [edit EXCEPT ![e] = IdleEdit]
    /\ UNCHANGED <<page, entry, visit, quiet>>

\* A save outside a transaction: the row is committed, then the signal is sent.
SaveAutocommit(e) ==
    /\ edit[e].pc = "idle"
    /\ \E k \in Edits :
        /\ edit' = [edit EXCEPT ![e] = [pc |-> "signal", kind |-> k]]
        /\ Committed(k)
        /\ entry' = IF entry.left = 0 THEN entry ELSE Behind(entry, k)
    /\ quiet' = [quiet EXCEPT ![e] = NoOneProduces]
    /\ UNCHANGED page

Signal(e) ==
    /\ edit[e].pc = "signal"
    /\ entry' = Delete(edit[e].kind)
    /\ edit' = [edit EXCEPT ![e] = IdleEdit]
    /\ UNCHANGED <<page, visit, quiet>>

\* QuerySet.update sends no signal; nor does a process that dies before it.
NoSignal(e) ==
    /\ edit[e].pc = "signal"
    /\ edit' = [edit EXCEPT ![e] = IdleEdit]
    /\ UNCHANGED <<page, entry, visit, quiet>>

-----------------------------------------------------------------------------

\* Time passes; a request does not produce for longer than MaxProduce.
Tick ==
    /\ \A v \in Visitors : visit[v].pc = "store" => visit[v].spent < MaxProduce
    /\ entry' = IF entry.left <= 1 THEN NoEntry
                ELSE [left |-> entry.left - 1, lag |-> Older(entry.lag)]
    /\ visit' = [v \in Visitors |->
                    IF visit[v].pc = "store"
                    THEN [visit[v] EXCEPT !.spent = @ + 1, !.lag = Older(@)]
                    ELSE visit[v]]
    /\ UNCHANGED <<page, edit, quiet>>

Next ==
    \/ \E v \in Visitors : Miss(v) \/ Query(v) \/ Store(v) \/ NotStored(v)
    \/ \E e \in Editors : SaveInTransaction(e) \/ Commit(e) \/ Rollback(e)
                          \/ SaveAutocommit(e) \/ Signal(e) \/ NoSignal(e)
    \/ Tick

Spec == Init /\ [][Next]_vars

-----------------------------------------------------------------------------
(* Properties *)

\* No page is served that lacks a commit older than its TTL plus the time one
\* request needs to produce it, whatever the receivers miss and whichever
\* producer stores after an invalidation (caching.py:43-49, signals.py:3,
\* "TTL остаётся страховкой").
StalenessBounded ==
    entry.left > 0 => entry.lag <= TtlOf(page) + MaxProduce

\* What the receivers of signals.py leave to the TTL, although docs/admin.md:7 says
\* that every edit is seen at once: places, names and times that come from
\* Enrollment, Parent and TimeSlot, the activities on a teacher's card, the teachers
\* on an activity's page, and the page of the activity a group was moved away from.
LeftToTtl(p, k) ==
    \/ k.model \in {"Enrollment", "Parent", "TimeSlot"}
    \/ k.model = "Activity" /\ p = Page("teachers")
    \/ k.model = "TeacherProfile" /\ p \in Details
    \/ k.model = "Schedule" /\ p = Detail(k.old) /\ k.old # k.new

\* When a save ends and nobody was producing the page since it began, visitors see
\* the edit at once on every other page it changes, although the entry is deleted
\* before the commit (signals.py:21-77, caching.py:23-24).
QuietEditIsVisible ==
    [][\A e \in Editors :
        LET k == edit[e].kind IN
        /\ (Commit(e) /\ quiet[e]) \/ Signal(e)
        /\ page \in Touches(k) /\ ~LeftToTtl(page, k)
        => entry'.left = 0]_vars

-----------------------------------------------------------------------------
(* The inductive invariant *)

\* A payload lacks nothing that was committed before its first query.
PayloadsAreYoung ==
    \A v \in Visitors : visit[v].pc = "store" => visit[v].lag <= visit[v].spent + 1

\* What an entry has aged since it was stored is what its timeout has lost.
EntryIsYoung ==
    entry.left > 0 => entry.lag + entry.left <= TtlOf(page) + MaxProduce + 1

\* While a save is open and nobody has produced the page since it began, the entry
\* it deleted stays away.
QuietIsUncached ==
    \A e \in Editors :
        edit[e].pc = "open" /\ quiet[e] /\ page \in Drops(edit[e].kind)
            => entry.left = 0 /\ NoOneProduces

IInv ==
    /\ TypeOK
    /\ PayloadsAreYoung
    /\ EntryIsYoung
    /\ QuietIsUncached

=============================================================================
