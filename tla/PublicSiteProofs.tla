--------------------------- MODULE PublicSiteProofs ---------------------------
(***************************************************************************)
(* Proofs for the two parts of the public site.  PayloadCache: for any     *)
(* activities, visitors, editors and timeouts, what the site serves is     *)
(* behind by at most its TTL and one production, and a quiet edit is seen  *)
(* at once where a receiver covers it.  TaskDelivery: for any jobs,        *)
(* workers, retry budgets and number of dead workers, an accepted          *)
(* application is not lost while its message lives, and retries do not     *)
(* multiply.                                                               *)
(***************************************************************************)
EXTENDS PayloadCache, TaskDelivery, FiniteSetTheorems, TLAPS

USE PayloadCacheAssumption, TaskDeliveryAssumption

(***************************************************************************)
(* PayloadCache                                                            *)
(***************************************************************************)

LEMMA TtlNat ==
    ASSUME NEW p PROVE TtlOf(p) \in Nat \ {0}
  BY DEF TtlOf

LEMMA MaxLagNat ==
    /\ MaxLag \in Nat
    /\ MaxProduce + 1 <= MaxLag
    /\ 1 <= MaxLag
  BY DEF MaxLag

\* Ageing adds at most one tick to a lag, and keeps it under the bound.
LEMMA OlderIs ==
    ASSUME NEW lag \in 0..MaxLag
    PROVE  Older(lag) \in 0..MaxLag /\ Older(lag) <= lag + 1
  BY MaxLagNat DEF Older

\* A commit leaves a payload as it was, or behind by one.
LEMMA BehindIs ==
    ASSUME NEW S, NEW k, NEW payload \in [left : S, lag : 0..MaxLag]
    PROVE  /\ Behind(payload, k) \in [left : S, lag : 0..MaxLag]
           /\ Behind(payload, k).left = payload.left
           /\ Behind(payload, k).lag \in {payload.lag, 1}
  BY MaxLagNat DEF Behind

Visit == [pc : {"idle", "miss", "store"}, lag : 0..MaxLag, spent : 0..MaxProduce]

LEMMA BehindVisit ==
    ASSUME NEW k, NEW payload \in Visit
    PROVE  /\ Behind(payload, k) \in Visit
           /\ Behind(payload, k).pc = payload.pc
           /\ Behind(payload, k).spent = payload.spent
           /\ Behind(payload, k).lag \in {payload.lag, 1}
  BY MaxLagNat DEF Behind, Visit

-----------------------------------------------------------------------------
(* Who reads and who drops *)

\* The receivers drop every page an edit changes, but for what they leave to the
\* TTL (signals.py:21-77 against the queries of views.py).
LEMMA ReceiversCover ==
    ASSUME NEW k \in Edits \cup {NoEdit}, NEW p \in Touches(k), ~LeftToTtl(p, k)
    PROVE  p \in Drops(k)
<1>0. p \in Pages /\ k.model \in Reads(p)
      /\ (p \in Details /\ k.new # None => p.activity \in {k.old, k.new})
  BY DEF Touches
<1>1. CASE k = NoEdit
  <2>1. k.model = "none"
    BY <1>1 DEF NoEdit, Edit
  <2> QED
    BY <1>0, <2>1 DEF Pages, Details, Detail, Page, Reads, CardReads, DetailReads, TeacherReads
<1>2. ASSUME NEW a \in Activities, k = Edit("Activity", a, a) PROVE p \in Drops(k)
  <2>1. k.model = "Activity" /\ k.old = a /\ k.new = a /\ a # None
    BY <1>2 DEF Edit
  <2>2. Drops(k) = ActivityPages(a)
    BY <2>1 DEF Drops
  <2>3. p # Page("teachers")
    BY <2>1 DEF LeftToTtl
  <2> QED
    BY <1>0, <2>1, <2>2, <2>3 DEF ActivityPages, Pages, Details, Detail, Page, Reads, CardReads,
       DetailReads, TeacherReads
<1>3. ASSUME NEW a \in Activities, NEW b \in Activities, k = Edit("Schedule", a, b)
      PROVE  p \in Drops(k)
  <2>1. k.model = "Schedule" /\ k.old = a /\ k.new = b /\ b # None
    BY <1>3 DEF Edit
  <2>2. Drops(k) = ActivityPages(b) \cup {Page("teachers")}
    BY <2>1 DEF Drops
  <2>3. ~(p = Detail(a) /\ a # b)
    BY <2>1 DEF LeftToTtl
  <2> QED
    BY <1>0, <2>1, <2>2, <2>3 DEF ActivityPages, Pages, Details, Detail, Page, Reads, CardReads,
       DetailReads, TeacherReads
<1>4. CASE k.model \in {"Enrollment", "Parent", "TimeSlot"}
  BY <1>4 DEF LeftToTtl
<1>5. ASSUME NEW m \in {"TeacherProfile", "GalleryImage", "Event", "SubscriptionPlan"},
             k = Edit(m, None, None)
      PROVE  p \in Drops(k)
  <2>1. k.model = m
    BY <1>5 DEF Edit
  <2>2. Drops(k) = CASE m = "TeacherProfile" -> {Page("teachers"), Page("activities")}
                     [] m = "GalleryImage" -> {Page("gallery")}
                     [] m = "Event" -> {Page("events")}
                     [] m = "SubscriptionPlan" -> {Page("plans")}
    BY <2>1 DEF Drops
  <2>3. m = "TeacherProfile" => p \notin Details
    BY <2>1 DEF LeftToTtl
  <2> QED
    BY <1>0, <2>1, <2>2, <2>3 DEF Pages, Details, Detail, Page, Reads, CardReads,
       DetailReads, TeacherReads
<1> QED
  BY <1>1, <1>2, <1>3, <1>4, <1>5 DEF Edits, Edit

-----------------------------------------------------------------------------
(* The invariant is inductive *)

LEMMA InitIInv == Init => IInv
<1> SUFFICES ASSUME Init PROVE IInv
  OBVIOUS
<1>1. TypeOK
  <2>1. entry \in [left : 0..TtlOf(page), lag : 0..MaxLag]
    BY TtlNat, MaxLagNat DEF Init, NoEntry
  <2>2. visit \in [Visitors -> [pc : {"idle", "miss", "store"}, lag : 0..MaxLag,
                                spent : 0..MaxProduce]]
    BY MaxLagNat DEF Init, IdleVisit
  <2>3. edit \in [Editors -> [pc : {"idle", "open", "signal"}, kind : Edits \cup {NoEdit}]]
    BY DEF Init, IdleEdit
  <2>4. quiet \in [Editors -> BOOLEAN]
    BY DEF Init
  <2> QED
    BY <2>1, <2>2, <2>3, <2>4 DEF TypeOK, Init
<1>2. PayloadsAreYoung /\ EntryIsYoung
  BY DEF Init, PayloadsAreYoung, EntryIsYoung, NoEntry, IdleVisit
<1>3. QuietIsUncached
  BY DEF Init, QuietIsUncached, IdleEdit
<1> QED
  BY <1>1, <1>2, <1>3 DEF IInv

LEMMA MissIInv ==
    ASSUME IInv, NEW v \in Visitors, Miss(v)
    PROVE  IInv'
<1>1. TypeOK'
  BY DEF IInv, TypeOK, Miss
<1>2. PayloadsAreYoung' /\ EntryIsYoung'
  BY DEF IInv, TypeOK, Miss, PayloadsAreYoung, EntryIsYoung
<1>3. QuietIsUncached'
  BY DEF Miss, QuietIsUncached
<1> QED
  BY <1>1, <1>2, <1>3 DEF IInv

\* While a producer is at work no save is quiet.
LEMMA Noisy ==
    ASSUME IInv, NEW v \in Visitors, visit[v].pc # "idle",
           UNCHANGED <<page, edit, quiet>>
    PROVE  QuietIsUncached'
  BY DEF IInv, QuietIsUncached, NoOneProduces

LEMMA QueryIInv ==
    ASSUME IInv, NEW v \in Visitors, Query(v)
    PROVE  IInv'
<1>1. TypeOK'
  BY MaxLagNat DEF IInv, TypeOK, Query
<1>2. PayloadsAreYoung' /\ EntryIsYoung'
  BY DEF IInv, TypeOK, Query, PayloadsAreYoung, EntryIsYoung
<1>3. QuietIsUncached'
  BY Noisy DEF Query
<1> QED
  BY <1>1, <1>2, <1>3 DEF IInv

LEMMA StoreIInv ==
    ASSUME IInv, NEW v \in Visitors, Store(v)
    PROVE  IInv'
<1>1. /\ visit[v] \in [pc : {"idle", "miss", "store"}, lag : 0..MaxLag, spent : 0..MaxProduce]
      /\ visit[v].lag <= visit[v].spent + 1
  BY DEF IInv, TypeOK, PayloadsAreYoung, Store
<1>2. TypeOK'
  <2>1. entry' \in [left : 0..TtlOf(page), lag : 0..MaxLag]
    BY <1>1, TtlNat DEF Store, TimeToLive
  <2>2. visit' \in [Visitors -> [pc : {"idle", "miss", "store"}, lag : 0..MaxLag,
                                 spent : 0..MaxProduce]]
    BY MaxLagNat DEF IInv, TypeOK, Store, IdleVisit
  <2> QED
    BY <2>1, <2>2 DEF IInv, TypeOK, Store
<1>3. PayloadsAreYoung'
  BY DEF IInv, TypeOK, Store, PayloadsAreYoung, IdleVisit
<1>4. EntryIsYoung'
  <2>1. entry'.left = TtlOf(page) /\ entry'.lag = visit[v].lag /\ page' = page
    BY DEF Store, TimeToLive
  <2> QED
    BY <1>1, <2>1, TtlNat, MaxLagNat DEF EntryIsYoung
<1>5. QuietIsUncached'
  BY Noisy DEF Store
<1> QED
  BY <1>2, <1>3, <1>4, <1>5 DEF IInv

LEMMA NotStoredIInv ==
    ASSUME IInv, NEW v \in Visitors, NotStored(v)
    PROVE  IInv'
<1>1. TypeOK'
  BY MaxLagNat DEF IInv, TypeOK, NotStored, IdleVisit
<1>2. PayloadsAreYoung' /\ EntryIsYoung'
  BY DEF IInv, TypeOK, NotStored, PayloadsAreYoung, EntryIsYoung, IdleVisit
<1>3. QuietIsUncached'
  BY Noisy DEF NotStored
<1> QED
  BY <1>1, <1>2, <1>3 DEF IInv

-----------------------------------------------------------------------------

\* What a commit does to the payloads under way and to the entry.
LEMMA CommittedKeeps ==
    ASSUME IInv, NEW k, Committed(k), page' = page,
           entry' = IF entry.left = 0 THEN entry ELSE Behind(entry, k)
    PROVE  /\ entry' \in [left : 0..TtlOf(page), lag : 0..MaxLag]
           /\ visit' \in [Visitors -> Visit]
           /\ PayloadsAreYoung' /\ EntryIsYoung'
           /\ entry'.left = entry.left
           /\ \A v \in Visitors : visit'[v].pc = visit[v].pc
<1>1. entry \in [left : 0..TtlOf(page), lag : 0..MaxLag] /\ visit \in [Visitors -> Visit]
  BY DEF IInv, TypeOK, Visit
<1>2. /\ entry' \in [left : 0..TtlOf(page), lag : 0..MaxLag]
      /\ entry'.left = entry.left
      /\ entry'.lag \in {entry.lag, 1}
  BY <1>1, BehindIs
<1>3. ASSUME NEW v \in Visitors
      PROVE  /\ visit'[v] \in Visit
             /\ visit'[v].pc = visit[v].pc
             /\ visit'[v].spent = visit[v].spent
             /\ visit'[v].lag \in {visit[v].lag, 1}
  <2>1. visit[v] \in Visit
    BY <1>1
  <2>2. visit'[v] = IF visit[v].pc = "store" THEN Behind(visit[v], k) ELSE visit[v]
    BY DEF Committed
  <2> QED
    BY <2>1, <2>2, BehindVisit
<1>4. visit' \in [Visitors -> Visit]
  <2>1. visit' = [v \in Visitors |-> visit'[v]]
    BY DEF Committed
  <2> QED
    BY <1>3, <2>1
<1>5. PayloadsAreYoung'
  <2> SUFFICES ASSUME NEW v \in Visitors, visit'[v].pc = "store"
               PROVE  visit'[v].lag <= visit'[v].spent + 1
    BY DEF PayloadsAreYoung
  <2>1. visit[v].lag <= visit[v].spent + 1 /\ visit[v].spent \in 0..MaxProduce
    BY <1>1, <1>3 DEF IInv, PayloadsAreYoung, Visit
  <2> QED
    BY <1>3, <2>1
<1>6. EntryIsYoung'
  <2>1. entry.left \in 0..TtlOf(page) /\ entry.lag \in 0..MaxLag
    BY <1>1
  <2> QED
    BY <1>2, <2>1, TtlNat DEF IInv, EntryIsYoung
<1> QED
  BY <1>2, <1>3, <1>4, <1>5, <1>6

\* What the receiver does to the entry.
LEMMA DeleteKeeps ==
    ASSUME IInv, NEW k, entry' = Delete(k), page' = page
    PROVE  /\ entry' \in [left : 0..TtlOf(page), lag : 0..MaxLag]
           /\ EntryIsYoung'
           /\ entry'.left \in {0, entry.left}
           /\ page \in Drops(k) => entry'.left = 0
<1>1. NoEntry \in [left : 0..TtlOf(page), lag : 0..MaxLag] /\ NoEntry.left = 0
  BY TtlNat, MaxLagNat DEF NoEntry
<1>2. entry \in [left : 0..TtlOf(page), lag : 0..MaxLag]
  BY DEF IInv, TypeOK
<1> QED
  BY <1>1, <1>2 DEF IInv, Delete, EntryIsYoung

LEMMA SaveInTransactionIInv ==
    ASSUME IInv, NEW e \in Editors, SaveInTransaction(e)
    PROVE  IInv'
<1> PICK k \in Edits : /\ edit' = [edit EXCEPT ![e] = [pc |-> "open", kind |-> k]]
                       /\ entry' = Delete(k)
  BY DEF SaveInTransaction
<1>1. NoOneProduces \in BOOLEAN
  BY DEF NoOneProduces
<1>2. page' = page /\ visit' = visit /\ quiet' = [quiet EXCEPT ![e] = NoOneProduces]
  BY DEF SaveInTransaction
<1>3. TypeOK'
  <2>1. edit' \in [Editors -> [pc : {"idle", "open", "signal"}, kind : Edits \cup {NoEdit}]]
    BY DEF IInv, TypeOK
  <2>2. quiet' \in [Editors -> BOOLEAN]
    BY <1>1, <1>2 DEF IInv, TypeOK
  <2> QED
    BY <1>2, <2>1, <2>2, DeleteKeeps DEF IInv, TypeOK
<1>4. PayloadsAreYoung' /\ EntryIsYoung'
  BY <1>2, DeleteKeeps DEF IInv, PayloadsAreYoung
<1>5. QuietIsUncached'
  <2> SUFFICES ASSUME NEW d \in Editors, edit'[d].pc = "open", quiet'[d],
                      page \in Drops(edit'[d].kind)
               PROVE  entry'.left = 0 /\ NoOneProduces
    BY <1>2 DEF QuietIsUncached, NoOneProduces
  <2>1. CASE d = e
    <3>1. edit'[d].kind = k /\ NoOneProduces
      BY <1>2, <2>1 DEF IInv, TypeOK
    <3> QED
      BY <1>2, <3>1, DeleteKeeps
  <2>2. CASE d # e
    <3>1. edit'[d] = edit[d] /\ quiet'[d] = quiet[d]
      BY <1>2, <2>2 DEF IInv, TypeOK
    <3>2. entry.left = 0 /\ NoOneProduces
      BY <3>1 DEF IInv, QuietIsUncached
    <3> QED
      BY <1>2, <3>2, DeleteKeeps
  <2> QED
    BY <2>1, <2>2
<1> QED
  BY <1>3, <1>4, <1>5 DEF IInv

\* An editor that ends, or whose save waits for its signal, holds no deleted entry.
LEMMA QuietFrame ==
    ASSUME IInv, NEW e \in Editors, page' = page, edit'[e].pc # "open",
           \A d \in Editors : d # e => edit'[d] = edit[d] /\ quiet'[d] = quiet[d],
           entry'.left \in {0, entry.left},
           \A v \in Visitors : visit'[v].pc = visit[v].pc
    PROVE  QuietIsUncached'
<1> SUFFICES ASSUME NEW d \in Editors, edit'[d].pc = "open", quiet'[d],
                    page \in Drops(edit'[d].kind)
             PROVE  entry'.left = 0 /\ NoOneProduces'
  BY DEF QuietIsUncached
<1>1. d # e /\ edit'[d] = edit[d] /\ quiet'[d] = quiet[d]
  OBVIOUS
<1>2. entry.left = 0 /\ NoOneProduces
  BY <1>1 DEF IInv, QuietIsUncached
<1> QED
  BY <1>2 DEF NoOneProduces

LEMMA CommitIInv ==
    ASSUME IInv, NEW e \in Editors, Commit(e)
    PROVE  IInv'
<1>1. edit' \in [Editors -> [pc : {"idle", "open", "signal"}, kind : Edits \cup {NoEdit}]]
      /\ edit'[e].pc # "open" /\ \A d \in Editors : d # e => edit'[d] = edit[d]
  BY DEF IInv, TypeOK, Commit, IdleEdit
<1>2. TypeOK' /\ PayloadsAreYoung' /\ EntryIsYoung'
  BY <1>1, CommittedKeeps DEF IInv, TypeOK, Commit, Visit
<1>3. QuietIsUncached'
  BY <1>1, CommittedKeeps, QuietFrame DEF Commit
<1> QED
  BY <1>2, <1>3 DEF IInv

LEMMA SaveAutocommitIInv ==
    ASSUME IInv, NEW e \in Editors, SaveAutocommit(e)
    PROVE  IInv'
<1> PICK k \in Edits :
        /\ edit' = [edit EXCEPT ![e] = [pc |-> "signal", kind |-> k]]
        /\ Committed(k)
        /\ entry' = IF entry.left = 0 THEN entry ELSE Behind(entry, k)
  BY DEF SaveAutocommit
<1>1. edit' \in [Editors -> [pc : {"idle", "open", "signal"}, kind : Edits \cup {NoEdit}]]
      /\ edit'[e].pc # "open" /\ \A d \in Editors : d # e => edit'[d] = edit[d]
  BY DEF IInv, TypeOK
<1>2. page' = page /\ quiet' = [quiet EXCEPT ![e] = NoOneProduces] /\ NoOneProduces \in BOOLEAN
  BY DEF SaveAutocommit, NoOneProduces
<1>3. quiet' \in [Editors -> BOOLEAN] /\ \A d \in Editors : d # e => quiet'[d] = quiet[d]
  BY <1>2 DEF IInv, TypeOK
<1>4. TypeOK' /\ PayloadsAreYoung' /\ EntryIsYoung'
  BY <1>1, <1>2, <1>3, CommittedKeeps DEF IInv, TypeOK, Visit
<1>5. QuietIsUncached'
  BY <1>1, <1>2, <1>3, CommittedKeeps, QuietFrame
<1> QED
  BY <1>4, <1>5 DEF IInv

LEMMA SignalIInv ==
    ASSUME IInv, NEW e \in Editors, Signal(e)
    PROVE  IInv'
<1>1. edit' \in [Editors -> [pc : {"idle", "open", "signal"}, kind : Edits \cup {NoEdit}]]
      /\ edit'[e].pc # "open" /\ \A d \in Editors : d # e => edit'[d] = edit[d]
  BY DEF IInv, TypeOK, Signal, IdleEdit
<1>2. TypeOK' /\ PayloadsAreYoung' /\ EntryIsYoung'
  BY <1>1, DeleteKeeps DEF IInv, TypeOK, Signal, PayloadsAreYoung
<1>3. QuietIsUncached'
  BY <1>1, DeleteKeeps, QuietFrame DEF Signal
<1> QED
  BY <1>2, <1>3 DEF IInv

LEMMA EditEndsIInv ==
    ASSUME IInv, NEW e \in Editors, Rollback(e) \/ NoSignal(e)
    PROVE  IInv'
<1>1. edit' \in [Editors -> [pc : {"idle", "open", "signal"}, kind : Edits \cup {NoEdit}]]
      /\ edit'[e].pc # "open" /\ \A d \in Editors : d # e => edit'[d] = edit[d]
  BY DEF IInv, TypeOK, Rollback, NoSignal, IdleEdit
<1>2. UNCHANGED <<page, entry, visit, quiet>>
  BY DEF Rollback, NoSignal
<1>3. TypeOK' /\ PayloadsAreYoung' /\ EntryIsYoung'
  BY <1>1, <1>2 DEF IInv, TypeOK, PayloadsAreYoung, EntryIsYoung
<1>4. QuietIsUncached'
  BY <1>1, <1>2, QuietFrame
<1> QED
  BY <1>3, <1>4 DEF IInv

\* A tick ages the payloads and takes one off the timeout.
LEMMA TickIInv ==
    ASSUME IInv, Tick
    PROVE  IInv'
<1>0. entry \in [left : 0..TtlOf(page), lag : 0..MaxLag] /\ visit \in [Visitors -> Visit]
  BY DEF IInv, TypeOK, Visit
<1>1. /\ entry' \in [left : 0..TtlOf(page), lag : 0..MaxLag]
      /\ EntryIsYoung'
      /\ entry.left = 0 => entry'.left = 0
  <2>1. CASE entry.left <= 1
    <3>1. entry' = NoEntry /\ NoEntry.left = 0
      BY <2>1 DEF Tick, NoEntry
    <3>2. NoEntry \in [left : 0..TtlOf(page), lag : 0..MaxLag]
      BY TtlNat, MaxLagNat DEF NoEntry
    <3> QED
      BY <3>1, <3>2 DEF EntryIsYoung
  <2>2. CASE entry.left > 1
    <3>0. entry.left \in Nat /\ ~(entry.left <= 1)
      BY <1>0, <2>2, TtlNat
    <3>1. entry' = [left |-> entry.left - 1, lag |-> Older(entry.lag)] /\ page' = page
      BY <3>0 DEF Tick
    <3>2. entry.left \in 0..TtlOf(page) /\ entry.lag \in 0..MaxLag
      BY <1>0
    <3>3. Older(entry.lag) \in 0..MaxLag /\ Older(entry.lag) <= entry.lag + 1
      BY <3>2, OlderIs
    <3>4. entry' \in [left : 0..TtlOf(page), lag : 0..MaxLag]
      BY <2>2, <3>1, <3>2, <3>3, TtlNat
    <3> HIDE DEF Older
    <3>5. EntryIsYoung'
      BY <2>2, <3>1, <3>2, <3>3, TtlNat, MaxLagNat DEF IInv, EntryIsYoung
    <3> QED
      BY <2>2, <3>4, <3>5
  <2> QED
    BY <1>0, <2>1, <2>2, TtlNat
<1>2. ASSUME NEW v \in Visitors
      PROVE  /\ visit'[v] \in Visit
             /\ visit'[v].pc = visit[v].pc
             /\ visit'[v].pc = "store" => visit'[v].lag <= visit'[v].spent + 1
  <2>1. visit[v] \in Visit
    BY <1>0
  <2>2. visit'[v] = IF visit[v].pc = "store"
                    THEN [visit[v] EXCEPT !.spent = @ + 1, !.lag = Older(@)]
                    ELSE visit[v]
    BY DEF Tick
  <2>3. CASE visit[v].pc = "store"
    <3>1. visit[v].lag <= visit[v].spent + 1 /\ visit[v].spent < MaxProduce
      BY <2>3 DEF IInv, PayloadsAreYoung, Tick
    <3>2. Older(visit[v].lag) \in 0..MaxLag /\ Older(visit[v].lag) <= visit[v].lag + 1
      BY <2>1, OlderIs DEF Visit
    <3>3. /\ visit'[v].pc = "store" /\ visit'[v].spent = visit[v].spent + 1
          /\ visit'[v].lag = Older(visit[v].lag)
          /\ visit'[v] = [pc |-> "store", lag |-> Older(visit[v].lag), spent |-> visit[v].spent + 1]
      BY <2>1, <2>2, <2>3 DEF Visit
    <3>4. visit[v].spent \in 0..MaxProduce /\ visit[v].lag \in 0..MaxLag
      BY <2>1 DEF Visit
    <3>5. visit'[v].lag <= visit'[v].spent + 1
      BY <3>1, <3>2, <3>3, <3>4, MaxLagNat
    <3>6. visit'[v] \in Visit
      BY <3>1, <3>2, <3>3, <3>4 DEF Visit
    <3> QED
      BY <2>3, <3>3, <3>5, <3>6
  <2>4. CASE visit[v].pc # "store"
    BY <2>1, <2>2, <2>4
  <2> QED
    BY <2>3, <2>4
<1>3. visit' \in [Visitors -> Visit]
  <2>1. visit' = [v \in Visitors |-> visit'[v]]
    BY DEF Tick
  <2> QED
    BY <1>2, <2>1
<1>4. PayloadsAreYoung'
  BY <1>2 DEF PayloadsAreYoung
<1>5. UNCHANGED <<page, edit, quiet>>
  BY DEF Tick
<1>6. QuietIsUncached'
  BY <1>1, <1>2, <1>5 DEF IInv, QuietIsUncached, NoOneProduces
<1> QED
  BY <1>1, <1>3, <1>4, <1>5, <1>6 DEF IInv, TypeOK, Visit

LEMMA NextIInv == IInv /\ [Next]_vars => IInv'
<1> SUFFICES ASSUME IInv, [Next]_vars PROVE IInv'
  OBVIOUS
<1>1. CASE UNCHANGED vars
  BY <1>1 DEF IInv, TypeOK, PayloadsAreYoung, EntryIsYoung, QuietIsUncached, NoOneProduces, vars
<1>2. CASE Next
  BY <1>2, MissIInv, QueryIInv, StoreIInv, NotStoredIInv, SaveInTransactionIInv, CommitIInv,
     SaveAutocommitIInv, SignalIInv, EditEndsIInv, TickIInv DEF Next
<1> QED
  BY <1>1, <1>2

LEMMA Inductive == Spec => []IInv
  BY InitIInv, NextIInv, PTL DEF Spec

-----------------------------------------------------------------------------

\* Entries, payloads and saves keep their types; no payload ages past the history.
THEOREM TypeCorrect == Spec => []TypeOK
  BY Inductive, PTL DEF IInv

\* What is served is behind by at most its TTL and the time of one production.
THEOREM StalenessIsBounded == Spec => []StalenessBounded
<1>1. IInv => StalenessBounded
  <2> SUFFICES ASSUME IInv, entry.left > 0 PROVE entry.lag <= TtlOf(page) + MaxProduce
    BY DEF StalenessBounded
  <2>1. entry.left \in 0..TtlOf(page) /\ entry.lag \in 0..MaxLag
    BY DEF IInv, TypeOK
  <2> QED
    BY <2>1, TtlNat, MaxLagNat DEF IInv, EntryIsYoung
<1> QED
  BY <1>1, Inductive, PTL

\* A save that nobody's production overlaps leaves no stale entry behind, on the
\* pages its receiver covers, although the entry is deleted before the commit.
THEOREM QuietEditsAreSeen == Spec => QuietEditIsVisible
<1>1. ASSUME IInv, NEW e \in Editors, (Commit(e) /\ quiet[e]) \/ Signal(e),
             page \in Touches(edit[e].kind), ~LeftToTtl(page, edit[e].kind)
      PROVE  entry'.left = 0
  <2>1. edit[e].kind \in Edits \cup {NoEdit}
    BY <1>1 DEF IInv, TypeOK
  <2>2. page \in Drops(edit[e].kind)
    BY <1>1, <2>1, ReceiversCover
  <2>3. CASE Signal(e)
    BY <1>1, <2>2, <2>3, DeleteKeeps DEF Signal
  <2>4. CASE Commit(e) /\ quiet[e]
    BY <1>1, <2>2, <2>4 DEF IInv, QuietIsUncached, Commit
  <2> QED
    BY <1>1, <2>3, <2>4
<1>2. IInv => [\A e \in Editors :
                 LET k == edit[e].kind IN
                 /\ (Commit(e) /\ quiet[e]) \/ Signal(e)
                 /\ page \in Touches(k) /\ ~LeftToTtl(page, k)
                 => entry'.left = 0]_vars
  BY <1>1
<1> QED
  BY <1>2, Inductive, PTL DEF QuietEditIsVisible

-----------------------------------------------------------------------------
(***************************************************************************)
(* TaskDelivery                                                            *)
(***************************************************************************)

LEMMA TriesAre ==
    /\ Tries \subseteq Nat /\ 0 \in Tries
    /\ \A k \in Nat : k < Budget => k \in Tries
    /\ \A j \in Jobs : BudgetOf(j) \in Nat \ {0} /\ BudgetOf(j) <= Budget
  BY DEF Tries, BudgetOf

LEMMA DeliveryInitType == DeliveryInit => DeliveryTypeOK
  BY TriesAre DEF DeliveryInit, DeliveryTypeOK, NoMessages, Executions

LEMMA KiqType ==
    ASSUME DeliveryTypeOK, NEW j \in Jobs, Kiq(j)
    PROVE  stream' \in [Jobs -> [Tries -> Nat]] /\ enqueued' \in [Jobs -> Nat]
  BY TriesAre DEF Kiq, DeliveryTypeOK

\* What an execution is, and what a step within it leaves alone.
LEMMA ExecutionIs ==
    ASSUME NEW m \in Executions
    PROVE  /\ m.job \in Jobs <=> m.pc # "idle"
           /\ m.job = NoJob <=> m.pc = "idle"
           /\ m.pc \in {"idle", "run", "again", "error", "ack"}
           /\ m.tries \in Tries
           /\ m.pc = "idle" => m = Idle
           /\ m.pc = "idle" => ~m.held
<1>1. CASE m = Idle
  BY <1>1, TriesAre DEF Idle
<1>2. CASE m \in [pc : {"run", "again", "error", "ack"}, job : Jobs, tries : Tries,
                 held : BOOLEAN]
  BY <1>2, TriesAre
<1> QED
  BY <1>1, <1>2 DEF Executions

LEMMA MovesOn ==
    ASSUME NEW x \in [Workers -> Executions], NEW w \in Workers, x[w].pc # "idle",
           NEW label \in {"run", "again", "error", "ack"}, NEW y, y = [x EXCEPT ![w].pc = label]
    PROVE  /\ y \in [Workers -> Executions]
           /\ y[w].pc = label /\ y[w].job = x[w].job /\ y[w].tries = x[w].tries
           /\ y[w].held = x[w].held
           /\ \A v \in Workers \ {w} : y[v] = x[v]
<1> DEFINE z == [x[w] EXCEPT !.pc = label]
<1>1. x[w] \in [pc : {"run", "again", "error", "ack"}, job : Jobs, tries : Tries,
                held : BOOLEAN]
  BY ExecutionIs DEF Executions, Idle
<1>2. z \in Executions /\ z.pc = label /\ z.job = x[w].job /\ z.tries = x[w].tries
      /\ z.held = x[w].held
  BY <1>1 DEF Executions
<1>3. [x EXCEPT ![w].pc = label] = [x EXCEPT ![w] = z]
  OBVIOUS
<1> HIDE DEF z
<1> QED
  BY <1>2, <1>3

\* The ways an execution ends.
LEMMA ExecutionType ==
    ASSUME DeliveryTypeOK, NEW w \in Workers, worker[w].pc # "idle",
           NEW j, j = worker[w].job, Succeeds(w, j) \/ Raises(w, j) \/ Skips(w, j)
    PROVE  /\ worker' \in [Workers -> Executions]
           /\ confirmed' \in [Jobs -> Nat] /\ failed' \in [Jobs -> Nat]
           /\ skipped' \in [Jobs -> BOOLEAN]
<1>1. worker \in [Workers -> Executions] /\ j \in Jobs
  BY ExecutionIs DEF DeliveryTypeOK
<1>2. worker' \in [Workers -> Executions]
  <2>1. CASE worker' = [worker EXCEPT ![w].pc = "ack"]
    BY <1>1, <2>1, MovesOn
  <2>2. CASE worker' = [worker EXCEPT ![w].pc = "error"]
    BY <1>1, <2>2, MovesOn
  <2> QED
    BY <2>1, <2>2 DEF Succeeds, Raises, Skips
<1>3. CASE Succeeds(w, j)
  BY <1>1, <1>2, <1>3 DEF DeliveryTypeOK, Succeeds
<1>4. CASE Raises(w, j)
  BY <1>1, <1>2, <1>4 DEF DeliveryTypeOK, Raises
<1>5. CASE Skips(w, j)
  BY <1>1, <1>2, <1>5 DEF DeliveryTypeOK, Skips
<1> QED
  BY <1>3, <1>4, <1>5

\* A worker does the same work as before; its entry may have gone.
Same(v) == /\ worker'[v].pc = worker[v].pc /\ worker'[v].job = worker[v].job
           /\ worker'[v].tries = worker[v].tries

\* Giving up the pending entry changes nothing else.
LEMMA LetsGo ==
    ASSUME NEW m \in Executions, m.pc # "idle"
    PROVE  /\ LetGo(m) \in Executions
           /\ LetGo(m).pc = m.pc /\ LetGo(m).job = m.job /\ LetGo(m).tries = m.tries
<1>1. m \in [pc : {"run", "again", "error", "ack"}, job : Jobs, tries : Tries, held : BOOLEAN]
  BY DEF Executions, Idle
<1> QED
  BY <1>1 DEF Executions, LetGo

\* What an XACK does to the workers: only executions of the same message notice.
LEMMA AckIs ==
    ASSUME worker \in [Workers -> Executions], NEW w \in Workers, Ack(w)
    PROVE  /\ worker' \in [Workers -> Executions]
           /\ worker'[w] = Idle
           /\ \A v \in Workers \ {w} :
                  /\ Same(v)
                  /\ \/ worker'[v] = worker[v]
                     \/ worker[v].job = worker[w].job /\ worker[v].tries = worker[w].tries
<1>1. CASE worker' = [worker EXCEPT ![w] = Idle]
  BY <1>1 DEF Executions, Same
<1>2. ASSUME NEW v \in Workers \ {w}, worker[v].held, worker[v].job = worker[w].job,
             worker[v].tries = worker[w].tries,
             worker' = [worker EXCEPT ![w] = Idle, ![v] = LetGo(@)]
      PROVE  /\ worker' \in [Workers -> Executions]
             /\ worker'[w] = Idle
             /\ \A u \in Workers \ {w} :
                    /\ Same(u)
                    /\ \/ worker'[u] = worker[u]
                       \/ worker[u].job = worker[w].job /\ worker[u].tries = worker[w].tries
  <2>1. worker[v] \in Executions /\ worker[v].pc # "idle" /\ Idle \in Executions
    BY <1>2, ExecutionIs DEF Executions
  <2>2. /\ LetGo(worker[v]) \in Executions
        /\ LetGo(worker[v]).pc = worker[v].pc /\ LetGo(worker[v]).job = worker[v].job
        /\ LetGo(worker[v]).tries = worker[v].tries
    BY <2>1, LetsGo
  <2>3. /\ worker' \in [Workers -> Executions]
        /\ worker'[w] = Idle /\ worker'[v] = LetGo(worker[v])
        /\ \A u \in Workers \ {v, w} : worker'[u] = worker[u]
    BY <1>2, <2>1, <2>2
  <2> QED
    BY <1>2, <2>2, <2>3 DEF Same
<1> QED
  BY <1>1, <1>2 DEF Ack

\* And a claim from a slow worker.
LEMMA ClaimIs ==
    ASSUME worker \in [Workers -> Executions], NEW w \in Workers, NEW v \in Workers,
           ClaimSlow(w, v)
    PROVE  /\ worker' \in [Workers -> Executions]
           /\ v # w /\ worker[v].pc # "idle" /\ worker[w] = Idle
           /\ worker[v].job \in Jobs /\ worker[v].tries \in Tries
           /\ worker'[w] = Executing(worker[v].job, worker[v].tries)
           /\ worker'[w].pc = "run" /\ worker'[w].job = worker[v].job
           /\ worker'[w].tries = worker[v].tries
           /\ \A u \in Workers \ {w} : Same(u)
           /\ \A u \in Workers \ {v, w} : worker'[u] = worker[u]
<1>1. /\ v # w /\ worker[v].pc # "idle" /\ worker[w] = Idle
      /\ worker[v].job \in Jobs /\ worker[v].tries \in Tries
  BY ExecutionIs DEF ClaimSlow
<1>2. /\ LetGo(worker[v]) \in Executions
      /\ LetGo(worker[v]).pc = worker[v].pc /\ LetGo(worker[v]).job = worker[v].job
      /\ LetGo(worker[v]).tries = worker[v].tries
  BY <1>1, LetsGo
<1>3. Executing(worker[v].job, worker[v].tries) \in Executions
  BY <1>1 DEF Executions, Executing
<1>4. /\ worker' \in [Workers -> Executions]
      /\ worker'[w] = Executing(worker[v].job, worker[v].tries)
      /\ worker'[v] = LetGo(worker[v])
      /\ \A u \in Workers \ {v, w} : worker'[u] = worker[u]
  BY <1>1, <1>2, <1>3 DEF ClaimSlow
<1>5. \A u \in Workers \ {w} : Same(u)
  BY <1>1, <1>2, <1>4 DEF Same
<1>6. /\ worker'[w].pc = "run" /\ worker'[w].job = worker[v].job
      /\ worker'[w].tries = worker[v].tries
  BY <1>4 DEF Executing
<1> QED
  BY <1>1, <1>4, <1>5, <1>6

LEMMA DeliveryTypeStep ==
    ASSUME DeliveryTypeOK, [DeliveryNext]_deliveryVars
    PROVE  DeliveryTypeOK'
<1> USE DEF webVars, history
<1>1. ASSUME NEW j \in Jobs, Honeypot(j) \/ CaptchaRefuses(j) \/ LoseOnCommit(j)
      PROVE  DeliveryTypeOK'
  BY <1>1 DEF DeliveryTypeOK, Honeypot, CaptchaRefuses, LoseOnCommit
<1>2. ASSUME NEW j \in Jobs, StoreRow(j) \/ DeleteRow(j) PROVE DeliveryTypeOK'
  BY <1>2 DEF DeliveryTypeOK, StoreRow, DeleteRow
<1>3. ASSUME NEW j \in Jobs, EnqueueOnCommit(j) PROVE DeliveryTypeOK'
  BY <1>3, KiqType DEF DeliveryTypeOK, EnqueueOnCommit
<1>4. ASSUME NEW j \in Jobs, Webhook(j) PROVE DeliveryTypeOK'
  <2>1. stream' \in [Jobs -> [Tries -> Nat]] /\ enqueued' \in [Jobs -> Nat]
    BY <1>4, KiqType DEF DeliveryTypeOK, Webhook
  <2>2. j \in Payments /\ sent' \in [Payments -> Nat]
    BY <1>4 DEF DeliveryTypeOK, Webhook
  <2>3. web' \in {[web EXCEPT ![j] = "accepted"], [web EXCEPT ![j] = "error"],
                  [web EXCEPT ![j] = "dropped"]}
    BY <1>4 DEF Webhook
  <2>4. web' \in [Jobs -> {"new", "enqueue", "accepted", "refused", "dropped", "error"}]
    BY <2>3 DEF DeliveryTypeOK
  <2> QED
    BY <1>4, <2>1, <2>2, <2>4 DEF DeliveryTypeOK, Webhook
<1>0. worker \in [Workers -> Executions] /\ \A w \in Workers : worker[w] \in Executions
  BY DEF DeliveryTypeOK
<1>5. ASSUME NEW w \in Workers, Take(w) PROVE DeliveryTypeOK'
  <2>1. PICK j \in Jobs, k \in Tries :
           /\ stream[j][k] > 0
           /\ stream' = [stream EXCEPT ![j][k] = @ - 1]
           /\ worker' = [worker EXCEPT ![w] = Executing(j, k)]
    BY <1>5 DEF Take
  <2>2. stream' \in [Jobs -> [Tries -> Nat]]
    <3>1. stream[j][k] \in Nat /\ stream[j][k] - 1 \in Nat
      BY <2>1 DEF DeliveryTypeOK
    <3> QED
      BY <2>1, <3>1 DEF DeliveryTypeOK
  <2>3. worker' \in [Workers -> Executions]
    BY <1>0, <2>1 DEF Executions, Executing
  <2> QED
    BY <1>5, <2>2, <2>3 DEF DeliveryTypeOK, Take
<1>6. ASSUME NEW w \in Workers, Reclaim(w) PROVE DeliveryTypeOK'
  <2>1. PICK m \in Reclaimable :
           /\ orphaned' = [orphaned EXCEPT ![m[1]][m[2]] = @ - 1]
           /\ worker' = [worker EXCEPT ![w] = Executing(m[1], m[2])]
    BY <1>6 DEF Reclaim
  <2>2. m[1] \in Jobs /\ m[2] \in Tries /\ orphaned[m[1]][m[2]] > 0
    BY DEF Reclaimable
  <2>3. orphaned' \in [Jobs -> [Tries -> Nat]]
    <3>1. orphaned[m[1]][m[2]] \in Nat /\ orphaned[m[1]][m[2]] - 1 \in Nat
      BY <2>2 DEF DeliveryTypeOK
    <3> QED
      BY <2>1, <2>2, <3>1 DEF DeliveryTypeOK
  <2>4. worker' \in [Workers -> Executions]
    BY <1>0, <2>1, <2>2 DEF Executions, Executing
  <2> QED
    BY <1>6, <2>3, <2>4 DEF DeliveryTypeOK, Reclaim
<1>7. ASSUME NEW w \in Workers, Notify(w) \/ NotifyAgain(w) \/ VerifyPayment(w) \/ SendMail(w)
      PROVE  DeliveryTypeOK'
  <2>1. UNCHANGED <<webVars, stream, orphaned, deaths, slow>> /\ worker[w].pc # "idle"
    BY <1>7 DEF Notify, NotifyAgain, VerifyPayment, SendMail
  <2>2. CASE LET j == worker[w].job IN Succeeds(w, j) \/ Raises(w, j) \/ Skips(w, j)
    BY <2>1, <2>2, ExecutionType DEF DeliveryTypeOK
  <2>3. CASE worker' = [worker EXCEPT ![w].pc = "again"] /\ UNCHANGED history
    <3>1. worker' \in [Workers -> Executions]
      BY <1>0, <2>1, <2>3, MovesOn
    <3> QED
      BY <2>1, <2>3, <3>1 DEF DeliveryTypeOK
  <2> QED
    BY <1>7, <2>2, <2>3 DEF Notify, NotifyAgain, VerifyPayment, SendMail
<1>8. ASSUME NEW w \in Workers, OnError(w) PROVE DeliveryTypeOK'
  <2> DEFINE j == worker[w].job  k == worker[w].tries
  <2>0. j \in Jobs /\ k \in Tries
    BY <1>0, <1>8, ExecutionIs DEF OnError
  <2>1. stream' \in [Jobs -> [Tries -> Nat]]
    <3>1. CASE Retryable(j, k)
      <4>1. k + 1 \in Tries
        BY <2>0, <3>1 DEF Retryable, Tries
      <4>2. stream' = [stream EXCEPT ![j][k + 1] = @ + 1]
        BY <1>8, <3>1 DEF OnError, RetryLabel
      <4> QED
        BY <2>0, <4>1, <4>2 DEF DeliveryTypeOK
    <3>2. CASE ~Retryable(j, k)
      BY <1>8, <3>2 DEF DeliveryTypeOK, OnError
    <3> QED
      BY <3>1, <3>2
  <2>2. worker' \in [Workers -> Executions]
    BY <1>0, <1>8, MovesOn DEF OnError
  <2> QED
    BY <1>8, <2>1, <2>2 DEF DeliveryTypeOK, OnError
<1>9. ASSUME NEW w \in Workers, Ack(w) PROVE DeliveryTypeOK'
  <2> DEFINE j == worker[w].job  k == worker[w].tries
  <2>0. j \in Jobs /\ k \in Tries
    BY <1>0, <1>9, ExecutionIs DEF Ack
  <2>1. worker' \in [Workers -> Executions]
    BY <1>0, <1>9, AckIs
  <2>2. orphaned' \in [Jobs -> [Tries -> Nat]]
    <3>1. CASE orphaned[j][k] > 0 /\ orphaned' = [orphaned EXCEPT ![j][k] = @ - 1]
      <4>1. orphaned[j][k] \in Nat /\ orphaned[j][k] - 1 \in Nat
        BY <2>0, <3>1 DEF DeliveryTypeOK
      <4> QED
        BY <2>0, <3>1, <4>1 DEF DeliveryTypeOK
    <3>2. CASE UNCHANGED orphaned
      BY <3>2 DEF DeliveryTypeOK
    <3> QED
      BY <1>9, <3>1, <3>2 DEF Ack
  <2> QED
    BY <1>9, <2>1, <2>2 DEF DeliveryTypeOK, Ack
<1>10. ASSUME NEW w \in Workers, Die(w) PROVE DeliveryTypeOK'
  <2> DEFINE j == worker[w].job  k == worker[w].tries
  <2>0. j \in Jobs /\ k \in Tries
    BY <1>0, <1>10, ExecutionIs DEF Die
  <2>1. orphaned' \in [Jobs -> [Tries -> Nat]]
    <3>1. orphaned' = orphaned \/ orphaned' = [orphaned EXCEPT ![j][k] = @ + 1]
      BY <1>10 DEF Die, Orphan
    <3> HIDE DEF j, k
    <3>2. CASE orphaned' = [orphaned EXCEPT ![j][k] = @ + 1]
      BY <2>0, <3>2 DEF DeliveryTypeOK
    <3> QED
      BY <3>1, <3>2 DEF DeliveryTypeOK
  <2>2. worker' \in [Workers -> Executions]
    BY <1>0, <1>10 DEF Die, Executions
  <2> QED
    BY <1>10, <2>1, <2>2 DEF DeliveryTypeOK, Die
<1>11. ASSUME NEW w \in Workers, NEW v \in Workers, ClaimSlow(w, v) PROVE DeliveryTypeOK'
  <2>1. worker' \in [Workers -> Executions]
    BY <1>0, <1>11, ClaimIs
  <2>2. slow' \in 0..MaxSlow
    BY <1>11 DEF ClaimSlow, DeliveryTypeOK
  <2> QED
    BY <1>11, <2>1, <2>2 DEF DeliveryTypeOK, ClaimSlow
<1>12. CASE UNCHANGED deliveryVars
  BY <1>12 DEF DeliveryTypeOK, deliveryVars
<1> QED
  BY <1>1, <1>2, <1>3, <1>4, <1>5, <1>6, <1>7, <1>8, <1>9, <1>10, <1>11, <1>12
  DEF DeliveryNext, Work

-----------------------------------------------------------------------------
(* What the steps do, by what they leave alone *)

\* A web process, or staff, without the broker.
WebOnly ==
    /\ UNCHANGED <<configured, stream, orphaned, worker, deaths, slow, enqueued, history>>
    /\ \A j \in Jobs : /\ stored[j] => stored'[j]
                       /\ deleted[j] => deleted'[j]
                       /\ web'[j] = "accepted" => web[j] = "accepted"
    /\ \A f \in Forms : web'[f] = "enqueue" => web[f] = "enqueue" \/ stored'[f]

\* A message comes from a web process.
Enqueues(j) ==
    /\ UNCHANGED <<configured, stored, deleted, orphaned, worker, deaths, slow, history>>
    /\ Kiq(j)
    /\ j \in Forms => web[j] = "enqueue"
    /\ web' = [web EXCEPT ![j] = "accepted"]

\* A worker gets a message, from the stream or from a dead one.
Gets(w, j, k) ==
    /\ UNCHANGED <<webVars, deaths, slow, history>>
    /\ worker[w].pc = "idle"
    /\ worker' = [worker EXCEPT ![w] = Executing(j, k)]
    /\ \/ /\ stream[j][k] > 0 /\ stream' = [stream EXCEPT ![j][k] = @ - 1]
          /\ UNCHANGED orphaned
       \/ /\ orphaned[j][k] > 0 /\ orphaned' = [orphaned EXCEPT ![j][k] = @ - 1]
          /\ UNCHANGED stream

\* It executes a handler.
Executes(w, j) ==
    /\ UNCHANGED <<webVars, stream, orphaned, deaths, slow>>
    /\ worker[w].pc \in {"run", "again"} /\ j = worker[w].job
    /\ \/ Succeeds(w, j)
       \/ Raises(w, j)
       \/ Skips(w, j) /\ (j \in Forms => ~stored[j] \/ deleted[j] \/ ~configured)
       \/ worker' = [worker EXCEPT ![w].pc = "again"] /\ UNCHANGED history

LEMMA StepIs ==
    ASSUME DeliveryTypeOK, DeliveryNext
    PROVE  \/ WebOnly
           \/ \E j \in Jobs : Enqueues(j)
           \/ \E w \in Workers, j \in Jobs, k \in Tries : Gets(w, j, k)
           \/ \E w \in Workers : \E j \in Jobs : Executes(w, j)
           \/ \E w \in Workers : OnError(w) \/ Ack(w) \/ Die(w)
           \/ \E w, v \in Workers : ClaimSlow(w, v)
<1> USE DEF webVars, history
<1>1. ASSUME NEW j \in Jobs, Honeypot(j) \/ CaptchaRefuses(j) \/ LoseOnCommit(j)
                             \/ StoreRow(j) \/ DeleteRow(j)
      PROVE  WebOnly
  BY <1>1 DEF DeliveryTypeOK, Honeypot, CaptchaRefuses, LoseOnCommit, StoreRow, DeleteRow, WebOnly,
              Jobs
<1>2. ASSUME NEW j \in Jobs, EnqueueOnCommit(j) PROVE Enqueues(j)
  BY <1>2 DEF EnqueueOnCommit, Enqueues
<1>3. ASSUME NEW j \in Jobs, Webhook(j) PROVE WebOnly \/ Enqueues(j)
  <2>1. CASE Kiq(j) /\ web' = [web EXCEPT ![j] = "accepted"]
    BY <1>3, <2>1 DEF Webhook, Enqueues
  <2>2. CASE /\ web[j] # "accepted"
             /\ web' \in {[web EXCEPT ![j] = "error"], [web EXCEPT ![j] = "dropped"]}
             /\ UNCHANGED <<stream, enqueued>>
    <3>1. \A i \in Jobs : web'[i] \in {web[i], "error", "dropped"}
      BY <2>2 DEF DeliveryTypeOK
    <3> QED
      BY <1>3, <2>2, <3>1 DEF Webhook, WebOnly, Jobs
  <2> QED
    BY <1>3, <2>1, <2>2 DEF Webhook
<1>4. ASSUME NEW w \in Workers, Take(w) PROVE \E j \in Jobs, k \in Tries : Gets(w, j, k)
  BY <1>4 DEF Take, Gets
<1>5. ASSUME NEW w \in Workers, Reclaim(w) PROVE \E j \in Jobs, k \in Tries : Gets(w, j, k)
  <2>1. PICK m \in Reclaimable :
           /\ orphaned' = [orphaned EXCEPT ![m[1]][m[2]] = @ - 1]
           /\ worker' = [worker EXCEPT ![w] = Executing(m[1], m[2])]
    BY <1>5 DEF Reclaim
  <2>2. m[1] \in Jobs /\ m[2] \in Tries /\ orphaned[m[1]][m[2]] > 0
    BY DEF Reclaimable
  <2>3. Gets(w, m[1], m[2])
    BY <1>5, <2>1, <2>2 DEF Reclaim, Gets
  <2> QED
    BY <2>2, <2>3
<1>6. ASSUME NEW w \in Workers, Notify(w) \/ NotifyAgain(w) \/ VerifyPayment(w) \/ SendMail(w)
      PROVE  \E j \in Jobs : Executes(w, j)
  <2> DEFINE j == worker[w].job
  <2>1. worker[w].pc \in {"run", "again"} /\ UNCHANGED <<webVars, stream, orphaned, deaths, slow>>
    BY <1>6 DEF Notify, NotifyAgain, VerifyPayment, SendMail
  <2>2. j \in Jobs
    BY <2>1, ExecutionIs DEF DeliveryTypeOK
  <2>3. \/ Succeeds(w, j)
        \/ Raises(w, j)
        \/ Skips(w, j) /\ (j \in Forms => ~stored[j] \/ deleted[j] \/ ~configured)
        \/ worker' = [worker EXCEPT ![w].pc = "again"] /\ UNCHANGED history
    BY <1>6 DEF Notify, NotifyAgain, VerifyPayment, SendMail
  <2> QED
    BY <2>1, <2>2, <2>3 DEF Executes
<1> QED
  BY <1>1, <1>2, <1>3, <1>4, <1>5, <1>6 DEF DeliveryNext, Work

\* Nothing that counts is taken back.
LEMMA HistoryGrows ==
    ASSUME DeliveryTypeOK, DeliveryNext, NEW j \in Jobs
    PROVE  /\ configured' = configured
           /\ stored[j] => stored'[j]
           /\ deleted[j] => deleted'[j]
           /\ confirmed[j] <= confirmed'[j]
           /\ failed[j] <= failed'[j]
           /\ skipped[j] => skipped'[j]
<1> USE DEF webVars, history
<1>0. confirmed \in [Jobs -> Nat] /\ failed \in [Jobs -> Nat] /\ skipped \in [Jobs -> BOOLEAN]
  BY DEF DeliveryTypeOK
<1>1. CASE WebOnly
  BY <1>0, <1>1 DEF WebOnly
<1>2. ASSUME NEW i \in Jobs, Enqueues(i)
      PROVE  UNCHANGED <<configured, stored, deleted, confirmed, failed, skipped>>
  BY <1>2 DEF Enqueues
<1>3. ASSUME NEW w \in Workers, NEW i \in Jobs, NEW k \in Tries, Gets(w, i, k)
      PROVE  UNCHANGED <<configured, stored, deleted, confirmed, failed, skipped>>
  BY <1>3 DEF Gets
<1>4. ASSUME NEW w \in Workers, NEW i \in Jobs, Executes(w, i)
      PROVE  /\ UNCHANGED <<configured, stored, deleted>>
             /\ confirmed[j] <= confirmed'[j] /\ failed[j] <= failed'[j]
             /\ skipped[j] => skipped'[j]
  BY <1>0, <1>4 DEF Executes, Succeeds, Raises, Skips
<1>5. ASSUME NEW w \in Workers, OnError(w) \/ Ack(w) \/ Die(w)
      PROVE  UNCHANGED <<configured, stored, deleted, confirmed, failed, skipped>>
  BY <1>5 DEF OnError, Ack, Die
<1>6. ASSUME NEW w \in Workers, NEW v \in Workers, ClaimSlow(w, v)
      PROVE  UNCHANGED <<configured, stored, deleted, confirmed, failed, skipped>>
  BY <1>6 DEF ClaimSlow
<1> QED
  BY <1>0, <1>1, <1>2, <1>3, <1>4, <1>5, <1>6, StepIs

LEMMA ResolvedStays ==
    ASSUME DeliveryTypeOK, DeliveryTypeOK', DeliveryNext, NEW j \in Jobs
    PROVE  Resolved(j) => Resolved(j)'
<1>1. /\ confirmed[j] \in Nat /\ confirmed'[j] \in Nat /\ failed[j] \in Nat /\ failed'[j] \in Nat
      /\ BudgetOf(j) \in Nat
  BY TriesAre DEF DeliveryTypeOK
<1>2. Resolved(j)' <=> confirmed'[j] > 0 \/ Excused(j)' \/ failed'[j] >= BudgetOf(j)
  BY DEF Resolved, BudgetOf
<1>3. Excused(j) => Excused(j)'
  BY HistoryGrows DEF Excused
<1> QED
  BY <1>1, <1>2, <1>3, HistoryGrows DEF Resolved

-----------------------------------------------------------------------------
(* Messages follow from what happened before *)

\* The state that makes a message genuine, as parameters.
GenuineIn(rows, raised, j, k) ==
    /\ j \in Forms => rows[j]
    /\ k < BudgetOf(j)
    /\ k <= raised[j]

LEMMA GenuineStays ==
    ASSUME DeliveryTypeOK, DeliveryTypeOK', DeliveryNext, NEW j \in Jobs, NEW k \in Tries,
           GenuineIn(stored, failed, j, k)
    PROVE  GenuineIn(stored', failed', j, k)
<1>1. failed[j] \in Nat /\ failed'[j] \in Nat /\ k \in Nat
  BY TriesAre DEF DeliveryTypeOK
<1> QED
  BY <1>1, HistoryGrows DEF GenuineIn

\* The invariant, and what it says of the next state.
LEMMA GenuineIs ==
    ASSUME DeliveryTypeOK, MessagesAreGenuine
    PROVE  /\ \A f \in Forms : web[f] = "enqueue" => stored[f]
           /\ \A j \in Jobs, k \in Tries : stream[j][k] > 0 \/ orphaned[j][k] > 0 =>
                  GenuineIn(stored, failed, j, k)
           /\ \A w \in Workers : worker[w].pc # "idle" =>
                  /\ worker[w].job \in Jobs /\ worker[w].tries \in Tries
                  /\ GenuineIn(stored, failed, worker[w].job, worker[w].tries)
                  /\ worker[w].pc = "error" => worker[w].tries + 1 <= failed[worker[w].job]
<1>1. \A w \in Workers :
          worker[w].pc # "idle" => worker[w].job \in Jobs /\ worker[w].tries \in Tries
  BY ExecutionIs DEF DeliveryTypeOK
<1> QED
  BY <1>1 DEF MessagesAreGenuine, Genuine, GenuineIn

\* The messages of a step are genuine if the new ones are.
LEMMA GenuineFrom ==
    ASSUME DeliveryTypeOK, DeliveryTypeOK', MessagesAreGenuine, DeliveryNext,
           \A f \in Forms : web'[f] = "enqueue" => web[f] = "enqueue" \/ stored'[f],
           \A j \in Jobs, k \in Tries : stream'[j][k] > 0 \/ orphaned'[j][k] > 0 =>
               stream[j][k] > 0 \/ orphaned[j][k] > 0 \/ GenuineIn(stored', failed', j, k),
           \A w \in Workers :
               \/ Same(w)
               \/ /\ worker'[w].pc # "idle" =>
                        GenuineIn(stored', failed', worker'[w].job, worker'[w].tries)
                  /\ worker'[w].pc = "error" => worker'[w].tries + 1 <= failed'[worker'[w].job]
    PROVE  MessagesAreGenuine'
<1> USE DEF Same
<1>1. \A f \in Forms : web'[f] = "enqueue" => stored'[f]
  BY HistoryGrows, GenuineIs DEF Jobs
<1>2. \A j \in Jobs, k \in Tries : stream'[j][k] > 0 \/ orphaned'[j][k] > 0 =>
          GenuineIn(stored', failed', j, k)
  BY GenuineStays, GenuineIs
<1>3. ASSUME NEW w \in Workers
      PROVE  /\ worker'[w].pc # "idle" =>
                   GenuineIn(stored', failed', worker'[w].job, worker'[w].tries)
             /\ worker'[w].pc = "error" => worker'[w].tries + 1 <= failed'[worker'[w].job]
  <2>1. CASE Same(w) /\ worker[w].pc # "idle"
    <3>1. /\ worker[w].job \in Jobs /\ worker[w].tries \in Tries
          /\ GenuineIn(stored', failed', worker[w].job, worker[w].tries)
      BY <2>1, GenuineIs, GenuineStays
    <3>2. /\ failed[worker[w].job] \in Nat /\ failed'[worker[w].job] \in Nat
          /\ worker[w].tries \in Nat /\ failed[worker[w].job] <= failed'[worker[w].job]
      BY <3>1, TriesAre, HistoryGrows DEF DeliveryTypeOK
    <3>3. worker[w].pc = "error" => worker[w].tries + 1 <= failed[worker[w].job]
      BY <2>1, GenuineIs
    <3> QED
      BY <2>1, <3>1, <3>2, <3>3
  <2>2. CASE Same(w) /\ worker[w].pc = "idle"
    BY <2>2
  <2> QED
    BY <2>1, <2>2
<1> QED
  BY <1>1, <1>2, <1>3 DEF MessagesAreGenuine, Genuine, GenuineIn, BudgetOf

LEMMA GenuineStep ==
    ASSUME DeliveryTypeOK, DeliveryTypeOK', MessagesAreGenuine, DeliveryNext
    PROVE  MessagesAreGenuine'
<1> USE DEF webVars, history, Same
<1>0. /\ stream \in [Jobs -> [Tries -> Nat]] /\ orphaned \in [Jobs -> [Tries -> Nat]]
      /\ worker \in [Workers -> Executions] /\ failed \in [Jobs -> Nat]
      /\ \A w \in Workers : worker[w] \in Executions
  BY DEF DeliveryTypeOK
<1>1. CASE WebOnly
  BY <1>1, GenuineFrom DEF WebOnly
<1>2. ASSUME NEW i \in Jobs, Enqueues(i) PROVE MessagesAreGenuine'
  <2>1. GenuineIn(stored', failed', i, 0)
    BY <1>0, <1>2, GenuineIs, TriesAre DEF Enqueues, GenuineIn
  <2>2. \A j \in Jobs, k \in Tries : stream'[j][k] > 0 => stream[j][k] > 0 \/ (j = i /\ k = 0)
    BY <1>0, <1>2, TriesAre DEF Enqueues, Kiq
  <2>3. \A f \in Forms : web'[f] = "enqueue" => web[f] = "enqueue"
    BY <1>2 DEF Enqueues, DeliveryTypeOK, Jobs
  <2>4. orphaned' = orphaned /\ worker' = worker
    BY <1>2 DEF Enqueues
  <2> QED
    BY <2>1, <2>2, <2>3, <2>4, GenuineFrom
<1>3. ASSUME NEW w \in Workers, NEW i \in Jobs, NEW l \in Tries, Gets(w, i, l)
      PROVE  MessagesAreGenuine'
  <2>1. GenuineIn(stored', failed', i, l)
    BY <1>3, GenuineIs DEF Gets
  <2>2. \A j \in Jobs, k \in Tries : /\ stream'[j][k] > 0 => stream[j][k] > 0
                                     /\ orphaned'[j][k] > 0 => orphaned[j][k] > 0
    <3>1. CASE /\ stream[i][l] > 0 /\ stream' = [stream EXCEPT ![i][l] = @ - 1]
               /\ orphaned' = orphaned
      <4>1. \A j \in Jobs, k \in Tries : stream'[j][k] = stream[j][k] \/ (j = i /\ k = l)
        BY <1>0, <3>1
      <4> QED
        BY <3>1, <4>1
    <3>2. CASE /\ orphaned[i][l] > 0 /\ orphaned' = [orphaned EXCEPT ![i][l] = @ - 1]
               /\ stream' = stream
      <4>1. \A j \in Jobs, k \in Tries : orphaned'[j][k] = orphaned[j][k] \/ (j = i /\ k = l)
        BY <1>0, <3>2
      <4> QED
        BY <3>2, <4>1
    <3> QED
      BY <1>3, <3>1, <3>2 DEF Gets
  <2>3. /\ \A v \in Workers \ {w} : worker'[v] = worker[v]
        /\ worker'[w].pc = "run" /\ worker'[w].job = i /\ worker'[w].tries = l
    BY <1>0, <1>3 DEF Gets, Executing
  <2>4. web' = web
    BY <1>3 DEF Gets
  <2> QED
    BY <2>1, <2>2, <2>3, <2>4, GenuineFrom
<1>4. ASSUME NEW w \in Workers, NEW i \in Jobs, Executes(w, i) PROVE MessagesAreGenuine'
  <2>1. worker[w].pc # "idle" /\ i = worker[w].job
    BY <1>4 DEF Executes
  <2>2. /\ \A v \in Workers \ {w} : worker'[v] = worker[v]
        /\ worker'[w].job = i /\ worker'[w].tries = worker[w].tries
        /\ worker'[w].pc = "error" => failed'[i] = failed[i] + 1
    <3>1. CASE worker' = [worker EXCEPT ![w].pc = "ack"]
      BY <1>0, <2>1, <3>1, MovesOn
    <3>2. CASE Raises(w, i)
      BY <1>0, <2>1, <3>2, MovesOn DEF Raises
    <3>3. CASE worker' = [worker EXCEPT ![w].pc = "again"]
      BY <1>0, <2>1, <3>3, MovesOn
    <3> QED
      BY <1>4, <3>1, <3>2, <3>3 DEF Executes, Succeeds, Skips
  <2>3. /\ GenuineIn(stored, failed, i, worker[w].tries) /\ worker[w].tries \in Tries
        /\ worker[w].tries \in Nat /\ failed[i] \in Nat
    BY <1>0, <2>1, GenuineIs, TriesAre
  <2>4. GenuineIn(stored', failed', i, worker[w].tries)
    BY <2>3, GenuineStays
  <2>5. worker'[w].pc = "error" => worker'[w].tries + 1 <= failed'[i]
    BY <2>2, <2>3 DEF GenuineIn
  <2>6. web' = web /\ stream' = stream /\ orphaned' = orphaned
    BY <1>4 DEF Executes
  <2> QED
    BY <2>2, <2>4, <2>5, <2>6, GenuineFrom
<1>5. ASSUME NEW w \in Workers, OnError(w) PROVE MessagesAreGenuine'
  <2> DEFINE i == worker[w].job  l == worker[w].tries
  <2>1. /\ i \in Jobs /\ l \in Tries /\ l \in Nat /\ failed[i] \in Nat /\ l + 1 <= failed[i]
        /\ GenuineIn(stored, failed, i, l)
    BY <1>0, <1>5, GenuineIs, TriesAre DEF OnError
  <2>2. web' = web /\ stored' = stored /\ failed' = failed /\ orphaned' = orphaned
    BY <1>5 DEF OnError
  <2>3. /\ \A v \in Workers \ {w} : worker'[v] = worker[v]
        /\ worker'[w].pc = "ack" /\ worker'[w].job = i /\ worker'[w].tries = l
    BY <1>0, <1>5, MovesOn DEF OnError
  <2>4. \A j \in Jobs, k \in Tries : stream'[j][k] > 0 =>
            stream[j][k] > 0 \/ GenuineIn(stored, failed, j, k)
    <3>1. CASE Retryable(i, l)
      <4>1. stream' = [stream EXCEPT ![i][l + 1] = @ + 1]
        BY <1>5, <3>1 DEF OnError, RetryLabel
      <4>2. GenuineIn(stored, failed, i, l + 1)
        BY <2>1, <3>1 DEF GenuineIn, Retryable, BudgetOf
      <4>3. \A j \in Jobs, k \in Tries : stream'[j][k] = stream[j][k] \/ (j = i /\ k = l + 1)
        BY <1>0, <2>1, <4>1
      <4> QED
        BY <4>2, <4>3
    <3>2. CASE ~Retryable(i, l)
      BY <1>5, <3>2 DEF OnError
    <3> QED
      BY <3>1, <3>2
  <2> HIDE DEF i, l
  <2> QED
    BY <2>1, <2>2, <2>3, <2>4, GenuineFrom
<1>6. ASSUME NEW w \in Workers, Ack(w) PROVE MessagesAreGenuine'
  <2> DEFINE i == worker[w].job  l == worker[w].tries
  <2>1. \A v \in Workers : Same(v) \/ worker'[v].pc = "idle"
    BY <1>0, <1>6, AckIs DEF Idle
  <2>2. i \in Jobs /\ l \in Tries
    BY <1>6, GenuineIs DEF Ack
  <2>3. web' = web /\ stored' = stored /\ failed' = failed /\ stream' = stream
    BY <1>6 DEF Ack
  <2>4. \A j \in Jobs, k \in Tries : orphaned'[j][k] > 0 => orphaned[j][k] > 0
    <3>1. CASE orphaned[i][l] > 0 /\ orphaned' = [orphaned EXCEPT ![i][l] = @ - 1]
      <4>1. \A j \in Jobs, k \in Tries : orphaned'[j][k] = orphaned[j][k] \/ (j = i /\ k = l)
        BY <1>0, <2>2, <3>1
      <4> QED
        BY <3>1, <4>1
    <3>2. CASE UNCHANGED orphaned
      BY <3>2
    <3> QED
      BY <1>6, <3>1, <3>2 DEF Ack
  <2> HIDE DEF i, l
  <2> QED
    BY <2>1, <2>3, <2>4, GenuineFrom
<1>7. ASSUME NEW w \in Workers, Die(w) PROVE MessagesAreGenuine'
  <2> DEFINE i == worker[w].job  l == worker[w].tries
  <2>1. i \in Jobs /\ l \in Tries /\ GenuineIn(stored, failed, i, l)
    BY <1>7, GenuineIs DEF Die
  <2>2. \A v \in Workers : worker'[v] = worker[v] \/ worker'[v].pc = "idle"
    BY <1>0, <1>7 DEF Die, Idle
  <2>3. \A j \in Jobs, k \in Tries : orphaned'[j][k] = orphaned[j][k] \/ (j = i /\ k = l)
    BY <1>0, <1>7, <2>1 DEF Die, Orphan
  <2>4. web' = web /\ stored' = stored /\ failed' = failed /\ stream' = stream
    BY <1>7 DEF Die
  <2> HIDE DEF i, l
  <2> QED
    BY <2>1, <2>2, <2>3, <2>4, GenuineFrom
<1>8. ASSUME NEW w \in Workers, NEW v \in Workers, ClaimSlow(w, v) PROVE MessagesAreGenuine'
  <2>1. /\ \A u \in Workers \ {w} : Same(u)
        /\ worker[v].pc # "idle"
        /\ worker'[w].pc = "run" /\ worker'[w].job = worker[v].job
        /\ worker'[w].tries = worker[v].tries
    BY <1>0, <1>8, ClaimIs
  <2>2. GenuineIn(stored, failed, worker[v].job, worker[v].tries)
    BY <2>1, GenuineIs
  <2>3. /\ web' = web /\ stored' = stored /\ failed' = failed
        /\ stream' = stream /\ orphaned' = orphaned
    BY <1>8 DEF ClaimSlow
  <2> QED
    BY <2>1, <2>2, <2>3, GenuineFrom
<1> QED
  BY <1>1, <1>2, <1>3, <1>4, <1>5, <1>6, <1>7, <1>8, StepIs

-----------------------------------------------------------------------------
(* A job stays safe until it is resolved *)

LEMMA SafeBelow ==
    ASSUME NEW j \in Jobs, NEW k \in Nat, NEW l \in Nat, k <= l
    PROVE  (Safe(j, l) => Safe(j, k)) /\ (Safe(j, l)' => Safe(j, k)')
  BY TriesAre DEF Safe

\* A handler that returns has settled its job.
LEMMA ReturnResolves ==
    ASSUME DeliveryTypeOK, MessagesAreGenuine, NEW w \in Workers, NEW i \in Jobs,
           Executes(w, i), worker'[w].pc = "ack"
    PROVE  Resolved(i)'
<1> USE DEF webVars, history
<1>0. /\ worker \in [Workers -> Executions] /\ worker[w] \in Executions
      /\ confirmed \in [Jobs -> Nat] /\ skipped \in [Jobs -> BOOLEAN]
      /\ worker[w].pc # "idle" /\ i = worker[w].job
  BY DEF DeliveryTypeOK, Executes
<1>1. CASE Succeeds(w, i)
  BY <1>0, <1>1 DEF Succeeds, Resolved
<1>2. CASE Skips(w, i) /\ (i \in Forms => ~stored[i] \/ deleted[i] \/ ~configured)
  <2>1. i \in Forms => stored[i]
    BY <1>0, GenuineIs DEF GenuineIn
  <2>2. skipped'[i] /\ deleted' = deleted /\ configured' = configured
    BY <1>0, <1>2 DEF Skips, Executes
  <2> QED
    BY <1>2, <2>1, <2>2 DEF Resolved, Excused
<1>3. CASE Raises(w, i)
  <2>1. worker'[w].pc = "error"
    BY <1>0, <1>3, MovesOn DEF Raises
  <2> QED
    BY <2>1
<1>4. CASE worker' = [worker EXCEPT ![w].pc = "again"]
  <2>1. worker'[w].pc = "again"
    BY <1>0, <1>4, MovesOn
  <2> QED
    BY <2>1
<1> QED
  BY <1>1, <1>2, <1>3, <1>4 DEF Executes

\* After an error the next message is in the stream, or the budget is spent.
LEMMA RetrySecures ==
    ASSUME DeliveryTypeOK, DeliveryTypeOK', MessagesAreGenuine, NEW w \in Workers, OnError(w),
           NEW i \in Jobs, NEW l \in Tries, i = worker[w].job, l = worker[w].tries
    PROVE  Safe(i, l + 1)'
<1> USE DEF webVars, history
<1>1. /\ l \in Nat /\ failed[i] \in Nat /\ l + 1 <= failed[i]
  BY GenuineIs, TriesAre DEF OnError, DeliveryTypeOK
<1>2. CASE Retryable(i, l)
  <2>1. l + 1 \in Tries /\ stream' = [stream EXCEPT ![i][l + 1] = @ + 1]
    BY <1>1, <1>2 DEF OnError, RetryLabel, Retryable, Tries
  <2>2. stream'[i][l + 1] > 0
    BY <1>1, <2>1 DEF DeliveryTypeOK
  <2> QED
    BY <1>1, <2>1, <2>2 DEF Safe, Secured
<1>3. CASE ~Retryable(i, l)
  <2>1. failed[i] >= BudgetOf(i) /\ failed' = failed
    BY <1>1, <1>3, TriesAre DEF Retryable, BudgetOf, OnError
  <2>2. Resolved(i)'
    BY <1>1, <2>1 DEF Resolved, BudgetOf
  <2> QED
    BY <2>2 DEF Safe
<1> QED
  BY <1>2, <1>3

\* A message stays secured unless a worker has just settled it or passed it on.
LEMMA SecuredStays ==
    ASSUME DeliveryTypeOK, DeliveryTypeOK', MessagesAreGenuine, NothingIsLost, DeliveryNext,
           NEW j \in Jobs, NEW k \in Tries, Secured(j, k)
    PROVE  Safe(j, k)'
<1> USE DEF webVars, history
<1>0. /\ stream \in [Jobs -> [Tries -> Nat]] /\ orphaned \in [Jobs -> [Tries -> Nat]]
      /\ worker \in [Workers -> Executions] /\ k \in Nat
      /\ \A w \in Workers : worker[w] \in Executions
  BY TriesAre DEF DeliveryTypeOK
<1>1. Secured(j, k)' => Safe(j, k)'
  BY <1>0 DEF Safe
<1>2. CASE WebOnly
  <2>1. Secured(j, k)'
    BY <1>2 DEF WebOnly, Secured
  <2> QED
    BY <1>1, <2>1
<1>3. ASSUME NEW i \in Jobs, Enqueues(i) PROVE Safe(j, k)'
  <2>1. stream[j][k] > 0 => stream'[j][k] > 0
    BY <1>0, <1>3, TriesAre DEF Enqueues, Kiq
  <2>2. orphaned' = orphaned /\ worker' = worker
    BY <1>3 DEF Enqueues
  <2>3. Secured(j, k)'
    BY <2>1, <2>2 DEF Secured
  <2> QED
    BY <1>1, <2>3
<1>4. ASSUME NEW w \in Workers, NEW i \in Jobs, NEW l \in Tries, Gets(w, i, l) PROVE Safe(j, k)'
  <2>1. /\ \A v \in Workers \ {w} : worker'[v] = worker[v]
        /\ Secures(worker'[w], i, l) /\ ~worker[w].held
    BY <1>0, <1>4, ExecutionIs DEF Gets, Executing, Secures
  <2>2. CASE i = j /\ l = k
    <3>1. Secured(j, k)'
      BY <2>1, <2>2 DEF Secured
    <3> QED
      BY <1>1, <3>1
  <2>3. CASE ~(i = j /\ l = k)
    <3>1. stream'[j][k] = stream[j][k] /\ orphaned'[j][k] = orphaned[j][k]
      BY <1>0, <1>4, <2>3 DEF Gets
    <3>2. \A v \in Workers : Secures(worker[v], j, k) => Secures(worker'[v], j, k)
      BY <2>1 DEF Secures
    <3>3. Secured(j, k)'
      BY <3>1, <3>2 DEF Secured
    <3> QED
      BY <1>1, <3>3
  <2> QED
    BY <2>2, <2>3
<1>5. ASSUME NEW w \in Workers, NEW i \in Jobs, Executes(w, i) PROVE Safe(j, k)'
  <2>1. /\ worker[w].pc # "idle" /\ i = worker[w].job
        /\ stream' = stream /\ orphaned' = orphaned
    BY <1>5 DEF Executes
  <2>2. /\ \A v \in Workers \ {w} : worker'[v] = worker[v]
        /\ worker'[w].job = i /\ worker'[w].tries = worker[w].tries
        /\ worker'[w].held = worker[w].held
    <3>1. CASE worker' = [worker EXCEPT ![w].pc = "ack"]
      BY <1>0, <2>1, <3>1, MovesOn
    <3>2. CASE worker' = [worker EXCEPT ![w].pc = "error"]
      BY <1>0, <2>1, <3>2, MovesOn
    <3>3. CASE worker' = [worker EXCEPT ![w].pc = "again"]
      BY <1>0, <2>1, <3>3, MovesOn
    <3> QED
      BY <1>5, <3>1, <3>2, <3>3 DEF Executes, Succeeds, Raises, Skips
  <2>3. CASE Secures(worker[w], j, k) /\ worker'[w].pc = "ack"
    <3>1. Resolved(j)'
      BY <1>5, <2>1, <2>3, ReturnResolves DEF Secures
    <3> QED
      BY <3>1 DEF Safe
  <2>4. CASE ~(Secures(worker[w], j, k) /\ worker'[w].pc = "ack")
    <3>1. \A v \in Workers : Secures(worker[v], j, k) => Secures(worker'[v], j, k)
      BY <2>1, <2>2, <2>4 DEF Secures
    <3>2. Secured(j, k)'
      BY <2>1, <3>1 DEF Secured
    <3> QED
      BY <1>1, <3>2
  <2> QED
    BY <2>3, <2>4
<1>6. ASSUME NEW w \in Workers, OnError(w) PROVE Safe(j, k)'
  <2> DEFINE i == worker[w].job  l == worker[w].tries
  <2>1. i \in Jobs /\ l \in Tries /\ l \in Nat
    BY <1>6, GenuineIs, TriesAre DEF OnError
  <2>2. \A v \in Workers \ {w} : worker'[v] = worker[v]
    BY <1>0, <1>6, MovesOn DEF OnError
  <2>3. CASE Secures(worker[w], j, k)
    <3>1. Safe(j, k + 1)'
      BY <1>6, <2>3, RetrySecures DEF Secures
    <3> QED
      BY <1>0, <3>1, SafeBelow
  <2>4. CASE ~Secures(worker[w], j, k)
    <3>1. stream[j][k] > 0 => stream'[j][k] > 0
      <4>1. CASE Retryable(i, l)
        <5>1. l + 1 \in Tries /\ stream' = [stream EXCEPT ![i][l + 1] = @ + 1]
          BY <1>6, <2>1, <4>1 DEF OnError, RetryLabel, Retryable, Tries
        <5> QED
          BY <1>0, <2>1, <5>1
      <4>2. CASE ~Retryable(i, l)
        BY <1>6, <4>2 DEF OnError
      <4> QED
        BY <4>1, <4>2
    <3>2. orphaned' = orphaned
      BY <1>6 DEF OnError
    <3>3. Secured(j, k)'
      BY <2>2, <2>4, <3>1, <3>2 DEF Secured
    <3> QED
      BY <1>1, <3>3
  <2> QED
    BY <2>3, <2>4
<1>7. ASSUME NEW w \in Workers, Ack(w) PROVE Safe(j, k)'
  <2> DEFINE i == worker[w].job  l == worker[w].tries
  <2>1. i \in Jobs /\ l \in Tries /\ l \in Nat /\ worker[w].pc = "ack"
    BY <1>7, GenuineIs, TriesAre DEF Ack
  <2>2. Safe(i, l + 1)
    BY <2>1 DEF NothingIsLost
  <2>3. ASSUME NEW m \in Tries, Secured(j, m), ~(j = i /\ m = l) PROVE Secured(j, m)'
    <3>1. stream' = stream /\ orphaned'[j][m] = orphaned[j][m]
      BY <1>0, <1>7, <2>1, <2>3 DEF Ack
    <3>2. ASSUME NEW v \in Workers, Secures(worker[v], j, m) PROVE Secures(worker'[v], j, m)
      <4>1. v # w
        BY <2>1, <3>2 DEF Secures
      <4>2. worker'[v] = worker[v]
        BY <1>0, <1>7, <2>3, <3>2, <4>1, AckIs DEF Secures
      <4> QED
        BY <3>2, <4>2
    <3> QED
      BY <2>3, <3>1, <3>2 DEF Secured
  <2> HIDE DEF i, l
  <2>4. CASE ~(j = i /\ k = l)
    BY <1>1, <2>3, <2>4
  <2>5. CASE j = i /\ k = l
    <3>1. CASE Resolved(j)
      BY <3>1, ResolvedStays DEF Safe
    <3>2. CASE ~Resolved(j)
      <4>1. PICK m \in Tries : m >= l + 1 /\ Secured(j, m)
        BY <2>2, <2>5, <3>2 DEF Safe
      <4>2. m # l /\ m >= k
        BY <2>1, <2>5, <4>1, TriesAre
      <4> QED
        BY <2>3, <4>1, <4>2 DEF Safe
    <3> QED
      BY <3>1, <3>2
  <2> QED
    BY <2>4, <2>5
<1>8. ASSUME NEW w \in Workers, Die(w) PROVE Safe(j, k)'
  <2> DEFINE i == worker[w].job  l == worker[w].tries
  <2>1. i \in Jobs /\ l \in Tries
    BY <1>8, GenuineIs DEF Die
  <2>2. stream' = stream /\ \A v \in Workers \ {w} : worker'[v] = worker[v]
    BY <1>0, <1>8 DEF Die
  <2>3. orphaned[j][k] > 0 => orphaned'[j][k] > 0
    BY <1>0, <1>8, <2>1 DEF Die, Orphan
  <2>4. Secures(worker[w], j, k) => orphaned'[j][k] > 0
    BY <1>0, <1>8, <2>1 DEF Die, Orphan, Secures
  <2>5. Secured(j, k)'
    BY <2>2, <2>3, <2>4 DEF Secured
  <2> QED
    BY <1>1, <2>5
<1>9. ASSUME NEW w \in Workers, NEW v \in Workers, ClaimSlow(w, v) PROVE Safe(j, k)'
  <2>1. /\ worker[w] = Idle
        /\ worker'[w] = Executing(worker[v].job, worker[v].tries)
        /\ \A u \in Workers \ {v, w} : worker'[u] = worker[u]
    BY <1>0, <1>9, ClaimIs
  <2>2. stream' = stream /\ orphaned' = orphaned
    BY <1>9 DEF ClaimSlow
  <2>3. Secures(worker[v], j, k) => Secures(worker'[w], j, k)
    BY <2>1 DEF Secures, Executing
  <2>4. ~Secures(worker[w], j, k)
    BY <2>1 DEF Secures, Idle
  <2>5. Secured(j, k)'
    BY <2>1, <2>2, <2>3, <2>4 DEF Secured
  <2> QED
    BY <1>1, <2>5
<1> QED
  BY <1>2, <1>3, <1>4, <1>5, <1>6, <1>7, <1>8, <1>9, StepIs

LEMMA SafeStays ==
    ASSUME DeliveryTypeOK, DeliveryTypeOK', MessagesAreGenuine, NothingIsLost, DeliveryNext,
           NEW j \in Jobs, NEW k \in Nat, Safe(j, k)
    PROVE  Safe(j, k)'
<1>1. CASE Resolved(j)
  BY <1>1, ResolvedStays DEF Safe
<1>2. CASE ~Resolved(j)
  <2>1. PICK l \in Tries : l >= k /\ Secured(j, l)
    BY <1>2 DEF Safe
  <2>2. Safe(j, l)' /\ l \in Nat
    BY <2>1, SecuredStays, TriesAre
  <2> QED
    BY <2>1, <2>2, SafeBelow
<1> QED
  BY <1>1, <1>2

LEMMA SafeStep ==
    ASSUME DeliveryTypeOK, DeliveryTypeOK', MessagesAreGenuine, NothingIsLost, DeliveryNext
    PROVE  NothingIsLost'
<1> USE DEF webVars, history
<1>0. /\ stream \in [Jobs -> [Tries -> Nat]] /\ worker \in [Workers -> Executions]
      /\ \A w \in Workers : worker[w] \in Executions
  BY DEF DeliveryTypeOK
<1>1. ASSUME NEW j \in Jobs, web'[j] = "accepted" PROVE Safe(j, 0)'
  <2>1. CASE web[j] = "accepted"
    BY <2>1, SafeStays DEF NothingIsLost
  <2>2. CASE web[j] # "accepted"
    <3>1. ASSUME NEW i \in Jobs, Enqueues(i) PROVE Safe(j, 0)'
      <4>1. i = j
        BY <1>1, <2>2, <3>1 DEF Enqueues, DeliveryTypeOK
      <4>2. stream'[j][0] > 0
        BY <1>0, <3>1, <4>1, TriesAre DEF Enqueues, Kiq
      <4> QED
        BY <4>2, TriesAre DEF Safe, Secured
    <3>2. (\E i \in Jobs : Enqueues(i)) \/ (web'[j] = "accepted" => web[j] = "accepted")
      BY StepIs DEF WebOnly, Gets, Executes, OnError, Ack, Die, ClaimSlow
    <3> QED
      BY <1>1, <2>2, <3>1, <3>2
  <2> QED
    BY <2>1, <2>2
<1>2. ASSUME NEW w \in Workers, NEW j \in Jobs, NEW k \in Tries,
             worker'[w].pc = "ack", worker'[w].job = j, worker'[w].tries = k
      PROVE  Safe(j, k + 1)'
  <2>0. k + 1 \in Nat /\ k \in Nat
    BY TriesAre
  <2>1. CASE Same(w)
    <3>1. Safe(j, k + 1)
      BY <1>2, <2>1 DEF NothingIsLost, Same
    <3> QED
      BY <2>0, <3>1, SafeStays
  <2>2. CASE ~Same(w)
    <3>1. ASSUME NEW v \in Workers, NEW i \in Jobs, Executes(v, i)
          PROVE  Safe(j, k + 1)'
      <4>1. v = w /\ i = j
        <5>1. worker[v].pc # "idle" /\ i = worker[v].job
          BY <3>1 DEF Executes
        <5>2. \E label \in {"ack", "error", "again"} : worker' = [worker EXCEPT ![v].pc = label]
          BY <3>1 DEF Executes, Succeeds, Raises, Skips
        <5>3. worker'[v].job = i /\ \A u \in Workers \ {v} : worker'[u] = worker[u]
          BY <1>0, <5>1, <5>2, MovesOn
        <5> QED
          BY <1>2, <2>2, <5>3 DEF Same
      <4>2. Resolved(j)'
        BY <1>2, <3>1, <4>1, ReturnResolves
      <4> QED
        BY <4>2 DEF Safe
    <3>2. ASSUME NEW v \in Workers, OnError(v)
          PROVE  Safe(j, k + 1)'
      <4>1. v = w /\ j = worker[w].job /\ k = worker[w].tries
        BY <1>0, <1>2, <2>2, <3>2, MovesOn DEF OnError, Same
      <4> QED
        BY <3>2, <4>1, RetrySecures
    <3>3. ~(\E v \in Workers : Ack(v) \/ Die(v))
      <4>1. ASSUME NEW v \in Workers, Ack(v) PROVE FALSE
        BY <1>0, <1>2, <2>2, <4>1, AckIs DEF Idle
      <4>2. ASSUME NEW v \in Workers, Die(v) PROVE FALSE
        BY <1>0, <1>2, <2>2, <4>2 DEF Die, Idle, Same
      <4> QED
        BY <4>1, <4>2
    <3>4. ~(\E v \in Workers, i \in Jobs, l \in Tries : Gets(v, i, l))
      BY <1>0, <1>2, <2>2 DEF Gets, Executing, Same
    <3>5. ~(\E v, u \in Workers : ClaimSlow(v, u))
      <4> SUFFICES ASSUME NEW v \in Workers, NEW u \in Workers, ClaimSlow(v, u) PROVE FALSE
        OBVIOUS
      <4>1. worker'[v].pc = "run" /\ \A q \in Workers \ {v} : Same(q)
        BY <1>0, ClaimIs
      <4> QED
        BY <1>2, <2>2, <4>1
    <3>6. ~WebOnly /\ ~(\E i \in Jobs : Enqueues(i))
      BY <2>2 DEF WebOnly, Enqueues, Same
    <3> QED
      BY <3>1, <3>2, <3>3, <3>4, <3>5, <3>6, StepIs
  <2> QED
    BY <2>1, <2>2
<1> QED
  BY <1>1, <1>2 DEF NothingIsLost

-----------------------------------------------------------------------------
(* Sums of weights *)

LEMMA PlacesFinite == IsFiniteSet(Places)
<1>1. IsFiniteSet(Tries)
  <2>1. 0 \in Int /\ Budget - 1 \in Int
    OBVIOUS
  <2> QED
    BY <2>1, FS_Interval DEF Tries
<1>2. IsFiniteSet({"stream"}) /\ IsFiniteSet({"orphaned"}) /\ IsFiniteSet({"worker"})
  BY FS_Singleton
<1>3. IsFiniteSet({"stream", "orphaned"})
  <2>1. {"stream", "orphaned"} = {"stream"} \cup {"orphaned"}
    OBVIOUS
  <2> QED
    BY <1>2, <2>1, FS_AddElement
<1>4. IsFiniteSet(Tries \X {"stream", "orphaned"}) /\ IsFiniteSet(Workers \X {"worker"})
  BY <1>1, <1>2, <1>3, FS_Product
<1> QED
  BY <1>4, FS_Union DEF Places

LEMMA UnitsFinite ==
    ASSUME NEW S \in SUBSET Places, NEW f \in [Places -> Nat]
    PROVE  IsFiniteSet(Units(S, f)) /\ Total(S, f) \in Nat
<1> DEFINE K(h) == {h} \X (1..f[h])
<1>1. \A h \in S : IsFiniteSet(K(h))
  <2> TAKE h \in S
  <2>1. IsFiniteSet({h}) /\ IsFiniteSet(1..f[h])
    <3>1. 1 \in Int /\ f[h] \in Int
      OBVIOUS
    <3> QED
      BY <3>1, FS_Singleton, FS_Interval
  <2> QED
    BY <2>1, FS_Product
<1>2. IsFiniteSet({K(h) : h \in S})
  <2> DEFINE k == [h \in S |-> K(h)]
  <2>1. IsFiniteSet(S)
    BY PlacesFinite, FS_Subset
  <2>2. k \in Surjection(S, {K(h) : h \in S})
    BY DEF Surjection
  <2> QED
    BY <2>1, <2>2, FS_Surjection
<1>3. \A k \in {K(h) : h \in S} : IsFiniteSet(k)
  BY <1>1
<1>4. IsFiniteSet(Units(S, f))
  BY <1>2, <1>3, FS_UNION DEF Units
<1> QED
  BY <1>4, FS_CardinalityType DEF Total

\* One place's share of a sum.
LEMMA TotalSplits ==
    ASSUME NEW f \in [Places -> Nat], NEW h \in Places
    PROVE  /\ Total(Places, f) = Total(Places \ {h}, f) + f[h]
           /\ Total(Places \ {h}, f) \in Nat
<1> DEFINE K == {h} \X (1..f[h])
           R == Units(Places \ {h}, f)
<1>1. f[h] \in Nat /\ IsFiniteSet(R) /\ Cardinality(R) \in Nat
  BY UnitsFinite DEF Total
<1>2. IsFiniteSet(K) /\ Cardinality(K) = f[h]
  <2>1. IsFiniteSet({h}) /\ Cardinality({h}) = 1
    BY FS_Singleton
  <2>2. IsFiniteSet(1..f[h]) /\ Cardinality(1..f[h]) = f[h]
    <3>1. 1 \in Int /\ f[h] \in Int
      BY <1>1
    <3>2. /\ IsFiniteSet(1..f[h])
          /\ Cardinality(1..f[h]) = IF 1 > f[h] THEN 0 ELSE f[h] - 1 + 1
      BY <3>1, FS_Interval
    <3> QED
      BY <1>1, <3>2
  <2>3. IsFiniteSet(K) /\ Cardinality(K) = 1 * f[h]
    BY <2>1, <2>2, FS_Product
  <2> QED
    BY <1>1, <2>3
<1>3. Units(Places, f) = R \cup K /\ R \cap K = {}
  BY DEF Units
<1> HIDE DEF R, K
<1>4. Cardinality(R \cup K) = Cardinality(R) + Cardinality(K) - Cardinality(R \cap K)
  BY <1>1, <1>2, FS_Union
<1>5. Cardinality(R \cap K) = 0
  BY <1>3, FS_EmptySet
<1>6. Cardinality(R \cup K) = Cardinality(R) + f[h]
  BY <1>1, <1>2, <1>4, <1>5
<1>7. Total(Places, f) = Cardinality(R \cup K) /\ Total(Places \ {h}, f) = Cardinality(R)
  BY <1>3 DEF Total, R
<1> QED
  BY <1>1, <1>6, <1>7

\* A sum changes by what one place of it changes.
LEMMA TotalMoves ==
    ASSUME NEW f \in [Places -> Nat], NEW e \in [Places -> Nat], NEW h \in Places,
           \A q \in Places \ {h} : e[q] = f[q]
    PROVE  /\ Total(Places, e) = Total(Places, f) + e[h] - f[h]
           /\ Total(Places, e) \in Nat /\ Total(Places, f) \in Nat
<1>1. Total(Places \ {h}, e) = Total(Places \ {h}, f)
  <2>1. \A q \in Places \ {h} : {q} \X (1..e[q]) = {q} \X (1..f[q])
    OBVIOUS
  <2>2. {{q} \X (1..e[q]) : q \in Places \ {h}} = {{q} \X (1..f[q]) : q \in Places \ {h}}
    BY <2>1, Zenon
  <2> QED
    BY <2>2 DEF Total, Units
<1>2. f[h] \in Nat /\ e[h] \in Nat
  OBVIOUS
<1> QED
  BY <1>1, <1>2, TotalSplits

\* The same for two places.
LEMMA TotalMovesTwice ==
    ASSUME NEW f \in [Places -> Nat], NEW e \in [Places -> Nat],
           NEW g \in Places, NEW h \in Places \ {g},
           \A q \in Places \ {g, h} : e[q] = f[q]
    PROVE  /\ Total(Places, e) = Total(Places, f) + e[g] - f[g] + e[h] - f[h]
           /\ Total(Places, e) \in Nat /\ Total(Places, f) \in Nat
<1> DEFINE d == [f EXCEPT ![g] = e[g]]
<1>1. /\ d \in [Places -> Nat] /\ d[g] = e[g] /\ d[h] = f[h]
      /\ \A q \in Places \ {g} : d[q] = f[q]
      /\ \A q \in Places \ {h} : e[q] = d[q]
  OBVIOUS
<1>2. e[g] \in Nat /\ f[g] \in Nat /\ e[h] \in Nat /\ f[h] \in Nat
  OBVIOUS
<1> HIDE DEF d
<1>3. /\ Total(Places, d) = Total(Places, f) + d[g] - f[g] /\ Total(Places, d) \in Nat
      /\ Total(Places, f) \in Nat
  BY <1>1, TotalMoves
<1>4. Total(Places, e) = Total(Places, d) + e[h] - d[h] /\ Total(Places, e) \in Nat
  BY <1>1, TotalMoves
<1> QED
  BY <1>1, <1>2, <1>3, <1>4

-----------------------------------------------------------------------------
(* The weight of a job's messages *)

LEMMA OneMore == \A m, n \in Nat : (m + 1) * n = m * n + n /\ m * n \in Nat
  OBVIOUS

LEMMA PlaceIs ==
    ASSUME NEW h \in Places
    PROVE  \/ \E k \in Tries : h \in {<<k, "stream">>, <<k, "orphaned">>}
           \/ \E w \in Workers : h = <<w, "worker">>
  BY DEF Places

LEMMA WeightIs ==
    ASSUME DeliveryTypeOK, NEW j \in Jobs,
           NEW before \in [Tries -> Nat], NEW after \in [Tries -> Nat]
    PROVE  /\ Weight(j, before, after) \in [Places -> Nat]
           /\ \A k \in Tries :
                  /\ Weight(j, before, after)[<<k, "stream">>] = stream[j][k] * before[k]
                  /\ Weight(j, before, after)[<<k, "orphaned">>] = orphaned[j][k] * before[k]
           /\ \A w \in Workers :
                  /\ Weight(j, before, after)[<<w, "worker">>] = InHand(w, j, before, after)
                  /\ InHand(w, j, before, after) \in Nat
<1>1. \A w \in Workers : InHand(w, j, before, after) \in Nat
  BY ExecutionIs DEF InHand, DeliveryTypeOK
<1>2. \A k \in Tries : /\ stream[j][k] * before[k] \in Nat
                       /\ orphaned[j][k] * before[k] \in Nat
  <2>1. \A m, n \in Nat : m * n \in Nat
    OBVIOUS
  <2> QED
    BY <2>1 DEF DeliveryTypeOK
<1>3. /\ \A k \in Tries : <<k, "stream">> \in Places /\ <<k, "orphaned">> \in Places
      /\ \A w \in Workers : <<w, "worker">> \in Places
  BY DEF Places
<1>4. /\ \A k \in Tries :
             /\ Weight(j, before, after)[<<k, "stream">>] = stream[j][k] * before[k]
             /\ Weight(j, before, after)[<<k, "orphaned">>] = orphaned[j][k] * before[k]
      /\ \A w \in Workers : Weight(j, before, after)[<<w, "worker">>] = InHand(w, j, before, after)
  BY <1>3 DEF Weight, Places
<1>5. ASSUME NEW h \in Places PROVE Weight(j, before, after)[h] \in Nat
  BY <1>1, <1>2, <1>4, PlaceIs
<1>6. Weight(j, before, after) \in [Places -> Nat]
  <2>1. Weight(j, before, after) = [h \in Places |-> Weight(j, before, after)[h]]
    BY DEF Weight, Places
  <2> QED
    BY <1>5, <2>1
<1> QED
  BY <1>1, <1>4, <1>6

LEMMA WeightIsNext ==
    ASSUME DeliveryTypeOK', NEW j \in Jobs,
           NEW before \in [Tries -> Nat], NEW after \in [Tries -> Nat]
    PROVE  /\ Weight(j, before, after)' \in [Places -> Nat]
           /\ \A k \in Tries :
                  /\ Weight(j, before, after)'[<<k, "stream">>] = stream'[j][k] * before[k]
                  /\ Weight(j, before, after)'[<<k, "orphaned">>] = orphaned'[j][k] * before[k]
           /\ \A w \in Workers :
                  /\ Weight(j, before, after)'[<<w, "worker">>] = InHand(w, j, before, after)'
                  /\ InHand(w, j, before, after)' \in Nat
<1>1. \A w \in Workers : InHand(w, j, before, after)' \in Nat
  BY ExecutionIs DEF InHand, DeliveryTypeOK
<1>2. \A k \in Tries : /\ stream'[j][k] * before[k] \in Nat
                       /\ orphaned'[j][k] * before[k] \in Nat
  <2>1. \A m, n \in Nat : m * n \in Nat
    OBVIOUS
  <2> QED
    BY <2>1 DEF DeliveryTypeOK
<1>3. /\ \A k \in Tries : <<k, "stream">> \in Places /\ <<k, "orphaned">> \in Places
      /\ \A w \in Workers : <<w, "worker">> \in Places
  BY DEF Places
<1>4. /\ \A k \in Tries :
             /\ Weight(j, before, after)'[<<k, "stream">>] = stream'[j][k] * before[k]
             /\ Weight(j, before, after)'[<<k, "orphaned">>] = orphaned'[j][k] * before[k]
      /\ \A w \in Workers :
             Weight(j, before, after)'[<<w, "worker">>] = InHand(w, j, before, after)'
  BY <1>3 DEF Weight, Places
<1>5. ASSUME NEW h \in Places PROVE Weight(j, before, after)'[h] \in Nat
  BY <1>1, <1>2, <1>4, PlaceIs
<1>6. Weight(j, before, after)' \in [Places -> Nat]
  <2>1. Weight(j, before, after)' = [h \in Places |-> Weight(j, before, after)'[h]]
    BY DEF Weight, Places
  <2> QED
    BY <1>5, <2>1
<1> QED
  BY <1>1, <1>4, <1>6

Sum(j, before, after) == Total(Places, Weight(j, before, after))

\* One count of the stream and one worker change.
LEMMA StreamMoves ==
    ASSUME DeliveryTypeOK, DeliveryTypeOK', NEW i \in Jobs, NEW l \in Tries, NEW w \in Workers,
           orphaned' = orphaned,
           \A j \in Jobs, k \in Tries : stream'[j][k] = stream[j][k] \/ (j = i /\ k = l),
           \A v \in Workers \ {w} : Same(v),
           NEW j \in Jobs, NEW before \in [Tries -> Nat], NEW after \in [Tries -> Nat]
    PROVE  /\ Sum(j, before, after) \in Nat /\ Sum(j, before, after)' \in Nat
           /\ Sum(j, before, after)' =
                Sum(j, before, after)
                + (IF j = i THEN stream'[i][l] * before[l] - stream[i][l] * before[l] ELSE 0)
                + InHand(w, j, before, after)' - InHand(w, j, before, after)
<1> DEFINE f == Weight(j, before, after)
           e == Weight(j, before, after)'
           g == <<l, "stream">>
           h == <<w, "worker">>
<1>1. Sum(j, before, after) = Total(Places, f) /\ Sum(j, before, after)' = Total(Places, e)
  BY DEF Sum, Total, Units, Places
<1>2. f \in [Places -> Nat] /\ e \in [Places -> Nat]
  BY WeightIs, WeightIsNext
<1>w. /\ \A k \in Tries : /\ f[<<k, "stream">>] = stream[j][k] * before[k]
                          /\ f[<<k, "orphaned">>] = orphaned[j][k] * before[k]
      /\ \A v \in Workers : /\ f[<<v, "worker">>] = InHand(v, j, before, after)
                            /\ f[<<v, "worker">>] \in Nat
  BY WeightIs
<1>n. /\ \A k \in Tries : /\ e[<<k, "stream">>] = stream'[j][k] * before[k]
                          /\ e[<<k, "orphaned">>] = orphaned'[j][k] * before[k]
      /\ \A v \in Workers : /\ e[<<v, "worker">>] = InHand(v, j, before, after)'
                            /\ e[<<v, "worker">>] \in Nat
  BY WeightIsNext
<1> HIDE DEF f, e
<1>3. g \in Places /\ h \in Places \ {g}
  BY DEF Places
<1>4. ASSUME NEW q \in Places \ {g, h} PROVE e[q] = f[q]
  <2>1. ASSUME NEW k \in Tries, q = <<k, "stream">> PROVE e[q] = f[q]
    <3>1. k # l
      BY <2>1
    <3>2. stream'[j][k] = stream[j][k]
      BY <3>1
    <3>3. e[q] = stream'[j][k] * before[k] /\ f[q] = stream[j][k] * before[k]
      BY <2>1, <1>w, <1>n, Zenon
    <3> QED
      BY <3>2, <3>3
  <2>2. ASSUME NEW k \in Tries, q = <<k, "orphaned">> PROVE e[q] = f[q]
    BY <2>2, <1>w, <1>n
  <2>3. ASSUME NEW v \in Workers, q = <<v, "worker">> PROVE e[q] = f[q]
    <3>1. v # w
      BY <2>3
    <3>2. InHand(v, j, before, after)' = InHand(v, j, before, after)
      BY <3>1 DEF InHand, Same
    <3> QED
      BY <2>3, <3>2, <1>w, <1>n
  <2> QED
    BY <2>1, <2>2, <2>3, PlaceIs
<1>5. /\ f[g] = stream[j][l] * before[l] /\ e[g] = stream'[j][l] * before[l]
      /\ f[h] = InHand(w, j, before, after) /\ e[h] = InHand(w, j, before, after)'
      /\ f[h] \in Nat /\ e[h] \in Nat /\ f[g] \in Nat /\ e[g] \in Nat
  BY <1>2, <1>3, <1>w, <1>n
<1>6. j # i => e[g] = f[g]
  BY <1>5
<1> HIDE DEF g, h
<1>7. /\ Total(Places, e) = Total(Places, f) + e[g] - f[g] + e[h] - f[h]
      /\ Total(Places, e) \in Nat /\ Total(Places, f) \in Nat
  BY <1>2, <1>3, <1>4, TotalMovesTwice
<1>8. CASE j = i
  BY <1>1, <1>5, <1>7, <1>8
<1>9. CASE j # i
  BY <1>1, <1>5, <1>6, <1>7, <1>9
<1> QED
  BY <1>8, <1>9

\* One count of the pending lists and one worker change.
LEMMA PendingMoves ==
    ASSUME DeliveryTypeOK, DeliveryTypeOK', NEW i \in Jobs, NEW l \in Tries, NEW w \in Workers,
           stream' = stream,
           \A j \in Jobs, k \in Tries : orphaned'[j][k] = orphaned[j][k] \/ (j = i /\ k = l),
           \A v \in Workers \ {w} : Same(v),
           NEW j \in Jobs, NEW before \in [Tries -> Nat], NEW after \in [Tries -> Nat]
    PROVE  /\ Sum(j, before, after) \in Nat /\ Sum(j, before, after)' \in Nat
           /\ Sum(j, before, after)' =
                Sum(j, before, after)
                + (IF j = i THEN orphaned'[i][l] * before[l] - orphaned[i][l] * before[l] ELSE 0)
                + InHand(w, j, before, after)' - InHand(w, j, before, after)
<1> DEFINE f == Weight(j, before, after)
           e == Weight(j, before, after)'
           g == <<l, "orphaned">>
           h == <<w, "worker">>
<1>1. Sum(j, before, after) = Total(Places, f) /\ Sum(j, before, after)' = Total(Places, e)
  BY DEF Sum, Total, Units, Places
<1>2. f \in [Places -> Nat] /\ e \in [Places -> Nat]
  BY WeightIs, WeightIsNext
<1>w. /\ \A k \in Tries : /\ f[<<k, "stream">>] = stream[j][k] * before[k]
                          /\ f[<<k, "orphaned">>] = orphaned[j][k] * before[k]
      /\ \A v \in Workers : /\ f[<<v, "worker">>] = InHand(v, j, before, after)
                            /\ f[<<v, "worker">>] \in Nat
  BY WeightIs
<1>n. /\ \A k \in Tries : /\ e[<<k, "stream">>] = stream'[j][k] * before[k]
                          /\ e[<<k, "orphaned">>] = orphaned'[j][k] * before[k]
      /\ \A v \in Workers : /\ e[<<v, "worker">>] = InHand(v, j, before, after)'
                            /\ e[<<v, "worker">>] \in Nat
  BY WeightIsNext
<1> HIDE DEF f, e
<1>3. g \in Places /\ h \in Places \ {g}
  BY DEF Places
<1>4. ASSUME NEW q \in Places \ {g, h} PROVE e[q] = f[q]
  <2>1. ASSUME NEW k \in Tries, q = <<k, "orphaned">> PROVE e[q] = f[q]
    <3>1. k # l
      BY <2>1
    <3>2. orphaned'[j][k] = orphaned[j][k]
      BY <3>1
    <3>3. e[q] = orphaned'[j][k] * before[k] /\ f[q] = orphaned[j][k] * before[k]
      BY <2>1, <1>w, <1>n, Zenon
    <3> QED
      BY <3>2, <3>3
  <2>2. ASSUME NEW k \in Tries, q = <<k, "stream">> PROVE e[q] = f[q]
    BY <2>2, <1>w, <1>n
  <2>3. ASSUME NEW v \in Workers, q = <<v, "worker">> PROVE e[q] = f[q]
    <3>1. v # w
      BY <2>3
    <3>2. InHand(v, j, before, after)' = InHand(v, j, before, after)
      BY <3>1 DEF InHand, Same
    <3> QED
      BY <2>3, <3>2, <1>w, <1>n
  <2> QED
    BY <2>1, <2>2, <2>3, PlaceIs
<1>5. /\ f[g] = orphaned[j][l] * before[l] /\ e[g] = orphaned'[j][l] * before[l]
      /\ f[h] = InHand(w, j, before, after) /\ e[h] = InHand(w, j, before, after)'
      /\ f[h] \in Nat /\ e[h] \in Nat /\ f[g] \in Nat /\ e[g] \in Nat
  BY <1>2, <1>3, <1>w, <1>n
<1>6. j # i => e[g] = f[g]
  BY <1>5
<1> HIDE DEF g, h
<1>7. /\ Total(Places, e) = Total(Places, f) + e[g] - f[g] + e[h] - f[h]
      /\ Total(Places, e) \in Nat /\ Total(Places, f) \in Nat
  BY <1>2, <1>3, <1>4, TotalMovesTwice
<1>8. CASE j = i
  BY <1>1, <1>5, <1>7, <1>8
<1>9. CASE j # i
  BY <1>1, <1>5, <1>6, <1>7, <1>9
<1> QED
  BY <1>8, <1>9

\* Nothing changes, or one message is new.
LEMMA SumGrows ==
    ASSUME DeliveryTypeOK, DeliveryTypeOK', NEW i \in Jobs,
           orphaned' = orphaned, worker' = worker,
           stream' = stream \/ stream' = [stream EXCEPT ![i][0] = @ + 1],
           NEW j \in Jobs, NEW before \in [Tries -> Nat], NEW after \in [Tries -> Nat]
    PROVE  /\ Sum(j, before, after) \in Nat /\ Sum(j, before, after)' \in Nat
           /\ Sum(j, before, after)' =
                Sum(j, before, after) + (IF j = i /\ stream' # stream THEN before[0] ELSE 0)
<1> DEFINE f == Weight(j, before, after)
           e == Weight(j, before, after)'
           g == <<0, "stream">>
<1>1. Sum(j, before, after) = Total(Places, f) /\ Sum(j, before, after)' = Total(Places, e)
  BY DEF Sum, Total, Units, Places
<1>2. f \in [Places -> Nat] /\ e \in [Places -> Nat] /\ g \in Places
  BY WeightIs, WeightIsNext, TriesAre DEF Places
<1>w. /\ \A k \in Tries : /\ f[<<k, "stream">>] = stream[j][k] * before[k]
                          /\ f[<<k, "orphaned">>] = orphaned[j][k] * before[k]
      /\ \A v \in Workers : /\ f[<<v, "worker">>] = InHand(v, j, before, after)
                            /\ f[<<v, "worker">>] \in Nat
  BY WeightIs
<1>n. /\ \A k \in Tries : /\ e[<<k, "stream">>] = stream'[j][k] * before[k]
                          /\ e[<<k, "orphaned">>] = orphaned'[j][k] * before[k]
      /\ \A v \in Workers : /\ e[<<v, "worker">>] = InHand(v, j, before, after)'
                            /\ e[<<v, "worker">>] \in Nat
  BY WeightIsNext
<1> HIDE DEF f, e
<1>3. \A q \in Jobs, k \in Tries : stream'[q][k] = stream[q][k] \/ (q = i /\ k = 0)
  BY TriesAre DEF DeliveryTypeOK
<1>4. ASSUME NEW q \in Places \ {g} PROVE e[q] = f[q]
  <2>1. ASSUME NEW k \in Tries, q = <<k, "stream">> PROVE e[q] = f[q]
    <3>1. stream'[j][k] = stream[j][k]
      BY <1>3, <2>1
    <3> QED
      BY <2>1, <3>1, <1>w, <1>n
  <2>2. ASSUME NEW k \in Tries, q = <<k, "orphaned">> PROVE e[q] = f[q]
    BY <2>2, <1>w, <1>n
  <2>3. ASSUME NEW v \in Workers, q = <<v, "worker">> PROVE e[q] = f[q]
    <3>1. InHand(v, j, before, after)' = InHand(v, j, before, after)
      BY DEF InHand
    <3> QED
      BY <2>3, <3>1, <1>w, <1>n
  <2> QED
    BY <2>1, <2>2, <2>3, PlaceIs
<1>5. /\ f[g] = stream[j][0] * before[0] /\ e[g] = stream'[j][0] * before[0]
      /\ f[g] \in Nat /\ e[g] \in Nat
  BY <1>2, <1>w, <1>n, TriesAre
<1>6. stream[j][0] \in Nat /\ before[0] \in Nat
  BY TriesAre DEF DeliveryTypeOK
<1>7. e[g] = f[g] + (IF j = i /\ stream' # stream THEN before[0] ELSE 0)
  <2>1. CASE stream' = stream
    BY <1>5, <2>1
  <2>2. CASE stream' # stream /\ j = i
    <3>1. stream'[j][0] = stream[j][0] + 1
      BY <2>2, TriesAre DEF DeliveryTypeOK
    <3>2. (stream[j][0] + 1) * before[0] = stream[j][0] * before[0] + before[0]
      BY <1>6, OneMore
    <3> QED
      BY <1>5, <2>2, <3>1, <3>2
  <2>3. CASE stream' # stream /\ j # i
    <3>1. stream'[j][0] = stream[j][0]
      BY <2>3, <1>3, TriesAre
    <3> QED
      BY <1>5, <2>3, <3>1
  <2> QED
    BY <2>1, <2>2, <2>3
<1> HIDE DEF g
<1>8. /\ Total(Places, e) = Total(Places, f) + e[g] - f[g]
      /\ Total(Places, e) \in Nat /\ Total(Places, f) \in Nat
  BY <1>2, <1>4, TotalMoves
<1> QED
  BY <1>1, <1>5, <1>6, <1>7, <1>8

-----------------------------------------------------------------------------
(* What the steps do to a weight *)

LEMMA WorkerMoves ==
    ASSUME DeliveryTypeOK, DeliveryTypeOK', NEW w \in Workers,
           stream' = stream, orphaned' = orphaned,
           \A v \in Workers \ {w} : Same(v),
           NEW j \in Jobs, NEW before \in [Tries -> Nat], NEW after \in [Tries -> Nat]
    PROVE  /\ Sum(j, before, after) \in Nat /\ Sum(j, before, after)' \in Nat
           /\ Sum(j, before, after)' =
                Sum(j, before, after) + InHand(w, j, before, after)' - InHand(w, j, before, after)
<1>1. stream[j][0] * before[0] \in Nat /\ 0 \in Tries
  BY WeightIs, TriesAre DEF DeliveryTypeOK
<1>2. InHand(w, j, before, after)' \in Nat /\ InHand(w, j, before, after) \in Nat
  BY WeightIs, WeightIsNext
<1> DEFINE x == stream[j][0] * before[0]
<1>3. /\ Sum(j, before, after) \in Nat /\ Sum(j, before, after)' \in Nat
      /\ Sum(j, before, after)' =
           Sum(j, before, after)
           + (x - x) + InHand(w, j, before, after)' - InHand(w, j, before, after)
  BY <1>1, StreamMoves
<1> HIDE DEF x
<1> QED
  BY <1>1, <1>2, <1>3 DEF x

\* Getting a message moves its weight to the worker.
LEMMA GetsKeepsSum ==
    ASSUME DeliveryTypeOK, DeliveryTypeOK', NEW w \in Workers, NEW i \in Jobs, NEW l \in Tries,
           Gets(w, i, l),
           NEW j \in Jobs, NEW before \in [Tries -> Nat], NEW after \in [Tries -> Nat]
    PROVE  Sum(j, before, after)' = Sum(j, before, after) /\ Sum(j, before, after) \in Nat
<1> USE DEF Same
<1>0. /\ stream \in [Jobs -> [Tries -> Nat]] /\ orphaned \in [Jobs -> [Tries -> Nat]]
      /\ worker \in [Workers -> Executions] /\ worker[w] \in Executions
  BY DEF DeliveryTypeOK
<1>1. /\ \A v \in Workers \ {w} : worker'[v] = worker[v]
      /\ worker'[w].pc = "run" /\ worker'[w].job = i /\ worker'[w].tries = l
      /\ worker[w].job = NoJob
  BY <1>0, ExecutionIs DEF Gets, Executing
<1>2. /\ InHand(w, j, before, after) = 0
      /\ InHand(w, j, before, after)' = IF j = i THEN before[l] ELSE 0
  BY <1>1 DEF InHand
<1>3. before[l] \in Nat
  OBVIOUS
<1>4. CASE /\ stream[i][l] > 0 /\ stream' = [stream EXCEPT ![i][l] = @ - 1]
           /\ orphaned' = orphaned
  <2>1. \A q \in Jobs, k \in Tries : stream'[q][k] = stream[q][k] \/ (q = i /\ k = l)
    BY <1>0, <1>4
  <2>2. stream'[i][l] \in Nat /\ stream[i][l] = stream'[i][l] + 1
    BY <1>0, <1>4
  <2>3. stream[i][l] * before[l] = stream'[i][l] * before[l] + before[l]
    BY <1>3, <2>2, OneMore
  <2>4. /\ Sum(j, before, after) \in Nat
        /\ Sum(j, before, after)' =
             Sum(j, before, after)
             + (IF j = i THEN stream'[i][l] * before[l] - stream[i][l] * before[l] ELSE 0)
             + InHand(w, j, before, after)' - InHand(w, j, before, after)
    BY <1>1, <1>4, <2>1, StreamMoves
  <2>5. stream'[i][l] * before[l] \in Nat
    BY <1>3, <2>2, OneMore
  <2> QED
    BY <1>2, <1>3, <2>3, <2>4, <2>5
<1>5. CASE /\ orphaned[i][l] > 0 /\ orphaned' = [orphaned EXCEPT ![i][l] = @ - 1]
           /\ stream' = stream
  <2>1. \A q \in Jobs, k \in Tries : orphaned'[q][k] = orphaned[q][k] \/ (q = i /\ k = l)
    BY <1>0, <1>5
  <2>2. orphaned'[i][l] \in Nat /\ orphaned[i][l] = orphaned'[i][l] + 1
    BY <1>0, <1>5
  <2>3. orphaned[i][l] * before[l] = orphaned'[i][l] * before[l] + before[l]
    BY <1>3, <2>2, OneMore
  <2>4. /\ Sum(j, before, after) \in Nat
        /\ Sum(j, before, after)' =
             Sum(j, before, after)
             + (IF j = i THEN orphaned'[i][l] * before[l] - orphaned[i][l] * before[l] ELSE 0)
             + InHand(w, j, before, after)' - InHand(w, j, before, after)
    BY <1>1, <1>5, <2>1, PendingMoves
  <2>5. orphaned'[i][l] * before[l] \in Nat
    BY <1>3, <2>2, OneMore
  <2> QED
    BY <1>2, <1>3, <2>3, <2>4, <2>5
<1> QED
  BY <1>4, <1>5 DEF Gets

\* The weight in a worker's hand while it executes a message.
LEMMA ExecutesMovesSum ==
    ASSUME DeliveryTypeOK, DeliveryTypeOK', NEW w \in Workers, worker[w].pc \in {"run", "again"},
           NEW label \in {"again", "error", "ack"}, worker'[w].pc = label,
           worker'[w].job = worker[w].job, worker'[w].tries = worker[w].tries,
           \A v \in Workers \ {w} : worker'[v] = worker[v],
           stream' = stream, orphaned' = orphaned,
           NEW j \in Jobs, NEW before \in [Tries -> Nat], NEW after \in [Tries -> Nat]
    PROVE  /\ Sum(j, before, after) \in Nat /\ Sum(j, before, after)' \in Nat
           /\ worker[w].tries \in Tries
           /\ Sum(j, before, after)' =
                IF j # worker[w].job \/ label = "again" THEN Sum(j, before, after)
                ELSE IF label = "error"
                     THEN Sum(j, before, after) + after[worker[w].tries] - before[worker[w].tries]
                     ELSE Sum(j, before, after) - before[worker[w].tries]
<1> USE DEF Same
<1>0. worker \in [Workers -> Executions] /\ worker[w].pc # "idle" /\ worker[w].tries \in Tries
  BY ExecutionIs DEF DeliveryTypeOK
<1>2. before[worker[w].tries] \in Nat /\ after[worker[w].tries] \in Nat
  BY <1>0
<1>3. InHand(w, j, before, after) = IF j # worker[w].job THEN 0 ELSE before[worker[w].tries]
  BY DEF InHand
<1>4. InHand(w, j, before, after)' =
        IF j # worker[w].job \/ label = "ack" THEN 0
        ELSE IF label = "error" THEN after[worker[w].tries] ELSE before[worker[w].tries]
  BY DEF InHand
<1>5. /\ Sum(j, before, after) \in Nat /\ Sum(j, before, after)' \in Nat
      /\ Sum(j, before, after)' =
           Sum(j, before, after) + InHand(w, j, before, after)' - InHand(w, j, before, after)
  BY WorkerMoves
<1> QED
  BY <1>0, <1>2, <1>3, <1>4, <1>5

\* A retry is a new message in place of the one that failed.
LEMMA OnErrorMovesSum ==
    ASSUME DeliveryTypeOK, DeliveryTypeOK', NEW w \in Workers, OnError(w),
           NEW j \in Jobs, NEW before \in [Tries -> Nat], NEW after \in [Tries -> Nat]
    PROVE  LET l == worker[w].tries
           IN  /\ Sum(j, before, after) \in Nat /\ Sum(j, before, after)' \in Nat
               /\ l \in Tries
               /\ j # worker[w].job => Sum(j, before, after)' = Sum(j, before, after)
               /\ j = worker[w].job /\ ~Retryable(j, l) =>
                     Sum(j, before, after)' = Sum(j, before, after) - after[l]
               /\ j = worker[w].job /\ Retryable(j, l) =>
                     /\ l + 1 \in Tries
                     /\ Sum(j, before, after)' = Sum(j, before, after) + before[l + 1] - after[l]
<1> USE DEF Same
<1> DEFINE i == worker[w].job  l == worker[w].tries
<1>0. /\ stream \in [Jobs -> [Tries -> Nat]] /\ worker \in [Workers -> Executions]
      /\ worker[w].pc = "error" /\ i \in Jobs /\ l \in Tries
  BY ExecutionIs DEF DeliveryTypeOK, OnError
<1>1. /\ \A v \in Workers \ {w} : worker'[v] = worker[v]
      /\ worker'[w].pc = "ack"
  BY <1>0, MovesOn DEF OnError
<1>2. after[l] \in Nat /\ orphaned' = orphaned
  BY <1>0 DEF OnError
<1>3. /\ InHand(w, j, before, after) = IF j # i THEN 0 ELSE after[l]
      /\ InHand(w, j, before, after)' = 0
  BY <1>0, <1>1 DEF InHand
<1>4. CASE ~Retryable(i, l)
  <2>1. stream' = stream
    BY <1>4 DEF OnError
  <2>2. /\ Sum(j, before, after) \in Nat /\ Sum(j, before, after)' \in Nat
        /\ Sum(j, before, after)' =
             Sum(j, before, after) + InHand(w, j, before, after)' - InHand(w, j, before, after)
    BY <1>1, <1>2, <2>1, WorkerMoves
  <2> QED
    BY <1>0, <1>2, <1>3, <1>4, <2>2
<1>5. CASE Retryable(i, l)
  <2>1. l + 1 \in Tries /\ stream' = [stream EXCEPT ![i][l + 1] = @ + 1]
    BY <1>0, <1>5 DEF OnError, Retryable, RetryLabel, Tries
  <2> HIDE DEF i, l
  <2>2. \A q \in Jobs, k \in Tries : stream'[q][k] = stream[q][k] \/ (q = i /\ k = l + 1)
    BY <1>0, <2>1
  <2>3. /\ stream'[i][l + 1] = stream[i][l + 1] + 1 /\ stream[i][l + 1] \in Nat
        /\ before[l + 1] \in Nat
    BY <1>0, <2>1
  <2>4. /\ stream'[i][l + 1] * before[l + 1] = stream[i][l + 1] * before[l + 1] + before[l + 1]
        /\ stream[i][l + 1] * before[l + 1] \in Nat
    BY <2>3, OneMore
  <2>5. /\ Sum(j, before, after) \in Nat /\ Sum(j, before, after)' \in Nat
        /\ Sum(j, before, after)' =
             Sum(j, before, after)
             + (IF j = i THEN stream'[i][l + 1] * before[l + 1] - stream[i][l + 1] * before[l + 1]
                ELSE 0)
             + InHand(w, j, before, after)' - InHand(w, j, before, after)
    <3>1. PICK c \in Jobs, m \in Tries : c = i /\ m = l + 1
      BY <1>0, <2>1
    <3>2. \A q \in Jobs, k \in Tries : stream'[q][k] = stream[q][k] \/ (q = c /\ k = m)
      BY <2>2, <3>1
    <3>3. /\ Sum(j, before, after) \in Nat /\ Sum(j, before, after)' \in Nat
          /\ Sum(j, before, after)' =
               Sum(j, before, after)
               + (IF j = c THEN stream'[c][m] * before[m] - stream[c][m] * before[m] ELSE 0)
               + InHand(w, j, before, after)' - InHand(w, j, before, after)
      BY <1>1, <1>2, <3>2, StreamMoves
    <3> QED
      BY <3>1, <3>3
  <2>6. Sum(j, before, after)' =
            Sum(j, before, after) + (IF j = i THEN before[l + 1] - after[l] ELSE 0)
    BY <1>2, <1>3, <2>3, <2>4, <2>5
  <2> QED
    BY <1>0, <1>5, <2>1, <2>5, <2>6 DEF i, l
<1> QED
  BY <1>4, <1>5

\* An acknowledged message weighs nothing any more.
LEMMA AckMovesSum ==
    ASSUME DeliveryTypeOK, DeliveryTypeOK', NEW w \in Workers, Ack(w),
           NEW j \in Jobs, NEW before \in [Tries -> Nat], NEW after \in [Tries -> Nat]
    PROVE  /\ Sum(j, before, after) \in Nat /\ Sum(j, before, after)' \in Nat
           /\ Sum(j, before, after)' <= Sum(j, before, after)
<1> DEFINE i == worker[w].job  l == worker[w].tries
<1>0. /\ orphaned \in [Jobs -> [Tries -> Nat]] /\ worker \in [Workers -> Executions]
      /\ i \in Jobs /\ l \in Tries
  BY ExecutionIs DEF DeliveryTypeOK, Ack
<1>1. /\ \A v \in Workers \ {w} : Same(v)
      /\ worker[w].pc = "ack" /\ worker'[w].job = NoJob /\ stream' = stream
  BY <1>0, AckIs DEF Ack, Idle
<1>2. InHand(w, j, before, after) = 0 /\ InHand(w, j, before, after)' = 0
  BY <1>1 DEF InHand
<1>3. CASE UNCHANGED orphaned
  <2>1. /\ Sum(j, before, after) \in Nat /\ Sum(j, before, after)' \in Nat
        /\ Sum(j, before, after)' =
             Sum(j, before, after) + InHand(w, j, before, after)' - InHand(w, j, before, after)
    BY <1>1, <1>3, WorkerMoves
  <2> QED
    BY <1>2, <2>1
<1>4. CASE orphaned[i][l] > 0 /\ orphaned' = [orphaned EXCEPT ![i][l] = @ - 1]
  <2>1. PICK c \in Jobs, m \in Tries : c = i /\ m = l
    BY <1>0
  <2> HIDE DEF i, l
  <2>2. \A q \in Jobs, k \in Tries : orphaned'[q][k] = orphaned[q][k] \/ (q = c /\ k = m)
    BY <1>0, <1>4, <2>1
  <2>3. /\ orphaned'[c][m] \in Nat /\ orphaned[c][m] = orphaned'[c][m] + 1
        /\ before[m] \in Nat
    BY <1>0, <1>4, <2>1
  <2>4. /\ orphaned[c][m] * before[m] = orphaned'[c][m] * before[m] + before[m]
        /\ orphaned'[c][m] * before[m] \in Nat
    BY <2>3, OneMore
  <2>5. /\ Sum(j, before, after) \in Nat /\ Sum(j, before, after)' \in Nat
        /\ Sum(j, before, after)' =
             Sum(j, before, after)
             + (IF j = c THEN orphaned'[c][m] * before[m] - orphaned[c][m] * before[m] ELSE 0)
             + InHand(w, j, before, after)' - InHand(w, j, before, after)
    BY <1>1, <2>2, PendingMoves
  <2> QED
    BY <1>2, <2>3, <2>4, <2>5
<1> QED
  BY <1>3, <1>4 DEF Ack

\* A claim from a slow worker adds what its message weighs before an execution.
LEMMA ClaimMovesSum ==
    ASSUME DeliveryTypeOK, DeliveryTypeOK', NEW w \in Workers, NEW v \in Workers, ClaimSlow(w, v),
           NEW j \in Jobs, NEW before \in [Tries -> Nat], NEW after \in [Tries -> Nat]
    PROVE  /\ Sum(j, before, after) \in Nat /\ Sum(j, before, after)' \in Nat
           /\ worker[v].tries \in Tries
           /\ Sum(j, before, after)' <= Sum(j, before, after) + before[worker[v].tries]
<1>1. /\ \A u \in Workers \ {w} : Same(u)
      /\ worker[w].job = NoJob /\ worker[v].tries \in Tries
      /\ worker'[w].pc = "run" /\ worker'[w].job = worker[v].job
      /\ worker'[w].tries = worker[v].tries
      /\ stream' = stream /\ orphaned' = orphaned
  <2>1. worker \in [Workers -> Executions]
    BY DEF DeliveryTypeOK
  <2>2. worker[w].job = NoJob
    BY <2>1, ClaimIs DEF Idle
  <2>3. stream' = stream /\ orphaned' = orphaned
    BY DEF ClaimSlow
  <2> QED
    BY <2>1, <2>2, <2>3, ClaimIs
<1>2. /\ InHand(w, j, before, after) = 0
      /\ InHand(w, j, before, after)' = IF j = worker[v].job THEN before[worker[v].tries] ELSE 0
  BY <1>1 DEF InHand
<1>3. /\ Sum(j, before, after) \in Nat /\ Sum(j, before, after)' \in Nat
      /\ Sum(j, before, after)' =
           Sum(j, before, after) + InHand(w, j, before, after)' - InHand(w, j, before, after)
  BY <1>1, WorkerMoves
<1>4. before[worker[v].tries] \in Nat
  BY <1>1
<1> QED
  BY <1>1, <1>2, <1>3, <1>4

\* The message of a dead worker weighs at most what it weighs before its execution.
LEMMA DieMovesSum ==
    ASSUME DeliveryTypeOK, DeliveryTypeOK', NEW w \in Workers, Die(w),
           NEW j \in Jobs, NEW before \in [Tries -> Nat], NEW after \in [Tries -> Nat]
    PROVE  /\ Sum(j, before, after) \in Nat /\ Sum(j, before, after)' \in Nat
           /\ worker[w].tries \in Tries
           /\ Sum(j, before, after)' <= Sum(j, before, after) + before[worker[w].tries]
<1> USE DEF Same
<1> DEFINE i == worker[w].job  l == worker[w].tries
<1>0. /\ orphaned \in [Jobs -> [Tries -> Nat]] /\ worker \in [Workers -> Executions]
      /\ i \in Jobs /\ l \in Tries
  BY ExecutionIs DEF DeliveryTypeOK, Die
<1>1. /\ \A v \in Workers \ {w} : worker'[v] = worker[v]
      /\ worker'[w].job = NoJob /\ stream' = stream
      /\ orphaned' = orphaned \/ orphaned' = [orphaned EXCEPT ![i][l] = @ + 1]
  BY <1>0 DEF Die, Idle, Orphan
<1>2. InHand(w, j, before, after) \in Nat /\ InHand(w, j, before, after)' = 0
  BY <1>1, WeightIs DEF InHand
<1> HIDE DEF i, l
<1>3. \A q \in Jobs, k \in Tries : orphaned'[q][k] = orphaned[q][k] \/ (q = i /\ k = l)
  BY <1>0, <1>1
<1>4. /\ orphaned'[i][l] = orphaned[i][l] + 1 \/ orphaned'[i][l] = orphaned[i][l]
      /\ orphaned[i][l] \in Nat /\ before[l] \in Nat
  BY <1>0, <1>1
<1>5. /\ \/ orphaned'[i][l] * before[l] = orphaned[i][l] * before[l] + before[l]
         \/ orphaned'[i][l] * before[l] = orphaned[i][l] * before[l]
      /\ orphaned[i][l] * before[l] \in Nat
  BY <1>4, OneMore
<1>6. /\ Sum(j, before, after) \in Nat /\ Sum(j, before, after)' \in Nat
      /\ Sum(j, before, after)' =
           Sum(j, before, after)
           + (IF j = i THEN orphaned'[i][l] * before[l] - orphaned[i][l] * before[l] ELSE 0)
           + InHand(w, j, before, after)' - InHand(w, j, before, after)
  <2>1. PICK c \in Jobs, m \in Tries : c = i /\ m = l
    BY <1>0
  <2>2. \A q \in Jobs, k \in Tries : orphaned'[q][k] = orphaned[q][k] \/ (q = c /\ k = m)
    BY <1>3, <2>1
  <2>3. /\ Sum(j, before, after) \in Nat /\ Sum(j, before, after)' \in Nat
        /\ Sum(j, before, after)' =
             Sum(j, before, after)
             + (IF j = c THEN orphaned'[c][m] * before[m] - orphaned[c][m] * before[m] ELSE 0)
             + InHand(w, j, before, after)' - InHand(w, j, before, after)
    BY <1>1, <2>2, PendingMoves
  <2> QED
    BY <2>1, <2>3
<1>7. Sum(j, before, after)' <= Sum(j, before, after) + before[l]
  BY <1>2, <1>4, <1>5, <1>6
<1> QED
  BY <1>0, <1>6, <1>7 DEF l

-----------------------------------------------------------------------------
(* Executions are counted *)

LEMMA WeightsAre ==
    ASSUME NEW j \in Jobs
    PROVE  /\ One \in [Tries -> Nat]
           /\ Left(j) \in [Tries -> Nat] /\ LeftAfter(j) \in [Tries -> Nat]
           /\ \A k \in Tries :
                  /\ One[k] = 1
                  /\ Left(j)[k] <= BudgetOf(j)
                  /\ k < BudgetOf(j) =>
                        /\ Left(j)[k] = BudgetOf(j) - k
                        /\ LeftAfter(j)[k] = BudgetOf(j) - (k + 1)
           /\ Left(j)[0] = BudgetOf(j)
  BY TriesAre DEF One, Left, LeftAfter

\* The two sums that the invariant bounds.
Chains(j) == Sum(j, One, One)
Remaining(j) == Sum(j, Left(j), LeftAfter(j))

Counted(j) ==
    /\ confirmed[j] + Chains(j) <= Grants(j)
    /\ failed[j] + Remaining(j) <= BudgetOf(j) * Grants(j)

LEMMA CountedIs ==
    /\ ExecutionsAreCounted <=> \A j \in Jobs : Counted(j)
    /\ ExecutionsAreCounted' <=> \A j \in Jobs : Counted(j)'
  BY DEF ExecutionsAreCounted, Counted, Chains, Remaining, Sum

LEMMA SumsPrimed ==
    ASSUME NEW j \in Jobs
    PROVE  /\ Chains(j)' = Sum(j, One, One)'
           /\ Remaining(j)' = Sum(j, Left(j), LeftAfter(j))'
  BY DEF Chains, Remaining

\* A step that makes up for what it adds: credit is 1 if a web process enqueued a
\* message of the job, a worker died, or a message was claimed from a slow one.
LEMMA CountedFrom ==
    ASSUME DeliveryTypeOK, DeliveryTypeOK', NEW j \in Jobs, Counted(j), NEW credit \in {0, 1},
           enqueued'[j] + deaths' + slow' = enqueued[j] + deaths + slow + credit,
           Chains(j) \in Nat, Chains(j)' \in Nat, Remaining(j) \in Nat, Remaining(j)' \in Nat,
           confirmed'[j] + Chains(j)' <= confirmed[j] + Chains(j) + credit,
           failed'[j] + Remaining(j)' <=
               failed[j] + Remaining(j) + (IF credit = 1 THEN BudgetOf(j) ELSE 0)
    PROVE  Counted(j)'
<1>1. /\ confirmed[j] \in Nat /\ confirmed'[j] \in Nat /\ failed[j] \in Nat /\ failed'[j] \in Nat
      /\ enqueued[j] \in Nat /\ enqueued'[j] \in Nat /\ deaths \in Nat /\ deaths' \in Nat
      /\ slow \in Nat /\ slow' \in Nat
      /\ BudgetOf(j) \in Nat
  BY TriesAre DEF DeliveryTypeOK
<1> DEFINE n == Grants(j)
           B == BudgetOf(j)
<1>2. n \in Nat /\ B \in Nat /\ Grants(j)' = n + credit
  BY <1>1 DEF Grants
<1>3. confirmed[j] + Chains(j) <= n /\ failed[j] + Remaining(j) <= B * n
  BY DEF Counted
<1>4. Counted(j)' <=> /\ confirmed'[j] + Chains(j)' <= n + credit
                      /\ failed'[j] + Remaining(j)' <= B * (n + credit)
  BY <1>2 DEF Counted, BudgetOf
<1>5. B * (n + credit) = B * n + (IF credit = 1 THEN B ELSE 0) /\ B * n \in Nat
  <2>1. \A x, y \in Nat : x * (y + 1) = x * y + x /\ x * (y + 0) = x * y /\ x * y \in Nat
    OBVIOUS
  <2>2. B * (n + 1) = B * n + B /\ B * (n + 0) = B * n /\ B * n \in Nat
    BY <1>2, <2>1
  <2>3. CASE credit = 0
    BY <1>2, <2>2, <2>3
  <2>4. CASE credit = 1
    BY <1>2, <2>2, <2>4
  <2> QED
    BY <2>3, <2>4
<1>6. failed'[j] + Remaining(j)' <= failed[j] + Remaining(j) + (IF credit = 1 THEN B ELSE 0)
  OBVIOUS
<1> HIDE DEF n, B
<1> QED
  BY <1>1, <1>2, <1>3, <1>4, <1>5, <1>6

LEMMA CountedStep ==
    ASSUME DeliveryTypeOK, DeliveryTypeOK', MessagesAreGenuine, ExecutionsAreCounted, DeliveryNext
    PROVE  ExecutionsAreCounted'
<1> USE DEF webVars, history
<1> SUFFICES ASSUME NEW j \in Jobs PROVE Counted(j)'
  BY CountedIs
<1>0. Counted(j)
  BY CountedIs
<1>1. /\ confirmed \in [Jobs -> Nat] /\ failed \in [Jobs -> Nat] /\ enqueued \in [Jobs -> Nat]
      /\ deaths \in Nat /\ slow \in Nat /\ BudgetOf(j) \in Nat /\ worker \in [Workers -> Executions]
      /\ \A w \in Workers : worker[w] \in Executions
  BY TriesAre DEF DeliveryTypeOK
<1>2. CASE WebOnly
  <2>1. Chains(j)' = Chains(j) /\ Chains(j) \in Nat
    BY <1>2, WeightsAre, SumGrows DEF WebOnly, Chains
  <2>2. Remaining(j)' = Remaining(j) /\ Remaining(j) \in Nat
    BY <1>2, WeightsAre, SumsPrimed, SumGrows DEF WebOnly, Remaining
  <2> QED
    BY <1>0, <1>1, <1>2, <2>1, <2>2, CountedFrom DEF WebOnly
<1>3. ASSUME NEW i \in Jobs, Enqueues(i) PROVE Counted(j)'
  <2>0. /\ orphaned' = orphaned /\ worker' = worker /\ confirmed' = confirmed /\ failed' = failed
        /\ deaths' = deaths /\ slow' = slow
        /\ stream' = [stream EXCEPT ![i][0] = @ + 1] /\ enqueued' = [enqueued EXCEPT ![i] = @ + 1]
    BY <1>3 DEF Enqueues, Kiq
  <2>s. \A b, a \in [Tries -> Nat] :
            /\ Sum(j, b, a) \in Nat /\ Sum(j, b, a)' \in Nat
            /\ Sum(j, b, a)' = Sum(j, b, a) + (IF j = i /\ stream' # stream THEN b[0] ELSE 0)
    <3> TAKE b, a \in [Tries -> Nat]
    <3> QED
      BY <2>0, SumGrows
  <2>1. /\ Chains(j) \in Nat /\ Chains(j)' \in Nat
        /\ Chains(j)' <= Chains(j) + (IF j = i THEN 1 ELSE 0)
    <3>1. /\ Chains(j) \in Nat /\ Chains(j)' \in Nat
          /\ Chains(j)' = Chains(j) + (IF j = i /\ stream' # stream THEN One[0] ELSE 0)
      BY <2>s, WeightsAre, SumsPrimed DEF Chains
    <3>2. One[0] = 1
      BY WeightsAre, TriesAre
    <3> QED
      BY <3>1, <3>2
  <2>2. /\ Remaining(j) \in Nat /\ Remaining(j)' \in Nat
        /\ Remaining(j)' <= Remaining(j) + (IF j = i THEN BudgetOf(j) ELSE 0)
    <3>1. /\ Remaining(j) \in Nat /\ Remaining(j)' \in Nat
          /\ Remaining(j)' = Remaining(j) + (IF j = i /\ stream' # stream THEN Left(j)[0] ELSE 0)
      BY <2>s, WeightsAre, SumsPrimed DEF Remaining
    <3>2. Left(j)[0] = BudgetOf(j)
      BY WeightsAre
    <3> QED
      BY <1>1, <3>1, <3>2
  <2>3. CASE j = i
    BY <1>0, <1>1, <2>0, <2>1, <2>2, <2>3, CountedFrom
  <2>4. CASE j # i
    BY <1>0, <1>1, <2>0, <2>1, <2>2, <2>4, CountedFrom
  <2> QED
    BY <2>3, <2>4
<1>4. ASSUME NEW w \in Workers, NEW i \in Jobs, NEW l \in Tries, Gets(w, i, l) PROVE Counted(j)'
  <2>1. Chains(j)' = Chains(j) /\ Chains(j) \in Nat
    BY <1>4, WeightsAre, GetsKeepsSum DEF Chains
  <2>2. Remaining(j)' = Remaining(j) /\ Remaining(j) \in Nat
    BY <1>4, WeightsAre, SumsPrimed, GetsKeepsSum DEF Remaining
  <2> QED
    BY <1>0, <1>1, <1>4, <2>1, <2>2, CountedFrom DEF Gets
<1>5. ASSUME NEW w \in Workers, NEW i \in Jobs, Executes(w, i) PROVE Counted(j)'
  <2> DEFINE l == worker[w].tries
  <2>0. /\ stream' = stream /\ orphaned' = orphaned /\ enqueued' = enqueued /\ deaths' = deaths
        /\ slow' = slow
        /\ worker[w].pc \in {"run", "again"} /\ worker[w].pc # "idle" /\ i = worker[w].job
    BY <1>5 DEF Executes
  <2>1. l \in Tries /\ l \in Nat /\ (j = i => l < BudgetOf(j))
    BY <2>0, GenuineIs, TriesAre DEF GenuineIn
  <2>2. ASSUME NEW label \in {"again", "error", "ack"}, worker' = [worker EXCEPT ![w].pc = label]
        PROVE  /\ Chains(j) \in Nat /\ Chains(j)' \in Nat
               /\ Remaining(j) \in Nat /\ Remaining(j)' \in Nat
               /\ j # i \/ label = "again" =>
                     Chains(j)' = Chains(j) /\ Remaining(j)' = Remaining(j)
               /\ j = i /\ label = "error" =>
                     Chains(j)' = Chains(j) /\ Remaining(j)' = Remaining(j) - 1
               /\ j = i /\ label = "ack" =>
                     Chains(j)' = Chains(j) - 1 /\ Remaining(j)' <= Remaining(j)
    <3>s. \A b, a \in [Tries -> Nat] :
              /\ Sum(j, b, a) \in Nat /\ Sum(j, b, a)' \in Nat
              /\ Sum(j, b, a)' = IF j # i \/ label = "again" THEN Sum(j, b, a)
                                 ELSE IF label = "error" THEN Sum(j, b, a) + a[l] - b[l]
                                 ELSE Sum(j, b, a) - b[l]
      <4> TAKE b, a \in [Tries -> Nat]
      <4>1. worker[w].pc \in {"run", "again"} /\ stream' = stream /\ orphaned' = orphaned
            /\ worker'[w].pc = label /\ worker'[w].job = worker[w].job
            /\ worker'[w].tries = worker[w].tries
            /\ \A v \in Workers \ {w} : worker'[v] = worker[v]
        BY <1>1, <2>0, <2>2, MovesOn
      <4>2. /\ Sum(j, b, a) \in Nat /\ Sum(j, b, a)' \in Nat
            /\ Sum(j, b, a)' = IF j # worker[w].job \/ label = "again" THEN Sum(j, b, a)
                               ELSE IF label = "error"
                                    THEN Sum(j, b, a) + a[worker[w].tries] - b[worker[w].tries]
                                    ELSE Sum(j, b, a) - b[worker[w].tries]
        BY <4>1, ExecutesMovesSum
      <4> QED
        BY <2>0, <4>2
    <3>1. /\ Chains(j) \in Nat /\ Chains(j)' \in Nat
          /\ Chains(j)' = IF j # i \/ label = "again" THEN Chains(j)
                          ELSE IF label = "error" THEN Chains(j) + One[l] - One[l]
                          ELSE Chains(j) - One[l]
      BY <3>s, WeightsAre, SumsPrimed DEF Chains
    <3>2. /\ Remaining(j) \in Nat /\ Remaining(j)' \in Nat
          /\ Remaining(j)' = IF j # i \/ label = "again" THEN Remaining(j)
                             ELSE IF label = "error"
                                  THEN Remaining(j) + LeftAfter(j)[l] - Left(j)[l]
                             ELSE Remaining(j) - Left(j)[l]
      BY <3>s, WeightsAre, SumsPrimed DEF Remaining
    <3>3. /\ One[l] = 1 /\ Left(j)[l] \in Nat
          /\ j = i => Left(j)[l] = BudgetOf(j) - l /\ LeftAfter(j)[l] = BudgetOf(j) - (l + 1)
      BY <2>1, WeightsAre
    <3> HIDE DEF l
    <3> QED
      BY <1>1, <2>1, <3>1, <3>2, <3>3
  <2>3. CASE Succeeds(w, i)
    <3>1. /\ worker' = [worker EXCEPT ![w].pc = "ack"] /\ failed' = failed
          /\ confirmed'[j] = confirmed[j] + (IF j = i THEN 1 ELSE 0)
      BY <1>1, <2>3 DEF Succeeds
    <3>2. CASE j = i
      BY <1>0, <1>1, <2>0, <2>2, <3>1, <3>2, CountedFrom
    <3>3. CASE j # i
      BY <1>0, <1>1, <2>0, <2>2, <3>1, <3>3, CountedFrom
    <3> QED
      BY <3>2, <3>3
  <2>4. CASE Raises(w, i)
    <3>1. /\ worker' = [worker EXCEPT ![w].pc = "error"] /\ confirmed' = confirmed
          /\ failed'[j] = failed[j] + (IF j = i THEN 1 ELSE 0)
      BY <1>1, <2>4 DEF Raises
    <3>2. CASE j = i
      BY <1>0, <1>1, <2>0, <2>2, <3>1, <3>2, CountedFrom
    <3>3. CASE j # i
      BY <1>0, <1>1, <2>0, <2>2, <3>1, <3>3, CountedFrom
    <3> QED
      BY <3>2, <3>3
  <2>5. CASE Skips(w, i)
    <3>1. worker' = [worker EXCEPT ![w].pc = "ack"] /\ failed' = failed /\ confirmed' = confirmed
      BY <2>5 DEF Skips
    <3>2. CASE j = i
      BY <1>0, <1>1, <2>0, <2>2, <3>1, <3>2, CountedFrom
    <3>3. CASE j # i
      BY <1>0, <1>1, <2>0, <2>2, <3>1, <3>3, CountedFrom
    <3> QED
      BY <3>2, <3>3
  <2>6. CASE worker' = [worker EXCEPT ![w].pc = "again"] /\ UNCHANGED history
    BY <1>0, <1>1, <2>0, <2>2, <2>6, CountedFrom
  <2> QED
    BY <1>5, <2>3, <2>4, <2>5, <2>6 DEF Executes
<1>6. ASSUME NEW w \in Workers, OnError(w) PROVE Counted(j)'
  <2> DEFINE i == worker[w].job  l == worker[w].tries
  <2>0. UNCHANGED <<enqueued, deaths, slow, confirmed, failed>>
    BY <1>6 DEF OnError
  <2>1. l \in Tries /\ l \in Nat /\ (j = i => l < BudgetOf(j))
    BY <1>6, GenuineIs, TriesAre DEF GenuineIn, OnError
  <2>2. /\ Chains(j) \in Nat /\ Chains(j)' \in Nat
        /\ j # i => Chains(j)' = Chains(j)
        /\ j = i /\ ~Retryable(j, l) => Chains(j)' = Chains(j) - One[l]
        /\ j = i /\ Retryable(j, l) =>
              l + 1 \in Tries /\ Chains(j)' = Chains(j) + One[l + 1] - One[l]
    BY <1>6, WeightsAre, OnErrorMovesSum DEF Chains
  <2>3. /\ Remaining(j) \in Nat /\ Remaining(j)' \in Nat
        /\ j # i => Remaining(j)' = Remaining(j)
        /\ j = i /\ ~Retryable(j, l) => Remaining(j)' = Remaining(j) - LeftAfter(j)[l]
        /\ j = i /\ Retryable(j, l) =>
              l + 1 \in Tries /\ Remaining(j)' = Remaining(j) + Left(j)[l + 1] - LeftAfter(j)[l]
    BY <1>6, WeightsAre, SumsPrimed, OnErrorMovesSum DEF Remaining
  <2>4. Chains(j)' <= Chains(j)
    <3>1. One[l] = 1 /\ (l + 1 \in Tries => One[l + 1] = 1)
      BY <2>1, WeightsAre
    <3> HIDE DEF i, l
    <3> QED
      BY <2>2, <3>1
  <2>5. Remaining(j)' <= Remaining(j)
    <3>1. LeftAfter(j)[l] \in Nat
      BY <2>1, WeightsAre
    <3>2. j = i /\ Retryable(j, l) => Left(j)[l + 1] = LeftAfter(j)[l]
      <4> SUFFICES ASSUME j = i, Retryable(j, l) PROVE Left(j)[l + 1] = LeftAfter(j)[l]
        OBVIOUS
      <4>1. l + 1 \in Tries /\ l + 1 < BudgetOf(j)
        BY <2>1 DEF Retryable, BudgetOf, Tries
      <4> QED
        BY <2>1, <4>1, WeightsAre
    <3>3. j = i /\ Retryable(j, l) => Left(j)[l + 1] \in Nat
      BY <3>1, <3>2
    <3> HIDE DEF i, l
    <3> QED
      BY <2>3, <3>1, <3>2, <3>3
  <2> QED
    BY <1>0, <1>1, <2>0, <2>2, <2>3, <2>4, <2>5, CountedFrom
<1>7. ASSUME NEW w \in Workers, Ack(w) PROVE Counted(j)'
  <2>1. Chains(j) \in Nat /\ Chains(j)' \in Nat /\ Chains(j)' <= Chains(j)
    BY <1>7, WeightsAre, SumsPrimed, AckMovesSum DEF Chains
  <2>2. Remaining(j) \in Nat /\ Remaining(j)' \in Nat /\ Remaining(j)' <= Remaining(j)
    BY <1>7, WeightsAre, SumsPrimed, AckMovesSum DEF Remaining
  <2>3. UNCHANGED <<enqueued, deaths, slow, confirmed, failed>>
    BY <1>7 DEF Ack
  <2> QED
    BY <1>0, <1>1, <2>1, <2>2, <2>3, CountedFrom
<1>8. ASSUME NEW w \in Workers, Die(w) PROVE Counted(j)'
  <2> DEFINE l == worker[w].tries
  <2>0. deaths' = deaths + 1 /\ UNCHANGED <<enqueued, slow, confirmed, failed>>
    BY <1>8 DEF Die
  <2>1. /\ Chains(j) \in Nat /\ Chains(j)' \in Nat /\ l \in Tries
        /\ Chains(j)' <= Chains(j) + One[l]
    BY <1>8, WeightsAre, DieMovesSum DEF Chains
  <2>2. /\ Remaining(j) \in Nat /\ Remaining(j)' \in Nat
        /\ Remaining(j)' <= Remaining(j) + Left(j)[l]
    BY <1>8, WeightsAre, SumsPrimed, DieMovesSum DEF Remaining
  <2>3. One[l] = 1 /\ Left(j)[l] <= BudgetOf(j) /\ Left(j)[l] \in Nat
    BY <2>1, WeightsAre
  <2> HIDE DEF l
  <2> QED
    BY <1>0, <1>1, <2>0, <2>1, <2>2, <2>3, CountedFrom
<1>9. ASSUME NEW w \in Workers, NEW v \in Workers, ClaimSlow(w, v) PROVE Counted(j)'
  <2> DEFINE l == worker[v].tries
  <2>0. slow' = slow + 1 /\ UNCHANGED <<enqueued, deaths, confirmed, failed>>
    BY <1>9 DEF ClaimSlow
  <2>1. /\ Chains(j) \in Nat /\ Chains(j)' \in Nat /\ l \in Tries
        /\ Chains(j)' <= Chains(j) + One[l]
    BY <1>9, WeightsAre, ClaimMovesSum DEF Chains
  <2>2. /\ Remaining(j) \in Nat /\ Remaining(j)' \in Nat
        /\ Remaining(j)' <= Remaining(j) + Left(j)[l]
    BY <1>9, WeightsAre, SumsPrimed, ClaimMovesSum DEF Remaining
  <2>3. One[l] = 1 /\ Left(j)[l] <= BudgetOf(j) /\ Left(j)[l] \in Nat
    BY <2>1, WeightsAre
  <2> HIDE DEF l
  <2> QED
    BY <1>0, <1>1, <2>0, <2>1, <2>2, <2>3, CountedFrom
<1> QED
  BY <1>2, <1>3, <1>4, <1>5, <1>6, <1>7, <1>8, <1>9, StepIs

-----------------------------------------------------------------------------
(* The theorems about TaskDelivery *)

LEMMA NothingToCount ==
    ASSUME DeliveryInit, NEW j \in Jobs, NEW before \in [Tries -> Nat], NEW after \in [Tries -> Nat]
    PROVE  Total(Places, Weight(j, before, after)) = 0
<1> DEFINE f == Weight(j, before, after)
<1>1. DeliveryTypeOK
  BY DeliveryInitType
<1>2. \A k \in Tries : stream[j][k] * before[k] = 0 /\ orphaned[j][k] * before[k] = 0
  BY DEF DeliveryInit, NoMessages
<1>3. \A w \in Workers : InHand(w, j, before, after) = 0
  BY DEF DeliveryInit, Idle, InHand
<1>4. ASSUME NEW h \in Places PROVE f[h] = 0
  <2>1. ASSUME NEW k \in Tries, h \in {<<k, "stream">>, <<k, "orphaned">>} PROVE f[h] = 0
    <3>1. f[<<k, "stream">>] = stream[j][k] * before[k]
          /\ f[<<k, "orphaned">>] = orphaned[j][k] * before[k]
      BY <1>1, WeightIs
    <3> HIDE DEF f
    <3>2. f[<<k, "stream">>] = 0 /\ f[<<k, "orphaned">>] = 0
      BY <1>2, <3>1
    <3> QED
      BY <2>1, <3>2
  <2>2. ASSUME NEW w \in Workers, h = <<w, "worker">> PROVE f[h] = 0
    BY <1>1, <1>3, <2>2, WeightIs
  <2> QED
    BY <2>1, <2>2, PlaceIs
<1> HIDE DEF f
<1>5. Units(Places, f) = {}
  BY <1>4 DEF Units
<1> QED
  BY <1>5, FS_EmptySet DEF Total, f

LEMMA DeliveryInitInv == DeliveryInit => DeliveryInv
<1> SUFFICES ASSUME DeliveryInit PROVE DeliveryInv
  OBVIOUS
<1>1. DeliveryTypeOK
  BY DeliveryInitType
<1>2. MessagesAreGenuine
  BY DEF DeliveryInit, MessagesAreGenuine, NoMessages, Idle, Jobs
<1>3. NothingIsLost
  BY DEF DeliveryInit, NothingIsLost, Idle
<1>4. ExecutionsAreCounted
  <2> SUFFICES ASSUME NEW j \in Jobs
               PROVE  /\ confirmed[j] + Total(Places, Weight(j, One, One)) <= Grants(j)
                      /\ failed[j] + Total(Places, Weight(j, Left(j), LeftAfter(j)))
                           <= BudgetOf(j) * Grants(j)
    BY DEF ExecutionsAreCounted
  <2>1. /\ Total(Places, Weight(j, One, One)) = 0
        /\ Total(Places, Weight(j, Left(j), LeftAfter(j))) = 0
    BY WeightsAre, NothingToCount
  <2>2. confirmed[j] = 0 /\ failed[j] = 0 /\ Grants(j) = 0
    BY DEF DeliveryInit, Grants
  <2>3. BudgetOf(j) \in Nat
    BY TriesAre
  <2> QED
    BY <2>1, <2>2, <2>3
<1> QED
  BY <1>1, <1>2, <1>3, <1>4 DEF DeliveryInv

LEMMA DeliveryNextInv == DeliveryInv /\ [DeliveryNext]_deliveryVars => DeliveryInv'
<1> SUFFICES ASSUME DeliveryInv, [DeliveryNext]_deliveryVars PROVE DeliveryInv'
  OBVIOUS
<1>1. DeliveryTypeOK /\ DeliveryTypeOK'
  BY DeliveryTypeStep DEF DeliveryInv
<1>2. CASE DeliveryNext
  BY <1>1, <1>2, GenuineStep, SafeStep, CountedStep DEF DeliveryInv
<1>3. CASE UNCHANGED deliveryVars
  <2>1. MessagesAreGenuine'
    BY <1>3 DEF DeliveryInv, MessagesAreGenuine, Genuine, BudgetOf, deliveryVars, webVars, history
  <2>2. NothingIsLost'
    BY <1>3 DEF DeliveryInv, NothingIsLost, Safe, Secured, Secures, Resolved, Excused, BudgetOf,
                deliveryVars, webVars, history
  <2>3. ExecutionsAreCounted'
    <3> SUFFICES ASSUME NEW j \in Jobs PROVE Counted(j)'
      BY CountedIs
    <3>1. Counted(j) /\ enqueued' = enqueued /\ confirmed' = confirmed /\ failed' = failed
          /\ deaths' = deaths /\ slow' = slow /\ stream' = stream
          /\ orphaned' = orphaned /\ worker' = worker
      BY <1>3, CountedIs DEF DeliveryInv, deliveryVars, webVars, history
    <3>2. \A b, a \in [Tries -> Nat] : Sum(j, b, a)' = Sum(j, b, a)
      BY <3>1 DEF Sum, Total, Units, Places, Weight, InHand
    <3>3. Chains(j)' = Chains(j) /\ Remaining(j)' = Remaining(j)
      BY <3>2, WeightsAre, SumsPrimed DEF Chains, Remaining
    <3> QED
      BY <3>1, <3>3 DEF Counted, BudgetOf, Grants
  <2> QED
    BY <1>1, <2>1, <2>2, <2>3 DEF DeliveryInv
<1> QED
  BY <1>2, <1>3

LEMMA DeliveryInductive == DeliverySpec => []DeliveryInv
  BY DeliveryInitInv, DeliveryNextInv, PTL DEF DeliverySpec

\* The model of the broker and its tasks is type correct.
THEOREM DeliveryTypeCorrect == DeliverySpec => []DeliveryTypeOK
  BY DeliveryInductive, PTL DEF DeliveryInv

\* A job that is accepted is confirmed, excused, out of its budget or has a message
\* somewhere, for any number of workers, deaths, webhooks and executions: what
\* acknowledging after the execution and reclaiming are for (config/tkq.py:35-47).
THEOREM AcceptedIsKept == DeliverySpec => []AcceptedIsNotLost
<1>1. DeliveryInv => AcceptedIsNotLost
  BY DEF DeliveryInv, NothingIsLost, Safe, Secured, Secures, AcceptedIsNotLost, Waiting, Running
<1> QED
  BY <1>1, DeliveryInductive, PTL

\* Enqueued messages, deaths and messages claimed from slow workers bound the
\* executions of a job, whatever its budget: each costs at most one chain of retries
\* (config/tkq.py:21-25, 45-47).
THEOREM NoRetryStorm == DeliverySpec => []ExecutionsBounded
<1>1. ASSUME DeliveryInv PROVE ExecutionsBounded
  <2> SUFFICES ASSUME NEW j \in Jobs
               PROVE  /\ confirmed[j] <= Grants(j)
                      /\ failed[j] <= BudgetOf(j) * Grants(j)
    BY DEF ExecutionsBounded
  <2>1. DeliveryTypeOK /\ Counted(j)
    BY <1>1, CountedIs DEF DeliveryInv
  <2> DEFINE n == BudgetOf(j) * Grants(j)
  <2>2. confirmed[j] \in Nat /\ failed[j] \in Nat /\ Grants(j) \in Nat /\ n \in Nat
    <3>1. /\ confirmed[j] \in Nat /\ failed[j] \in Nat
          /\ BudgetOf(j) \in Nat /\ Grants(j) \in Nat
      BY <2>1, TriesAre DEF DeliveryTypeOK, Grants
    <3> QED
      BY <3>1, OneMore
  <2>3. Chains(j) \in Nat /\ Remaining(j) \in Nat
    BY <2>1, WeightsAre, WeightIs, UnitsFinite DEF Chains, Remaining, Sum
  <2>4. confirmed[j] + Chains(j) <= Grants(j) /\ failed[j] + Remaining(j) <= n
    BY <2>1 DEF Counted
  <2> HIDE DEF n
  <2>5. confirmed[j] <= Grants(j) /\ failed[j] <= n
    BY <2>2, <2>3, <2>4
  <2> QED
    BY <2>5 DEF n
<1> QED
  BY <1>1, DeliveryInductive, PTL
=============================================================================
