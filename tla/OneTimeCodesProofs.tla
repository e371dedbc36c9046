-------------------------- MODULE OneTimeCodesProofs --------------------------
(***************************************************************************)
(* Proofs for OneTimeCodes: for any number of overlapping requests and     *)
(* verifications, deaths and purges, an email has one live code, codes     *)
(* keep their distance, guesses are bounded, and the three operations      *)
(* implement LoginCode.                                                    *)
(***************************************************************************)
EXTENDS OneTimeCodes, FiniteSetTheorems, TLAPS

USE OneTimeCodesAssumption

Req == [pc : {"idle", "begin", "burn", "insert", "enqueue"}, now : Nat]
Ver == [pc : {"idle", "lock", "decide"}, seen : SUBSET Ids, count : Nat, token : Ids \cup {0}]

LEMMA IdsNat == Ids \subseteq Nat \ {0}
  BY DEF Ids

\* A row is unused only if it was inserted last.
LEMMA UnusedIs ==
    ASSUME IInv
    PROVE  /\ Unused = {} \/ Unused = {issued}
           /\ issued \in Unused <=> issued \in Ids /\ row[issued] = "unused"
           /\ issued \in Nat /\ (issued # 0 => issued \in Ids)
<1>1. \A i \in Unused : i = issued
  BY DEF IInv, RowsInOrder, Unused
<1>2. issued \in Nat /\ (issued # 0 => issued \in Ids)
  BY DEF IInv, TypeOK, Ids
<1>3. issued \in Unused <=> issued \in Ids /\ row[issued] = "unused"
  BY DEF Unused
<1> QED
  BY <1>1, <1>2, <1>3

\* The newest of a set with one row is that row.
LEMMA NewestOfOne ==
    ASSUME NEW S \in SUBSET Ids, S # {}, \A i, j \in S : i = j
    PROVE  Newest(S) \in S
<1>1. PICK i \in S : TRUE
  OBVIOUS
<1>2. i <= i
  BY <1>1, IdsNat
<1>3. \E k \in S : \A j \in S : j <= k
  BY <1>1, <1>2, Zenon
<1> QED
  BY <1>3, Zenon DEF Newest

LEMMA InitIInv == Init => IInv
<1> SUFFICES ASSUME Init PROVE IInv
  OBVIOUS
<1>1. TypeOK
  <2>1. req \in [Requests -> Req] /\ ver \in [Verifies -> Ver]
    BY DEF Init, IdleReq, IdleVer, Req, Ver
  <2>2. /\ now \in 0..Horizon /\ issued \in 0..MaxTokens /\ attempts \in [Ids -> 0..MaxAttempts]
        /\ row \in [Ids -> {"none", "unused", "used"}]
        /\ created \in [Ids -> Nat] /\ expires \in [Ids -> Nat]
        /\ compared \in [Ids -> Nat] /\ sessions \in [Ids -> Nat]
        /\ rowLock \in [Ids -> Requests \cup Verifies \cup {None}]
    BY DEF Init
  <2> QED
    BY <2>1, <2>2 DEF Init, TypeOK, Req, Ver
<1>2. RowsInOrder /\ RequestsHoldLocks /\ VerifiesHoldRow /\ GuessesAreCounted
  BY DEF Init, RowsInOrder, RequestsHoldLocks, VerifiesHoldRow, GuessesAreCounted,
         IdleReq, IdleVer
<1>3. CooldownsAreOver /\ CooldownKept
  BY DEF Init, CooldownsAreOver, CooldownKept, IdleReq
<1> QED
  BY <1>1, <1>2, <1>3 DEF IInv

-----------------------------------------------------------------------------
(* Frames: what a step that leaves some variables alone preserves *)

LEMMA RowsFrame ==
    ASSUME IInv, UNCHANGED <<row, attempts, issued>>,
           \A i \in Ids : rowLock'[i] \in {rowLock[i], None}
    PROVE  RowsInOrder'
  BY DEF IInv, RowsInOrder

LEMMA RequestsFrame ==
    ASSUME IInv, UNCHANGED <<row, req, emailLock>>,
           \A i \in Ids : rowLock'[i] = rowLock[i] \/ rowLock[i] \notin Requests
    PROVE  RequestsHoldLocks'
  BY DEF IInv, RequestsHoldLocks, Unused

LEMMA VerifiesFrame ==
    ASSUME IInv, UNCHANGED <<row, attempts, ver>>,
           \A i \in Ids : rowLock'[i] = rowLock[i] \/ rowLock[i] \notin Verifies
    PROVE  VerifiesHoldRow'
  BY DEF IInv, VerifiesHoldRow

LEMMA CooldownsFrame ==
    ASSUME IInv, UNCHANGED <<now, row, created, expires, issued, req>>
    PROVE  CooldownsAreOver' /\ CooldownKept'
  BY DEF IInv, CooldownsAreOver, CooldownKept

-----------------------------------------------------------------------------
(* request_otp *)

LEMMA StartRequestIInv ==
    ASSUME IInv, NEW r \in Requests, StartRequest(r)
    PROVE  IInv'
<1>1. TypeOK'
  <2>1. req' \in [Requests -> Req]
    BY DEF IInv, TypeOK, StartRequest, Req
  <2> QED
    BY <2>1 DEF IInv, TypeOK, StartRequest, tokenVars, Req
<1>2. RowsInOrder' /\ VerifiesHoldRow' /\ GuessesAreCounted'
  BY RowsFrame, VerifiesFrame DEF IInv, StartRequest, tokenVars, GuessesAreCounted
<1>3. RequestsHoldLocks'
  BY DEF IInv, TypeOK, StartRequest, tokenVars, RequestsHoldLocks, Unused
<1>4. CooldownsAreOver' /\ CooldownKept'
  BY DEF IInv, TypeOK, StartRequest, tokenVars, CooldownsAreOver, CooldownKept
<1> QED
  BY <1>1, <1>2, <1>3, <1>4 DEF IInv

\* The last code is either stored, and then its cooldown was looked at, or it was
\* purged after its cooldown.
LEMMA AdmittedAfterCooldown ==
    ASSUME IInv, NEW r \in Requests, req[r].pc = "begin", ~InCooldown(r), issued > 0
    PROVE  created[issued] + Cooldown <= now
<1>1. /\ issued \in Ids /\ issued \in Nat /\ now \in Nat
      /\ req[r].now \in Nat /\ created[issued] \in Nat
  BY DEF IInv, TypeOK, Ids
<1>2. CASE row[issued] = "none"
  BY <1>2 DEF IInv, CooldownsAreOver
<1>3. CASE row[issued] # "none"
  <2> DEFINE rows == {i \in Ids : row[i] # "none"}
  <2>1. issued \in rows /\ \A j \in rows : j <= issued
    BY <1>1, <1>3 DEF IInv, RowsInOrder, Ids
  <2>2. rows \subseteq Nat
    BY DEF Ids
  <2> HIDE DEF rows
  <2>3. /\ Newest(rows) \in rows
        /\ \A j \in rows : j <= Newest(rows)
    BY <2>1, Zenon DEF Newest
  <2>4. Newest(rows) = issued
    <3>1. Newest(rows) <= issued /\ issued <= Newest(rows) /\ Newest(rows) \in Nat
      BY <2>1, <2>2, <2>3, Zenon
    <3> QED
      BY <1>1, <3>1
  <2>5. ~(created[issued] + Cooldown > req[r].now)
    BY <2>1, <2>4 DEF InCooldown, rows
  <2>6. req[r].now <= now
    BY DEF IInv, CooldownsAreOver
  <2> QED
    BY <1>1, <2>5, <2>6
<1> QED
  BY <1>2, <1>3

LEMMA AdmitIInv ==
    ASSUME IInv, NEW r \in Requests, Admit(r)
    PROVE  IInv'
<1>0. /\ emailLock = None /\ emailLock' = r
      /\ req[r].pc = "begin" /\ req' = [req EXCEPT ![r].pc = "burn"]
      /\ UNCHANGED <<now, row, created, expires, attempts, issued, rowLock, ver, parent,
                     compared, sessions>>
  BY DEF Admit, TakeEmailLock, tokenVars
<1>1. TypeOK'
  <2>1. req' \in [Requests -> Req]
    BY <1>0 DEF IInv, TypeOK, Req
  <2> QED
    BY <1>0, <2>1 DEF IInv, TypeOK, Req
<1>2. RowsInOrder' /\ VerifiesHoldRow' /\ GuessesAreCounted'
  BY <1>0, RowsFrame, VerifiesFrame DEF IInv, GuessesAreCounted
<1>3. /\ req'[r].pc = "burn" /\ req'[r].now = req[r].now
      /\ \A q \in Requests : q # r => req'[q] = req[q]
  BY <1>0 DEF IInv, TypeOK
<1>4. \A q \in Requests : req[q].pc \notin {"burn", "insert"}
  BY <1>0 DEF IInv, RequestsHoldLocks
<1>5. RequestsHoldLocks'
  BY <1>0, <1>3, <1>4 DEF RequestsHoldLocks
<1>6. issued > 0 => created[issued] + Cooldown <= now
  BY <1>0, AdmittedAfterCooldown DEF Admit
<1>7. CooldownsAreOver' /\ CooldownKept'
  BY <1>0, <1>3, <1>4, <1>6 DEF IInv, CooldownsAreOver, CooldownKept
<1> QED
  BY <1>1, <1>2, <1>5, <1>7 DEF IInv

\* A request that goes back to idle without a transaction.
LEMMA IdleIInv ==
    ASSUME IInv, NEW r \in Requests, Refuse(r) \/ Enqueue(r)
    PROVE  IInv'
<1>0. /\ req' = [req EXCEPT ![r] = IdleReq]
      /\ UNCHANGED <<now, row, created, expires, attempts, issued, emailLock, rowLock, ver,
                     parent, compared, sessions>>
  BY DEF Refuse, Enqueue, tokenVars
<1>1. TypeOK'
  <2>1. req' \in [Requests -> Req]
    BY <1>0 DEF IInv, TypeOK, Req, IdleReq
  <2> QED
    BY <1>0, <2>1 DEF IInv, TypeOK, Req
<1>2. RowsInOrder' /\ VerifiesHoldRow' /\ GuessesAreCounted'
  BY <1>0, RowsFrame, VerifiesFrame DEF IInv, GuessesAreCounted
<1>3. req'[r].pc = "idle" /\ \A q \in Requests : q # r => req'[q] = req[q]
  BY <1>0 DEF IInv, TypeOK, IdleReq
<1>4. RequestsHoldLocks'
  BY <1>0, <1>3 DEF IInv, RequestsHoldLocks, Unused
<1>5. CooldownsAreOver' /\ CooldownKept'
  BY <1>0, <1>3 DEF IInv, CooldownsAreOver, CooldownKept
<1> QED
  BY <1>1, <1>2, <1>4, <1>5 DEF IInv

\* The UPDATE takes rows that nobody holds: no verification loses its row.
LEMMA BurnIInv ==
    ASSUME IInv, NEW r \in Requests, Burn(r)
    PROVE  IInv'
<1>0. /\ req[r].pc = "burn" /\ req' = [req EXCEPT ![r].pc = "insert"]
      /\ \A i \in Unused : rowLock[i] = None
      /\ rowLock' = [i \in Ids |-> IF i \in Unused THEN r ELSE rowLock[i]]
      /\ UNCHANGED <<now, row, created, expires, attempts, issued, emailLock, ver, parent,
                     compared, sessions>>
  BY DEF Burn, ToBurn, tokenVars
<1>1. TypeOK'
  <2>1. req' \in [Requests -> Req] /\ rowLock' \in [Ids -> Requests \cup Verifies \cup {None}]
    BY <1>0 DEF IInv, TypeOK, Req
  <2> QED
    BY <1>0, <2>1 DEF IInv, TypeOK, Req
<1>2. /\ req'[r].pc = "insert" /\ req'[r].now = req[r].now
      /\ \A q \in Requests : q # r => req'[q] = req[q]
  BY <1>0 DEF IInv, TypeOK
<1>3. RowsInOrder'
  <2>1. \A i \in Ids : i > issued => i \notin Unused
    BY DEF IInv, RowsInOrder, Unused
  <2> QED
    BY <1>0, <2>1 DEF IInv, RowsInOrder
<1>4. VerifiesHoldRow'
  BY <1>0, VerifiesFrame
<1>5. emailLock = r /\ \A q \in Requests : req[q].pc = "insert" => q = r
  BY <1>0 DEF IInv, RequestsHoldLocks
<1>6. RequestsHoldLocks'
  BY <1>0, <1>2, <1>5 DEF IInv, RequestsHoldLocks, Unused
<1>7. GuessesAreCounted' /\ CooldownsAreOver' /\ CooldownKept'
  BY <1>0, <1>2 DEF IInv, GuessesAreCounted, CooldownsAreOver, CooldownKept
<1> QED
  BY <1>1, <1>3, <1>4, <1>6, <1>7 DEF IInv

\* The new row is the only unused one, and comes Cooldown after the one before.
LEMMA IssueIInv ==
    ASSUME IInv, NEW r \in Requests, Issue(r)
    PROVE  IInv'
<1> DEFINE new == issued + 1
<1>0. /\ req[r].pc = "insert" /\ issued < MaxTokens
      /\ issued' = new
      /\ row' = [i \in Ids |-> CASE i = new -> "unused"
                                 [] rowLock[i] = r -> "used"
                                 [] OTHER -> row[i]]
      /\ created' = [created EXCEPT ![new] = now]
      /\ expires' = [expires EXCEPT ![new] = req[r].now + Ttl]
      /\ req' = [req EXCEPT ![r] = [pc |-> "enqueue", now |-> 0]]
      /\ emailLock' = IF emailLock = r THEN None ELSE emailLock
      /\ rowLock' = [i \in Ids |-> IF rowLock[i] = r THEN None ELSE rowLock[i]]
      /\ UNCHANGED <<now, attempts, ver, parent, compared, sessions>>
  BY DEF Issue, EndRequest
<1>1. new \in Ids /\ new \in Nat /\ issued \in Nat /\ now \in Nat /\ req[r].now \in Nat
  BY <1>0 DEF IInv, TypeOK, Ids
<1>2. TypeOK'
  <2>1. /\ created' \in [Ids -> Nat] /\ expires' \in [Ids -> Nat]
        /\ req' \in [Requests -> Req]
        /\ issued' \in 0..MaxTokens
    BY <1>0, <1>1 DEF IInv, TypeOK, Req
  <2>2. row' \in [Ids -> {"none", "unused", "used"}]
    BY <1>0 DEF IInv, TypeOK
  <2>3. /\ rowLock' \in [Ids -> Requests \cup Verifies \cup {None}]
        /\ emailLock' \in Requests \cup {None}
    BY <1>0 DEF IInv, TypeOK
  <2> QED
    BY <1>0, <2>1, <2>2, <2>3 DEF IInv, TypeOK, Req
<1>3. /\ req'[r].pc = "enqueue"
      /\ \A q \in Requests : q # r => req'[q] = req[q]
  BY <1>0 DEF IInv, TypeOK
<1>4. emailLock = r /\ \A q \in Requests : req[q].pc \in {"burn", "insert"} => q = r
  BY <1>0 DEF IInv, RequestsHoldLocks
<1>5. /\ row'[new] = "unused"
      /\ \A i \in Ids : i # new => row'[i] = IF rowLock[i] = r THEN "used" ELSE row[i]
  <2>1. rowLock[new] # r
    <3>1. new > issued /\ r # None
      BY <1>1
    <3> QED
      BY <1>1, <3>1 DEF IInv, RowsInOrder
  <2> HIDE DEF new
  <2> QED
    BY <1>0, <1>1, <2>1
<1>6. RowsInOrder'
  <2>1. ASSUME NEW i \in Ids, row'[i] = "unused" PROVE i = new
    <3>1. CASE i # new
      <4>1. row[i] = "unused" /\ rowLock[i] # r
        BY <1>5, <2>1, <3>1
      <4>2. rowLock[i] = r
        BY <1>0, <4>1 DEF IInv, RequestsHoldLocks, Unused
      <4> QED
        BY <4>1, <4>2
    <3> QED
      BY <3>1
  <2>2. ASSUME NEW i \in Ids, i > new
        PROVE  row'[i] = "none" /\ attempts'[i] = 0 /\ rowLock'[i] = None
    <3>1. i > issued /\ i # new
      BY <1>1, <2>2, IdsNat
    <3>2. row[i] = "none" /\ attempts[i] = 0 /\ rowLock[i] = None
      BY <3>1 DEF IInv, RowsInOrder
    <3> QED
      BY <1>0, <1>5, <3>1, <3>2
  <2> QED
    BY <1>0, <2>1, <2>2 DEF RowsInOrder
<1>7. RequestsHoldLocks'
  BY <1>3, <1>4 DEF RequestsHoldLocks
<1>8. VerifiesHoldRow'
  <2> SUFFICES ASSUME NEW v \in Verifies, ver[v].pc = "decide"
               PROVE  /\ rowLock'[ver[v].token] = v
                      /\ row'[ver[v].token] = "unused"
    BY <1>0 DEF IInv, VerifiesHoldRow
  <2>1. ver[v].token \in Ids /\ rowLock[ver[v].token] = v /\ row[ver[v].token] = "unused"
    BY DEF IInv, VerifiesHoldRow
  <2>2. rowLock[ver[v].token] = r
    BY <1>0, <2>1 DEF IInv, RequestsHoldLocks, Unused
  <2> QED
    BY <2>1, <2>2
<1>9. GuessesAreCounted'
  BY <1>0 DEF IInv, GuessesAreCounted
<1>10. /\ created'[new] = now /\ expires'[new] = req[r].now + Ttl
       /\ \A i \in 1..issued : /\ i # new /\ i \in Ids
                               /\ created'[i] = created[i] /\ expires'[i] = expires[i]
                               /\ created[i] \in Nat /\ expires[i] \in Nat
  <2>1. ASSUME NEW i \in 1..issued PROVE i # new /\ i \in Ids
    BY <1>1 DEF Ids, IInv, TypeOK
  <2>2. created \in [Ids -> Nat] /\ expires \in [Ids -> Nat]
    BY DEF IInv, TypeOK
  <2> HIDE DEF new
  <2> QED
    BY <1>0, <1>1, <2>1, <2>2
<1>11. req[r].now <= now /\ now <= req[r].now + MaxStall
  BY <1>0 DEF IInv, CooldownsAreOver
<1>12. \A i \in 1..issued : created[i] + Cooldown <= now
  <2> SUFFICES ASSUME NEW i \in 1..issued PROVE created[i] + Cooldown <= now
    OBVIOUS
  <2>1. created[issued] + Cooldown <= now
    BY <1>0, <1>1 DEF IInv, CooldownsAreOver
  <2>2. i = issued \/ created[i] + Cooldown <= created[issued]
    BY <1>1 DEF IInv, CooldownKept
  <2>3. created[issued] \in Nat /\ created[i] \in Nat
    BY <1>1, <1>10
  <2> QED
    BY <1>1, <2>1, <2>2, <2>3
<1>13. CooldownKept'
  <2> SUFFICES ASSUME NEW i \in 1..new, NEW j \in 1..new, i < j
               PROVE  created'[i] + Cooldown <= created'[j]
    BY <1>0 DEF CooldownKept
  <2>1. CASE j = new
    <3>1. i \in 1..issued
      BY <1>1, <2>1
    <3> QED
      BY <1>10, <1>12, <2>1, <3>1
  <2>2. CASE j # new
    <3>1. i \in 1..issued /\ j \in 1..issued
      BY <1>1, <2>2
    <3> QED
      BY <1>10, <3>1 DEF IInv, CooldownKept
  <2> QED
    BY <2>1, <2>2
<1>14. CooldownsAreOver'
  <2>1. ASSUME NEW q \in Requests, req'[q].pc \in {"begin", "burn", "insert"}
        PROVE  /\ req'[q].now <= now' /\ now' <= req'[q].now + MaxStall
               /\ req'[q].pc = "begin"
    <3>1. q # r /\ req'[q] = req[q]
      BY <1>3, <2>1
    <3> QED
      BY <1>0, <1>4, <2>1, <3>1 DEF IInv, CooldownsAreOver
  <2>2. ASSUME NEW i \in 1..new PROVE created'[i] + Cooldown <= expires'[i]
    <3>1. CASE i = new
      BY <1>1, <1>10, <1>11, <3>1
    <3>2. CASE i # new
      <4>1. i \in 1..issued
        BY <1>1, <3>2
      <4> QED
        BY <1>10, <4>1 DEF IInv, CooldownsAreOver
    <3> QED
      BY <3>1, <3>2
  <2>3. row'[issued'] # "none"
    BY <1>0, <1>5
  <2> QED
    BY <1>0, <2>1, <2>2, <2>3 DEF CooldownsAreOver
<1> QED
  BY <1>2, <1>6, <1>7, <1>8, <1>9, <1>13, <1>14 DEF IInv

LEMMA RequestDiesIInv ==
    ASSUME IInv, NEW r \in Requests, RequestDies(r)
    PROVE  IInv'
<1>0. /\ req' = [req EXCEPT ![r] = IdleReq]
      /\ emailLock' = IF emailLock = r THEN None ELSE emailLock
      /\ rowLock' = [i \in Ids |-> IF rowLock[i] = r THEN None ELSE rowLock[i]]
      /\ UNCHANGED <<now, row, created, expires, attempts, issued, ver, parent, compared,
                     sessions>>
  BY DEF RequestDies, EndRequest, tokenVars
<1>1. TypeOK'
  <2>1. req' \in [Requests -> Req]
    BY <1>0 DEF IInv, TypeOK, Req, IdleReq
  <2>2. /\ rowLock' \in [Ids -> Requests \cup Verifies \cup {None}]
        /\ emailLock' \in Requests \cup {None}
    BY <1>0 DEF IInv, TypeOK
  <2> QED
    BY <1>0, <2>1, <2>2 DEF IInv, TypeOK, Req
<1>2. RowsInOrder'
  BY <1>0, RowsFrame
<1>3. VerifiesHoldRow'
  BY <1>0, VerifiesFrame
<1>4. req'[r].pc = "idle" /\ \A q \in Requests : q # r => req'[q] = req[q]
  BY <1>0 DEF IInv, TypeOK, IdleReq
<1>5. RequestsHoldLocks'
  <2>1. ASSUME NEW q \in Requests, req'[q].pc \in {"burn", "insert"} PROVE q # r /\ emailLock' = q
    BY <1>0, <1>4, <2>1 DEF IInv, RequestsHoldLocks
  <2>2. ASSUME NEW q \in Requests, req'[q].pc = "insert", NEW i \in Unused PROVE rowLock'[i] = q
    <3>1. rowLock[i] = q /\ i \in Ids /\ q # r
      BY <1>4, <2>2 DEF IInv, RequestsHoldLocks, Unused
    <3> QED
      BY <1>0, <3>1
  <2>3. Unused' = Unused
    BY <1>0 DEF Unused
  <2> QED
    BY <2>1, <2>2, <2>3 DEF RequestsHoldLocks
<1>6. GuessesAreCounted' /\ CooldownsAreOver' /\ CooldownKept'
  BY <1>0, <1>4 DEF IInv, GuessesAreCounted, CooldownsAreOver, CooldownKept
<1> QED
  BY <1>1, <1>2, <1>3, <1>5, <1>6 DEF IInv
-----------------------------------------------------------------------------
(* verify_otp *)

\* The snapshot has at most one row.
LEMMA SelectIInv ==
    ASSUME IInv, NEW v \in Verifies, Select(v)
    PROVE  IInv'
<1> DEFINE call == [IdleVer EXCEPT !.pc = "lock", !.seen = Unused]
<1>0. /\ ver' = [ver EXCEPT ![v] = call]
      /\ UNCHANGED <<now, row, created, expires, attempts, issued, emailLock, rowLock, req,
                     parent, compared, sessions>>
  BY DEF Select, tokenVars
<1>1. call \in Ver /\ call.pc = "lock" /\ call.seen = Unused
  <2>1. Unused \in SUBSET Ids
    BY DEF Unused
  <2>2. IdleVer \in Ver
    BY DEF IdleVer, Ver
  <2> QED
    BY <2>1, <2>2 DEF Ver
<1> HIDE DEF call
<1>2. /\ ver' \in [Verifies -> Ver]
      /\ ver'[v] = call /\ \A u \in Verifies : u # v => ver'[u] = ver[u]
  BY <1>0, <1>1 DEF IInv, TypeOK, Ver
<1>3. TypeOK'
  BY <1>0, <1>2 DEF IInv, TypeOK, Ver
<1>4. RowsInOrder' /\ RequestsHoldLocks' /\ GuessesAreCounted'
  BY <1>0, RowsFrame, RequestsFrame DEF IInv, GuessesAreCounted
<1>5. VerifiesHoldRow'
  <2>1. \A i, j \in Unused : i = j
    BY UnusedIs
  <2> QED
    BY <1>0, <1>1, <1>2, <2>1 DEF IInv, VerifiesHoldRow
<1>6. CooldownsAreOver' /\ CooldownKept'
  BY <1>0, CooldownsFrame
<1> QED
  BY <1>3, <1>4, <1>5, <1>6 DEF IInv

\* The row is locked if it is still unused, and dropped from the snapshot if not.
LEMMA LockNewestIInv ==
    ASSUME IInv, NEW v \in Verifies, LockNewest(v)
    PROVE  IInv'
<1> DEFINE i == Newest(ver[v].seen)
<1>0. /\ ver[v].pc = "lock" /\ ver[v].seen # {}
      /\ UNCHANGED <<now, row, created, expires, attempts, issued, emailLock, req, parent,
                     compared, sessions>>
  BY DEF LockNewest, tokenVars
<1>1. ver[v] \in Ver /\ ver \in [Verifies -> Ver]
  BY DEF IInv, TypeOK, Ver
<1>2. i \in ver[v].seen /\ i \in Ids
  <2>1. ver[v].seen \in SUBSET Ids /\ \A a, b \in ver[v].seen : a = b
    BY <1>1 DEF IInv, VerifiesHoldRow, Ver
  <2> QED
    BY <1>0, <2>1, NewestOfOne
<1> HIDE DEF i
<1>3. CASE row[i] = "unused" /\ rowLock[i] = None
           /\ rowLock' = [rowLock EXCEPT ![i] = v]
           /\ ver' = [ver EXCEPT ![v].pc = "decide", ![v].token = i, ![v].count = attempts[i]]
  <2>1. /\ ver'[v] = [pc |-> "decide", seen |-> ver[v].seen, count |-> attempts[i], token |-> i]
        /\ \A u \in Verifies : u # v => ver'[u] = ver[u]
        /\ ver' \in [Verifies -> Ver]
    <3>1. attempts[i] \in Nat
      BY <1>2 DEF IInv, TypeOK
    <3> QED
      BY <1>1, <1>2, <1>3, <3>1 DEF Ver
  <2>2. /\ rowLock'[i] = v /\ \A j \in Ids : j # i => rowLock'[j] = rowLock[j]
        /\ rowLock' \in [Ids -> Requests \cup Verifies \cup {None}]
    BY <1>2, <1>3 DEF IInv, TypeOK
  <2>3. TypeOK'
    BY <1>0, <2>1, <2>2 DEF IInv, TypeOK, Ver
  <2>4. RowsInOrder'
    <3>1. i = issued /\ issued \in Nat
      BY <1>2, <1>3 DEF IInv, RowsInOrder, TypeOK
    <3> QED
      BY <1>0, <2>2, <3>1 DEF IInv, RowsInOrder
  <2>5. RequestsHoldLocks'
    <3>1. \A q \in Requests : req[q].pc # "insert"
      BY <1>2, <1>3 DEF IInv, RequestsHoldLocks, Unused
    <3> QED
      BY <1>0, <3>1 DEF IInv, RequestsHoldLocks
  <2>6. VerifiesHoldRow'
    <3> SUFFICES ASSUME NEW u \in Verifies
                 PROVE  /\ \A a, b \in ver'[u].seen : a = b
                        /\ ver'[u].pc = "decide" =>
                            /\ ver'[u].token \in Ids
                            /\ rowLock'[ver'[u].token] = u
                            /\ row'[ver'[u].token] = "unused"
                            /\ ver'[u].count = attempts'[ver'[u].token]
      BY DEF VerifiesHoldRow
    <3>1. CASE u = v
      BY <1>0, <1>2, <1>3, <2>1, <2>2, <3>1 DEF IInv, VerifiesHoldRow
    <3>2. CASE u # v
      <4>1. ver[u].pc = "decide" => ver[u].token # i
        BY <1>3, <3>2 DEF IInv, VerifiesHoldRow
      <4> QED
        BY <1>0, <2>1, <2>2, <3>2, <4>1 DEF IInv, VerifiesHoldRow
    <3> QED
      BY <3>1, <3>2
  <2> QED
    BY <1>0, <2>3, <2>4, <2>5, <2>6, CooldownsFrame DEF IInv, GuessesAreCounted
<1>4. CASE rowLock' = rowLock /\ ver' = [ver EXCEPT ![v].seen = ver[v].seen \ {i}]
  <2>1. /\ ver'[v].pc = "lock" /\ ver'[v].seen \subseteq ver[v].seen
        /\ \A u \in Verifies : u # v => ver'[u] = ver[u]
        /\ ver' \in [Verifies -> Ver]
    BY <1>0, <1>1, <1>4 DEF Ver
  <2>2. TypeOK'
    BY <1>0, <1>4, <2>1 DEF IInv, TypeOK, Ver
  <2>3. VerifiesHoldRow'
    BY <1>0, <1>4, <2>1 DEF IInv, VerifiesHoldRow
  <2> QED
    BY <1>0, <1>4, <2>2, <2>3, RowsFrame, RequestsFrame, CooldownsFrame DEF IInv, GuessesAreCounted
<1> QED
  BY <1>3, <1>4 DEF LockNewest, StillUnused, LockRow, i

\* What the end of a verification leaves: the other holders keep their rows.
LEMMA EndVerifyIs ==
    ASSUME IInv, NEW v \in Verifies, EndVerify(v)
    PROVE  /\ ver' \in [Verifies -> Ver]
           /\ ver'[v].pc = "idle" /\ ver'[v].seen = {}
           /\ \A u \in Verifies : u # v => ver'[u] = ver[u]
           /\ rowLock' \in [Ids -> Requests \cup Verifies \cup {None}]
           /\ \A i \in Ids : rowLock'[i] = IF rowLock[i] = v THEN None ELSE rowLock[i]
<1>1. IdleVer \in Ver
  BY DEF IdleVer, Ver
<1>2. ver \in [Verifies -> Ver]
  BY DEF IInv, TypeOK, Ver
<1>3. ver' = [ver EXCEPT ![v] = IdleVer]
  BY DEF EndVerify
<1>4. rowLock' = [i \in Ids |-> IF rowLock[i] = v THEN None ELSE rowLock[i]]
  BY DEF EndVerify
<1>5. /\ rowLock' \in [Ids -> Requests \cup Verifies \cup {None}]
      /\ \A i \in Ids : rowLock'[i] = IF rowLock[i] = v THEN None ELSE rowLock[i]
  BY <1>4 DEF IInv, TypeOK
<1> QED
  BY <1>1, <1>2, <1>3, <1>5 DEF IdleVer

LEMMA NotFoundIInv ==
    ASSUME IInv, NEW v \in Verifies, NotFound(v)
    PROVE  IInv'
<1>0. /\ ver' = [ver EXCEPT ![v] = IdleVer]
      /\ UNCHANGED <<now, row, created, expires, attempts, issued, emailLock, rowLock, req,
                     parent, compared, sessions>>
  BY DEF NotFound, tokenVars
<1>1. /\ ver' \in [Verifies -> Ver]
      /\ ver'[v].pc = "idle" /\ ver'[v].seen = {}
      /\ \A u \in Verifies : u # v => ver'[u] = ver[u]
  BY <1>0 DEF IInv, TypeOK, Ver, IdleVer
<1>2. TypeOK'
  BY <1>0, <1>1 DEF IInv, TypeOK, Ver
<1>3. VerifiesHoldRow'
  BY <1>0, <1>1 DEF IInv, VerifiesHoldRow
<1> QED
  BY <1>0, <1>2, <1>3, RowsFrame, RequestsFrame, CooldownsFrame DEF IInv, GuessesAreCounted

\* A refused code and a death write nothing.
LEMMA EndsIInv ==
    ASSUME IInv, NEW v \in Verifies, RefuseCode(v) \/ VerifyDies(v)
    PROVE  IInv'
<1>0. /\ EndVerify(v)
      /\ UNCHANGED <<now, row, created, expires, attempts, issued, emailLock, req, parent,
                     compared, sessions>>
  BY DEF RefuseCode, VerifyDies, tokenVars
<1>1. TypeOK'
  BY <1>0, EndVerifyIs DEF IInv, TypeOK, Ver
<1>2. RowsInOrder'
  BY <1>0, EndVerifyIs, RowsFrame
<1>3. RequestsHoldLocks'
  BY <1>0, EndVerifyIs, RequestsFrame
<1>4. VerifiesHoldRow'
  BY <1>0, EndVerifyIs DEF IInv, VerifiesHoldRow
<1> QED
  BY <1>0, <1>1, <1>2, <1>3, <1>4, CooldownsFrame DEF IInv, GuessesAreCounted

\* The row a verification decides on is the live code, and nobody else holds it.
LEMMA DecidesOnLive ==
    ASSUME IInv, NEW v \in Verifies, ver[v].pc = "decide"
    PROVE  /\ ver[v].token = issued /\ issued \in Ids /\ row[issued] = "unused"
           /\ rowLock[issued] = v /\ ver[v].count = attempts[issued]
           /\ \A u \in Verifies : ver[u].pc = "decide" => u = v
           /\ \A q \in Requests : req[q].pc # "insert"
<1>1. \A u \in Verifies : ver[u].pc = "decide" =>
        ver[u].token = issued /\ issued \in Ids /\ row[issued] = "unused"
        /\ rowLock[issued] = u /\ ver[u].count = attempts[issued]
  BY DEF IInv, VerifiesHoldRow, RowsInOrder
<1>2. \A q \in Requests : req[q].pc # "insert"
  BY <1>1 DEF IInv, RequestsHoldLocks, Unused
<1> QED
  BY <1>1, <1>2

LEMMA WrongCodeIInv ==
    ASSUME IInv, NEW v \in Verifies, WrongCode(v)
    PROVE  IInv'
<1>0. /\ ver[v].pc = "decide" /\ EndVerify(v)
      /\ ~GuessesSpent(v)
      /\ attempts' = [attempts EXCEPT ![ver[v].token] = @ + 1]
      /\ compared' = [compared EXCEPT ![ver[v].token] = @ + 1]
      /\ UNCHANGED <<now, row, created, expires, issued, emailLock, req, parent, sessions>>
  BY DEF WrongCode
<1>1. /\ ver[v].token = issued /\ issued \in Ids
      /\ attempts[issued] < MaxAttempts
      /\ attempts[issued] \in Nat
  BY <1>0, DecidesOnLive DEF GuessesSpent, IInv, TypeOK
<1>2. /\ attempts' \in [Ids -> 0..MaxAttempts] /\ compared' \in [Ids -> Nat]
      /\ \A i \in Ids : i # issued => attempts'[i] = attempts[i] /\ compared'[i] = compared[i]
      /\ attempts'[issued] = attempts[issued] + 1 /\ compared'[issued] = compared[issued] + 1
  BY <1>0, <1>1 DEF IInv, TypeOK
<1>3. TypeOK'
  BY <1>0, <1>2, EndVerifyIs DEF IInv, TypeOK, Ver
<1>4. RowsInOrder'
  <2>1. \A i \in Ids : i > issued => i # issued
    BY <1>1, IdsNat
  <2> QED
    BY <1>0, <1>2, <2>1, EndVerifyIs DEF IInv, RowsInOrder
<1>5. RequestsHoldLocks'
  BY <1>0, EndVerifyIs, RequestsFrame
<1>6. VerifiesHoldRow'
  <2>1. \A u \in Verifies : u # v => ver[u].pc # "decide"
    BY <1>0, DecidesOnLive
  <2> QED
    BY <1>0, <2>1, EndVerifyIs DEF IInv, VerifiesHoldRow
<1>7. GuessesAreCounted'
  BY <1>1, <1>2 DEF IInv, GuessesAreCounted
<1> QED
  BY <1>0, <1>3, <1>4, <1>5, <1>6, <1>7, CooldownsFrame DEF IInv

LEMMA RightCodeIInv ==
    ASSUME IInv, NEW v \in Verifies, RightCode(v)
    PROVE  IInv'
<1>0. /\ ver[v].pc = "decide" /\ EndVerify(v)
      /\ row' = [j \in Ids |-> IF row[j] = "unused" THEN "used" ELSE row[j]]
      /\ parent' = GetOrCreateParent
      /\ sessions' = [sessions EXCEPT ![ver[v].token] = IF parent = "inactive" THEN @ ELSE @ + 1]
      /\ UNCHANGED <<now, created, expires, attempts, issued, emailLock, req, compared>>
  BY DEF RightCode
<1>1. /\ ver[v].token = issued /\ issued \in Ids
      /\ \A u \in Verifies : u # v => ver[u].pc # "decide"
      /\ \A q \in Requests : req[q].pc # "insert"
  BY <1>0, DecidesOnLive
<1>2. \A j \in Ids : row'[j] = IF row[j] = "unused" THEN "used" ELSE row[j]
  BY <1>0
<1>3. TypeOK'
  <2>1. row' \in [Ids -> {"none", "unused", "used"}]
    BY <1>0 DEF IInv, TypeOK
  <2>2. parent' \in {"none", "active", "inactive"}
    BY <1>0 DEF IInv, TypeOK, GetOrCreateParent
  <2>3. sessions' \in [Ids -> Nat]
    BY <1>0, <1>1 DEF IInv, TypeOK
  <2> QED
    BY <1>0, <2>1, <2>2, <2>3, EndVerifyIs DEF IInv, TypeOK, Ver
<1>4. RowsInOrder'
  BY <1>0, <1>2, EndVerifyIs DEF IInv, RowsInOrder
<1>5. RequestsHoldLocks'
  BY <1>0, <1>1 DEF IInv, RequestsHoldLocks
<1>6. VerifiesHoldRow'
  BY <1>0, <1>1, EndVerifyIs DEF IInv, VerifiesHoldRow
<1>7. GuessesAreCounted' /\ CooldownKept'
  BY <1>0 DEF IInv, GuessesAreCounted, CooldownKept
<1>8. CooldownsAreOver'
  BY <1>0, <1>1, <1>2 DEF IInv, CooldownsAreOver
<1> QED
  BY <1>3, <1>4, <1>5, <1>6, <1>7, <1>8 DEF IInv

-----------------------------------------------------------------------------
(* Staff, the purge and the clock *)

LEMMA SetActiveIInv ==
    ASSUME IInv, SetActive
    PROVE  IInv'
<1>0. UNCHANGED <<now, row, created, expires, attempts, issued, emailLock, rowLock, req, ver,
                  compared, sessions>>
  BY DEF SetActive, tokenVars
<1>1. parent' \in {"none", "active", "inactive"}
  BY DEF SetActive
<1>2. TypeOK'
  BY <1>0, <1>1 DEF IInv, TypeOK
<1> QED
  BY <1>0, <1>2, RowsFrame, RequestsFrame, VerifiesFrame, CooldownsFrame
     DEF IInv, GuessesAreCounted

\* The purge deletes no row that is held, and the last code only after its cooldown.
LEMMA PurgeIInv ==
    ASSUME IInv, Purge
    PROVE  IInv'
<1>0. /\ \A i \in Lapsed : rowLock[i] = None
      /\ row' = [i \in Ids |-> IF i \in Lapsed \cup Retired THEN "none" ELSE row[i]]
      /\ UNCHANGED <<now, created, expires, attempts, issued, emailLock, rowLock, req, ver,
                     parent, compared, sessions>>
  BY DEF Purge
<1>1. TypeOK'
  <2>1. row' \in [Ids -> {"none", "unused", "used"}]
    BY <1>0 DEF IInv, TypeOK
  <2> QED
    BY <1>0, <2>1 DEF IInv, TypeOK
<1>2. \A i \in Ids : row'[i] = IF i \in Lapsed \cup Retired THEN "none" ELSE row[i]
  BY <1>0
<1>3. RowsInOrder'
  BY <1>0, <1>2 DEF IInv, RowsInOrder
<1>4. Unused' \subseteq Unused
  BY <1>2 DEF Unused
<1>5. RequestsHoldLocks'
  BY <1>0, <1>4 DEF IInv, RequestsHoldLocks
<1>6. VerifiesHoldRow'
  <2>1. ASSUME NEW v \in Verifies, ver[v].pc = "decide" PROVE row'[ver[v].token] = "unused"
    <3>1. ver[v].token \in Ids /\ rowLock[ver[v].token] # None /\ row[ver[v].token] = "unused"
      BY <2>1 DEF IInv, VerifiesHoldRow
    <3>2. ver[v].token \notin Lapsed \cup Retired
      BY <1>0, <3>1 DEF Retired
    <3> QED
      BY <1>2, <3>1, <3>2
  <2> QED
    BY <1>0, <2>1 DEF IInv, VerifiesHoldRow
<1>7. GuessesAreCounted' /\ CooldownKept'
  BY <1>0 DEF IInv, GuessesAreCounted, CooldownKept
<1>8. ASSUME issued > 0, row'[issued] = "none" PROVE created[issued] + Cooldown <= now
  <2>1. /\ issued \in Ids /\ issued \in 1..issued /\ now \in Nat
        /\ created[issued] \in Nat /\ expires[issued] \in Nat
    BY <1>8 DEF IInv, TypeOK, Ids
  <2>2. CASE issued \in Lapsed \cup Retired
    <3>1. expires[issued] < now
      BY <2>1, <2>2 DEF Lapsed, Retired
    <3>2. created[issued] + Cooldown <= expires[issued]
      BY <2>1 DEF IInv, CooldownsAreOver
    <3> QED
      BY <2>1, <3>1, <3>2
  <2>3. CASE issued \notin Lapsed \cup Retired
    BY <1>2, <1>8, <2>1, <2>3 DEF IInv, CooldownsAreOver
  <2> QED
    BY <2>2, <2>3
<1>9. CooldownsAreOver'
  BY <1>0, <1>8 DEF IInv, CooldownsAreOver
<1> QED
  BY <1>1, <1>3, <1>5, <1>6, <1>7, <1>9 DEF IInv

LEMMA TickIInv ==
    ASSUME IInv, Tick
    PROVE  IInv'
<1>0. /\ now < Horizon /\ now' = now + 1 /\ now \in Nat
      /\ \A r \in Requests :
           req[r].pc \in {"begin", "burn", "insert"} => now < req[r].now + MaxStall
      /\ UNCHANGED <<row, created, expires, attempts, issued, emailLock, rowLock, req, ver,
                     parent, compared, sessions>>
  BY DEF Tick, tokenVars, IInv, TypeOK
<1>1. TypeOK'
  <2>1. now' \in 0..Horizon
    BY <1>0
  <2> QED
    BY <1>0, <2>1 DEF IInv, TypeOK
<1>2. RowsInOrder' /\ RequestsHoldLocks' /\ VerifiesHoldRow' /\ GuessesAreCounted' /\ CooldownKept'
  BY <1>0, RowsFrame, RequestsFrame, VerifiesFrame DEF IInv, GuessesAreCounted, CooldownKept
<1>3. CooldownsAreOver'
  <2>1. ASSUME NEW r \in Requests, req[r].pc \in {"begin", "burn", "insert"}
        PROVE  req[r].now <= now' /\ now' <= req[r].now + MaxStall
    <3>1. req[r].now \in Nat
      BY DEF IInv, TypeOK
    <3> QED
      BY <1>0, <2>1, <3>1 DEF IInv, CooldownsAreOver
  <2>2. ASSUME issued > 0, created[issued] + Cooldown <= now
        PROVE  created[issued] + Cooldown <= now'
    <3>1. created[issued] \in Nat
      BY <2>2 DEF IInv, TypeOK, Ids
    <3> QED
      BY <1>0, <2>2, <3>1
  <2> QED
    BY <1>0, <2>1, <2>2 DEF IInv, CooldownsAreOver
<1> QED
  BY <1>1, <1>2, <1>3 DEF IInv

LEMMA NextIInv == IInv /\ [Next]_vars => IInv'
<1> SUFFICES ASSUME IInv, [Next]_vars PROVE IInv'
  OBVIOUS
<1>1. CASE UNCHANGED vars
  BY <1>1, RowsFrame, RequestsFrame, VerifiesFrame, CooldownsFrame
     DEF IInv, TypeOK, GuessesAreCounted, vars, tokenVars
<1>2. CASE Next
  BY <1>2, StartRequestIInv, AdmitIInv, IdleIInv, BurnIInv, IssueIInv, RequestDiesIInv,
     SelectIInv, LockNewestIInv, NotFoundIInv, EndsIInv, WrongCodeIInv, RightCodeIInv,
     SetActiveIInv, PurgeIInv, TickIInv DEF Next
<1> QED
  BY <1>1, <1>2

LEMMA Inductive == Spec => []IInv
  BY InitIInv, NextIInv, PTL DEF Spec

-----------------------------------------------------------------------------

\* Rows, locks and the calls of both operations keep their types.
THEOREM TypeCorrect == Spec => []TypeOK
  BY Inductive, PTL DEF IInv

\* At most one unused code exists, whatever overlaps.
THEOREM OneCodeLives == Spec => []OneLiveCode
<1>1. IInv => OneLiveCode
  <2> SUFFICES ASSUME IInv PROVE Cardinality(Unused) <= 1
    BY DEF OneLiveCode
  <2>1. Unused = {} \/ Unused = {issued}
    BY UnusedIs
  <2>2. Cardinality(Unused) = 0 \/ Cardinality(Unused) = 1
    BY <2>1, FS_EmptySet, FS_Singleton, Zenon
  <2> QED
    BY <2>2
<1> QED
  BY <1>1, Inductive, PTL

\* Codes are created Cooldown apart, although the clock is read before the lock.
THEOREM CodesKeepDistance == Spec => []CooldownKept
  BY Inductive, PTL DEF IInv

\* No code is compared with more than MaxAttempts wrong guesses.
THEOREM GuessesAreBounded == Spec => []GuessesBounded
<1>1. IInv => GuessesBounded
  BY DEF IInv, TypeOK, GuessesAreCounted, GuessesBounded
<1> QED
  BY <1>1, Inductive, PTL
-----------------------------------------------------------------------------
(* OneTimeCodes implements LoginCode *)

Wrong == IF LiveCode = 0 THEN 0 ELSE attempts[LiveCode]

\* The live code of the refinement mapping, read off the last row.
LEMMA LiveCodeIs ==
    ASSUME IInv
    PROVE  /\ issued \in Unused => LiveCode = issued /\ Wrong = attempts[issued] /\ issued # 0
           /\ issued \notin Unused => LiveCode = 0 /\ Wrong = 0
<1>1. CASE issued \in Unused
  <2>1. Unused = {issued} /\ issued # 0 /\ issued \in Nat
    BY <1>1, UnusedIs, IdsNat DEF Unused
  <2>2. \A i, j \in Unused : i = j
    BY <2>1
  <2>3. Newest(Unused) \in Unused
    BY <2>1, <2>2, NewestOfOne DEF Unused
  <2>4. LiveCode = issued
    BY <2>1, <2>3 DEF LiveCode
  <2> QED
    BY <1>1, <2>1, <2>4 DEF Wrong
<1>2. CASE issued \notin Unused
  <2>1. Unused = {}
    BY <1>2, UnusedIs
  <2> QED
    BY <1>2, <2>1 DEF LiveCode, Wrong
<1> QED
  BY <1>1, <1>2

LEMMA LiveCodeNext ==
    ASSUME IInv'
    PROVE  /\ issued' \in Unused' => LiveCode' = issued' /\ Wrong' = attempts'[issued']
           /\ issued' \notin Unused' => LiveCode' = 0 /\ Wrong' = 0
<1>1. CASE issued' \in Unused'
  <2>1. Unused' = {issued'} /\ issued' # 0
    BY <1>1, IdsNat DEF IInv, RowsInOrder, Unused
  <2>2. Unused' \in SUBSET Ids /\ \A i, j \in Unused' : i = j
    BY <2>1 DEF Unused
  <2>3. Newest(Unused') \in Unused'
    BY <2>1, <2>2, NewestOfOne
  <2>4. LiveCode' = issued'
    BY <2>1, <2>3 DEF LiveCode, Newest
  <2> QED
    BY <1>1, <2>1, <2>4 DEF Wrong
<1>2. CASE issued' \notin Unused'
  <2>1. Unused' = {}
    BY <1>2 DEF IInv, RowsInOrder, Unused
  <2> QED
    BY <1>2, <2>1 DEF LiveCode, Wrong
<1> QED
  BY <1>1, <1>2

\* A step that leaves rows, guesses, the id sequence and sessions alone is not seen.
LEMMA Unseen ==
    ASSUME UNCHANGED <<row, attempts, issued, sessions>>
    PROVE  UNCHANGED Code!vars
<1>1. Unused' = Unused
  BY DEF Unused
<1>2. LiveCode' = LiveCode
  BY <1>1 DEF LiveCode
<1> QED
  BY <1>2 DEF Code!vars

LEMMA IssueRefines ==
    ASSUME IInv, IInv', NEW r \in Requests, Issue(r)
    PROVE  Code!Issue
<1>1. /\ issued < MaxTokens /\ issued' = issued + 1 /\ UNCHANGED <<attempts, sessions>>
      /\ row' = [i \in Ids |-> CASE i = issued + 1 -> "unused"
                                 [] rowLock[i] = r -> "used"
                                 [] OTHER -> row[i]]
  BY DEF Issue
<1>2. issued + 1 \in Ids /\ issued + 1 > issued /\ issued + 1 # 0
  <2>1. issued \in 0..MaxTokens
    BY DEF IInv, TypeOK
  <2> QED
    BY <1>1, <2>1 DEF Ids
<1>3. rowLock[issued + 1] = None /\ attempts[issued + 1] = 0
  BY <1>2 DEF IInv, RowsInOrder
<1>4. issued' \in Unused'
  <2>1. row'[issued + 1] = "unused"
    BY <1>1, <1>2, <1>3
  <2> QED
    BY <1>1, <1>2, <2>1 DEF Unused
<1>5. LiveCode' = issued + 1 /\ Wrong' = 0
  BY <1>1, <1>3, <1>4, LiveCodeNext
<1> QED
  BY <1>1, <1>2, <1>5 DEF Code!Issue, Wrong

LEMMA WrongCodeRefines ==
    ASSUME IInv, IInv', NEW v \in Verifies, WrongCode(v)
    PROVE  Code!Guess
<1>1. /\ ver[v].pc = "decide" /\ ~GuessesSpent(v)
      /\ attempts' = [attempts EXCEPT ![ver[v].token] = @ + 1]
      /\ UNCHANGED <<row, issued, sessions>>
  BY DEF WrongCode
<1>2. /\ ver[v].token = issued /\ issued \in Ids /\ row[issued] = "unused"
      /\ ver[v].count = attempts[issued] /\ attempts[issued] \in Nat
  BY <1>1, DecidesOnLive DEF IInv, TypeOK
<1>3. issued \in Unused /\ issued' \in Unused'
  BY <1>1, <1>2 DEF Unused
<1>4. /\ LiveCode = issued /\ Wrong = attempts[issued] /\ issued # 0
      /\ LiveCode' = issued' /\ Wrong' = attempts'[issued']
  BY <1>3, LiveCodeIs, LiveCodeNext
<1>5. attempts'[issued] = attempts[issued] + 1 /\ attempts[issued] < MaxAttempts
  BY <1>1, <1>2 DEF GuessesSpent, IInv, TypeOK
<1> QED
  BY <1>1, <1>4, <1>5 DEF Code!Guess, Wrong

LEMMA RightCodeRefines ==
    ASSUME IInv, IInv', NEW v \in Verifies, RightCode(v)
    PROVE  Code!Redeem \/ Code!Lapse
<1>1. /\ ver[v].pc = "decide" /\ ~GuessesSpent(v)
      /\ row' = [j \in Ids |-> IF row[j] = "unused" THEN "used" ELSE row[j]]
      /\ sessions' = [sessions EXCEPT ![ver[v].token] = IF parent = "inactive" THEN @ ELSE @ + 1]
      /\ UNCHANGED <<attempts, issued>>
  BY DEF RightCode
<1>2. /\ ver[v].token = issued /\ issued \in Ids /\ row[issued] = "unused"
      /\ ver[v].count = attempts[issued] /\ attempts[issued] \in Nat
  BY <1>1, DecidesOnLive DEF IInv, TypeOK
<1>3. issued \in Unused /\ issued' \notin Unused'
  BY <1>1, <1>2 DEF Unused
<1>4. LiveCode = issued /\ Wrong = attempts[issued] /\ issued # 0 /\ LiveCode' = 0 /\ Wrong' = 0
  BY <1>3, LiveCodeIs, LiveCodeNext
<1>5. attempts[issued] < MaxAttempts
  BY <1>1, <1>2 DEF GuessesSpent
<1>6. CASE parent = "inactive"
  <2>1. sessions' = sessions
    BY <1>1, <1>6 DEF IInv, TypeOK
  <2> QED
    BY <1>1, <1>4, <2>1 DEF Code!Lapse, Wrong
<1>7. CASE parent # "inactive"
  <2>1. sessions' = [sessions EXCEPT ![issued] = @ + 1]
    BY <1>1, <1>2, <1>7
  <2> QED
    BY <1>1, <1>4, <1>5, <2>1 DEF Code!Redeem, Wrong
<1> QED
  BY <1>6, <1>7

LEMMA PurgeRefines ==
    ASSUME IInv, IInv', Purge
    PROVE  Code!Lapse \/ UNCHANGED Code!vars
<1>1. /\ row' = [i \in Ids |-> IF i \in Lapsed \cup Retired THEN "none" ELSE row[i]]
      /\ UNCHANGED <<attempts, issued, sessions>>
  BY DEF Purge
<1>2. CASE issued \in Unused /\ issued \in Lapsed
  <2>1. issued' \notin Unused'
    BY <1>1, <1>2 DEF Unused
  <2>2. LiveCode = issued /\ issued # 0 /\ LiveCode' = 0 /\ Wrong' = 0
    BY <1>2, <2>1, LiveCodeIs, LiveCodeNext
  <2> QED
    BY <1>1, <2>2 DEF Code!Lapse, Wrong
<1>3. CASE issued \in Unused /\ issued \notin Lapsed
  <2>1. issued \notin Retired
    BY <1>3 DEF Unused, Retired
  <2>2. issued' \in Unused'
    BY <1>1, <1>3, <2>1 DEF Unused
  <2>3. /\ LiveCode = issued /\ Wrong = attempts[issued]
        /\ LiveCode' = issued' /\ Wrong' = attempts'[issued']
    BY <1>3, <2>2, LiveCodeIs, LiveCodeNext
  <2> QED
    BY <1>1, <2>3 DEF Code!vars, Wrong
<1>4. CASE issued \notin Unused
  <2>1. issued' \notin Unused'
    BY <1>1, <1>4 DEF Unused
  <2>2. LiveCode = 0 /\ Wrong = 0 /\ LiveCode' = 0 /\ Wrong' = 0
    BY <1>4, <2>1, LiveCodeIs, LiveCodeNext
  <2> QED
    BY <1>1, <2>2 DEF Code!vars, Wrong
<1> QED
  BY <1>2, <1>3, <1>4

\* request_otp, verify_otp and the purge, with their locks, snapshots and deaths,
\* do what LoginCode says and nothing else.
THEOREM Refinement == Spec => ImplementsLoginCode
<1>1. Init => Code!Init
  <2> SUFFICES ASSUME Init PROVE Code!Init
    OBVIOUS
  <2>1. issued = 0 /\ Unused = {} /\ sessions = [i \in Ids |-> 0]
    BY DEF Init, Unused
  <2>2. LiveCode = 0
    BY <2>1 DEF LiveCode
  <2> QED
    BY <2>1, <2>2 DEF Code!Init
<1>2. IInv /\ IInv' /\ [Next]_vars => [Code!Next]_Code!vars
  <2> SUFFICES ASSUME IInv, IInv', [Next]_vars PROVE Code!Next \/ UNCHANGED Code!vars
    OBVIOUS
  <2>1. CASE UNCHANGED vars
    BY <2>1, Unseen DEF vars, tokenVars
  <2>2. ASSUME NEW r \in Requests,
               StartRequest(r) \/ Admit(r) \/ Refuse(r) \/ Burn(r) \/ Enqueue(r) \/ RequestDies(r)
        PROVE  UNCHANGED Code!vars
    BY <2>2, Unseen DEF StartRequest, Admit, Refuse, Burn, Enqueue, RequestDies, tokenVars
  <2>3. ASSUME NEW v \in Verifies,
               Select(v) \/ LockNewest(v) \/ NotFound(v) \/ RefuseCode(v) \/ VerifyDies(v)
        PROVE  UNCHANGED Code!vars
    BY <2>3, Unseen DEF Select, LockNewest, NotFound, RefuseCode, VerifyDies, tokenVars
  <2>4. CASE SetActive \/ Tick
    BY <2>4, Unseen DEF SetActive, Tick, tokenVars
  <2>5. CASE Next
    BY <2>2, <2>3, <2>4, <2>5, IssueRefines, WrongCodeRefines, RightCodeRefines, PurgeRefines
       DEF Next, Code!Next
  <2> QED
    BY <2>1, <2>5
<1> QED
  BY <1>1, <1>2, Inductive, PTL DEF Spec, ImplementsLoginCode, Code!Spec
=============================================================================
