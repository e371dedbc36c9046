---------------------------- MODULE OneTimeCodes ----------------------------
(***************************************************************************)
(* Sign-in by a one-time code, apps/users/services.py, for one email:      *)
(* request_otp, verify_otp and the hourly purge_stale_otp_tokens.          *)
(*                                                                         *)
(* The database runs at READ COMMITTED.  request_otp reads the clock       *)
(* before its transaction and holds a try-lock on the email until commit.  *)
(* verify_otp selects the unused rows of the email in one snapshot and     *)
(* locks the newest of them: if that row was burned or deleted while it    *)
(* waited, the database drops it and tries the next row of the SAME        *)
(* snapshot.  A process may die anywhere: its transaction rolls back.      *)
(***************************************************************************)
EXTENDS Naturals, FiniteSets

CONSTANTS
    Requests,     \* calls of request_otp that may overlap
    Verifies,     \* calls of verify_otp that may overlap
    None,
    MaxAttempts,  \* OTP_MAX_ATTEMPTS
    Cooldown,     \* OTP_COOLDOWN_SECONDS, in ticks of the clock
    Ttl,          \* OTP_TTL_MINUTES
    Retention,    \* OTP_USED_RETENTION_DAYS
    MaxStall,     \* how long a call of request_otp may take
    MaxTokens,    \* bound on the rows ever inserted
    LastRequest,  \* bound: no call of request_otp starts later
    Horizon       \* bound on the clock

Ids == 1..MaxTokens

\* The relation of MaxStall to the others is an assumption on the deployment: no
\* call of request_otp lasts longer than the TTL without the cooldown (4 minutes).
\* Nothing in the repository enforces a limit on a single request (Dockerfile:36).
ASSUME OneTimeCodesAssumption ==
    /\ Requests \cap Verifies = {}
    /\ None \notin Requests \cup Verifies
    /\ MaxAttempts \in Nat \ {0}
    /\ Cooldown \in Nat /\ Ttl \in Nat /\ Retention \in Nat /\ MaxStall \in Nat
    /\ Cooldown + MaxStall <= Ttl
    /\ MaxTokens \in Nat /\ LastRequest \in Nat /\ Horizon \in Nat

VARIABLES
    now,
    row,        \* MagicTokens by id: "none" before the insert and after a delete
    created, expires, attempts,   \* its columns; the code itself is abstracted
    issued,     \* the id sequence: rows 1..issued were inserted
    emailLock,  \* holder of the advisory lock of the email
    rowLock,    \* holder of a row's lock: SELECT ... FOR UPDATE or an UPDATE
    req,        \* calls of request_otp: [pc, now]
    ver,        \* calls of verify_otp: [pc, seen, count, token]
    parent,     \* the Parent with this email
    compared,   \* history: wrong codes compared with a row
    sessions    \* history: the rows whose code opened a session, with multiplicity

tokenVars == <<row, created, expires, attempts, issued>>
vars == <<now, tokenVars, emailLock, rowLock, req, ver, parent, compared, sessions>>

-----------------------------------------------------------------------------

IdleReq == [pc |-> "idle", now |-> 0]
IdleVer == [pc |-> "idle", seen |-> {}, count |-> 0, token |-> 0]
Newest(S) == CHOOSE i \in S : \A j \in S : j <= i
Unused == {i \in Ids : row[i] = "unused"}

TypeOK ==
    /\ now \in 0..Horizon
    /\ row \in [Ids -> {"none", "unused", "used"}]
    /\ created \in [Ids -> Nat] /\ expires \in [Ids -> Nat]
    /\ attempts \in [Ids -> 0..MaxAttempts]
    /\ issued \in 0..MaxTokens
    /\ emailLock \in Requests \cup {None}
    /\ rowLock \in [Ids -> Requests \cup Verifies \cup {None}]
    /\ req \in [Requests ->
                [pc : {"idle", "begin", "burn", "insert", "enqueue"}, now : Nat]]
    /\ ver \in [Verifies -> [pc : {"idle", "lock", "decide"}, seen : SUBSET Ids,
                             count : Nat, token : Ids \cup {0}]]
    /\ parent \in {"none", "active", "inactive"}
    /\ compared \in [Ids -> Nat] /\ sessions \in [Ids -> Nat]

Init ==
    /\ now = 0
    /\ row = [i \in Ids |-> "none"]
    /\ created = [i \in Ids |-> 0] /\ expires = [i \in Ids |-> 0]
    /\ attempts = [i \in Ids |-> 0]
    /\ issued = 0
    /\ emailLock = None
    /\ rowLock = [i \in Ids |-> None]
    /\ req = [r \in Requests |-> IdleReq]
    /\ ver = [v \in Verifies |-> IdleVer]
    /\ parent = "none"
    /\ compared = [i \in Ids |-> 0] /\ sessions = [i \in Ids |-> 0]

-----------------------------------------------------------------------------
(* request_otp *)

\* POST /auth/otp/request: the clock is read before the transaction begins.
StartRequest(r) ==
    /\ req[r].pc = "idle"
    /\ now <= LastRequest /\ issued < MaxTokens
    /\ req' = [req EXCEPT ![r] = [pc |-> "begin", now |-> now]]
    /\ UNCHANGED <<now, tokenVars, emailLock, rowLock, ver, parent, compared, sessions>>

\* Mutant: the try-lock on the email is gone.
TakeEmailLock_NoLock(r) == UNCHANGED emailLock

\* try_advisory_xact_lock succeeded.
TakeEmailLock(r) == emailLock = None /\ emailLock' = r

\* Mutant: the cooldown looks at the unused rows only.
InCooldown_UnusedOnly(r) ==
    \E i \in Unused : created[i] + Cooldown > req[r].now

\* created_at > cooldown_threshold for the newest row of the email, used or not.
InCooldown(r) ==
    LET rows == {i \in Ids : row[i] # "none"} IN
    rows # {} /\ created[Newest(rows)] + Cooldown > req[r].now

\* The lock is free and the cooldown is over.
Admit(r) ==
    /\ req[r].pc = "begin"
    /\ TakeEmailLock(r)
    /\ ~InCooldown(r)
    /\ req' = [req EXCEPT ![r].pc = "burn"]
    /\ UNCHANGED <<now, tokenVars, rowLock, ver, parent, compared, sessions>>

\* OTPCooldownError, from the lock or from the cooldown: 429.
Refuse(r) ==
    /\ req[r].pc = "begin"
    /\ emailLock # None \/ InCooldown(r)
    /\ req' = [req EXCEPT ![r] = IdleReq]
    /\ UNCHANGED <<now, tokenVars, emailLock, rowLock, ver, parent, compared, sessions>>

\* The rows of UPDATE ... SET is_used = TRUE WHERE email = ... AND NOT is_used.
ToBurn == Unused

\* The UPDATE: it waits for a row that verify_otp holds, and holds its own rows
\* until the commit.
Burn(r) ==
    /\ req[r].pc = "burn"
    /\ \A i \in ToBurn : rowLock[i] = None
    /\ rowLock' = [i \in Ids |-> IF i \in ToBurn THEN r ELSE rowLock[i]]
    /\ req' = [req EXCEPT ![r].pc = "insert"]
    /\ UNCHANGED <<now, tokenVars, emailLock, ver, parent, compared, sessions>>

\* The transaction ends, by a commit or by a rollback: its locks are gone.
EndRequest(r) ==
    /\ emailLock' = IF emailLock = r THEN None ELSE emailLock
    /\ rowLock' = [i \in Ids |-> IF rowLock[i] = r THEN None ELSE rowLock[i]]

\* The insert and the commit.  expires_at counts from the clock read at the
\* start, created_at (auto_now_add) from the insert.
Issue(r) ==
    /\ req[r].pc = "insert"
    /\ issued < MaxTokens
    /\ LET new == issued + 1 IN
       /\ issued' = new
       /\ row' = [i \in Ids |-> CASE i = new -> "unused"
                                  [] rowLock[i] = r -> "used"
                                  [] OTHER -> row[i]]
       /\ created' = [created EXCEPT ![new] = now]
       /\ expires' = [expires EXCEPT ![new] = req[r].now + Ttl]
    /\ req' = [req EXCEPT ![r] = [pc |-> "enqueue", now |-> 0]]
    /\ EndRequest(r)
    /\ UNCHANGED <<now, attempts, ver, parent, compared, sessions>>

\* on_commit: send_otp_email_task goes to the broker (TaskDelivery says what
\* becomes of it), and the view answers 202.
Enqueue(r) ==
    /\ req[r].pc = "enqueue"
    /\ req' = [req EXCEPT ![r] = IdleReq]
    /\ UNCHANGED <<now, tokenVars, emailLock, rowLock, ver, parent, compared, sessions>>

\* The process dies: before the commit nothing was stored, after it the code
\* is stored and never mailed.
RequestDies(r) ==
    /\ req[r].pc \in {"burn", "insert", "enqueue"}
    /\ req' = [req EXCEPT ![r] = IdleReq]
    /\ EndRequest(r)
    /\ UNCHANGED <<now, tokenVars, ver, parent, compared, sessions>>

-----------------------------------------------------------------------------
(* verify_otp *)

\* The statement's snapshot: the unused rows committed by now.
Select(v) ==
    /\ ver[v].pc = "idle"
    /\ ver' = [ver EXCEPT ![v] = [IdleVer EXCEPT !.pc = "lock", !.seen = Unused]]
    /\ UNCHANGED <<now, tokenVars, emailLock, rowLock, req, parent, compared, sessions>>

\* Mutant: the row is not read again once its lock is granted.
StillUnused_Trusted(i) == row[i] # "none"

\* After the wait the database evaluates the WHERE clause on the new version.
StillUnused(i) == row[i] = "unused"

LockRow(v, i) == rowLock[i] = None /\ rowLock' = [rowLock EXCEPT ![i] = v]

\* FOR UPDATE reaches the newest row of the snapshot once its holder commits.
LockNewest(v) ==
    /\ ver[v].pc = "lock" /\ ver[v].seen # {}
    /\ LET i == Newest(ver[v].seen) IN
       \/ /\ StillUnused(i)
          /\ LockRow(v, i)
          /\ ver' = [ver EXCEPT ![v].pc = "decide", ![v].token = i,
                                ![v].count = attempts[i]]
       \/ /\ ~StillUnused(i)
          /\ rowLock[i] = None
          /\ ver' = [ver EXCEPT ![v].seen = @ \ {i}]
          /\ UNCHANGED rowLock
    /\ UNCHANGED <<now, tokenVars, emailLock, req, parent, compared, sessions>>

\* token is None: OTPNotFoundError, 401.
NotFound(v) ==
    /\ ver[v].pc = "lock" /\ ver[v].seen = {}
    /\ ver' = [ver EXCEPT ![v] = IdleVer]
    /\ UNCHANGED <<now, tokenVars, emailLock, rowLock, req, parent, compared, sessions>>

\* The transaction ends, by a commit or by a rollback.
EndVerify(v) ==
    /\ ver' = [ver EXCEPT ![v] = IdleVer]
    /\ rowLock' = [i \in Ids |-> IF rowLock[i] = v THEN None ELSE rowLock[i]]

\* Mutant: one guess too many.
GuessesSpent_OffByOne(v) == ver[v].count > MaxAttempts

GuessesSpent(v) == ver[v].count >= MaxAttempts

\* The code expired (401) or its guesses are spent (429): nothing is written.
RefuseCode(v) ==
    /\ ver[v].pc = "decide"
    /\ expires[ver[v].token] < now \/ GuessesSpent(v)
    /\ EndVerify(v)
    /\ UNCHANGED <<now, tokenVars, emailLock, req, parent, compared, sessions>>

\* compare_digest says no: attempts_count + 1 is committed, the answer is 401.
WrongCode(v) ==
    /\ ver[v].pc = "decide"
    /\ LET i == ver[v].token IN
       /\ expires[i] >= now /\ ~GuessesSpent(v)
       /\ attempts' = [attempts EXCEPT ![i] = @ + 1]
       /\ compared' = [compared EXCEPT ![i] = @ + 1]
    /\ EndVerify(v)
    /\ UNCHANGED <<now, row, created, expires, issued, emailLock, req, parent,
                   sessions>>

\* The Parent of the email, created without a password at the first sign-in.
GetOrCreateParent == IF parent = "none" THEN "active" ELSE parent

\* The code is right: every unused row of the email is burned, the Parent is
\* found or created, and the session is issued unless the Parent is inactive.
RightCode(v) ==
    /\ ver[v].pc = "decide"
    /\ LET i == ver[v].token IN
       /\ expires[i] >= now /\ ~GuessesSpent(v)
       /\ row' = [j \in Ids |-> IF row[j] = "unused" THEN "used" ELSE row[j]]
       /\ parent' = GetOrCreateParent
       /\ sessions' = [sessions EXCEPT ![i] = IF parent = "inactive" THEN @ ELSE @ + 1]
    /\ EndVerify(v)
    /\ UNCHANGED <<now, created, expires, attempts, issued, emailLock, req, compared>>

\* The process dies between the SELECT and the commit.
VerifyDies(v) ==
    /\ ver[v].pc # "idle"
    /\ EndVerify(v)
    /\ UNCHANGED <<now, tokenVars, emailLock, req, parent, compared, sessions>>

-----------------------------------------------------------------------------
(* Staff, the purge and the clock *)

\* ParentAdmin: the account is deactivated or activated.
SetActive ==
    /\ parent # "none"
    /\ parent' = IF parent = "active" THEN "inactive" ELSE "active"
    /\ UNCHANGED <<now, tokenVars, emailLock, rowLock, req, ver, compared, sessions>>

Retired == {i \in Ids : row[i] = "used" /\ expires[i] + Retention < now}

\* Mutant: the codes nobody used are never deleted.
Lapsed_Never == {}

Lapsed == {i \in Ids : row[i] = "unused" /\ expires[i] < now}

\* purge_stale_otp_tokens: two DELETEs.  They wait for rows locked by verify_otp.
Purge ==
    /\ Lapsed \cup Retired # {}
    /\ \A i \in Lapsed : rowLock[i] = None
    /\ row' = [i \in Ids |-> IF i \in Lapsed \cup Retired THEN "none" ELSE row[i]]
    /\ UNCHANGED <<now, created, expires, attempts, issued, emailLock, rowLock, req, ver,
                   parent, compared, sessions>>

\* Time passes, but no call of request_otp outlives MaxStall.
Tick ==
    /\ now < Horizon
    /\ \A r \in Requests :
        req[r].pc \in {"begin", "burn", "insert"} => now < req[r].now + MaxStall
    /\ now' = now + 1
    /\ UNCHANGED <<tokenVars, emailLock, rowLock, req, ver, parent, compared, sessions>>

-----------------------------------------------------------------------------

Next ==
    \/ \E r \in Requests :
        StartRequest(r) \/ Admit(r) \/ Refuse(r) \/ Burn(r) \/ Issue(r) \/ Enqueue(r)
        \/ RequestDies(r)
    \/ \E v \in Verifies :
        Select(v) \/ LockNewest(v) \/ NotFound(v) \/ RefuseCode(v) \/ WrongCode(v)
        \/ RightCode(v) \/ VerifyDies(v)
    \/ SetActive \/ Purge \/ Tick

Spec == Init /\ [][Next]_vars

\* A started call goes on, the scheduler runs the hourly purge, time passes; the
\* database grants row locks in the order they were asked for, so that a wait
\* ends (SF) although ever new verifications lock the row.
\* Nobody has to call request_otp or verify_otp.
FairSpec ==
    /\ Spec
    /\ \A r \in Requests :
        WF_vars(Admit(r) \/ Refuse(r)) /\ SF_vars(Burn(r)) /\ WF_vars(Issue(r))
        /\ WF_vars(Enqueue(r))
    /\ \A v \in Verifies :
        WF_vars(NotFound(v)) /\ WF_vars(RefuseCode(v) \/ WrongCode(v) \/ RightCode(v))
    /\ WF_vars(Tick)
    /\ SF_vars(Purge)

-----------------------------------------------------------------------------
(* Properties *)

\* At most one unused code of an email exists, whatever requests, verifications,
\* deaths and purges overlap (request_otp burns and inserts under the email lock,
\* services.py:85-115; the orphans services.py:155-157 provides for do not arise).
OneLiveCode == Cardinality(Unused) <= 1

\* Two codes of an email are created at least Cooldown apart, although the clock
\* is read before the lock, the row may be used meanwhile, and the purge deletes
\* rows (services.py:80-104 and 182-196).
CooldownKept ==
    \A i, j \in 1..issued : i < j => created[i] + Cooldown <= created[j]

\* No code is compared with more than MaxAttempts wrong guesses, however many
\* calls of verify_otp overlap (services.py:131-151): docs/api-core-contracts.md,
\* "не более 5 попыток ввода на один код".
GuessesBounded == \A i \in Ids : compared[i] <= MaxAttempts

\* The code that works, if one does.
LiveCode == IF Unused = {} THEN 0 ELSE Newest(Unused)

Code == INSTANCE LoginCode WITH
    last <- issued,
    live <- LiveCode,
    wrong <- IF LiveCode = 0 THEN 0 ELSE attempts[LiveCode]

\* The three operations, with their locks, snapshots, deaths and the purge, do
\* what the abstract specification promises and nothing else (services.py:78-196):
\* a code opens one session even if it is submitted twice at once, and none once a
\* newer code is committed, also for a verification that had selected it before.
ImplementsLoginCode == Code!Spec

\* Every stored code is deleted in the end (services.py:182-196, hourly).
CodesAreForgotten == \A i \in Ids : row[i] # "none" ~> row[i] = "none"

-----------------------------------------------------------------------------
(* The inductive invariant *)

\* Only the row inserted last can be unused; later ids are blank.
RowsInOrder ==
    /\ \A i \in Ids : row[i] = "unused" => i = issued
    /\ \A i \in Ids : i > issued => row[i] = "none" /\ attempts[i] = 0 /\ rowLock[i] = None

\* Between Admit and the commit a request holds the email, and once it has burned
\* it holds every unused row.
RequestsHoldLocks ==
    \A r \in Requests :
        /\ req[r].pc \in {"burn", "insert"} => emailLock = r
        /\ req[r].pc = "insert" => \A i \in Unused : rowLock[i] = r

\* A verification decides on a row that it holds, that is unused and whose guesses
\* it has read; its snapshot had at most one row.
VerifiesHoldRow ==
    \A v \in Verifies :
        /\ \A i, j \in ver[v].seen : i = j
        /\ ver[v].pc = "decide" =>
            /\ ver[v].token \in Ids
            /\ rowLock[ver[v].token] = v
            /\ row[ver[v].token] = "unused"
            /\ ver[v].count = attempts[ver[v].token]

\* Every wrong guess is counted on its row.
GuessesAreCounted == \A i \in Ids : compared[i] = attempts[i]

\* A code expires after the cooldown it starts, so the purge deletes no code that
\* still counts; a request that was admitted comes after the cooldown of the last.
CooldownsAreOver ==
    /\ \A r \in Requests : req[r].pc \in {"begin", "burn", "insert"} =>
        req[r].now <= now /\ now <= req[r].now + MaxStall
    /\ \A i \in 1..issued : created[i] + Cooldown <= expires[i]
    /\ issued > 0 /\ row[issued] = "none" => created[issued] + Cooldown <= now
    /\ \A r \in Requests :
        req[r].pc \in {"burn", "insert"} /\ issued > 0 => created[issued] + Cooldown <= now

IInv ==
    /\ TypeOK
    /\ RowsInOrder
    /\ RequestsHoldLocks
    /\ VerifiesHoldRow
    /\ GuessesAreCounted
    /\ CooldownsAreOver
    /\ CooldownKept

=============================================================================
