-------------------------------- MODULE Tokens --------------------------------
(***************************************************************************)
(* Spending the sessions ("tokens") of one active subscription:            *)
(* set_attendance_status with debit_token and refund_token, against the    *)
(* expiry sweep, freezes and the administrator.                            *)
(*                                                                         *)
(* A call locks the Attendance row, reads the enrollment and the           *)
(* subscription WITHOUT a lock, then locks the SubscriptionSlot row: the   *)
(* first two are one step and the last, with the COMMIT, another.  The     *)
(* sweep holds the slot rows from its reading of them to its COMMIT and no *)
(* call keeps a slot row between steps, so the sweep is one step.          *)
(*                                                                         *)
(* The change form of an Attendance reads the row without a lock and later *)
(* writes all its columns back: the status of the form, and token_debited  *)
(* as it was fetched.  It moves no token.                                  *)
(***************************************************************************)
EXTENDS Integers, FiniteSets

CONSTANTS
    Marks,     \* Attendance rows: lessons of the subscription
    Slots,     \* SubscriptionSlot rows
    SlotOf,    \* the slot of each lesson
    Granted,   \* granted_tokens of a slot
    Calls,     \* concurrent calls of set_attendance_status
    NoCall,
    MaxForms   \* bound on the change forms of Attendance rows

ASSUME TokensAssumption ==
    /\ IsFiniteSet(Marks) /\ IsFiniteSet(Calls)
    /\ SlotOf \in [Marks -> Slots]
    /\ Granted \in Nat
    /\ NoCall \notin Calls
    /\ MaxForms \in Nat

VARIABLES
    mark,      \* Attendance.status, "NONE" before the lesson is opened
    debited,   \* Attendance.token_debited
    locker,    \* the call that holds the Attendance row
    remaining, \* SubscriptionSlot.remaining_tokens
    subStatus, \* Subscription.status
    overdue,   \* expires_at < now
    enrolled,  \* the enrollments of the subscription are ENROLLED
    charged,   \* what each slot added to used_sessions at the sweep
    pc, at, target, \* of each call: step, Attendance row, new status
    form,      \* change forms under way: token_debited as fetched
    forms,     \* how many there were
    edited     \* history: marks whose token a form has left wrong

rowVars  == <<mark, debited, locker, remaining>>
subVars  == <<subStatus, overdue, enrolled, charged>>
callVars == <<pc, at, target>>
formVars == <<form, forms, edited>>
vars == <<rowVars, subVars, callVars, formVars>>

-----------------------------------------------------------------------------

Status == {"ATTENDED", "ABSENT_OK", "ABSENT_ERR"}

TypeOK ==
    /\ mark \in [Marks -> Status \cup {"NONE"}]
    /\ debited \in [Marks -> BOOLEAN]
    /\ locker \in [Marks -> Calls \cup {NoCall}]
    /\ remaining \in [Slots -> Nat]
    /\ subStatus \in {"ACTIVE", "EXPIRED", "CANCELED"}
    /\ overdue \in BOOLEAN
    /\ enrolled \in BOOLEAN
    /\ charged \in [Slots -> Int]
    /\ pc \in [Calls -> {"idle", "take", "give"}]
    /\ at \in [Calls -> Marks]
    /\ target \in [Calls -> Status]
    /\ form \in [Marks -> {"closed", "debited", "free"}]
    /\ forms \in Nat
    /\ edited \subseteq Marks

\* A subscription that was just activated.
Init ==
    /\ mark = [m \in Marks |-> "NONE"]
    /\ debited = [m \in Marks |-> FALSE]
    /\ locker = [m \in Marks |-> NoCall]
    /\ remaining = [s \in Slots |-> Granted]
    /\ subStatus = "ACTIVE"
    /\ overdue = FALSE
    /\ enrolled = TRUE
    /\ charged = [s \in Slots |-> 0]
    /\ pc = [c \in Calls |-> "idle"]
    /\ at \in [Calls -> Marks]
    /\ target = [c \in Calls |-> "ATTENDED"]
    /\ form = [m \in Marks |-> "closed"]
    /\ forms = 0
    /\ edited = {}

-----------------------------------------------------------------------------
(* set_attendance_status *)

\* open_lesson: every enrolled student of the group is marked as present.
OpenLesson(m) ==
    /\ mark[m] = "NONE" /\ enrolled
    /\ mark' = [mark EXCEPT ![m] = "ATTENDED"]
    /\ UNCHANGED <<debited, locker, remaining, subVars, callVars, formVars>>

\* Mutant: the Attendance row is read without FOR UPDATE.
RowFree_NoLock(m) == TRUE

\* select_for_update of the Attendance row
RowFree(m) == locker[m] = NoCall

\* What debit_token asks of the enrollment and the subscription.
Spendable == enrolled /\ subStatus = "ACTIVE" /\ ~overdue

\* What refund_token asks of the subscription.
Refundable == subStatus = "ACTIVE"

\* The call has a token to move: the row stays locked while it goes for the slot.
Hold(c, m, status, label) ==
    /\ locker' = [locker EXCEPT ![m] = c]
    /\ pc' = [pc EXCEPT ![c] = label]
    /\ at' = [at EXCEPT ![c] = m]
    /\ target' = [target EXCEPT ![c] = status]
    /\ UNCHANGED <<mark, debited, remaining>>

\* Mutant: a corrected mark does not give the token back.
SetStatus_NoRefund(c, m, status) ==
    /\ pc[c] = "idle" /\ RowFree(m)
    /\ mark[m] \notin {"NONE", status}
    /\ \/ /\ status = "ATTENDED" /\ ~debited[m] /\ Spendable
          /\ Hold(c, m, status, "take")
       \/ /\ status # "ATTENDED" \/ debited[m]
          /\ mark' = [mark EXCEPT ![m] = status]
          /\ UNCHANGED <<debited, locker, remaining, callVars>>
    /\ UNCHANGED <<subVars, formVars>>

\* set_attendance_status up to the slot row.  A mark that already has the status
\* is left alone; a refused debit or refund raises and rolls the status back.
SetStatus(c, m, status) ==
    /\ pc[c] = "idle" /\ RowFree(m)
    /\ mark[m] \notin {"NONE", status}
    /\ \/ /\ status = "ATTENDED" /\ ~debited[m] /\ Spendable
          /\ Hold(c, m, status, "take")
       \/ /\ status # "ATTENDED" /\ debited[m] /\ Refundable
          /\ Hold(c, m, status, "give")
       \/ /\ (status = "ATTENDED") = debited[m]
          /\ mark' = [mark EXCEPT ![m] = status]
          /\ UNCHANGED <<debited, locker, remaining, callVars>>
    /\ UNCHANGED <<subVars, formVars>>

\* COMMIT or ROLLBACK
Unlock(c) ==
    /\ locker' = [locker EXCEPT ![at[c]] = NoCall]
    /\ pc' = [pc EXCEPT ![c] = "idle"]
    /\ UNCHANGED <<at, target, subVars, formVars>>

\* Mutant: the balance of the slot is not looked at.
DebitToken_NoCheck(c) ==
    LET m == at[c]
        s == SlotOf[m]
    IN /\ pc[c] = "take"
       /\ Unlock(c)
       /\ remaining' = [remaining EXCEPT ![s] = @ - 1]
       /\ debited' = [debited EXCEPT ![m] = TRUE]
       /\ mark' = [mark EXCEPT ![m] = target[c]]

\* debit_token under the slot row lock; InsufficientTokensError rolls back.
DebitToken(c) ==
    LET m == at[c]
        s == SlotOf[m]
    IN /\ pc[c] = "take"
       /\ Unlock(c)
       /\ \/ /\ remaining[s] > 0
             /\ remaining' = [remaining EXCEPT ![s] = @ - 1]
             /\ debited' = [debited EXCEPT ![m] = TRUE]
             /\ mark' = [mark EXCEPT ![m] = target[c]]
          \/ remaining[s] <= 0 /\ UNCHANGED <<mark, debited, remaining>>

\* Mutant: the slot of a subscription settled meanwhile is left alone, but the mark
\* is no longer debited.
RefundToken_DropsLate(c) ==
    LET m == at[c]
        s == SlotOf[m]
    IN /\ pc[c] = "give"
       /\ Unlock(c)
       /\ remaining' = [remaining EXCEPT ![s] = IF subStatus = "ACTIVE" THEN @ + 1 ELSE @]
       /\ debited' = [debited EXCEPT ![m] = FALSE]
       /\ mark' = [mark EXCEPT ![m] = target[c]]

\* refund_token under the slot row lock; the subscription is not read again.
RefundToken(c) ==
    LET m == at[c]
        s == SlotOf[m]
    IN /\ pc[c] = "give"
       /\ Unlock(c)
       /\ remaining' = [remaining EXCEPT ![s] = @ + 1]
       /\ debited' = [debited EXCEPT ![m] = FALSE]
       /\ mark' = [mark EXCEPT ![m] = target[c]]

-----------------------------------------------------------------------------
(* The change form of an Attendance *)

\* The POST fetches the row, without a lock.
FetchMark(m) ==
    /\ mark[m] # "NONE" /\ form[m] = "closed"
    /\ forms < MaxForms /\ forms' = forms + 1
    /\ form' = [form EXCEPT ![m] = IF debited[m] THEN "debited" ELSE "free"]
    /\ UNCHANGED <<rowVars, subVars, callVars, edited>>

\* save(): the UPDATE waits for the row and writes every column.
SaveMark(m, status) ==
    /\ form[m] # "closed" /\ RowFree(m)
    /\ mark' = [mark EXCEPT ![m] = status]
    /\ debited' = [debited EXCEPT ![m] = form[m] = "debited"]
    /\ form' = [form EXCEPT ![m] = "closed"]
    /\ edited' = IF \/ debited'[m] # debited[m]
                    \/ debited'[m] /\ status # "ATTENDED"
                 THEN edited \cup {m} ELSE edited
    /\ UNCHANGED <<locker, remaining, forms, subVars, callVars>>

-----------------------------------------------------------------------------
(* The subscription *)

\* Mutant: the balances are left as they are.
Settle_KeepsTokens ==
    /\ charged' = [s \in Slots |-> Granted - remaining[s]]
    /\ UNCHANGED remaining

\* _credit_unused_sessions: used_sessions is counted, the balances are zeroed.
Settle ==
    /\ charged' = [s \in Slots |-> Granted - remaining[s]]
    /\ remaining' = [s \in Slots |-> 0]

\* sweep_expired_subscriptions
SweepExpired ==
    /\ subStatus = "ACTIVE" /\ overdue
    /\ subStatus' = "EXPIRED"
    /\ enrolled' = FALSE
    /\ Settle
    /\ UNCHANGED <<mark, debited, locker, overdue, callVars, formVars>>

\* expires_at passes.
Expire ==
    /\ ~overdue
    /\ overdue' = TRUE
    /\ UNCHANGED <<rowVars, subStatus, enrolled, charged, callVars, formVars>>

\* bulk_freeze_subscriptions moves expires_at, perhaps far enough.
Freeze ==
    /\ subStatus = "ACTIVE" /\ overdue
    /\ overdue' = FALSE
    /\ UNCHANGED <<rowVars, subStatus, enrolled, charged, callVars, formVars>>

\* The administrator cancels the subscription in its change form.
AdminCancel ==
    /\ subStatus = "ACTIVE"
    /\ subStatus' = "CANCELED"
    /\ UNCHANGED <<rowVars, overdue, enrolled, charged, callVars, formVars>>

Next ==
    \/ \E m \in Marks :
          OpenLesson(m) \/ FetchMark(m) \/ \E status \in Status : SaveMark(m, status)
    \/ \E c \in Calls :
          \/ \E m \in Marks, status \in Status : SetStatus(c, m, status)
          \/ DebitToken(c) \/ RefundToken(c)
    \/ SweepExpired \/ Expire \/ Freeze \/ AdminCancel

Spec == Init /\ [][Next]_vars

-----------------------------------------------------------------------------
(* Properties *)

Debited(s) == {m \in Marks : SlotOf[m] = s /\ debited[m]}
Unedited(s) == \A m \in edited : SlotOf[m] # s

\* Until the sweep settles the subscription no token is lost or made: double
\* marks, corrections and failures move each token once (services.py:263-310).
\* A form that left a mark and its token apart harms no other slot.
TokensConserved ==
    subStatus # "EXPIRED" =>
        \A s \in Slots : Unedited(s) => remaining[s] + Cardinality(Debited(s)) = Granted

\* Every session that ends up debited was charged when the rest of the price was
\* credited to the deposit, although debit_token reads the status of the
\* subscription without a lock (services.py:282-303, 974-991).
UsedSessionsAreCharged ==
    subStatus = "EXPIRED" =>
        \A s \in Slots : Unedited(s) => Cardinality(Debited(s)) <= charged[s]

\* A token is spent on attended lessons only: a corrected mark gives it back
\* (services.py:1283-1293), unless the form corrected it (admin.py:173).
DebitedWasAttended ==
    \A m \in Marks \ edited : debited[m] => mark[m] = "ATTENDED"

\* The books of a settled slot add up: every session the parent was charged for is
\* a debited lesson or a token on the slot.  Such a token is one that refund_token
\* put there after the sweep, for a call that had read the subscription before it:
\* the parent paid for it and cannot spend it, and the balance is not the zero that
\* the sweep left (services.py:1244-1246 takes this for excluded).
SettledBooksBalance ==
    subStatus = "EXPIRED" =>
        \A s \in Slots : Unedited(s) => charged[s] = remaining[s] + Cardinality(Debited(s))

-----------------------------------------------------------------------------
(* The inductive invariant *)

\* A call between its steps holds its row, and the row is as the call saw it.
RowsAreHeld ==
    \A c \in Calls : pc[c] # "idle" =>
        /\ locker[at[c]] = c
        /\ debited[at[c]] = (pc[c] = "give")
        /\ (target[c] = "ATTENDED") = (pc[c] = "take")

IInv ==
    /\ TypeOK
    /\ TokensConserved
    /\ SettledBooksBalance
    /\ DebitedWasAttended
    /\ RowsAreHeld

=============================================================================
