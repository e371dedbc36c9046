----------------------------- MODULE TokensProofs -----------------------------
(***************************************************************************)
(* Proofs for Tokens: for any lessons, slots and concurrent calls, tokens  *)
(* are conserved, spent on attended lessons only, and charged at the sweep.*)
(***************************************************************************)
EXTENDS Tokens, FiniteSetTheorems, TLAPS

USE TokensAssumption

\* The debited lessons of a slot before and after one row changed.
DebitedBy(flags, s) == {m \in Marks : SlotOf[m] = s /\ flags[m]}

\* Raising the flag of one lesson debits one more lesson of its slot, and none of
\* another slot.
LEMMA RaiseFlag ==
    ASSUME NEW flags \in [Marks -> BOOLEAN], NEW m \in Marks, ~flags[m], NEW s \in Slots
    PROVE  Cardinality(DebitedBy([flags EXCEPT ![m] = TRUE], s)) =
              Cardinality(DebitedBy(flags, s)) + (IF s = SlotOf[m] THEN 1 ELSE 0)
<1> DEFINE F == DebitedBy(flags, s)
           G == DebitedBy([flags EXCEPT ![m] = TRUE], s)
<1>1. IsFiniteSet(F) /\ Cardinality(F) \in Nat
  BY FS_Subset, FS_CardinalityType DEF DebitedBy
<1>2. CASE s = SlotOf[m]
  <2>1. G = F \cup {m} /\ m \notin F
    BY <1>2 DEF DebitedBy
  <2> QED
    BY <1>1, <1>2, <2>1, FS_AddElement
<1>3. CASE s # SlotOf[m]
  <2>1. G = F
    BY <1>3 DEF DebitedBy
  <2> QED
    BY <1>1, <1>3, <2>1
<1> QED
  BY <1>2, <1>3

\* Lowering it is the inverse.
LEMMA LowerFlag ==
    ASSUME NEW flags \in [Marks -> BOOLEAN], NEW m \in Marks, flags[m], NEW s \in Slots
    PROVE  Cardinality(DebitedBy(flags, s)) =
              Cardinality(DebitedBy([flags EXCEPT ![m] = FALSE], s))
                + (IF s = SlotOf[m] THEN 1 ELSE 0)
<1> DEFINE low == [flags EXCEPT ![m] = FALSE]
<1>1. low \in [Marks -> BOOLEAN] /\ ~low[m]
  OBVIOUS
<1>2. [low EXCEPT ![m] = TRUE] = flags
  OBVIOUS
<1> HIDE DEF low
<1>3. Cardinality(DebitedBy([low EXCEPT ![m] = TRUE], s)) =
        Cardinality(DebitedBy(low, s)) + (IF s = SlotOf[m] THEN 1 ELSE 0)
  BY <1>1, RaiseFlag
<1> QED
  BY <1>2, <1>3 DEF low

LEMMA DebitedNat ==
    ASSUME NEW flags, NEW s
    PROVE  Cardinality(DebitedBy(flags, s)) \in Nat
  BY FS_Subset, FS_CardinalityType DEF DebitedBy

-----------------------------------------------------------------------------

LEMMA InitIInv == Init => IInv
<1> SUFFICES ASSUME Init PROVE IInv
  OBVIOUS
<1>1. TypeOK
  <2>1. /\ remaining \in [Slots -> Nat] /\ charged \in [Slots -> Int]
        /\ subStatus \in {"ACTIVE", "EXPIRED", "CANCELED"}
    BY DEF Init
  <2>2. /\ mark \in [Marks -> Status \cup {"NONE"}]
        /\ debited \in [Marks -> BOOLEAN]
        /\ locker \in [Marks -> Calls \cup {NoCall}]
        /\ overdue \in BOOLEAN /\ enrolled \in BOOLEAN
    BY Zenon DEF Init
  <2>3. /\ pc \in [Calls -> {"idle", "take", "give"}]
        /\ at \in [Calls -> Marks]
        /\ target \in [Calls -> Status]
    BY Zenon DEF Init, Status
  <2>4. form \in [Marks -> {"closed", "debited", "free"}] /\ forms \in Nat /\ edited \subseteq Marks
    BY DEF Init
  <2> QED
    BY <2>1, <2>2, <2>3, <2>4 DEF TypeOK
<1>2. DebitedWasAttended /\ RowsAreHeld /\ SettledBooksBalance
  BY DEF Init, DebitedWasAttended, RowsAreHeld, SettledBooksBalance
<1>3. \A s \in Slots : Debited(s) = {}
  BY DEF Init, Debited
<1>4. \A s \in Slots : Cardinality(Debited(s)) = 0
  BY <1>3, FS_EmptySet
<1>5. TokensConserved
  BY <1>4 DEF Init, TokensConserved
<1> QED
  BY <1>1, <1>2, <1>5 DEF IInv

\* The counting parts of the invariant survive a step that changes neither flags,
\* balances nor charges and does not settle the subscription.
LEMMA CountsFrame ==
    ASSUME IInv, UNCHANGED <<debited, remaining, charged, edited>>,
           subStatus' = "EXPIRED" <=> subStatus = "EXPIRED"
    PROVE  TokensConserved' /\ SettledBooksBalance'
  BY DEF IInv, TokensConserved, SettledBooksBalance, Debited, Unedited

LEMMA OpenLessonIInv ==
    ASSUME IInv, NEW m \in Marks, OpenLesson(m)
    PROVE  IInv'
<1>1. TypeOK'
  BY DEF IInv, TypeOK, OpenLesson, subVars, callVars, formVars, Status
<1>2. TokensConserved' /\ SettledBooksBalance'
  BY CountsFrame DEF OpenLesson, subVars, formVars
<1>3. DebitedWasAttended'
  BY DEF IInv, TypeOK, OpenLesson, DebitedWasAttended, formVars
<1>4. RowsAreHeld'
  BY DEF IInv, OpenLesson, RowsAreHeld, callVars
<1> QED
  BY <1>1, <1>2, <1>3, <1>4 DEF IInv

LEMMA SetStatusIInv ==
    ASSUME IInv, NEW c \in Calls, NEW m \in Marks, NEW status \in Status,
           SetStatus(c, m, status)
    PROVE  IInv'
<1>1. TypeOK'
  BY DEF IInv, SetStatus, Hold, TypeOK, subVars, callVars, formVars, Status
<1>2. TokensConserved' /\ SettledBooksBalance'
  BY CountsFrame DEF SetStatus, Hold, subVars, formVars
<1>3. DebitedWasAttended'
  BY DEF IInv, SetStatus, Hold, TypeOK, DebitedWasAttended, formVars
<1>4. RowsAreHeld'
  <2>1. ASSUME UNCHANGED <<debited, locker, callVars>> PROVE RowsAreHeld'
    BY <2>1 DEF IInv, RowsAreHeld, callVars
  <2>2. ASSUME NEW label \in {"take", "give"}, Hold(c, m, status, label),
               debited[m] = (label = "give"), (status = "ATTENDED") = (label = "take")
        PROVE  RowsAreHeld'
    <3> SUFFICES ASSUME NEW d \in Calls, pc'[d] # "idle"
                 PROVE  /\ locker'[at'[d]] = d
                        /\ debited'[at'[d]] = (pc'[d] = "give")
                        /\ (target'[d] = "ATTENDED") = (pc'[d] = "take")
      BY DEF RowsAreHeld
    <3>1. CASE d = c
      BY <2>2, <3>1 DEF Hold, IInv, TypeOK
    <3>2. CASE d # c
      <4>1. pc'[d] = pc[d] /\ at'[d] = at[d] /\ target'[d] = target[d] /\ debited' = debited
        BY <2>2, <3>2 DEF Hold, IInv, TypeOK
      <4>2. locker[at[d]] = d /\ at[d] \in Marks
        BY <4>1 DEF IInv, RowsAreHeld, TypeOK
      <4>3. locker'[at[d]] = d
        BY <2>2, <4>2 DEF Hold, SetStatus, RowFree, IInv, TypeOK
      <4> QED
        BY <4>1, <4>3 DEF IInv, RowsAreHeld
    <3> QED
      BY <3>1, <3>2
  <2>3. CASE status = "ATTENDED" /\ ~debited[m] /\ Hold(c, m, status, "take")
    <3>1. debited[m] = ("take" = "give") /\ (status = "ATTENDED") = ("take" = "take")
      BY <2>3 DEF IInv, TypeOK
    <3> QED
      BY <2>2, <2>3, <3>1
  <2>4. CASE status # "ATTENDED" /\ debited[m] /\ Hold(c, m, status, "give")
    <3>1. debited[m] = ("give" = "give")
      BY <2>4 DEF IInv, TypeOK
    <3> QED
      BY <2>2, <2>4, <3>1
  <2>5. CASE UNCHANGED <<debited, locker, remaining, callVars>>
    BY <2>1, <2>5
  <2> QED
    <3>1. \/ status = "ATTENDED" /\ ~debited[m] /\ Hold(c, m, status, "take")
          \/ status # "ATTENDED" /\ debited[m] /\ Hold(c, m, status, "give")
          \/ UNCHANGED <<debited, locker, remaining, callVars>>
      BY Zenon DEF SetStatus
    <3> QED
      BY <3>1, <2>3, <2>4, <2>5, Zenon
<1> QED
  BY <1>1, <1>2, <1>3, <1>4 DEF IInv

\* A call that ends leaves the other rows held by their calls.
LEMMA UnlockRows ==
    ASSUME IInv, NEW c \in Calls, pc[c] # "idle", Unlock(c),
           \A m \in Marks : m # at[c] => debited'[m] = debited[m]
    PROVE  RowsAreHeld'
<1> SUFFICES ASSUME NEW d \in Calls, pc'[d] # "idle"
             PROVE  /\ locker'[at'[d]] = d
                    /\ debited'[at'[d]] = (pc'[d] = "give")
                    /\ (target'[d] = "ATTENDED") = (pc'[d] = "take")
  BY DEF RowsAreHeld
<1>1. d # c /\ pc'[d] = pc[d] /\ pc[d] # "idle" /\ at' = at /\ target' = target
  BY DEF IInv, TypeOK, Unlock
<1>2. at[d] # at[c]
  BY <1>1 DEF IInv, RowsAreHeld
<1>3. locker'[at[d]] = locker[at[d]] /\ debited'[at[d]] = debited[at[d]]
  BY <1>1, <1>2 DEF IInv, TypeOK, Unlock
<1> QED
  BY <1>1, <1>3 DEF IInv, RowsAreHeld

\* Moving a token between a slot and a lesson keeps the counts.
LEMMA CountsMove ==
    ASSUME IInv, UNCHANGED <<charged, subStatus, edited>>,
           \A s \in Slots : remaining'[s] + Cardinality(Debited(s)') =
                            remaining[s] + Cardinality(Debited(s))
    PROVE  TokensConserved' /\ SettledBooksBalance'
  BY DEF IInv, TokensConserved, SettledBooksBalance, Unedited

LEMMA DebitTokenIInv ==
    ASSUME IInv, NEW c \in Calls, DebitToken(c)
    PROVE  IInv'
<1> DEFINE m == at[c]
           s == SlotOf[m]
<1>1. m \in Marks /\ s \in Slots /\ ~debited[m] /\ target[c] = "ATTENDED"
  BY DEF IInv, TypeOK, DebitToken, RowsAreHeld
<1>2. TypeOK'
  <2>1. /\ mark' \in [Marks -> Status \cup {"NONE"}]
        /\ debited' \in [Marks -> BOOLEAN]
        /\ remaining' \in [Slots -> Nat]
    <3>1. CASE UNCHANGED <<mark, debited, remaining>>
      BY <3>1 DEF IInv, TypeOK
    <3>2. CASE /\ remaining[s] > 0
               /\ remaining' = [remaining EXCEPT ![s] = @ - 1]
               /\ debited' = [debited EXCEPT ![m] = TRUE]
               /\ mark' = [mark EXCEPT ![m] = target[c]]
      BY <1>1, <3>2 DEF IInv, TypeOK, Status
    <3> QED
      BY <3>1, <3>2 DEF DebitToken
  <2>2. locker' \in [Marks -> Calls \cup {NoCall}] /\ pc' \in [Calls -> {"idle", "take", "give"}]
    BY <1>1 DEF IInv, TypeOK, DebitToken, Unlock
  <2> QED
    BY <2>1, <2>2 DEF IInv, TypeOK, DebitToken, Unlock, subVars, formVars
<1>3. RowsAreHeld'
  BY <1>1, UnlockRows DEF DebitToken, IInv, TypeOK
<1>4. CASE UNCHANGED <<mark, debited, remaining>>
  BY <1>2, <1>3, <1>4, CountsFrame
     DEF IInv, DebitedWasAttended, DebitToken, Unlock, subVars, formVars
<1>5. CASE /\ remaining' = [remaining EXCEPT ![s] = @ - 1]
           /\ debited' = [debited EXCEPT ![m] = TRUE]
           /\ mark' = [mark EXCEPT ![m] = target[c]]
  <2>1. DebitedWasAttended'
    BY <1>1, <1>5 DEF IInv, TypeOK, DebitedWasAttended, DebitToken, Unlock, formVars
  <2>2. ASSUME NEW t \in Slots
        PROVE  remaining'[t] + Cardinality(Debited(t)') =
               remaining[t] + Cardinality(Debited(t))
    <3>1. Cardinality(Debited(t)') =
             Cardinality(Debited(t)) + (IF t = s THEN 1 ELSE 0)
      BY <1>1, <1>5, RaiseFlag DEF IInv, TypeOK, Debited, DebitedBy
    <3>2. Cardinality(Debited(t)) \in Nat
      BY DebitedNat DEF Debited, DebitedBy
    <3>3. remaining'[t] = remaining[t] - (IF t = s THEN 1 ELSE 0) /\ remaining[t] \in Nat
      BY <1>5 DEF IInv, TypeOK
    <3> QED
      BY <3>1, <3>2, <3>3
  <2> QED
    BY <1>2, <1>3, <2>1, <2>2, CountsMove DEF IInv, DebitToken, Unlock, subVars, formVars
<1> QED
  BY <1>4, <1>5 DEF DebitToken

LEMMA RefundTokenIInv ==
    ASSUME IInv, NEW c \in Calls, RefundToken(c)
    PROVE  IInv'
<1> DEFINE m == at[c]
           s == SlotOf[m]
<1>1. m \in Marks /\ s \in Slots /\ debited[m]
  BY DEF IInv, TypeOK, RefundToken, RowsAreHeld
<1>2. TypeOK'
  <2>1. /\ mark' \in [Marks -> Status \cup {"NONE"}]
        /\ debited' \in [Marks -> BOOLEAN]
        /\ remaining' \in [Slots -> Nat]
    BY <1>1 DEF IInv, TypeOK, RefundToken
  <2>2. locker' \in [Marks -> Calls \cup {NoCall}] /\ pc' \in [Calls -> {"idle", "take", "give"}]
    BY <1>1 DEF IInv, TypeOK, RefundToken, Unlock
  <2> QED
    BY <2>1, <2>2 DEF IInv, TypeOK, RefundToken, Unlock, subVars, formVars
<1>3. RowsAreHeld'
  BY <1>1, UnlockRows DEF RefundToken, IInv, TypeOK
<1>4. DebitedWasAttended'
  BY <1>1 DEF IInv, TypeOK, DebitedWasAttended, RefundToken, Unlock, formVars
<1>5. ASSUME NEW t \in Slots
      PROVE  remaining'[t] + Cardinality(Debited(t)') =
             remaining[t] + Cardinality(Debited(t))
  <2>1. Cardinality(Debited(t)) =
           Cardinality(Debited(t)') + (IF t = s THEN 1 ELSE 0)
    BY <1>1, LowerFlag DEF IInv, TypeOK, Debited, DebitedBy, RefundToken
  <2>2. Cardinality(Debited(t)') \in Nat
    BY DebitedNat DEF Debited, DebitedBy
  <2>3. remaining'[t] = remaining[t] + (IF t = s THEN 1 ELSE 0) /\ remaining[t] \in Nat
    BY DEF IInv, TypeOK, RefundToken
  <2> QED
    BY <2>1, <2>2, <2>3
<1> QED
  BY <1>2, <1>3, <1>4, <1>5, CountsMove DEF IInv, RefundToken, Unlock, subVars, formVars

LEMMA FetchMarkIInv ==
    ASSUME IInv, NEW m \in Marks, FetchMark(m)
    PROVE  IInv'
<1>1. TypeOK'
  <2>1. forms' \in Nat /\ form' \in [Marks -> {"closed", "debited", "free"}]
    BY DEF IInv, TypeOK, FetchMark
  <2> QED
    BY <2>1 DEF IInv, TypeOK, FetchMark, rowVars, subVars, callVars
<1>2. TokensConserved' /\ SettledBooksBalance'
  BY CountsFrame DEF FetchMark, rowVars, subVars
<1>3. DebitedWasAttended' /\ RowsAreHeld'
  BY DEF IInv, FetchMark, DebitedWasAttended, RowsAreHeld, rowVars, callVars
<1> QED
  BY <1>1, <1>2, <1>3 DEF IInv

\* A form that keeps the flag of the row and does not part it from the status
\* changes no count; any other is recorded, and its slot is no longer counted.
LEMMA SaveMarkIInv ==
    ASSUME IInv, NEW m \in Marks, NEW status \in Status, SaveMark(m, status)
    PROVE  IInv'
<1>1. TypeOK'
  <2>1. /\ mark' \in [Marks -> Status \cup {"NONE"}]
        /\ form' \in [Marks -> {"closed", "debited", "free"}]
        /\ edited' \subseteq Marks
    BY DEF IInv, TypeOK, SaveMark
  <2>2. debited' \in [Marks -> BOOLEAN]
    <3>1. (form[m] = "debited") \in BOOLEAN
      OBVIOUS
    <3> QED
      BY <3>1 DEF IInv, TypeOK, SaveMark
  <2> QED
    BY <2>1, <2>2 DEF IInv, TypeOK, SaveMark, subVars, callVars
<1>2. /\ \A n \in Marks : n # m => debited'[n] = debited[n] /\ mark'[n] = mark[n]
      /\ edited \subseteq edited'
      /\ m \notin edited' => debited'[m] = debited[m] /\ (debited'[m] => mark'[m] = "ATTENDED")
  BY DEF IInv, TypeOK, SaveMark
<1>3. ASSUME NEW s \in Slots, Unedited(s)'
      PROVE  Unedited(s) /\ Debited(s)' = Debited(s)
  <2>1. Unedited(s)
    BY <1>2, <1>3 DEF Unedited
  <2>2. ASSUME NEW n \in Marks, SlotOf[n] = s PROVE debited'[n] = debited[n]
    BY <1>2, <1>3, <2>2 DEF Unedited
  <2> QED
    BY <2>1, <2>2 DEF Debited
<1>4. UNCHANGED <<remaining, charged, subStatus>>
  BY DEF SaveMark, subVars
<1>5. TokensConserved' /\ SettledBooksBalance'
  BY <1>3, <1>4 DEF IInv, TokensConserved, SettledBooksBalance
<1>6. DebitedWasAttended'
  BY <1>2 DEF IInv, DebitedWasAttended
<1>7. RowsAreHeld'
  <2>1. ASSUME NEW d \in Calls, pc[d] # "idle" PROVE at[d] # m
    BY <2>1 DEF IInv, TypeOK, RowsAreHeld, SaveMark, RowFree
  <2>2. UNCHANGED <<locker, pc, at, target>>
    BY DEF SaveMark, callVars
  <2> QED
    BY <1>2, <2>1, <2>2 DEF IInv, TypeOK, RowsAreHeld
<1> QED
  BY <1>1, <1>5, <1>6, <1>7 DEF IInv

\* The sweep charges what is missing of each slot, which is what was debited.
LEMMA SweepExpiredIInv ==
    ASSUME IInv, SweepExpired
    PROVE  IInv'
<1>1. TypeOK'
  <2>1. remaining' \in [Slots -> Nat] /\ charged' \in [Slots -> Int]
    BY DEF IInv, TypeOK, SweepExpired, Settle
  <2> QED
    BY <2>1 DEF IInv, TypeOK, SweepExpired, callVars, formVars
<1>2. DebitedWasAttended' /\ RowsAreHeld'
  BY DEF IInv, SweepExpired, DebitedWasAttended, RowsAreHeld, callVars, formVars
<1>3. TokensConserved'
  BY DEF SweepExpired, TokensConserved
<1>4. ASSUME NEW s \in Slots, Unedited(s)'
      PROVE  charged'[s] = remaining'[s] + Cardinality(Debited(s)')
  <2>1. Cardinality(Debited(s)) \in Nat /\ Debited(s)' = Debited(s)
    BY DebitedNat DEF Debited, DebitedBy, SweepExpired
  <2>2. remaining[s] \in Nat /\ remaining[s] + Cardinality(Debited(s)) = Granted
    BY <1>4 DEF IInv, TypeOK, TokensConserved, SweepExpired, Unedited, formVars
  <2>3. remaining'[s] = 0 /\ charged'[s] = Granted - remaining[s]
    BY DEF SweepExpired, Settle
  <2> QED
    BY <2>1, <2>2, <2>3
<1> QED
  BY <1>1, <1>2, <1>3, <1>4 DEF IInv, SettledBooksBalance

LEMMA SubscriptionIInv ==
    ASSUME IInv, Expire \/ Freeze \/ AdminCancel
    PROVE  IInv'
<1>1. TypeOK'
  BY DEF IInv, TypeOK, Expire, Freeze, AdminCancel, rowVars, callVars, formVars
<1>2. DebitedWasAttended' /\ RowsAreHeld'
  BY DEF IInv, Expire, Freeze, AdminCancel, DebitedWasAttended, RowsAreHeld,
         rowVars, callVars, formVars
<1>3. TokensConserved' /\ SettledBooksBalance'
  BY CountsFrame DEF Expire, Freeze, AdminCancel, rowVars, formVars
<1> QED
  BY <1>1, <1>2, <1>3 DEF IInv

LEMMA NextIInv == IInv /\ [Next]_vars => IInv'
<1> SUFFICES ASSUME IInv, [Next]_vars PROVE IInv'
  OBVIOUS
<1>1. CASE UNCHANGED vars
  BY <1>1 DEF IInv, TypeOK, TokensConserved, SettledBooksBalance, DebitedWasAttended,
              RowsAreHeld, Debited, Unedited, vars, rowVars, subVars, callVars, formVars
<1>2. CASE Next
  BY <1>2, OpenLessonIInv, SetStatusIInv, DebitTokenIInv, RefundTokenIInv,
     FetchMarkIInv, SaveMarkIInv, SweepExpiredIInv, SubscriptionIInv DEF Next
<1> QED
  BY <1>1, <1>2

LEMMA Inductive == Spec => []IInv
  BY InitIInv, NextIInv, PTL DEF Spec

-----------------------------------------------------------------------------

\* Rows, balances and call states keep their types; no balance goes negative.
THEOREM TypeCorrect == Spec => []TypeOK
  BY Inductive, PTL DEF IInv

\* Concurrent and repeated marks neither lose nor make a token.
THEOREM Conservation == Spec => []TokensConserved
  BY Inductive, PTL DEF IInv

\* Tokens are spent on attended lessons only.
THEOREM SpentOnAttendance == Spec => []DebitedWasAttended
  BY Inductive, PTL DEF IInv

\* The credit at the sweep has charged every session that stays debited, in spite
\* of the unlocked read of the subscription.
THEOREM ChargesComplete == Spec => []UsedSessionsAreCharged
<1>1. IInv => UsedSessionsAreCharged
  <2> SUFFICES ASSUME IInv, subStatus = "EXPIRED", NEW s \in Slots, Unedited(s)
               PROVE  Cardinality(Debited(s)) <= charged[s]
    BY DEF UsedSessionsAreCharged
  <2>1. Cardinality(Debited(s)) \in Nat
    BY DebitedNat DEF Debited, DebitedBy
  <2>2. /\ remaining[s] \in Nat /\ charged[s] \in Int
        /\ charged[s] = remaining[s] + Cardinality(Debited(s))
    BY DEF IInv, TypeOK, SettledBooksBalance
  <2> QED
    BY <2>1, <2>2
<1> QED
  BY <1>1, Inductive, PTL

\* What the sweep charged for a slot and what is debited or left on it agree for
\* good, although a refund that had read the subscription before the sweep moves a
\* token onto the settled slot (refund_token, services.py:1243-1263).
THEOREM SettledBooks == Spec => []SettledBooksBalance
  BY Inductive, PTL DEF IInv

=============================================================================
