----------------------------- MODULE RefundsProofs -----------------------------
(***************************************************************************)
(* Proofs for Refunds: for any transactions, runs, faults and webhooks a   *)
(* compensation is paid out once and recorded truthfully; and as long as   *)
(* the lease covers a batch, no two runs call the provider for the same    *)
(* transaction at a time.                                                  *)
(***************************************************************************)
EXTENDS Refunds, FiniteSetTheorems, TLAPS

USE RefundsAssumption

-----------------------------------------------------------------------------
(* Payouts and records *)

LEMMA InitIInv == Init => IInv
<1> SUFFICES ASSUME Init PROVE IInv
  OBVIOUS
<1>1. TypeOK
  BY DEF Init, TypeOK
<1>2. PayoutsAreKnown /\ RecordedRefundIsReal
  BY DEF Init, PayoutsAreKnown, RecordedRefundIsReal, Busy
<1> QED
  BY <1>1, <1>2 DEF IInv

\* The provider's book after a call: at most the one key of the transaction.
LEMMA PaidOutIs ==
    ASSUME IInv, NEW w \in Workers, Busy(w)
    PROVE  /\ PaidOut(w) \in [Txs -> SUBSET {<<"refund", t>> : t \in Txs}]
           /\ \A t \in Txs : PaidOut(w)[t] \subseteq {<<"refund", t>>}
           /\ \A t \in Txs : payouts[t] \subseteq PaidOut(w)[t]
           /\ PaidOut(w)[current[w]] # {}
<1>1. current[w] \in Txs /\ payouts \in [Txs -> SUBSET {<<"refund", t>> : t \in Txs}]
  BY DEF IInv, TypeOK, PayoutsAreKnown
<1>2. \A t \in Txs : payouts[t] \subseteq {<<"refund", t>>}
  BY DEF IInv, PayoutsAreKnown
<1>3. PaidOut(w) =
         [payouts EXCEPT ![current[w]] = payouts[current[w]] \cup {<<"refund", current[w]>>}]
  BY DEF PaidOut, IdempotenceKey
<1>4. \A t \in Txs :
         PaidOut(w)[t] = IF t = current[w] THEN payouts[t] \cup {<<"refund", t>>} ELSE payouts[t]
  BY <1>1, <1>3
<1>5. PaidOut(w) \in [Txs -> SUBSET {<<"refund", t>> : t \in Txs}]
  <2> DEFINE Keys == {<<"refund", t>> : t \in Txs}
  <2>1. payouts[current[w]] \cup {<<"refund", current[w]>>} \in SUBSET Keys
    BY <1>1
  <2> HIDE DEF Keys
  <2>2. payouts \in [Txs -> SUBSET Keys]
    BY <1>1 DEF Keys
  <2>3. PaidOut(w) \in [Txs -> SUBSET Keys]
    BY <1>1, <1>3, <2>1, <2>2
  <2> QED
    BY <2>3 DEF Keys
<1> QED
  BY <1>1, <1>2, <1>4, <1>5

LEMMA BeginIInv ==
    ASSUME IInv, NEW w \in Workers, Begin(w)
    PROVE  IInv'
<1>0. Candidates \subseteq Txs
  BY DEF Candidates
<1>1. TypeOK'
  BY <1>0 DEF IInv, TypeOK, Begin, Goto, dbVars
<1>2. PayoutsAreKnown' /\ RecordedRefundIsReal'
  BY DEF IInv, TypeOK, PayoutsAreKnown, RecordedRefundIsReal, Busy, Begin, Goto, dbVars
<1> QED
  BY <1>1, <1>2 DEF IInv

LEMMA ClaimIInv ==
    ASSUME IInv, NEW w \in Workers, NEW t \in Txs, Claim(w, t)
    PROVE  IInv'
<1>1. TypeOK'
  BY DEF IInv, TypeOK, Claim, Goto
<1>2. PayoutsAreKnown' /\ RecordedRefundIsReal'
  BY DEF IInv, TypeOK, PayoutsAreKnown, RecordedRefundIsReal, Busy, Claim, Goto
<1> QED
  BY <1>1, <1>2 DEF IInv

\* A step in which w goes to a label after which it is not busy.
LEMMA StopsIInv ==
    ASSUME IInv, NEW w \in Workers, NEW label \in {"idle", "claim"}, Goto(w, label),
           UNCHANGED <<required, claimedUntil, refundStatus, moment, current, started>>,
           now' \in Nat, faults' \in Nat, webhooks' \in Nat, todo' \in [Workers -> SUBSET Txs],
           payouts' = payouts \/ (Busy(w) /\ payouts' = PaidOut(w))
    PROVE  IInv'
<1>1. /\ payouts' \in [Txs -> SUBSET {<<"refund", t>> : t \in Txs}]
      /\ \A t \in Txs : payouts'[t] \subseteq {<<"refund", t>>}
      /\ \A t \in Txs : payouts[t] \subseteq payouts'[t]
  BY PaidOutIs DEF IInv, TypeOK, PayoutsAreKnown
<1>2. TypeOK'
  BY <1>1 DEF IInv, TypeOK, Goto
<1>3. ASSUME NEW u \in Workers, Busy(u)' PROVE Busy(u) /\ pc'[u] = pc[u] /\ current'[u] = current[u]
  BY <1>3 DEF IInv, TypeOK, Goto, Busy
<1>4. PayoutsAreKnown'
  BY <1>1, <1>3 DEF IInv, PayoutsAreKnown, Busy
<1>5. RecordedRefundIsReal'
  BY <1>1 DEF IInv, RecordedRefundIsReal
<1> QED
  BY <1>2, <1>4, <1>5 DEF IInv

LEMMA CallReturnsIInv ==
    ASSUME IInv, NEW w \in Workers, CallReturns(w)
    PROVE  IInv'
<1>0. Busy(w) /\ UNCHANGED <<now, required, claimedUntil, refundStatus, moment, todo, current,
                             started, faults, webhooks>>
  BY DEF CallReturns, Busy, dbVars
<1>1. PICK answer \in {"succeeded", "canceled", "pending", "rejected"} :
        /\ Goto(w, answer)
        /\ payouts' \in {payouts, PaidOut(w)}
        /\ answer = "succeeded" => payouts' = PaidOut(w)
  BY DEF CallReturns
<1>2. /\ payouts' \in [Txs -> SUBSET {<<"refund", t>> : t \in Txs}]
      /\ \A t \in Txs : payouts'[t] \subseteq {<<"refund", t>>}
      /\ \A t \in Txs : payouts[t] \subseteq payouts'[t]
      /\ answer = "succeeded" => payouts'[current[w]] # {}
  BY <1>0, <1>1, PaidOutIs DEF IInv, TypeOK, PayoutsAreKnown
<1>3. pc' = [pc EXCEPT ![w] = answer]
  BY <1>1 DEF Goto
<1>4. TypeOK'
  BY <1>0, <1>2, <1>3 DEF IInv, TypeOK
<1>5. ASSUME NEW u \in Workers, Busy(u)'
      PROVE  /\ current'[u] \in Txs
             /\ pc'[u] = "succeeded" => payouts'[current'[u]] # {}
  <2>1. CASE u = w
    BY <1>0, <1>2, <1>3, <2>1 DEF IInv, TypeOK, PayoutsAreKnown
  <2>2. CASE u # w
    <3>1. pc'[u] = pc[u] /\ Busy(u) /\ current'[u] = current[u]
      BY <1>0, <1>3, <1>5, <2>2 DEF IInv, TypeOK, Busy
    <3> QED
      BY <1>2, <3>1 DEF IInv, PayoutsAreKnown
  <2> QED
    BY <2>1, <2>2
<1>6. PayoutsAreKnown'
  BY <1>2, <1>5 DEF PayoutsAreKnown, Busy
<1>7. RecordedRefundIsReal'
  BY <1>0, <1>2 DEF IInv, RecordedRefundIsReal
<1> QED
  BY <1>4, <1>6, <1>7 DEF IInv

\* A compensation is closed with a status the provider has honoured.
LEMMA CloseIInv ==
    ASSUME IInv, NEW w \in Workers, Busy(w),
           NEW status \in {"succeeded", "pending", "canceled", "failed"},
           status = "succeeded" => pc[w] = "succeeded",
           Close(w, status), Goto(w, "claim"),
           UNCHANGED <<now, moment, todo, current, started, payouts, faults, webhooks>>
    PROVE  IInv'
<1>0. current[w] \in Txs /\ (status = "succeeded" => payouts[current[w]] # {})
  BY DEF IInv, PayoutsAreKnown
<1>1. /\ required' \in [Txs -> BOOLEAN]
      /\ claimedUntil' \in [Txs -> Nat]
      /\ refundStatus' \in [Txs -> {"none", "succeeded", "pending", "canceled", "failed"}]
      /\ \A t \in Txs : refundStatus'[t] = "succeeded" => payouts[t] # {}
  <2>1. CASE ~required[current[w]]
    BY <2>1 DEF Close, dbVars, IInv, TypeOK, RecordedRefundIsReal
  <2>2. CASE required[current[w]]
    <3>1. /\ required' = [required EXCEPT ![current[w]] = FALSE]
          /\ claimedUntil' = [claimedUntil EXCEPT ![current[w]] = 0]
          /\ refundStatus' = [refundStatus EXCEPT ![current[w]] = status]
      BY <2>2, Zenon DEF Close
    <3>2. required' \in [Txs -> BOOLEAN] /\ claimedUntil' \in [Txs -> Nat]
      BY <1>0, <3>1 DEF IInv, TypeOK
    <3> QED
      BY <1>0, <3>1, <3>2 DEF IInv, TypeOK, RecordedRefundIsReal
  <2> QED
    BY <2>1, <2>2
<1>2. TypeOK'
  BY <1>1 DEF IInv, TypeOK, Goto
<1>3. ASSUME NEW u \in Workers, Busy(u)' PROVE Busy(u) /\ pc'[u] = pc[u]
  BY <1>3 DEF IInv, TypeOK, Goto, Busy
<1>4. PayoutsAreKnown'
  BY <1>3 DEF IInv, PayoutsAreKnown, Busy
<1>5. RecordedRefundIsReal'
  BY <1>1 DEF RecordedRefundIsReal
<1> QED
  BY <1>2, <1>4, <1>5 DEF IInv

LEMMA WebhookIInv ==
    ASSUME IInv, NEW t \in Txs, Webhook(t)
    PROVE  IInv'
<1>1. TypeOK'
  BY DEF IInv, TypeOK, Webhook, workerVars
<1>2. PayoutsAreKnown' /\ RecordedRefundIsReal'
  BY DEF IInv, Webhook, PayoutsAreKnown, RecordedRefundIsReal, Busy, workerVars
<1> QED
  BY <1>1, <1>2 DEF IInv

LEMMA TickIInv ==
    ASSUME IInv, Tick
    PROVE  IInv'
<1>1. TypeOK'
  BY DEF IInv, TypeOK, Tick, workerVars, dbVars
<1>2. PayoutsAreKnown' /\ RecordedRefundIsReal'
  BY DEF IInv, Tick, PayoutsAreKnown, RecordedRefundIsReal, Busy, workerVars, dbVars
<1> QED
  BY <1>1, <1>2 DEF IInv

\* The ways a run stops being busy: the end of the loop, a lost call, a death.
LEMMA EndsIInv ==
    ASSUME IInv, NEW w \in Workers, Finish(w) \/ CallBreaks(w) \/ Kill(w)
    PROVE  IInv'
<1>1. CASE Finish(w)
  BY <1>1, StopsIInv DEF IInv, TypeOK, Finish, dbVars
<1>2. CASE CallBreaks(w)
  <2>1. Busy(w) /\ faults' \in Nat /\ todo' \in [Workers -> SUBSET Txs]
    BY <1>2 DEF IInv, TypeOK, CallBreaks, Busy
  <2>2. payouts' = payouts \/ payouts' = PaidOut(w)
    BY <1>2 DEF CallBreaks
  <2> QED
    BY <1>2, <2>1, <2>2, StopsIInv DEF IInv, TypeOK, CallBreaks, dbVars
<1>3. CASE Kill(w)
  <2>1. faults' \in Nat /\ todo' \in [Workers -> SUBSET Txs]
    BY <1>3 DEF IInv, TypeOK, Kill
  <2> QED
    BY <1>3, <2>1, StopsIInv DEF IInv, TypeOK, Kill, dbVars
<1> QED
  BY <1>1, <1>2, <1>3

LEMMA RecordsIInv ==
    ASSUME IInv, NEW w \in Workers, RecordRefund(w) \/ QuarantineRefund(w)
    PROVE  IInv'
<1>1. CASE RecordRefund(w)
  BY <1>1, CloseIInv DEF RecordRefund, Busy
<1>2. CASE QuarantineRefund(w)
  BY <1>2, CloseIInv DEF QuarantineRefund, Busy
<1> QED
  BY <1>1, <1>2

LEMMA NextIInv == IInv /\ [Next]_vars => IInv'
<1> SUFFICES ASSUME IInv, [Next]_vars PROVE IInv'
  OBVIOUS
<1>1. CASE UNCHANGED vars
  BY <1>1 DEF IInv, TypeOK, PayoutsAreKnown, RecordedRefundIsReal, Busy, vars, dbVars, workerVars
<1>2. CASE Next
  BY <1>2, BeginIInv, ClaimIInv, CallReturnsIInv, EndsIInv, RecordsIInv, WebhookIInv, TickIInv
     DEF Next, RunStep
<1> QED
  BY <1>1, <1>2

LEMMA Inductive == Spec => []IInv
  BY InitIInv, NextIInv, PTL DEF Spec

-----------------------------------------------------------------------------

\* Leases, records, batches and the provider's book keep their types.
THEOREM TypeCorrect == Spec => []TypeOK
  BY Inductive, PTL DEF IInv

\* Retries, lost answers, dead workers and repeated demands make one payout.
THEOREM PaidOnce == Spec => []PaidOutOnce
<1>1. IInv => PaidOutOnce
  <2> SUFFICES ASSUME IInv, NEW t \in Txs PROVE Cardinality(payouts[t]) <= 1
    BY DEF PaidOutOnce
  <2>1. payouts[t] = {} \/ payouts[t] = {<<"refund", t>>}
    <3>1. payouts[t] \subseteq {<<"refund", t>>}
      BY DEF IInv, PayoutsAreKnown
    <3> QED
      BY <3>1, Zenon
  <2>2. Cardinality(payouts[t]) = 0 \/ Cardinality(payouts[t]) = 1
    BY <2>1, FS_EmptySet, FS_Singleton, Zenon
  <2> QED
    BY <2>2
<1> QED
  BY <1>1, Inductive, PTL

\* A compensation recorded as paid was paid.
THEOREM RecordsAreTrue == Spec => []RecordedRefundIsReal
  BY Inductive, PTL DEF IInv
-----------------------------------------------------------------------------
(* Leases *)

\* A worker's batch is finite, and the number of calls in it a number.
LEMMA TodoNat ==
    ASSUME IInv, NEW w \in Workers
    PROVE  IsFiniteSet(todo[w]) /\ Cardinality(todo[w]) \in Nat
<1>1. todo[w] \subseteq Txs
  BY DEF IInv, TypeOK
<1> QED
  BY <1>1, FS_Subset, FS_CardinalityType

\* One call of a batch less.
LEMMA OneCallLess ==
    ASSUME NEW n \in Nat
    PROVE  /\ n * CallTimeout \in Nat
           /\ (n + 1) * CallTimeout = n * CallTimeout + CallTimeout
  OBVIOUS

LEMMA InitLease == Init => LeaseInv
<1> SUFFICES ASSUME Init PROVE LeaseInv
  OBVIOUS
<1>1. LeasesAreHeld /\ RunsAreTimely
  BY DEF Init, LeasesAreHeld, RunsAreTimely, Busy
<1> QED
  BY <1>1, InitIInv DEF LeaseInv

\* Workers whose own state, and whose transaction's lease, do not change keep
\* their part of the invariant.
LEMMA OthersKeep ==
    ASSUME LeaseInv, NEW u \in Workers, now' = now,
           pc'[u] = pc[u], moment'[u] = moment[u], todo'[u] = todo[u],
           current'[u] = current[u], started'[u] = started[u],
           Busy(u) => claimedUntil'[current[u]] = claimedUntil[current[u]]
    PROVE  /\ Busy(u)' <=> Busy(u)
           /\ Busy(u)' => claimedUntil'[current'[u]] = moment'[u] + ClaimTTL
           /\ moment'[u] <= now'
           /\ pc'[u] # "idle" => moment'[u] >= 1
           /\ pc'[u] = "claim" =>
                now' + Cardinality(todo'[u]) * CallTimeout <= moment'[u] + ClaimTTL
           /\ Busy(u)' =>
                /\ started'[u] + (Cardinality(todo'[u]) + 1) * CallTimeout <= moment'[u] + ClaimTTL
                /\ now' <= started'[u] + CallTimeout
  BY DEF LeaseInv, LeasesAreHeld, RunsAreTimely, Busy

LEMMA BeginLease ==
    ASSUME LeaseInv, BatchFits, NEW w \in Workers, Begin(w)
    PROVE  LeaseInv'
<1>0. IInv /\ IInv'
  BY BeginIInv DEF LeaseInv
<1>1. /\ pc'[w] = "claim" /\ moment'[w] = now /\ todo'[w] = Candidates
      /\ now' = now /\ claimedUntil' = claimedUntil
      /\ current' = current /\ started' = started
      /\ now \in Nat /\ now >= 1
  BY DEF Begin, Goto, dbVars, LeaseInv, IInv, TypeOK, RunsAreTimely
<1>2. ASSUME NEW u \in Workers, u # w
      PROVE  pc'[u] = pc[u] /\ moment'[u] = moment[u] /\ todo'[u] = todo[u]
  BY <1>2 DEF Begin, Goto, LeaseInv, IInv, TypeOK
<1>3. now' + Cardinality(todo'[w]) * CallTimeout <= moment'[w] + ClaimTTL
  <2>1. Candidates \subseteq Txs
    BY DEF Candidates
  <2>2. Cardinality(Candidates) \in Nat
    BY <2>1, FS_Subset, FS_CardinalityType
  <2>3. Cardinality(Candidates) * CallTimeout \in Nat
    BY <2>2
  <2> QED
    BY <1>1, <2>3 DEF BatchFits
<1>4. ~Busy(w)'
  BY <1>1 DEF Busy
<1>5. LeasesAreHeld'
  BY <1>1, <1>2, <1>4, OthersKeep DEF LeaseInv, LeasesAreHeld
<1>6. RunsAreTimely'
  <2>1. ASSUME NEW u \in Workers
        PROVE  /\ moment'[u] <= now'
               /\ pc'[u] # "idle" => moment'[u] >= 1
               /\ pc'[u] = "claim" =>
                    now' + Cardinality(todo'[u]) * CallTimeout <= moment'[u] + ClaimTTL
               /\ Busy(u)' =>
                    /\ started'[u] + (Cardinality(todo'[u]) + 1) * CallTimeout
                          <= moment'[u] + ClaimTTL
                    /\ now' <= started'[u] + CallTimeout
    <3>1. CASE u = w
      BY <1>1, <1>3, <1>4, <3>1
    <3>2. CASE u # w
      BY <1>1, <1>2, <3>2, OthersKeep
    <3> QED
      BY <3>1, <3>2
  <2> QED
    BY <1>1, <2>1 DEF RunsAreTimely
<1> QED
  BY <1>0, <1>5, <1>6 DEF LeaseInv

\* A lease that a busy worker holds has not run out: no other run claims the
\* transaction.
LEMMA LeaseExcludes ==
    ASSUME LeaseInv, NEW v \in Workers, NEW w \in Workers, Busy(v), pc[w] = "claim",
           current[v] \in Txs
    PROVE  ~Claimable(w, current[v])
<1>1. /\ now \in Nat /\ moment[v] \in Nat /\ moment[w] \in Nat /\ started[v] \in Nat
      /\ claimedUntil[current[v]] \in Nat
  BY DEF LeaseInv, IInv, TypeOK
<1>2. claimedUntil[current[v]] = moment[v] + ClaimTTL
  BY DEF LeaseInv, LeasesAreHeld
<1>3. moment[v] >= 1 /\ moment[w] <= now
  BY DEF LeaseInv, RunsAreTimely, Busy
<1>4. /\ started[v] + (Cardinality(todo[v]) + 1) * CallTimeout <= moment[v] + ClaimTTL
      /\ now <= started[v] + CallTimeout
  BY DEF LeaseInv, RunsAreTimely
<1>5. Cardinality(todo[v]) * CallTimeout \in Nat /\
      (Cardinality(todo[v]) + 1) * CallTimeout = Cardinality(todo[v]) * CallTimeout + CallTimeout
  BY TodoNat, OneCallLess DEF LeaseInv
<1>6. now <= moment[v] + ClaimTTL
  BY <1>1, <1>4, <1>5
<1> QED
  BY <1>1, <1>2, <1>3, <1>6 DEF Claimable

LEMMA ClaimLease ==
    ASSUME LeaseInv, NEW w \in Workers, NEW t \in Txs, Claim(w, t)
    PROVE  LeaseInv'
<1>0. IInv /\ IInv'
  BY ClaimIInv DEF LeaseInv
<1> DEFINE n == Cardinality(todo'[w])
<1>1. /\ pc[w] = "claim" /\ now' = now /\ moment' = moment
      /\ todo'[w] = todo[w] \ {t} /\ t \in todo[w]
  BY DEF Claim, LeaseInv, IInv, TypeOK
<1>2. n \in Nat /\ Cardinality(todo[w]) = n + 1
  <2>1. IsFiniteSet(todo[w]) /\ Cardinality(todo[w]) \in Nat
    BY <1>0, TodoNat
  <2>2. Cardinality(todo'[w]) = Cardinality(todo[w]) - 1 /\ IsFiniteSet(todo'[w])
    <3>1. /\ IsFiniteSet(todo[w] \ {t})
          /\ Cardinality(todo[w] \ {t}) = Cardinality(todo[w]) - 1
      BY <1>1, <2>1, FS_RemoveElement
    <3> QED
      BY <1>1, <3>1
  <2>3. Cardinality(todo'[w]) \in Nat
    BY <2>2, FS_CardinalityType
  <2> QED
    BY <2>1, <2>2, <2>3
<1> HIDE DEF n
<1>3. /\ now + (n + 1) * CallTimeout <= moment[w] + ClaimTTL
      /\ n * CallTimeout \in Nat /\ (n + 1) * CallTimeout = n * CallTimeout + CallTimeout
      /\ moment[w] >= 1 /\ moment[w] <= now /\ now >= 1
      /\ now \in Nat /\ moment[w] \in Nat
  BY <1>0, <1>1, <1>2, OneCallLess DEF LeaseInv, RunsAreTimely, IInv, TypeOK
<1>4. /\ now + n * CallTimeout <= moment[w] + ClaimTTL
      /\ now + (n + 1) * CallTimeout <= moment[w] + ClaimTTL
      /\ now <= now + CallTimeout
  BY <1>3
<1>5. n = Cardinality(todo'[w])
  BY DEF n
<1>6. ASSUME NEW u \in Workers, u # w
      PROVE  /\ pc'[u] = pc[u] /\ todo'[u] = todo[u]
             /\ current'[u] = current[u] /\ started'[u] = started[u]
  BY <1>6 DEF Claim, Goto, LeaseInv, IInv, TypeOK
<1>7. CASE ~Claimable(w, t)
  <2>1. claimedUntil' = claimedUntil /\ pc' = pc /\ current' = current /\ started' = started
    BY <1>7 DEF Claim
  <2>2. ~Busy(w) /\ ~Busy(w)'
    BY <1>1, <2>1 DEF Busy
  <2>3. LeasesAreHeld'
    BY <1>1, <2>1 DEF LeaseInv, LeasesAreHeld, Busy
  <2>4. RunsAreTimely'
    <3>1. ASSUME NEW u \in Workers
          PROVE  /\ moment'[u] <= now'
                 /\ pc'[u] # "idle" => moment'[u] >= 1
                 /\ pc'[u] = "claim" =>
                      now' + Cardinality(todo'[u]) * CallTimeout <= moment'[u] + ClaimTTL
                 /\ Busy(u)' =>
                      /\ started'[u] + (Cardinality(todo'[u]) + 1) * CallTimeout
                            <= moment'[u] + ClaimTTL
                      /\ now' <= started'[u] + CallTimeout
      <4>1. CASE u = w
        BY <1>1, <1>3, <1>4, <1>5, <2>2, <4>1
      <4>2. CASE u # w
        BY <1>1, <1>6, <2>1, <4>2, OthersKeep
      <4> QED
        BY <4>1, <4>2
    <3> QED
      BY <1>1, <1>3, <3>1 DEF RunsAreTimely
  <2> QED
    BY <1>0, <2>3, <2>4 DEF LeaseInv
<1>8. CASE Claimable(w, t)
  <2>1. /\ claimedUntil' = [claimedUntil EXCEPT ![t] = moment[w] + ClaimTTL]
        /\ current'[w] = t /\ started'[w] = now /\ pc'[w] = "call"
    BY <1>8 DEF Claim, Goto, LeaseInv, IInv, TypeOK
  <2>2. ASSUME NEW u \in Workers, Busy(u) PROVE current[u] # t /\ current[u] \in Txs /\ u # w
    <3>1. current[u] \in Txs
      BY <1>0, <2>2 DEF IInv, PayoutsAreKnown
    <3> QED
      BY <1>1, <1>8, <2>2, <3>1, LeaseExcludes DEF Busy
  <2>3. ASSUME NEW u \in Workers, u # w
        PROVE  Busy(u) => claimedUntil'[current[u]] = claimedUntil[current[u]]
    BY <2>1, <2>2, <1>0 DEF IInv, TypeOK
  <2>4. Busy(w)' /\ claimedUntil'[current'[w]] = moment'[w] + ClaimTTL
    BY <1>1, <2>1, <1>0 DEF Busy, IInv, TypeOK
  <2>5. ASSUME NEW u \in Workers, u # w, Busy(u)' PROVE Busy(u) /\ current'[u] = current[u]
    BY <1>6, <2>5 DEF Busy
  <2>6. LeasesAreHeld'
    <3>1. ASSUME NEW u \in Workers, Busy(u)'
          PROVE  claimedUntil'[current'[u]] = moment'[u] + ClaimTTL
      <4>1. CASE u = w
        BY <2>4, <4>1
      <4>2. CASE u # w
        BY <1>1, <1>6, <2>3, <3>1, <4>2, OthersKeep
      <4> QED
        BY <4>1, <4>2
    <3>2. ASSUME NEW u \in Workers, NEW x \in Workers, Busy(u)', Busy(x)',
                 current'[u] = current'[x]
          PROVE  u = x
      <4>1. CASE u = w /\ x # w
        BY <2>1, <2>2, <2>5, <3>2, <4>1
      <4>2. CASE u # w /\ x = w
        BY <2>1, <2>2, <2>5, <3>2, <4>2
      <4>3. CASE u # w /\ x # w
        BY <2>5, <3>2, <4>3 DEF LeaseInv, LeasesAreHeld
      <4> QED
        BY <4>1, <4>2, <4>3
    <3> QED
      BY <3>1, <3>2 DEF LeasesAreHeld
  <2>7. RunsAreTimely'
    <3>1. ASSUME NEW u \in Workers
          PROVE  /\ moment'[u] <= now'
                 /\ pc'[u] # "idle" => moment'[u] >= 1
                 /\ pc'[u] = "claim" =>
                      now' + Cardinality(todo'[u]) * CallTimeout <= moment'[u] + ClaimTTL
                 /\ Busy(u)' =>
                      /\ started'[u] + (Cardinality(todo'[u]) + 1) * CallTimeout
                            <= moment'[u] + ClaimTTL
                      /\ now' <= started'[u] + CallTimeout
      <4>1. CASE u = w
        BY <1>1, <1>3, <1>4, <1>5, <2>1, <4>1
      <4>2. CASE u # w
        BY <1>1, <1>6, <2>3, <4>2, OthersKeep
      <4> QED
        BY <4>1, <4>2
    <3> QED
      BY <1>1, <1>3, <3>1 DEF RunsAreTimely
  <2> QED
    BY <1>0, <2>6, <2>7 DEF LeaseInv
<1> QED
  BY <1>7, <1>8

\* A run that leaves its transaction, by the end of the loop, a lost call or a death.
LEMMA EndsLease ==
    ASSUME LeaseInv, NEW w \in Workers, Finish(w) \/ CallBreaks(w) \/ Kill(w)
    PROVE  LeaseInv'
<1>0. IInv /\ IInv'
  BY EndsIInv DEF LeaseInv
<1>1. /\ pc'[w] = "idle" /\ now' = now /\ moment' = moment /\ current' = current
      /\ started' = started /\ claimedUntil' = claimedUntil
      /\ \A u \in Workers : u # w => pc'[u] = pc[u] /\ todo'[u] = todo[u]
  BY DEF Finish, CallBreaks, Kill, Goto, dbVars, LeaseInv, IInv, TypeOK
<1>2. ~Busy(w)'
  BY <1>1 DEF Busy
<1>3. LeasesAreHeld'
  BY <1>1, <1>2, OthersKeep DEF LeaseInv, LeasesAreHeld
<1>4. RunsAreTimely'
  BY <1>1, <1>2, OthersKeep DEF LeaseInv, RunsAreTimely
<1> QED
  BY <1>0, <1>3, <1>4 DEF LeaseInv

LEMMA CallReturnsLease ==
    ASSUME LeaseInv, NEW w \in Workers, CallReturns(w)
    PROVE  LeaseInv'
<1>0. IInv /\ IInv'
  BY CallReturnsIInv DEF LeaseInv
<1>1. /\ UNCHANGED <<now, moment, todo, current, started, claimedUntil>>
      /\ Busy(w) /\ Busy(w)' /\ pc'[w] # "claim"
      /\ \A u \in Workers : u # w => pc'[u] = pc[u]
  BY DEF CallReturns, Goto, Busy, dbVars, LeaseInv, IInv, TypeOK
<1>2. pc[w] # "idle"
  BY DEF CallReturns
<1>3. LeasesAreHeld'
  BY <1>1 DEF LeaseInv, LeasesAreHeld, Busy
<1>4. RunsAreTimely'
  BY <1>1, <1>2 DEF LeaseInv, RunsAreTimely, Busy
<1> QED
  BY <1>0, <1>3, <1>4 DEF LeaseInv

\* Closing a compensation ends its lease, which nobody else holds, and leaves
\* time for the calls that remain.
LEMMA RecordsLease ==
    ASSUME LeaseInv, NEW w \in Workers, RecordRefund(w) \/ QuarantineRefund(w)
    PROVE  LeaseInv'
<1>0. IInv /\ IInv'
  BY RecordsIInv DEF LeaseInv
<1>1. /\ UNCHANGED <<now, moment, todo, current, started>>
      /\ Busy(w) /\ pc'[w] = "claim"
      /\ \A u \in Workers : u # w => pc'[u] = pc[u]
  BY DEF RecordRefund, QuarantineRefund, Goto, Busy, LeaseInv, IInv, TypeOK
<1>2. ~Busy(w)'
  BY <1>1 DEF Busy
<1>3. \A t \in Txs : t # current[w] => claimedUntil'[t] = claimedUntil[t]
  BY DEF RecordRefund, QuarantineRefund, Close, dbVars, LeaseInv, IInv, TypeOK
<1>4. ASSUME NEW u \in Workers, u # w
      PROVE  Busy(u) => claimedUntil'[current[u]] = claimedUntil[current[u]]
  BY <1>0, <1>1, <1>3, <1>4 DEF LeaseInv, LeasesAreHeld, IInv, PayoutsAreKnown
<1>5. now + Cardinality(todo[w]) * CallTimeout <= moment[w] + ClaimTTL
  <2>1. /\ started[w] + (Cardinality(todo[w]) + 1) * CallTimeout <= moment[w] + ClaimTTL
        /\ now <= started[w] + CallTimeout
    BY <1>1 DEF LeaseInv, RunsAreTimely
  <2>2. /\ Cardinality(todo[w]) * CallTimeout \in Nat
        /\ (Cardinality(todo[w]) + 1) * CallTimeout =
              Cardinality(todo[w]) * CallTimeout + CallTimeout
    BY <1>0, TodoNat, OneCallLess
  <2>3. now \in Nat /\ moment[w] \in Nat /\ started[w] \in Nat
    BY <1>0 DEF IInv, TypeOK
  <2> QED
    BY <2>1, <2>2, <2>3
<1>6. LeasesAreHeld'
  BY <1>1, <1>2, <1>4, OthersKeep DEF LeaseInv, LeasesAreHeld
<1>7. RunsAreTimely'
  <2>1. ASSUME NEW u \in Workers
        PROVE  /\ moment'[u] <= now'
               /\ pc'[u] # "idle" => moment'[u] >= 1
               /\ pc'[u] = "claim" =>
                    now' + Cardinality(todo'[u]) * CallTimeout <= moment'[u] + ClaimTTL
               /\ Busy(u)' =>
                    /\ started'[u] + (Cardinality(todo'[u]) + 1) * CallTimeout
                          <= moment'[u] + ClaimTTL
                    /\ now' <= started'[u] + CallTimeout
    <3>1. CASE u = w
      <4>1. moment[w] <= now /\ moment[w] >= 1
        BY <1>1 DEF LeaseInv, RunsAreTimely, Busy
      <4> QED
        BY <1>1, <1>2, <1>5, <3>1, <4>1
    <3>2. CASE u # w
      BY <1>1, <1>4, <3>2, OthersKeep
    <3> QED
      BY <3>1, <3>2
  <2> QED
    BY <1>1, <2>1 DEF LeaseInv, RunsAreTimely
<1> QED
  BY <1>0, <1>6, <1>7 DEF LeaseInv

LEMMA WebhookLease ==
    ASSUME LeaseInv, NEW t \in Txs, Webhook(t)
    PROVE  LeaseInv'
<1>0. IInv'
  BY WebhookIInv DEF LeaseInv
<1>1. LeasesAreHeld' /\ RunsAreTimely'
  BY DEF Webhook, workerVars, LeaseInv, LeasesAreHeld, RunsAreTimely, Busy
<1> QED
  BY <1>0, <1>1 DEF LeaseInv

\* Time passes only while every worker is idle or within its call.
LEMMA TickLease ==
    ASSUME LeaseInv, Tick
    PROVE  LeaseInv'
<1>0. IInv /\ IInv'
  BY TickIInv DEF LeaseInv
<1>1. /\ UNCHANGED <<pc, moment, todo, current, started, claimedUntil>>
      /\ now' = now + 1 /\ now \in Nat
  BY <1>0 DEF Tick, workerVars, dbVars, IInv, TypeOK
<1>2. LeasesAreHeld'
  BY <1>1 DEF LeaseInv, LeasesAreHeld, Busy
<1>3. ASSUME NEW u \in Workers
      PROVE  /\ pc[u] # "claim"
             /\ Busy(u) => now + 1 <= started[u] + CallTimeout
             /\ moment[u] \in Nat /\ started[u] \in Nat
  BY <1>0, <1>1 DEF Tick, Busy, IInv, TypeOK
<1>4. RunsAreTimely'
  BY <1>1, <1>3 DEF LeaseInv, RunsAreTimely, Busy
<1> QED
  BY <1>0, <1>2, <1>4 DEF LeaseInv

LEMMA NextLease == LeaseInv /\ BatchFits /\ [Next]_vars => LeaseInv'
<1> SUFFICES ASSUME LeaseInv, BatchFits, [Next]_vars PROVE LeaseInv'
  OBVIOUS
<1>1. CASE UNCHANGED vars
  <2>1. IInv'
    BY <1>1, NextIInv DEF LeaseInv
  <2> QED
    BY <1>1, <2>1 DEF LeaseInv, LeasesAreHeld, RunsAreTimely, Busy, vars, dbVars, workerVars
<1>2. CASE Next
  BY <1>2, BeginLease, ClaimLease, CallReturnsLease, EndsLease, RecordsLease, WebhookLease,
     TickLease DEF Next, RunStep
<1> QED
  BY <1>1, <1>2

\* While every batch fits its lease (the queue has at most ClaimTTL / CallTimeout
\* entries: 120 in the code, _REFUND_CLAIM_TTL and timeout_seconds), overlapping
\* runs never call the provider for the same transaction at the same time.
THEOREM LeaseExclusive == Spec /\ []BatchFits => []NoParallelRefundCalls
<1>1. Spec /\ []BatchFits => []LeaseInv
  BY InitLease, NextLease, PTL DEF Spec
<1>2. LeaseInv => NoParallelRefundCalls
  BY DEF LeaseInv, LeasesAreHeld, NoParallelRefundCalls, InCall, Busy
<1> QED
  BY <1>1, <1>2, PTL

-----------------------------------------------------------------------------
(* A batch of any length *)

LEMMA InitSpaced == Init => SpacedInv
<1>1. Init => MomentsAreKnown /\ LeasesAreOrdered
  BY DEF Init, MomentsAreKnown, LeasesAreOrdered, Busy
<1> QED
  BY <1>1, InitIInv DEF SpacedInv

\* What the proofs of the actions below look at.
LEMMA SpacedType ==
    ASSUME IInv
    PROVE  /\ now \in Nat /\ required \in [Txs -> BOOLEAN] /\ claimedUntil \in [Txs -> Nat]
           /\ pc \in [Workers -> {"idle", "claim", "call", "succeeded", "pending", "canceled",
                                  "rejected"}]
           /\ moment \in [Workers -> Nat] /\ current \in [Workers -> Txs \cup {NoTx}]
           /\ \A w \in Workers : Busy(w) => current[w] \in Txs
  BY DEF IInv, TypeOK, PayoutsAreKnown

LEMMA BeginSpaced ==
    ASSUME SpacedInv, NEW w \in Workers, Begin(w)
    PROVE  SpacedInv'
<1>0. IInv /\ IInv'
  BY BeginIInv DEF SpacedInv
<1>1. /\ UNCHANGED <<now, required, claimedUntil, current>>
      /\ ~Busy(w)' /\ moment'[w] = now
      /\ \A u \in Workers : u # w => moment'[u] = moment[u] /\ pc'[u] = pc[u]
  BY <1>0, SpacedType DEF Begin, Goto, Busy, dbVars
<1>2. MomentsAreKnown'
  BY <1>0, <1>1, SpacedType DEF SpacedInv, MomentsAreKnown
<1>3. \A u \in Workers : Busy(u)' => Busy(u) /\ u # w /\ moment'[u] = moment[u]
  BY <1>1 DEF Busy
<1>4. LeasesAreOrdered'
  BY <1>1, <1>3 DEF SpacedInv, LeasesAreOrdered
<1> QED
  BY <1>0, <1>2, <1>4 DEF SpacedInv

\* A claim finds the leases of the runs busy with the transaction run out.
LEMMA ClaimSpaced ==
    ASSUME SpacedInv, NEW w \in Workers, NEW t \in Txs, Claim(w, t)
    PROVE  SpacedInv'
<1>0. IInv /\ IInv'
  BY ClaimIInv DEF SpacedInv
<1>1. UNCHANGED <<now, required, moment>> /\ pc[w] = "claim"
  BY DEF Claim
<1>2. \A u \in Workers : u # w => pc'[u] = pc[u] /\ current'[u] = current[u]
  BY <1>0, SpacedType DEF Claim, Goto
<1>3. MomentsAreKnown'
  BY <1>0, <1>1, <1>2, SpacedType DEF SpacedInv, MomentsAreKnown
<1>4. CASE ~Claimable(w, t)
  <2>1. UNCHANGED <<pc, current, claimedUntil>>
    BY <1>4 DEF Claim
  <2>2. LeasesAreOrdered'
    BY <1>1, <2>1 DEF SpacedInv, LeasesAreOrdered, Busy
  <2> QED
    BY <1>0, <1>3, <2>2 DEF SpacedInv
<1>5. CASE Claimable(w, t)
  <2>1. /\ claimedUntil'[t] = moment[w] + ClaimTTL
        /\ \A u \in Txs : u # t => claimedUntil'[u] = claimedUntil[u]
        /\ current'[w] = t
    BY <1>0, <1>5, SpacedType DEF Claim
  <2>2. ASSUME NEW v \in Workers, Busy(v), current[v] = t, t \notin Late
        PROVE  moment[v] + ClaimTTL < moment[w]
    <3>1. /\ moment[v] >= 1 /\ moment[v] \in Nat /\ moment[w] \in Nat
          /\ claimedUntil[t] \in Nat
      BY <1>0, <2>2, SpacedType DEF SpacedInv, MomentsAreKnown, Busy
    <3>2. required[t] /\ (claimedUntil[t] = 0 \/ claimedUntil[t] < moment[w])
      BY <1>5 DEF Claimable
    <3>3. moment[v] + ClaimTTL <= claimedUntil[t]
      BY <2>2, <3>2 DEF SpacedInv, LeasesAreOrdered
    <3> QED
      BY <3>1, <3>2, <3>3
  <2>3. ASSUME NEW v \in Workers, Busy(v)', v # w
        PROVE  Busy(v) /\ current'[v] = current[v] /\ current[v] \in Txs
    BY <1>0, <1>2, <2>3, SpacedType DEF Busy
  <2>4. \A v \in Workers : moment'[v] = moment[v] /\ moment[v] \in Nat
    BY <1>0, <1>1, SpacedType
  <2>5. ASSUME NEW v \in Workers, Busy(v)', current'[v] \notin Late, required'[current'[v]]
        PROVE  moment'[v] + ClaimTTL <= claimedUntil'[current'[v]]
    <3>1. CASE v = w
      BY <2>1, <2>4, <3>1
    <3>2. CASE v # w /\ current'[v] = t
      BY <2>1, <2>2, <2>3, <2>4, <2>5, <3>2
    <3>3. CASE v # w /\ current'[v] # t
      BY <1>1, <2>1, <2>3, <2>4, <2>5, <3>3 DEF SpacedInv, LeasesAreOrdered
    <3> QED
      BY <3>1, <3>2, <3>3
  <2>6. ASSUME NEW v \in Workers, NEW u \in Workers, Busy(v)', Busy(u)',
               current'[v] \notin Late, current'[u] = current'[v], u # v
        PROVE  \/ moment'[u] + ClaimTTL < moment'[v]
               \/ moment'[v] + ClaimTTL < moment'[u]
    <3>1. CASE v = w
      BY <2>1, <2>2, <2>3, <2>4, <2>6, <3>1
    <3>2. CASE u = w
      BY <2>1, <2>2, <2>3, <2>4, <2>6, <3>2
    <3>3. CASE v # w /\ u # w
      BY <2>3, <2>4, <2>6, <3>3 DEF SpacedInv, LeasesAreOrdered
    <3> QED
      BY <3>1, <3>2, <3>3
  <2>7. LeasesAreOrdered'
    BY <2>5, <2>6 DEF LeasesAreOrdered
  <2> QED
    BY <1>0, <1>3, <2>7 DEF SpacedInv
<1> QED
  BY <1>4, <1>5

\* A run that goes on with its transaction, or leaves it.
LEMMA StepsSpaced ==
    ASSUME SpacedInv, NEW w \in Workers,
           Finish(w) \/ CallBreaks(w) \/ Kill(w) \/ CallReturns(w)
    PROVE  SpacedInv'
<1>0. IInv /\ IInv'
  BY EndsIInv, CallReturnsIInv DEF SpacedInv
<1>1. /\ UNCHANGED <<now, required, moment, current, claimedUntil>>
      /\ \A u \in Workers : u # w => pc'[u] = pc[u]
      /\ pc'[w] = "idle" \/ (Busy(w) /\ pc[w] # "idle")
  BY <1>0, SpacedType DEF Finish, CallBreaks, Kill, CallReturns, Goto, dbVars, Busy
<1>2. \A u \in Workers : /\ Busy(u)' => Busy(u)
                         /\ pc'[u] # "idle" => pc[u] # "idle"
  BY <1>1 DEF Busy
<1>3. MomentsAreKnown'
  BY <1>1, <1>2 DEF SpacedInv, MomentsAreKnown
<1>4. LeasesAreOrdered'
  BY <1>1, <1>2 DEF SpacedInv, LeasesAreOrdered
<1> QED
  BY <1>0, <1>3, <1>4 DEF SpacedInv

\* The close that ends a lease ends the demand too.
LEMMA RecordsSpaced ==
    ASSUME SpacedInv, NEW w \in Workers, RecordRefund(w) \/ QuarantineRefund(w)
    PROVE  SpacedInv'
<1>0. IInv /\ IInv'
  BY RecordsIInv DEF SpacedInv
<1>1. /\ UNCHANGED <<now, moment, current>>
      /\ \A u \in Workers : u # w => pc'[u] = pc[u]
      /\ pc'[w] = "claim" /\ pc[w] # "idle"
  BY <1>0, SpacedType DEF RecordRefund, QuarantineRefund, Goto
<1>2. \A t \in Txs : required'[t] => required[t] /\ claimedUntil'[t] = claimedUntil[t]
  BY <1>0, SpacedType DEF RecordRefund, QuarantineRefund, Close, dbVars
<1>3. \A u \in Workers : /\ Busy(u)' => Busy(u) /\ current[u] \in Txs
                         /\ pc'[u] # "idle" => pc[u] # "idle"
  BY <1>0, <1>1, SpacedType DEF Busy
<1>4. MomentsAreKnown'
  BY <1>1, <1>3 DEF SpacedInv, MomentsAreKnown
<1>5. LeasesAreOrdered'
  BY <1>1, <1>2, <1>3 DEF SpacedInv, LeasesAreOrdered
<1> QED
  BY <1>0, <1>4, <1>5 DEF SpacedInv

\* A webhook opens late transactions only.
LEMMA WebhookSpaced ==
    ASSUME SpacedInv, NEW t \in Txs, Webhook(t)
    PROVE  SpacedInv'
<1>0. IInv /\ IInv'
  BY WebhookIInv DEF SpacedInv
<1>1. /\ UNCHANGED <<now, pc, moment, current, claimedUntil>>
      /\ \A u \in Txs : u \notin Late => required'[u] = required[u]
  BY <1>0, SpacedType DEF Webhook, workerVars
<1>2. \A u \in Workers : Busy(u)' => Busy(u) /\ current[u] \in Txs
  BY <1>0, <1>1, SpacedType DEF Busy
<1>3. MomentsAreKnown' /\ LeasesAreOrdered'
  BY <1>1, <1>2 DEF SpacedInv, MomentsAreKnown, LeasesAreOrdered
<1> QED
  BY <1>0, <1>3 DEF SpacedInv

LEMMA TickSpaced ==
    ASSUME SpacedInv, Tick
    PROVE  SpacedInv'
<1>0. IInv /\ IInv'
  BY TickIInv DEF SpacedInv
<1>1. UNCHANGED <<required, pc, moment, current, claimedUntil>> /\ now' = now + 1
  BY DEF Tick, workerVars, dbVars
<1>2. MomentsAreKnown'
  BY <1>0, <1>1, SpacedType DEF SpacedInv, MomentsAreKnown
<1>3. LeasesAreOrdered'
  BY <1>1 DEF SpacedInv, LeasesAreOrdered, Busy
<1> QED
  BY <1>0, <1>2, <1>3 DEF SpacedInv

LEMMA NextSpaced == SpacedInv /\ [Next]_vars => SpacedInv'
<1> SUFFICES ASSUME SpacedInv, [Next]_vars PROVE SpacedInv'
  OBVIOUS
<1>1. CASE UNCHANGED vars
  <2>1. IInv'
    BY <1>1, NextIInv DEF SpacedInv
  <2> QED
    BY <1>1, <2>1
       DEF SpacedInv, MomentsAreKnown, LeasesAreOrdered, Busy, vars, dbVars, workerVars
<1>2. CASE Next
  BY <1>2, BeginSpaced, ClaimSpaced, StepsSpaced, RecordsSpaced, WebhookSpaced, TickSpaced
     DEF Next, RunStep
<1> QED
  BY <1>1, <1>2

\* However long the batches are, two runs are in a call for the same transaction only
\* if one began more than a lease after the other (services.py:1038-1045): a slow
\* batch lets the runs of a later cron tick in, never those of the same lease.
THEOREM LeaseSpacesRuns == Spec => []OverlapsAreSpaced
<1>1. SpacedInv => OverlapsAreSpaced
  BY DEF SpacedInv, LeasesAreOrdered, OverlapsAreSpaced, InCall, Busy
<1> QED
  BY <1>1, InitSpaced, NextSpaced, PTL DEF Spec
=============================================================================
