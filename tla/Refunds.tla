------------------------------- MODULE Refunds -------------------------------
(***************************************************************************)
(* The compensation queue of apps/billing: issue_pending_refunds, run by   *)
(* the cron task process_compensation_refunds, by its retries and by hand. *)
(* Each run takes one "moment", lists the transactions that require a      *)
(* compensation, and for each of them claims a lease in the database,      *)
(* calls the provider outside any transaction, and closes the compensation *)
(* in a second transaction.  A network error aborts the run and leaves the *)
(* lease; a killed worker leaves it too.                                   *)
(*                                                                         *)
(* A tick is the unit of the lease (minutes): database statements take no  *)
(* tick, a call to the provider takes at most CallTimeout of them.         *)
(***************************************************************************)
EXTENDS Naturals, FiniteSets

CONSTANTS
    Txs,          \* transactions whose payment the provider confirmed, numbered
                  \* in the order of created_at
    Late,         \* those the TTL sweep had canceled before the payment came
    Workers,      \* runs of issue_pending_refunds that may overlap
    ChunkSize,    \* _REFUND_CHUNK_SIZE
    NoTx,
    ClaimTTL,     \* _REFUND_CLAIM_TTL
    CallTimeout,  \* YookassaSettings.timeout_seconds
    MaxTime,      \* bound on the clock
    MaxFaults,    \* bound on kills and network errors
    MaxWebhooks   \* bound on repeated webhooks

ASSUME RefundsAssumption ==
    /\ Txs \subseteq Nat /\ IsFiniteSet(Txs)
    /\ Late \subseteq Txs
    /\ ChunkSize \in Nat \ {0}
    /\ NoTx \notin Txs
    /\ ClaimTTL \in Nat /\ CallTimeout \in Nat
    /\ CallTimeout <= ClaimTTL
    /\ MaxTime \in Nat /\ MaxFaults \in Nat /\ MaxWebhooks \in Nat

VARIABLES
    now,
    required,     \* Transaction.requires_compensation
    claimedUntil, \* compensation_claimed_until; 0 is NULL (the clock starts at 1)
    refundStatus, \* metadata.refund_status, "none" if absent
    pc, moment, todo, current, started,   \* of each worker
    payouts,      \* at the provider: the Idempotence-Keys it paid out for
    faults, webhooks

dbVars == <<required, claimedUntil, refundStatus>>
workerVars == <<pc, moment, todo, current, started>>
vars == <<now, dbVars, workerVars, payouts, faults, webhooks>>

-----------------------------------------------------------------------------

TypeOK ==
    /\ now \in Nat
    /\ required \in [Txs -> BOOLEAN]
    /\ claimedUntil \in [Txs -> Nat]
    /\ refundStatus \in [Txs -> {"none", "succeeded", "pending", "canceled", "failed"}]
    /\ pc \in [Workers -> {"idle", "claim", "call", "succeeded", "pending", "canceled",
                       "rejected"}]
    /\ moment \in [Workers -> Nat]
    /\ todo \in [Workers -> SUBSET Txs]
    /\ current \in [Workers -> Txs \cup {NoTx}]
    /\ started \in [Workers -> Nat]
    /\ payouts \in [Txs -> SUBSET {<<"refund", t>> : t \in Txs}]
    /\ faults \in Nat
    /\ webhooks \in Nat

\* The settled orders of the module Orders: a paid order that could not be
\* served waits for its refund, a late one for the webhook that reports it.
Init ==
    /\ now = 1
    /\ required = [t \in Txs |-> t \notin Late]
    /\ claimedUntil = [t \in Txs |-> 0]
    /\ refundStatus = [t \in Txs |-> "none"]
    /\ pc = [w \in Workers |-> "idle"]
    /\ moment = [w \in Workers |-> 0]
    /\ todo = [w \in Workers |-> {}]
    /\ current = [w \in Workers |-> NoTx]
    /\ started = [w \in Workers |-> 0]
    /\ payouts = [t \in Txs |-> {}]
    /\ faults = 0
    /\ webhooks = 0

Goto(w, label) == pc' = [pc EXCEPT ![w] = label]

-----------------------------------------------------------------------------
(* One run of issue_pending_refunds *)

\* The oldest transactions that require a compensation.
Candidates ==
    {t \in Txs : required[t] /\ Cardinality({u \in Txs : required[u] /\ u < t}) < ChunkSize}

\* moment = now; candidate_ids = [...].  Bound: one run per worker and tick (an
\* immediate retry is a run of the other worker), any number once the clock of
\* the model has stopped.
Begin(w) ==
    /\ pc[w] = "idle" /\ (moment[w] < now \/ now = MaxTime)
    /\ Candidates # {}
    /\ moment' = [moment EXCEPT ![w] = now]
    /\ todo' = [todo EXCEPT ![w] = Candidates]
    /\ Goto(w, "claim")
    /\ UNCHANGED <<now, dbVars, current, started, payouts, faults, webhooks>>

\* Mutant: the lease of another run is not looked at.
Claimable_IgnoresLease(w, t) == required[t]

\* Mutant: a claim for ever in place of a lease.
Claimable_NoExpiry(w, t) == required[t] /\ claimedUntil[t] = 0

\* WHERE requires_compensation AND (claimed_until IS NULL OR claimed_until < moment)
Claimable(w, t) ==
    /\ required[t]
    /\ (claimedUntil[t] = 0 \/ claimedUntil[t] < moment[w])

\* The claim-check UPDATE; an unclaimable candidate is skipped.
Claim(w, t) ==
    /\ pc[w] = "claim"
    /\ t \in todo[w] /\ \A u \in todo[w] : t <= u
    /\ todo' = [todo EXCEPT ![w] = @ \ {t}]
    /\ \/ /\ Claimable(w, t)
          /\ claimedUntil' = [claimedUntil EXCEPT ![t] = moment[w] + ClaimTTL]
          /\ current' = [current EXCEPT ![w] = t]
          /\ started' = [started EXCEPT ![w] = now]
          /\ Goto(w, "call")
       \/ /\ ~Claimable(w, t)
          /\ UNCHANGED <<claimedUntil, current, started, pc>>
    /\ UNCHANGED <<now, required, refundStatus, moment, payouts, faults, webhooks>>

\* The loop is over.
Finish(w) ==
    /\ pc[w] = "claim" /\ todo[w] = {}
    /\ Goto(w, "idle")
    /\ UNCHANGED <<now, dbVars, moment, todo, current, started, payouts, faults, webhooks>>

\* Mutant: a fresh key for every run.
IdempotenceKey_PerRun(w, t) == <<"refund", t, moment[w]>>

\* idempotence_key=f"refund-{tx.pk}"
IdempotenceKey(w, t) == <<"refund", t>>

\* The provider's book once it has paid for the call of w (once per key).
PaidOut(w) == [payouts EXCEPT ![current[w]] = @ \cup {IdempotenceKey(w, current[w])}]

\* gateway.create_refund answers: the refund is made, is accepted and made later
\* or never (nobody asks again), is declined; or a 4xx or a malformed answer.
CallReturns(w) ==
    /\ pc[w] = "call"
    /\ \/ Goto(w, "succeeded") /\ payouts' = PaidOut(w)
       \/ Goto(w, "canceled") /\ UNCHANGED payouts
       \/ /\ \E answer \in {"pending", "rejected"} : Goto(w, answer)
          /\ payouts' \in {payouts, PaidOut(w)}
    /\ UNCHANGED <<now, dbVars, moment, todo, current, started, faults, webhooks>>

\* Faults come early enough for a later run to retry.
FaultAllowed == faults < MaxFaults /\ now + ClaimTTL < MaxTime

\* GatewayNetworkError: the request or only the answer was lost; the rest of
\* the run is abandoned and the lease stays.
CallBreaks(w) ==
    /\ pc[w] = "call"
    /\ FaultAllowed /\ faults' = faults + 1
    /\ payouts' \in {payouts, PaidOut(w)}
    /\ Goto(w, "idle")
    /\ todo' = [todo EXCEPT ![w] = {}]
    /\ UNCHANGED <<now, dbVars, moment, current, started, webhooks>>

\* The second transaction of a run, and _quarantine_refund: the compensation is
\* closed unless another run has closed it.
Close(w, status) ==
    LET t == current[w]
    IN IF required[t]
       THEN /\ required' = [required EXCEPT ![t] = FALSE]
            /\ claimedUntil' = [claimedUntil EXCEPT ![t] = 0]
            /\ refundStatus' = [refundStatus EXCEPT ![t] = status]
       ELSE UNCHANGED dbVars

\* The provider's answer is recorded, whatever status it carries.
RecordRefund(w) ==
    /\ pc[w] \in {"succeeded", "pending", "canceled"}
    /\ Close(w, pc[w])
    /\ Goto(w, "claim")
    /\ UNCHANGED <<now, moment, todo, current, started, payouts, faults, webhooks>>

\* Mutant: a quarantined refund is recorded as made.
QuarantineRefund_AsMade(w) ==
    /\ pc[w] = "rejected"
    /\ Close(w, "succeeded")
    /\ Goto(w, "claim")
    /\ UNCHANGED <<now, moment, todo, current, started, payouts, faults, webhooks>>

\* except GatewayContractError: _quarantine_refund(...); continue
QuarantineRefund(w) ==
    /\ pc[w] = "rejected"
    /\ Close(w, "failed")
    /\ Goto(w, "claim")
    /\ UNCHANGED <<now, moment, todo, current, started, payouts, faults, webhooks>>

-----------------------------------------------------------------------------
(* Environment *)

\* The worker dies; Redis Streams or the next cron tick starts another run.
Kill(w) ==
    /\ pc[w] # "idle"
    /\ FaultAllowed /\ faults' = faults + 1
    /\ Goto(w, "idle")
    /\ todo' = [todo EXCEPT ![w] = {}]
    /\ UNCHANGED <<now, dbVars, moment, current, started, payouts, webhooks>>

\* _apply_success for a payment that succeeded after the TTL sweep: the webhook,
\* first or repeated, asks for the compensation if none is asked for.
Webhook(t) ==
    /\ t \in Late
    /\ webhooks < MaxWebhooks /\ webhooks' = webhooks + 1
    /\ ~required[t]
    /\ required' = [required EXCEPT ![t] = TRUE]
    /\ UNCHANGED <<now, claimedUntil, refundStatus, workerVars, payouts, faults>>

Tick ==
    /\ now < MaxTime
    /\ \A w \in Workers : pc[w] = "idle" \/ (pc[w] = "call" /\ now < started[w] + CallTimeout)
    /\ now' = now + 1
    /\ UNCHANGED <<dbVars, workerVars, payouts, faults, webhooks>>

RunStep(w) ==
    \/ \E t \in Txs : Claim(w, t)
    \/ Finish(w) \/ CallReturns(w) \/ RecordRefund(w) \/ QuarantineRefund(w)

Next ==
    \/ \E w \in Workers : Begin(w) \/ RunStep(w) \/ CallBreaks(w) \/ Kill(w)
    \/ \E t \in Txs : Webhook(t)
    \/ Tick

Spec == Init /\ [][Next]_vars

\* The cron starts runs for ever, a live worker goes on, calls end, time passes.
FairSpec ==
    /\ Spec
    /\ WF_vars(Tick)
    /\ \A w \in Workers : WF_vars(Begin(w)) /\ WF_vars(RunStep(w))

-----------------------------------------------------------------------------
(* Properties *)

InCall(w, t) == pc[w] = "call" /\ current[w] = t

\* Whatever workers die, answers get lost or webhooks repeat, the provider pays
\* a compensation out once (services.py:1055-1060, README.md:129).
PaidOutOnce ==
    \A t \in Txs : Cardinality(payouts[t]) <= 1

\* A compensation recorded as paid was paid by the provider (services.py:1067-1085).
RecordedRefundIsReal ==
    \A t \in Txs : refundStatus[t] = "succeeded" => payouts[t] # {}

\* "A parallel tick does not send a second create_refund" (services.py:1033-1035,
\* billing/models.py:181-182): overlapping runs never call the provider for the same
\* transaction at the same time.  All leases of a run count from its beginning, so
\* this holds only while the calls of a batch fit into one lease.
NoParallelRefundCalls ==
    \A v, w \in Workers, t \in Txs : InCall(v, t) /\ InCall(w, t) => v = w

\* What the lease promises of a batch of any length: a second run takes up a
\* transaction only if it began after the first one's lease had run out
\* (services.py:1038-1045).  Late transactions are left out: the first run to close
\* one clears the lease, and a repeated webhook opens it again for anybody.
OverlapsAreSpaced ==
    \A v, w \in Workers, t \in Txs \ Late :
        InCall(v, t) /\ InCall(w, t) /\ v # w =>
            moment[v] + ClaimTTL < moment[w] \/ moment[w] + ClaimTTL < moment[v]

\* A demanded compensation is closed in the end: lost answers and dead workers
\* delay it by a lease, they do not bury it (services.py:1033-1037).
CompensationsClose ==
    \A t \in Txs : required[t] ~> ~required[t]
-----------------------------------------------------------------------------
(* The inductive invariants *)

\* Between its claim and the close a worker is busy with a transaction.
Busy(w) == pc[w] \in {"call", "succeeded", "pending", "canceled", "rejected"}

\* The provider has one key for a transaction, and an answer "succeeded" is one
\* that has paid.
PayoutsAreKnown ==
    /\ \A t \in Txs : payouts[t] \subseteq {<<"refund", t>>}
    /\ \A w \in Workers : Busy(w) => current[w] \in Txs
    /\ \A w \in Workers : pc[w] = "succeeded" => payouts[current[w]] # {}

IInv ==
    /\ TypeOK
    /\ PayoutsAreKnown
    /\ RecordedRefundIsReal

\* The lease covers the calls of a batch: all of them count from the moment the
\* run began.
BatchFits == Cardinality(Candidates) * CallTimeout <= ClaimTTL

\* A busy worker holds the lease of its transaction, alone.
LeasesAreHeld ==
    /\ \A w \in Workers : Busy(w) => claimedUntil[current[w]] = moment[w] + ClaimTTL
    /\ \A v, w \in Workers : Busy(v) /\ Busy(w) /\ current[v] = current[w] => v = w

\* The calls that are left fit into what is left of the lease.
RunsAreTimely ==
    /\ now >= 1
    /\ \A w \in Workers :
        /\ moment[w] <= now
        /\ pc[w] # "idle" => moment[w] >= 1
        /\ pc[w] = "claim" =>
              now + Cardinality(todo[w]) * CallTimeout <= moment[w] + ClaimTTL
        /\ Busy(w) =>
              /\ started[w] + (Cardinality(todo[w]) + 1) * CallTimeout <= moment[w] + ClaimTTL
              /\ now <= started[w] + CallTimeout

LeaseInv == IInv /\ LeasesAreHeld /\ RunsAreTimely

\* A run has begun, and not in the future.
MomentsAreKnown ==
    /\ now >= 1
    /\ \A w \in Workers : moment[w] <= now /\ (pc[w] # "idle" => moment[w] >= 1)

\* An open compensation is leased at least as long as any of the runs busy with it
\* asked for, so that the next one to claim it has begun later.
LeasesAreOrdered ==
    \A w \in Workers : Busy(w) /\ current[w] \notin Late =>
        /\ required[current[w]] => moment[w] + ClaimTTL <= claimedUntil[current[w]]
        /\ \A v \in Workers : Busy(v) /\ current[v] = current[w] /\ v # w =>
              moment[v] + ClaimTTL < moment[w] \/ moment[w] + ClaimTTL < moment[v]

SpacedInv == IInv /\ MomentsAreKnown /\ LeasesAreOrdered
=============================================================================
