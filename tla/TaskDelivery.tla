---------------------------- MODULE TaskDelivery ----------------------------
(***************************************************************************)
(* Background tasks: who enqueues them, how the broker of config/tkq.py    *)
(* delivers them, and what the handlers do with an error.  Three kinds:    *)
(* notify_managers_task (a public form was stored), verify_and_process_-   *)
(* payment (a webhook came) and send_otp_email_task (a code was stored).   *)
(*                                                                         *)
(* The broker is a Redis stream with a consumer group.  A message that a   *)
(* worker took stays in the pending list until XACK, which follows the     *)
(* execution.  A message that is pending for reclaim_idle_timeout_ms moves *)
(* to another worker: its worker is dead, or slow, and then both execute   *)
(* it and the first XACK takes the entry from under the other.             *)
(* SimpleRetryMiddleware answers an error of a task with retry_on_error by *)
(* enqueueing a NEW message whose label _retries is one higher, before the *)
(* old one is acknowledged.  A message is a pair (job, retries), and those *)
(* with equal pairs are not told apart; the stream and the pending list    *)
(* are bags of messages.                                                   *)
(***************************************************************************)
EXTENDS Naturals, FiniteSets

CONSTANTS
    Forms,       \* submissions of the callback and feedback forms
    Payments,    \* payments the provider sends a webhook for
    Mails,       \* one-time codes committed by request_otp
    Workers,
    Budget,      \* max_retries: executions of one chain of retries
    NoJob,
    MaxDeaths,   \* bound on killed workers
    MaxSlow,     \* bound on executions that outlive the reclaim timeout
    MaxWebhooks  \* bound on the webhooks sent per payment

Jobs == Forms \cup Payments \cup Mails
Tries == 0..(Budget - 1)

ASSUME TaskDeliveryAssumption ==
    /\ Forms \cap Payments = {} /\ Forms \cap Mails = {} /\ Payments \cap Mails = {}
    /\ NoJob \notin Jobs
    /\ Budget \in Nat \ {0}
    /\ MaxDeaths \in Nat /\ MaxSlow \in Nat /\ MaxWebhooks \in Nat
    /\ IsFiniteSet(Workers)

VARIABLES
    configured,  \* TELEGRAM_BOT_TOKEN and TELEGRAM_MANAGER_CHAT_ID are set
    web,         \* the web process serving a job's request
    stored,      \* the row of the form (or of the code) is committed
    deleted,     \* staff deleted the row
    sent,        \* webhooks the provider sent for a payment
    stream,      \* messages nobody took, by job and retries
    orphaned,    \* messages in the pending list of a dead worker
    worker,      \* [pc, job, tries, held]: held if its entry is still pending
    deaths,
    slow,        \* messages claimed from workers that were still executing them
    enqueued,    \* history: messages the web process enqueued for a job
    confirmed,   \* history: executions that ended with the effect confirmed
    skipped,     \* history: an execution ended with nothing left to do
    failed       \* history: executions that raised

webVars == <<configured, web, stored, deleted, sent, enqueued>>
history == <<confirmed, skipped, failed>>
deliveryVars == <<webVars, stream, orphaned, worker, deaths, slow, history>>

-----------------------------------------------------------------------------

Idle == [pc |-> "idle", job |-> NoJob, tries |-> 0, held |-> FALSE]
NoMessages == [j \in Jobs |-> [k \in Tries |-> 0]]

\* Executing a message, or idle.
Executions == [pc : {"run", "again", "error", "ack"}, job : Jobs, tries : Tries,
               held : BOOLEAN] \cup {Idle}

DeliveryTypeOK ==
    /\ configured \in BOOLEAN
    /\ web \in [Jobs -> {"new", "enqueue", "accepted", "refused", "dropped", "error"}]
    /\ stored \in [Jobs -> BOOLEAN] /\ deleted \in [Jobs -> BOOLEAN]
    /\ sent \in [Payments -> Nat]
    /\ stream \in [Jobs -> [Tries -> Nat]] /\ orphaned \in [Jobs -> [Tries -> Nat]]
    /\ worker \in [Workers -> Executions]
    /\ deaths \in 0..MaxDeaths /\ slow \in 0..MaxSlow
    /\ enqueued \in [Jobs -> Nat] /\ confirmed \in [Jobs -> Nat] /\ failed \in [Jobs -> Nat]
    /\ skipped \in [Jobs -> BOOLEAN]

DeliveryInit ==
    /\ configured \in BOOLEAN
    /\ web = [j \in Jobs |-> "new"]
    /\ stored = [j \in Jobs |-> FALSE] /\ deleted = [j \in Jobs |-> FALSE]
    /\ sent = [p \in Payments |-> 0]
    /\ stream = NoMessages /\ orphaned = NoMessages
    /\ worker = [w \in Workers |-> Idle]
    /\ deaths = 0 /\ slow = 0
    /\ enqueued = [j \in Jobs |-> 0]
    /\ confirmed = [j \in Jobs |-> 0] /\ failed = [j \in Jobs |-> 0]
    /\ skipped = [j \in Jobs |-> FALSE]

-----------------------------------------------------------------------------
(* Web processes *)

\* The honeypot field is filled in: the answer is 202 and nothing is stored.
Honeypot(f) ==
    /\ f \in Forms /\ web[f] = "new"
    /\ web' = [web EXCEPT ![f] = "dropped"]
    /\ UNCHANGED <<configured, stored, deleted, sent, enqueued, stream, orphaned, worker, deaths,
                   slow, history>>

\* No token, the captcha's provider says no, answers badly or cannot be reached.
CaptchaRefuses(f) ==
    /\ f \in Forms /\ web[f] = "new"
    /\ web' = [web EXCEPT ![f] = "refused"]
    /\ UNCHANGED <<configured, stored, deleted, sent, enqueued, stream, orphaned, worker, deaths,
                   slow, history>>

\* The row of the form, or of the one-time code, is committed.
StoreRow(j) ==
    /\ j \in Forms \cup Mails /\ web[j] = "new"
    /\ web' = [web EXCEPT ![j] = "enqueue"]
    /\ stored' = [stored EXCEPT ![j] = TRUE]
    /\ UNCHANGED <<configured, deleted, sent, enqueued, stream, orphaned, worker, deaths,
                   slow, history>>

\* kiq() of the first message.
Kiq(j) ==
    /\ stream' = [stream EXCEPT ![j][0] = @ + 1]
    /\ enqueued' = [enqueued EXCEPT ![j] = @ + 1]

\* on_commit runs, and the request is answered with 202.
EnqueueOnCommit(j) ==
    /\ j \in Forms \cup Mails /\ web[j] = "enqueue"
    /\ Kiq(j)
    /\ web' = [web EXCEPT ![j] = "accepted"]
    /\ UNCHANGED <<configured, stored, deleted, sent, orphaned, worker, deaths, slow, history>>

\* The process dies or the broker is unreachable after the commit: the answer is
\* an error (or none), the row stays, no message exists.
LoseOnCommit(j) ==
    /\ j \in Forms \cup Mails /\ web[j] = "enqueue"
    /\ web' = [web EXCEPT ![j] = "error"]
    /\ UNCHANGED <<configured, stored, deleted, sent, enqueued, stream, orphaned, worker, deaths,
                   slow, history>>

\* YookassaWebhookView.  The provider sends its webhook again until it sees a 200,
\* and may send it once more; an event that is no payment event is answered 200.
Webhook(p) ==
    /\ p \in Payments /\ sent[p] < MaxWebhooks
    /\ sent' = [sent EXCEPT ![p] = @ + 1]
    /\ \/ Kiq(p) /\ web' = [web EXCEPT ![p] = "accepted"]
       \/ /\ web[p] # "accepted"
          /\ web' \in {[web EXCEPT ![p] = "error"], [web EXCEPT ![p] = "dropped"]}
          /\ UNCHANGED <<stream, enqueued>>
    /\ UNCHANGED <<configured, stored, deleted, orphaned, worker, deaths, slow, history>>

\* Staff delete the row of a form in the admin.
DeleteRow(f) ==
    /\ f \in Forms /\ stored[f] /\ ~deleted[f]
    /\ deleted' = [deleted EXCEPT ![f] = TRUE]
    /\ UNCHANGED <<configured, web, stored, sent, enqueued, stream, orphaned, worker, deaths,
                   slow, history>>

-----------------------------------------------------------------------------
(* Workers *)

\* An execution that begins, and one whose entry another worker claims or removes.
Executing(j, k) == [pc |-> "run", job |-> j, tries |-> k, held |-> TRUE]
LetGo(m) == [m EXCEPT !.held = FALSE]

\* XREADGROUP: a message moves to the worker's pending list.
Take(w) ==
    /\ worker[w].pc = "idle"
    /\ \E j \in Jobs, k \in Tries :
        /\ stream[j][k] > 0
        /\ stream' = [stream EXCEPT ![j][k] = @ - 1]
        /\ worker' = [worker EXCEPT ![w] = Executing(j, k)]
    /\ UNCHANGED <<webVars, orphaned, deaths, slow, history>>

\* Mutant: nobody claims the messages of a dead worker.
Reclaimable_Never == {}

Reclaimable == {m \in Jobs \X Tries : orphaned[m[1]][m[2]] > 0}

\* XAUTOCLAIM, reclaim_idle_timeout_ms after the worker's death.
Reclaim(w) ==
    /\ worker[w].pc = "idle"
    /\ \E m \in Reclaimable :
        /\ orphaned' = [orphaned EXCEPT ![m[1]][m[2]] = @ - 1]
        /\ worker' = [worker EXCEPT ![w] = Executing(m[1], m[2])]
    /\ UNCHANGED <<webVars, stream, deaths, slow, history>>

\* The same of a message whose worker v is alive: tkq.py:21-25 sets the timeout above
\* the longest task, but none is enforced, and the mail task has no timeout of its own.
ClaimSlow(w, v) ==
    /\ worker[w].pc = "idle" /\ worker[v].held
    /\ slow < MaxSlow /\ slow' = slow + 1
    /\ worker' = [worker EXCEPT ![w] = Executing(worker[v].job, worker[v].tries),
                                ![v] = LetGo(@)]
    /\ UNCHANGED <<webVars, stream, orphaned, deaths, history>>

\* The handler returns: the effect is confirmed by the other side.
Succeeds(w, j) ==
    /\ confirmed' = [confirmed EXCEPT ![j] = @ + 1]
    /\ worker' = [worker EXCEPT ![w].pc = "ack"]
    /\ UNCHANGED <<skipped, failed>>

\* The handler raises.
Raises(w, j) ==
    /\ failed' = [failed EXCEPT ![j] = @ + 1]
    /\ worker' = [worker EXCEPT ![w].pc = "error"]
    /\ UNCHANGED <<confirmed, skipped>>

\* The handler returns and leaves the effect undone for good.
Skips(w, j) ==
    /\ skipped' = [skipped EXCEPT ![j] = TRUE]
    /\ worker' = [worker EXCEPT ![w].pc = "ack"]
    /\ UNCHANGED <<confirmed, failed>>

\* notify_managers_task: the row is read; without it, or without the settings, the
\* task returns.  Telegram answers 200, 429 (the task sleeps and posts again),
\* another status, or the connection fails, perhaps after it took the message.
Notify(w) ==
    LET f == worker[w].job IN
    /\ worker[w].pc = "run" /\ f \in Forms
    /\ \/ /\ ~stored[f] \/ deleted[f] \/ ~configured
          /\ Skips(w, f)
       \/ /\ stored[f] /\ ~deleted[f] /\ configured
          /\ Succeeds(w, f) \/ Raises(w, f)
       \/ /\ stored[f] /\ ~deleted[f] /\ configured
          /\ worker' = [worker EXCEPT ![w].pc = "again"]
          /\ UNCHANGED history
    /\ UNCHANGED <<webVars, stream, orphaned, deaths, slow>>

\* The second post; a second 429 is an error like any other.
NotifyAgain(w) ==
    /\ worker[w].pc = "again"
    /\ Succeeds(w, worker[w].job) \/ Raises(w, worker[w].job)
    /\ UNCHANGED <<webVars, stream, orphaned, deaths, slow>>

\* run_payment_verification: permanent errors are logged and swallowed, a
\* GatewayNetworkError is raised.
VerifyPayment(w) ==
    LET p == worker[w].job IN
    /\ worker[w].pc = "run" /\ p \in Payments
    /\ \/ Succeeds(w, p)
       \/ Raises(w, p)
       \/ Skips(w, p)
    /\ UNCHANGED <<webVars, stream, orphaned, deaths, slow>>

\* send_otp_email_task: fail_silently=False.
SendMail(w) ==
    LET m == worker[w].job IN
    /\ worker[w].pc = "run" /\ m \in Mails
    /\ Succeeds(w, m) \/ Raises(w, m)
    /\ UNCHANGED <<webVars, stream, orphaned, deaths, slow>>

\* retry_on_error, and _retries below max_retries.  The mail task has no retries.
Retryable(j, k) == j \notin Mails /\ k + 1 < Budget

\* Mutant: the retry keeps the label of the failed message.
RetryLabel_Same(k) == k

RetryLabel(k) == k + 1

\* SimpleRetryMiddleware.on_error.
OnError(w) ==
    LET j == worker[w].job  k == worker[w].tries IN
    /\ worker[w].pc = "error"
    /\ IF Retryable(j, k)
       THEN stream' = [stream EXCEPT ![j][RetryLabel(k)] = @ + 1]
       ELSE UNCHANGED stream
    /\ worker' = [worker EXCEPT ![w].pc = "ack"]
    /\ UNCHANGED <<webVars, orphaned, deaths, slow, history>>

\* XACK removes the pending entry, whoever has it now: the worker itself, nobody
\* (another has acknowledged it), the list of a dead worker, or another worker that
\* claimed it.
Ack(w) ==
    LET j == worker[w].job  k == worker[w].tries IN
    /\ worker[w].pc = "ack"
    /\ \/ /\ worker' = [worker EXCEPT ![w] = Idle]
          /\ UNCHANGED orphaned
       \/ /\ ~worker[w].held /\ orphaned[j][k] > 0
          /\ orphaned' = [orphaned EXCEPT ![j][k] = @ - 1]
          /\ worker' = [worker EXCEPT ![w] = Idle]
       \/ \E v \in Workers \ {w} :
          /\ ~worker[w].held
          /\ worker[v].held /\ worker[v].job = j /\ worker[v].tries = k
          /\ worker' = [worker EXCEPT ![w] = Idle, ![v] = LetGo(@)]
          /\ UNCHANGED orphaned
    /\ UNCHANGED <<webVars, stream, deaths, slow, history>>

\* Mutant: the list broker, whose BLPOP had removed the message (tkq.py:35-36).
Orphan_Destructive(w) == UNCHANGED orphaned

\* The entry of a dead worker stays pending, if it is still there.
Orphan(w) ==
    IF worker[w].held
    THEN orphaned' = [orphaned EXCEPT ![worker[w].job][worker[w].tries] = @ + 1]
    ELSE UNCHANGED orphaned

\* SIGKILL at any point of the execution; the worker is started again.
Die(w) ==
    /\ worker[w].pc # "idle" /\ deaths < MaxDeaths
    /\ deaths' = deaths + 1
    /\ Orphan(w)
    /\ worker' = [worker EXCEPT ![w] = Idle]
    /\ UNCHANGED <<webVars, stream, slow, history>>

-----------------------------------------------------------------------------

Work(w) == Take(w) \/ Reclaim(w) \/ Notify(w) \/ NotifyAgain(w) \/ VerifyPayment(w)
           \/ SendMail(w) \/ OnError(w) \/ Ack(w)

DeliveryNext ==
    \/ \E j \in Jobs : Honeypot(j) \/ CaptchaRefuses(j) \/ StoreRow(j) \/ EnqueueOnCommit(j)
                       \/ LoseOnCommit(j) \/ Webhook(j) \/ DeleteRow(j)
    \/ \E w \in Workers : Work(w) \/ Die(w) \/ \E v \in Workers : ClaimSlow(w, v)

DeliverySpec == DeliveryInit /\ [][DeliveryNext]_deliveryVars

\* Workers are restarted and go on, slowly perhaps; each reads the stream and claims
\* orphans.
FairDelivery == DeliverySpec /\ \A w \in Workers : WF_deliveryVars(Work(w))

-----------------------------------------------------------------------------
(* Properties *)

Waiting(j) == \E k \in Tries : stream[j][k] > 0 \/ orphaned[j][k] > 0
Running(j) == \E w \in Workers : worker[w].job = j
BudgetOf(j) == IF j \in Mails THEN 1 ELSE Budget

\* A notification may be skipped if staff deleted the form or nobody configured
\* the bot, a verification if the provider's answer is final.
Excused(j) == skipped[j] /\ (j \in Forms => deleted[j] \/ ~configured)
Resolved(j) == confirmed[j] > 0 \/ Excused(j) \/ failed[j] >= BudgetOf(j)

\* A task whose request was accepted is not lost, wherever a worker dies: its
\* effect is confirmed, or an execution had reason to skip it (and not because it
\* ran ahead of the commit, public_forms/services.py:75-78), or all executions of
\* its budget raised, or a message of it is in the stream, in a pending list or in
\* execution (config/tkq.py:35-38, "at-least-once").
AcceptedIsNotLost ==
    \A j \in Jobs : web[j] = "accepted" => Resolved(j) \/ Waiting(j) \/ Running(j)

\* No retry storm and no needless repetition: each message of the web process, each
\* death of a worker between an effect or a retry and its XACK, and each message that
\* is claimed from a slow worker, starts at most one more chain of retries, which ends
\* with its budget or with the first success (config/tkq.py:21-25, 45-47).
Grants(j) == enqueued[j] + deaths + slow
ExecutionsBounded ==
    \A j \in Jobs : /\ confirmed[j] <= Grants(j)
                    /\ failed[j] <= BudgetOf(j) * Grants(j)

\* An accepted task is settled in the end, if workers die and lag only so many times.
AcceptedIsResolved == \A j \in Jobs : web[j] = "accepted" ~> Resolved(j)

-----------------------------------------------------------------------------
(* The inductive invariant *)

\* A message follows from what happened before: its form is committed, its label is
\* in the budget and counts executions that raised.
Genuine(j, k) ==
    /\ j \in Forms => stored[j]
    /\ k < BudgetOf(j)
    /\ k <= failed[j]

MessagesAreGenuine ==
    /\ \A f \in Forms : web[f] = "enqueue" => stored[f]
    /\ \A j \in Jobs, k \in Tries : stream[j][k] > 0 \/ orphaned[j][k] > 0 => Genuine(j, k)
    /\ \A w \in Workers :
        LET m == worker[w] IN
        /\ m.pc # "idle" => Genuine(m.job, m.tries)
        /\ m.pc = "error" => m.tries + 1 <= failed[m.job]

\* A message of j with k retries behind it will be executed, wherever a worker dies;
\* a worker whose entry another one claimed or acknowledged secures nothing, nor does
\* one that has only the XACK left.
Secures(m, j, k) == m.held /\ m.pc # "ack" /\ m.job = j /\ m.tries = k
Secured(j, k) == \/ stream[j][k] > 0 \/ orphaned[j][k] > 0
                 \/ \E w \in Workers : Secures(worker[w], j, k)

Safe(j, k) == Resolved(j) \/ \E l \in Tries : l >= k /\ Secured(j, l)

\* Before a message is acknowledged its job is settled, or a later message is secured:
\* an XACK that takes an entry of equal label from under another worker loses nothing.
NothingIsLost ==
    /\ \A j \in Jobs : web[j] = "accepted" => Safe(j, 0)
    /\ \A w \in Workers, j \in Jobs, k \in Tries :
          worker[w].pc = "ack" /\ worker[w].job = j /\ worker[w].tries = k => Safe(j, k + 1)

\* What the messages of a job weigh, place by place: before[k] with k retries behind
\* it, after[k] when its execution has raised, nothing when only the XACK is left.
Places == (Tries \X {"stream", "orphaned"}) \cup (Workers \X {"worker"})

InHand(w, j, before, after) ==
    LET m == worker[w] IN
    IF m.job # j \/ m.pc = "ack" THEN 0
    ELSE IF m.pc = "error" THEN after[m.tries] ELSE before[m.tries]

Weight(j, before, after) ==
    [h \in Places |-> CASE h[2] = "stream"   -> stream[j][h[1]] * before[h[1]]
                        [] h[2] = "orphaned" -> orphaned[j][h[1]] * before[h[1]]
                        [] OTHER             -> InHand(h[1], j, before, after)]

\* The sum of weights, as the number of their units.
Units(places, weight) == UNION {{h} \X (1..weight[h]) : h \in places}
Total(places, weight) == Cardinality(Units(places, weight))

\* A message is one chain of retries, whose executions are in the budget.
One == [k \in Tries |-> 1]
Left(j) == [k \in Tries |-> IF k < BudgetOf(j) THEN BudgetOf(j) - k ELSE 0]
LeftAfter(j) == [k \in Tries |-> IF k + 1 < BudgetOf(j) THEN BudgetOf(j) - (k + 1) ELSE 0]

ExecutionsAreCounted ==
    \A j \in Jobs :
        /\ confirmed[j] + Total(Places, Weight(j, One, One)) <= Grants(j)
        /\ failed[j] + Total(Places, Weight(j, Left(j), LeftAfter(j)))
              <= BudgetOf(j) * Grants(j)

DeliveryInv ==
    /\ DeliveryTypeOK
    /\ MessagesAreGenuine
    /\ NothingIsLost
    /\ ExecutionsAreCounted
=============================================================================
