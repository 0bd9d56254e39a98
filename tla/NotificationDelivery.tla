------------------------ MODULE NotificationDelivery ------------------------
(***************************************************************************)
(* The durable Telegram outbox of the notification feature:                *)
(*   notification/service/durable_delivery.py      deliver, deliver_pending*)
(*   notification/persistence/durable_delivery.py  list, prepare, complete *)
(*   notification/providers/telegram.py            the outbound adapter    *)
(* together with the three things that interfere with it: alert            *)
(* invalidation, trade cancellation, and a second delivering process (the  *)
(* backend's background runner and the monitor-positions-once command run  *)
(* the same service against the same database).                            *)
(*                                                                         *)
(* One step of this module is one committed database transaction, one      *)
(* adapter call, a crash, or the passing of a unit of time. prepare()      *)
(* locks trade, notification and alert rows before it reads them, and      *)
(* complete() locks attempt and notification, so each is one step.         *)
(* A notification stands for its alert too: (alert, channel, destination)  *)
(* is unique and the product has one channel and one destination.          *)
(*                                                                         *)
(* Definitions that nothing uses, such as SendingBlocksUnchecked before    *)
(* SendingBlocks, are plausible bugs: putting one in the place of the      *)
(* definition that follows it makes a property of this module fail.        *)
(***************************************************************************)
EXTENDS Naturals, Sequences, FiniteSets

CONSTANTS
    Notifications,    \* numbered in created_at order
    Trades,
    TradeOf,          \* the trade an alert (and so its notification) is about
    Workers,          \* delivering processes
    Runners,          \* those of them that repeat their cycle for ever
    MaxAttempts,      \* max_attempts, 3 in production
    BatchLimit,       \* limit of deliver_pending, 100 in production
    RecoveryTimeout,  \* in_progress_timeout, in units of time
    MaxStall,         \* longest time between prepare and complete of a live
                      \* process; RecoveryTimeout stands for "no bound"
    MaxCrashes        \* bound on process crashes and aborted passes

ASSUME DeliveryAssumption ==
    /\ Notifications \subseteq Nat \ {0}
    /\ IsFiniteSet(Notifications)
    /\ TradeOf \in [Notifications -> Trades]
    /\ Runners \subseteq Workers
    /\ MaxAttempts \in Nat \ {0}
    /\ BatchLimit \in Nat \ {0}
    /\ RecoveryTimeout \in Nat \ {0}
    /\ MaxStall \in Nat
    /\ MaxCrashes \in Nat

VARIABLES
    \* database
    alert,         \* alerts.status
    notification,  \* notifications.status, or "NONE" while there is no row
    attempts,      \* notification_delivery_attempts in attempt_number order
    cancelled,     \* the trades whose cancelled_at is set
    \* delivering processes
    pc,            \* what the process does next
    queue,         \* notification ids listed by deliver_pending and not tried
    call,          \* the delivery the process is busy with
    \* environment
    accepted,      \* attempts whose message Telegram has put into the chat
    crashes

database == <<alert, notification, attempts, cancelled>>
session  == <<pc, queue, call>>
vars     == <<database, session, accepted, crashes>>

AlertStatus        == {"OPEN", "RESOLVED", "INVALIDATED"}
NotificationStatus == {"NONE", "PENDING", "DELIVERED", "FAILED"}
AttemptStatus      == {"IN_PROGRESS", "DELIVERED", "FAILED"}

\* age is the time since attempted_at, as far as recovery can tell it apart.
Attempt == [status : AttemptStatus, retryable : BOOLEAN, age : 0..RecoveryTimeout]
NewAttempt == [status |-> "IN_PROGRESS", retryable |-> TRUE, age |-> 0]

Reply  == {"NONE", "DELIVERED", "RETRYABLE", "PERMANENT"}
Call   == [n : Notifications \cup {0}, k : 0..MaxAttempts,
           elapsed : 0..RecoveryTimeout, reply : Reply]
NoCall == [n |-> 0, k |-> 0, elapsed |-> 0, reply |-> "NONE"]

Busy(w)       == pc[w] \in {"posting", "answered"}
InProgress(n) == \E k \in DOMAIN attempts[n] : attempts[n][k].status = "IN_PROGRESS"
Invalidated(n)  == alert[n] = "INVALIDATED"
OfCancelled(n)  == TradeOf[n] \in cancelled


TypeOK ==
    /\ alert \in [Notifications -> AlertStatus]
    /\ notification \in [Notifications -> NotificationStatus]
    /\ attempts \in [Notifications -> Seq(Attempt)]
    /\ \A n \in Notifications : Len(attempts[n]) <= MaxAttempts
    /\ cancelled \subseteq Trades
    /\ pc \in [Workers -> {"idle", "pass", "posting", "answered"}]
    /\ queue \in [Workers -> SUBSET Notifications]
    /\ call \in [Workers -> Call]
    /\ accepted \in [Notifications -> SUBSET (1..MaxAttempts)]
    /\ crashes \in 0..MaxCrashes

Init ==
    /\ alert = [n \in Notifications |-> "OPEN"]
    /\ notification = [n \in Notifications |-> "NONE"]
    /\ attempts = [n \in Notifications |-> <<>>]
    /\ cancelled = {}
    /\ pc = [w \in Workers |-> "idle"]
    /\ queue = [w \in Workers |-> {}]
    /\ call = [w \in Workers |-> NoCall]
    /\ accepted = [n \in Notifications |-> {}]
    /\ crashes = 0

----------------------------------------------------------------------------
(* The other writers of the tables.                                        *)

\* The runtime creates the notification of an alert once; the insert trigger
\* rejects it for a cancelled trade. The alert's status is not looked at.
CreateNotification(n) ==
    /\ notification[n] = "NONE"
    /\ ~OfCancelled(n)
    /\ notification' = [notification EXCEPT ![n] = "PENDING"]
    /\ UNCHANGED <<alert, attempts, cancelled, session, accepted, crashes>>

\* The monitored condition has gone away.
ResolveAlert(n) ==
    /\ alert[n] = "OPEN"
    /\ alert' = [alert EXCEPT ![n] = "RESOLVED"]
    /\ UNCHANGED <<notification, attempts, cancelled, session, accepted, crashes>>

\* A superseded risk configuration, or the quarantine of alerts without a
\* price basis, invalidates any number of open alerts in one transaction.
InvalidateAlerts(S) ==
    /\ S # {}
    /\ \A n \in S : alert[n] = "OPEN"
    /\ alert' = [n \in Notifications |-> IF n \in S THEN "INVALIDATED" ELSE alert[n]]
    /\ UNCHANGED <<notification, attempts, cancelled, session, accepted, crashes>>

\* preview() blocks the cancellation while a delivery of the trade is in
\* progress.
SendingBlocksUnchecked(t) == FALSE
SendingBlocks(t) == \E n \in Notifications : TradeOf[n] = t /\ InProgress(n)

FailEveryNotification(status) == IF status = "NONE" THEN "NONE" ELSE "FAILED"
FailPending(status) == IF status = "PENDING" THEN "FAILED" ELSE status

CancelTrade(t) ==
    /\ t \notin cancelled
    /\ ~SendingBlocks(t)
    /\ cancelled' = cancelled \cup {t}
    /\ alert' = [n \in Notifications |->
                   IF TradeOf[n] = t /\ alert[n] = "OPEN" THEN "RESOLVED" ELSE alert[n]]
    /\ notification' = [n \in Notifications |->
                          IF TradeOf[n] = t THEN FailPending(notification[n])
                                            ELSE notification[n]]
    /\ UNCHANGED <<attempts, session, accepted, crashes>>

----------------------------------------------------------------------------
(* deliver_pending: list once, then deliver one notification after another.*)

Listable == {n \in Notifications :
               notification[n] = "PENDING" /\ ~Invalidated(n) /\ ~OfCancelled(n)}

\* ORDER BY created_at LIMIT limit.
Batch == {n \in Listable : Cardinality({m \in Listable : m < n}) < BatchLimit}

ListPending(w) ==
    /\ pc[w] = "idle"
    /\ Batch # {}
    /\ queue' = [queue EXCEPT ![w] = Batch]
    /\ pc' = [pc EXCEPT ![w] = "pass"]
    /\ UNCHANGED <<database, call, accepted, crashes>>

\* The pass goes on with the rest of the listed notifications.
Rest(q) == IF q = {} THEN "idle" ELSE "pass"

\* n is the next listed notification of the pass of w.
Turn(w, n) ==
    /\ pc[w] = "pass"
    /\ n \in queue[w]
    /\ \A m \in queue[w] : n <= m

\* prepare() returned a terminal result: nothing is sent.
Skip(w, n) ==
    /\ queue' = [queue EXCEPT ![w] = @ \ {n}]
    /\ pc' = [pc EXCEPT ![w] = Rest(queue[w] \ {n})]
    /\ UNCHANGED <<call, accepted, crashes>>

PrepareInvalidated(w, n) ==
    /\ Turn(w, n)
    /\ Invalidated(n)
    /\ notification' = [notification EXCEPT ![n] = "FAILED"]
    /\ UNCHANGED <<alert, attempts, cancelled>>
    /\ Skip(w, n)

AlreadyDelivered(n) == notification[n] = "DELIVERED"

PrepareSettled(w, n) ==
    /\ Turn(w, n)
    /\ ~Invalidated(n)
    /\ OfCancelled(n) \/ AlreadyDelivered(n)
    /\ UNCHANGED database
    /\ Skip(w, n)

Deliverable(n) == ~Invalidated(n) /\ ~OfCancelled(n) /\ ~AlreadyDelivered(n)

\* attempted_at <= now - in_progress_timeout
StaleAtOnce(a) == a.status = "IN_PROGRESS"
NeverStale(a)  == FALSE
Stale(a) == a.status = "IN_PROGRESS" /\ a.age >= RecoveryTimeout

\* What a stale attempt is overwritten with (error_code PROCESS_INTERRUPTED).
Interrupted == [status |-> "FAILED", retryable |-> TRUE, age |-> 0]

Recovered(n) == [k \in DOMAIN attempts[n] |->
                   IF Stale(attempts[n][k]) THEN Interrupted ELSE attempts[n][k]]

StillActive(n) == \E k \in DOMAIN attempts[n] : Recovered(n)[k].status = "IN_PROGRESS"

OneAttemptTooMany(n) == Len(attempts[n]) <= MaxAttempts
AttemptsLeft(n) == Len(attempts[n]) + 1 <= MaxAttempts

PrepareBusy(w, n) ==
    /\ Turn(w, n)
    /\ Deliverable(n)
    /\ StillActive(n)
    /\ attempts' = [attempts EXCEPT ![n] = Recovered(n)]
    /\ UNCHANGED <<alert, notification, cancelled>>
    /\ Skip(w, n)

PrepareExhausted(w, n) ==
    /\ Turn(w, n)
    /\ Deliverable(n)
    /\ ~StillActive(n)
    /\ ~AttemptsLeft(n)
    /\ attempts' = [attempts EXCEPT ![n] = Recovered(n)]
    /\ notification' = [notification EXCEPT ![n] = "FAILED"]
    /\ UNCHANGED <<alert, cancelled>>
    /\ Skip(w, n)

PrepareAttempt(w, n) ==
    /\ Turn(w, n)
    /\ Deliverable(n)
    /\ ~StillActive(n)
    /\ AttemptsLeft(n)
    /\ attempts' = [attempts EXCEPT ![n] = Append(Recovered(n), NewAttempt)]
    /\ notification' = [notification EXCEPT ![n] = "PENDING"]
    /\ queue' = [queue EXCEPT ![w] = @ \ {n}]
    /\ pc' = [pc EXCEPT ![w] = "posting"]
    /\ call' = [call EXCEPT ![w] = [n |-> n, k |-> Len(attempts[n]) + 1,
                                    elapsed |-> 0, reply |-> "NONE"]]
    /\ UNCHANGED <<alert, cancelled, accepted, crashes>>

Prepare(w) ==
    \E n \in queue[w] :
        \/ PrepareInvalidated(w, n) \/ PrepareSettled(w, n)
        \/ PrepareBusy(w, n) \/ PrepareExhausted(w, n) \/ PrepareAttempt(w, n)

\* What the adapter can report about a message that reached the chat, and
\* about one that did not. A transport error, a 5xx or an exception leaves
\* the fate of the message open; 200 with an unconfirmed body is permanent.
RepliesIfAccepted == {"DELIVERED", "RETRYABLE", "PERMANENT"}
UnconfirmedAsDelivered == {"DELIVERED", "RETRYABLE", "PERMANENT"}
RepliesIfRefused  == {"RETRYABLE", "PERMANENT"}

\* The call of the Telegram adapter, from the request to its answer.
Post(w) ==
    /\ pc[w] = "posting"
    /\ pc' = [pc EXCEPT ![w] = "answered"]
    /\ \/ \E r \in RepliesIfAccepted :
            /\ call' = [call EXCEPT ![w].reply = r]
            /\ accepted' = [accepted EXCEPT ![call[w].n] = @ \cup {call[w].k}]
       \/ \E r \in RepliesIfRefused :
            /\ call' = [call EXCEPT ![w].reply = r]
            /\ UNCHANGED accepted
    /\ UNCHANGED <<database, queue, crashes>>

\* complete() ignores a result whose attempt was taken over meanwhile.
ResultWanted(w) == attempts[call[w].n][call[w].k].status = "IN_PROGRESS"

AttemptResult(r) == [status |-> IF r = "DELIVERED" THEN "DELIVERED" ELSE "FAILED",
                     retryable |-> r = "RETRYABLE", age |-> 0]

NotificationResult(r, k) ==
    IF r = "DELIVERED" THEN "DELIVERED"
    ELSE IF r = "PERMANENT" \/ k >= MaxAttempts THEN "FAILED" ELSE "PENDING"

Return(w) ==
    /\ pc' = [pc EXCEPT ![w] = Rest(queue[w])]
    /\ call' = [call EXCEPT ![w] = NoCall]
    /\ UNCHANGED <<alert, cancelled, queue, accepted, crashes>>

CompleteRecorded(w) ==
    /\ pc[w] = "answered"
    /\ ResultWanted(w)
    /\ attempts' = [attempts EXCEPT ![call[w].n][call[w].k] = AttemptResult(call[w].reply)]
    /\ notification' = [notification EXCEPT
                          ![call[w].n] = NotificationResult(call[w].reply, call[w].k)]
    /\ Return(w)

CompleteDropped(w) ==
    /\ pc[w] = "answered"
    /\ ~ResultWanted(w)
    /\ UNCHANGED <<attempts, notification>>
    /\ Return(w)

Complete(w) == CompleteRecorded(w) \/ CompleteDropped(w)

\* The process dies, or a database error ends the pass: the transaction at
\* hand is rolled back and the rest of the list is given up. complete() locks
\* attempt before notification and prepare() the other way round, so a
\* deadlock victim is one way to get here.
Abort(w) ==
    /\ pc[w] # "idle"
    /\ crashes < MaxCrashes
    /\ crashes' = crashes + 1
    /\ pc' = [pc EXCEPT ![w] = "idle"]
    /\ queue' = [queue EXCEPT ![w] = {}]
    /\ call' = [call EXCEPT ![w] = NoCall]
    /\ UNCHANGED <<database, accepted>>

----------------------------------------------------------------------------
(* Time passes for attempts in progress and for calls under way, up to the *)
(* point where recovery tells nothing more apart. MaxStall is an           *)
(* assumption on live processes, not something the code enforces.          *)

Older(a) == IF a.status = "IN_PROGRESS" /\ a.age < RecoveryTimeout
              THEN [a EXCEPT !.age = @ + 1] ELSE a

\* Processes are known to be prompt; otherwise elapsed is not kept.
Timely == MaxStall < RecoveryTimeout

Elapsed(w) == IF Timely /\ Busy(w) THEN [call[w] EXCEPT !.elapsed = @ + 1] ELSE call[w]

Tick ==
    /\ Timely => \A w \in Workers : Busy(w) => call[w].elapsed < MaxStall
    /\ attempts' = [n \in Notifications |->
                      [k \in DOMAIN attempts[n] |-> Older(attempts[n][k])]]
    /\ call' = [w \in Workers |-> Elapsed(w)]
    /\ <<attempts, call>>' # <<attempts, call>>
    /\ UNCHANGED <<alert, notification, cancelled, pc, queue, accepted, crashes>>

----------------------------------------------------------------------------

Next ==
    \/ \E n \in Notifications : CreateNotification(n) \/ ResolveAlert(n)
    \/ \E S \in SUBSET Notifications : InvalidateAlerts(S)
    \/ \E t \in Trades : CancelTrade(t)
    \/ \E w \in Workers : \/ ListPending(w) \/ Prepare(w) \/ Post(w)
                          \/ Complete(w) \/ Abort(w)
    \/ Tick

\* A runner starts the next pass sooner or later, a process that was not
\* aborted goes on with its own, and time does not stop.
Fairness ==
    /\ \A w \in Runners : WF_vars(ListPending(w))
    /\ \A w \in Workers : WF_vars(Prepare(w)) /\ WF_vars(Post(w)) /\ WF_vars(Complete(w))
    /\ WF_vars(Tick)

Spec     == Init /\ [][Next]_vars
FairSpec == Spec /\ Fairness

----------------------------------------------------------------------------
(* Safety.                                                                 *)

\* At any time at most one attempt of a notification is in progress, and it
\* is the one with the highest number (prepare's active_attempt check).
SingleOpenAttempt ==
    \A n \in Notifications : \A k \in DOMAIN attempts[n] :
        attempts[n][k].status = "IN_PROGRESS" => k = Len(attempts[n])

\* Every attempt is decided once: neither the late answer of an interrupted
\* process nor a second recovery rewrites a closed attempt (complete's check
\* that the attempt is still in progress).
ClosedAttemptsAreFinal ==
    [][\A n \in Notifications : \A k \in DOMAIN attempts[n] :
         attempts[n][k].status # "IN_PROGRESS" => attempts'[n][k] = attempts[n][k]]_vars

\* A notification is shown as delivered only when Telegram has the message of
\* one of its attempts, and that attempt is recorded as the delivered one.
DeliveredMeansAccepted ==
    \A n \in Notifications :
        /\ \A k \in DOMAIN attempts[n] :
             attempts[n][k].status = "DELIVERED" => k \in accepted[n]
        /\ notification[n] = "DELIVERED" =>
             \E k \in DOMAIN attempts[n] : attempts[n][k].status = "DELIVERED"

\* Nothing is tried again once an attempt is recorded as delivered, whatever
\* the listing that the next process works from says.
NothingAfterDelivered ==
    \A n \in Notifications : \A k \in DOMAIN attempts[n] :
        attempts[n][k].status = "DELIVERED" => k = Len(attempts[n])

\* Once a trade is cancelled, none of its notifications is waiting or being
\* delivered (cancel's blocker, its update of PENDING rows, prepare's and the
\* insert trigger's checks).
CancelledTradeIsSilent ==
    \A n \in Notifications : OfCancelled(n) =>
        notification[n] # "PENDING" /\ ~InProgress(n)

\* A delivered notification keeps that status, unless its alert is invalid:
\* then a process that listed it earlier marks it as failed.
DeliveredLostOnlyToInvalidation ==
    [][\A n \in Notifications :
         notification[n] = "DELIVERED" /\ notification'[n] # "DELIVERED" => Invalidated(n)]_vars

(***************************************************************************)
(* The attempts implement the abstract ledger.                             *)
(***************************************************************************)
StatusLedger == [n \in Notifications |-> [k \in DOMAIN attempts[n] |-> attempts[n][k].status]]

Ledger == INSTANCE AttemptLedger WITH ledger <- StatusLedger

\* Attempts are opened one at a time, closed once, bounded in number and end
\* with a delivery, in every interleaving of deliverers, crashes and late
\* answers.
ImplementsLedger == Ledger!LedgerSpec

----------------------------------------------------------------------------
(* Safety that rests on MaxStall < RecoveryTimeout: a live process is done *)
(* with a call before another one may take the attempt over.               *)

\* Two live processes never deliver the same notification at the same time.
ExclusiveDelivery ==
    \A v, w \in Workers :
        v # w /\ Busy(v) /\ Busy(w) => call[v].n # call[w].n

\* No message about a cancelled trade reaches the chat.
NoPostAfterCancellation ==
    [][\A n \in Notifications : accepted'[n] # accepted[n] => ~OfCancelled(n)]_vars

----------------------------------------------------------------------------
(* Liveness.                                                               *)

Waiting(n) == notification[n] = "PENDING"
Settled(n) == notification[n] \in {"DELIVERED", "FAILED"} \/ Invalidated(n)

\* A waiting notification does not wait for ever, whatever crashed while it
\* was delivered: it is delivered, it fails, or its alert becomes invalid
\* (then it is no longer listed).
PendingSettles == \A n \in Notifications : Waiting(n) ~> Settled(n)

----------------------------------------------------------------------------
(* What the documentation says and the code does not do.                   *)

\* "permanente Konfigurations-/4xx-Fehler sind non-retryable": an attempt that
\* failed for good is the last one.
PermanentFailureIsFinal ==
    \A n \in Notifications : \A k \in DOMAIN attempts[n] :
        attempts[n][k].status = "FAILED" /\ ~attempts[n][k].retryable
          => k = Len(attempts[n])

\* "Stale IN_PROGRESS Attempts nach Restart als retryable failure
\* uebernehmen": an interrupted attempt does not stay in progress for ever.
InterruptedAttemptIsRecovered ==
    \A n \in Notifications : InProgress(n) ~> ~InProgress(n)
=============================================================================
