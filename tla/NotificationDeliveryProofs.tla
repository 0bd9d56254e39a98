--------------------- MODULE NotificationDeliveryProofs ---------------------
(***************************************************************************)
(* Theorems about NotificationDelivery, for every number of notifications, *)
(* trades and deliverers, every limit and every timeout.                   *)
(*                                                                         *)
(* The argument: TypeInv is inductive and says that a busy process holds   *)
(* the number of an existing attempt. Safe adds to the properties the runs *)
(* check what makes them inductive: an answer "delivered" is backed by the *)
(* chat, and a recorded delivery shows in the notification unless its      *)
(* alert became invalid. Owned holds for prompt processes only: the        *)
(* attempt of a busy process is still in progress and no older than the    *)
(* call, so that nobody takes it over.                                     *)
(***************************************************************************)
EXTENDS NotificationDelivery, SequenceTheorems, TLAPS

----------------------------------------------------------------------------
(* Sequences of attempts.                                                  *)

\* Rewriting the entries of a sequence one by one keeps it a sequence of the
\* same length.
LEMMA PointwiseSeq ==
    ASSUME NEW S, NEW s \in Seq(S), NEW f,
           f = [k \in DOMAIN s |-> f[k]], \A k \in DOMAIN s : f[k] \in S
    PROVE  f \in Seq(S) /\ Len(f) = Len(s) /\ DOMAIN f = DOMAIN s
<1>1. Len(s) \in Nat /\ DOMAIN s = 1..Len(s)
  OBVIOUS
<1>2. f \in [1..Len(s) -> S]
  BY <1>1
<1>3. QED
  BY <1>1, <1>2

\* An attempt of the table has the shape of an attempt.
LEMMA AttemptFacts ==
    ASSUME TypeOK, NEW n \in Notifications, NEW k \in DOMAIN attempts[n]
    PROVE  attempts[n][k] \in Attempt /\ attempts[n][k].status \in AttemptStatus
<1>1. attempts[n] \in Seq(Attempt)
  BY DEF TypeOK
<1>2. attempts[n][k] \in Attempt
  BY <1>1
<1>3. QED
  BY <1>2 DEF Attempt

\* Stale attempts are closed by recovery, the others are left alone.
LEMMA RecoveredFacts ==
    ASSUME DeliveryAssumption, TypeOK, NEW n \in Notifications
    PROVE  /\ Recovered(n) \in Seq(Attempt)
           /\ Len(Recovered(n)) = Len(attempts[n])
           /\ DOMAIN Recovered(n) = DOMAIN attempts[n]
           /\ \A k \in DOMAIN attempts[n] : Recovered(n)[k] =
                IF Stale(attempts[n][k]) THEN Interrupted ELSE attempts[n][k]
<1> DEFINE s == attempts[n]
           f == Recovered(n)
<1>1. s \in Seq(Attempt)
  BY DEF TypeOK
<1>2. Interrupted \in Attempt
  BY DEF Interrupted, Attempt, AttemptStatus, DeliveryAssumption
<1>3. \A k \in DOMAIN s : f[k] = IF Stale(s[k]) THEN Interrupted ELSE s[k]
  BY DEF Recovered
<1>4. \A k \in DOMAIN s : s[k] \in Attempt
  BY <1>1
<1>5. \A k \in DOMAIN s : f[k] \in Attempt
  BY <1>2, <1>3, <1>4
<1>6. f = [k \in DOMAIN s |-> f[k]]
  BY DEF Recovered
<1> HIDE DEF s, f
<1>7. f \in Seq(Attempt) /\ Len(f) = Len(s) /\ DOMAIN f = DOMAIN s
  BY <1>1, <1>5, <1>6, PointwiseSeq
<1>8. QED
  BY <1>3, <1>7 DEF s, f

\* A new attempt goes to the end of the sequence.
LEMMA AppendFacts ==
    ASSUME NEW S, NEW s \in Seq(S), NEW e \in S
    PROVE  /\ Append(s, e) \in Seq(S)
           /\ Len(Append(s, e)) = Len(s) + 1
           /\ DOMAIN Append(s, e) = 1..(Len(s) + 1)
           /\ \A k \in DOMAIN s : Append(s, e)[k] = s[k]
           /\ Append(s, e)[Len(s) + 1] = e
  OBVIOUS

\* An attempt grows older, up to the age recovery looks for.
LEMMA OlderFacts ==
    ASSUME DeliveryAssumption, NEW a \in Attempt
    PROVE  /\ Older(a) \in Attempt
           /\ Older(a).status = a.status
           /\ Older(a).retryable = a.retryable
           /\ a.status # "IN_PROGRESS" => Older(a) = a
           /\ Older(a).age <= a.age + 1
  BY DEF DeliveryAssumption, Attempt, AttemptStatus, Older

----------------------------------------------------------------------------
(* Type correctness.                                                       *)

\* A busy process holds the number of an existing attempt.
CallOK ==
    \A w \in Workers : Busy(w) =>
        /\ call[w].n \in Notifications
        /\ call[w].k \in DOMAIN attempts[call[w].n]

TypeInv == TypeOK /\ CallOK

\* The empty tables are well typed.
LEMMA InitTypeInv == ASSUME DeliveryAssumption, Init PROVE TypeInv
  BY DEF DeliveryAssumption, Init, TypeInv, TypeOK, CallOK, Busy, Call, NoCall, Reply,
         AlertStatus, NotificationStatus

\* An action that changes at most one notification's attempts, to a sequence
\* that is not shorter, keeps the attempts well formed, and the calls of the
\* processes that stay busy as well.
LEMMA OneSequence ==
    ASSUME TypeInv, NEW n \in Notifications, NEW s \in Seq(Attempt),
           Len(s) <= MaxAttempts, Len(attempts[n]) <= Len(s),
           attempts' = [attempts EXCEPT ![n] = s]
    PROVE  /\ attempts' \in [Notifications -> Seq(Attempt)]
           /\ \A m \in Notifications : /\ Len(attempts'[m]) <= MaxAttempts
                                       /\ DOMAIN attempts[m] \subseteq DOMAIN attempts'[m]
<1>1. attempts \in [Notifications -> Seq(Attempt)]
  BY DEF TypeInv, TypeOK
<1>2. attempts' \in [Notifications -> Seq(Attempt)]
  BY <1>1
<1>3. ASSUME NEW m \in Notifications
      PROVE  /\ Len(attempts'[m]) <= MaxAttempts
             /\ DOMAIN attempts[m] \subseteq DOMAIN attempts'[m]
  <2>1. CASE m = n
    <3>1. attempts'[m] = s
      BY <1>1, <2>1
    <3>2. attempts[m] \in Seq(Attempt)
      BY <1>1
    <3>3. QED
      BY <2>1, <3>1, <3>2
  <2>2. CASE m # n
    BY <1>1, <2>2 DEF TypeInv, TypeOK
  <2>3. QED
    BY <2>1, <2>2
<1>4. QED
  BY <1>2, <1>3

\* The writers outside delivery touch neither attempts nor sessions.
LEMMA OtherWritersTypeInv ==
    ASSUME DeliveryAssumption, TypeInv,
           \/ \E n \in Notifications : CreateNotification(n) \/ ResolveAlert(n)
           \/ \E S \in SUBSET Notifications : InvalidateAlerts(S)
           \/ \E t \in Trades : CancelTrade(t)
    PROVE  TypeInv'
<1>1. CASE \E n \in Notifications : CreateNotification(n)
  BY <1>1 DEF CreateNotification, TypeInv, TypeOK, CallOK, Busy, session, NotificationStatus
<1>2. CASE \E n \in Notifications : ResolveAlert(n)
  BY <1>2 DEF ResolveAlert, TypeInv, TypeOK, CallOK, Busy, session, AlertStatus
<1>3. CASE \E S \in SUBSET Notifications : InvalidateAlerts(S)
  BY <1>3 DEF InvalidateAlerts, TypeInv, TypeOK, CallOK, Busy, session, AlertStatus
<1>4. CASE \E t \in Trades : CancelTrade(t)
  BY <1>4 DEF CancelTrade, FailPending, TypeInv, TypeOK, CallOK, Busy, session,
              AlertStatus, NotificationStatus
<1>5. QED
  BY <1>1, <1>2, <1>3, <1>4

\* prepare(): recovery keeps the length, a new attempt stays within the limit.
LEMMA PrepareTypeInv ==
    ASSUME DeliveryAssumption, TypeInv, NEW w \in Workers, NEW n \in queue[w],
           \/ PrepareInvalidated(w, n) \/ PrepareSettled(w, n)
           \/ PrepareBusy(w, n) \/ PrepareExhausted(w, n) \/ PrepareAttempt(w, n)
    PROVE  TypeInv'
<1>1. /\ TypeOK
      /\ n \in Notifications
      /\ pc[w] = "pass"
  BY DEF TypeInv, TypeOK, PrepareInvalidated, PrepareSettled, PrepareBusy,
         PrepareExhausted, PrepareAttempt, Turn
<1>2. /\ Recovered(n) \in Seq(Attempt)
      /\ Len(Recovered(n)) = Len(attempts[n])
  BY <1>1, RecoveredFacts
<1>3. /\ Len(attempts[n]) <= MaxAttempts
      /\ Len(attempts[n]) \in Nat
      /\ attempts[n] \in Seq(Attempt)
  BY <1>1 DEF TypeOK
<1>4. ASSUME Skip(w, n)
      PROVE  /\ queue' \in [Workers -> SUBSET Notifications]
             /\ pc' \in [Workers -> {"idle", "pass", "posting", "answered"}]
             /\ \A v \in Workers : Busy(v)' => Busy(v)
             /\ UNCHANGED <<call, accepted, crashes>>
  BY <1>1, <1>4 DEF Skip, Rest, TypeOK, Busy
<1>5. CASE PrepareInvalidated(w, n) \/ PrepareSettled(w, n)
  <2>1. Skip(w, n) /\ UNCHANGED <<alert, attempts, cancelled>>
    BY <1>5 DEF PrepareInvalidated, PrepareSettled, database
  <2>2. notification' \in [Notifications -> NotificationStatus]
    BY <1>1, <1>5 DEF PrepareInvalidated, PrepareSettled, database, TypeOK, NotificationStatus
  <2>3. QED
    BY <1>1, <1>4, <2>1, <2>2 DEF TypeInv, TypeOK, CallOK
<1>6. CASE PrepareBusy(w, n) \/ PrepareExhausted(w, n)
  <2>1. /\ Skip(w, n)
        /\ UNCHANGED <<alert, cancelled>>
        /\ attempts' = [attempts EXCEPT ![n] = Recovered(n)]
    BY <1>6 DEF PrepareBusy, PrepareExhausted
  <2>2. notification' \in [Notifications -> NotificationStatus]
    BY <1>1, <1>6 DEF PrepareBusy, PrepareExhausted, TypeOK, NotificationStatus
  <2>3. /\ attempts' \in [Notifications -> Seq(Attempt)]
        /\ \A m \in Notifications : /\ Len(attempts'[m]) <= MaxAttempts
                                    /\ DOMAIN attempts[m] \subseteq DOMAIN attempts'[m]
    <3>1. Len(Recovered(n)) <= MaxAttempts /\ Len(attempts[n]) <= Len(Recovered(n))
      BY <1>2, <1>3
    <3>2. QED
      BY <1>1, <1>2, <2>1, <3>1, OneSequence, Zenon
  <2>4. TypeOK'
    BY <1>1, <1>4, <2>1, <2>2, <2>3 DEF TypeOK
  <2>5. CallOK'
    BY <1>4, <2>1, <2>3 DEF TypeInv, CallOK
  <2>6. QED
    BY <2>4, <2>5 DEF TypeInv
<1>7. CASE PrepareAttempt(w, n)
  <2>1. NewAttempt \in Attempt
    BY DEF NewAttempt, Attempt, AttemptStatus, DeliveryAssumption
  <2> DEFINE s == Append(Recovered(n), NewAttempt)
  <2>2. s \in Seq(Attempt) /\ Len(s) = Len(attempts[n]) + 1 /\ Len(s) \in DOMAIN s
    BY <1>2, <1>3, <2>1, AppendFacts
  <2>3. /\ attempts' = [attempts EXCEPT ![n] = s]
        /\ Len(attempts[n]) + 1 <= MaxAttempts
    BY <1>7 DEF PrepareAttempt, AttemptsLeft
  <2> HIDE DEF s
  <2>4. /\ attempts' \in [Notifications -> Seq(Attempt)]
        /\ \A m \in Notifications : /\ Len(attempts'[m]) <= MaxAttempts
                                    /\ DOMAIN attempts[m] \subseteq DOMAIN attempts'[m]
    <3>1. Len(s) <= MaxAttempts /\ Len(attempts[n]) <= Len(s)
      BY <1>3, <2>2, <2>3
    <3>2. QED
      BY <1>1, <2>2, <2>3, <3>1, OneSequence, Zenon
  <2>5. call' = [call EXCEPT ![w] = [n |-> n, k |-> Len(attempts[n]) + 1,
                                     elapsed |-> 0, reply |-> "NONE"]]
    BY <1>7 DEF PrepareAttempt
  <2>6. Len(attempts[n]) + 1 \in 1..MaxAttempts
    BY <1>3, <2>3 DEF DeliveryAssumption
  <2>7. call' \in [Workers -> Call]
    BY <1>1, <2>5, <2>6 DEF TypeOK, Call, Reply, DeliveryAssumption
  <2>8. TypeOK'
    BY <1>1, <1>7, <2>4, <2>7 DEF PrepareAttempt, TypeOK, NotificationStatus
  <2>9. CallOK'
    <3>1. attempts'[n] = s
      BY <1>1, <2>3 DEF TypeOK
    <3>2. ASSUME NEW v \in Workers, Busy(v)'
          PROVE  call'[v].n \in Notifications /\ call'[v].k \in DOMAIN attempts'[call'[v].n]
      <4>1. CASE v = w
        BY <1>1, <2>2, <2>5, <3>1, <4>1 DEF TypeOK
      <4>2. CASE v # w
        <5>1. Busy(v) /\ call'[v] = call[v]
          BY <1>1, <1>7, <2>5, <3>2, <4>2 DEF PrepareAttempt, Busy, TypeOK
        <5>2. QED
          BY <2>4, <5>1 DEF TypeInv, CallOK
      <4>3. QED
        BY <4>1, <4>2
    <3>3. QED
      BY <3>2 DEF CallOK
  <2>10. QED
    BY <2>8, <2>9 DEF TypeInv
<1>8. QED
  BY <1>5, <1>6, <1>7

\* The answer of the adapter is filed under the number of the call.
LEMMA PostTypeInv ==
    ASSUME DeliveryAssumption, TypeInv, NEW w \in Workers, Post(w)
    PROVE  TypeInv'
<1>1. TypeOK /\ CallOK /\ Busy(w) /\ pc[w] = "posting"
  BY DEF TypeInv, Post, Busy
<1>2. /\ call[w].n \in Notifications
      /\ call[w].k \in 1..MaxAttempts
      /\ call[w] \in Call
  <2>1. call[w].n \in Notifications /\ call[w].k \in DOMAIN attempts[call[w].n]
    BY <1>1 DEF CallOK
  <2>2. attempts[call[w].n] \in Seq(Attempt) /\ Len(attempts[call[w].n]) <= MaxAttempts
    BY <1>1, <2>1 DEF TypeOK
  <2>3. QED
    BY <1>1, <2>1, <2>2 DEF TypeOK, DeliveryAssumption
<1>3. PICK r \in Reply : call' = [call EXCEPT ![w].reply = r]
  BY DEF Post, RepliesIfAccepted, RepliesIfRefused, Reply
<1>4. call' \in [Workers -> Call]
  BY <1>1, <1>2, <1>3 DEF TypeOK, Call
<1>5. \/ accepted' = [accepted EXCEPT ![call[w].n] = @ \cup {call[w].k}]
      \/ accepted' = accepted
  BY DEF Post
<1>6. accepted' \in [Notifications -> SUBSET (1..MaxAttempts)]
  BY <1>1, <1>2, <1>5 DEF TypeOK
<1>7. TypeOK'
  BY <1>1, <1>4, <1>6 DEF Post, TypeOK, database
<1>8. \A v \in Workers : /\ Busy(v)' => Busy(v)
                         /\ call'[v].n = call[v].n
                         /\ call'[v].k = call[v].k
  BY <1>1, <1>2, <1>3 DEF Post, TypeOK, Busy, Call
<1>9. CallOK'
  BY <1>1, <1>8 DEF CallOK, Post, database
<1>10. QED
  BY <1>7, <1>9 DEF TypeInv

\* complete(): the sequence keeps its length, the process is free again.
LEMMA CompleteTypeInv ==
    ASSUME DeliveryAssumption, TypeInv, NEW w \in Workers, Complete(w)
    PROVE  TypeInv'
<1>1. TypeOK /\ CallOK /\ Busy(w) /\ Return(w)
  BY DEF TypeInv, Complete, CompleteRecorded, CompleteDropped, Busy
<1>2. /\ pc' \in [Workers -> {"idle", "pass", "posting", "answered"}]
      /\ call' \in [Workers -> Call]
      /\ \A v \in Workers : Busy(v)' => Busy(v) /\ call'[v] = call[v]
  BY <1>1 DEF Return, Rest, TypeOK, Busy, Call, NoCall, Reply, DeliveryAssumption
<1>3. CASE CompleteRecorded(w)
  <2> DEFINE n == call[w].n
             k == call[w].k
             a == AttemptResult(call[w].reply)
             s == [attempts[n] EXCEPT ![k] = a]
  <2>1. /\ n \in Notifications
        /\ attempts[n] \in Seq(Attempt)
        /\ Len(attempts[n]) <= MaxAttempts
        /\ k \in DOMAIN attempts[n]
    BY <1>1 DEF CallOK, TypeOK
  <2>2. a \in Attempt
    BY DEF AttemptResult, Attempt, AttemptStatus, DeliveryAssumption
  <2>3. /\ attempts' = [attempts EXCEPT ![n] = s]
        /\ notification' = [notification EXCEPT
                              ![n] = NotificationResult(call[w].reply, k)]
    BY <1>1, <1>3, <2>1 DEF CompleteRecorded, TypeOK
  <2> HIDE DEF n, k, a
  <2>4. s \in Seq(Attempt) /\ Len(s) <= MaxAttempts /\ Len(attempts[n]) <= Len(s)
    BY <2>1, <2>2
  <2> HIDE DEF s
  <2>5. /\ attempts' \in [Notifications -> Seq(Attempt)]
        /\ \A m \in Notifications : /\ Len(attempts'[m]) <= MaxAttempts
                                    /\ DOMAIN attempts[m] \subseteq DOMAIN attempts'[m]
    BY <2>1, <2>3, <2>4, OneSequence, Zenon
  <2>6. notification' \in [Notifications -> NotificationStatus]
    BY <1>1, <2>3 DEF TypeOK, NotificationResult, NotificationStatus
  <2>7. TypeOK'
    BY <1>1, <1>2, <2>5, <2>6 DEF Return, TypeOK
  <2>8. CallOK'
    BY <1>1, <1>2, <2>5 DEF CallOK
  <2>9. QED
    BY <2>7, <2>8 DEF TypeInv
<1>4. CASE CompleteDropped(w)
  BY <1>1, <1>2, <1>4 DEF CompleteDropped, Return, TypeInv, TypeOK, CallOK
<1>5. QED
  BY <1>3, <1>4 DEF Complete

\* Time passes: the guard keeps elapsed below the recovery timeout.
LEMMA TickTypeInv ==
    ASSUME DeliveryAssumption, TypeInv, Tick
    PROVE  TypeInv'
<1>1. TypeOK /\ CallOK
  BY DEF TypeInv
<1>2. ASSUME NEW n \in Notifications
      PROVE  /\ attempts'[n] \in Seq(Attempt)
             /\ Len(attempts'[n]) = Len(attempts[n])
             /\ DOMAIN attempts'[n] = DOMAIN attempts[n]
  <2> DEFINE s == attempts[n]
             f == attempts'[n]
  <2>1. s \in Seq(Attempt) /\ \A k \in DOMAIN s : s[k] \in Attempt
    BY <1>1 DEF TypeOK
  <2>2. f = [k \in DOMAIN s |-> Older(s[k])]
    BY DEF Tick
  <2> HIDE DEF s, f
  <2>3. \A k \in DOMAIN s : f[k] \in Attempt
    BY <2>1, <2>2, OlderFacts
  <2>4. f = [k \in DOMAIN s |-> f[k]]
    BY <2>2
  <2>5. f \in Seq(Attempt) /\ Len(f) = Len(s) /\ DOMAIN f = DOMAIN s
    BY <2>1, <2>3, <2>4, PointwiseSeq
  <2>6. QED
    BY <2>5 DEF s, f
<1>3. attempts' \in [Notifications -> Seq(Attempt)]
  BY <1>2 DEF Tick
<1>4. call' = [w \in Workers |-> Elapsed(w)]
  BY DEF Tick
<1>5. ASSUME NEW w \in Workers
      PROVE  call'[w] \in Call /\ call'[w].n = call[w].n /\ call'[w].k = call[w].k
  <2>1. call'[w] = Elapsed(w) /\ call[w] \in Call
    BY <1>1, <1>4 DEF TypeOK
  <2>2. CASE Timely /\ Busy(w)
    <3>1. call[w].elapsed < MaxStall /\ MaxStall < RecoveryTimeout
      BY <2>2 DEF Tick, Timely
    <3>2. call'[w] = [call[w] EXCEPT !.elapsed = call[w].elapsed + 1]
      BY <2>1, <2>2 DEF Elapsed
    <3>3. call[w].elapsed + 1 \in 0..RecoveryTimeout
      BY <2>1, <3>1 DEF Call, DeliveryAssumption
    <3>4. QED
      BY <2>1, <3>2, <3>3 DEF Call
  <2>3. CASE ~(Timely /\ Busy(w))
    BY <2>1, <2>3 DEF Elapsed
  <2>4. QED
    BY <2>2, <2>3
<1>6. TypeOK'
  BY <1>1, <1>2, <1>3, <1>4, <1>5 DEF Tick, TypeOK
<1>7. CallOK'
  BY <1>1, <1>2, <1>5 DEF Tick, CallOK, Busy
<1>8. QED
  BY <1>6, <1>7 DEF TypeInv

\* Every step keeps the tables and the calls well typed.
LEMMA StepTypeInv ==
    ASSUME DeliveryAssumption, TypeInv, [Next]_vars
    PROVE  TypeInv'
<1>1. ASSUME NEW w \in Workers, ListPending(w)
      PROVE  TypeInv'
  BY <1>1 DEF ListPending, Batch, Listable, database, TypeInv, TypeOK, CallOK, Busy
<1>2. ASSUME NEW w \in Workers, Prepare(w)
      PROVE  TypeInv'
  BY <1>2, PrepareTypeInv DEF Prepare
<1>3. ASSUME NEW w \in Workers, Abort(w)
      PROVE  TypeInv'
  <2>1. /\ \A v \in Workers : Busy(v)' => Busy(v) /\ call'[v] = call[v]
        /\ call' \in [Workers -> Call]
    BY <1>3 DEF Abort, TypeInv, TypeOK, Busy, Call, NoCall, Reply, DeliveryAssumption
  <2>2. QED
    BY <1>3, <2>1 DEF Abort, database, TypeInv, TypeOK, CallOK, DeliveryAssumption
<1>4. CASE UNCHANGED vars
  BY <1>4 DEF vars, database, session, TypeInv, TypeOK, CallOK, Busy
<1>5. QED
  BY <1>1, <1>2, <1>3, <1>4, OtherWritersTypeInv, PostTypeInv, CompleteTypeInv,
     TickTypeInv DEF Next

\* Every reachable state is well typed, and a busy process refers to an
\* attempt that exists.
THEOREM TypeInvariant == Spec => [](TypeOK /\ CallOK)
<1>1. Init => TypeInv
  BY DeliveryAssumption, InitTypeInv
<1>2. TypeInv /\ [Next]_vars => TypeInv'
  BY DeliveryAssumption, StepTypeInv
<1>3. QED
  BY <1>1, <1>2, PTL DEF Spec, TypeInv

----------------------------------------------------------------------------
(* Safety in every interleaving.                                           *)

\* An answer "delivered" is given only for a message that is in the chat.
AnswersBacked ==
    \A w \in Workers :
        pc[w] = "answered" /\ call[w].reply = "DELIVERED" => call[w].k \in accepted[call[w].n]

\* A recorded delivery shows in the notification, unless the alert is invalid.
DeliveryShows ==
    \A n \in Notifications : \A k \in DOMAIN attempts[n] :
        attempts[n][k].status = "DELIVERED" => notification[n] = "DELIVERED" \/ Invalidated(n)

Safe ==
    /\ SingleOpenAttempt
    /\ CancelledTradeIsSilent
    /\ AnswersBacked
    /\ DeliveredMeansAccepted
    /\ NothingAfterDelivered
    /\ DeliveryShows

\* Nothing has been tried yet.
LEMMA InitSafe == ASSUME Init PROVE Safe
  BY DEF Init, Safe, SingleOpenAttempt, CancelledTradeIsSilent, AnswersBacked,
         DeliveredMeansAccepted, NothingAfterDelivered, DeliveryShows, OfCancelled

\* Recovery changes nothing while it leaves an attempt in progress, because
\* only the last attempt can be in progress.
LEMMA BusyRecoversNothing ==
    ASSUME DeliveryAssumption, TypeInv, SingleOpenAttempt,
           NEW n \in Notifications, StillActive(n)
    PROVE  Recovered(n) = attempts[n]
<1> DEFINE s == attempts[n]
           f == Recovered(n)
<1>1. /\ s \in Seq(Attempt) /\ f \in Seq(Attempt) /\ Len(f) = Len(s)
      /\ DOMAIN f = DOMAIN s
      /\ \A k \in DOMAIN s : f[k] = IF Stale(s[k]) THEN Interrupted ELSE s[k]
  BY RecoveredFacts DEF TypeInv, TypeOK
<1>2. PICK j \in DOMAIN s : f[j].status = "IN_PROGRESS"
  BY DEF StillActive
<1>3. ~Stale(s[j]) /\ s[j].status = "IN_PROGRESS"
  BY <1>1, <1>2 DEF Interrupted
<1>4. \A k \in DOMAIN s : s[k].status = "IN_PROGRESS" => k = Len(s)
  BY DEF SingleOpenAttempt
<1>5. \A k \in DOMAIN s : f[k] = s[k]
  BY <1>1, <1>3, <1>4 DEF Stale
<1> HIDE DEF s, f
<1>6. f = s
  BY <1>1, <1>5
<1>7. QED
  BY <1>6 DEF s, f

\* Once recovery has run and found nothing in progress, the attempts are the
\* old ones, except that the last one may have been closed as interrupted.
LEMMA RecoveredIsClosed ==
    ASSUME DeliveryAssumption, TypeInv, SingleOpenAttempt,
           NEW n \in Notifications, ~StillActive(n)
    PROVE  \A k \in DOMAIN attempts[n] :
             /\ Recovered(n)[k].status # "IN_PROGRESS"
             /\ attempts[n][k].status # "IN_PROGRESS" => Recovered(n)[k] = attempts[n][k]
             /\ attempts[n][k].status = "IN_PROGRESS" =>
                  k = Len(attempts[n]) /\ Recovered(n)[k] = Interrupted
  BY RecoveredFacts DEF TypeInv, StillActive, SingleOpenAttempt, Stale, Interrupted

\* The writers outside delivery leave attempts alone, and a cancellation
\* finds none in progress and no notification that stays pending.
LEMMA OtherWritersSafe ==
    ASSUME DeliveryAssumption, TypeInv, Safe,
           \/ \E n \in Notifications : CreateNotification(n) \/ ResolveAlert(n)
           \/ \E S \in SUBSET Notifications : InvalidateAlerts(S)
           \/ \E t \in Trades : CancelTrade(t)
    PROVE  Safe'
<1>1. /\ UNCHANGED <<attempts, session, accepted>>
      /\ SingleOpenAttempt' /\ AnswersBacked' /\ NothingAfterDelivered'
  BY DEF CreateNotification, ResolveAlert, InvalidateAlerts, CancelTrade, session, Safe,
         SingleOpenAttempt, AnswersBacked, NothingAfterDelivered
<1>2. CASE \E n \in Notifications : CreateNotification(n)
  BY <1>1, <1>2 DEF CreateNotification, TypeInv, TypeOK, Safe, CancelledTradeIsSilent,
     DeliveredMeansAccepted, DeliveryShows, Invalidated, OfCancelled, InProgress
<1>3. CASE \E n \in Notifications : ResolveAlert(n)
  BY <1>1, <1>3 DEF ResolveAlert, TypeInv, TypeOK, Safe, CancelledTradeIsSilent,
     DeliveredMeansAccepted, DeliveryShows, Invalidated, OfCancelled, InProgress
<1>4. CASE \E S \in SUBSET Notifications : InvalidateAlerts(S)
  BY <1>1, <1>4 DEF InvalidateAlerts, TypeInv, TypeOK, Safe, CancelledTradeIsSilent,
     DeliveredMeansAccepted, DeliveryShows, Invalidated, OfCancelled, InProgress
<1>5. ASSUME NEW t \in Trades, CancelTrade(t)
      PROVE  Safe'
  <2>1. CancelledTradeIsSilent'
    BY <1>1, <1>5 DEF CancelTrade, SendingBlocks, FailPending, TypeInv, TypeOK, Safe,
       CancelledTradeIsSilent, OfCancelled, InProgress
  <2>2. DeliveredMeansAccepted' /\ DeliveryShows'
    BY <1>1, <1>5 DEF CancelTrade, FailPending, TypeInv, TypeOK, Safe,
       DeliveredMeansAccepted, DeliveryShows, Invalidated
  <2>3. QED
    BY <1>1, <2>1, <2>2 DEF Safe
<1>6. QED
  BY <1>2, <1>3, <1>4, <1>5

\* No attempt was delivered if the notification is deliverable.
LEMMA DeliverableNotDelivered ==
    ASSUME Safe, NEW n \in Notifications, Deliverable(n)
    PROVE  \A k \in DOMAIN attempts[n] : attempts[n][k].status # "DELIVERED"
  BY DEF Safe, Deliverable, AlreadyDelivered, DeliveryShows

\* An answer that a process holds after a step it did not take part in is
\* still backed.
LEMMA AnswersStayBacked ==
    ASSUME Safe, UNCHANGED accepted,
           \A v \in Workers : pc'[v] = "answered" => pc[v] = "answered" /\ call'[v] = call[v]
    PROVE  AnswersBacked'
  BY DEF Safe, AnswersBacked

\* prepare(): the attempt it opens is the last one, nothing was delivered
\* before, and the trade is not cancelled.
LEMMA PrepareSafe ==
    ASSUME DeliveryAssumption, TypeInv, Safe, NEW w \in Workers, NEW n \in queue[w],
           \/ PrepareInvalidated(w, n) \/ PrepareSettled(w, n)
           \/ PrepareBusy(w, n) \/ PrepareExhausted(w, n) \/ PrepareAttempt(w, n)
    PROVE  Safe'
<1>1. /\ TypeOK
      /\ n \in Notifications
      /\ UNCHANGED <<alert, cancelled, accepted>>
  BY DEF TypeInv, TypeOK, PrepareInvalidated, PrepareSettled, PrepareBusy,
         PrepareExhausted, PrepareAttempt, Turn, Skip, database
<1>2. \A v \in Workers : pc'[v] = "answered" => pc[v] = "answered" /\ call'[v] = call[v]
  BY <1>1 DEF TypeOK, PrepareInvalidated, PrepareSettled, PrepareBusy,
         PrepareExhausted, PrepareAttempt, Turn, Skip, Rest
<1>3. AnswersBacked'
  BY <1>1, <1>2, AnswersStayBacked
<1>4. SingleOpenAttempt
  BY DEF Safe
<1>5. CASE PrepareInvalidated(w, n) \/ PrepareSettled(w, n)
  <2>1. UNCHANGED attempts
    BY <1>5 DEF PrepareInvalidated, PrepareSettled, database
  <2>2. \/ notification' = [notification EXCEPT ![n] = "FAILED"] /\ Invalidated(n)
        \/ notification' = notification
    BY <1>5 DEF PrepareInvalidated, PrepareSettled, database
  <2>3. QED
    BY <1>1, <1>3, <2>1, <2>2 DEF TypeOK, Safe, SingleOpenAttempt, CancelledTradeIsSilent,
       DeliveredMeansAccepted, NothingAfterDelivered, DeliveryShows, Invalidated,
       OfCancelled, InProgress
<1>6. CASE PrepareBusy(w, n)
  <2>1. UNCHANGED <<attempts, notification>>
    BY <1>1, <1>4, <1>6, BusyRecoversNothing DEF PrepareBusy, TypeOK
  <2>2. QED
    BY <1>1, <1>3, <2>1 DEF Safe, SingleOpenAttempt, CancelledTradeIsSilent,
       DeliveredMeansAccepted, NothingAfterDelivered, DeliveryShows, Invalidated,
       OfCancelled, InProgress
<1>7. CASE PrepareExhausted(w, n)
  <2>1. Deliverable(n) /\ ~StillActive(n)
    BY <1>7 DEF PrepareExhausted
  <2>2. /\ attempts'[n] = Recovered(n)
        /\ \A m \in Notifications : m # n => attempts'[m] = attempts[m]
        /\ notification' = [notification EXCEPT ![n] = "FAILED"]
    BY <1>1, <1>7 DEF PrepareExhausted, TypeOK
  <2>3. Len(attempts'[n]) = Len(attempts[n]) /\ DOMAIN attempts'[n] = DOMAIN attempts[n]
    BY <1>1, <2>2, RecoveredFacts
  <2>4. \A k \in DOMAIN attempts[n] : attempts'[n][k].status = "FAILED"
    <3>1. \A k \in DOMAIN attempts[n] : attempts[n][k].status # "DELIVERED"
      BY <1>1, <2>1, DeliverableNotDelivered, Zenon
    <3>2. \A k \in DOMAIN attempts[n] :
            /\ Recovered(n)[k].status # "IN_PROGRESS"
            /\ attempts[n][k].status # "IN_PROGRESS" => Recovered(n)[k] = attempts[n][k]
            /\ attempts[n][k].status = "IN_PROGRESS" => Recovered(n)[k] = Interrupted
      BY <1>1, <1>4, <2>1, RecoveredIsClosed
    <3>3. QED
      <4>1. \A k \in DOMAIN attempts[n] : attempts[n][k].status \in AttemptStatus
        BY <1>1, AttemptFacts
      <4>2. \A k \in DOMAIN attempts[n] : Recovered(n)[k].status = "FAILED"
        BY <3>1, <3>2, <4>1 DEF AttemptStatus, Interrupted
      <4>3. QED
        BY <2>2, <4>2
  <2>5. QED
    <3>1. SingleOpenAttempt' /\ NothingAfterDelivered'
      BY <1>1, <2>2, <2>3, <2>4 DEF Safe, SingleOpenAttempt, NothingAfterDelivered
    <3>2. CancelledTradeIsSilent'
      BY <1>1, <2>2, <2>3, <2>4 DEF TypeOK, Safe, CancelledTradeIsSilent, OfCancelled, InProgress
    <3>3. DeliveredMeansAccepted'
      <4>1. notification'[n] # "DELIVERED"
              /\ \A m \in Notifications : m # n => notification'[m] = notification[m]
        BY <1>1, <2>2 DEF TypeOK
      <4>2. \A k \in DOMAIN attempts'[n] : attempts'[n][k].status # "DELIVERED"
        BY <2>2, <2>3, <2>4
      <4>3. \A m \in Notifications : m # n => attempts'[m] = attempts[m]
        BY <2>2
      <4>4. QED
        BY <1>1, <4>1, <4>2, <4>3 DEF Safe, DeliveredMeansAccepted
    <3>4. DeliveryShows'
      BY <1>1, <2>2, <2>3, <2>4 DEF TypeOK, Safe, DeliveryShows, Invalidated
    <3>5. QED
      BY <1>3, <3>1, <3>2, <3>3, <3>4 DEF Safe
<1>8. CASE PrepareAttempt(w, n)
  <2>1. Deliverable(n) /\ ~StillActive(n)
    BY <1>8 DEF PrepareAttempt
  <2>2. /\ attempts'[n] = Append(Recovered(n), NewAttempt)
        /\ \A m \in Notifications : m # n => attempts'[m] = attempts[m]
        /\ notification' = [notification EXCEPT ![n] = "PENDING"]
    BY <1>1, <1>8 DEF PrepareAttempt, TypeOK
  <2>3. /\ attempts[n] \in Seq(Attempt) /\ Len(attempts[n]) \in Nat
        /\ DOMAIN attempts[n] = 1..Len(attempts[n])
        /\ Recovered(n) \in Seq(Attempt)
        /\ Len(Recovered(n)) = Len(attempts[n])
        /\ DOMAIN Recovered(n) = DOMAIN attempts[n]
    <3>1. attempts[n] \in Seq(Attempt)
      BY <1>1 DEF TypeOK
    <3>2. QED
      BY <1>1, <3>1, RecoveredFacts
  <2>4. NewAttempt \in Attempt
    BY DEF NewAttempt, Attempt, AttemptStatus, DeliveryAssumption
  <2>5. /\ Len(attempts'[n]) = Len(attempts[n]) + 1
        /\ DOMAIN attempts'[n] = 1..(Len(attempts[n]) + 1)
        /\ \A k \in DOMAIN attempts[n] : attempts'[n][k] = Recovered(n)[k]
        /\ attempts'[n][Len(attempts[n]) + 1] = NewAttempt
    BY <2>2, <2>3, <2>4, AppendFacts
  <2>6. \A k \in DOMAIN attempts[n] : attempts'[n][k].status = "FAILED"
    <3>1. \A k \in DOMAIN attempts[n] : attempts[n][k].status # "DELIVERED"
      BY <1>1, <2>1, DeliverableNotDelivered, Zenon
    <3>2. \A k \in DOMAIN attempts[n] :
            /\ Recovered(n)[k].status # "IN_PROGRESS"
            /\ attempts[n][k].status # "IN_PROGRESS" => Recovered(n)[k] = attempts[n][k]
            /\ attempts[n][k].status = "IN_PROGRESS" => Recovered(n)[k] = Interrupted
      BY <1>1, <1>4, <2>1, RecoveredIsClosed
    <3>3. QED
      <4>1. \A k \in DOMAIN attempts[n] : attempts[n][k].status \in AttemptStatus
        BY <1>1, AttemptFacts
      <4>2. \A k \in DOMAIN attempts[n] : Recovered(n)[k].status = "FAILED"
        BY <3>1, <3>2, <4>1 DEF AttemptStatus, Interrupted
      <4>3. QED
        BY <2>5, <4>2
  <2>7. \A k \in DOMAIN attempts'[n] :
          attempts'[n][k].status = IF k = Len(attempts'[n]) THEN "IN_PROGRESS" ELSE "FAILED"
    BY <2>3, <2>5, <2>6 DEF NewAttempt
  <2>8. ~OfCancelled(n)
    BY <2>1 DEF Deliverable
  <2>9. QED
    <3>1. SingleOpenAttempt' /\ NothingAfterDelivered'
      BY <1>1, <2>2, <2>7, <2>8 DEF Safe, SingleOpenAttempt, NothingAfterDelivered
    <3>2. CancelledTradeIsSilent'
      BY <1>1, <2>2, <2>7, <2>8 DEF TypeOK, Safe, CancelledTradeIsSilent, OfCancelled, InProgress
    <3>3. DeliveredMeansAccepted'
      <4>1. notification'[n] # "DELIVERED"
              /\ \A m \in Notifications : m # n => notification'[m] = notification[m]
        BY <1>1, <2>2 DEF TypeOK
      <4>2. \A k \in DOMAIN attempts'[n] : attempts'[n][k].status # "DELIVERED"
        BY <2>2, <2>7
      <4>3. \A m \in Notifications : m # n => attempts'[m] = attempts[m]
        BY <2>2
      <4>4. QED
        BY <1>1, <4>1, <4>2, <4>3 DEF Safe, DeliveredMeansAccepted
    <3>4. DeliveryShows'
      BY <1>1, <2>2, <2>7, <2>8 DEF TypeOK, Safe, DeliveryShows, Invalidated
    <3>5. QED
      BY <1>3, <3>1, <3>2, <3>3, <3>4 DEF Safe
<1>9. QED
  BY <1>5, <1>6, <1>7, <1>8

\* The adapter reports "delivered" only with the message in the chat.
LEMMA PostSafe ==
    ASSUME DeliveryAssumption, TypeInv, Safe, NEW w \in Workers, Post(w)
    PROVE  Safe'
<1>1. /\ TypeOK
      /\ call[w] \in Call
      /\ call[w].n \in Notifications
      /\ UNCHANGED <<alert, notification, attempts, cancelled>>
  BY DEF TypeInv, TypeOK, CallOK, Post, Busy, database
<1>2. PICK r \in Reply :
        /\ call' = [call EXCEPT ![w].reply = r]
        /\ \/ accepted' = [accepted EXCEPT ![call[w].n] = @ \cup {call[w].k}]
           \/ accepted' = accepted /\ r # "DELIVERED"
  BY DEF Post, RepliesIfAccepted, RepliesIfRefused, Reply
<1>3. \A n \in Notifications : accepted[n] \subseteq accepted'[n]
  BY <1>1, <1>2 DEF TypeOK
<1>4. AnswersBacked'
  <2>1. ASSUME NEW v \in Workers, pc'[v] = "answered", call'[v].reply = "DELIVERED"
        PROVE  call'[v].k \in accepted'[call'[v].n]
    <3>1. CASE v = w
      <4>1. call'[w].n = call[w].n /\ call'[w].k = call[w].k /\ call'[w].reply = r
        BY <1>1, <1>2 DEF TypeOK, Call
      <4>2. accepted' = [accepted EXCEPT ![call[w].n] = @ \cup {call[w].k}]
        BY <1>2, <2>1, <3>1, <4>1
      <4>3. QED
        BY <1>1, <3>1, <4>1, <4>2 DEF TypeOK
    <3>2. CASE v # w
      <4>1. pc[v] = "answered" /\ call'[v] = call[v]
        BY <1>1, <1>2, <2>1, <3>2 DEF Post, TypeOK
      <4>2. call[v].n \in Notifications
        BY <4>1 DEF TypeInv, CallOK, Busy
      <4>3. call[v].k \in accepted[call[v].n]
        BY <2>1, <4>1 DEF Safe, AnswersBacked
      <4>4. QED
        BY <1>3, <4>1, <4>2, <4>3
    <3>3. QED
      BY <3>1, <3>2
  <2>2. QED
    BY <2>1 DEF AnswersBacked
<1>5. QED
  BY <1>1, <1>3, <1>4 DEF Safe, SingleOpenAttempt, CancelledTradeIsSilent,
     DeliveredMeansAccepted, NothingAfterDelivered, DeliveryShows, Invalidated,
     OfCancelled, InProgress

\* complete() records a result for the last attempt, which is in progress.
LEMMA RecordedIsLast ==
    ASSUME TypeInv, Safe, NEW w \in Workers, CompleteRecorded(w)
    PROVE  LET n == call[w].n
               k == call[w].k
           IN  /\ n \in Notifications
               /\ k \in DOMAIN attempts[n]
               /\ k = Len(attempts[n])
               /\ attempts[n][k].status = "IN_PROGRESS"
               /\ \A j \in DOMAIN attempts[n] : attempts[n][j].status # "DELIVERED"
               /\ ~OfCancelled(n)
               /\ attempts' = [attempts EXCEPT
                                 ![n] = [@ EXCEPT ![k] = AttemptResult(call[w].reply)]]
<1> DEFINE n == call[w].n
           k == call[w].k
<1>1. n \in Notifications /\ k \in DOMAIN attempts[n]
  BY DEF CompleteRecorded, TypeInv, CallOK, Busy
<1>2. attempts[n][k].status = "IN_PROGRESS"
  BY DEF CompleteRecorded, ResultWanted
<1>3. k = Len(attempts[n]) /\ ~OfCancelled(n)
  BY <1>1, <1>2 DEF Safe, SingleOpenAttempt, CancelledTradeIsSilent, InProgress
<1>4. \A j \in DOMAIN attempts[n] : attempts[n][j].status # "DELIVERED"
  BY <1>1, <1>2, <1>3 DEF Safe, NothingAfterDelivered
<1>5. attempts' = [attempts EXCEPT ![n] = [@ EXCEPT ![k] = AttemptResult(call[w].reply)]]
  BY DEF CompleteRecorded
<1>6. QED
  BY <1>1, <1>2, <1>3, <1>4, <1>5

\* complete(): the result of the last attempt, backed by the chat.
LEMMA CompleteSafe ==
    ASSUME DeliveryAssumption, TypeInv, Safe, NEW w \in Workers, Complete(w)
    PROVE  Safe'
<1>1. /\ TypeOK
      /\ Return(w)
      /\ UNCHANGED <<alert, cancelled, accepted>>
  BY DEF TypeInv, Complete, CompleteRecorded, CompleteDropped, Return
<1>2. AnswersBacked'
  <2>1. pc[w] = "answered"
    BY DEF Complete, CompleteRecorded, CompleteDropped
  <2>2. \A v \in Workers : pc'[v] = "answered" => pc[v] = "answered" /\ call'[v] = call[v]
    BY <1>1, <2>1 DEF Return, Rest, TypeOK
  <2>3. QED
    BY <1>1, <2>2, AnswersStayBacked
<1>3. CASE CompleteRecorded(w)
  <2> DEFINE n == call[w].n
             k == call[w].k
             r == call[w].reply
             a == AttemptResult(r)
  <2>1. /\ n \in Notifications
        /\ k \in DOMAIN attempts[n]
        /\ k = Len(attempts[n])
        /\ \A j \in DOMAIN attempts[n] : attempts[n][j].status # "DELIVERED"
        /\ ~OfCancelled(n)
        /\ attempts' = [attempts EXCEPT ![n] = [@ EXCEPT ![k] = a]]
    BY <1>3, RecordedIsLast
  <2>2. r = "DELIVERED" => k \in accepted[n]
    BY <1>3 DEF CompleteRecorded, Safe, AnswersBacked
  <2>3. notification' = [notification EXCEPT ![n] = NotificationResult(r, k)]
    BY <1>3 DEF CompleteRecorded
  <2>4. /\ a.status = (IF r = "DELIVERED" THEN "DELIVERED" ELSE "FAILED")
        /\ NotificationResult(r, k) = "DELIVERED" <=> r = "DELIVERED"
    BY DEF AttemptResult, NotificationResult
  <2>5. /\ attempts[n] \in Seq(Attempt)
        /\ a \in Attempt
    <3>1. attempts[n] \in Seq(Attempt)
      BY <1>1, <2>1 DEF TypeOK
    <3>2. a \in Attempt
      BY DEF AttemptResult, Attempt, AttemptStatus, DeliveryAssumption
    <3>3. QED
      BY <3>1, <3>2
  <2> HIDE DEF n, k, r, a
  <2>6. /\ attempts'[n] = [attempts[n] EXCEPT ![k] = a]
        /\ \A m \in Notifications : m # n => attempts'[m] = attempts[m]
    BY <1>1, <2>1 DEF TypeOK
  <2>7. /\ Len(attempts'[n]) = Len(attempts[n])
        /\ DOMAIN attempts'[n] = DOMAIN attempts[n]
        /\ \A j \in DOMAIN attempts[n] :
             attempts'[n][j] = IF j = k THEN a ELSE attempts[n][j]
    BY <2>1, <2>5, <2>6
  <2>8. /\ notification'[n] = NotificationResult(r, k)
        /\ \A m \in Notifications : m # n => notification'[m] = notification[m]
    BY <1>1, <2>1, <2>3 DEF TypeOK
  <2>9. \A j \in DOMAIN attempts'[n] :
          /\ attempts'[n][j].status = "DELIVERED" <=> j = k /\ r = "DELIVERED"
          /\ attempts'[n][j].status = "IN_PROGRESS" =>
               j # k /\ attempts[n][j].status = "IN_PROGRESS"
    BY <2>1, <2>4, <2>7
  <2>10. SingleOpenAttempt' /\ NothingAfterDelivered'
    BY <2>1, <2>6, <2>7, <2>9 DEF Safe, SingleOpenAttempt, NothingAfterDelivered
  <2>11. CancelledTradeIsSilent'
    BY <1>1, <2>1, <2>6, <2>8 DEF Safe, CancelledTradeIsSilent, OfCancelled, InProgress
  <2>12. DeliveredMeansAccepted'
    <3>1. ASSUME NEW m \in Notifications, m = n
          PROVE  /\ \A j \in DOMAIN attempts'[m] :
                      attempts'[m][j].status = "DELIVERED" => j \in accepted'[m]
                 /\ notification'[m] = "DELIVERED" =>
                      \E j \in DOMAIN attempts'[m] : attempts'[m][j].status = "DELIVERED"
      BY <1>1, <2>1, <2>2, <2>4, <2>7, <2>8, <2>9, <3>1
    <3>2. QED
      BY <1>1, <2>6, <2>8, <3>1 DEF Safe, DeliveredMeansAccepted
  <2>13. DeliveryShows'
    BY <1>1, <2>4, <2>6, <2>8, <2>9 DEF Safe, DeliveryShows, Invalidated
  <2>14. QED
    BY <1>2, <2>10, <2>11, <2>12, <2>13 DEF Safe
<1>4. CASE CompleteDropped(w)
  BY <1>1, <1>2, <1>4 DEF CompleteDropped, Safe, SingleOpenAttempt,
     CancelledTradeIsSilent, DeliveredMeansAccepted, NothingAfterDelivered,
     DeliveryShows, Invalidated, OfCancelled, InProgress
<1>5. QED
  BY <1>3, <1>4 DEF Complete

\* Time changes no status.
LEMMA TickKeepsStatus ==
    ASSUME DeliveryAssumption, TypeInv, Tick, NEW n \in Notifications
    PROVE  /\ DOMAIN attempts'[n] = DOMAIN attempts[n]
           /\ Len(attempts'[n]) = Len(attempts[n])
           /\ \A k \in DOMAIN attempts[n] :
                /\ attempts'[n][k].status = attempts[n][k].status
                /\ attempts[n][k].status # "IN_PROGRESS" => attempts'[n][k] = attempts[n][k]
                /\ attempts'[n][k].age <= attempts[n][k].age + 1
<1>1. attempts'[n] = [k \in DOMAIN attempts[n] |-> Older(attempts[n][k])]
  BY DEF Tick
<1>2. \A k \in DOMAIN attempts[n] : attempts[n][k] \in Attempt
  BY AttemptFacts DEF TypeInv
<1>3. attempts[n] \in Seq(Attempt)
  BY DEF TypeInv, TypeOK
<1>4. \A k \in DOMAIN attempts[n] :
        /\ attempts'[n][k] \in Attempt
        /\ attempts'[n][k].status = attempts[n][k].status
        /\ attempts[n][k].status # "IN_PROGRESS" => attempts'[n][k] = attempts[n][k]
        /\ attempts'[n][k].age <= attempts[n][k].age + 1
  BY <1>1, <1>2, OlderFacts
<1> DEFINE f == attempts'[n]
           s == attempts[n]
<1>5. f = [k \in DOMAIN s |-> f[k]] /\ \A k \in DOMAIN s : f[k] \in Attempt
  BY <1>1, <1>4
<1> HIDE DEF f, s
<1>6. s \in Seq(Attempt)
  BY <1>3 DEF s
<1>7. Len(f) = Len(s) /\ DOMAIN f = DOMAIN s
  BY <1>5, <1>6, PointwiseSeq
<1>8. QED
  BY <1>4, <1>7 DEF f, s

\* Time changes no status, and so breaks nothing.
LEMMA TickSafe ==
    ASSUME DeliveryAssumption, TypeInv, Safe, Tick
    PROVE  Safe'
<1>1. /\ UNCHANGED <<alert, notification, cancelled, pc, accepted>>
      /\ \A n \in Notifications :
           /\ DOMAIN attempts'[n] = DOMAIN attempts[n]
           /\ Len(attempts'[n]) = Len(attempts[n])
           /\ \A k \in DOMAIN attempts[n] : attempts'[n][k].status = attempts[n][k].status
  BY TickKeepsStatus DEF Tick
<1>2. \A w \in Workers : /\ call'[w].n = call[w].n
                         /\ call'[w].k = call[w].k
                         /\ call'[w].reply = call[w].reply
  BY DEF Tick, Elapsed, TypeInv, TypeOK, Call
<1>3. AnswersBacked'
  BY <1>1, <1>2 DEF Safe, AnswersBacked
<1>4. SingleOpenAttempt' /\ NothingAfterDelivered' /\ DeliveryShows'
  BY <1>1 DEF Safe, SingleOpenAttempt, NothingAfterDelivered, DeliveryShows, Invalidated
<1>5. CancelledTradeIsSilent' /\ DeliveredMeansAccepted'
  BY <1>1 DEF Safe, CancelledTradeIsSilent, DeliveredMeansAccepted, OfCancelled, InProgress
<1>6. QED
  BY <1>3, <1>4, <1>5 DEF Safe

\* Every step keeps what Safe says.
LEMMA StepSafe ==
    ASSUME DeliveryAssumption, TypeInv, Safe, [Next]_vars
    PROVE  Safe'
<1>1. ASSUME NEW w \in Workers, Prepare(w)
      PROVE  Safe'
  BY <1>1, PrepareSafe DEF Prepare
<1>2. ASSUME \/ UNCHANGED vars
             \/ \E w \in Workers : ListPending(w) \/ Abort(w)
      PROVE  Safe'
  <2>1. UNCHANGED <<alert, notification, attempts, cancelled, accepted>>
    BY <1>2 DEF vars, database, ListPending, Abort
  <2>2. \A v \in Workers : pc'[v] = "answered" => pc[v] = "answered" /\ call'[v] = call[v]
    BY <1>2 DEF vars, session, ListPending, Abort, TypeInv, TypeOK
  <2>3. AnswersBacked'
    BY <2>1, <2>2, AnswersStayBacked
  <2>4. QED
    BY <2>1, <2>3 DEF Safe, SingleOpenAttempt, CancelledTradeIsSilent,
       DeliveredMeansAccepted, NothingAfterDelivered, DeliveryShows, Invalidated,
       OfCancelled, InProgress
<1>3. QED
  BY <1>1, <1>2, OtherWritersSafe, PostSafe, CompleteSafe, TickSafe DEF Next

\* TypeInv and Safe together are inductive.
LEMMA SafetyInvariant == Spec => [](TypeInv /\ Safe)
<1>1. Init => TypeInv /\ Safe
  BY DeliveryAssumption, InitTypeInv, InitSafe
<1>2. TypeInv /\ Safe /\ [Next]_vars => TypeInv' /\ Safe'
  BY DeliveryAssumption, StepTypeInv, StepSafe
<1>3. QED
  BY <1>1, <1>2, PTL DEF Spec

\* prepare() never opens an attempt beside or before one in progress.
THEOREM OneOpenAttempt == Spec => []SingleOpenAttempt
  BY SafetyInvariant, PTL DEF Safe

\* A notification and an attempt are shown as delivered only for a message
\* that is in the chat.
THEOREM DeliveredIsTrue == Spec => []DeliveredMeansAccepted
  BY SafetyInvariant, PTL DEF Safe

\* Nothing is tried again after a recorded delivery.
THEOREM DeliveredIsLast == Spec => []NothingAfterDelivered
  BY SafetyInvariant, PTL DEF Safe

\* A cancelled trade has no waiting and no running notification.
THEOREM CancelledIsSilent == Spec => []CancelledTradeIsSilent
  BY SafetyInvariant, PTL DEF Safe

----------------------------------------------------------------------------
(* Action properties and the refinement of the attempt ledger.             *)

\* Attempts change only in these ways.
LEMMA WhoChangesAttempts ==
    ASSUME TypeInv, [Next]_vars
    PROVE  \/ UNCHANGED attempts
           \/ \E w \in Workers : \E n \in Notifications :
                PrepareBusy(w, n) \/ PrepareExhausted(w, n) \/ PrepareAttempt(w, n)
           \/ \E w \in Workers : CompleteRecorded(w)
           \/ Tick
<1>1. ASSUME NEW w \in Workers, Prepare(w)
      PROVE  \/ UNCHANGED attempts
             \/ \E n \in Notifications :
                  PrepareBusy(w, n) \/ PrepareExhausted(w, n) \/ PrepareAttempt(w, n)
  <2>1. queue[w] \subseteq Notifications
    BY DEF TypeInv, TypeOK
  <2>2. QED
    BY <1>1, <2>1 DEF Prepare, PrepareInvalidated, PrepareSettled, database
<1>2. ASSUME NEW w \in Workers, ListPending(w) \/ Post(w) \/ CompleteDropped(w) \/ Abort(w)
      PROVE  UNCHANGED attempts
  BY <1>2 DEF ListPending, Post, CompleteDropped, Abort, database
<1>3. ASSUME \/ UNCHANGED vars
             \/ \E n \in Notifications : CreateNotification(n) \/ ResolveAlert(n)
             \/ \E S \in SUBSET Notifications : InvalidateAlerts(S)
             \/ \E t \in Trades : CancelTrade(t)
      PROVE  UNCHANGED attempts
  BY <1>3 DEF vars, database, CreateNotification, ResolveAlert, InvalidateAlerts, CancelTrade
<1>4. QED
  BY <1>1, <1>2, <1>3 DEF Next, Complete

\* What the change of one attempt sequence amounts to: nothing but ages, a
\* result for the open attempt, or a new attempt after closed ones.
LEMMA PrepareChange ==
    ASSUME DeliveryAssumption, TypeInv, Safe, NEW w \in Workers, NEW n \in Notifications,
           PrepareBusy(w, n) \/ PrepareExhausted(w, n) \/ PrepareAttempt(w, n)
    PROVE  /\ \A m \in Notifications : m # n => attempts'[m] = attempts[m]
           /\ DOMAIN attempts[n] \subseteq DOMAIN attempts'[n]
           /\ \A k \in DOMAIN attempts[n] : attempts'[n][k] = Recovered(n)[k]
<1>1. TypeOK
  BY DEF TypeInv
<1>2. /\ attempts[n] \in Seq(Attempt)
      /\ Recovered(n) \in Seq(Attempt)
      /\ Len(Recovered(n)) = Len(attempts[n])
      /\ DOMAIN Recovered(n) = DOMAIN attempts[n]
  <2>1. attempts[n] \in Seq(Attempt)
    BY <1>1 DEF TypeOK
  <2>2. QED
    BY <1>1, <2>1, RecoveredFacts
<1>3. CASE PrepareBusy(w, n) \/ PrepareExhausted(w, n)
  <2>1. attempts' = [attempts EXCEPT ![n] = Recovered(n)]
    BY <1>3 DEF PrepareBusy, PrepareExhausted
  <2>2. QED
    BY <1>1, <1>2, <2>1 DEF TypeOK
<1>4. CASE PrepareAttempt(w, n)
  <2>1. attempts' = [attempts EXCEPT ![n] = Append(Recovered(n), NewAttempt)]
    BY <1>4 DEF PrepareAttempt
  <2>2. NewAttempt \in Attempt
    BY DEF NewAttempt, Attempt, AttemptStatus, DeliveryAssumption
  <2> DEFINE s == Append(Recovered(n), NewAttempt)
  <2>3. /\ DOMAIN s = 1..(Len(attempts[n]) + 1)
        /\ \A k \in DOMAIN attempts[n] : s[k] = Recovered(n)[k]
    BY <1>2, <2>2, AppendFacts
  <2>4. DOMAIN attempts[n] \subseteq DOMAIN s
    BY <1>2, <2>3
  <2> HIDE DEF s
  <2>5. attempts'[n] = s /\ \A m \in Notifications : m # n => attempts'[m] = attempts[m]
    BY <1>1, <2>1 DEF TypeOK, s
  <2>6. QED
    BY <2>3, <2>4, <2>5
<1>5. QED
  BY <1>3, <1>4

\* Neither recovery nor a late answer rewrites a closed attempt.
THEOREM AttemptsAreDecidedOnce == Spec => ClosedAttemptsAreFinal
<1> DEFINE Final == \A n \in Notifications : \A k \in DOMAIN attempts[n] :
                      attempts[n][k].status # "IN_PROGRESS" => attempts'[n][k] = attempts[n][k]
<1>1. ASSUME TypeInv, Safe, [Next]_vars
      PROVE  Final
  <2>1. DeliveryAssumption
    BY DeliveryAssumption
  <2>2. ASSUME NEW w \in Workers, NEW n \in Notifications,
               PrepareBusy(w, n) \/ PrepareExhausted(w, n) \/ PrepareAttempt(w, n)
        PROVE  Final
    <3>1. /\ \A m \in Notifications : m # n => attempts'[m] = attempts[m]
          /\ \A k \in DOMAIN attempts[n] : attempts'[n][k] = Recovered(n)[k]
      BY <1>1, <2>1, <2>2, PrepareChange
    <3>2. \A k \in DOMAIN attempts[n] : attempts[n][k].status # "IN_PROGRESS" =>
            Recovered(n)[k] = attempts[n][k]
      BY <1>1, <2>1, RecoveredFacts DEF TypeInv, Stale
    <3>3. QED
      BY <3>1, <3>2
  <2>3. ASSUME NEW w \in Workers, CompleteRecorded(w)
        PROVE  Final
    <3>1. /\ call[w].n \in Notifications
          /\ call[w].k \in DOMAIN attempts[call[w].n]
          /\ attempts[call[w].n][call[w].k].status = "IN_PROGRESS"
          /\ attempts' = [attempts EXCEPT ![call[w].n] =
                            [@ EXCEPT ![call[w].k] = AttemptResult(call[w].reply)]]
      BY <1>1, <2>3, RecordedIsLast
    <3>2. attempts \in [Notifications -> Seq(Attempt)]
      BY <1>1 DEF TypeInv, TypeOK
    <3>3. QED
      BY <3>1, <3>2
  <2>4. CASE Tick
    BY <1>1, <2>1, <2>4, TickKeepsStatus
  <2>5. QED
    BY <1>1, <2>2, <2>3, <2>4, WhoChangesAttempts
<1>2. QED
  BY <1>1, SafetyInvariant, PTL DEF Spec, ClosedAttemptsAreFinal

\* Only the invalidation of its alert takes a delivered notification back.
THEOREM DeliveredIsKept == Spec => DeliveredLostOnlyToInvalidation
<1> DEFINE Kept == \A n \in Notifications :
                     notification[n] = "DELIVERED" /\ notification'[n] # "DELIVERED"
                       => Invalidated(n)
<1>1. ASSUME TypeInv, Safe, [Next]_vars
      PROVE  Kept
  <2>1. TypeOK
    BY <1>1 DEF TypeInv
  <2>2. ASSUME \/ UNCHANGED vars
               \/ \E n \in Notifications : CreateNotification(n) \/ ResolveAlert(n)
               \/ \E S \in SUBSET Notifications : InvalidateAlerts(S)
               \/ \E t \in Trades : CancelTrade(t)
               \/ \E w \in Workers : ListPending(w) \/ Post(w) \/ CompleteDropped(w) \/ Abort(w)
               \/ Tick
        PROVE  Kept
    BY <2>1, <2>2 DEF vars, database, CreateNotification, ResolveAlert, InvalidateAlerts,
       CancelTrade, FailPending, ListPending, Post, CompleteDropped, Abort, Tick, TypeOK
  <2>3. ASSUME NEW w \in Workers, Prepare(w)
        PROVE  Kept
    <3>1. PICK n \in queue[w] :
            \/ PrepareInvalidated(w, n) \/ PrepareSettled(w, n)
            \/ PrepareBusy(w, n) \/ PrepareExhausted(w, n) \/ PrepareAttempt(w, n)
      BY <2>3 DEF Prepare
    <3>2. \/ notification' = notification
          \/ /\ Invalidated(n) \/ notification[n] # "DELIVERED"
             /\ \E v : notification' = [notification EXCEPT ![n] = v]
      BY <3>1 DEF PrepareInvalidated, PrepareSettled, PrepareBusy, PrepareExhausted,
         PrepareAttempt, Deliverable, AlreadyDelivered, database
    <3>3. QED
      BY <2>1, <3>2 DEF TypeOK
  <2>4. ASSUME NEW w \in Workers, CompleteRecorded(w)
        PROVE  Kept
    <3>1. call[w].n \in Notifications /\ notification[call[w].n] # "DELIVERED"
      BY <1>1, <2>4, RecordedIsLast DEF Safe, DeliveredMeansAccepted
    <3>2. \E v : notification' = [notification EXCEPT ![call[w].n] = v]
      BY <2>4 DEF CompleteRecorded
    <3>3. QED
      BY <2>1, <3>1, <3>2 DEF TypeOK
  <2>5. QED
    BY <1>1, <2>2, <2>3, <2>4 DEF Next, Complete
<1>2. QED
  BY <1>1, SafetyInvariant, PTL DEF Spec, DeliveredLostOnlyToInvalidation

\* The ledger entry of a sequence of attempts.
Statuses(s) == [k \in DOMAIN s |-> s[k].status]

\* The statuses of a sequence of attempts are a sequence of statuses.
LEMMA StatusesFacts ==
    ASSUME NEW s \in Seq(Attempt)
    PROVE  /\ Statuses(s) \in Seq(AttemptStatus)
           /\ Len(Statuses(s)) = Len(s)
           /\ DOMAIN Statuses(s) = DOMAIN s
           /\ \A k \in DOMAIN s : Statuses(s)[k] = s[k].status
<1>1. Len(s) \in Nat /\ DOMAIN s = 1..Len(s)
  OBVIOUS
<1>2. \A k \in DOMAIN s : s[k] \in Attempt
  OBVIOUS
<1>3. \A k \in DOMAIN s : s[k].status \in AttemptStatus
  BY <1>2 DEF Attempt
<1>4. Statuses(s) \in [1..Len(s) -> AttemptStatus]
  BY <1>1, <1>3 DEF Statuses
<1>5. QED
  BY <1>1, <1>4 DEF Statuses

\* The statuses of a longer sequence are the longer sequence of statuses.
LEMMA StatusesAppend ==
    ASSUME NEW s \in Seq(Attempt), NEW a \in Attempt
    PROVE  Statuses(Append(s, a)) = Append(Statuses(s), a.status)
<1>1. a.status \in AttemptStatus
  BY DEF Attempt
<1>2. /\ Append(s, a) \in Seq(Attempt)
      /\ Len(Append(s, a)) = Len(s) + 1
      /\ \A k \in 1..Len(s) : Append(s, a)[k] = s[k]
      /\ Append(s, a)[Len(s) + 1] = a
  OBVIOUS
<1> DEFINE l == Statuses(Append(s, a))
           r == Append(Statuses(s), a.status)
<1>3. /\ l \in Seq(AttemptStatus) /\ Len(l) = Len(s) + 1
      /\ \A k \in 1..(Len(s) + 1) : l[k] = Append(s, a)[k].status
  <2> DEFINE t == Append(s, a)
  <2>1. t \in Seq(Attempt) /\ Len(t) = Len(s) + 1 /\ DOMAIN t = 1..(Len(s) + 1)
    BY <1>2
  <2> HIDE DEF t
  <2>2. /\ Statuses(t) \in Seq(AttemptStatus) /\ Len(Statuses(t)) = Len(t)
        /\ \A k \in DOMAIN t : Statuses(t)[k] = t[k].status
    BY <2>1, StatusesFacts
  <2>3. QED
    BY <2>1, <2>2 DEF t
<1>4. /\ Statuses(s) \in Seq(AttemptStatus) /\ Len(Statuses(s)) = Len(s)
      /\ \A k \in 1..Len(s) : Statuses(s)[k] = s[k].status
  BY StatusesFacts
<1>5. /\ r \in Seq(AttemptStatus) /\ Len(r) = Len(s) + 1
      /\ \A k \in 1..Len(s) : r[k] = Statuses(s)[k]
      /\ r[Len(s) + 1] = a.status
  BY <1>1, <1>4, AppendFacts
<1> HIDE DEF l, r
<1>6. \A k \in 1..(Len(s) + 1) : l[k] = r[k]
  BY <1>2, <1>3, <1>4, <1>5
<1>7. l = r
  BY <1>3, <1>5, <1>6, SeqEqual
<1>8. QED
  BY <1>7 DEF l, r

\* The result of one attempt is one new entry among the statuses.
LEMMA StatusesExcept ==
    ASSUME NEW s \in Seq(Attempt), NEW k \in DOMAIN s, NEW a \in Attempt
    PROVE  Statuses([s EXCEPT ![k] = a]) = [Statuses(s) EXCEPT ![k] = a.status]
  BY DEF Statuses

\* The entry of a notification in the ledger.
LEMMA LedgerEntry ==
    ASSUME NEW n \in Notifications
    PROVE  StatusLedger[n] = Statuses(attempts[n])
  BY DEF StatusLedger, Statuses

\* A step that changes the attempts of one notification changes one entry of
\* the ledger.
LEMMA LedgerChange ==
    ASSUME NEW n \in Notifications,
           \A m \in Notifications : m # n => attempts'[m] = attempts[m]
    PROVE  StatusLedger' = [StatusLedger EXCEPT ![n] = Statuses(attempts'[n])]
  BY DEF StatusLedger, Statuses

\* What recovery does to the ledger, when it leaves nothing in progress.
LEMMA RecoveredStatuses ==
    ASSUME DeliveryAssumption, TypeInv, Safe, NEW n \in Notifications, ~StillActive(n)
    PROVE  LET s == attempts[n]
           IN  \/ /\ \A k \in DOMAIN s : s[k].status # "IN_PROGRESS"
                  /\ Recovered(n) = s
               \/ /\ Len(s) \in DOMAIN s
                  /\ s[Len(s)].status = "IN_PROGRESS"
                  /\ Recovered(n) = [s EXCEPT ![Len(s)] = Interrupted]
<1> DEFINE s == attempts[n]
           f == Recovered(n)
<1>1. s \in Seq(Attempt)
  BY DEF TypeInv, TypeOK
<1>2. f \in Seq(Attempt) /\ Len(f) = Len(s) /\ DOMAIN f = DOMAIN s
  BY RecoveredFacts DEF TypeInv
<1>3. \A k \in DOMAIN s :
        /\ s[k].status # "IN_PROGRESS" => f[k] = s[k]
        /\ s[k].status = "IN_PROGRESS" => k = Len(s) /\ f[k] = Interrupted
  BY RecoveredIsClosed DEF Safe
<1> HIDE DEF s, f
<1>4. CASE \A k \in DOMAIN s : s[k].status # "IN_PROGRESS"
  <2>1. f = s
    BY <1>1, <1>2, <1>3, <1>4
  <2>2. QED
    BY <1>4, <2>1 DEF s, f
<1>5. CASE \E k \in DOMAIN s : s[k].status = "IN_PROGRESS"
  <2>1. Len(s) \in DOMAIN s /\ s[Len(s)].status = "IN_PROGRESS"
    BY <1>3, <1>5
  <2>2. \A k \in DOMAIN s : f[k] = IF k = Len(s) THEN Interrupted ELSE s[k]
    BY <1>3, <2>1
  <2>3. f = [s EXCEPT ![Len(s)] = Interrupted]
    BY <1>1, <1>2, <2>2
  <2>4. QED
    BY <2>1, <2>3 DEF s, f
<1>6. QED
  BY <1>4, <1>5

\* prepare() opens an attempt, closes an interrupted one, or does both.
LEMMA PrepareLedger ==
    ASSUME DeliveryAssumption, TypeInv, Safe, NEW w \in Workers, NEW n \in Notifications,
           PrepareBusy(w, n) \/ PrepareExhausted(w, n) \/ PrepareAttempt(w, n)
    PROVE  [Ledger!LedgerNext]_StatusLedger
<1> DEFINE s == attempts[n]
           l == Statuses(s)
           L == Len(s)
<1>1. /\ TypeOK
      /\ s \in Seq(Attempt)
      /\ StatusLedger[n] = l
      /\ StatusLedger' = [StatusLedger EXCEPT ![n] = Statuses(attempts'[n])]
  BY PrepareChange, LedgerChange, LedgerEntry DEF TypeInv, TypeOK
<1>2. /\ l \in Seq(AttemptStatus) /\ Len(l) = L /\ DOMAIN l = DOMAIN s
      /\ \A k \in DOMAIN s : l[k] = s[k].status
  BY <1>1, StatusesFacts
<1>3. StatusLedger = [StatusLedger EXCEPT ![n] = l]
  BY <1>1 DEF StatusLedger
<1>4. CASE PrepareBusy(w, n)
  <2>1. attempts'[n] = s
    BY <1>1, <1>4, BusyRecoversNothing DEF PrepareBusy, Safe, TypeOK
  <2>2. QED
    BY <1>1, <1>3, <2>1
<1>5. ASSUME ~StillActive(n)
      PROVE  \/ /\ \A k \in DOMAIN s : s[k].status # "IN_PROGRESS"
                /\ Recovered(n) = s
             \/ /\ L \in DOMAIN s
                /\ s[L].status = "IN_PROGRESS"
                /\ Recovered(n) = [s EXCEPT ![L] = Interrupted]
  BY <1>5, DeliveryAssumption, RecoveredStatuses
<1>6. Interrupted \in Attempt /\ NewAttempt \in Attempt
  BY DEF Interrupted, NewAttempt, Attempt, AttemptStatus, DeliveryAssumption
<1>7. L \in DOMAIN s => Statuses([s EXCEPT ![L] = Interrupted]) = [l EXCEPT ![L] = "FAILED"]
  BY <1>1, <1>6, StatusesExcept DEF Interrupted
<1>8. L \in DOMAIN s => l # <<>>
  BY <1>1, <1>2
<1>9. CASE PrepareExhausted(w, n)
  <2>1. attempts'[n] = Recovered(n) /\ ~StillActive(n)
    BY <1>1, <1>9 DEF PrepareExhausted, TypeOK
  <2>2. CASE Recovered(n) = s
    BY <1>1, <1>3, <2>1, <2>2
  <2>3. CASE L \in DOMAIN s /\ s[L].status = "IN_PROGRESS"
             /\ Recovered(n) = [s EXCEPT ![L] = Interrupted]
    <3>1. StatusLedger' = [StatusLedger EXCEPT ![n] = [l EXCEPT ![L] = "FAILED"]]
      BY <1>1, <1>7, <2>1, <2>3
    <3>2. l # <<>> /\ Len(l) = L /\ l[L] = "IN_PROGRESS"
      BY <1>2, <1>8, <2>3
    <3>3. StatusLedger' = [StatusLedger EXCEPT ![n][L] = "FAILED"]
      BY <1>1, <3>1
    <3> HIDE DEF l, L
    <3>4. Ledger!Close(n, "FAILED")
      BY <1>1, <3>2, <3>3 DEF Ledger!Close, Ledger!Open
    <3>5. QED
      BY <3>4 DEF Ledger!LedgerNext, Ledger!Closed
  <2>4. QED
    BY <1>5, <2>1, <2>2, <2>3
<1>10. CASE PrepareAttempt(w, n)
  <2>1. /\ attempts'[n] = Append(Recovered(n), NewAttempt)
        /\ Deliverable(n) /\ ~StillActive(n)
        /\ L + 1 <= MaxAttempts
    BY <1>1, <1>10 DEF PrepareAttempt, AttemptsLeft, TypeOK
  <2>2. \A k \in DOMAIN s : l[k] # "DELIVERED"
    BY <1>2, <2>1, DeliverableNotDelivered
  <2>3. L \in Nat /\ L < MaxAttempts
    BY <1>1, <2>1 DEF DeliveryAssumption
  <2>4. Recovered(n) \in Seq(Attempt)
    BY <1>1, RecoveredFacts
  <2>5. Statuses(attempts'[n]) = Append(Statuses(Recovered(n)), "IN_PROGRESS")
    BY <1>6, <2>1, <2>4, StatusesAppend DEF NewAttempt
  <2>6. CASE /\ \A k \in DOMAIN s : s[k].status # "IN_PROGRESS"
             /\ Recovered(n) = s
    <3>1. StatusLedger' = [StatusLedger EXCEPT ![n] = Append(l, "IN_PROGRESS")]
      BY <1>1, <2>5, <2>6
    <3>2. \A k \in DOMAIN l : l[k] # "IN_PROGRESS" /\ l[k] # "DELIVERED"
      BY <1>2, <2>2, <2>6
    <3>3. Len(l) < MaxAttempts
      BY <1>2, <2>3
    <3> HIDE DEF l, L, s
    <3>4. Ledger!Begin(n)
      BY <1>1, <3>1, <3>2, <3>3
         DEF Ledger!Begin, Ledger!HasOpen, Ledger!Delivered, Ledger!Open
    <3>5. QED
      BY <3>4 DEF Ledger!LedgerNext
  <2>7. CASE /\ L \in DOMAIN s
             /\ s[L].status = "IN_PROGRESS"
             /\ Recovered(n) = [s EXCEPT ![L] = Interrupted]
    <3>1. Statuses(Recovered(n)) = [l EXCEPT ![L] = "FAILED"]
      BY <1>7, <2>7
    <3>2. StatusLedger' = [StatusLedger EXCEPT
                             ![n] = Append([l EXCEPT ![L] = "FAILED"], "IN_PROGRESS")]
      BY <1>1, <2>5, <3>1
    <3>3. /\ l # <<>> /\ Len(l) = L /\ l[L] = "IN_PROGRESS"
          /\ \A k \in DOMAIN l : l[k] # "DELIVERED"
          /\ Len(l) < MaxAttempts
      BY <1>2, <1>8, <2>2, <2>3, <2>7
    <3> HIDE DEF l, L, s
    <3>4. Ledger!Takeover(n)
      BY <1>1, <3>2, <3>3 DEF Ledger!Takeover, Ledger!Delivered, Ledger!Open
    <3>5. QED
      BY <3>4 DEF Ledger!LedgerNext
  <2>8. QED
    BY <1>5, <2>1, <2>6, <2>7
<1>11. QED
  BY <1>4, <1>9, <1>10

\* complete() closes the open attempt with its result.
LEMMA CompleteLedger ==
    ASSUME DeliveryAssumption, TypeInv, Safe, NEW w \in Workers, CompleteRecorded(w)
    PROVE  Ledger!LedgerNext
<1> DEFINE n == call[w].n
           k == call[w].k
           a == AttemptResult(call[w].reply)
           l == Statuses(attempts[n])
<1>1. /\ n \in Notifications
      /\ k \in DOMAIN attempts[n] /\ k = Len(attempts[n])
      /\ attempts[n][k].status = "IN_PROGRESS"
      /\ attempts' = [attempts EXCEPT ![n] = [@ EXCEPT ![k] = a]]
  BY RecordedIsLast
<1>2. attempts[n] \in Seq(Attempt) /\ attempts \in [Notifications -> Seq(Attempt)]
  BY <1>1 DEF TypeInv, TypeOK
<1>3. a \in Attempt /\ a.status \in {"DELIVERED", "FAILED"}
  BY DEF AttemptResult, Attempt, AttemptStatus, DeliveryAssumption
<1> HIDE DEF n, k, a
<1>4. /\ l \in Seq(AttemptStatus) /\ Len(l) = k /\ l[k] = "IN_PROGRESS"
      /\ DOMAIN l = DOMAIN attempts[n]
  BY <1>1, <1>2, StatusesFacts
<1>5. /\ attempts'[n] = [attempts[n] EXCEPT ![k] = a]
      /\ \A m \in Notifications : m # n => attempts'[m] = attempts[m]
  BY <1>1, <1>2
<1>6. Statuses(attempts'[n]) = [l EXCEPT ![k] = a.status]
  <2>1. Statuses([attempts[n] EXCEPT ![k] = a]) = [l EXCEPT ![k] = a.status]
    BY <1>1, <1>2, <1>3, StatusesExcept, Zenon
  <2>2. QED
    BY <1>5, <2>1
<1>7. StatusLedger[n] = l /\ StatusLedger' = [StatusLedger EXCEPT ![n] = [l EXCEPT ![k] = a.status]]
  BY <1>1, <1>5, <1>6, LedgerEntry, LedgerChange
<1>8. l # <<>>
  BY <1>1, <1>4
<1> HIDE DEF l
<1>9. StatusLedger' = [StatusLedger EXCEPT ![n][k] = a.status]
  BY <1>7
<1>10. Ledger!Close(n, a.status)
  BY <1>4, <1>7, <1>8, <1>9 DEF Ledger!Close, Ledger!Open
<1>11. QED
  BY <1>1, <1>3, <1>10 DEF Ledger!LedgerNext, Ledger!Closed

\* The attempts of every notification form a ledger: one open entry at a
\* time, each closed once, a bounded number of them, none after a delivery.
THEOREM Refinement == Spec => ImplementsLedger
<1>1. Init => Ledger!LedgerInit
  BY DEF Init, StatusLedger, Ledger!LedgerInit
<1>2. ASSUME TypeInv, Safe, [Next]_vars
      PROVE  [Ledger!LedgerNext]_StatusLedger
  <2>1. DeliveryAssumption
    BY DeliveryAssumption
  <2>2. CASE UNCHANGED attempts
    BY <2>2 DEF StatusLedger
  <2>3. CASE Tick
    <3>1. \A n \in Notifications :
            /\ DOMAIN attempts'[n] = DOMAIN attempts[n]
            /\ \A k \in DOMAIN attempts[n] : attempts'[n][k].status = attempts[n][k].status
      BY <1>2, <2>1, <2>3, TickKeepsStatus
    <3>2. QED
      BY <3>1 DEF StatusLedger
  <2>4. QED
    BY <1>2, <2>1, <2>2, <2>3, WhoChangesAttempts, PrepareLedger, CompleteLedger
<1>3. QED
  BY <1>1, <1>2, SafetyInvariant, PTL DEF Spec, ImplementsLedger, Ledger!LedgerSpec

----------------------------------------------------------------------------
(* Prompt processes: MaxStall < RecoveryTimeout.                           *)

\* The attempt of a busy process is in progress and no older than its call,
\* so recovery does not see it as stale.
OwnsAttempt(w) ==
    LET a == attempts[call[w].n][call[w].k]
    IN  a.status = "IN_PROGRESS" /\ a.age <= call[w].elapsed /\ call[w].elapsed <= MaxStall

Owned == (\A w \in Workers : Busy(w) => OwnsAttempt(w)) /\ ExclusiveDelivery

\* No process is busy at the start.
LEMMA InitOwned == ASSUME Init PROVE Owned
  BY DEF Init, Owned, Busy, ExclusiveDelivery

\* An action that leaves the attempts and the calls of busy processes alone.
LEMMA OwnedStays ==
    ASSUME Owned, UNCHANGED attempts,
           \A v \in Workers : Busy(v)' => /\ Busy(v)
                                          /\ call'[v].n = call[v].n
                                          /\ call'[v].k = call[v].k
                                          /\ call'[v].elapsed = call[v].elapsed
    PROVE  Owned'
  BY DEF Owned, OwnsAttempt, ExclusiveDelivery

\* Recovery passes over an attempt that a prompt process is busy with.
LEMMA BusyIsActive ==
    ASSUME DeliveryAssumption, Timely, TypeInv, Owned,
           NEW v \in Workers, Busy(v)
    PROVE  StillActive(call[v].n)
<1> DEFINE n == call[v].n
           k == call[v].k
           a == attempts[n][k]
<1>1. n \in Notifications /\ k \in DOMAIN attempts[n]
  BY DEF TypeInv, CallOK
<1>2. /\ a.status = "IN_PROGRESS"
      /\ a.age <= call[v].elapsed
      /\ call[v].elapsed <= MaxStall
  BY DEF Owned, OwnsAttempt
<1>3. a.age \in Nat /\ call[v].elapsed \in Nat
  <2>1. a \in Attempt
    BY <1>1, AttemptFacts DEF TypeInv
  <2>2. call[v] \in Call
    BY DEF TypeInv, TypeOK
  <2>3. QED
    BY <2>1, <2>2 DEF Attempt, Call, DeliveryAssumption
<1>4. ~Stale(a)
  <2>1. a.age < RecoveryTimeout
    BY <1>2, <1>3 DEF Timely, DeliveryAssumption
  <2>2. a.age \in Nat /\ RecoveryTimeout \in Nat
    BY <1>3 DEF DeliveryAssumption
  <2>3. QED
    BY <2>1, <2>2 DEF Stale
<1>5. Recovered(n)[k] = a
  BY <1>1, <1>4 DEF Recovered
<1>6. QED
  BY <1>1, <1>2, <1>5 DEF StillActive

\* prepare(): a new attempt belongs to the process that opened it, and the
\* attempts of prompt processes are not taken over.
LEMMA PrepareOwned ==
    ASSUME DeliveryAssumption, Timely, TypeInv, Safe, Owned,
           NEW w \in Workers, NEW n \in queue[w],
           \/ PrepareInvalidated(w, n) \/ PrepareSettled(w, n)
           \/ PrepareBusy(w, n) \/ PrepareExhausted(w, n) \/ PrepareAttempt(w, n)
    PROVE  Owned'
<1>1. TypeOK /\ n \in Notifications
  BY DEF TypeInv, TypeOK
<1>2. ASSUME Skip(w, n), NEW v \in Workers, Busy(v)'
      PROVE  Busy(v) /\ call'[v] = call[v]
  BY <1>1, <1>2 DEF Skip, Rest, TypeOK, Busy
<1>3. CASE PrepareInvalidated(w, n) \/ PrepareSettled(w, n) \/ PrepareBusy(w, n)
  <2>1. Skip(w, n)
    BY <1>3 DEF PrepareInvalidated, PrepareSettled, PrepareBusy
  <2>2. UNCHANGED attempts
    BY <1>1, <1>3, BusyRecoversNothing
       DEF PrepareInvalidated, PrepareSettled, PrepareBusy, database, Safe, TypeOK
  <2>3. QED
    BY <1>2, <2>1, <2>2, OwnedStays
<1>4. ASSUME PrepareExhausted(w, n) \/ PrepareAttempt(w, n)
      PROVE  /\ \A v \in Workers : Busy(v) => call[v].n # n
             /\ \A m \in Notifications : m # n => attempts'[m] = attempts[m]
  <2>1. ~StillActive(n)
    BY <1>4 DEF PrepareExhausted, PrepareAttempt
  <2>2. QED
    BY <1>1, <1>4, <2>1, BusyIsActive, PrepareChange
<1>5. CASE PrepareExhausted(w, n)
  <2>1. \A v \in Workers : Busy(v)' => Busy(v) /\ call'[v] = call[v]
    BY <1>2, <1>5 DEF PrepareExhausted
  <2>2. \A v \in Workers : Busy(v)' => attempts'[call[v].n] = attempts[call[v].n]
    BY <1>4, <1>5, <2>1 DEF TypeInv, CallOK
  <2>3. QED
    BY <2>1, <2>2 DEF Owned, OwnsAttempt, ExclusiveDelivery
<1>6. CASE PrepareAttempt(w, n)
  <2>1. /\ call'[w] = [n |-> n, k |-> Len(attempts[n]) + 1, elapsed |-> 0, reply |-> "NONE"]
        /\ \A v \in Workers : v # w => call'[v] = call[v] /\ (Busy(v)' => Busy(v))
    BY <1>1, <1>6 DEF PrepareAttempt, TypeOK, Busy
  <2>2. ASSUME NEW v \in Workers, v # w, Busy(v)'
        PROVE  Busy(v) /\ call[v].n # n /\ OwnsAttempt(v)'
    <3>1. Busy(v) /\ call'[v] = call[v]
      BY <2>1, <2>2
    <3>2. call[v].n \in Notifications /\ call[v].n # n
      BY <1>4, <1>6, <3>1 DEF TypeInv, CallOK
    <3>3. attempts'[call[v].n] = attempts[call[v].n]
      BY <1>4, <1>6, <3>2
    <3>4. QED
      BY <3>1, <3>2, <3>3 DEF Owned, OwnsAttempt
  <2>3. OwnsAttempt(w)'
    <3>1. attempts'[n] = Append(Recovered(n), NewAttempt)
      BY <1>1, <1>6 DEF PrepareAttempt, TypeOK
    <3>2. Recovered(n) \in Seq(Attempt) /\ Len(Recovered(n)) = Len(attempts[n])
      BY <1>1, RecoveredFacts
    <3>3. NewAttempt \in Attempt
      BY DEF NewAttempt, Attempt, AttemptStatus, DeliveryAssumption
    <3>4. attempts'[n][Len(attempts[n]) + 1] = NewAttempt
      BY <3>1, <3>2, <3>3, AppendFacts
    <3>5. QED
      BY <2>1, <3>4 DEF OwnsAttempt, NewAttempt, DeliveryAssumption
  <2>4. ExclusiveDelivery'
    BY <2>1, <2>2 DEF Owned, ExclusiveDelivery
  <2>5. QED
    BY <2>2, <2>3, <2>4 DEF Owned
<1>7. QED
  BY <1>3, <1>5, <1>6

\* complete(): a process gives up its own attempt and no other.
LEMMA CompleteOwned ==
    ASSUME TypeInv, Safe, Owned, NEW w \in Workers, Complete(w)
    PROVE  Owned'
<1>1. /\ TypeOK
      /\ Busy(w)
      /\ \A v \in Workers : Busy(v)' => v # w /\ Busy(v) /\ call'[v] = call[v]
  BY DEF TypeInv, TypeOK, Complete, CompleteRecorded, CompleteDropped, Return, Rest, Busy
<1>2. CASE CompleteRecorded(w)
  <2>1. ASSUME NEW v \in Workers, Busy(v)'
        PROVE  attempts'[call[v].n] = attempts[call[v].n]
    <3>1. /\ call[v].n \in Notifications
          /\ call[v].n # call[w].n
      BY <1>1, <2>1 DEF TypeInv, CallOK, Owned, ExclusiveDelivery
    <3>2. QED
      BY <1>1, <1>2, <3>1, RecordedIsLast DEF TypeOK
  <2>2. QED
    BY <1>1, <2>1 DEF Owned, OwnsAttempt, ExclusiveDelivery
<1>3. CASE CompleteDropped(w)
  BY <1>1, <1>3, OwnedStays DEF CompleteDropped
<1>4. QED
  BY <1>2, <1>3 DEF Complete

\* An attempt in progress does not grow older than the call it belongs to.
LEMMA TickOwned ==
    ASSUME DeliveryAssumption, Timely, TypeInv, Owned, Tick
    PROVE  Owned'
<1>1. ASSUME NEW w \in Workers, Busy(w)'
      PROVE  /\ Busy(w)
             /\ call'[w].n = call[w].n
             /\ OwnsAttempt(w)'
  <2>1. Busy(w) /\ call[w].elapsed < MaxStall
    BY <1>1 DEF Tick, Busy
  <2>2. call[w] \in Call /\ call[w].elapsed \in Nat
    BY DEF TypeInv, TypeOK, Call, DeliveryAssumption
  <2>3. call'[w] = [call[w] EXCEPT !.elapsed = call[w].elapsed + 1]
    BY <2>1 DEF Tick, Elapsed
  <2>4. /\ call'[w].n = call[w].n
        /\ call'[w].k = call[w].k
        /\ call'[w].elapsed = call[w].elapsed + 1
    BY <2>2, <2>3 DEF Call
  <2> DEFINE n == call[w].n
             k == call[w].k
  <2>5. n \in Notifications /\ k \in DOMAIN attempts[n]
    BY <2>1 DEF TypeInv, CallOK
  <2>6. /\ attempts[n][k].status = "IN_PROGRESS"
        /\ attempts[n][k].age <= call[w].elapsed
    BY <2>1 DEF Owned, OwnsAttempt
  <2>7. attempts[n][k].age \in Nat
    <3>1. attempts[n][k] \in Attempt
      BY <2>5, AttemptFacts DEF TypeInv
    <3>2. QED
      BY <3>1 DEF Attempt, DeliveryAssumption
  <2>8. /\ attempts'[n][k].status = "IN_PROGRESS"
        /\ attempts'[n][k].age <= attempts[n][k].age + 1
        /\ attempts'[n][k].age \in Nat
    <3>1. /\ attempts'[n][k].status = attempts[n][k].status
          /\ attempts'[n][k].age <= attempts[n][k].age + 1
      BY <2>5, TickKeepsStatus
    <3>2. attempts'[n][k] \in Attempt
      <4>1. attempts'[n][k] = Older(attempts[n][k])
        BY <2>5 DEF Tick
      <4>2. QED
        BY <2>5, <4>1, AttemptFacts, OlderFacts DEF TypeInv
    <3>3. QED
      BY <2>6, <3>1, <3>2 DEF Attempt, DeliveryAssumption
  <2> HIDE DEF n, k
  <2>9. attempts'[n][k].age <= call[w].elapsed + 1 /\ call[w].elapsed + 1 <= MaxStall
    BY <2>1, <2>2, <2>6, <2>7, <2>8 DEF DeliveryAssumption
  <2>10. QED
    BY <2>1, <2>4, <2>8, <2>9 DEF OwnsAttempt, n, k
<1>2. QED
  BY <1>1 DEF Owned, ExclusiveDelivery

\* Every step keeps the attempts of prompt processes their own.
LEMMA StepOwned ==
    ASSUME DeliveryAssumption, Timely, TypeInv, Safe, Owned, [Next]_vars
    PROVE  Owned'
<1>1. ASSUME \/ UNCHANGED vars
             \/ \E n \in Notifications : CreateNotification(n) \/ ResolveAlert(n)
             \/ \E S \in SUBSET Notifications : InvalidateAlerts(S)
             \/ \E t \in Trades : CancelTrade(t)
      PROVE  Owned'
  <2>1. UNCHANGED <<attempts, pc, call>>
    BY <1>1 DEF vars, database, session, CreateNotification, ResolveAlert,
       InvalidateAlerts, CancelTrade
  <2>2. QED
    BY <2>1, OwnedStays DEF Busy
<1>2. ASSUME NEW w \in Workers, ListPending(w) \/ Abort(w)
      PROVE  Owned'
  <2>1. /\ UNCHANGED attempts
        /\ \A v \in Workers : Busy(v)' => Busy(v) /\ call'[v] = call[v]
    BY <1>2 DEF ListPending, Abort, database, TypeInv, TypeOK, Busy
  <2>2. QED
    BY <2>1, OwnedStays
<1>3. ASSUME NEW w \in Workers, Post(w)
      PROVE  Owned'
  <2>1. /\ UNCHANGED attempts
        /\ \E r : call' = [call EXCEPT ![w].reply = r]
        /\ \A v \in Workers : Busy(v)' => Busy(v)
    BY <1>3 DEF Post, database, TypeInv, TypeOK, Busy
  <2>2. \A v \in Workers : /\ call'[v].n = call[v].n
                           /\ call'[v].k = call[v].k
                           /\ call'[v].elapsed = call[v].elapsed
    BY <2>1 DEF TypeInv, TypeOK, Call
  <2>3. QED
    BY <2>1, <2>2, OwnedStays
<1>4. ASSUME NEW w \in Workers, Prepare(w)
      PROVE  Owned'
  BY <1>4, PrepareOwned DEF Prepare
<1>5. QED
  BY <1>1, <1>2, <1>3, <1>4, CompleteOwned, TickOwned DEF Next

\* With prompt processes, TypeInv, Safe and Owned together are inductive.
LEMMA PromptInvariant == ASSUME Timely PROVE Spec => [](TypeInv /\ Safe /\ Owned)
<1>1. Init => TypeInv /\ Safe /\ Owned
  BY DeliveryAssumption, InitTypeInv, InitSafe, InitOwned
<1>2. TypeInv /\ Safe /\ Owned /\ [Next]_vars => TypeInv' /\ Safe' /\ Owned'
  BY DeliveryAssumption, StepTypeInv, StepSafe, StepOwned
<1>3. QED
  BY <1>1, <1>2, PTL DEF Spec

\* Prompt processes never deliver the same notification at the same time.
THEOREM DeliveryIsExclusive == ASSUME Timely PROVE Spec => []ExclusiveDelivery
  BY PromptInvariant, PTL DEF Owned

\* A step of prompt processes puts no message about a cancelled trade into the chat.
LEMMA PromptStepIsQuiet ==
    ASSUME TypeInv, Safe, Owned, [Next]_vars
    PROVE  \A n \in Notifications : accepted'[n] # accepted[n] => ~OfCancelled(n)
<1> DEFINE Quiet == \A n \in Notifications : accepted'[n] # accepted[n] => ~OfCancelled(n)
<1>1. ASSUME NEW w \in Workers, Post(w)
      PROVE  Quiet
  <2>1. /\ call[w].n \in Notifications
        /\ call[w].k \in DOMAIN attempts[call[w].n]
        /\ attempts[call[w].n][call[w].k].status = "IN_PROGRESS"
    BY <1>1 DEF Post, Busy, TypeInv, CallOK, Owned, OwnsAttempt
  <2>2. ~OfCancelled(call[w].n)
    BY <2>1 DEF Safe, CancelledTradeIsSilent, InProgress
  <2>3. \/ accepted' = accepted
        \/ accepted' = [accepted EXCEPT ![call[w].n] = @ \cup {call[w].k}]
    BY <1>1 DEF Post
  <2>4. QED
    BY <2>2, <2>3 DEF TypeInv, TypeOK
<1>2. ASSUME NEW w \in Workers, Prepare(w)
      PROVE  UNCHANGED accepted
  BY <1>2 DEF Prepare, PrepareInvalidated, PrepareSettled, PrepareBusy,
     PrepareExhausted, PrepareAttempt, Skip
<1>3. QED
  BY <1>1, <1>2 DEF Next, vars, CreateNotification, ResolveAlert, InvalidateAlerts,
     CancelTrade, ListPending, Complete, CompleteRecorded, CompleteDropped, Return,
     Abort, Tick

\* Prompt processes put no message about a cancelled trade into the chat.
THEOREM NothingPostedAfterCancellation ==
    ASSUME Timely PROVE Spec => NoPostAfterCancellation
  BY PromptInvariant, PromptStepIsQuiet, PTL DEF Spec, NoPostAfterCancellation
=============================================================================
