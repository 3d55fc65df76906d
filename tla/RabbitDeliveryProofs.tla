------------------------- MODULE RabbitDeliveryProofs ------------------------
(* What RabbitDelivery guarantees for every set of messages, queues and      *)
(* tasks, every routing and any number of lost connections: type             *)
(* correctness, business op -> ACK -> DEL as the implementation of           *)
(* GrantSettlement, and that a copy which may come back keeps its grant      *)
(* unless its acknowledgement was lost or another copy was settled.          *)
EXTENDS RabbitDelivery, TLAPS

\* A copy names its message and its queue.
LEMMA CopyType == \A c \in Copies : c[1] \in Messages /\ c[2] \in Queues
BY DEF Copies

\* A task works on a copy unless it is idle, and a receipt is held by a task
\* that has not acknowledged.
JobInv ==
    /\ \A t \in Tasks : stage[t] = "idle" <=> job[t] = None
    /\ \A c \in Copies : receipt[c] # None =>
          stage[receipt[c]] \in {"handling", "succeeded", "raised", "dropped"}

\* Before its publish a message has neither grant nor copies.
SendInv ==
    /\ \A m \in Messages : sendPc[m] = "idle" => grant[m] = "none"
    /\ \A c \in Copies : sendPc[c[1]] \in {"idle", "granted"} => place[c] = "absent"

\* A task acknowledges and releases only after its copy's business op.
WorkInv ==
    \A t \in Tasks :
        /\ stage[t] = "succeeded" => work[job[t]] \in {"done", "settledDone"}
        /\ stage[t] = "releasing" => work[job[t]] = "settledDone"

IInv == TypeOK /\ JobInv /\ SendInv /\ WorkInv

LEMMA InitIInv == Init => IInv
BY RabbitAssumption DEF Init, IInv, TypeOK, JobInv, SendInv, WorkInv

\* What acknowledging or releasing leaves behind, when the task holds no
\* receipt any more.
LEMMA EndedTask ==
    ASSUME TypeOK, JobInv, NEW t \in Tasks, TaskEnds(t),
           receipt' \in [Copies -> Tasks \cup {None}],
           \A c \in Copies : receipt'[c] \in {receipt[c], None} \ {t}
    PROVE  /\ stage' \in [Tasks -> {"idle", "handling", "succeeded", "raised", "releasing", "dropped"}]
           /\ job' \in [Tasks -> Copies \cup {None}]
           /\ \A u \in Tasks : stage'[u] = "idle" <=> job'[u] = None
           /\ \A c \in Copies : receipt'[c] # None =>
                 /\ stage'[receipt'[c]] \in {"handling", "succeeded", "raised", "dropped"}
                 /\ job'[receipt'[c]] = job[receipt[c]]
BY RabbitAssumption DEF TypeOK, JobInv, TaskEnds

LEMMA TypeStep == IInv /\ [Next]_vars => TypeOK' /\ JobInv'
<1> SUFFICES ASSUME TypeOK, JobInv, SendInv, WorkInv, [Next]_vars PROVE TypeOK' /\ JobInv'
  BY DEF IInv
<1> USE RabbitAssumption
<1>1. ASSUME NEW m \in Messages, CreateGrant(m) PROVE TypeOK' /\ JobInv'
  BY <1>1 DEF CreateGrant, broker, TypeOK, JobInv
<1>2. ASSUME NEW m \in Messages, GrantExpires(m) PROVE TypeOK' /\ JobInv'
  BY <1>2 DEF GrantExpires, broker, TypeOK, JobInv
<1>3. ASSUME NEW m \in Messages, Publish(m) PROVE TypeOK' /\ JobInv'
  <2>1. /\ place' \in [Copies -> {"absent", "queued", "unacked", "acking", "acked", "expired"}]
        /\ sendPc' \in [Messages -> {"idle", "granted", "sent", "raised"}]
    BY <1>3 DEF Publish, TypeOK
  <2>2. \A c \in Copies : c[1] = m => place[c] = "absent"
    BY <1>3, CopyType DEF Publish, SendInv
  <2>3. \A c \in Copies : place[c] = "unacked" => place'[c] = "unacked"
    BY <1>3, <2>2 DEF Publish, TypeOK
  <2> QED
    BY <1>3, <2>1, <2>3 DEF Publish, TypeOK, JobInv
<1>4. ASSUME NEW c \in Copies, MessageExpires(c) \/ AckArrives(c) PROVE TypeOK' /\ JobInv'
  BY <1>4 DEF MessageExpires, AckArrives, TypeOK, JobInv
<1>5. ASSUME TakeBack,
             stage' \in [Tasks -> {"idle", "handling", "succeeded", "raised", "releasing", "dropped"}],
             job' \in [Tasks -> Copies \cup {None}],
             \A t \in Tasks : stage'[t] = "idle" <=> job'[t] = None,
             UNCHANGED <<sendPc, grant, work>>
      PROVE  TypeOK' /\ JobInv'
  <2>1. /\ place' \in [Copies -> {"absent", "queued", "unacked", "acking", "acked", "expired"}]
        /\ unheard' \subseteq Copies
        /\ \A c \in Copies : receipt'[c] = None
        /\ receipt' \in [Copies -> Tasks \cup {None}]
    BY <1>5 DEF TakeBack, Unsettled, TypeOK
  <2>2. losses' \in 0 .. MaxLosses
    BY <1>5 DEF TakeBack, TypeOK
  <2> QED
    BY <1>5, <2>1, <2>2 DEF TypeOK, JobInv
<1>6. CASE ConnectionLost
  <2>1. /\ stage' \in [Tasks -> {"idle", "handling", "succeeded", "raised", "releasing", "dropped"}]
        /\ job' \in [Tasks -> Copies \cup {None}]
        /\ \A t \in Tasks : stage'[t] = "idle" <=> job'[t] = None
    BY <1>6 DEF ConnectionLost, TypeOK, JobInv
  <2> QED
    BY <1>5, <1>6, <2>1 DEF ConnectionLost
<1>7. CASE Crash
  BY <1>5, <1>7 DEF Crash
<1>8. ASSUME NEW t \in Tasks, NEW c \in Copies, Deliver(t, c) PROVE TypeOK' /\ JobInv'
  <2>1. \A d \in Copies : receipt[d] # t /\ (receipt[d] # None => d # c)
    BY <1>8 DEF Deliver, TypeOK, JobInv
  <2>2. /\ place' \in [Copies -> {"absent", "queued", "unacked", "acking", "acked", "expired"}]
        /\ stage' \in [Tasks -> {"idle", "handling", "succeeded", "raised", "releasing", "dropped"}]
        /\ job' \in [Tasks -> Copies \cup {None}]
        /\ receipt' \in [Copies -> Tasks \cup {None}]
    BY <1>8 DEF Deliver, TypeOK
  <2>3. \A d \in Copies : receipt'[d] # None => place'[d] = "unacked" /\ job'[receipt'[d]] = d
    BY <1>8, <2>1 DEF Deliver, TypeOK
  <2>4. stage'[t] \in {"handling", "dropped"} /\ job'[t] = c
    BY <1>8 DEF Deliver, TypeOK
  <2>5. JobInv'
    BY <1>8, <2>1, <2>2, <2>4 DEF Deliver, TypeOK, JobInv
  <2> QED
    BY <1>8, <2>2, <2>3, <2>5 DEF Deliver, TypeOK
<1>9. ASSUME NEW t \in Tasks, HandlerSucceeds(t) \/ HandlerFails(t) PROVE TypeOK' /\ JobInv'
  <2>1. /\ UNCHANGED <<sendPc, grant, place, unheard, receipt, job, losses>>
        /\ stage[t] = "handling"
        /\ stage' = [stage EXCEPT ![t] = "succeeded"] \/ stage' = [stage EXCEPT ![t] = "raised"]
    BY <1>9 DEF HandlerSucceeds, HandlerFails, broker
  <2>2. work' \in [Copies -> {"pending", "done", "settledDone", "settledFailed"}]
    <3>1. CASE HandlerFails(t)
      BY <3>1 DEF HandlerFails, TypeOK
    <3>2. CASE HandlerSucceeds(t)
      <4>1. work' = [work EXCEPT ![job[t]] = "done"] \/ work' = [work EXCEPT ![job[t]] = work[job[t]]]
        BY <3>2 DEF HandlerSucceeds
      <4> QED
        BY <4>1 DEF TypeOK
    <3> QED
      BY <1>9, <3>1, <3>2
  <2>3. /\ stage' \in [Tasks -> {"idle", "handling", "succeeded", "raised", "releasing", "dropped"}]
        /\ \A u \in Tasks : /\ stage'[u] = "idle" <=> stage[u] = "idle"
                            /\ stage[u] \in {"handling", "succeeded", "raised", "dropped"}
                                 => stage'[u] \in {"handling", "succeeded", "raised", "dropped"}
    BY <2>1 DEF TypeOK
  <2> QED
    BY <2>1, <2>2, <2>3 DEF TypeOK, JobInv
<1>10. ASSUME NEW t \in Tasks, Ack(t) PROVE TypeOK' /\ JobInv'
  <2> DEFINE c == job[t]
  <2>1. /\ c \in Copies /\ receipt[c] = t
        /\ place' = [place EXCEPT ![c] = "acking"]
        /\ receipt' = [receipt EXCEPT ![c] = None]
        /\ UNCHANGED <<sendPc, grant, unheard, losses>>
    BY <1>10 DEF Ack, TypeOK, JobInv
  <2>2. \A d \in Copies : receipt[d] = t => d = c
    BY DEF TypeOK
  <2>3. \E outcome \in {"pending", "done", "settledDone", "settledFailed"} :
          work' = [work EXCEPT ![c] = outcome]
    <3>1. work[c] \in {"pending", "done", "settledDone", "settledFailed"}
      BY <2>1 DEF TypeOK
    <3> QED
      BY <1>10, <3>1 DEF Ack
  <2>4. \/ TaskEnds(t)
        \/ stage' = [stage EXCEPT ![t] = "releasing"] /\ job' = job /\ stage[t] # "idle"
    BY <1>10 DEF Ack, GoOn
  <2> HIDE DEF c
  <2>5. /\ place' \in [Copies -> {"absent", "queued", "unacked", "acking", "acked", "expired"}]
        /\ work' \in [Copies -> {"pending", "done", "settledDone", "settledFailed"}]
        /\ receipt' \in [Copies -> Tasks \cup {None}]
        /\ \A d \in Copies : receipt'[d] \in {receipt[d], None} \ {t}
    BY <2>1, <2>2, <2>3 DEF TypeOK
  <2>6. \A d \in Copies : receipt'[d] # None =>
          receipt'[d] = receipt[d] /\ place'[d] = place[d] /\ job[receipt[d]] = d
    BY <2>1, <2>5 DEF TypeOK
  <2>7. CASE TaskEnds(t)
    <3>1. /\ stage' \in [Tasks -> {"idle", "handling", "succeeded", "raised", "releasing", "dropped"}]
          /\ job' \in [Tasks -> Copies \cup {None}]
          /\ \A u \in Tasks : stage'[u] = "idle" <=> job'[u] = None
          /\ \A d \in Copies : receipt'[d] # None =>
                /\ stage'[receipt'[d]] \in {"handling", "succeeded", "raised", "dropped"}
                /\ job'[receipt'[d]] = job[receipt[d]]
      BY <2>5, <2>7, EndedTask
    <3> QED
      BY <2>1, <2>5, <2>6, <3>1 DEF TypeOK, JobInv
  <2>8. CASE stage' = [stage EXCEPT ![t] = "releasing"] /\ job' = job /\ stage[t] # "idle"
    BY <2>1, <2>5, <2>6, <2>8 DEF TypeOK, JobInv
  <2> QED
    BY <2>4, <2>7, <2>8
<1>11. ASSUME NEW t \in Tasks, AckRaises(t) \/ Release(t) PROVE TypeOK' /\ JobInv'
  <2>1. /\ TaskEnds(t)
        /\ UNCHANGED <<sendPc, broker, losses, work>>
        /\ grant' \in [Messages -> {"none", "live", "deleted", "expired"}]
    BY <1>11 DEF AckRaises, AckEscapes, GoOn, Release, TypeOK
  <2>2. \A c \in Copies : receipt[c] # t
    BY <1>11 DEF AckRaises, Release, TypeOK, JobInv
  <2>3. /\ receipt' \in [Copies -> Tasks \cup {None}]
        /\ \A c \in Copies : receipt'[c] \in {receipt[c], None} \ {t}
    BY <2>1, <2>2 DEF broker, TypeOK
  <2>4. /\ stage' \in [Tasks -> {"idle", "handling", "succeeded", "raised", "releasing", "dropped"}]
        /\ job' \in [Tasks -> Copies \cup {None}]
        /\ \A u \in Tasks : stage'[u] = "idle" <=> job'[u] = None
        /\ \A c \in Copies : receipt'[c] # None =>
              /\ stage'[receipt'[c]] \in {"handling", "succeeded", "raised", "dropped"}
              /\ job'[receipt'[c]] = job[receipt[c]]
    BY <2>1, <2>3, EndedTask
  <2> QED
    BY <2>1, <2>3, <2>4 DEF broker, TypeOK, JobInv
<1>12. CASE UNCHANGED vars
  BY <1>12 DEF vars, TypeOK, JobInv
<1> QED
  BY <1>1, <1>2, <1>3, <1>4, <1>6, <1>7, <1>8, <1>9, <1>10, <1>11, <1>12 DEF Next

LEMMA SendStep == IInv /\ [Next]_vars => SendInv'
<1> SUFFICES ASSUME TypeOK, JobInv, SendInv, WorkInv, [Next]_vars PROVE SendInv'
  BY DEF IInv
<1>1. ASSUME \A m \in Messages :
               \/ sendPc'[m] = sendPc[m] /\ (sendPc[m] = "idle" => grant'[m] = grant[m])
               \/ sendPc'[m] = "granted" /\ sendPc[m] = "idle",
             \A c \in Copies : place[c] = "absent" => place'[c] = "absent"
      PROVE  SendInv'
  BY <1>1, CopyType DEF SendInv
<1>2. ASSUME NEW m \in Messages, CreateGrant(m) PROVE SendInv'
  BY <1>1, <1>2 DEF CreateGrant, broker, TypeOK
<1>3. ASSUME NEW m \in Messages, GrantExpires(m) PROVE SendInv'
  <2>1. sendPc[m] # "idle"
    BY <1>3 DEF GrantExpires, SendInv
  <2> QED
    BY <1>1, <1>3, <2>1 DEF GrantExpires, broker, TypeOK
<1>4. ASSUME NEW m \in Messages, Publish(m) PROVE SendInv'
  <2>1. /\ sendPc'[m] \in {"sent", "raised"} /\ grant' = grant
        /\ \A n \in Messages : n # m => sendPc'[n] = sendPc[n]
        /\ \A c \in Copies : c[1] # m => place'[c] = place[c]
    BY <1>4 DEF Publish, TypeOK
  <2> QED
    BY <1>4, <2>1, CopyType DEF SendInv
<1>5. ASSUME NEW c \in Copies, MessageExpires(c) \/ AckArrives(c) PROVE SendInv'
  BY <1>1, <1>5 DEF MessageExpires, AckArrives, TypeOK
<1>6. CASE ConnectionLost \/ Crash
  BY <1>1, <1>6 DEF ConnectionLost, Crash, TakeBack, Unsettled, TypeOK
<1>7. ASSUME NEW t \in Tasks, NEW c \in Copies, Deliver(t, c) PROVE SendInv'
  BY <1>1, <1>7 DEF Deliver, TypeOK
<1>8. ASSUME NEW t \in Tasks, HandlerSucceeds(t) \/ HandlerFails(t) \/ AckRaises(t) PROVE SendInv'
  BY <1>1, <1>8 DEF HandlerSucceeds, HandlerFails, AckRaises, broker
<1>9. ASSUME NEW t \in Tasks, Ack(t) PROVE SendInv'
  <2>1. /\ job[t] \in Copies /\ place[job[t]] = "unacked"
        /\ \A c \in Copies : c # job[t] => place'[c] = place[c]
        /\ UNCHANGED <<sendPc, grant>>
    <3>1. job[t] \in Copies
      BY <1>9 DEF Ack, TypeOK, JobInv
    <3> QED
      BY <1>9, <3>1, RabbitAssumption DEF Ack, TypeOK
  <2> QED
    BY <1>1, <2>1
<1>10. ASSUME NEW t \in Tasks, Release(t) PROVE SendInv'
  <2>1. job[t] \in Copies
    BY <1>10 DEF Release, TypeOK, JobInv
  <2>2. job[t][1] \in Messages
    BY <2>1, CopyType
  <2>3. CASE UNCHANGED grant
    BY <1>1, <1>10, <2>3 DEF Release, broker
  <2>4. CASE /\ grant[job[t][1]] = "live"
             /\ grant' = [grant EXCEPT ![job[t][1]] = "deleted"]
    <3>1. sendPc[job[t][1]] # "idle"
      BY <2>2, <2>4 DEF SendInv
    <3> QED
      BY <1>1, <1>10, <2>2, <2>4, <3>1 DEF Release, broker, TypeOK
  <2> QED
    BY <1>10, <2>3, <2>4 DEF Release
<1>11. CASE UNCHANGED vars
  BY <1>1, <1>11 DEF vars
<1> QED
  BY <1>2, <1>3, <1>4, <1>5, <1>6, <1>7, <1>8, <1>9, <1>10, <1>11 DEF Next

LEMMA WorkStep == IInv /\ [Next]_vars => WorkInv'
<1> SUFFICES ASSUME TypeOK, JobInv, SendInv, WorkInv, [Next]_vars PROVE WorkInv'
  BY DEF IInv
<1>1. \A t \in Tasks : stage[t] # "idle" => job[t] \in Copies
  BY DEF TypeOK, JobInv
<1>2. ASSUME \A t \in Tasks : stage'[t] \in {"succeeded", "releasing"}
                                => stage'[t] = stage[t] /\ job'[t] = job[t],
             \A c \in Copies : /\ work[c] = "settledDone" => work'[c] = "settledDone"
                               /\ work[c] = "done" => work'[c] \in {"done", "settledDone"}
      PROVE  WorkInv'
  BY <1>1, <1>2 DEF WorkInv
<1>3. ASSUME NEW m \in Messages, CreateGrant(m) \/ Publish(m) \/ GrantExpires(m) PROVE WorkInv'
  BY <1>2, <1>3 DEF CreateGrant, Publish, GrantExpires
<1>4. ASSUME NEW c \in Copies, MessageExpires(c) \/ AckArrives(c) PROVE WorkInv'
  BY <1>2, <1>4 DEF MessageExpires, AckArrives
<1>5. CASE ConnectionLost \/ Crash
  BY <1>2, <1>5 DEF ConnectionLost, Crash
<1>6. ASSUME NEW t \in Tasks,
             \/ HandlerFails(t) \/ AckRaises(t) \/ Release(t)
             \/ \E c \in Copies : Deliver(t, c)
      PROVE  WorkInv'
  BY <1>2, <1>6 DEF HandlerFails, AckRaises, AckEscapes, GoOn, TaskEnds, Release, Deliver, TypeOK
<1>7. ASSUME NEW t \in Tasks, HandlerSucceeds(t) PROVE WorkInv'
  <2> DEFINE c == job[t]
  <2>1. /\ c \in Copies /\ UNCHANGED job
        /\ stage'[t] = "succeeded"
        /\ \A u \in Tasks : u # t => stage'[u] = stage[u]
        /\ \A d \in Copies : d # c => work'[d] = work[d]
    BY <1>1, <1>7 DEF HandlerSucceeds, TypeOK
  <2>2. work'[c] = IF work[c] \in {"pending", "settledFailed"} THEN "done" ELSE work[c]
    BY <1>7, <2>1 DEF HandlerSucceeds, TypeOK
  <2>3. work[c] \in {"pending", "done", "settledDone", "settledFailed"}
    BY <2>1 DEF TypeOK
  <2>4. job[t] = c
    OBVIOUS
  <2> HIDE DEF c
  <2>5. \A u \in Tasks : stage[u] # "idle" => job[u] \in Copies
    BY <1>1
  <2>6. ASSUME NEW u \in Tasks
        PROVE  /\ stage'[u] = "succeeded" => work'[job'[u]] \in {"done", "settledDone"}
               /\ stage'[u] = "releasing" => work'[job'[u]] = "settledDone"
    BY <2>1, <2>2, <2>3, <2>4, <2>5 DEF WorkInv
  <2> QED
    BY <2>6 DEF WorkInv
<1>8. ASSUME NEW t \in Tasks, Ack(t) PROVE WorkInv'
  <2> DEFINE c == job[t]
  <2>1. /\ c \in Copies
        /\ stage[t] \in {"succeeded", "raised"}
        /\ \A d \in Copies : d # c => work'[d] = work[d]
    BY <1>1, <1>8 DEF Ack, TypeOK
  <2>2. /\ work[c] = "done" => work'[c] = "settledDone"
        /\ work[c] = "settledDone" => work'[c] = "settledDone"
    BY <1>8, <2>1 DEF Ack, TypeOK
  <2>3. /\ \A u \in Tasks : u # t => stage'[u] = stage[u] /\ job'[u] = job[u]
        /\ \/ stage'[t] = "idle"
           \/ stage[t] = "succeeded" /\ stage'[t] = "releasing" /\ job'[t] = c
    BY <1>8 DEF Ack, GoOn, Releases, TaskEnds, TypeOK
  <2> HIDE DEF c
  <2>4. \A u \in Tasks : stage[u] # "idle" => job[u] \in Copies
    BY <1>1
  <2>5. ASSUME NEW u \in Tasks, u # t
        PROVE  /\ stage'[u] = "succeeded" => work'[job'[u]] \in {"done", "settledDone"}
               /\ stage'[u] = "releasing" => work'[job'[u]] = "settledDone"
    BY <2>1, <2>2, <2>3, <2>4, <2>5 DEF WorkInv
  <2>6. stage[t] = "succeeded" => work[c] \in {"done", "settledDone"}
    BY DEF WorkInv, c
  <2>7. /\ stage'[t] = "succeeded" => work'[job'[t]] \in {"done", "settledDone"}
        /\ stage'[t] = "releasing" => work'[job'[t]] = "settledDone"
    BY <2>2, <2>3, <2>6
  <2> QED
    BY <2>5, <2>7 DEF WorkInv
<1>9. CASE UNCHANGED vars
  BY <1>2, <1>9 DEF vars
<1> QED
  BY <1>3, <1>4, <1>5, <1>6, <1>7, <1>8, <1>9 DEF Next

LEMMA IInvCorrect == Spec => []IInv
<1>1. IInv /\ [Next]_vars => IInv'
  BY TypeStep, SendStep, WorkStep DEF IInv
<1> QED
  BY <1>1, InitIInv, PTL DEF Spec

\* Every reachable state is well typed: a valid delivery tag belongs to the
\* one task that works on its copy, and the copy is unacknowledged.
THEOREM TypeCorrect == Spec => []TypeOK
<1>1. IInv => TypeOK
  BY DEF IInv
<1> QED
  BY <1>1, IInvCorrect, PTL

\* _message/rabbit_mq/rabbit_message_worker.py implements business op -> ACK
\* -> DEL: a grant is deleted only for a message one of whose copies ran to
\* success and was then acknowledged.
THEOREM ImplementsSettlement == Spec => BusinessOpAckDel
<1>1. Init => Settlement!Init
  BY DEF Init, Settlement!Init
<1>2. IInv /\ [Next]_vars => [Settlement!Next]_(Settlement!vars)
  <2> SUFFICES ASSUME TypeOK, JobInv, SendInv, WorkInv, [Next]_vars
               PROVE  Settlement!Next \/ UNCHANGED <<grant, work>>
    BY DEF IInv, Settlement!vars
  <2>0. \A t \in Tasks : stage[t] # "idle" => job[t] \in Copies
    BY DEF TypeOK, JobInv
  <2>1. ASSUME NEW m \in Messages, CreateGrant(m)
        PROVE  Settlement!Create(m) \/ UNCHANGED <<grant, work>>
    <3>1. grant[m] = "none"
      BY <2>1 DEF CreateGrant, SendInv
    <3>2. CASE grant' = [grant EXCEPT ![m] = "none"]
      <4>1. grant' = grant
        BY <3>1, <3>2 DEF TypeOK
      <4> QED
        BY <2>1, <4>1 DEF CreateGrant
    <3>3. CASE grant' = [grant EXCEPT ![m] = "live"]
      BY <2>1, <3>1, <3>3 DEF CreateGrant, Settlement!Create
    <3> QED
      BY <2>1, <3>2, <3>3 DEF CreateGrant
  <2>2. ASSUME NEW m \in Messages, GrantExpires(m) PROVE Settlement!Expire(m)
    BY <2>2 DEF GrantExpires, Settlement!Expire
  <2>3. ASSUME NEW t \in Tasks, HandlerSucceeds(t)
        PROVE  (\E c \in Copies : Settlement!OpSucceeds(c)) \/ UNCHANGED <<grant, work>>
    <3>1. job[t] \in Copies
      BY <2>0, <2>3 DEF HandlerSucceeds
    <3>2. CASE work[job[t]] \in {"pending", "settledFailed"}
      BY <2>3, <3>1, <3>2 DEF HandlerSucceeds, Settlement!OpSucceeds
    <3>3. CASE work[job[t]] \notin {"pending", "settledFailed"}
      BY <2>3, <3>1, <3>3 DEF HandlerSucceeds, TypeOK
    <3> QED
      BY <3>2, <3>3
  <2>4. ASSUME NEW t \in Tasks, Ack(t)
        PROVE  (\E c \in Copies : Settlement!Settle(c)) \/ UNCHANGED <<grant, work>>
    <3>1. job[t] \in Copies /\ UNCHANGED grant
      BY <2>0, <2>4 DEF Ack
    <3>2. CASE work[job[t]] = "done"
      BY <2>4, <3>1, <3>2 DEF Ack, Settlement!Settle
    <3>3. CASE work[job[t]] = "pending"
      BY <2>4, <3>1, <3>3 DEF Ack, Settlement!Settle
    <3>4. CASE work[job[t]] \notin {"done", "pending"}
      <4>1. work' = [work EXCEPT ![job[t]] = work[job[t]]]
        BY <2>4, <3>4 DEF Ack
      <4> QED
        BY <3>1, <4>1 DEF TypeOK
    <3> QED
      BY <3>2, <3>3, <3>4
  <2>5. ASSUME NEW t \in Tasks, Release(t)
        PROVE  (\E m \in Messages : Settlement!Delete(m)) \/ UNCHANGED <<grant, work>>
    <3>1. CASE UNCHANGED grant
      BY <2>5, <3>1 DEF Release
    <3>2. CASE /\ grant[job[t][1]] = "live"
               /\ grant' = [grant EXCEPT ![job[t][1]] = "deleted"]
      <4>1. job[t] \in Copies /\ job[t][1] \in Messages
        BY <2>0, <2>5, CopyType DEF Release
      <4>2. work[job[t]] = "settledDone"
        BY <2>5 DEF Release, WorkInv
      <4>3. Settlement!Earned(job[t][1])
        BY <4>1, <4>2 DEF Settlement!Earned, MessageOf
      <4> QED
        BY <2>5, <3>2, <4>1, <4>3 DEF Release, Settlement!Delete
    <3> QED
      BY <2>5, <3>1, <3>2 DEF Release
  <2>6. ASSUME NEW m \in Messages, Publish(m) PROVE UNCHANGED <<grant, work>>
    BY <2>6 DEF Publish
  <2>7. ASSUME NEW c \in Copies, MessageExpires(c) \/ AckArrives(c)
        PROVE  UNCHANGED <<grant, work>>
    BY <2>7 DEF MessageExpires, AckArrives
  <2>8. CASE ConnectionLost \/ Crash
    BY <2>8 DEF ConnectionLost, Crash
  <2>9. ASSUME NEW t \in Tasks,
               HandlerFails(t) \/ AckRaises(t) \/ \E c \in Copies : Deliver(t, c)
        PROVE  UNCHANGED <<grant, work>>
    BY <2>9 DEF HandlerFails, AckRaises, Deliver
  <2> QED
    BY <2>1, <2>2, <2>3, <2>4, <2>5, <2>6, <2>7, <2>8, <2>9 DEF Next, vars, Settlement!Next
<1> QED
  BY <1>1, <1>2, IInvCorrect, PTL DEF Spec, BusinessOpAckDel, Settlement!Spec

-----------------------------------------------------------------------------
(* A copy that may come back keeps its grant. *)

\* The acknowledgement of the copy was written to the connection.
AckSent(c) == place[c] \in {"acking", "acked"} \/ c \in unheard

\* A grant is released, and deleted, only for a copy whose acknowledgement
\* was written.
KeepInv ==
    /\ \A t \in Tasks : stage[t] = "releasing" => AckSent(job[t])
    /\ \A m \in Messages : grant[m] = "deleted" =>
          \E c \in Copies : c[1] = m /\ AckSent(c) /\ work[c] = "settledDone"

\* Neither a sent acknowledgement nor a settled operation is undone.
LEMMA AckKept ==
    ASSUME IInv, [Next]_vars, NEW c \in Copies
    PROVE  /\ AckSent(c) => AckSent(c)'
           /\ work[c] = "settledDone" => work'[c] = "settledDone"
<1> SUFFICES ASSUME TypeOK, JobInv, SendInv
             PROVE  /\ AckSent(c) => AckSent(c)'
                    /\ work[c] = "settledDone" => work'[c] = "settledDone"
  BY DEF IInv
<1> USE DEF TypeOK, AckSent
<1>1. ASSUME NEW m \in Messages, CreateGrant(m) \/ GrantExpires(m)
      PROVE  UNCHANGED <<place, unheard, work>>
  BY <1>1 DEF CreateGrant, GrantExpires, broker
<1>2. ASSUME NEW m \in Messages, Publish(m)
      PROVE  (AckSent(c) => AckSent(c)') /\ UNCHANGED work
  BY <1>2 DEF Publish, SendInv
<1>3. ASSUME NEW d \in Copies, MessageExpires(d) \/ AckArrives(d)
      PROVE  (AckSent(c) => AckSent(c)') /\ UNCHANGED work
  BY <1>3 DEF MessageExpires, AckArrives
<1>4. CASE ConnectionLost \/ Crash
  <2>1. TakeBack /\ UNCHANGED work
    BY <1>4 DEF ConnectionLost, Crash
  <2> QED
    BY <2>1 DEF TakeBack, Unsettled
<1>5. ASSUME NEW t \in Tasks, NEW d \in Copies, Deliver(t, d)
      PROVE  (AckSent(c) => AckSent(c)') /\ UNCHANGED work
  BY <1>5 DEF Deliver
<1>6. ASSUME NEW t \in Tasks, Ack(t)
      PROVE  /\ AckSent(c) => AckSent(c)'
             /\ work[c] = "settledDone" => work'[c] = "settledDone"
  <2>1. job[t] \in Copies /\ UNCHANGED unheard
    BY <1>6 DEF Ack, JobInv
  <2>2. place' = [place EXCEPT ![job[t]] = "acking"]
    BY <1>6 DEF Ack
  <2>3. AckSent(c) => AckSent(c)'
    BY <2>1, <2>2
  <2>4. work[c] = "settledDone" => work'[c] = "settledDone"
    BY <1>6, <2>1 DEF Ack
  <2> QED
    BY <2>3, <2>4
<1>7. ASSUME NEW t \in Tasks, HandlerSucceeds(t)
      PROVE  /\ UNCHANGED <<place, unheard>>
             /\ work[c] = "settledDone" => work'[c] = "settledDone"
  BY <1>7 DEF HandlerSucceeds, broker
<1>8. ASSUME NEW t \in Tasks, HandlerFails(t) \/ AckRaises(t) \/ Release(t)
      PROVE  UNCHANGED <<place, unheard, work>>
  BY <1>8 DEF HandlerFails, AckRaises, Release, broker
<1> QED
  BY <1>1, <1>2, <1>3, <1>4, <1>5, <1>6, <1>7, <1>8 DEF Next, vars

LEMMA KeepStep == ASSUME IInv, KeepInv, [Next]_vars PROVE KeepInv'
<1> USE DEF IInv
<1>1. \A c \in Copies : /\ AckSent(c) => AckSent(c)'
                        /\ work[c] = "settledDone" => work'[c] = "settledDone"
  BY AckKept
<1>2. \A t \in Tasks : stage[t] # "idle" => job[t] \in Copies
  BY DEF TypeOK, JobInv
<1>3. ASSUME \A t \in Tasks : stage'[t] = "releasing" => stage[t] = "releasing" /\ job'[t] = job[t],
             \A m \in Messages : grant'[m] = "deleted" => grant[m] = "deleted"
      PROVE  KeepInv'
  <2>1. ASSUME NEW t \in Tasks, stage'[t] = "releasing" PROVE AckSent(job[t])'
    <3>1. /\ stage[t] = "releasing" /\ job'[t] = job[t] /\ job[t] \in Copies
          /\ AckSent(job[t])
      BY <1>2, <1>3, <2>1 DEF KeepInv
    <3> QED
      BY <1>1, <3>1 DEF AckSent
  <2>2. ASSUME NEW m \in Messages, grant'[m] = "deleted"
        PROVE  \E c \in Copies : c[1] = m /\ AckSent(c)' /\ work'[c] = "settledDone"
    BY <1>1, <1>3, <2>2 DEF KeepInv
  <2> QED
    BY <2>1, <2>2 DEF KeepInv
<1>4. ASSUME NEW m \in Messages, CreateGrant(m) \/ GrantExpires(m) \/ Publish(m) PROVE KeepInv'
  BY <1>3, <1>4 DEF CreateGrant, GrantExpires, Publish, TypeOK
<1>5. ASSUME NEW c \in Copies, MessageExpires(c) \/ AckArrives(c) PROVE KeepInv'
  BY <1>3, <1>5 DEF MessageExpires, AckArrives
<1>6. CASE ConnectionLost \/ Crash
  BY <1>3, <1>6 DEF ConnectionLost, Crash
<1>7. ASSUME NEW t \in Tasks,
             \/ HandlerSucceeds(t) \/ HandlerFails(t) \/ AckRaises(t)
             \/ \E c \in Copies : Deliver(t, c)
      PROVE  KeepInv'
  BY <1>3, <1>7 DEF HandlerSucceeds, HandlerFails, AckRaises, AckEscapes, GoOn, TaskEnds, Deliver, TypeOK
<1>8. ASSUME NEW t \in Tasks, Ack(t) PROVE KeepInv'
  <2>1. job[t] \in Copies /\ UNCHANGED grant
    BY <1>2, <1>8 DEF Ack
  <2>2. place'[job[t]] = "acking"
    BY <1>8, <2>1 DEF Ack, TypeOK
  <2>3. \A u \in Tasks : \/ u # t /\ stage'[u] = stage[u] /\ job'[u] = job[u]
                         \/ u = t /\ (stage'[u] = "idle" \/ job'[u] = job[t])
    BY <1>8 DEF Ack, GoOn, TaskEnds, TypeOK
  <2>4. ASSUME NEW u \in Tasks, stage'[u] = "releasing" PROVE AckSent(job[u])'
    <3>1. CASE u = t
      BY <2>2, <2>3, <2>4, <3>1 DEF AckSent
    <3>2. CASE u # t
      <4>1. stage[u] = "releasing" /\ job'[u] = job[u] /\ job[u] \in Copies /\ AckSent(job[u])
        BY <1>2, <2>3, <2>4, <3>2 DEF KeepInv
      <4> QED
        BY <1>1, <4>1 DEF AckSent
    <3> QED
      BY <3>1, <3>2
  <2> QED
    BY <1>1, <2>1, <2>4 DEF KeepInv
<1>9. ASSUME NEW t \in Tasks, Release(t) PROVE KeepInv'
  <2>1. \A u \in Tasks : stage'[u] = "releasing" => stage[u] = "releasing" /\ job'[u] = job[u]
    BY <1>9 DEF Release, TaskEnds, TypeOK
  <2>2. job[t] \in Copies /\ AckSent(job[t]) /\ work[job[t]] = "settledDone"
    BY <1>2, <1>9 DEF Release, KeepInv, WorkInv
  <2>3. \A m \in Messages : m # job[t][1] /\ grant'[m] = "deleted" => grant[m] = "deleted"
    BY <1>9 DEF Release, TypeOK
  <2>4. ASSUME NEW u \in Tasks, stage'[u] = "releasing" PROVE AckSent(job[u])'
    <3>1. stage[u] = "releasing" /\ job'[u] = job[u] /\ job[u] \in Copies /\ AckSent(job[u])
      BY <1>2, <2>1, <2>4 DEF KeepInv
    <3> QED
      BY <1>1, <3>1 DEF AckSent
  <2>5. ASSUME NEW m \in Messages, grant'[m] = "deleted"
        PROVE  \E c \in Copies : c[1] = m /\ AckSent(c)' /\ work'[c] = "settledDone"
    <3>1. CASE m = job[t][1]
      BY <1>1, <2>2, <3>1
    <3>2. CASE m # job[t][1]
      BY <1>1, <2>3, <2>5, <3>2 DEF KeepInv
    <3> QED
      BY <3>1, <3>2
  <2> QED
    BY <2>4, <2>5 DEF KeepInv
<1>10. CASE UNCHANGED vars
  BY <1>3, <1>10 DEF vars
<1> QED
  BY <1>4, <1>5, <1>6, <1>7, <1>8, <1>9, <1>10 DEF Next

\* A copy that waits, or is being handled, still has its grant, unless its own
\* acknowledgement was lost with a connection or the copy in another queue
\* was settled: its next run can mint a token unless the TTL ended.
THEOREM UnsettledKeeps == Spec => []UnsettledKeepsGrant
<1>1. Init => KeepInv
  BY DEF Init, KeepInv
<1>2. IInv /\ KeepInv => UnsettledKeepsGrant
  BY CopyType DEF KeepInv, AckSent, UnsettledKeepsGrant
<1>3. IInv /\ KeepInv /\ [Next]_vars => KeepInv'
  BY KeepStep
<1> QED
  BY <1>1, <1>2, <1>3, IInvCorrect, PTL DEF Spec
=============================================================================
