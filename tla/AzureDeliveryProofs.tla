------------------------- MODULE AzureDeliveryProofs -------------------------
(* What AzureDelivery guarantees for every set of messages and workers and   *)
(* every delivery limit: type correctness, business op -> ACK -> DEL as the  *)
(* implementation of GrantSettlement, and that a message which may come back *)
(* keeps its grant unless the queue was given it twice.                      *)
EXTENDS AzureDelivery, TLAPS

\* A copy names its message and the attempt that made it.
LEMMA CopyType ==
    /\ \A c \in Copies : c[1] \in Messages /\ c[2] \in {1, 2} /\ c = <<c[1], c[2]>>
    /\ \A m \in Messages, attempt \in {1, 2} :
          /\ <<m, attempt>> \in Copies
          /\ <<m, attempt>>[1] = m /\ <<m, attempt>>[2] = attempt
BY DEF Copies

\* A busy worker has a copy to work on, and a copy that waits has a delivery
\* left.
JobInv ==
    /\ \A w \in Workers : stage[w] # "idle" => job[w] \in Copies
    /\ \A c \in Copies : place[c] \in {"absent", "queued"} => deliveries[c] < MaxDeliveries

\* Before its attempt a copy does not exist, and before the send no grant.
SendInv ==
    /\ \A m \in Messages : sendPc[m] = "idle" => grant[m] = "none"
    /\ \A c \in Copies :
          /\ sendPc[c[1]] \in {"idle", "first"} => place[c] = "absent"
          /\ sendPc[c[1]] = "retry" /\ c[2] = 2 => place[c] = "absent"

BaseInv == TypeOK /\ JobInv /\ SendInv

\* Giving a copy back, or leaving the queue alone, keeps the queue typed.
LEMMA QueueType ==
    ASSUME TypeOK, JobInv, NEW c \in Copies,
           GiveBack(c) \/ UNCHANGED queue
    PROVE  /\ place' \in [Copies -> {"absent", "queued", "locked", "completed", "dead"}]
           /\ deliveries' \in [Copies -> 0 .. MaxDeliveries]
           /\ lockedBy' \in [Copies -> Workers \cup {None}]
           /\ \A d \in Copies : place'[d] = "locked" <=> lockedBy'[d] # None
           /\ \A d \in Copies : place'[d] \in {"absent", "queued"} => deliveries'[d] < MaxDeliveries
BY AzureAssumption DEF TypeOK, JobInv, GiveBack, queue

LEMMA TypeStep == BaseInv /\ [Next]_vars => TypeOK' /\ JobInv'
<1> SUFFICES ASSUME TypeOK, JobInv, SendInv, [Next]_vars PROVE TypeOK' /\ JobInv'
  BY DEF BaseInv
<1> USE AzureAssumption, CopyType
<1>1. ASSUME NEW m \in Messages, CreateGrant(m) PROVE TypeOK' /\ JobInv'
  BY <1>1 DEF CreateGrant, queue, loop, TypeOK, JobInv
<1>2. ASSUME NEW m \in Messages, GrantExpires(m) PROVE TypeOK' /\ JobInv'
  BY <1>2 DEF GrantExpires, queue, loop, TypeOK, JobInv
<1>3. ASSUME NEW m \in Messages, NEW attempt \in {1, 2}, Transmit(m, attempt)
      PROVE  TypeOK' /\ JobInv'
  <2> DEFINE new == <<m, attempt>>
  <2>1. new \in Copies
    BY DEF Copies
  <2>2. place' = place \/ place' = [place EXCEPT ![new] = "queued"]
    BY <1>3 DEF Transmit, Arrives
  <2>3. \E pc \in {"sent", "retry", "raised"} : sendPc' = [sendPc EXCEPT ![m] = pc]
    BY <1>3 DEF Transmit
  <2>4. place[new] = "absent"
    BY <1>3, CopyType DEF Transmit, SendInv
  <2>5. UNCHANGED <<grant, deliveries, lockedBy, stage, job, security, ambient, work>>
    BY <1>3 DEF Transmit, loop
  <2> HIDE DEF new
  <2>6. /\ place' \in [Copies -> {"absent", "queued", "locked", "completed", "dead"}]
        /\ \A c \in Copies : place'[c] = "locked" <=> place[c] = "locked"
        /\ \A c \in Copies : place'[c] \in {"absent", "queued"} => place[c] \in {"absent", "queued"}
    BY <2>1, <2>2, <2>4 DEF TypeOK
  <2>7. sendPc' \in [Messages -> {"idle", "first", "retry", "sent", "raised"}]
    BY <2>3 DEF TypeOK
  <2> QED
    BY <2>5, <2>6, <2>7 DEF TypeOK, JobInv
<1>4. ASSUME NEW c \in Copies, LockExpires(c) PROVE TypeOK' /\ JobInv'
  BY <1>4, QueueType DEF LockExpires, loop, TypeOK, JobInv
<1>5. ASSUME NEW c \in Copies, NEW w \in Workers, Receive(w, c) \/ ReceiveRaises(w, c)
      PROVE  TypeOK' /\ JobInv'
  <2>0. Take(w, c)
    BY <1>5 DEF Receive, ReceiveRaises
  <2>1. Restored(w, c[1]) \in Messages \cup {None}
    BY DEF Restored, TypeOK
  <2>2. /\ place' \in [Copies -> {"absent", "queued", "locked", "completed", "dead"}]
        /\ lockedBy' \in [Copies -> Workers \cup {None}]
        /\ \A d \in Copies : place'[d] = "locked" <=> lockedBy'[d] # None
    BY <2>0 DEF Take, TypeOK
  <2>3. deliveries' \in [Copies -> 0 .. MaxDeliveries]
    <3>1. deliveries[c] + 1 \in 0 .. MaxDeliveries
      BY <2>0 DEF Take, TypeOK, JobInv
    <3> QED
      BY <2>0, <3>1 DEF Take, TypeOK
  <2>4. /\ job' \in [Workers -> Copies \cup {None}]
        /\ security' \in [Workers -> Messages \cup {None}]
    BY <2>0, <2>1 DEF Take, TypeOK
  <2>5. \E s \in {"handling", "escaped"} : stage' = [stage EXCEPT ![w] = s]
    BY <1>5 DEF Receive, ReceiveRaises
  <2>6. stage' \in [Workers -> {"idle", "handling", "settling", "releasing", "failed", "escaped"}]
    BY <2>5 DEF TypeOK
  <2>7. ambient' \in [Workers -> Messages \cup {None}]
    BY <1>5 DEF Receive, ReceiveRaises, TypeOK
  <2>8. \A v \in Workers : stage'[v] # "idle" => job'[v] \in Copies
    BY <2>0, <2>5 DEF Take, TypeOK, JobInv
  <2>9. \A d \in Copies : place'[d] \in {"absent", "queued"} => deliveries'[d] < MaxDeliveries
    BY <2>0 DEF Take, TypeOK, JobInv
  <2> QED
    BY <2>0, <2>2, <2>3, <2>4, <2>6, <2>7, <2>8, <2>9 DEF Take, TypeOK, JobInv
<1>6. ASSUME NEW w \in Workers, HandlerSucceeds(w) \/ HandlerFails(w)
      PROVE  TypeOK' /\ JobInv'
  <2>1. /\ UNCHANGED <<sendPc, grant, place, deliveries, lockedBy, job, security, ambient>>
        /\ stage[w] = "handling"
        /\ \E s \in {"settling", "failed"} : stage' = [stage EXCEPT ![w] = s]
    BY <1>6 DEF HandlerSucceeds, HandlerFails, queue
  <2>2. work' \in [Copies -> {"pending", "done", "settledDone", "settledFailed"}]
    <3>1. CASE HandlerFails(w)
      BY <3>1 DEF HandlerFails, TypeOK
    <3>2. CASE HandlerSucceeds(w)
      <4>1. work[job[w]] = "pending" \/ work[job[w]] # "pending"
        OBVIOUS
      <4>2. work' = [work EXCEPT ![job[w]] = "done"] \/ work' = [work EXCEPT ![job[w]] = work[job[w]]]
        BY <3>2, <4>1 DEF HandlerSucceeds
      <4> QED
        BY <4>2 DEF TypeOK
    <3> QED
      BY <1>6, <3>1, <3>2
  <2>3. /\ stage' \in [Workers -> {"idle", "handling", "settling", "releasing", "failed", "escaped"}]
        /\ \A v \in Workers : stage'[v] # "idle" => stage[v] # "idle"
    <3>1. PICK s \in {"settling", "failed"} : stage' = [stage EXCEPT ![w] = s]
      BY <2>1
    <3>2. stage' \in [Workers -> {"idle", "handling", "settling", "releasing", "failed", "escaped"}]
      BY <3>1 DEF TypeOK
    <3>3. \A v \in Workers : v # w => stage'[v] = stage[v]
      BY <3>1 DEF TypeOK
    <3> QED
      BY <2>1, <3>2, <3>3
  <2> QED
    BY <2>1, <2>2, <2>3 DEF TypeOK, JobInv
<1>7. ASSUME NEW w \in Workers, Complete(w) PROVE TypeOK' /\ JobInv'
  <2>1. /\ UNCHANGED <<sendPc, grant, deliveries, job, security, ambient>>
        /\ stage[w] = "settling"
        /\ stage' = [stage EXCEPT ![w] = "releasing"] \/ stage' = [stage EXCEPT ![w] = "failed"]
    BY <1>7 DEF Complete, AfterComplete
  <2>2. Completed(w) \/ UNCHANGED <<place, lockedBy, work>>
    BY <1>7 DEF Complete
  <2>3. /\ stage' \in [Workers -> {"idle", "handling", "settling", "releasing", "failed", "escaped"}]
        /\ \A v \in Workers : stage'[v] # "idle" => stage[v] # "idle"
    BY <2>1 DEF TypeOK
  <2>4. job[w] \in Copies
    BY <2>1 DEF JobInv
  <2>5. /\ place' \in [Copies -> {"absent", "queued", "locked", "completed", "dead"}]
        /\ lockedBy' \in [Copies -> Workers \cup {None}]
        /\ \A d \in Copies : place'[d] = "locked" <=> lockedBy'[d] # None
        /\ \A d \in Copies : place'[d] \in {"absent", "queued"} => place[d] \in {"absent", "queued"}
    <3>1. CASE UNCHANGED <<place, lockedBy, work>>
      BY <3>1 DEF TypeOK
    <3>2. CASE Completed(w)
      <4> DEFINE c == job[w]
      <4>1. /\ place' = [place EXCEPT ![c] = "completed"]
            /\ lockedBy' = [lockedBy EXCEPT ![c] = None]
            /\ c \in Copies
        BY <2>4, <3>2 DEF Completed
      <4> HIDE DEF c
      <4> QED
        BY <4>1 DEF TypeOK
    <3> QED
      BY <2>2, <3>1, <3>2
  <2>6. work' \in [Copies -> {"pending", "done", "settledDone", "settledFailed"}]
    BY <2>2, <2>4 DEF Completed, TypeOK
  <2>7. TypeOK'
    BY <2>1, <2>3, <2>5, <2>6 DEF TypeOK
  <2> QED
    BY <2>1, <2>3, <2>5, <2>7 DEF JobInv
<1>8. ASSUME NEW w \in Workers, Release(w) PROVE TypeOK' /\ JobInv'
  BY <1>8 DEF Release, ClearContext, NextMessage, queue, TypeOK, JobInv
<1>9. ASSUME NEW w \in Workers, Abandon(w) PROVE TypeOK' /\ JobInv'
  BY <1>9, QueueType DEF Abandon, AbandonMessage, ClearContext, TypeOK, JobInv
<1>10. ASSUME NEW w \in Workers, AbandonAgain(w) PROVE TypeOK' /\ JobInv'
  BY <1>10, QueueType DEF AbandonAgain, AbandonMessage, NextMessage, TypeOK, JobInv
<1>11. ASSUME NEW w \in Workers, Crash(w) PROVE TypeOK' /\ JobInv'
  BY <1>11 DEF Crash, ClearContext, NextMessage, queue, TypeOK, JobInv
<1>12. CASE UNCHANGED vars
  BY <1>12 DEF vars, TypeOK, JobInv
<1> QED
  BY <1>1, <1>2, <1>3, <1>4, <1>5, <1>6, <1>7, <1>8, <1>9, <1>10, <1>11, <1>12 DEF Next

\* Only a transmission makes a copy exist.
LEMMA AbsentKept ==
    ASSUME BaseInv, [Next]_vars,
           ~\E m \in Messages, attempt \in {1, 2} : Transmit(m, attempt)
    PROVE  \A c \in Copies : place'[c] = "absent" <=> place[c] = "absent"
<1>1. \A w \in Workers : stage[w] # "idle" /\ LockHeld(w) => job[w] \in Copies /\ place[job[w]] = "locked"
  BY AzureAssumption DEF BaseInv, TypeOK, JobInv, LockHeld
<1>2. ASSUME NEW c \in Copies, place[c] = "locked", GiveBack(c) \/ UNCHANGED queue
      PROVE  \A d \in Copies : place'[d] = "absent" <=> place[d] = "absent"
  BY <1>2 DEF GiveBack, queue, BaseInv, TypeOK
<1>3. ASSUME NEW m \in Messages, CreateGrant(m) \/ GrantExpires(m) PROVE UNCHANGED place
  BY <1>3 DEF CreateGrant, GrantExpires, queue
<1>4. ASSUME NEW c \in Copies, LockExpires(c)
      PROVE  \A d \in Copies : place'[d] = "absent" <=> place[d] = "absent"
  BY <1>2, <1>4 DEF LockExpires
<1>5. ASSUME NEW w \in Workers, NEW c \in Copies, Receive(w, c) \/ ReceiveRaises(w, c)
      PROVE  \A d \in Copies : place'[d] = "absent" <=> place[d] = "absent"
  BY <1>5 DEF Take, Receive, ReceiveRaises, BaseInv, TypeOK
<1>6. ASSUME NEW w \in Workers, Complete(w)
      PROVE  \A d \in Copies : place'[d] = "absent" <=> place[d] = "absent"
  BY <1>1, <1>6 DEF Complete, Completed, BaseInv, TypeOK
<1>7. ASSUME NEW w \in Workers, Abandon(w) \/ AbandonAgain(w)
      PROVE  \A d \in Copies : place'[d] = "absent" <=> place[d] = "absent"
  <2>1. CASE UNCHANGED queue
    BY <2>1 DEF queue
  <2>2. CASE LockHeld(w) /\ GiveBack(job[w])
    BY <1>1, <1>2, <1>7, <2>2 DEF Abandon, AbandonAgain
  <2> QED
    BY <1>7, <2>1, <2>2 DEF Abandon, AbandonAgain, AbandonMessage
<1>8. ASSUME NEW w \in Workers,
             HandlerSucceeds(w) \/ HandlerFails(w) \/ Release(w) \/ Crash(w)
      PROVE  UNCHANGED place
  BY <1>8 DEF HandlerSucceeds, HandlerFails, Release, Crash, queue
<1>9. CASE UNCHANGED vars
  BY <1>9 DEF vars
<1> QED
  BY <1>3, <1>4, <1>5, <1>6, <1>7, <1>8, <1>9 DEF Next

LEMMA SendStep == BaseInv /\ [Next]_vars => SendInv'
<1> SUFFICES ASSUME BaseInv, [Next]_vars PROVE SendInv'
  OBVIOUS
<1>1. ASSUME NEW m \in Messages, NEW attempt \in {1, 2}, Transmit(m, attempt) PROVE SendInv'
  <2> DEFINE new == <<m, attempt>>
  <2>1. /\ \A c \in Copies : c # new => place'[c] = place[c]
        /\ grant' = grant
    BY <1>1 DEF Transmit, Arrives, BaseInv, TypeOK
  <2>2. /\ sendPc'[m] \notin {"idle", "first"}
        /\ sendPc'[m] = "retry" => attempt = 1 /\ sendPc[m] = "first"
        /\ \A n \in Messages : n # m => sendPc'[n] = sendPc[n]
    BY <1>1 DEF Transmit, BaseInv, TypeOK
  <2>3. ASSUME NEW c \in Copies
        PROVE  /\ sendPc'[c[1]] \in {"idle", "first"} => place'[c] = "absent"
               /\ sendPc'[c[1]] = "retry" /\ c[2] = 2 => place'[c] = "absent"
    <3>1. c[1] \in Messages /\ new[1] = m /\ new[2] = attempt
      BY CopyType
    <3>2. CASE c[1] # m
      BY <2>1, <2>2, <3>1, <3>2 DEF BaseInv, SendInv
    <3>3. CASE c[1] = m
      BY <2>1, <2>2, <3>1, <3>3 DEF BaseInv, SendInv
    <3> QED
      BY <3>2, <3>3
  <2> QED
    BY <2>1, <2>2, <2>3 DEF BaseInv, SendInv
<1>2. ASSUME \A m \in Messages :
               \/ sendPc'[m] = sendPc[m] /\ (sendPc[m] = "idle" => grant'[m] = grant[m])
               \/ sendPc'[m] = "first" /\ sendPc[m] = "idle",
             ~\E m \in Messages, attempt \in {1, 2} : Transmit(m, attempt)
      PROVE  SendInv'
  <2>1. \A c \in Copies : place'[c] = "absent" <=> place[c] = "absent"
    BY <1>2, AbsentKept
  <2> QED
    BY <1>2, <2>1, CopyType DEF BaseInv, SendInv
<1>3. ASSUME NEW m \in Messages, CreateGrant(m)
      PROVE  \A n \in Messages :
               \/ sendPc'[n] = sendPc[n] /\ (sendPc[n] = "idle" => grant'[n] = grant[n])
               \/ sendPc'[n] = "first" /\ sendPc[n] = "idle"
  BY <1>3 DEF CreateGrant, BaseInv, TypeOK
<1>4. ASSUME NEW m \in Messages, GrantExpires(m)
      PROVE  sendPc' = sendPc /\ \A n \in Messages : sendPc[n] = "idle" => grant'[n] = grant[n]
  <2>1. sendPc[m] # "idle" /\ grant' = [grant EXCEPT ![m] = "expired"] /\ sendPc' = sendPc
    BY <1>4 DEF GrantExpires, BaseInv, SendInv
  <2> QED
    BY <2>1 DEF BaseInv, TypeOK
<1>5. ASSUME NEW w \in Workers, Release(w)
      PROVE  sendPc' = sendPc /\ \A n \in Messages : sendPc[n] = "idle" => grant'[n] = grant[n]
  <2>1. CASE UNCHANGED grant
    BY <1>5, <2>1 DEF Release
  <2>2. CASE /\ ambient[w] # None /\ grant[ambient[w]] = "live"
             /\ grant' = [grant EXCEPT ![ambient[w]] = "deleted"]
    <3>1. ambient[w] \in Messages
      BY <2>2 DEF BaseInv, TypeOK
    <3>2. sendPc[ambient[w]] # "idle"
      BY <2>2, <3>1 DEF BaseInv, SendInv
    <3> QED
      BY <1>5, <2>2, <3>1, <3>2 DEF Release, BaseInv, TypeOK
  <2> QED
    BY <1>5, <2>1, <2>2 DEF Release
<1>6. ASSUME NEW c \in Copies, LockExpires(c) \/ \E w \in Workers : Receive(w, c) \/ ReceiveRaises(w, c)
      PROVE  UNCHANGED <<sendPc, grant>>
  BY <1>6 DEF LockExpires, Take, Receive, ReceiveRaises
<1>7. ASSUME NEW w \in Workers,
             \/ HandlerSucceeds(w) \/ HandlerFails(w) \/ Complete(w)
             \/ Abandon(w) \/ AbandonAgain(w) \/ Crash(w)
      PROVE  UNCHANGED <<sendPc, grant>>
  BY <1>7 DEF HandlerSucceeds, HandlerFails, Complete, Abandon, AbandonAgain, Crash
<1>8. CASE UNCHANGED vars
  BY <1>8 DEF vars, BaseInv, SendInv
<1>9. CASE \E m \in Messages, attempt \in {1, 2} : Transmit(m, attempt)
  BY <1>1, <1>9
<1>10. CASE ~\E m \in Messages, attempt \in {1, 2} : Transmit(m, attempt)
  BY <1>2, <1>3, <1>4, <1>5, <1>6, <1>7, <1>8, <1>10 DEF Next
<1> QED
  BY <1>9, <1>10

LEMMA BaseInit == Init => BaseInv
BY AzureAssumption, CopyType DEF Init, BaseInv, TypeOK, JobInv, SendInv

LEMMA BaseCorrect == Spec => []BaseInv
<1>1. BaseInv /\ [Next]_vars => BaseInv'
  BY TypeStep, SendStep DEF BaseInv
<1> QED
  BY <1>1, BaseInit, PTL DEF Spec

\* Every reachable state is well typed: the queue never counts a delivery
\* beyond its limit, and a copy is locked exactly while it has a holder.
THEOREM TypeCorrect == Spec => []TypeOK
<1>1. BaseInv => TypeOK
  BY DEF BaseInv
<1> QED
  BY <1>1, BaseCorrect, PTL

-----------------------------------------------------------------------------
(* Business op -> ACK -> DEL. *)

\* A worker that completes its copy is past the copy's business op, and one
\* that deletes a grant has seen the copy settled.
WorkInv ==
    /\ \A c \in Copies :
          /\ place[c] = "completed" => work[c] = "settledDone"
          /\ place[c] # "completed" => work[c] \in {"pending", "done"}
    /\ \A w \in Workers :
          /\ stage[w] = "settling" => work[job[w]] \in {"done", "settledDone"}
          /\ stage[w] = "releasing" => work[job[w]] = "settledDone"

\* The context of a task is that of the message at work, or none, or what a
\* leaking message left behind and nothing cleared or overwrote since.
ContextInv ==
    \A w \in Workers :
        /\ stage[w] \in {"idle", "escaped"} =>
              security[w] \in Leaking \cup {None} /\ ambient[w] = None
        /\ stage[w] \notin {"idle", "escaped"} =>
              /\ ambient[w] \in {job[w][1], None}
              /\ \/ security[w] \in {job[w][1], None}
                 \/ security[w] \in Leaking /\ job[w][1] \in Unsecured

\* Only complete_message makes a copy completed, and nothing takes it back.
LEMMA CompletedKept ==
    ASSUME BaseInv, [Next]_vars, ~\E w \in Workers : Complete(w)
    PROVE  \A c \in Copies : place'[c] = "completed" <=> place[c] = "completed"
<1>1. \A w \in Workers : stage[w] # "idle" /\ LockHeld(w) => job[w] \in Copies /\ place[job[w]] = "locked"
  BY AzureAssumption DEF BaseInv, TypeOK, JobInv, LockHeld
<1>2. ASSUME NEW c \in Copies, place[c] = "locked", GiveBack(c) \/ UNCHANGED queue
      PROVE  \A d \in Copies : place'[d] = "completed" <=> place[d] = "completed"
  BY <1>2 DEF GiveBack, queue, BaseInv, TypeOK
<1>3. ASSUME NEW m \in Messages, CreateGrant(m) \/ GrantExpires(m) PROVE UNCHANGED place
  BY <1>3 DEF CreateGrant, GrantExpires, queue
<1>4. ASSUME NEW m \in Messages, NEW attempt \in {1, 2}, Transmit(m, attempt)
      PROVE  \A d \in Copies : place'[d] = "completed" <=> place[d] = "completed"
  <2> DEFINE new == <<m, attempt>>
  <2>1. place' = place \/ place' = [place EXCEPT ![new] = "queued"]
    BY <1>4 DEF Transmit, Arrives
  <2>2. place[new] = "absent"
    BY <1>4, CopyType DEF Transmit, BaseInv, SendInv
  <2> HIDE DEF new
  <2> QED
    BY <2>1, <2>2 DEF BaseInv, TypeOK
<1>5. ASSUME NEW c \in Copies, LockExpires(c)
      PROVE  \A d \in Copies : place'[d] = "completed" <=> place[d] = "completed"
  BY <1>2, <1>5 DEF LockExpires
<1>6. ASSUME NEW w \in Workers, NEW c \in Copies, Receive(w, c) \/ ReceiveRaises(w, c)
      PROVE  \A d \in Copies : place'[d] = "completed" <=> place[d] = "completed"
  BY <1>6 DEF Take, Receive, ReceiveRaises, BaseInv, TypeOK
<1>7. ASSUME NEW w \in Workers, Abandon(w) \/ AbandonAgain(w)
      PROVE  \A d \in Copies : place'[d] = "completed" <=> place[d] = "completed"
  <2>1. CASE UNCHANGED queue
    BY <2>1 DEF queue
  <2>2. CASE LockHeld(w) /\ GiveBack(job[w])
    BY <1>1, <1>2, <1>7, <2>2 DEF Abandon, AbandonAgain
  <2> QED
    BY <1>7, <2>1, <2>2 DEF Abandon, AbandonAgain, AbandonMessage
<1>8. ASSUME NEW w \in Workers,
             HandlerSucceeds(w) \/ HandlerFails(w) \/ Release(w) \/ Crash(w)
      PROVE  UNCHANGED place
  BY <1>8 DEF HandlerSucceeds, HandlerFails, Release, Crash, queue
<1>9. CASE UNCHANGED vars
  BY <1>9 DEF vars
<1> QED
  BY <1>3, <1>4, <1>5, <1>6, <1>7, <1>8, <1>9 DEF Next

LEMMA ContextStep == BaseInv /\ ContextInv /\ [Next]_vars => ContextInv'
<1> SUFFICES ASSUME BaseInv, ContextInv, [Next]_vars PROVE ContextInv'
  OBVIOUS
<1> USE DEF BaseInv, TypeOK, ContextInv
<1>1. ASSUME NEW w \in Workers, HandlerSucceeds(w) \/ HandlerFails(w) \/ Complete(w)
      PROVE  ContextInv'
  <2>1. /\ UNCHANGED <<job, security, ambient>>
        /\ stage[w] \notin {"idle", "escaped"}
        /\ stage'[w] \notin {"idle", "escaped"}
        /\ \A v \in Workers : v # w => stage'[v] = stage[v]
    BY <1>1 DEF HandlerSucceeds, HandlerFails, Complete, AfterComplete
  <2> QED
    BY <2>1
<1>2. ASSUME NEW w \in Workers, NEW c \in Copies, Receive(w, c) \/ ReceiveRaises(w, c)
      PROVE  ContextInv'
  <2>1. /\ stage[w] = "idle" /\ job'[w] = c /\ security'[w] = Restored(w, c[1])
        /\ \A v \in Workers : v # w => /\ stage'[v] = stage[v] /\ job'[v] = job[v]
                                       /\ security'[v] = security[v] /\ ambient'[v] = ambient[v]
    BY <1>2 DEF Take, Receive, ReceiveRaises
  <2>2. security[w] \in Leaking \cup {None} /\ ambient[w] = None
    BY <2>1
  <2>3. CASE Receive(w, c)
    <3>1. stage'[w] = "handling" /\ ambient'[w] \in {c[1], None}
      BY <2>3 DEF Take, Receive
    <3>2. security'[w] \in {c[1], None} \/ (security'[w] \in Leaking /\ c[1] \in Unsecured)
      BY <2>1, <2>2 DEF Restored
    <3> QED
      BY <2>1, <3>1, <3>2
  <2>4. CASE ReceiveRaises(w, c)
    <3>1. stage'[w] = "escaped" /\ ambient'[w] = None /\ c[1] \in Mistyped
      BY <2>2, <2>4 DEF Take, ReceiveRaises
    <3>2. security'[w] \in Leaking \cup {None}
      BY <2>1, <2>2, <3>1 DEF Restored, Leaking
    <3> QED
      BY <2>1, <3>1, <3>2
  <2> QED
    BY <1>2, <2>3, <2>4
<1>3. ASSUME NEW w \in Workers, Release(w) \/ Abandon(w) \/ AbandonAgain(w) \/ Crash(w)
      PROVE  ContextInv'
  <2>1. /\ stage'[w] \in {"idle", "escaped"}
        /\ \A v \in Workers : v # w => /\ stage'[v] = stage[v] /\ job'[v] = job[v]
                                       /\ security'[v] = security[v] /\ ambient'[v] = ambient[v]
    BY <1>3 DEF Release, Abandon, AbandonAgain, Crash, ClearContext, NextMessage
  <2>2. security'[w] \in Leaking \cup {None} /\ ambient'[w] = None
    BY <1>3 DEF Release, Abandon, AbandonAgain, Crash, ClearContext
  <2> QED
    BY <2>1, <2>2
<1>4. ASSUME NEW m \in Messages,
             CreateGrant(m) \/ GrantExpires(m) \/ \E attempt \in {1, 2} : Transmit(m, attempt)
      PROVE  UNCHANGED loop
  BY <1>4 DEF CreateGrant, GrantExpires, Transmit
<1>5. ASSUME NEW c \in Copies, LockExpires(c) PROVE UNCHANGED loop
  BY <1>5 DEF LockExpires
<1>6. CASE UNCHANGED loop
  BY <1>6 DEF loop
<1> QED
  BY <1>1, <1>2, <1>3, <1>4, <1>5, <1>6 DEF Next, vars, loop

LEMMA WorkStep == BaseInv /\ WorkInv /\ [Next]_vars => WorkInv'
<1> SUFFICES ASSUME BaseInv, WorkInv, [Next]_vars PROVE WorkInv'
  OBVIOUS
<1>1. ASSUME NEW w \in Workers, HandlerSucceeds(w) PROVE WorkInv'
  <2> DEFINE c == job[w]
  <2>1. c \in Copies
    BY <1>1 DEF BaseInv, JobInv, HandlerSucceeds
  <2>2. /\ UNCHANGED <<place, job>>
        /\ work'[c] = IF work[c] = "pending" THEN "done" ELSE work[c]
        /\ \A d \in Copies : d # c => work'[d] = work[d]
        /\ stage'[w] = "settling"
        /\ \A v \in Workers : v # w => stage'[v] = stage[v]
    BY <1>1, <2>1 DEF HandlerSucceeds, BaseInv, TypeOK, queue
  <2>3. \A v \in Workers : stage[v] # "idle" => job[v] \in Copies
    BY DEF BaseInv, JobInv
  <2>4. work[c] \in {"pending", "done", "settledDone"}
    BY <2>1 DEF WorkInv
  <2> HIDE DEF c
  <2>5. \A d \in Copies : /\ place'[d] = "completed" => work'[d] = "settledDone"
                          /\ place'[d] # "completed" => work'[d] \in {"pending", "done"}
    BY <2>1, <2>2, <2>4 DEF WorkInv
  <2>6. ASSUME NEW v \in Workers, v # w
        PROVE  /\ stage'[v] = "settling" => work'[job'[v]] \in {"done", "settledDone"}
               /\ stage'[v] = "releasing" => work'[job'[v]] = "settledDone"
    BY <2>1, <2>2, <2>3, <2>6 DEF WorkInv
  <2>7. stage'[w] = "settling" /\ work'[job'[w]] \in {"done", "settledDone"}
    BY <2>1, <2>2, <2>4 DEF c
  <2> QED
    BY <2>5, <2>6, <2>7 DEF WorkInv
<1>2. ASSUME NEW w \in Workers, Complete(w) PROVE WorkInv'
  <2> DEFINE c == job[w]
  <2>1. /\ c \in Copies /\ stage[w] = "settling" /\ UNCHANGED job
        /\ stage'[w] \in {"releasing", "failed"}
        /\ \A v \in Workers : v # w => stage'[v] = stage[v]
    BY <1>2 DEF BaseInv, TypeOK, JobInv, Complete, AfterComplete
  <2>2. \A v \in Workers : stage[v] # "idle" => job[v] \in Copies
    BY DEF BaseInv, JobInv
  <2>3. CASE UNCHANGED <<place, lockedBy, work>> /\ stage'[w] = "failed"
    BY <2>1, <2>3 DEF WorkInv
  <2>4. CASE Completed(w)
    <3>1. place[c] = "locked"
      BY <2>1, <2>4, AzureAssumption DEF Completed, LockHeld, BaseInv, TypeOK
    <3>2. work[c] = "done"
      BY <2>1, <3>1 DEF WorkInv
    <3>3. /\ place'[c] = "completed" /\ work'[c] = "settledDone"
          /\ \A d \in Copies : d # c => place'[d] = place[d] /\ work'[d] = work[d]
      BY <2>1, <2>4, <3>2 DEF Completed, BaseInv, TypeOK
    <3>4. job[w] = c
      OBVIOUS
    <3> HIDE DEF c
    <3>5. \A d \in Copies : /\ place'[d] = "completed" => work'[d] = "settledDone"
                            /\ place'[d] # "completed" => work'[d] \in {"pending", "done"}
      BY <2>1, <3>3 DEF WorkInv
    <3>6. ASSUME NEW v \in Workers
          PROVE  /\ stage'[v] = "settling" => work'[job'[v]] \in {"done", "settledDone"}
                 /\ stage'[v] = "releasing" => work'[job'[v]] = "settledDone"
      BY <2>1, <2>2, <3>3, <3>4 DEF WorkInv
    <3> QED
      BY <3>5, <3>6 DEF WorkInv
  <2> QED
    BY <1>2, <2>3, <2>4 DEF Complete, AfterComplete, BaseInv, TypeOK
<1>3. ASSUME UNCHANGED work,
             \A c \in Copies : place'[c] = "completed" <=> place[c] = "completed",
             \A v \in Workers : stage'[v] \in {"settling", "releasing"}
                                  => stage'[v] = stage[v] /\ job'[v] = job[v]
      PROVE  WorkInv'
  BY <1>3 DEF WorkInv
<1>4. ASSUME NEW w \in Workers,
             \/ HandlerFails(w) \/ Release(w) \/ Abandon(w) \/ AbandonAgain(w) \/ Crash(w)
             \/ \E c \in Copies : Receive(w, c) \/ ReceiveRaises(w, c)
      PROVE  /\ UNCHANGED work
             /\ \A v \in Workers : stage'[v] \in {"settling", "releasing"}
                                     => stage'[v] = stage[v] /\ job'[v] = job[v]
  BY <1>4 DEF HandlerFails, Release, Abandon, AbandonAgain, Crash, Take, Receive, ReceiveRaises,
              NextMessage, BaseInv, TypeOK
<1>5. ASSUME NEW m \in Messages,
             CreateGrant(m) \/ GrantExpires(m) \/ \E attempt \in {1, 2} : Transmit(m, attempt)
      PROVE  UNCHANGED <<stage, job, work>>
  BY <1>5 DEF CreateGrant, GrantExpires, Transmit, loop
<1>6. ASSUME NEW c \in Copies, LockExpires(c) PROVE UNCHANGED <<stage, job, work>>
  BY <1>6 DEF LockExpires, loop
<1>7. CASE \E w \in Workers : HandlerSucceeds(w) \/ Complete(w)
  BY <1>1, <1>2, <1>7
<1>8. CASE ~\E w \in Workers : HandlerSucceeds(w) \/ Complete(w)
  <2>1. \A c \in Copies : place'[c] = "completed" <=> place[c] = "completed"
    BY <1>8, CompletedKept
  <2> QED
    BY <1>3, <1>4, <1>5, <1>6, <1>8, <2>1 DEF Next, vars
<1> QED
  BY <1>7, <1>8

SettleInv == BaseInv /\ ContextInv /\ WorkInv

LEMMA SettleCorrect == Spec => []SettleInv
<1>1. Init => SettleInv
  <2>1. ASSUME Init PROVE ContextInv /\ WorkInv
    BY <2>1 DEF Init, ContextInv, WorkInv
  <2> QED
    BY <2>1, BaseInit DEF SettleInv
<1>2. SettleInv /\ [Next]_vars => SettleInv'
  BY TypeStep, SendStep, ContextStep, WorkStep DEF SettleInv, BaseInv
<1> QED
  BY <1>1, <1>2, PTL DEF Spec

\* A message leaves the queue as completed only after its business operation
\* succeeded, however workers, lost locks and crashes interleave.
THEOREM CompletedIsDone == Spec => []CompletedWasDone
<1>1. SettleInv => CompletedWasDone
  BY DEF SettleInv, WorkInv, CompletedWasDone
<1> QED
  BY <1>1, SettleCorrect, PTL

\* No handler runs under the grant of another message, nor in its context,
\* unless it has none of its own and the loop's last message raised before the
\* try block that clears it.
THEOREM ContextIsolated == Spec => []ContextIsolation
<1>1. SettleInv => ContextIsolation
  BY DEF SettleInv, ContextInv, ContextIsolation
<1> QED
  BY <1>1, SettleCorrect, PTL

\* _message/azure/azure_message_worker.py implements business op -> ACK ->
\* DEL: a grant is deleted only for a message one of whose copies ran to
\* success and was then completed.
THEOREM ImplementsSettlement == Spec => BusinessOpAckDel
<1>1. Init => Settlement!Init
  BY DEF Init, Settlement!Init
<1>2. SettleInv /\ [Next]_vars => [Settlement!Next]_(Settlement!vars)
  <2> SUFFICES ASSUME SettleInv, [Next]_vars
               PROVE  Settlement!Next \/ UNCHANGED <<grant, work>>
    BY DEF Settlement!vars
  <2>1. ASSUME NEW m \in Messages, CreateGrant(m)
        PROVE  Settlement!Create(m) \/ UNCHANGED <<grant, work>>
    <3>1. grant[m] = "none"
      BY <2>1 DEF CreateGrant, SettleInv, BaseInv, SendInv
    <3>2. CASE grant' = [grant EXCEPT ![m] = "none"]
      <4>1. grant' = grant
        BY <3>1, <3>2 DEF SettleInv, BaseInv, TypeOK
      <4> QED
        BY <2>1, <4>1 DEF CreateGrant
    <3>3. CASE grant' = [grant EXCEPT ![m] = "live"]
      BY <2>1, <3>1, <3>3 DEF CreateGrant, Settlement!Create
    <3> QED
      BY <2>1, <3>2, <3>3 DEF CreateGrant
  <2>2. ASSUME NEW m \in Messages, GrantExpires(m) PROVE Settlement!Expire(m)
    BY <2>2 DEF GrantExpires, Settlement!Expire
  <2>3. ASSUME NEW w \in Workers, HandlerSucceeds(w)
        PROVE  Settlement!OpSucceeds(job[w]) \/ UNCHANGED <<grant, work>>
    <3>1. job[w] \in Copies
      BY <2>3 DEF HandlerSucceeds, SettleInv, BaseInv, JobInv
    <3>2. CASE work[job[w]] = "pending"
      BY <2>3, <3>2 DEF HandlerSucceeds, Settlement!OpSucceeds
    <3>3. CASE work[job[w]] # "pending"
      BY <2>3, <3>1, <3>3 DEF HandlerSucceeds, SettleInv, BaseInv, TypeOK
    <3> QED
      BY <3>2, <3>3
  <2>4. ASSUME NEW w \in Workers, Complete(w)
        PROVE  Settlement!Settle(job[w]) \/ UNCHANGED <<grant, work>>
    <3>1. CASE UNCHANGED work
      BY <2>4, <3>1 DEF Complete
    <3>2. CASE Completed(w)
      <4>1. job[w] \in Copies /\ place[job[w]] = "locked"
        BY <2>4, <3>2, AzureAssumption
        DEF Complete, Completed, LockHeld, SettleInv, BaseInv, TypeOK, JobInv
      <4>2. work[job[w]] = "done"
        BY <2>4, <4>1 DEF Complete, SettleInv, WorkInv
      <4> QED
        BY <2>4, <3>2, <4>2 DEF Complete, Completed, Settlement!Settle
    <3> QED
      BY <2>4, <3>1, <3>2 DEF Complete
  <2>5. ASSUME NEW w \in Workers, Release(w)
        PROVE  (\E m \in Messages : Settlement!Delete(m)) \/ UNCHANGED <<grant, work>>
    <3>1. CASE UNCHANGED grant
      BY <2>5, <3>1 DEF Release
    <3>2. CASE /\ ambient[w] # None /\ grant[ambient[w]] = "live"
               /\ grant' = [grant EXCEPT ![ambient[w]] = "deleted"]
      <4>1. job[w] \in Copies /\ ambient[w] \in Messages /\ ambient[w] = job[w][1]
        BY <2>5, <3>2 DEF Release, SettleInv, BaseInv, TypeOK, JobInv, ContextInv
      <4>2. work[job[w]] = "settledDone"
        BY <2>5 DEF Release, SettleInv, WorkInv
      <4>3. Settlement!Earned(ambient[w])
        BY <4>1, <4>2 DEF Settlement!Earned, MessageOf
      <4> QED
        BY <2>5, <3>2, <4>1, <4>3 DEF Release, Settlement!Delete
    <3> QED
      BY <2>5, <3>1, <3>2 DEF Release
  <2>6. ASSUME NEW m \in Messages, NEW attempt \in {1, 2}, Transmit(m, attempt)
        PROVE  UNCHANGED <<grant, work>>
    BY <2>6 DEF Transmit
  <2>7. ASSUME NEW c \in Copies, LockExpires(c) \/ \E w \in Workers : Receive(w, c) \/ ReceiveRaises(w, c)
        PROVE  UNCHANGED <<grant, work>>
    BY <2>7 DEF LockExpires, Take, Receive, ReceiveRaises
  <2>8. ASSUME NEW w \in Workers,
               HandlerFails(w) \/ Abandon(w) \/ AbandonAgain(w) \/ Crash(w)
        PROVE  UNCHANGED <<grant, work>>
    BY <2>8 DEF HandlerFails, Abandon, AbandonAgain, Crash
  <2>9. \A w \in Workers : HandlerSucceeds(w) \/ Complete(w) => job[w] \in Copies
    BY DEF HandlerSucceeds, Complete, SettleInv, BaseInv, JobInv
  <2> QED
    BY <2>1, <2>2, <2>3, <2>4, <2>5, <2>6, <2>7, <2>8, <2>9 DEF Next, vars, Settlement!Next
<1> QED
  BY <1>1, <1>2, SettleCorrect, PTL DEF Spec, BusinessOpAckDel, Settlement!Spec

-----------------------------------------------------------------------------
(* A message that may come back keeps its grant. *)

\* A deleted grant was that of a completed copy.
DeletedInv ==
    \A m \in Messages : grant[m] = "deleted" =>
        \E c \in Copies : c[1] = m /\ place[c] = "completed"

LEMMA DeletedStep == SettleInv /\ DeletedInv /\ [Next]_vars => DeletedInv'
<1> SUFFICES ASSUME SettleInv, DeletedInv, [Next]_vars PROVE DeletedInv'
  OBVIOUS
<1>1. \A c \in Copies : place[c] = "completed" => place'[c] = "completed"
  <2>1. CASE \E w \in Workers : Complete(w)
    <3>1. PICK w \in Workers : Complete(w)
      BY <2>1
    <3>2. job[w] \in Copies
      BY <3>1 DEF Complete, SettleInv, BaseInv, JobInv
    <3> QED
      BY <3>1, <3>2 DEF Complete, Completed, SettleInv, BaseInv, TypeOK
  <2> QED
    BY <2>1, CompletedKept DEF SettleInv
<1>2. ASSUME \A m \in Messages : grant'[m] = "deleted" => grant[m] = "deleted"
      PROVE  DeletedInv'
  BY <1>1, <1>2 DEF DeletedInv
<1>3. ASSUME NEW w \in Workers, Release(w), grant' # grant PROVE DeletedInv'
  <2> DEFINE m == ambient[w]
  <2>1. m # None /\ grant' = [grant EXCEPT ![m] = "deleted"]
    BY <1>3 DEF Release
  <2>2. job[w] \in Copies /\ job[w][1] = m
    BY <1>3, <2>1 DEF Release, SettleInv, BaseInv, JobInv, ContextInv
  <2>3. place[job[w]] = "completed"
    BY <1>3, <2>2 DEF Release, SettleInv, WorkInv
  <2>4. \A n \in Messages : n # m /\ grant'[n] = "deleted" => grant[n] = "deleted"
    BY <2>1 DEF SettleInv, BaseInv, TypeOK
  <2> QED
    BY <1>1, <2>2, <2>3, <2>4 DEF DeletedInv
<1>4. ASSUME NEW m \in Messages, CreateGrant(m) \/ GrantExpires(m)
      PROVE  \A n \in Messages : grant'[n] = "deleted" => grant[n] = "deleted"
  BY <1>4 DEF CreateGrant, GrantExpires, SettleInv, BaseInv, TypeOK
<1>5. ASSUME NEW m \in Messages, NEW attempt \in {1, 2}, Transmit(m, attempt)
      PROVE  UNCHANGED grant
  BY <1>5 DEF Transmit
<1>6. ASSUME NEW c \in Copies, LockExpires(c) \/ \E w \in Workers : Receive(w, c) \/ ReceiveRaises(w, c)
      PROVE  UNCHANGED grant
  BY <1>6 DEF LockExpires, Take, Receive, ReceiveRaises
<1>7. ASSUME NEW w \in Workers,
             \/ HandlerSucceeds(w) \/ HandlerFails(w) \/ Complete(w)
             \/ Abandon(w) \/ AbandonAgain(w) \/ Crash(w)
      PROVE  UNCHANGED grant
  BY <1>7 DEF HandlerSucceeds, HandlerFails, Complete, Abandon, AbandonAgain, Crash
<1> QED
  BY <1>2, <1>3, <1>4, <1>5, <1>6, <1>7 DEF Next, vars

\* A copy that waits, is being handled or was dead-lettered still has its
\* grant, unless the queue was given the message twice.
THEOREM UnsettledKeeps == Spec => []UnsettledKeepsGrant
<1> DEFINE KeepInv == SettleInv /\ DeletedInv
<1>1. Init => KeepInv
  <2>1. ASSUME Init PROVE ContextInv /\ WorkInv /\ DeletedInv
    BY <2>1 DEF Init, ContextInv, WorkInv, DeletedInv
  <2> QED
    BY <2>1, BaseInit DEF SettleInv
<1>2. KeepInv /\ [Next]_vars => KeepInv'
  BY TypeStep, SendStep, ContextStep, WorkStep, DeletedStep DEF SettleInv, BaseInv
<1>3. KeepInv => UnsettledKeepsGrant
  BY CopyType DEF DeletedInv, UnsettledKeepsGrant, Alone
<1> HIDE DEF KeepInv
<1> QED
  BY <1>1, <1>2, <1>3, PTL DEF Spec
=============================================================================
