---------------------------- MODULE RabbitDelivery ---------------------------
(***************************************************************************)
(* A message sent through RabbitMQ and its delegation grant: the publish   *)
(* (_message/rabbit_mq/rabbit_message_client.py), the queues it is routed  *)
(* to, and the worker's callbacks (rabbit_message_worker.py).              *)
(*                                                                         *)
(* A published message is one grant and one copy in every queue its        *)
(* exchange routes it to.  Each delivery runs in an asyncio task of its    *)
(* own, so context variables end with the task and are not modelled.  The  *)
(* broker is external: it delivers at most prefetch_count messages that    *)
(* are not acknowledged (the tasks of the model), it takes every           *)
(* unacknowledged copy back when the connection is lost, while the tasks   *)
(* that handle them run on.  basic.ack has no answer: message.ack()        *)
(* returns when the frame is written, and an acknowledgement still on the  *)
(* way is lost with the connection.                                        *)
(***************************************************************************)
EXTENDS Integers

CONSTANTS
    Messages,       \* publishes
    Queues,
    Routes,         \* Routes[m]: the queues message m is routed to
    Undecodable,    \* messages whose body is not UTF-8 or baggage no object
    Tasks,          \* the prefetch_count deliveries the broker allows
    None,           \* no copy, no task
    MaxLosses       \* bound of the number of lost connections

Copies == {c \in Messages \X Queues : c[2] \in Routes[c[1]]}

ASSUME RabbitAssumption ==
    /\ Routes \in [Messages -> SUBSET Queues]
    /\ Undecodable \subseteq Messages
    /\ None \notin Copies \cup Tasks
    /\ MaxLosses \in Nat

VARIABLES
    sendPc,     \* where the publish of each message stands
    grant,      \* its grant in the store; "none": sent without one
    place,      \* where the broker has each copy
    unheard,    \* history: the copies with a lost acknowledgement
    receipt,    \* the task whose delivery tag is still valid for the copy
    stage,      \* where each task stands
    job,        \* the copy it was given
    losses,     \* connections lost so far
    work        \* history: what became of the business op of each copy

broker == <<place, unheard, receipt>>
vars == <<sendPc, grant, place, unheard, receipt, stage, job, losses, work>>

TypeOK ==
    /\ sendPc \in [Messages -> {"idle", "granted", "sent", "raised"}]
    /\ grant \in [Messages -> {"none", "live", "deleted", "expired"}]
    /\ place \in [Copies -> {"absent", "queued", "unacked", "acking", "acked", "expired"}]
    /\ unheard \subseteq Copies
    /\ receipt \in [Copies -> Tasks \cup {None}]
    /\ stage \in [Tasks -> {"idle", "handling", "succeeded", "raised", "releasing", "dropped"}]
    /\ job \in [Tasks -> Copies \cup {None}]
    /\ losses \in 0 .. MaxLosses
    /\ work \in [Copies -> {"pending", "done", "settledDone", "settledFailed"}]
    /\ \A c \in Copies : receipt[c] # None => place[c] = "unacked" /\ job[receipt[c]] = c

Init ==
    /\ sendPc = [m \in Messages |-> "idle"]
    /\ grant = [m \in Messages |-> "none"]
    /\ place = [c \in Copies |-> "absent"]
    /\ unheard = {}
    /\ receipt = [c \in Copies |-> None]
    /\ stage = [t \in Tasks |-> "idle"]
    /\ job = [t \in Tasks |-> None]
    /\ losses = 0
    /\ work = [c \in Copies |-> "pending"]

-----------------------------------------------------------------------------
(* The publish. *)

\* create_for_send_async: write the grant, or go on without one.
CreateGrant(m) ==
    /\ sendPc[m] = "idle"
    /\ sendPc' = [sendPc EXCEPT ![m] = "granted"]
    /\ \E outcome \in {"none", "live"} : grant' = [grant EXCEPT ![m] = outcome]
    /\ UNCHANGED <<broker, stage, job, losses, work>>

\* exchange.publish, once: what raises at the client may still be routed.
Publish(m) ==
    /\ sendPc[m] = "granted"
    /\ \E routed, confirmed \in BOOLEAN :
         /\ confirmed => routed
         /\ sendPc' = [sendPc EXCEPT ![m] = IF confirmed THEN "sent" ELSE "raised"]
         /\ place' = [c \in Copies |-> IF routed /\ c[1] = m THEN "queued" ELSE place[c]]
    /\ UNCHANGED <<grant, unheard, receipt, stage, job, losses, work>>

\* The absolute TTL of the grant ends.
GrantExpires(m) ==
    /\ grant[m] = "live"
    /\ grant' = [grant EXCEPT ![m] = "expired"]
    /\ UNCHANGED <<sendPc, broker, stage, job, losses, work>>

-----------------------------------------------------------------------------
(* The broker. *)

\* message_ttl_seconds: a copy nobody took is dropped.
MessageExpires(c) ==
    /\ place[c] = "queued"
    /\ place' = [place EXCEPT ![c] = "expired"]
    /\ UNCHANGED <<sendPc, grant, unheard, receipt, stage, job, losses, work>>

AckArrives(c) ==
    /\ place[c] = "acking"
    /\ place' = [place EXCEPT ![c] = "acked"]
    /\ UNCHANGED <<sendPc, grant, unheard, receipt, stage, job, losses, work>>

Unsettled == {c \in Copies : place[c] \in {"unacked", "acking"}}

\* What the broker does when the connection is gone.
TakeBack ==
    /\ losses < MaxLosses
    /\ losses' = losses + 1
    /\ place' = [c \in Copies |-> IF c \in Unsettled THEN "queued" ELSE place[c]]
    /\ unheard' = unheard \cup {c \in Copies : place[c] = "acking"}
    /\ receipt' = [c \in Copies |-> None]

\* The robust connection reconnects; the tasks go on with stale receipts.
ConnectionLost ==
    /\ TakeBack
    /\ LET dropped == {t \in Tasks : stage[t] = "dropped"} IN
       /\ stage' = [t \in Tasks |-> IF t \in dropped THEN "idle" ELSE stage[t]]
       /\ job' = [t \in Tasks |-> IF t \in dropped THEN None ELSE job[t]]
    /\ UNCHANGED <<sendPc, grant, work>>

\* The worker's process dies and is started again.
Crash ==
    /\ TakeBack
    /\ stage' = [t \in Tasks |-> "idle"]
    /\ job' = [t \in Tasks |-> None]
    /\ UNCHANGED <<sendPc, grant, work>>

-----------------------------------------------------------------------------
(* The worker's callback: _process_message. *)

\* The broker delivers a copy; the task runs up to the handler.  What stands
\* before the try block raises for an undecodable message: the exception
\* leaves the callback and the copy stays with the worker, unacknowledged.
Deliver(t, c) ==
    /\ stage[t] = "idle"
    /\ place[c] = "queued"
    /\ place' = [place EXCEPT ![c] = "unacked"]
    /\ receipt' = [receipt EXCEPT ![c] = t]
    /\ stage' = [stage EXCEPT ![t] = IF c[1] \in Undecodable THEN "dropped" ELSE "handling"]
    /\ job' = [job EXCEPT ![t] = c]
    /\ UNCHANGED <<sendPc, grant, unheard, losses, work>>

HandlerSucceeds(t) ==
    /\ stage[t] = "handling"
    /\ stage' = [stage EXCEPT ![t] = "succeeded"]
    /\ work' = [work EXCEPT ![job[t]] = IF @ \in {"pending", "settledFailed"} THEN "done" ELSE @]
    /\ UNCHANGED <<sendPc, grant, broker, job, losses>>

TaskEnds(t) ==
    /\ stage' = [stage EXCEPT ![t] = "idle"]
    /\ job' = [job EXCEPT ![t] = None]

FaultyHandlerFails(t) ==
    /\ stage[t] = "handling"
    /\ TaskEnds(t)
    /\ UNCHANGED <<sendPc, grant, broker, losses, work>>

\* It raises, its body cannot be read, or the task is cancelled: the finally
\* block acknowledges all the same.
HandlerFails(t) ==
    /\ stage[t] = "handling"
    /\ stage' = [stage EXCEPT ![t] = "raised"]
    /\ UNCHANGED <<sendPc, grant, broker, job, losses, work>>

FaultyReleases(t) == TRUE

\* `if processed_successfully`
Releases(t) == stage[t] = "succeeded"

FaultyAckEscapes(t) == Releases(t)

\* message.ack() raised: the exception leaves the callback, nothing is
\* released.
AckEscapes(t) == FALSE

GoOn(t, releases) ==
    IF releases
    THEN stage' = [stage EXCEPT ![t] = "releasing"] /\ job' = job
    ELSE TaskEnds(t)

\* message.ack() on a valid delivery tag.
Ack(t) ==
    /\ stage[t] \in {"succeeded", "raised"}
    /\ receipt[job[t]] = t
    /\ place' = [place EXCEPT ![job[t]] = "acking"]
    /\ receipt' = [receipt EXCEPT ![job[t]] = None]
    /\ work' = [work EXCEPT ![job[t]] =
                  CASE @ = "done" -> "settledDone" [] @ = "pending" -> "settledFailed" [] OTHER -> @]
    /\ GoOn(t, Releases(t))
    /\ UNCHANGED <<sendPc, grant, unheard, losses>>

\* message.ack() raises: its channel is gone.
AckRaises(t) ==
    /\ stage[t] \in {"succeeded", "raised"}
    /\ receipt[job[t]] # t
    /\ GoOn(t, AckEscapes(t))
    /\ UNCHANGED <<sendPc, grant, broker, losses, work>>

\* _release_delegation_grant: drop the cached token (TokenProvider) and
\* delete the grant; a failed delete is only logged.
Release(t) ==
    /\ stage[t] = "releasing"
    /\ LET m == job[t][1] IN
       \/ grant[m] = "live" /\ grant' = [grant EXCEPT ![m] = "deleted"]
       \/ UNCHANGED grant
    /\ TaskEnds(t)
    /\ UNCHANGED <<sendPc, broker, losses, work>>

Next ==
    \/ \E m \in Messages : CreateGrant(m) \/ Publish(m) \/ GrantExpires(m)
    \/ \E c \in Copies : MessageExpires(c) \/ AckArrives(c)
    \/ \E t \in Tasks :
          \/ \E c \in Copies : Deliver(t, c)
          \/ HandlerSucceeds(t)
          \/ HandlerFails(t)
          \/ Ack(t)
          \/ AckRaises(t)
          \/ Release(t)
    \/ ConnectionLost
    \/ Crash

Spec == Init /\ [][Next]_vars

\* A handler returns or raises, and what follows it is done; the broker
\* delivers to a free task and receives what was acknowledged.
Fairness ==
    /\ \A t \in Tasks :
          /\ WF_vars(HandlerSucceeds(t) \/ HandlerFails(t))
          /\ WF_vars(Ack(t) \/ AckRaises(t))
          /\ WF_vars(Release(t))
    /\ \A c \in Copies :
          /\ WF_vars(\E t \in Tasks : Deliver(t, c))
          /\ WF_vars(AckArrives(c))

FairSpec == Spec /\ Fairness

-----------------------------------------------------------------------------
(* Properties. *)

MessageOf == [c \in Copies |-> c[1]]

Settlement ==
    INSTANCE GrantSettlement
    WITH Messages <- Messages, Copies <- Copies, MessageOf <- MessageOf,
         grant <- grant, work <- work

\* Business op -> ACK -> DEL, however deliveries, lost connections, crashes
\* and failed calls interleave.
BusinessOpAckDel == Settlement!Spec

\* While a copy may still be delivered its grant is not deleted, so its run
\* can mint a token unless the TTL ended; except when the copy's own
\* acknowledgement was lost, or the copy of another queue was settled.
UnsettledKeepsGrant ==
    \A c \in Copies :
        /\ place[c] \in {"queued", "unacked"}
        /\ c \notin unheard
        /\ \A d \in Copies \ {c} : d[1] = c[1] => work[d] # "settledDone"
        => grant[c[1]] # "deleted"

\* "Always ACK": every copy that was routed is acknowledged, or expires
\* before it is delivered, whether its runs succeed or fail.
EveryCopyEnds ==
    \A c \in Copies : (place[c] = "queued") ~> (place[c] \in {"acked", "expired"})
=============================================================================
