---------------------------- MODULE AzureDelivery ----------------------------
(***************************************************************************)
(* A message sent to an Azure Service Bus queue and its delegation grant:  *)
(* the send (_message/azure/azure_message_client.py, _delegation/          *)
(* grant_factory.py and grant_store.py), the queue, and the receiver loops *)
(* of the workers (_message/azure/azure_message_worker.py).                *)
(*                                                                         *)
(* A worker is one receiver loop: it handles one message at a time, and    *)
(* the context variables of its task live on from message to message.      *)
(* The queue is external: it hands out a copy under a lock, takes it back  *)
(* when the lock expires or the copy is abandoned, and dead-letters it     *)
(* once it was delivered MaxDeliveries times.  A lock may expire at any    *)
(* moment: renewals can fail or come late, and a prefetched message waits  *)
(* in a buffer nobody renews.                                              *)
(***************************************************************************)
EXTENDS Integers

CONSTANTS
    Messages,           \* logical sends
    Workers,            \* receiver loops
    None,               \* no copy, no worker, no message
    Unsecured,          \* messages without a readable SecurityContext
    Mistyped,           \* messages of other senders, with a grant id that is no string
    MaxDeliveries,      \* queue_max_delivery_count
    AmbiguousSends      \* bound: messages of which a failed send may have arrived

Copies == Messages \X {1, 2}        \* by attempt of the send that made them

ASSUME AzureAssumption ==
    /\ None \notin Copies \cup Workers \cup Messages
    /\ Unsecured \subseteq Messages
    /\ Mistyped \subseteq Messages
    /\ MaxDeliveries \in Nat \ {0}
    /\ AmbiguousSends \subseteq Messages

VARIABLES
    sendPc,     \* where the send of each message stands
    grant,      \* its grant in the store; "none": sent without one
    place,      \* where the queue has each copy
    deliveries, \* how often it was handed out
    lockedBy,   \* the holder of its lock
    stage,      \* where each worker stands
    job,        \* the copy it works on
    security,   \* BlocksContext of its task: the message it was restored from
    ambient,    \* DelegatedTokenContext of its task: the message whose grant it is
    work        \* history: what became of the business op of each copy

queue == <<place, deliveries, lockedBy>>
loop == <<stage, job, security, ambient>>
vars == <<sendPc, grant, place, deliveries, lockedBy, stage, job, security, ambient, work>>

TypeOK ==
    /\ sendPc \in [Messages -> {"idle", "first", "retry", "sent", "raised"}]
    /\ grant \in [Messages -> {"none", "live", "deleted", "expired"}]
    /\ place \in [Copies -> {"absent", "queued", "locked", "completed", "dead"}]
    /\ deliveries \in [Copies -> 0 .. MaxDeliveries]
    /\ lockedBy \in [Copies -> Workers \cup {None}]
    /\ stage \in [Workers -> {"idle", "handling", "settling", "releasing", "failed", "escaped"}]
    /\ job \in [Workers -> Copies \cup {None}]
    /\ security \in [Workers -> Messages \cup {None}]
    /\ ambient \in [Workers -> Messages \cup {None}]
    /\ work \in [Copies -> {"pending", "done", "settledDone", "settledFailed"}]
    /\ \A c \in Copies : place[c] = "locked" <=> lockedBy[c] # None

Init ==
    /\ sendPc = [m \in Messages |-> "idle"]
    /\ grant = [m \in Messages |-> "none"]
    /\ place = [c \in Copies |-> "absent"]
    /\ deliveries = [c \in Copies |-> 0]
    /\ lockedBy = [c \in Copies |-> None]
    /\ stage = [w \in Workers |-> "idle"]
    /\ job = [w \in Workers |-> None]
    /\ security = [w \in Workers |-> None]
    /\ ambient = [w \in Workers |-> None]
    /\ work = [c \in Copies |-> "pending"]

-----------------------------------------------------------------------------
(* The send. *)

\* create_for_send_async: write the grant, or go on without one (no caller,
\* no version material, or the store failed).  Its ids are strings: what is
\* mistyped was put in the queue by another sender, and has no grant in the
\* store.
CreateGrant(m) ==
    /\ sendPc[m] = "idle"
    /\ sendPc' = [sendPc EXCEPT ![m] = "first"]
    /\ \/ grant' = [grant EXCEPT ![m] = "none"]
       \/ m \notin Mistyped /\ grant' = [grant EXCEPT ![m] = "live"]
    /\ UNCHANGED <<queue, loop, work>>

Arrives(c) == place' = [place EXCEPT ![c] = "queued"]

\* send_messages: the first attempt is repeated once, with the same message
\* and so the same grant, whatever the exception was.
Transmit(m, attempt) ==
    /\ sendPc[m] = (IF attempt = 1 THEN "first" ELSE "retry")
    /\ \/ /\ sendPc' = [sendPc EXCEPT ![m] = "sent"]
          /\ Arrives(<<m, attempt>>)
       \/ /\ sendPc' = [sendPc EXCEPT ![m] = IF attempt = 1 THEN "retry" ELSE "raised"]
          /\ (m \in AmbiguousSends /\ Arrives(<<m, attempt>>)) \/ UNCHANGED place
    /\ UNCHANGED <<grant, deliveries, lockedBy, loop, work>>

-----------------------------------------------------------------------------
(* The queue. *)

LockHeld(w) == lockedBy[job[w]] = w

\* The copy goes back to the queue, or to the dead letters after its last
\* delivery.
GiveBack(c) ==
    /\ place' = [place EXCEPT ![c] =
                    IF deliveries[c] < MaxDeliveries THEN "queued" ELSE "dead"]
    /\ lockedBy' = [lockedBy EXCEPT ![c] = None]
    /\ UNCHANGED deliveries

LockExpires(c) ==
    /\ place[c] = "locked"
    /\ GiveBack(c)
    /\ UNCHANGED <<sendPc, grant, loop, work>>

\* The absolute TTL of the grant ends.
GrantExpires(m) ==
    /\ grant[m] = "live"
    /\ grant' = [grant EXCEPT ![m] = "expired"]
    /\ UNCHANGED <<sendPc, queue, loop, work>>

-----------------------------------------------------------------------------
(* The receiver loop: process_receiver and message_handler. *)

\* _restore_security_context leaves the context alone when the header is
\* absent or unreadable.
Restored(w, m) == IF m \in Unsecured THEN security[w] ELSE m

Take(w, c) ==
    /\ stage[w] = "idle"
    /\ place[c] = "queued"
    /\ place' = [place EXCEPT ![c] = "locked"]
    /\ lockedBy' = [lockedBy EXCEPT ![c] = w]
    /\ deliveries' = [deliveries EXCEPT ![c] = @ + 1]
    /\ job' = [job EXCEPT ![w] = c]
    /\ security' = [security EXCEPT ![w] = Restored(w, c[1])]
    /\ UNCHANGED <<sendPc, grant, work>>

\* From the arrival of a message to the first await of its handler.
Receive(w, c) ==
    /\ Take(w, c)
    /\ c[1] \notin Mistyped
    /\ stage' = [stage EXCEPT ![w] = "handling"]
    /\ ambient' = [ambient EXCEPT ![w] = IF grant[c[1]] = "none" THEN None ELSE c[1]]

\* DelegatedTokenContext.set tests the id with startswith, which raises on
\* what is no string: before the try block, hence past its finally, when the
\* security context has been restored.  A message whose properties cannot be
\* decoded at all raises before that, and counts as Unsecured too.
ReceiveRaises(w, c) ==
    /\ Take(w, c)
    /\ c[1] \in Mistyped
    /\ stage' = [stage EXCEPT ![w] = "escaped"]
    /\ UNCHANGED ambient

\* The business operation succeeds.
HandlerSucceeds(w) ==
    /\ stage[w] = "handling"
    /\ stage' = [stage EXCEPT ![w] = "settling"]
    /\ work' = [work EXCEPT ![job[w]] = IF @ = "pending" THEN "done" ELSE @]
    /\ UNCHANGED <<sendPc, grant, queue, job, security, ambient>>

FaultyHandlerFails(w) ==
    /\ stage[w] = "handling"
    /\ stage' = [stage EXCEPT ![w] = "settling"]
    /\ UNCHANGED <<sendPc, grant, queue, job, security, ambient, work>>

\* It raises, or the body cannot be read.
HandlerFails(w) ==
    /\ stage[w] = "handling"
    /\ stage' = [stage EXCEPT ![w] = "failed"]
    /\ UNCHANGED <<sendPc, grant, queue, job, security, ambient, work>>

\* The queue completes the copy.
Completed(w) ==
    /\ LockHeld(w)
    /\ place' = [place EXCEPT ![job[w]] = "completed"]
    /\ lockedBy' = [lockedBy EXCEPT ![job[w]] = None]
    /\ work' = [work EXCEPT ![job[w]] = IF @ = "done" THEN "settledDone" ELSE "settledFailed"]

FaultyAfterComplete(ok) == "releasing"

\* Where the worker goes when complete_message returned, or raised.
AfterComplete(ok) == IF ok THEN "releasing" ELSE "failed"

\* complete_message: it may raise because the lock was lost, because it
\* never reached the queue, or although it took effect.
Complete(w) ==
    /\ stage[w] = "settling"
    /\ \E ok \in BOOLEAN :
         /\ stage' = [stage EXCEPT ![w] = AfterComplete(ok)]
         /\ Completed(w) \/ (~ok /\ UNCHANGED <<place, lockedBy, work>>)
    /\ UNCHANGED <<sendPc, grant, deliveries, job, security, ambient>>

FaultyClearContext(w) ==
    /\ ambient' = [ambient EXCEPT ![w] = None]
    /\ UNCHANGED security

\* The finally block of message_handler.
ClearContext(w) ==
    /\ security' = [security EXCEPT ![w] = None]
    /\ ambient' = [ambient EXCEPT ![w] = None]

\* The loop takes the next message.
NextMessage(w) ==
    /\ stage' = [stage EXCEPT ![w] = "idle"]
    /\ job' = [job EXCEPT ![w] = None]

\* _release_delegation_grant: drop the cached token (TokenProvider) and
\* delete the grant; a failed delete is only logged.
Release(w) ==
    /\ stage[w] = "releasing"
    /\ LET m == ambient[w] IN
       \/ m # None /\ grant[m] = "live" /\ grant' = [grant EXCEPT ![m] = "deleted"]
       \/ UNCHANGED grant
    /\ ClearContext(w)
    /\ NextMessage(w)
    /\ UNCHANGED <<sendPc, queue, work>>

\* abandon_message takes effect only while the lock is held.
AbandonMessage(w) == (LockHeld(w) /\ GiveBack(job[w])) \/ UNCHANGED queue

\* The except and finally blocks of message_handler, which raises again.
Abandon(w) ==
    /\ stage[w] = "failed"
    /\ AbandonMessage(w)
    /\ ClearContext(w)
    /\ stage' = [stage EXCEPT ![w] = "escaped"]
    /\ UNCHANGED <<sendPc, grant, job, work>>

FaultyAbandonAgain(w) ==
    /\ stage[w] = "escaped"
    /\ AbandonMessage(w)
    /\ UNCHANGED <<sendPc, grant, loop, work>>

\* process_receiver catches what message_handler raised, abandons the
\* message once more and takes the next one.
AbandonAgain(w) ==
    /\ stage[w] = "escaped"
    /\ AbandonMessage(w)
    /\ NextMessage(w)
    /\ UNCHANGED <<sendPc, grant, security, ambient, work>>

\* The process dies, or its task is cancelled, at any await; another takes
\* its place.
Crash(w) ==
    /\ ClearContext(w)
    /\ NextMessage(w)
    /\ UNCHANGED <<sendPc, grant, queue, work>>

Next ==
    \/ \E m \in Messages :
          CreateGrant(m) \/ GrantExpires(m) \/ \E attempt \in {1, 2} : Transmit(m, attempt)
    \/ \E c \in Copies : LockExpires(c) \/ \E w \in Workers : Receive(w, c) \/ ReceiveRaises(w, c)
    \/ \E w \in Workers :
          \/ HandlerSucceeds(w)
          \/ HandlerFails(w)
          \/ Complete(w)
          \/ Release(w)
          \/ Abandon(w)
          \/ AbandonAgain(w)
          \/ Crash(w)

Spec == Init /\ [][Next]_vars

\* A handler returns or raises, and so does every call it is followed by; a
\* loop that is free takes a message the queue has; a lock nobody works
\* under expires.
Fairness ==
    /\ \A w \in Workers :
          /\ WF_vars(HandlerSucceeds(w) \/ HandlerFails(w))
          /\ WF_vars(Complete(w))
          /\ WF_vars(Release(w))
          /\ WF_vars(Abandon(w))
          /\ WF_vars(AbandonAgain(w))
    /\ \A c \in Copies :
          /\ WF_vars(\E w \in Workers : Receive(w, c) \/ ReceiveRaises(w, c))
          /\ WF_vars((\A w \in Workers : job[w] # c) /\ LockExpires(c))

FairSpec == Spec /\ Fairness

-----------------------------------------------------------------------------
(* Properties. *)

MessageOf == [c \in Copies |-> c[1]]

Settlement ==
    INSTANCE GrantSettlement
    WITH Messages <- Messages, Copies <- Copies, MessageOf <- MessageOf,
         grant <- grant, work <- work

\* Business op -> ACK -> DEL, at every interleaving of workers, lost locks,
\* crashes and failed calls.
BusinessOpAckDel == Settlement!Spec

\* A message leaves the queue as completed only after its business op
\* succeeded: a failed or interrupted run never loses it.
CompletedWasDone ==
    \A c \in Copies : place[c] = "completed" => work[c] = "settledDone"

\* The queue was given no second copy of the message.
Alone(c) == \A d \in Copies : d[1] = c[1] /\ d # c => place[d] = "absent"

\* As long as a message may still be redelivered, or was dead-lettered, its
\* grant is not deleted, provided it was not sent twice: a redelivery can
\* mint a token unless the TTL ended.
UnsettledKeepsGrant ==
    \A c \in Copies : place[c] \in {"queued", "locked", "dead"} /\ Alone(c)
        => grant[c[1]] # "deleted"

\* The messages whose context may outlive them: those that raise after it was
\* restored and before the try block whose finally clears it.
Leaking == Mistyped \ Unsecured

\* A handler runs under no grant but that of its own message, and in no
\* security context but that of its own message, although the context of the
\* task outlives the message and an absent SecurityContext does not overwrite
\* it.  The one exception: what a leaking message left behind, as long as no
\* message was handled since and the present one has no context of its own.
ContextIsolation ==
    \A w \in Workers :
        /\ stage[w] = "idle" => security[w] \in Leaking \cup {None} /\ ambient[w] = None
        /\ stage[w] = "handling" =>
              /\ ambient[w] \in {job[w][1], None}
              /\ \/ security[w] \in {job[w][1], None}
                 \/ security[w] \in Leaking /\ job[w][1] \in Unsecured

\* A malformed grant id is treated as absent, so the flow fails closed: the
\* message that carries it is handled and cleared up after like one without a
\* grant, and what has no context of its own is handled in none.
MalformedFailsClosed ==
    \A w \in Workers :
        stage[w] = "handling" /\ job[w][1] \in Unsecured => security[w] = None

\* No message is left behind: one that reached the queue is completed or
\* dead-lettered in the end, however many of its runs fail.
EveryCopyEnds ==
    \A c \in Copies : (place[c] = "queued") ~> (place[c] \in {"completed", "dead"})
=============================================================================
