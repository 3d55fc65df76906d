---------------------------- MODULE AzureRenewal ----------------------------
(***************************************************************************)
(* Lock renewal in AzureMessageWorker (_message/azure/                     *)
(* azure_message_worker.py).  The lock of a message runs from its arrival  *)
(* in the receiver's prefetch buffer; a task renews it while the message   *)
(* is being handled, and ends when the handler does, when a renewal fails, *)
(* after the longest processing time, or with stop().  stop() finds the    *)
(* tasks in a table keyed by message_id, which two handlers share when a   *)
(* message comes back while it is still being handled, or when its sender  *)
(* repeated an id.                                                         *)
(*                                                                         *)
(* Time is counted in ticks.  The event loop is not blocked for a whole    *)
(* tick: what is due happens before the clock moves on.                    *)
(***************************************************************************)
EXTENDS Integers, Sequences, SequencesExt

CONSTANTS
    Loops,                  \* one per receiver
    Messages,
    IdOf,                   \* function: the message_id each message carries
    Prefetch,               \* queue_prefetch_count
    LockDuration,           \* lock_duration
    RenewalInterval,        \* message_lock_renewal_interval_seconds
    MaxProcessingTime,      \* max_message_processing_time_in_minutes
    MaxDeliveries           \* bound of the deliveries of all messages together

Ids == {IdOf[m] : m \in Messages}

NoOne == "no one"

RenewalAssumption ==
    /\ Prefetch \in Nat /\ MaxProcessingTime \in Nat /\ MaxDeliveries \in Nat
    /\ RenewalInterval \in Nat \ {0}
    /\ LockDuration \in Nat \ (0 .. RenewalInterval)

\* A message as one receiver holds it: what is left of its lock.
Deliveries == [message : Messages, left : 0 .. LockDuration]
NoJob == [message |-> NoOne, left |-> 0]

VARIABLES
    ready,      \* the messages the broker may deliver
    delivered,  \* how often it has delivered one
    buffer,     \* the prefetch buffer of each receiver
    job,        \* the delivery each loop handles
    renewal,    \* the renewal task of each loop's handler
    event,      \* its cancellation_event
    timer,      \* how long its wait has to go
    elapsed,    \* how long the message has been handled, up to the maximum
    active,     \* _active_message_renewals: whose event each id stands for
    stopper,    \* where stop() stands
    closed,     \* the receivers that are closed
    excused     \* history: the handlers that began late or could not renew

vars == <<ready, delivered, buffer, job, renewal, event, timer, elapsed, active,
          stopper, closed, excused>>
table == <<active, stopper, closed>>
broker == <<ready, delivered>>

TypeOK ==
    /\ ready \subseteq Messages
    /\ delivered \in 0 .. MaxDeliveries
    /\ buffer \in [Loops -> Seq(Deliveries)]
    /\ \A l \in Loops : Len(buffer[l]) <= Prefetch
    /\ job \in [Loops -> Deliveries \cup {NoJob}]
    /\ renewal \in [Loops -> {"none", "waiting"}]
    /\ event \in [Loops -> BOOLEAN]
    /\ timer \in [Loops -> 0 .. RenewalInterval]
    /\ elapsed \in [Loops -> 0 .. MaxProcessingTime + 1]
    /\ active \in [Ids -> Loops \cup {NoOne}]
    /\ stopper \in {"idle", "closing", "done"}
    /\ closed \subseteq Loops
    /\ excused \subseteq Loops

Init ==
    /\ ready = Messages
    /\ delivered = 0
    /\ buffer = [l \in Loops |-> <<>>]
    /\ job = [l \in Loops |-> NoJob]
    /\ renewal = [l \in Loops |-> "none"]
    /\ event = [l \in Loops |-> TRUE]
    /\ timer = [l \in Loops |-> 0]
    /\ elapsed = [l \in Loops |-> 0]
    /\ active = [i \in Ids |-> NoOne]
    /\ stopper = "idle"
    /\ closed = {}
    /\ excused = {}

Busy(l) == job[l] # NoJob
IdIn(l) == IdOf[job[l].message]
Held(l) == job[l].left > 0

-----------------------------------------------------------------------------
(* The receivers and their handlers. *)

\* The link takes a message ahead of the loop.
Deliver(l) ==
    /\ l \notin closed
    /\ Len(buffer[l]) < Prefetch
    /\ delivered < MaxDeliveries
    /\ delivered' = delivered + 1
    /\ \E m \in ready :
          /\ ready' = ready \ {m}
          /\ buffer' = [buffer EXCEPT ![l] =
                            Append(@, [message |-> m, left |-> LockDuration])]
    /\ UNCHANGED <<job, renewal, event, timer, elapsed, table, excused>>

\* process_receiver takes the next message; message_handler registers its
\* event, over the entry of another handler with the same id, and starts the
\* renewal task.
Begin(l) ==
    /\ ~Busy(l) /\ buffer[l] # <<>> /\ l \notin closed
    /\ LET d == Head(buffer[l]) IN
          /\ job' = [job EXCEPT ![l] = d]
          /\ active' = [active EXCEPT ![IdOf[d.message]] = l]
          /\ excused' = IF d.left > RenewalInterval THEN excused \ {l} ELSE excused \cup {l}
    /\ buffer' = [buffer EXCEPT ![l] = Tail(@)]
    /\ renewal' = [renewal EXCEPT ![l] = "waiting"]
    /\ event' = [event EXCEPT ![l] = FALSE]
    /\ timer' = [timer EXCEPT ![l] = RenewalInterval]
    /\ elapsed' = [elapsed EXCEPT ![l] = 0]
    /\ UNCHANGED <<broker, stopper, closed>>

\* The finally block sets the event it created and drops the table's entry
\* for the id, whoever's event that is.
FaultyOwnEvent(l) == active[IdIn(l)]

OwnEvent(l) == l

Finally(l) ==
    /\ event' = [e \in Loops |-> event[e] \/ e = OwnEvent(l)]
    /\ active' = [active EXCEPT ![IdIn(l)] = NoOne]
    /\ renewal' = [renewal EXCEPT ![l] = "none"]    \* renewal_task.cancel()
    /\ job' = [job EXCEPT ![l] = NoJob]
    /\ timer' = [timer EXCEPT ![l] = 0]
    /\ elapsed' = [elapsed EXCEPT ![l] = 0]
    /\ excused' = excused \ {l}
    /\ UNCHANGED <<delivered, buffer, stopper, closed>>

\* The handler is through: the message is completed, or it comes back, when it
\* was abandoned or could not be settled; without the lock it is back already.
Finish(l) ==
    /\ Busy(l)
    /\ \/ ready' = ready
       \/ Held(l) /\ ready' = ready \cup {job[l].message}
    /\ Finally(l)

-----------------------------------------------------------------------------
(* start_auto_renewal_task *)

Expired(l) == elapsed[l] > MaxProcessingTime

\* The event is set, or the message has been handled for too long.
RenewalEnds(l) ==
    /\ renewal[l] = "waiting"
    /\ event[l] \/ (timer[l] = 0 /\ Expired(l))
    /\ renewal' = [renewal EXCEPT ![l] = "none"]
    /\ timer' = [timer EXCEPT ![l] = 0]
    /\ UNCHANGED <<broker, buffer, job, event, elapsed, table, excused>>

\* How long the task waits after a renewal.
NextWait == RenewalInterval

Due(l) == renewal[l] = "waiting" /\ ~event[l] /\ timer[l] = 0 /\ ~Expired(l)

Renew(l) ==
    /\ Due(l) /\ Held(l) /\ l \notin closed
    /\ job' = [job EXCEPT ![l].left = LockDuration]
    /\ timer' = [timer EXCEPT ![l] = NextWait]
    /\ UNCHANGED <<broker, buffer, renewal, event, elapsed, table, excused>>

\* Any exception: the lock is lost, the receiver closed, the call failed.
RenewFails(l) ==
    /\ Due(l)
    /\ event' = [event EXCEPT ![l] = TRUE]
    /\ excused' = excused \cup {l}
    /\ UNCHANGED <<broker, buffer, job, renewal, timer, elapsed, table>>

-----------------------------------------------------------------------------
(* stop, and the clock. *)

\* _active_message_renewals.clear()
Stopped == [i \in Ids |-> NoOne]

\* The events the table knows are set before the first await.
Stop ==
    /\ stopper = "idle"
    /\ stopper' = "closing"
    /\ event' = [l \in Loops |-> event[l] \/ \E i \in Ids : active[i] = l]
    /\ active' = Stopped
    /\ UNCHANGED <<broker, buffer, job, renewal, timer, elapsed, closed, excused>>

\* One receiver after the other; what it had prefetched is forgotten.
Close(l) ==
    /\ stopper = "closing"
    /\ l \notin closed
    /\ closed' = closed \cup {l}
    /\ buffer' = [buffer EXCEPT ![l] = <<>>]
    /\ stopper' = IF closed' = Loops THEN "done" ELSE "closing"
    /\ UNCHANGED <<broker, job, renewal, event, timer, elapsed, active, excused>>

\* What is due happens before the clock moves on.
Quiet(l) ==
    /\ renewal[l] = "waiting" => ~event[l] /\ timer[l] > 0
    /\ Busy(l) \/ buffer[l] = <<>>

Older(d) == [d EXCEPT !.left = IF @ = 0 THEN 0 ELSE @ - 1]

\* The broker takes a message back when its lock runs out.
RunsOut(d) == d.left = 1

Tick ==
    /\ \A l \in Loops : Quiet(l)
    /\ \E l \in Loops : Busy(l)
    /\ job' = [l \in Loops |-> Older(job[l])]
    /\ buffer' = [l \in Loops |-> [i \in DOMAIN buffer[l] |-> Older(buffer[l][i])]]
    /\ ready' = ready \cup
          {job[l].message : l \in {k \in Loops : Busy(k) /\ RunsOut(job[k])}}
          \cup {m \in Messages : \E l \in Loops : \E i \in DOMAIN buffer[l] :
                    buffer[l][i].message = m /\ RunsOut(buffer[l][i])}
    /\ timer' = [l \in Loops |-> IF renewal[l] = "waiting" THEN timer[l] - 1 ELSE 0]
    /\ elapsed' = [l \in Loops |->
          IF Busy(l) /\ ~Expired(l) THEN elapsed[l] + 1 ELSE elapsed[l]]
    /\ UNCHANGED <<delivered, renewal, event, table, excused>>

RenewalStep(l) == RenewalEnds(l) \/ Renew(l) \/ RenewFails(l)

Next ==
    \/ \E l \in Loops : Deliver(l) \/ Begin(l) \/ Finish(l)
    \/ \E l \in Loops : RenewalStep(l)
    \/ Stop \/ \E l \in Loops : Close(l)
    \/ Tick

Spec == Init /\ [][Next]_vars

-----------------------------------------------------------------------------
(* Properties. *)

\* A message keeps its lock while it is handled, up to the longest processing
\* time: unless its handling began with less than one interval of the lock
\* left, one of its own renewals failed, or the worker is stopping.  The end
\* of another handler with the same id does not take it.
LockHeld ==
    \A l \in Loops :
        Busy(l) /\ l \notin excused /\ stopper = "idle" /\ ~Expired(l) => Held(l)

\* stop() is followed by the end of every renewal, the ones its table has
\* forgotten too: they fail on the closed receiver.
StopBegun == stopper = "closing"
NoneRenews == \A l \in Loops : renewal[l] = "none"
RenewalsEnd == StopBegun ~> NoneRenews
=============================================================================
