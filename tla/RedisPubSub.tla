----------------------------- MODULE RedisPubSub -----------------------------
(***************************************************************************)
(* The publish/subscribe part of RedisClient (_cache/redis_client.py): one *)
(* listener task per subscription, a table of the handlers and a table of  *)
(* the tasks, both keyed by channel and without a lock, used by            *)
(* subscribe_async, unsubscribe_async, dispose_async and dispose from any  *)
(* task.  Between two awaits a call is one action.                         *)
(***************************************************************************)
EXTENDS Integers, FiniteSets

CONSTANTS
    Callers,        \* the tasks that use the client
    Channels,
    MaxListeners    \* bound of the subscriptions that are made

PubSubAssumption ==
    /\ MaxListeners \in Nat
    /\ IsFiniteSet(Callers) /\ IsFiniteSet(Channels)

Listeners == 1 .. MaxListeners
None == 0
NoChannel == "no channel"

VARIABLES
    subscriptions,  \* _subscriptions: the channels with a handler
    tasks,          \* _pubsub_tasks: the listener of each channel
    channel,        \* the channel of each listener
    phase,          \* where each listener stands
    raised,         \* the listeners whose task ended with an exception
    disposed,       \* _disposed
    at,             \* where each caller stands
    on,             \* the channel it deals with, when it waits for one
    awaited,        \* the listener it waits for
    left,           \* the channels dispose_async has still to visit
    size,           \* how many there were when it began
    excused         \* history: channels whose calls overlapped, or that were
                    \* subscribed when dispose() was called

tables == <<subscriptions, tasks, disposed>>
listeners == <<channel, phase, raised>>
calls == <<at, on, awaited, left, size>>
vars == <<tables, listeners, calls, excused>>

Born == {l \in Listeners : phase[l] # "unborn"}
Live == {l \in Listeners : phase[l] \in {"created", "listening", "cleaning"}}

TypeOK ==
    /\ subscriptions \subseteq Channels
    /\ tasks \in [Channels -> Listeners \cup {None}]
    /\ channel \in [Born -> Channels]
    /\ phase \in [Listeners -> {"unborn", "created", "listening", "cleaning", "ended"}]
    /\ raised \subseteq Born
    /\ disposed \in BOOLEAN
    /\ at \in [Callers -> {"idle", "subscribing", "unsubscribing", "disposing"}]
    /\ on \in [Callers -> Channels \cup {NoChannel}]
    /\ awaited \in [Callers -> Listeners \cup {None}]
    /\ left \in [Callers -> SUBSET Channels]
    /\ size \in [Callers -> 0 .. Cardinality(Channels)]
    /\ excused \subseteq Channels

Init ==
    /\ subscriptions = {}
    /\ tasks = [ch \in Channels |-> None]
    /\ channel = << >>
    /\ phase = [l \in Listeners |-> "unborn"]
    /\ raised = {}
    /\ disposed = FALSE
    /\ at = [c \in Callers |-> "idle"]
    /\ on = [c \in Callers |-> NoChannel]
    /\ awaited = [c \in Callers |-> None]
    /\ left = [c \in Callers |-> {}]
    /\ size = [c \in Callers |-> 0]
    /\ excused = {}

-----------------------------------------------------------------------------
(* The listener tasks. *)

Start(l) ==
    /\ phase[l] = "created"
    /\ phase' = [phase EXCEPT ![l] = "listening"]
    /\ UNCHANGED <<tables, channel, raised, calls, excused>>

\* A handler or a decode that raises reaches self._logger, which no
\* RedisClient has: the AttributeError ends the loop.  So does a lost
\* connection, by the same way.
ListenerFails(l) ==
    /\ phase[l] = "listening"
    /\ phase' = [phase EXCEPT ![l] = "cleaning"]
    /\ raised' = raised \cup {l}
    /\ UNCHANGED <<tables, channel, calls, excused>>

\* The finally block: pubsub.unsubscribe and pubsub.close, which may raise.
Clean(l) ==
    /\ phase[l] = "cleaning"
    /\ phase' = [phase EXCEPT ![l] = "ended"]
    /\ raised' \in {raised, raised \cup {l}}
    /\ UNCHANGED <<tables, channel, calls, excused>>

\* task.cancel(): a task that has not started never enters its try block; one
\* that is cleaning up already is cut short, and its exception forgotten.
Cancelled(l) ==
    /\ phase' = [phase EXCEPT ![l] = IF @ = "listening" THEN "cleaning" ELSE "ended"]
    /\ raised' = IF phase[l] = "ended" THEN raised ELSE raised \ {l}

-----------------------------------------------------------------------------
(* The calls. *)

\* The calls that deal with a channel now: dispose_async deals with all.
CallsOn(ch) ==
    {c \in Callers : at[c] = "disposing" \/ (at[c] # "idle" /\ on[c] = ch)}

Busy(ch) == CallsOn(ch) # {}

Subscribe(c, ch) ==
    /\ at[c] = "idle"
    /\ Cardinality(Born) + Cardinality({d \in Callers : at[d] = "subscribing"}) < MaxListeners
    /\ subscriptions' = subscriptions \cup {ch}
    /\ at' = [at EXCEPT ![c] = "subscribing"]
    /\ on' = [on EXCEPT ![c] = ch]
    /\ excused' = IF Busy(ch) \/ ch \in subscriptions THEN excused \cup {ch} ELSE excused
    /\ UNCHANGED <<tasks, disposed, listeners, awaited, left, size>>

\* pubsub.subscribe is answered: the task is created, over the table's entry
\* of an earlier one.
Subscribed(c) ==
    /\ at[c] = "subscribing"
    /\ LET l == Cardinality(Born) + 1 IN
          /\ phase' = [phase EXCEPT ![l] = "created"]
          /\ channel' = [k \in Born \cup {l} |-> IF k = l THEN on[c] ELSE channel[k]]
          /\ tasks' = [tasks EXCEPT ![on[c]] = l]
    /\ at' = [at EXCEPT ![c] = "idle"]
    /\ on' = [on EXCEPT ![c] = NoChannel]
    /\ UNCHANGED <<subscriptions, raised, disposed, awaited, left, size, excused>>

SubscribeFails(c) ==
    /\ at[c] = "subscribing"
    /\ subscriptions' = subscriptions \ {on[c]}
    /\ at' = [at EXCEPT ![c] = "idle"]
    /\ on' = [on EXCEPT ![c] = NoChannel]
    /\ UNCHANGED <<tasks, disposed, listeners, awaited, left, size, excused>>

\* The channel's task leaves the table and is cancelled and awaited.
Unsubscribe(c, ch) ==
    /\ at[c] = "idle"
    /\ excused' = IF Busy(ch) THEN excused \cup {ch} ELSE excused
    /\ \/ /\ tasks[ch] # None
          /\ on' = [on EXCEPT ![c] = ch]
          /\ tasks' = [tasks EXCEPT ![ch] = None]
          /\ Cancelled(tasks[ch])
          /\ awaited' = [awaited EXCEPT ![c] = tasks[ch]]
          /\ at' = [at EXCEPT ![c] = "unsubscribing"]
          /\ UNCHANGED subscriptions
       \/ /\ tasks[ch] = None
          /\ subscriptions' = subscriptions \ {ch}
          /\ UNCHANGED <<tasks, phase, raised, awaited, at, on>>
    /\ UNCHANGED <<disposed, channel, left, size>>

\* The task has ended; an exception of its own ends the call before the
\* handler is forgotten.
Unsubscribed(c) ==
    /\ at[c] = "unsubscribing"
    /\ phase[awaited[c]] = "ended"
    /\ subscriptions' = IF awaited[c] \in raised THEN subscriptions ELSE subscriptions \ {on[c]}
    /\ at' = [at EXCEPT ![c] = "idle"]
    /\ on' = [on EXCEPT ![c] = NoChannel]
    /\ awaited' = [awaited EXCEPT ![c] = None]
    /\ UNCHANGED <<tasks, disposed, listeners, left, size, excused>>

-----------------------------------------------------------------------------
(* dispose_async and dispose *)

Listed == {ch \in Channels : tasks[ch] # None}

DisposeAsync(c) ==
    /\ at[c] = "idle" /\ ~disposed
    /\ at' = [at EXCEPT ![c] = "disposing"]
    /\ left' = [left EXCEPT ![c] = Listed]
    /\ size' = [size EXCEPT ![c] = Cardinality(Listed)]
    /\ excused' = excused \cup {ch \in Channels : Busy(ch)}
    /\ UNCHANGED <<tables, listeners, on, awaited>>

Return(c) ==
    /\ at' = [at EXCEPT ![c] = "idle"]
    /\ awaited' = [awaited EXCEPT ![c] = None]
    /\ left' = [left EXCEPT ![c] = {}]
    /\ size' = [size EXCEPT ![c] = 0]

\* No task to wait for, or the one that was awaited has ended.
Resumes(c) == at[c] = "disposing" /\ (awaited[c] # None => phase[awaited[c]] = "ended")

\* What ends the loop: the exception of a task, or a dictionary that changed
\* its size while the loop was waiting.
Breaks(c) == awaited[c] \in raised \/ Cardinality(Listed) # size[c]

DisposeBreaks(c) ==
    /\ Resumes(c) /\ Breaks(c)
    /\ Return(c)
    /\ UNCHANGED <<tables, listeners, on, excused>>

DisposeNext(c) ==
    /\ Resumes(c) /\ ~Breaks(c)
    /\ \E ch \in left[c] \cap Listed :
          /\ Cancelled(tasks[ch])
          /\ awaited' = [awaited EXCEPT ![c] = tasks[ch]]
          /\ left' = [left EXCEPT ![c] = @ \ {ch}]
    /\ UNCHANGED <<tables, channel, at, on, size, excused>>

FaultyVisited(c) == TRUE

Visited(c) == left[c] \cap Listed = {}

\* Both tables are cleared.
Disposed(c) ==
    /\ Resumes(c) /\ ~Breaks(c) /\ Visited(c)
    /\ tasks' = [ch \in Channels |-> None]
    /\ subscriptions' = {}
    /\ disposed' = TRUE
    /\ Return(c)
    /\ UNCHANGED <<listeners, on, excused>>

\* dispose() clears the handlers; the tasks listen on.
Dispose ==
    /\ ~disposed
    /\ disposed' = TRUE
    /\ subscriptions' = {}
    /\ excused' = excused \cup Listed \cup {ch \in Channels : Busy(ch)}
    /\ UNCHANGED <<tasks, listeners, calls>>

\* A call that waited for a listener goes on.
GoesOn(c) == Unsubscribed(c) \/ DisposeBreaks(c) \/ DisposeNext(c) \/ Disposed(c)

Next ==
    \/ \E l \in Listeners : Start(l) \/ ListenerFails(l) \/ Clean(l)
    \/ \E c \in Callers, ch \in Channels : Subscribe(c, ch) \/ Unsubscribe(c, ch)
    \/ \E c \in Callers :
          Subscribed(c) \/ SubscribeFails(c) \/ DisposeAsync(c) \/ GoesOn(c)
    \/ Dispose

Spec == Init /\ [][Next]_vars

-----------------------------------------------------------------------------
(* Properties. *)

Quiet(ch) == ch \notin excused /\ ~Busy(ch)

\* When the calls on a channel did not overlap, it has one listener at most,
\* and the tables know it: once unsubscribe_async or dispose_async has
\* returned, and the handler is forgotten, nothing listens to the channel.
ListenersAreKnown ==
    \A ch \in Channels : Quiet(ch) =>
        /\ \A l \in Live : channel[l] = ch => tasks[ch] = l
        /\ tasks[ch] # None => ch \in subscriptions

\* A call that waits for a listener returns.
Waits(c) == at[c] \in {"unsubscribing", "disposing"}
Returned(c) == at[c] = "idle"
CallsReturn == \A c \in Callers : Waits(c) ~> Returned(c)
=============================================================================
