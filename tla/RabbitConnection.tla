--------------------------- MODULE RabbitConnection ---------------------------
(***************************************************************************)
(* The connection of RabbitMessageClient (_message/rabbit_mq/              *)
(* rabbit_message_client.py, rabbit_mq_service.py): the first send opens   *)
(* it under an asyncio.Lock, in three awaited steps, and close() ends it   *)
(* without that lock.  The waiters of the lock form a line with the holder *)
(* at its head.  A connection the broker loses recovers by itself, which   *)
(* is left out.                                                            *)
(***************************************************************************)
EXTENDS Naturals, Sequences, SequencesExt

CONSTANTS
    Calls,          \* the sends
    MaxCancels,     \* bound of the cancellations
    MaxCloses       \* bound of the calls of close()

ConnectionAssumption == {MaxCancels, MaxCloses} \subseteq Nat

None == 0
Numbers == Nat \ {None}

VARIABLES
    initialized,    \* _initialized
    line,           \* _init_lock
    connection,     \* _connection
    channel,        \* _channel: the connection it was opened on
    open,           \* the connections that are open
    muted,          \* the connections whose channel was closed
    made,           \* how many were opened
    at,             \* where each call stands
    closing,        \* where close() stands
    target,         \* what it closes
    cancels,
    closes,
    abandoned       \* history: connections an initialisation or close() gave up

service == <<connection, channel, open, muted, made>>
closer == <<closing, target, closes>>
vars == <<initialized, line, service, at, closer, cancels, abandoned>>

Places == {"called", "queueing", "connecting", "opening", "declaring", "ready", "sent",
           "raised", "cancelled"}

TypeOK ==
    /\ initialized \in BOOLEAN
    /\ line \in Seq(Calls)
    /\ connection \in Numbers \cup {None}
    /\ channel \in Numbers \cup {None}
    /\ open \subseteq Numbers
    /\ muted \subseteq Numbers
    /\ made \in Nat
    /\ at \in [Calls -> Places]
    /\ closing \in {"idle", "channel", "connection"}
    /\ target \in Numbers \cup {None}
    /\ cancels \in 0 .. MaxCancels
    /\ closes \in 0 .. MaxCloses
    /\ abandoned \subseteq Numbers

Init ==
    /\ initialized = FALSE
    /\ line = <<>>
    /\ connection = None
    /\ channel = None
    /\ open = {}
    /\ muted = {}
    /\ made = 0
    /\ at = [c \in Calls |-> "called"]
    /\ closing = "idle"
    /\ target = None
    /\ cancels = 0
    /\ closes = 0
    /\ abandoned = {}

Goto(c, place) == at' = [at EXCEPT ![c] = place]

-----------------------------------------------------------------------------
(* _ensure_initialized_async and the send that follows it *)

Look(c) ==
    /\ at[c] = "called"
    /\ \/ initialized /\ Goto(c, "ready") /\ UNCHANGED line
       \/ ~initialized /\ Goto(c, "queueing") /\ line' = Append(line, c)
    /\ UNCHANGED <<initialized, service, closer, cancels, abandoned>>

FaultyInitializedByOther == FALSE

InitializedByOther == initialized

Enter(c) ==
    /\ at[c] = "queueing" /\ Head(line) = c
    /\ \/ InitializedByOther /\ Goto(c, "ready") /\ line' = Tail(line)
       \/ ~InitializedByOther /\ Goto(c, "connecting") /\ UNCHANGED line
    /\ UNCHANGED <<initialized, service, closer, cancels, abandoned>>

\* connect_robust: the new connection replaces the one before, open or not.
Connected(c) ==
    /\ at[c] = "connecting"
    /\ made' = made + 1
    /\ connection' = made'
    /\ open' = open \cup {made'}
    /\ Goto(c, "opening")
    /\ UNCHANGED <<initialized, line, channel, muted, closer, cancels, abandoned>>

Opened(c) ==
    /\ at[c] = "opening"
    /\ connection \in open
    /\ channel' = connection
    /\ Goto(c, "declaring")
    /\ UNCHANGED <<initialized, line, connection, open, muted, made, closer, cancels, abandoned>>

\* Every queue, exchange and binding is declared, one queue at least.
Declared(c) ==
    /\ at[c] = "declaring"
    /\ channel \in open \ muted
    /\ initialized' = TRUE
    /\ Goto(c, "ready")
    /\ line' = Tail(line)
    /\ UNCHANGED <<service, closer, cancels, abandoned>>

Opening(c) == at[c] \in {"opening", "declaring"}

\* An initialisation that ends early leaves what it has opened.
GiveUp(c) ==
    /\ abandoned' = IF Opening(c) THEN abandoned \cup {connection} ELSE abandoned
    /\ line' = RemoveFirst(line, c)

InitFails(c) ==
    /\ at[c] = "connecting" \/ Opening(c)
    /\ Goto(c, "raised")
    /\ GiveUp(c)
    /\ UNCHANGED <<initialized, service, closer, cancels>>

Cancel(c) ==
    /\ at[c] \in {"queueing", "connecting"} \/ Opening(c)
    /\ cancels < MaxCancels
    /\ cancels' = cancels + 1
    /\ Goto(c, "cancelled")
    /\ GiveUp(c)
    /\ UNCHANGED <<initialized, service, closer>>

Publish(c) ==
    /\ at[c] = "ready"
    /\ Goto(c, IF channel \in open \ muted THEN "sent" ELSE "raised")
    /\ UNCHANGED <<initialized, line, service, closer, cancels, abandoned>>

-----------------------------------------------------------------------------
(* close *)

\* When the connection is closed, or there was none: the flag goes last.  A
\* connection that is open then is one nothing will close.
CloseEnds(stillOpen) ==
    /\ initialized' = FALSE
    /\ closing' = "idle"
    /\ target' = None
    /\ abandoned' = abandoned \cup (stillOpen \cap {connection})

\* The channel is closed first, when there is an open one.
Close ==
    /\ closing = "idle"
    /\ closes < MaxCloses
    /\ closes' = closes + 1
    /\ channel \in open \ muted
    /\ closing' = "channel"
    /\ target' = channel
    /\ UNCHANGED <<initialized, line, service, at, cancels, abandoned>>

\* Then the connection, whichever it is by now.
CloseConnection ==
    /\ \/ closing = "channel" /\ muted' = muted \cup {target} /\ UNCHANGED closes
       \/ /\ closing = "idle" /\ closes < MaxCloses
          /\ channel \notin open \ muted
          /\ closes' = closes + 1
          /\ UNCHANGED muted
    /\ \/ /\ connection \in open
          /\ closing' = "connection"
          /\ target' = connection
          /\ UNCHANGED <<initialized, abandoned>>
       \/ connection \notin open /\ CloseEnds(open)
    /\ UNCHANGED <<line, connection, channel, open, made, at, cancels>>

\* An error is logged, and the connection may stay open.
ConnectionClosed ==
    /\ closing = "connection"
    /\ open' \in {open, open \ {target}}
    /\ CloseEnds(open')
    /\ UNCHANGED <<line, connection, channel, muted, made, at, cancels, closes>>

Step(c) ==
    \/ Look(c) \/ Enter(c) \/ Connected(c) \/ Opened(c) \/ Declared(c) \/ InitFails(c)
    \/ Publish(c)

Next ==
    \/ \E c \in Calls : Step(c) \/ Cancel(c)
    \/ Close \/ CloseConnection \/ ConnectionClosed

Spec == Init /\ [][Next]_vars

-----------------------------------------------------------------------------
(* Properties. *)

\* However many senders start at once, one connection is open: but for those
\* an initialisation that failed or a close() that met another left behind.
\* And a client that holds itself for initialised has an open channel, unless
\* close() runs: or its sends would fail for ever.
OneConnection ==
    /\ open \ {connection} \subseteq abandoned
    /\ initialized /\ closing = "idle" => channel \in open \ muted

\* Every send returns or raises.
Waits(c) == at[c] \notin {"sent", "raised", "cancelled"}
EveryCallReturns == \A c \in Calls : Waits(c) ~> ~Waits(c)
=============================================================================
