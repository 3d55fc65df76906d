---------------------------- MODULE TraceExporter ----------------------------
(***************************************************************************)
(* MongoDBTraceExporter (_lmt/mongo_trace_exporter.py): export() puts      *)
(* spans into a bounded queue, a worker thread moves them into a buffer    *)
(* and inserts it into MongoDB, and force_flush() and shutdown() drain the *)
(* queue from threads of their own, next to the worker.  Every step        *)
(* between two operations on the queue, the stop event or the client is    *)
(* one action of its thread.                                               *)
(*                                                                         *)
(* The tenant of a span only names the collection it is inserted into.     *)
(* The batch span processor, which is external, calls export() from one    *)
(* thread at a time; it may still do so after shutdown(), when it gave up  *)
(* waiting for that thread.                                                *)
(***************************************************************************)
EXTENDS Integers, Sequences, SequencesExt

CONSTANTS
    MaxSpans,       \* bound of the number of spans
    QueueSize,      \* queue_size
    BatchSize,      \* batch_size
    Unencodable     \* spans with an attribute BSON has no encoding for

Spans == 1 .. MaxSpans          \* in the order they are exported

TraceAssumption ==
    /\ MaxSpans \in Nat
    /\ QueueSize \in Nat \ {0}
    /\ BatchSize \in Nat \ {0}
    /\ Unencodable \subseteq Spans

\* The worker, and the callers of force_flush() and shutdown().
Drainers == {"worker", "flusher", "stopper"}

VARIABLES
    handed,     \* how many spans export() was given
    next,       \* the span it puts into the queue next
    queue,
    at,         \* where each thread stands
    buffer,     \* what each has taken from the queue
    stored,
    lost,       \* what was taken and not stored
    refused,    \* what an export() that returned FAILURE did not queue
    stopping,   \* the stop event
    promised    \* history: what was queued when each thread was called

export == <<handed, next, refused>>
database == <<stored, lost>>
vars == <<handed, next, queue, at, buffer, stored, lost, refused, stopping, promised>>

TypeOK ==
    /\ handed \in 0 .. MaxSpans
    /\ next \in 1 .. handed + 1
    /\ queue \in Seq(Spans)
    /\ Len(queue) <= QueueSize
    /\ at \in [Drainers -> {"idle", "looping", "getting", "filling", "flushing", "waiting",
                           "joining", "draining", "inserting", "closing", "done", "raised"}]
    /\ buffer \in [Drainers -> Seq(Spans)]
    /\ Len(buffer["worker"]) <= BatchSize \/ at["worker"] \in {"draining", "inserting"}
    /\ stored \subseteq Spans
    /\ lost \subseteq Spans
    /\ refused \subseteq Spans
    /\ stopping \in BOOLEAN
    /\ promised \in [Drainers -> SUBSET Spans]

Init ==
    /\ handed = 0
    /\ next = 1
    /\ queue = <<>>
    /\ at = [d \in Drainers |-> IF d = "worker" THEN "looping" ELSE "idle"]
    /\ buffer = [d \in Drainers |-> <<>>]
    /\ stored = {}
    /\ lost = {}
    /\ refused = {}
    /\ stopping = FALSE
    /\ promised = [d \in Drainers |-> {}]

Goto(d, place) == at' = [at EXCEPT ![d] = place]

-----------------------------------------------------------------------------
(* export *)

Export ==
    /\ next > handed
    /\ handed' \in handed + 1 .. MaxSpans
    /\ UNCHANGED <<next, queue, at, buffer, database, refused, stopping, promised>>

HasRoom == Len(queue) < QueueSize

\* queue.Full ends the call with FAILURE: the spans before this one stay
\* queued.
Refuse == next' = handed + 1 /\ refused' = refused \cup (next .. handed)

\* put_nowait
Put ==
    /\ next <= handed
    /\ \/ HasRoom /\ queue' = Append(queue, next) /\ next' = next + 1 /\ UNCHANGED refused
       \/ ~HasRoom /\ Refuse /\ UNCHANGED queue
    /\ UNCHANGED <<handed, at, buffer, database, stopping, promised>>

-----------------------------------------------------------------------------
(* The queue and the database. *)

Take(d) ==
    /\ queue # <<>>
    /\ buffer' = [buffer EXCEPT ![d] = Append(@, Head(queue))]
    /\ queue' = Tail(queue)

\* _flush_remaining: until the queue is empty.
Drain(d) ==
    /\ at[d] = "draining"
    /\ \/ Take(d) /\ UNCHANGED at
       \/ queue = <<>> /\ Goto(d, "inserting") /\ UNCHANGED <<queue, buffer>>
    /\ UNCHANGED <<export, database, stopping, promised>>

\* buffer_by_tenant.clear()
Emptied(d) == <<>>

Closed == at["stopper"] = "done"

\* Where a thread goes after its insert; an exception that is no
\* PyMongoError ends it.
AfterInsert(d, escapes) ==
    CASE escapes -> "raised"
      [] ~escapes /\ at[d] = "flushing" -> "looping"
      [] ~escapes /\ at[d] = "inserting" /\ d = "stopper" -> "closing"
      [] OTHER -> "done"

\* _flush_to_mongo: some collections take all of their spans, some a part,
\* some none; a span that cannot be encoded raises, unless the client was
\* closed before.
Insert(d) ==
    /\ at[d] \in {"flushing", "inserting"}
    /\ LET taken == ToSet(buffer[d]) IN
       \E ok \in SUBSET (taken \ Unencodable) :
          /\ stored' = stored \cup ok
          /\ lost' = lost \cup (taken \ ok)
          /\ Goto(d, AfterInsert(d, taken \cap Unencodable # {} /\ ~Closed))
    /\ buffer' = [buffer EXCEPT ![d] = Emptied(d)]
    /\ UNCHANGED <<export, queue, stopping, promised>>

-----------------------------------------------------------------------------
(* _run *)

Loop ==
    /\ at["worker"] = "looping"
    /\ Goto("worker", IF stopping THEN "draining" ELSE "getting")
    /\ UNCHANGED <<export, queue, buffer, database, stopping, promised>>

\* get(timeout=flush_interval)
Get ==
    /\ at["worker"] = "getting"
    /\ \/ Take("worker") /\ Goto("worker", "filling")
       \/ queue = <<>> /\ Goto("worker", "looping") /\ UNCHANGED <<queue, buffer>>
    /\ UNCHANGED <<export, database, stopping, promised>>

\* Where the worker goes when the queue runs empty under it.
OnEmpty == "flushing"

\* get_nowait until the batch is full or the queue empty.
Fill ==
    /\ at["worker"] = "filling"
    /\ LET full == Len(buffer["worker"]) >= BatchSize IN
       \/ ~full /\ Take("worker") /\ UNCHANGED at
       \/ ~full /\ queue = <<>> /\ Goto("worker", OnEmpty) /\ UNCHANGED <<queue, buffer>>
       \/ full /\ Goto("worker", "flushing") /\ UNCHANGED <<queue, buffer>>
    /\ UNCHANGED <<export, database, stopping, promised>>

-----------------------------------------------------------------------------
(* force_flush and shutdown *)

Queued == (1 .. next - 1) \ refused

ForceFlush ==
    /\ at["flusher"] = "idle"
    /\ Goto("flusher", "waiting")
    /\ promised' = [promised EXCEPT !["flusher"] = Queued]
    /\ UNCHANGED <<export, queue, buffer, database, stopping>>

\* It saw the queue empty, or its time is up.
WaitEnds ==
    /\ at["flusher"] = "waiting"
    /\ Goto("flusher", "draining")
    /\ UNCHANGED <<export, queue, buffer, database, stopping, promised>>

Shutdown ==
    /\ at["stopper"] = "idle"
    /\ stopping' = TRUE
    /\ Goto("stopper", "joining")
    /\ promised' = [promised EXCEPT !["stopper"] = Queued]
    /\ UNCHANGED <<export, queue, buffer, database>>

FaultyAfterJoin == "closing"

AfterJoin == "draining"

\* The worker has ended, or join timed out.
Joined ==
    /\ at["stopper"] = "joining"
    /\ Goto("stopper", AfterJoin)
    /\ UNCHANGED <<export, queue, buffer, database, stopping, promised>>

Close ==
    /\ at["stopper"] = "closing"
    /\ Goto("stopper", "done")
    /\ UNCHANGED <<export, queue, buffer, database, stopping, promised>>

Run == Loop \/ Get \/ Fill

\* _flush_remaining and _flush_to_mongo, in any thread.
Flush(d) == Drain(d) \/ Insert(d)

Next ==
    \/ Export \/ Put
    \/ Run
    \/ \E d \in Drainers : Flush(d)
    \/ ForceFlush \/ WaitEnds
    \/ Shutdown \/ Joined \/ Close

Spec == Init /\ [][Next]_vars

-----------------------------------------------------------------------------
(* Properties. *)

Taken == buffer["worker"] \o buffer["flusher"] \o buffer["stopper"]

\* Each span export() has dealt with is in one place: queued, taken by one of
\* the three threads that drain the queue, stored, lost with an insert, or
\* refused by an export that reported FAILURE.
AccountedFor ==
    LET inHand == queue \o Taken IN
    /\ 1 .. next - 1 = ToSet(inHand) \cup stored \cup lost \cup refused
    /\ IsInjective(inHand)
    /\ ToSet(inHand) \cap (stored \cup lost \cup refused) = {}
    /\ stored \cap lost = {} /\ refused \cap (stored \cup lost) = {}

\* What was queued before force_flush() or shutdown() was called is out of the
\* queue when the call has returned, also when its wait timed out and the
\* worker still runs.
Drained ==
    \A d \in {"flusher", "stopper"} :
        at[d] = "done" => promised[d] \cap ToSet(queue) = {}

\* A span that was queued before shutdown() is stored or fails with its
\* insert, in the end, however few spans follow it; unless a span that cannot
\* be encoded has ended the worker.
Waits(s) == s \in ToSet(queue) /\ ~stopping
Settled(s) == s \in stored \cup lost \/ at["worker"] = "raised"
EverySpanSettles == \A s \in Spans : Waits(s) ~> Settled(s)
=============================================================================
