-------------------------- MODULE BackgroundWorkers --------------------------
(***************************************************************************)
(* The workers that run beside the requests: the log exporter, the trace   *)
(* exporter, the lock renewal of the Azure worker and the listeners of the *)
(* Redis client.  They share no state, so they are checked as              *)
(* alternatives: part names the one that acts in a behaviour.              *)
(***************************************************************************)
EXTENDS LogExporter

CONSTANTS
    MaxSpans, QueueSize, Unencodable,
    Loops, Messages, IdOf, Prefetch, LockDuration, RenewalInterval, MaxProcessingTime,
    MaxDeliveries,
    Callers, Channels, MaxListeners

VARIABLES
    part,
    handed, next, spanQueue, at, spanBuffer, spansStored, spansLost, refused,
    tracingStops, spansPromised,
    ready, delivered, prefetched, job, renewal, event, timer, elapsed, active,
    workerStops, closed, handlersExcused,
    subscriptions, tasks, channel, phase, raised, disposed, callAt, on, awaited,
    left, size, channelsExcused

Trace == INSTANCE TraceExporter
         WITH queue <- spanQueue, buffer <- spanBuffer, stored <- spansStored,
              lost <- spansLost, stopping <- tracingStops, promised <- spansPromised

Renewal == INSTANCE AzureRenewal
           WITH buffer <- prefetched, stopper <- workerStops, excused <- handlersExcused

Redis == INSTANCE RedisPubSub WITH at <- callAt, excused <- channelsExcused

ASSUME WorkersAssumption ==
    /\ Trace!TraceAssumption
    /\ Renewal!RenewalAssumption
    /\ Redis!PubSubAssumption

traceVars == <<handed, next, spanQueue, at, spanBuffer, spansStored, spansLost, refused,
               tracingStops, spansPromised>>
renewalVars == <<ready, delivered, prefetched, job, renewal, event, timer, elapsed, active,
                 workerStops, closed, handlersExcused>>
redisVars == <<subscriptions, tasks, channel, phase, raised, disposed, callAt, on, awaited,
               left, size, channelsExcused>>
workersVars == <<part, vars, traceVars, renewalVars, redisVars>>

workersInit ==
    /\ part \in {"log", "trace", "renewal", "redis"}
    /\ Init /\ Trace!Init /\ Renewal!Init /\ Redis!Init

LogActs ==
    part = "log" /\ Next /\ UNCHANGED <<part, traceVars, renewalVars, redisVars>>

TraceActs ==
    part = "trace" /\ Trace!Next /\ UNCHANGED <<part, vars, renewalVars, redisVars>>

RenewalActs ==
    part = "renewal" /\ Renewal!Next /\ UNCHANGED <<part, vars, traceVars, redisVars>>

RedisActs ==
    part = "redis" /\ Redis!Next /\ UNCHANGED <<part, vars, traceVars, renewalVars>>

workersNext == LogActs \/ TraceActs \/ RenewalActs \/ RedisActs

\* The exporters' threads are scheduled, and their inserts return or raise.
ExporterFairness ==
    /\ WF_vars(part = "log" /\ Work)
    /\ WF_vars(part = "log" /\ Joined)
    /\ WF_traceVars(part = "trace" /\ Trace!Run)
    /\ \A d \in {"worker", "flusher", "stopper"} :
          WF_traceVars(part = "trace" /\ Trace!Flush(d))
    /\ WF_traceVars(part = "trace" /\ Trace!Joined)

\* Time passes, what is due happens, and stop() goes on.
RenewalFairness ==
    /\ WF_renewalVars(part = "renewal" /\ Renewal!Tick)
    /\ \A l \in Loops :
          /\ WF_renewalVars(part = "renewal" /\ Renewal!Begin(l))
          /\ WF_renewalVars(part = "renewal" /\ Renewal!RenewalStep(l))
          /\ WF_renewalVars(part = "renewal" /\ Renewal!Close(l))

\* Tasks that can go on do, and the clean-up of a listener ends or fails.
RedisFairness ==
    /\ \A l \in 1 .. MaxListeners :
          /\ WF_redisVars(part = "redis" /\ Redis!Start(l))
          /\ WF_redisVars(part = "redis" /\ Redis!Clean(l))
    /\ \A c \in Callers : WF_redisVars(part = "redis" /\ Redis!GoesOn(c))

WorkersSpec ==
    /\ workersInit /\ [][workersNext]_workersVars
    /\ ExporterFairness /\ RenewalFairness /\ RedisFairness

-----------------------------------------------------------------------------
(* The properties of the four, each while it is the one that acts: in the    *)
(* other behaviours it rests in its initial state.                           *)

\* The state of each worker stays well formed; a queue, a batch or a prefetch
\* buffer stays within its size.
WorkersTypeOK ==
    /\ part = "log" => TypeOK
    /\ part = "trace" => Trace!TypeOK
    /\ part = "renewal" => Renewal!TypeOK
    /\ part = "redis" => Redis!TypeOK

\* Every log record is in one place, and so is every span export() has dealt
\* with: none is stored twice, none vanishes when a worker ends.
NothingVanishes ==
    /\ part = "log" => AccountedFor
    /\ part = "trace" => Trace!AccountedFor

\* The records of one thread are stored in the order it logged them.
RecordsStoredInOrder == part = "log" => StoredInOrder

\* What was queued before force_flush() or shutdown() is out of the queue
\* when the call has returned.
SpansDrained == part = "trace" => Trace!Drained

\* A message keeps its lock while it is handled.
LockHeld == part = "renewal" => Renewal!LockHeld

\* Nothing listens to a channel that the client's tables have forgotten.
ListenersAreKnown == part = "redis" => Redis!ListenersAreKnown

\* What waits in each part, and what ends the wait: stop() of the log exporter,
\* a queued span, stop() of the worker, a call that awaits a listener.
Waits(i) ==
    \/ part = "log" /\ StopWaits
    \/ part = "trace" /\ i \in Trace!Spans /\ Trace!Waits(i)
    \/ part = "renewal" /\ Renewal!StopBegun
    \/ part = "redis" /\ i \in Callers /\ Redis!Waits(i)

Ends(i) ==
    \/ part = "log" /\ StopReturned
    \/ part = "trace" /\ i \in Trace!Spans /\ Trace!Settled(i)
    \/ part = "renewal" /\ Renewal!NoneRenews
    \/ part = "redis" /\ i \in Callers /\ Redis!Returned(i)

\* Every wait ends: stop() of the log exporter returns, a span that was queued
\* before shutdown() is settled, the renewals end after stop() of the worker,
\* and unsubscribe_async and dispose_async return.
EveryWaitEnds == \A i \in (1 .. MaxSpans) \cup Callers : Waits(i) ~> Ends(i)
=============================================================================
