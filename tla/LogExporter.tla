----------------------------- MODULE LogExporter -----------------------------
(***************************************************************************)
(* MongoBatchLogger (_lmt/mongo_log_exporter.py): application threads put  *)
(* log records into an unbounded queue, one worker thread moves them into  *)
(* a batch and inserts full batches into MongoDB, and stop() ends the      *)
(* worker.  Every step between two operations on the queue, the stop event *)
(* or the collection is one action of its thread.                          *)
(***************************************************************************)
EXTENDS Integers, Sequences, SequencesExt

CONSTANTS
    Threads,        \* the threads that log
    MaxRecords,     \* bound of the records each of them logs
    BatchSize       \* batch_size

ASSUME ExporterAssumption ==
    /\ MaxRecords \in Nat
    /\ BatchSize \in Nat \ {0}

Records == Threads \X (1 .. MaxRecords)

VARIABLES
    logged,     \* how many records each thread has logged
    queue,      \* the queue
    batch,      \* the worker's batch
    stored,     \* what was inserted, in order
    lost,       \* what an insert that raised did not store
    stopping,   \* the stop event
    worker,     \* where the worker stands
    stopper,    \* where the caller of stop() stands
    promised    \* history: what was logged before stop() was called

vars == <<logged, queue, batch, stored, lost, stopping, worker, stopper, promised>>

TypeOK ==
    /\ logged \in [Threads -> 0 .. MaxRecords]
    /\ queue \in Seq(Records)
    /\ batch \in Seq(Records)
    /\ stored \in Seq(Records)
    /\ lost \subseteq Records
    /\ stopping \in BOOLEAN
    /\ worker \in {"looping", "getting", "checking", "inserting", "ending", "dead"}
    /\ stopper \in {"idle", "joining", "done"}
    /\ promised \subseteq Records
    /\ Len(batch) <= BatchSize

Init ==
    /\ logged = [t \in Threads |-> 0]
    /\ queue = <<>>
    /\ batch = <<>>
    /\ stored = <<>>
    /\ lost = {}
    /\ stopping = FALSE
    /\ worker = "looping"
    /\ stopper = "idle"
    /\ promised = {}

\* enqueue, called by MongoHandler.emit; also after stop().
Enqueue(t) ==
    /\ logged[t] < MaxRecords
    /\ logged' = [logged EXCEPT ![t] = @ + 1]
    /\ queue' = Append(queue, <<t, logged'[t]>>)
    /\ UNCHANGED <<batch, stored, lost, stopping, worker, stopper, promised>>

-----------------------------------------------------------------------------
(* _background_worker *)

\* while not self._stop_event.is_set()
Loop ==
    /\ worker = "looping"
    /\ worker' = IF stopping THEN "ending" ELSE "getting"
    /\ UNCHANGED <<logged, queue, batch, stored, lost, stopping, stopper, promised>>

FaultyDequeue ==
    /\ queue # <<>>
    /\ batch' = <<Head(queue)>> \o batch
    /\ queue' = Tail(queue)

Dequeue ==
    /\ queue # <<>>
    /\ batch' = Append(batch, Head(queue))
    /\ queue' = Tail(queue)

\* A get without a timeout waits for the next record.
FaultyTimesOut == queue # <<>> /\ UNCHANGED <<queue, batch>>

\* Empty: no record came within flush_interval_sec.
TimesOut == queue = <<>> /\ UNCHANGED <<queue, batch>>

Get ==
    /\ worker = "getting"
    /\ Dequeue \/ TimesOut
    /\ worker' = "checking"
    /\ UNCHANGED <<logged, stored, lost, stopping, stopper, promised>>

FaultyFull == Len(batch) > BatchSize

Full == Len(batch) >= BatchSize

Check ==
    /\ worker = "checking"
    /\ worker' = IF batch # <<>> /\ (Full \/ stopping) THEN "inserting" ELSE "looping"
    /\ UNCHANGED <<logged, queue, batch, stored, lost, stopping, stopper, promised>>

\* insert_many inserts in order: when it raises, the documents before the one
\* that failed are stored and the others are not.
InsertMany ==
    \E n \in 0 .. Len(batch) :
        /\ stored' = stored \o SubSeq(batch, 1, n)
        /\ lost' = lost \cup ToSet(SubSeq(batch, n + 1, Len(batch)))

\* The batch is emptied, though the insert failed.
Insert ==
    /\ worker = "inserting"
    /\ InsertMany
    /\ batch' = <<>>
    /\ worker' = "looping"
    /\ UNCHANGED <<logged, queue, stopping, stopper, promised>>

FaultyLastInsert == UNCHANGED <<stored, lost>>

LastInsert == InsertMany

\* After the loop: what the batch still holds is inserted.
End ==
    /\ worker = "ending"
    /\ LastInsert
    /\ batch' = <<>>
    /\ worker' = "dead"
    /\ UNCHANGED <<logged, queue, stopping, stopper, promised>>

-----------------------------------------------------------------------------
(* stop *)

AllLogged == {r \in Records : r[2] <= logged[r[1]]}

Stop ==
    /\ stopper = "idle"
    /\ stopper' = "joining"
    /\ stopping' = TRUE
    /\ promised' = AllLogged
    /\ UNCHANGED <<logged, queue, batch, stored, lost, worker>>

Joined ==
    /\ stopper = "joining"
    /\ worker = "dead"
    /\ stopper' = "done"
    /\ UNCHANGED <<logged, queue, batch, stored, lost, stopping, worker, promised>>

\* The worker's thread.
Work == Loop \/ Get \/ Check \/ Insert \/ End

Next ==
    \/ \E t \in Threads : Enqueue(t)
    \/ Work
    \/ Stop \/ Joined

Spec == Init /\ [][Next]_vars

-----------------------------------------------------------------------------
(* Properties. *)

\* Every record is in one place: still queued, in the batch, stored, or lost
\* with an insert that failed.  No record is stored twice, and none vanishes
\* when the worker ends.
AccountedFor ==
    /\ AllLogged = ToSet(queue) \cup ToSet(batch) \cup ToSet(stored) \cup lost
    /\ IsInjective(stored \o batch \o queue)
    /\ lost \cap ToSet(stored \o batch \o queue) = {}

\* The records of one thread are stored in the order it logged them.
StoredInOrder ==
    \A i, j \in DOMAIN stored :
        i < j /\ stored[i][1] = stored[j][1] => stored[i][2] < stored[j][2]

\* _background_worker: "flush remaining logs on shutdown".  When stop()
\* returns, what was logged before it was called is stored, unless its insert
\* failed.
StopFlushes ==
    stopper = "done" => promised \subseteq ToSet(stored) \cup lost

\* stop() returns.
StopWaits == stopper = "joining"
StopReturned == stopper = "done"
StopReturns == StopWaits ~> StopReturned
=============================================================================
