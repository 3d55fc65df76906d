\* Two threads, batches of two.
\* Checking stops where every record was logged and the worker has ended.
CONSTANTS
    t1 = t1
    t2 = t2
    Threads = {t1, t2}
    MaxRecords = 2
    BatchSize = 2
SPECIFICATION Spec
INVARIANT StopFlushes
CHECK_DEADLOCK FALSE
