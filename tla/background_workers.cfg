\* Two threads with three records, batches of two; three spans through a queue
\* of two, the last of which cannot be encoded; two messages with one id, a
\* lock of three ticks renewed every two; two channels and two listeners.
\* Checking stops where everything was handled and stopped.
CONSTANTS
    t1 = t1
    t2 = t2
    Threads = {t1, t2}
    MaxRecords = 3
    BatchSize = 2
    MaxSpans = 3
    QueueSize = 2
    Unencodable = {3}
    m1 = m1
    m2 = m2
    l1 = l1
    l2 = l2
    Loops = {l1, l2}
    Messages = {m1, m2}
    IdOf <- MCIdOf
    Prefetch = 1
    LockDuration = 3
    RenewalInterval = 2
    MaxProcessingTime = 3
    MaxDeliveries = 3
    Callers = {1, 2}
    ch1 = ch1
    ch2 = ch2
    Channels = {ch1, ch2}
    MaxListeners = 2
SPECIFICATION WorkersSpec
INVARIANTS WorkersTypeOK NothingVanishes RecordsStoredInOrder SpansDrained LockHeld ListenersAreKnown
PROPERTY EveryWaitEnds
CHECK_DEADLOCK FALSE
