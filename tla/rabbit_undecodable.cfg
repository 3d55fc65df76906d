\* A message to one queue whose body is not UTF-8.
\* Checking stops where every message was sent and has left the broker.
CONSTANTS
    m1 = m1
    m2 = m2
    q1 = q1
    q2 = q2
    t1 = t1
    t2 = t2
    None = None
    Messages = {m1}
    Queues = {q1, q2}
    Routes <- OneQueue
    Undecodable = {m1}
    Tasks = {t1, t2}
    MaxLosses = 1
SPECIFICATION FairSpec
PROPERTY EveryCopyEnds
CHECK_DEADLOCK FALSE
