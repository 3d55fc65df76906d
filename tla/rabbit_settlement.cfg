\* A message routed to two queues; acknowledgements may be lost.
\* Checking stops where every message was sent and has left the broker.
CONSTANTS
    m1 = m1
    m2 = m2
    q1 = q1
    q2 = q2
    t1 = t1
    t2 = t2
    None = None
    Messages = {m1}
    Queues = {q1, q2}
    Routes <- FanOut
    Undecodable = {}
    Tasks = {t1, t2}
    MaxLosses = 2
SPECIFICATION FairSpec
INVARIANT UnsettledKeepsGrant
PROPERTIES BusinessOpAckDel EveryCopyEnds
CHECK_DEADLOCK FALSE
