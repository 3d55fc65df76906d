\* Either one message whose failed send may still have arrived, so that two
\* copies of it may exist; or two messages that are sent once, one without a
\* context, the other of another sender, with a grant id that is no string.
\* Checking stops where every message was sent and has left the queue.
CONSTANTS
    m1 = m1
    m2 = m2
    m3 = m3
    w1 = w1
    w2 = w2
    None = None
    Messages = {m1, m2, m3}
    Workers = {w1, w2}
    Unsecured = {m2}
    Mistyped = {m3}
    MaxDeliveries = 2
    AmbiguousSends = {m1}
    Together = {{m1}, {m2, m3}}
SPECIFICATION MCSpec
INVARIANTS CompletedWasDone ContextIsolation UnsettledKeepsGrant
PROPERTIES BusinessOpAckDel EveryCopyEnds
CHECK_DEADLOCK FALSE
