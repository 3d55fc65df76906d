\* Three messages, three tokens, five other contexts.
\* Checking stops where no message is left to send.
CONSTANTS
    t1 = t1
    t2 = t2
    u1 = u1
    u2 = u2
    o1 = o1
    o2 = o2
    k1 = k1
    k2 = k2
    v1 = v1
    v2 = v2
    w1 = w1
    w2 = w2
    None = None
    Tenants = {t1, t2}
    Users = {u1, u2}
    Organizations = {o1, o2}
    Clients = {k1, k2}
    Materials = {v1, v2}
    Tokens <- ThreeTokens
    Overrides <- OtherContexts
    Workers = {w1, w2}
    MaxMessages = 3
SYMMETRY WorkersAlike
SPECIFICATION Spec
INVARIANTS ChainKeepsSubject UnbrokenChainContinues
CHECK_DEADLOCK FALSE
