CONSTANTS
    s1 = s1
    s2 = s2
    w1 = w1
    w2 = w2
    APP = APP
    NULL = NULL
    Streams = {s1, s2}
    Waiters = {w1, w2}
    MAX_PENDING_INCOMING_BACKLOG = 1
    MaxSetAcceptor = 1
SPECIFICATION FairSpec
\* every SYN handled and every handler run: the destination idles
CHECK_DEADLOCK FALSE
INVARIANTS
    TypeOK
    DisposedOnce
PROPERTIES
    PendingResolved
