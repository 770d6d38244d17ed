CONSTANTS
    Out = a
    Ins = {b}
    MaxSends <- MCSendsOne
    INITIAL_WINDOW_SIZE = 2
    MIN_WINDOW_SIZE = 1
    MAX_WINDOW_SIZE = 2
    MAX_NUM_RESEND_ATTEMPTS = 1
    MTU = 1
    NACK_LIMIT = 2
    HOST_LITTLE_ENDIAN = FALSE
    RTO_OUTCOMES = {"below", "initial", "above"}
    GROW_OUTCOMES = {FALSE, TRUE}
    PATH_OUTCOMES = {"keep", "initial"}
    DUPLICATION = TRUE
    APP_READS = FALSE
    RECEIVE_LEN = 1
    RECEIVE_BLOCKING = {}
    RECEIVE_GIVES_UP = FALSE
    CLOSE_RACE = FALSE
    DEST_CALLS = TRUE
SPECIFICATION Spec
CONSTRAINT StateBoundCC
\* a quiescent connection waits for its applications: it may stop
CHECK_DEADLOCK FALSE
INVARIANTS
    InOrderDelivery
    RetransmissionArmed
