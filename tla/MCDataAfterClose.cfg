CONSTANTS
    Out = a
    Ins = {b}
    MaxSends <- MCSendsOutOnly
    INITIAL_WINDOW_SIZE = 2
    MIN_WINDOW_SIZE = 1
    MAX_WINDOW_SIZE = 2
    MAX_NUM_RESEND_ATTEMPTS = 1
    MTU = 1
    NACK_LIMIT = 2
    HOST_LITTLE_ENDIAN = FALSE
    RTO_OUTCOMES = {"initial"}
    GROW_OUTCOMES = {FALSE}
    PATH_OUTCOMES = {"keep"}
    DUPLICATION = FALSE
    APP_READS = TRUE
    RECEIVE_LEN = 1
    RECEIVE_BLOCKING = {}
    RECEIVE_GIVES_UP = FALSE
    CLOSE_RACE = FALSE
    DEST_CALLS = FALSE
SPECIFICATION ReadingSpec
CONSTRAINT StateBoundCC
\* a quiescent connection waits for its applications: it may stop
CHECK_DEADLOCK FALSE
PROPERTIES
    ByteStreamRefined
