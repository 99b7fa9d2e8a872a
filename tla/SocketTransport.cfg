\* One sender on a connection, err read as NULL, whole writes.
CONSTANTS
    s1 = s1
    s2 = s2
    NONE = NONE
    Senders <- OneSender
    MaxSends = 2
    Lens = {1, 2}
    ErrGarbage <- ErrNull
    ShortWrites = FALSE
SPECIFICATION Spec
INVARIANT TypeOK
INVARIANT FrameIntact
\* The reader stops for good once it has crashed, and the senders stop
\* after MaxSends messages; nothing runs after that.
CHECK_DEADLOCK FALSE
