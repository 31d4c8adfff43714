SPECIFICATION MCConcurrentSpec
CONSTANTS
    Senders = {s1, s2, s3}
    MaxReconnections = 3
    MaxGraces = 3
SYMMETRY Symmetry
INVARIANTS LockIsReleased
CHECK_DEADLOCK FALSE
