SPECIFICATION MCSpec
CONSTANTS
    Senders = {forwarder, main}
    MaxReconnections = 8
    MaxGraces = 2
INVARIANTS TypeOK OneGracePerBackoff BackoffIsQuiet LockIsReleased HealthyHasNoFailures
PROPERTIES GraceIncreases BackoffEnds ImplementsBackoff
