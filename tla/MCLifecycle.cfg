SPECIFICATION Spec
CONSTANTS
    Second = 5
    Margin = 1
    StopTimeout = 2
    PostTimeout = 2
    MaxPosts = 2
    Timeouts = {1, 2}
    ShutdownTime = 10
    MaxDelay = 7
    MaxTime = 15
INVARIANTS ServersAreStopped FlushHasMargin TimerNotEarly TimeoutIsDerived ExitIsBounded
