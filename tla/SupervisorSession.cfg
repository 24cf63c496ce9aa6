\* Four numbers: heartbeat, arm, a drive and its replay.
CONSTANTS
    Command = {c1}
    MaxCommands = 2
    MaxSession = 2
    MaxSequence = 4
    NormalQueue = 1
    UrgentQueue = 1
    OutputQueue = 1
SPECIFICATION FairSpec
INVARIANTS MotionIsOwned ArmedIsClaimed SuccessIsTrue CommandRunsOnce
PROPERTIES StopPreventsStart StopIsServed
CHECK_DEADLOCK FALSE
