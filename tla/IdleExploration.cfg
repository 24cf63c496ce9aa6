\* Two tasks a session, two a duty cycle.
CONSTANTS
    UserRequest = {u1}
    MaxGeneration = 3
    SessionLimit <- SmallSession
    DutyLimit <- SmallDuty
    TaskReplans = 1
SPECIFICATION FairSpec
CHECK_DEADLOCK FALSE
INVARIANTS
    AtMostOneLatePulse
    DriveMatchesMenu
    LeaseEndsWithItsTask
    DutyWithinBudget
PROPERTIES
    BudgetResetIsQuiet
    WaitingUserIsServed
