CONSTANTS
    Daemons = {"cert", "sync"}
    RunsOn <- MCRunsOn
    RestartOnRoleFlip <- MCRestartOnRoleFlip
    MaxRestarts = 1
    Callers = {c1}
    MaxCalls = 3
    MaxFaults = 2
SPECIFICATION FairSpec
INVARIANTS
    NoForbiddenDaemon
    StopLoopNotLost
    BranchFollowsRole
    NoLostDaemon
    ExhaustedIsFinal
PROPERTIES
    StopSpawnsNothing
    EnabledDaemonRuns
    StopSettles
CHECK_DEADLOCK FALSE
