SPECIFICATION FairSpec
CONSTANTS
    Tasks = {"cert", "load"}
    Kind <- MCKind
    RunsOn <- MCRunsOn
    BootSync <- MCBootSync
    Cancelable <- MCHasHook
    HasHook <- MCHasHook
    c1 = c1
    Clients = {c1}
    MaxCalls = 2
    MaxTicks = 2
CHECK_DEADLOCK FALSE
INVARIANTS BootRunsAlone BeatForgotten
PROPERTY StopDrains
