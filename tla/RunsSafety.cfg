SPECIFICATION Spec
CONSTANTS
    Tasks = {"crs"}
    Kind <- MCKind
    RunsOn <- MCRunsOn
    BootSync <- MCBootSync
    Cancelable <- MCHasHook
    HasHook <- MCHasHook
    c1 = c1
    c2 = c2
    Clients = {c1, c2}
    MaxCalls = 5
    MaxTicks = 1
SYMMETRY ClientSymmetry
CHECK_DEADLOCK FALSE
INVARIANTS ImportWindowQuiet InFlightExact NoForbiddenRun StopReachesRun HookHitsItsRun
