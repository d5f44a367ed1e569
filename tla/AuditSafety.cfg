SPECIFICATION Spec
CONSTANTS
    MaxTokens = 8
    MaxFaults = 1
    Threshold = 3
    Backlog = 4
    StallLimit = 1
INVARIANT NothingLost
PROPERTIES DrainedUnlessSame Shrinks
