SPECIFICATION FairSpec
CONSTANTS
    K = 2
    R = 1
    maxOldBlocks = 0
    flushAge = 1
    blockKeepAge = 1
    repairCap = 1
    MaxBlock = 2
    MaxSends = 4
    p1 = p1
    p2 = p2
    Paths <- TwoPaths
    Carried <- MCCarried
INVARIANT OrderedWithinBlock
INVARIANT AnyKSuffice
INVARIANT NothingForgotten
INVARIANT NotClosedEarly
PROPERTY EventuallyDelivered
CHECK_DEADLOCK FALSE
