SPECIFICATION Spec
CONSTANTS
    p1 = p1
    p2 = p2
    None = None
    NFrames = 4
    Length <- FourFrames
    maxPiece = 2
    IdSpace = 3
    reassemblyTTL = 1
    maxPending = 2
    Paths <- TwoPaths
    SentOn <- FirstOnBoth
INVARIANT Intact
INVARIANT OnceWhileRemembered
PROPERTY NotCrowdedOut
CHECK_DEADLOCK FALSE
