SPECIFICATION Spec
CONSTANTS
    WordBits = 2
    Words = 3
    MaxCounter = 11
INVARIANT WindowIsHistory
PROPERTY ImplementsReplaySpec
