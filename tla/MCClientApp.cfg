SPECIFICATION Spec
CONSTANTS
    Kits = {"walk", "fyne", "mini"}
    Settings <- MCSettings
    NicNames <- Names
    RadminNics <- Radmin
    MaxAttempts = 2
    MaxPosted = 2
INVARIANTS DisconnectedMeansStopped CapturesAsConfigured
PROPERTIES StatusCatchesUp CanTryAgain

CHECK_DEADLOCK FALSE
