SPECIFICATION FairSpec
CONSTANTS
    x1 = x1
    x2 = x2
    x3 = x3
    x4 = x4
    None = None
    Sids <- MCSids
    pingInterval = 3
    keepaliveTimeout = 6
    staleAfter = 9
    cleanupEvery = 6
    authTimeout = 3
    retryDelay = 1
    udpAttempts = 2
    maxDelay = 1
    MaxFaults = 3
    MaxRestarts = 1
INVARIANT SessionOutlivesClient
INVARIANT DetectsLostSession
PROPERTY Recovers
