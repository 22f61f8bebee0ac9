CONSTANTS
    Hellos = {1, 2}
    Conns = {c1, c2}
    Spliced <- MCSpliced
    Apart = TRUE
    Servers <- MCServers
    Clients <- MCClients
    Pool <- MCPool
    timeWindow = 1
    Lag = 1
    Skews <- MCSkews
    MaxClock = 3
    MaxUnits = 2
    None = None
SPECIFICATION FairSpec
INVARIANTS NoReplay GenuineAdmitted NothingCutOff
PROPERTY FallbackEnds
CHECK_DEADLOCK FALSE
