SPECIFICATION HubSpec
CONSTANTS
    s1 = s1
    s2 = s2
    s3 = s3
    m1 = m1
    m2 = m2
    Group = Group
    NoSession = NoSession
    Sessions <- MCSessions
    Loads <- MCLoads
    Macs <- MCMacs
    macTableTTL = 3
    refreshBelow = 1
SYMMETRY Symmetry
INVARIANT ReachesDestination
INVARIANT FloodsOnlyTheUnknown
INVARIANT TalkersStayKnown
