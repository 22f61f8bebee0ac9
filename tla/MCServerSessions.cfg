SPECIFICATION Spec
CONSTANTS
    a1 = a1  a2 = a2  a3 = a3  i1 = i1  i2 = i2  u = u  v = v  h = h
    w1 = w1  w2 = w2  Corrupt = Corrupt
    Attempts <- TwoAttempts
    IPs <- TwoIPs
    Logins <- TwoLogins
    Hubs <- OneHub
    ipOf <- From
    loginOf <- Says
    hubOf <- Into
    Streams <- Stream
    Admins = {w1}
    MaxOps = 3
    MaxRestarts = 1
INVARIANT SessionsAreMembers
INVARIANT MembersAccountedFor
INVARIANT LoginBanHolds
INVARIANT BlocksCanBeLifted
PROPERTY BansSurviveRestart
CHECK_DEADLOCK FALSE
