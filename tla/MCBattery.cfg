SPECIFICATION BatterySpec
CONSTANTS
    Cars <- CarsOnBench
    FaTypeKeys <- TabFaTypeKeys
    TypeKeys2 <- TabTypeKeys2
    TypeKeys <- TabTypeKeys
    FseriesAltKeys <- TabFseriesAltKeys
    GseriesIntroMY <- TabGseriesIntroMY
    BodyCodes <- TabBodyCodes
    EngineCodes <- TabEngineCodes
    Variants <- TabVariants
    FaChassisPlatform <- TabFaChassisPlatform
    ChassisPlatform <- TabChassisPlatform
    Series <- TabSeries
    GSeriesPlatforms = {"S15A", "S15C", "S18A", "G045", "G070"}
    DmeScripts <- MCDmeScripts
    Polls = {p1, p2}
    MaxQueued = 1
    None = None
INVARIANTS PollFitsCar FieldFromItsDid
PROPERTY PollStops
