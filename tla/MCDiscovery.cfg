SPECIFICATION Spec
CONSTANTS
    Pkgs = {"internal", "standalone"}
    Nics <- MCNics
    Cars <- CarsOnBench
    FaTypeKeys <- TabFaTypeKeys
    TypeKeys2 <- TabTypeKeys2
    TypeKeys <- TabTypeKeys
    FseriesAltKeys <- TabFseriesAltKeys
    GseriesIntroMY <- TabGseriesIntroMY
    BodyCodes <- TabBodyCodes
    EngineCodes <- TabEngineCodes
    Variants <- TabVariants
    FaChassisPlatform <- TabFaChassisPlatform
    ChassisPlatform <- TabChassisPlatform
    Receivers = {r1}
    MaxMoves = 3
    MaxPosted = 1
    None = None
PROPERTIES CarIsFound CarLossIsSeen
