------------------------------- MODULE VinDecode -------------------------------
(***************************************************************************)
(* What a VIN says about a car: its chassis, the model that is displayed    *)
(* and the ISTA platform that selects the battery's DIDs.  A VIN is a       *)
(* record of the characters that are looked at: fa (four of them), key,     *)
(* body, engine and year, which is a number.  The tables are parameters.    *)
(***************************************************************************)
EXTENDS Naturals, Sequences

CONSTANTS
    FaTypeKeys, TypeKeys2, TypeKeys, FseriesAltKeys, GseriesIntroMY,
    BodyCodes, EngineCodes, Variants, FaChassisPlatform, ChassisPlatform,
    None

\* The best variant of a chassis: Europe counts two, left-hand drive one, and
\* the first of the best ones wins.
lookupVariant(chassis, drive, eng) ==
    LET fits == SelectSeq(Variants, LAMBDA v : /\ v.chassis = chassis /\ v.drive = drive
                                               /\ eng \in {""} \cup v.engines)
        score(v) == (IF v.europe THEN 2 ELSE 0) + (IF v.left THEN 1 ELSE 0)
        best == {i \in DOMAIN fits : \A j \in DOMAIN fits : score(fits[i]) >= score(fits[j])}
    IN  IF fits = <<>> THEN None
        ELSE fits[CHOOSE i \in best : \A j \in best : i <= j]

platformForChassis(c) ==
    IF c \in DOMAIN FaChassisPlatform THEN FaChassisPlatform[c]
    ELSE IF c \in DOMAIN ChassisPlatform THEN ChassisPlatform[c] ELSE ""

Unknown == [chassis |-> "", model |-> <<>>]

\* From an entry of the hand-made tables to a chassis and a model.
FromEntry(vin, e) ==
    LET b == IF vin.body \in DOMAIN BodyCodes THEN BodyCodes[vin.body]
             ELSE [touring |-> FALSE, xdrive |-> FALSE]
        chassis == IF b.touring /\ e.tourer # "" THEN e.tourer ELSE e.chassis
        eng == IF vin.engine \in DOMAIN EngineCodes THEN EngineCodes[vin.engine] ELSE ""
        drive == IF b.xdrive THEN "AWD" ELSE IF e.fwd THEN "FWD" ELSE "RWD"
        exact == lookupVariant(chassis, drive, eng)
        db == IF exact # None THEN exact ELSE lookupVariant(chassis, drive, "")
    IN  [chassis |-> chassis,
         model |-> IF db # None THEN <<chassis, db.model>> ELSE <<chassis, e.series, eng, drive>>]

FromFa(fa) == [chassis |-> fa.chassis, model |-> <<fa.chassis, fa.model, fa.xdrive>>]

\* A key that was used again for a G-series car means the F-series car in the
\* model years before.
ByYear(vin) ==
    IF vin.key \in DOMAIN GseriesIntroMY /\ vin.year < GseriesIntroMY[vin.key]
    THEN FseriesAltKeys ELSE TypeKeys

\* Four characters decide if they were seen in a real car, otherwise the type
\* key and the model year do.
decodeVIN(vin) ==
    CASE vin.fa \in DOMAIN FaTypeKeys -> FromFa(FaTypeKeys[vin.fa])
      [] vin.fa \notin DOMAIN FaTypeKeys /\ vin.key \in DOMAIN ByYear(vin) ->
            FromEntry(vin, ByYear(vin)[vin.key])
      [] OTHER -> Unknown

\* The standalone package looks at a key of two characters first.
decodeVIN_standalone(vin) ==
    CASE vin.fa \in DOMAIN FaTypeKeys -> FromFa(FaTypeKeys[vin.fa])
      [] vin.fa \notin DOMAIN FaTypeKeys /\ <<vin.key, vin.body>> \in DOMAIN TypeKeys2 ->
            FromEntry(vin, TypeKeys2[<<vin.key, vin.body>>])
      [] vin.fa \notin DOMAIN FaTypeKeys /\ <<vin.key, vin.body>> \notin DOMAIN TypeKeys2
         /\ vin.key \in DOMAIN ByYear(vin) -> FromEntry(vin, ByYear(vin)[vin.key])
      [] OTHER -> Unknown
===============================================================================
