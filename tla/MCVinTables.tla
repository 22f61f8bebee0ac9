------------------------------ MODULE MCVinTables ------------------------------
(* Some rows of the tables of internal/zgw: an F10 of 2015 and a G20 of 2020 *)
(* that share the type key "5".                                              *)
EXTENDS Naturals, Sequences, TLC

Vin(ip, fa, year, built) ==
    [ip |-> ip, fa |-> fa, key |-> "5", body |-> "R", engine |-> "7", year |-> year,
     built |-> built]
F10 == Vin("169.254.1.10", "none", 15, "F")
G20 == Vin("169.254.1.20", "none", 20, "G")
CarsOnBench == {F10, G20}

Entry(chassis, tourer, series, fwd) ==
    [chassis |-> chassis, tourer |-> tourer, series |-> series, fwd |-> fwd]
TabFaTypeKeys == [k \in {"5F31"} |-> [chassis |-> "G20", model |-> "330i", xdrive |-> FALSE]]
TabTypeKeys2 == [k \in {<<"5", "R">>} |-> Entry("G20", "G21", "3", FALSE)]
TabTypeKeys == [k \in {"5"} |-> Entry("G20", "G21", "3", FALSE)]
TabFseriesAltKeys == [k \in {"5"} |-> Entry("F10", "F11", "5", FALSE)]
TabGseriesIntroMY == [k \in {"5"} |-> 19]
TabBodyCodes == [k \in {"N"} |-> [touring |-> TRUE, xdrive |-> TRUE]]
TabEngineCodes == [k \in {"7"} |-> "35d"]
TabVariants == << [chassis |-> "F10", drive |-> "RWD", engines |-> {"35d"}, model |-> "535d",
                  europe |-> FALSE, left |-> TRUE],
                 [chassis |-> "F10", drive |-> "RWD", engines |-> {"35d"}, model |-> "535d",
                  europe |-> TRUE, left |-> TRUE] >>
TabFaChassisPlatform == [c \in {"F10"} |-> "F010"]
TabChassisPlatform == [c \in {"G20", "G21"} |-> "S18A"]
TabSeries == [c \in {"F10", "F11"} |-> "F"] @@ [c \in {"G20", "G21"} |-> "G"]
===============================================================================
