------------------------------- MODULE MCBattery -------------------------------
(* A DME that answers, refuses and falls silent, and one that is busy at first. *)
EXTENDS Battery, MCVinTables

MCDmeScripts == { <<"ok", "refused", "silent">>, <<"pending", "ok", "ok">> }
===============================================================================
