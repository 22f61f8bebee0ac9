------------------------------ MODULE MCDiscovery ------------------------------
(* The tunnel adapter and one ENET cable. *)
EXTENDS Discovery, MCVinTables

Nic(name, tunnel) == [name |-> name, linkLocal |-> TRUE, tunnel |-> tunnel]
MCNics == << Nic("tun", TRUE), Nic("enet", FALSE) >>
===============================================================================
