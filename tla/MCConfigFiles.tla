----------------------------- MODULE MCConfigFiles -----------------------------
(* Two files called client.toml, beside the program and in the user's home,  *)
(* one of another name, and one outside the directories that are searched.   *)
EXTENDS ConfigFiles

CONSTANTS exe, home, work, usb

MCFiles == {exe, home, work, usb}
MCBase  == (exe :> "client") @@ (home :> "client") @@ (work :> "work") @@ (usb :> "usb")
MCFound == {exe, home, work}

Cfg(s, h, f) == [server |-> s, hub |-> h, owner |-> f]
MCInitial == (exe :> Absent) @@ (home :> Cfg("s1", 2, home))
             @@ (work :> Cfg("s2", 3, work)) @@ (usb :> Cfg("s1", 4, usb))

\* Hub 4 is not on the server any more.
MCHubs == [s1 |-> <<1, 2>>, s2 |-> <<1, 3>>]
===============================================================================
