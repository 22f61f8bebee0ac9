------------------------------ MODULE MCClientApp ------------------------------
(* Benches a client has to cope with, each with the settings that matter. *)
EXTENDS ClientApp

Nic(name, kind, up) == [name |-> name, kind |-> kind, up |-> up]
Names  == {"", "tap", "radmin", "own", "enet", "switch", "gone"}
Radmin == {"radmin"}

Machine(nics, ndisuio, hyperv, elevated, driver, wintun) ==
    [nics |-> nics, ndisuio |-> ndisuio, hyperv |-> hyperv, elevated |-> elevated,
     driver |-> driver, wintun |-> wintun, installer |-> TRUE]
Host(pcap, tap) == [pcap |-> pcap, tap |-> tap, bound |-> {}]
Cfg(mode, nic)  == [mode |-> mode, nic |-> nic]
Once(m, h, c)   == [machine |-> m, host |-> h, cfg |-> c, presses |-> 1, early |-> TRUE]
Twice(m, h, c)  == [machine |-> m, host |-> h, cfg |-> c, presses |-> 2, early |-> FALSE]

\* A laptop with a cable in it, NDISUIO and WinTun.
Cable == Machine(<<Nic("radmin", "plain", TRUE), Nic("enet", "plain", TRUE)>>,
                 TRUE, FALSE, TRUE, TRUE, TRUE)
\* The same without NDISUIO: the card is reached through a TAP adapter.
NoRaw == [Cable EXCEPT !.ndisuio = FALSE]
\* A Hyper-V host.
HyperV == Machine(<<Nic("switch", "vethernet", TRUE)>>, TRUE, TRUE, TRUE, TRUE, TRUE)
\* No cable, no rights, nothing to install.
Bare == Machine(<<Nic("radmin", "plain", TRUE), Nic("own", "own", TRUE), Nic("enet", "plain", FALSE)>>,
                FALSE, FALSE, FALSE, FALSE, FALSE)

MCSettings ==
    {Once(Cable, Host("works", "none"), c) : c \in {Cfg("auto", ""), Cfg("direct", ""), Cfg("auto", "radmin")}}
    \cup {Once(NoRaw, Host("broken", "foreign"), Cfg(mode, "")) : mode \in {"auto", "bridge", "direct"}}
    \cup {Once(HyperV, Host("absent", "none"), Cfg(mode, "")) : mode \in {"auto", "bridge"}}
    \cup {Once(Bare, Host("absent", "named"), c) : c \in {Cfg("bridge", "radmin"), Cfg("bridge", "gone"), Cfg("auto", "enet")}}
    \cup {Twice(Bare, Host("absent", "named"), Cfg("auto", ""))}
===============================================================================
