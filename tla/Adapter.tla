------------------------------- MODULE Adapter -------------------------------
(***************************************************************************)
(* Which device a Windows client captures frames with: a network card it    *)
(* bridges, through Npcap, NDISUIO or a TAP adapter tied to the card by a   *)
(* Windows network bridge, or an adapter of its own, TAP or WinTun.         *)
(*                                                                          *)
(* Pure operators.  m is the machine and never changes; h is what opening   *)
(* an adapter may change and leave behind, also when it fails:              *)
(*   h.pcap   "absent", "broken" (installed, the card cannot be opened) or  *)
(*            "works"                                                       *)
(*   h.tap    the tap0901 adapter: "none", "foreign" (under another name)   *)
(*            or "named" (under ours)                                       *)
(*   h.bound  the adapters bound to the Windows network bridge              *)
(* used is the set of devices the program holds open.  Every operator is    *)
(* the set of what can come out: [mode, nic, dev, host].                    *)
(***************************************************************************)
EXTENDS Integers, SequencesExt

CONSTANTS
    NicNames,     \* names an adapter may have; "" is no name, "tap" the client's own
    RadminNics    \* names of the Radmin VPN adapters, by name or hardware

Kinds == {"plain", "own", "starred", "vpn", "tapmac", "vethernet"}

Machines ==
    [nics : Seq([name : NicNames, kind : Kinds, up : BOOLEAN]), ndisuio : BOOLEAN, hyperv : BOOLEAN,
     elevated : BOOLEAN, driver : BOOLEAN, wintun : BOOLEAN, installer : BOOLEAN]
Hosts ==
    [pcap : {"absent", "broken", "works"}, tap : {"none", "foreign", "named"},
     bound : SUBSET NicNames]

ASSUME AdapterAssumption == {"", "tap"} \subseteq NicNames /\ "tap" \notin RadminNics

-------------------------------------------------------------------------------
(* Candidates. *)

IsExcludedFromBridge(name) == name \in RadminNics

\* Up, with a link and a 169.254 address, and not excluded; by their place.
DetectLinkLocal(m) == {i \in DOMAIN m.nics : m.nics[i].up /\ ~IsExcludedFromBridge(m.nics[i].name)}

\* Left out of the choice, not of an explicit setting: the client's own
\* adapters, names with a star or with "vpn" in them, TAP addresses.
Ignored(n) == n.kind \in {"own", "starred", "vpn", "tapmac"}

physical(m) == {i \in DetectLinkLocal(m) : ~Ignored(m.nics[i])}

\* The one the machine lists first, if there is any.
Preferred(m) == {m.nics[i] : i \in {j \in physical(m) : \A k \in physical(m) : j <= k}}

\* net.InterfaceByName: any adapter of that name, up or not.
InterfaceByName(m, name) == {n \in ToSet(m.nics) : n.name = name}

IsVEthernetAdapter(n) == n.kind = "vethernet"

-------------------------------------------------------------------------------
(* Devices.  "failed" stands for an error. *)

Opened(dev, h) == [dev |-> dev, host |-> h]

\* wpcap.dll is loaded and the card opened; on an error the DLL is released.
openNpcapFramer(h) == IF h.pcap = "works" THEN "npcap" ELSE "failed"

\* The driver is opened and bound to the card; on an error it is closed.
\* Promiscuous mode may fail, which is only logged.
openNDISUIOFramer(m, n) == IF m.ndisuio /\ ~IsVEthernetAdapter(n) THEN "ndisuio" ELSE "failed"

\* pnputil, with the driver files the program carries or finds beside it.
installTAPDriver(m, h) ==
    {h} \cup IF m.elevated /\ m.driver THEN {[h EXCEPT !.tap = "foreign"]} ELSE {}

\* The first tap0901 adapter is given our name, whoever it belongs to.
renameTAPAdapter(m, h) ==
    {h} \cup IF h.tap = "foreign" /\ m.elevated THEN {[h EXCEPT !.tap = "named"]} ELSE {}

\* The adapter by its name, else any, else a new one.
FindTAP(m, h) ==
    IF h.tap = "named" THEN {h}
    ELSE UNION {renameTAPAdapter(m, g) :
                    g \in IF h.tap = "none" THEN installTAPDriver(m, h) ELSE {h}}

\* The device is opened for one program alone and its link brought up; when
\* that fails it is closed again.  Its 169.254 address is a matter of luck.
OpenTAP(m, h, used) ==
    {Opened("failed", g) : g \in FindTAP(m, h)} \cup
    IF "tap" \in used THEN {} ELSE {Opened("tap", g) : g \in {f \in FindTAP(m, h) : f.tap = "named"}}

\* CreateAdapter, OpenAdapter, StartSession.  A second session on the adapter
\* may be refused.
openWinTUN(m, h, used) ==
    {Opened(d, h) : d \in (IF m.wintun THEN {"wintun"} ELSE {"failed"}) \cup
                          (IF "wintun" \in used THEN {"failed"} ELSE {})}

-------------------------------------------------------------------------------
(* The Windows network bridge. *)

findWinBridge(h) == h.bound # {}

\* Two cmdlets, one after the other: an error stops the script between them, or is
\* ignored and the second one may still succeed.
bindMsBridge(h, nic) == {h.bound \cup s : s \in SUBSET {nic, "tap"}}

\* INetCfg applies both bindings or none.
bindMsBridgeINetCfg(b, nic) == {b, b \cup {nic, "tap"}}

\* Any bridge there is will do.  What cannot be made is only logged.
ensureBridge(m, h, nic) ==
    IF findWinBridge(h) \/ ~m.elevated THEN {h}
    ELSE {[h EXCEPT !.bound = b] :
              b \in UNION {bindMsBridgeINetCfg(c, nic) : c \in bindMsBridge(h, nic)}}

-------------------------------------------------------------------------------
(* Bridging a card, and the client's own adapter. *)

\* Best first; the TAP adapter only where Hyper-V does not own the cards.
OpenBridgeMulti(m, h, n, used) ==
    IF openNpcapFramer(h) # "failed" THEN {Opened(openNpcapFramer(h), h)}
    ELSE IF openNDISUIOFramer(m, n) # "failed" THEN {Opened(openNDISUIOFramer(m, n), h)}
    ELSE IF m.hyperv THEN {Opened("failed", h)}
    ELSE OpenTAP(m, h, used)

\* A TAP adapter alone does not reach the card.
openPlatformBridge(m, h, n, used) ==
    UNION {IF o.dev = "tap" THEN {Opened("tap", g) : g \in ensureBridge(m, o.host, n.name)} ELSE {o}
             : o \in OpenBridgeMulti(m, h, n, used)}

Outcome(o, mode, nic) ==
    [mode |-> IF o.dev = "failed" THEN "error" ELSE mode, nic |-> nic, dev |-> o.dev, host |-> o.host]

openBridgeAdapter(m, h, n, used) ==
    {Outcome(o, "bridge", n.name) : o \in openPlatformBridge(m, h, n, used)}

\* TAP first: discovery tools look for an Ethernet adapter.
openDirectFramer(m, h, used) ==
    UNION {IF o.dev = "failed" THEN openWinTUN(m, o.host, used) ELSE {o} : o \in OpenTAP(m, h, used)}

openDirectAdapter(m, h, used) == {Outcome(o, "direct", "") : o \in openDirectFramer(m, h, used)}

-------------------------------------------------------------------------------

\* An excluded card is no setting; a card that is set is used even without a
\* 169.254 address, and without the card the client goes direct.
Explicit(m, h, nic, used) ==
    IF InterfaceByName(m, nic) = {} THEN openDirectAdapter(m, h, used)
    ELSE UNION {openBridgeAdapter(m, h, n, used) : n \in InterfaceByName(m, nic)}

\* The first candidate; mode = bridge wants one, otherwise direct will do.
Detected(m, h, mode, used) ==
    IF physical(m) = {}
    THEN IF mode = "bridge" THEN {Outcome(Opened("failed", h), "bridge", "")}
                            ELSE openDirectAdapter(m, h, used)
    ELSE UNION {IF o.mode = "error" /\ mode # "bridge" THEN openDirectAdapter(m, o.host, used) ELSE {o}
                  : o \in UNION {openBridgeAdapter(m, h, n, used) : n \in Preferred(m)}}

\* Mutant of OpenAdapter: only the candidates are checked for exclusion.
OpenAdapter_TrustsConfig(m, h, cfg, used) ==
    IF cfg.mode = "direct" THEN openDirectAdapter(m, h, used)
    ELSE IF cfg.nic # "" THEN Explicit(m, h, cfg.nic, used)
    ELSE Detected(m, h, cfg.mode, used)

OpenAdapter(m, h, cfg, used) ==
    LET nic == IF IsExcludedFromBridge(cfg.nic) THEN "" ELSE cfg.nic
    IN  IF cfg.mode = "direct" THEN openDirectAdapter(m, h, used)
        ELSE IF nic # "" THEN Explicit(m, h, nic, used)
        ELSE Detected(m, h, cfg.mode, used)
===============================================================================
