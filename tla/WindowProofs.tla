----------------------------- MODULE WindowProofs -----------------------------
(***************************************************************************)
(* Proofs about the client's windows, for any number of attempts, settings, *)
(* files, cars and polls: what Disconnect leaves behind and which adapter   *)
(* is captured (ClientApp), which file settings go to and come back from    *)
(* (ConfigFiles), and what the battery display polls (Battery).             *)
(***************************************************************************)
EXTENDS ClientApp, ConfigFiles, Battery, TLAPS

-------------------------------------------------------------------------------
(* Adapters. *)

\* A machine state as an attempt may find or leave it.
Sane(h) == h \in Hosts /\ h.bound \cap RadminNics = {}

Devices == {"failed", "npcap", "ndisuio", "tap", "wintun"}
SaneOpening(o) == Sane(o.host) /\ o.dev \in Devices

\* The driver and the name of the TAP adapter have nothing to do with bridges.
LEMMA TapKeepsBridges ==
  ASSUME NEW m, NEW h, Sane(h), NEW t \in {"foreign", "named"}
  PROVE  Sane([h EXCEPT !.tap = t])
  BY DEF Sane, Hosts

LEMMA FindTAPSane ==
  ASSUME NEW m, NEW h, Sane(h), NEW g \in FindTAP(m, h)
  PROVE  Sane(g)
  <1>1. \A f \in installTAPDriver(m, h) : Sane(f)
    BY TapKeepsBridges DEF installTAPDriver
  <1>2. ASSUME NEW f, Sane(f), NEW k \in renameTAPAdapter(m, f)
        PROVE  Sane(k)
    BY <1>2, TapKeepsBridges DEF renameTAPAdapter
  <1> QED
    BY <1>1, <1>2 DEF FindTAP

LEMMA OpenTAPSane ==
  ASSUME NEW m, NEW h, Sane(h), NEW used, NEW o \in OpenTAP(m, h, used)
  PROVE  SaneOpening(o)
  BY FindTAPSane DEF OpenTAP, Opened, SaneOpening, Devices

LEMMA OpenWinTUNSane ==
  ASSUME NEW m, NEW h, Sane(h), NEW used, NEW o \in openWinTUN(m, h, used)
  PROVE  SaneOpening(o)
  BY DEF openWinTUN, Opened, SaneOpening, Devices

\* Only the card that is bridged and the client's own adapter join a bridge.
LEMMA EnsureBridgeSane ==
  ASSUME NEW m, NEW h, Sane(h), NEW nic \in NicNames \ RadminNics, NEW g \in ensureBridge(m, h, nic)
  PROVE  Sane(g)
  <1> DEFINE Bound(b) == b \subseteq NicNames /\ b \cap RadminNics = {}
  <1>1. Bound(h.bound) /\ h \in Hosts
    BY DEF Sane, Hosts
  <1>2. \A b : Bound(b) => \A c \in SUBSET {nic, "tap"} : Bound(b \cup c)
    <2>1. "tap" \in NicNames /\ "tap" \notin RadminNics
      BY AdapterAssumption
    <2> DEFINE tap == "tap"
    <2>2. tap \in NicNames \ RadminNics
      BY <2>1
    <2> HIDE DEF tap
    <2>3. \A b : Bound(b) => \A c \in SUBSET {nic, tap} : Bound(b \cup c)
      BY <2>2
    <2> QED
      BY <2>3 DEF tap
  <1>3. ASSUME NEW b, Bound(b)
        PROVE  Sane([h EXCEPT !.bound = b])
    BY <1>1, <1>3 DEF Sane, Hosts
  <1> HIDE DEF Bound
  <1>4. \A c \in bindMsBridge(h, nic) : Bound(c)
    BY <1>1, <1>2 DEF bindMsBridge
  <1>5. {nic, "tap"} \in SUBSET {nic, "tap"}
    OBVIOUS
  <1>6. \A c \in bindMsBridge(h, nic) : \A b \in bindMsBridgeINetCfg(c, nic) : Bound(b)
    BY <1>2, <1>4, <1>5 DEF bindMsBridgeINetCfg
  <1> QED
    BY <1>3, <1>6 DEF ensureBridge

LEMMA OpenBridgeMultiSane ==
  ASSUME NEW m, NEW h, Sane(h), NEW n, NEW used, NEW o \in OpenBridgeMulti(m, h, n, used)
  PROVE  SaneOpening(o)
  <1>1. CASE o \in OpenTAP(m, h, used)
    BY <1>1, OpenTAPSane
  <1>2. CASE \E d \in Devices : o = Opened(d, h)
    BY <1>2 DEF Opened, SaneOpening
  <1> QED
    BY <1>1, <1>2 DEF OpenBridgeMulti, openNpcapFramer, openNDISUIOFramer, Devices

LEMMA BridgeSane ==
  ASSUME NEW m, NEW h, Sane(h), NEW n, n.name \in NicNames \ RadminNics, NEW used,
         NEW o \in openBridgeAdapter(m, h, n, used)
  PROVE  /\ Sane(o.host) /\ o.dev \in Devices /\ o.nic = n.name
         /\ o.mode \in {"bridge", "error"}
  <1>1. \A p \in openPlatformBridge(m, h, n, used) : SaneOpening(p)
    <2> TAKE p \in openPlatformBridge(m, h, n, used)
    <2>1. PICK r \in OpenBridgeMulti(m, h, n, used) :
              p \in IF r.dev = "tap" THEN {Opened("tap", g) : g \in ensureBridge(m, r.host, n.name)} ELSE {r}
      BY DEF openPlatformBridge
    <2>2. SaneOpening(r)
      BY OpenBridgeMultiSane
    <2>3. \A g \in ensureBridge(m, r.host, n.name) : SaneOpening(Opened("tap", g))
      BY <2>2, EnsureBridgeSane DEF SaneOpening, Opened, Devices
    <2> QED
      BY <2>1, <2>2, <2>3
  <1> QED
    BY <1>1 DEF openBridgeAdapter, Outcome, SaneOpening

LEMMA DirectSane ==
  ASSUME NEW m, NEW h, Sane(h), NEW used, NEW o \in openDirectAdapter(m, h, used)
  PROVE  /\ Sane(o.host) /\ o.dev \in Devices /\ o.nic = ""
         /\ o.mode \in {"direct", "error"}
  <1>1. \A p \in openDirectFramer(m, h, used) : SaneOpening(p)
    <2> TAKE p \in openDirectFramer(m, h, used)
    <2>1. PICK r \in OpenTAP(m, h, used) :
              p \in IF r.dev = "failed" THEN openWinTUN(m, r.host, used) ELSE {r}
      BY DEF openDirectFramer
    <2>2. SaneOpening(r)
      BY OpenTAPSane
    <2> QED
      BY <2>1, <2>2, OpenWinTUNSane DEF SaneOpening
  <1>2. PICK p \in openDirectFramer(m, h, used) : o = Outcome(p, "direct", "")
    BY DEF openDirectAdapter
  <1>3. SaneOpening(p)
    BY <1>1
  <1> QED
    BY <1>2, <1>3 DEF Outcome, SaneOpening

\* What a mode and a setting allow an attempt to capture.
Allowed(m, cfg, a) ==
    /\ a.mode = "bridge" => ~IsExcludedFromBridge(a.nic)
    /\ cfg.mode = "direct" => a.mode # "bridge"
    /\ cfg.mode = "bridge" /\ a.mode = "direct" => cfg.nic # "" /\ InterfaceByName(m, cfg.nic) = {}

\* Whatever fails on the way, OpenAdapter ends with what the settings allow, and
\* has put nothing else into a bridge.
LEMMA OpenAdapterAllowed ==
  ASSUME NEW m \in Machines, NEW h, Sane(h), NEW used,
         NEW cfg \in [mode : {"auto", "bridge", "direct"}, nic : NicNames],
         NEW o \in OpenAdapter(m, h, cfg, used)
  PROVE  /\ Sane(o.host) /\ o.dev \in Devices /\ o.nic \in NicNames
         /\ o.mode \in {"bridge", "direct", "error"}
         /\ Allowed(m, cfg, o)
  <1> DEFINE Good(p) == /\ Sane(p.host) /\ p.dev \in Devices /\ p.nic \in NicNames
                        /\ p.mode \in {"bridge", "direct", "error"}
             Bridged(p) == Good(p) /\ p.mode # "direct" /\ (p.mode = "bridge" => ~IsExcludedFromBridge(p.nic))
             Direct(p) == Good(p) /\ p.mode # "bridge"
  <1>a. "" \in NicNames
    BY AdapterAssumption
  <1>1. \A g : Sane(g) => \A p \in openDirectAdapter(m, g, used) : Direct(p)
    BY <1>a, DirectSane
  <1>2. \A n : n.name \in NicNames \ RadminNics => \A p \in openBridgeAdapter(m, h, n, used) : Bridged(p)
    BY BridgeSane DEF IsExcludedFromBridge
  <1>3. \A p : Bridged(p) \/ Direct(p) => Good(p)
    OBVIOUS
  <1>4. Bridged(Outcome(Opened("failed", h), "bridge", ""))
    <2> DEFINE p == Outcome(Opened("failed", h), "bridge", "")
    <2>1. p.host = h /\ p.dev = "failed" /\ p.nic = "" /\ p.mode = "error"
      BY DEF Outcome, Opened
    <2> HIDE DEF p
    <2>2. "failed" \in Devices
      BY DEF Devices
    <2>3. Bridged(p)
      BY <1>a, <2>1, <2>2
    <2> QED
      BY <2>3 DEF p
  <1>5. \A n \in Preferred(m) : n.name \in NicNames \ RadminNics
    <2> TAKE n \in Preferred(m)
    <2>1. PICK i \in DOMAIN m.nics : n = m.nics[i] /\ ~IsExcludedFromBridge(m.nics[i].name)
      BY DEF Preferred, physical, DetectLinkLocal
    <2> DEFINE Card == [name : NicNames, kind : Kinds, up : BOOLEAN]
    <2>2. m.nics \in Seq(Card)
      BY DEF Machines
    <2>3. \A c \in Card : c.name \in NicNames
      OBVIOUS
    <2> HIDE DEF Card
    <2>4. m.nics[i] \in Card
      BY <2>1, <2>2
    <2> QED
      BY <2>1, <2>3, <2>4 DEF IsExcludedFromBridge
  <1> HIDE DEF Good
  <1>6. ASSUME cfg.mode # "direct", NEW nic \in NicNames \ RadminNics, nic = cfg.nic, nic # "",
               o \in Explicit(m, h, nic, used)
        PROVE  Good(o) /\ Allowed(m, cfg, o)
    <2>1. CASE InterfaceByName(m, nic) = {}
      BY <1>1, <1>6, <2>1 DEF Explicit, Allowed
    <2>2. CASE InterfaceByName(m, nic) # {}
      <3>1. PICK n \in InterfaceByName(m, nic) : o \in openBridgeAdapter(m, h, n, used)
        BY <1>6, <2>2 DEF Explicit
      <3>2. n.name = nic
        BY DEF InterfaceByName
      <3>3. Bridged(o)
        BY <1>2, <1>6, <3>1, <3>2
      <3> QED
        BY <1>6, <3>3 DEF Allowed
    <2> QED
      BY <2>1, <2>2
  <1>7. ASSUME cfg.mode # "direct", o \in Detected(m, h, cfg.mode, used)
        PROVE  Good(o) /\ Allowed(m, cfg, o)
    <2>1. CASE physical(m) = {} /\ cfg.mode = "bridge"
      BY <1>4, <1>7, <2>1 DEF Detected, Allowed
    <2>2. CASE physical(m) = {} /\ cfg.mode # "bridge"
      BY <1>1, <1>7, <2>2 DEF Detected, Allowed
    <2>3. CASE physical(m) # {}
      <3>1. PICK p \in UNION {openBridgeAdapter(m, h, n, used) : n \in Preferred(m)} :
                o \in IF p.mode = "error" /\ cfg.mode # "bridge"
                      THEN openDirectAdapter(m, p.host, used) ELSE {p}
        BY <1>7, <2>3 DEF Detected
      <3>2. Bridged(p)
        BY <1>2, <1>5, <3>1
      <3>3. Sane(p.host)
        BY <3>2 DEF Good
      <3>4. CASE o = p
        BY <1>7, <3>2, <3>4 DEF Allowed
      <3>5. CASE cfg.mode # "bridge" /\ o \in openDirectAdapter(m, p.host, used)
        BY <1>1, <1>7, <3>3, <3>5 DEF Allowed
      <3> QED
        BY <3>1, <3>4, <3>5
    <2> QED
      BY <2>1, <2>2, <2>3
  <1>8. CASE cfg.mode = "direct"
    <2>1. Direct(o)
      BY <1>1, <1>8 DEF OpenAdapter
    <2> QED
      BY <1>3, <1>8, <2>1 DEF Good, Allowed
  <1>9. CASE cfg.mode # "direct"
    <2>1. CASE cfg.nic # "" /\ ~IsExcludedFromBridge(cfg.nic)
      <3>1. cfg.nic \in NicNames \ RadminNics
        BY <2>1 DEF IsExcludedFromBridge
      <3>2. o \in Explicit(m, h, cfg.nic, used)
        BY <1>9, <2>1 DEF OpenAdapter
      <3> QED
        BY <1>6, <1>9, <2>1, <3>1, <3>2 DEF Good
    <2>2. CASE cfg.nic = "" \/ IsExcludedFromBridge(cfg.nic)
      <3>1. o \in Detected(m, h, cfg.mode, used)
        BY <1>9, <2>2 DEF OpenAdapter
      <3> QED
        BY <1>7, <1>9, <3>1 DEF Good
    <2> QED
      BY <2>1, <2>2
  <1> QED
    BY <1>8, <1>9

-------------------------------------------------------------------------------
(* Connect and Disconnect.

   The argument.  While nobody was hasty, at most one attempt is not over, and
   it is the last one.  Connect is offered only when it is over too: its error
   was shown, once, or Disconnect found it in the fields of the window, where
   it had left everything it holds. *)

States   == {"down", "connecting", "connected", "stopped"}
Closures == [kind : {"error", "status"}, state : States \cup {"none"}]

Attempted ==
    [at : {"none", "opening", "opened", "live", "failed"}, mode : {"", "bridge", "direct"},
     nic : NicNames, dev : Devices \cup {"none"}, held : BOOLEAN]
Window ==
    [client : 0..MaxAttempts, framer : 0..MaxAttempts, cancel : 0..MaxAttempts, chan : 0..MaxAttempts,
     connectOn : BOOLEAN, disconnectOn : BOOLEAN, dot : {"grey", "yellow", "green", "red"},
     autoSaveDone : BOOLEAN]

AppType ==
    /\ kit \in Kits /\ set \in Settings /\ host \in Hosts
    /\ att \in [Attempts -> Attempted]
    /\ client \in [Attempts -> States]
    /\ ui \in Window
    /\ posted \in Seq(Closures)
    /\ tries \in 0..set.presses
    /\ hasty \in BOOLEAN

\* Attempt i is over: it holds nothing, and its client, if any, is in over, the
\* attempts that were cancelled.
Quiet(a, i, over) ==
    /\ a[i].at \in {"none", "failed", "live"} /\ ~a[i].held
    /\ a[i].at = "live" => i \in over

\* Every attempt is over, but for the last of n while Connect is not offered.
Settled(a, u, over, n) == \A i \in Attempts : u.connectOn \/ i # n => Quiet(a, i, over)

\* The last attempt left what it holds and runs in the window's fields.
Current(a, u, n) ==
    ~u.connectOn =>
        /\ n \in Attempts
        /\ a[n].at \in {"none", "opening", "failed"} => ~a[n].held
        /\ a[n].at = "opened" => u.framer = n
        /\ a[n].at = "live" => u.framer = n /\ u.client = n

\* An error that the window has not shown yet is the last attempt's, and the
\* only one.
Errors(q) == {k \in DOMAIN q : q[k].kind = "error"}
Told(a, u, n, q) ==
    /\ \A k \in Errors(q) : ~u.connectOn /\ a[n].at = "failed"
    /\ \A j, k \in Errors(q) : j = k

WindowInv ==
    kit # "mini" /\ ~hasty =>
        /\ ui.disconnectOn = ~ui.connectOn
        /\ Settled(att, ui, cancelled, tries)
        /\ Current(att, ui, tries)
        /\ Told(att, ui, tries, posted)

\* Attempts that were not made left nothing.
Unmade(a, n) == \A i \in Attempts : i > n => a[i] = NoAttempt

Captures ==
    /\ host.bound \cap RadminNics = {}
    /\ \A i \in Attempts : Allowed(set.machine, set.cfg, att[i])

AppInv == AppType /\ Captures /\ Unmade(att, tries) /\ WindowInv

-------------------------------------------------------------------------------

LEMMA NoAttemptType == NoAttempt \in Attempted /\ ~NoAttempt.held /\ NoAttempt.at = "none" /\ NoAttempt.mode = ""
  BY AdapterAssumption DEF NoAttempt, Attempted

\* What an instance's settings are.
LEMMA SettingsType ==
  ASSUME NEW s \in Settings
  PROVE  /\ s.machine \in Machines /\ Sane(s.host)
         /\ s.cfg \in [mode : {"auto", "bridge", "direct"}, nic : NicNames]
         /\ s.presses \in 0..MaxAttempts /\ MaxAttempts \in Nat
  BY ClientAppAssumption DEF Sane

LEMMA AppInit == Init => AppInv
  <1> SUFFICES ASSUME Init PROVE AppInv
    OBVIOUS
  <1>0. /\ kit \in Kits /\ set \in Settings /\ host = set.host
        /\ att = [i \in Attempts |-> NoAttempt] /\ client = [i \in Attempts |-> "down"]
        /\ posted = <<>> /\ tries = 0 /\ hasty = FALSE
    BY Zenon DEF Init
  <1>1. set.presses \in Nat /\ MaxAttempts \in Nat /\ Sane(set.host)
    BY <1>0, SettingsType
  <1>2. \A i \in Attempts : att[i] = NoAttempt
    BY <1>0
  <1>3. ui \in Window /\ ui.connectOn = TRUE /\ ui.disconnectOn = FALSE
    <2>1. PICK dot \in {"yellow", "grey"} :
              ui = [client |-> 0, framer |-> 0, cancel |-> 0, chan |-> 0,
                    connectOn |-> TRUE, disconnectOn |-> FALSE, dot |-> dot, autoSaveDone |-> FALSE]
      BY Zenon DEF Init
    <2> QED
      BY <1>1, <2>1 DEF Window
  <1>4. AppType
    <2>1. att \in [Attempts -> Attempted]
      BY <1>0, NoAttemptType
    <2>2. client \in [Attempts -> States]
      BY <1>0 DEF States
    <2>3. posted \in Seq(Closures)
      BY <1>0
    <2>4. 0 \in 0..set.presses
      BY <1>1
    <2> QED
      BY <1>0, <1>1, <1>3, <2>1, <2>2, <2>3, <2>4 DEF AppType, Sane
  <1>5. Captures
    BY <1>0, <1>1, <1>2, NoAttemptType DEF Captures, Allowed, Sane
  <1>6. Unmade(att, tries)
    BY <1>2 DEF Unmade
  <1>7. WindowInv
    <2>1. Settled(att, ui, cancelled, tries)
      BY <1>2, NoAttemptType DEF Settled, Quiet
    <2>2. Current(att, ui, tries)
      BY <1>3 DEF Current
    <2>3. Told(att, ui, tries, posted)
      BY <1>0 DEF Told, Errors
    <2> QED
      BY <1>3, <2>1, <2>2, <2>3 DEF WindowInv
  <1> QED
    BY <1>4, <1>5, <1>6, <1>7 DEF AppInv

\* Steps of clients and refresh loops, and an installation, do not reach what
\* the window and the attempts have.
LEMMA ElsewhereStep ==
  ASSUME AppInv, Sane(host'), client' \in [Attempts -> States],
         UNCHANGED <<kit, set>>, UNCHANGED <<att, cancelled, ui, posted, tries, hasty>>
  PROVE  AppInv'
  <1>1. AppType'
    BY DEF AppInv, AppType, Sane
  <1>2. Captures'
    BY DEF AppInv, Captures, Sane
  <1>3. Unmade(att', tries')
    BY DEF AppInv
  <1>4. WindowInv'
    BY DEF AppInv, WindowInv
  <1> QED
    BY <1>1, <1>2, <1>3, <1>4 DEF AppInv

LEMMA ClientMoves ==
  ASSUME AppInv, NEW i \in Attempts, NEW s \in States, setState(i, s),
         UNCHANGED <<machinery, host, att, cancelled, loop, ui, posted, tries, hasty>>
  PROVE  AppInv'
  <1>1. client' \in [Attempts -> States]
    BY DEF setState, AppInv, AppType
  <1>2. Sane(host')
    BY DEF AppInv, AppType, Captures, Sane
  <1> QED
    BY <1>1, <1>2, ElsewhereStep DEF machinery

LEMMA LoopStep ==
  ASSUME AppInv, NEW i \in Attempts, TakeToken(i) \/ LoopEnds(i) \/ InstallNpcap
  PROVE  AppInv'
  <1>1. client' \in [Attempts -> States]
    BY DEF TakeToken, LoopEnds, InstallNpcap, AppInv, AppType
  <1>2. Sane(host)
    BY DEF AppInv, AppType, Captures, Sane
  <1>3. Sane(host')
    BY <1>2 DEF TakeToken, LoopEnds, InstallNpcap, Sane, Hosts
  <1> QED
    BY <1>1, <1>3, ElsewhereStep DEF TakeToken, LoopEnds, InstallNpcap, machinery

\* onConnect: Connect was offered, so every attempt is over and no error waits.
LEMMA ConnectStep ==
  ASSUME AppInv, onConnect
  PROVE  AppInv'
  <1> DEFINE n == tries + 1
             a == [att[n] EXCEPT !.at = "opening"]
  <1>1. /\ ui.connectOn /\ tries < set.presses /\ tries' = n
        /\ att' = [att EXCEPT ![n] = a]
        /\ ui' = [ui EXCEPT !.connectOn = FALSE, !.disconnectOn = (kit # "mini")]
        /\ UNCHANGED <<kit, set, host, client, cancelled, posted, hasty>>
    BY DEF onConnect, machinery
  <1>2. /\ tries \in Nat /\ set.presses \in 0..MaxAttempts /\ MaxAttempts \in Nat
    BY SettingsType DEF AppInv, AppType
  <1>3. n \in Attempts /\ n \in 0..set.presses
    BY <1>1, <1>2 DEF Attempts
  <1>4. att[n] = NoAttempt
    BY <1>2, <1>3 DEF AppInv, Unmade
  <1>5. /\ a \in Attempted /\ a.at = "opening" /\ ~a.held /\ a.mode = ""
    BY <1>4, NoAttemptType DEF Attempted
  <1>6. \A i \in Attempts : att'[i] = IF i = n THEN a ELSE att[i]
    BY <1>1, <1>3 DEF AppInv, AppType
  <1>7. /\ ui' \in Window /\ ui'.connectOn = FALSE /\ ui'.disconnectOn = (kit # "mini")
    <2> DEFINE u == [ui EXCEPT !.connectOn = FALSE]
    <2>1. u \in Window /\ u.connectOn = FALSE
      BY DEF AppInv, AppType, Window
    <2>2. ui' = [u EXCEPT !.disconnectOn = (kit # "mini")]
      BY <1>1 DEF AppInv, AppType, Window
    <2> HIDE DEF u
    <2> QED
      BY <2>1, <2>2 DEF Window
  <1> HIDE DEF a
  <1>8. AppType'
    BY <1>1, <1>3, <1>5, <1>7 DEF AppInv, AppType
  <1>9. Captures'
    BY <1>1, <1>5, <1>6 DEF AppInv, Captures, Allowed
  <1>10. Unmade(att', tries')
    BY <1>1, <1>2, <1>6 DEF AppInv, Unmade, Attempts
  <1>11. WindowInv'
    <2> SUFFICES ASSUME kit # "mini", ~hasty
                 PROVE  /\ ui'.disconnectOn = ~ui'.connectOn
                        /\ Settled(att', ui', cancelled', tries')
                        /\ Current(att', ui', tries')
                        /\ Told(att', ui', tries', posted')
      BY <1>1 DEF WindowInv
    <2>1. Settled(att', ui', cancelled', tries')
      BY <1>1, <1>6 DEF AppInv, WindowInv, Settled, Quiet
    <2>2. Current(att', ui', tries')
      BY <1>1, <1>3, <1>5, <1>6 DEF Current
    <2>3. Errors(posted) = {}
      BY <1>1 DEF AppInv, WindowInv, Told
    <2>4. Told(att', ui', tries', posted')
      BY <1>1, <2>3 DEF Told
    <2> QED
      BY <1>7, <2>1, <2>2, <2>4
  <1> QED
    BY <1>8, <1>9, <1>10, <1>11 DEF AppInv

\* What posting one more closure does to the queue.
LEMMA PostType ==
  ASSUME NEW q \in Seq(Closures), NEW c \in Closures
  PROVE  /\ Append(q, c) \in Seq(Closures)
         /\ Errors(Append(q, c)) = Errors(q) \cup IF c.kind = "error" THEN {Len(q) + 1} ELSE {}
  BY DEF Errors

\* The attempt that opens is the last one, and Connect is not offered.
LEMMA OpeningIsLast ==
  ASSUME AppInv, kit # "mini", ~hasty, NEW i \in Attempts, att[i].at \in {"opening", "opened"}
  PROVE  i = tries /\ ~ui.connectOn
  BY DEF AppInv, WindowInv, Settled, Quiet

\* Open: an error is posted, or the adapter is left in ui.framer.
LEMMA OpenStep ==
  ASSUME AppInv, NEW i \in Attempts, Open(i)
  PROVE  AppInv'
  <1>1. /\ set.machine \in Machines /\ Sane(host)
        /\ set.cfg \in [mode : {"auto", "bridge", "direct"}, nic : NicNames]
    BY SettingsType DEF AppInv, AppType, Captures, Sane
  <1>2. PICK o \in OpenAdapter(set.machine, host, set.cfg, Used) :
          /\ host' = o.host
          /\ IF o.mode = "error" THEN OpenFails(i, o) ELSE FramerOpen(i, o)
    BY DEF Open
  <1>3. /\ Sane(host') /\ o.dev \in Devices /\ o.nic \in NicNames
        /\ o.mode \in {"bridge", "direct", "error"} /\ Allowed(set.machine, set.cfg, o)
    BY <1>1, <1>2, OpenAdapterAllowed
  <1>4. /\ att[i].at = "opening"
        /\ UNCHANGED <<kit, set, client, cancelled, tries, hasty>>
    BY DEF Open, machinery
  <1>5. tries \in Nat /\ i \in Nat /\ i <= tries
    <2>1. tries \in Nat /\ i \in Nat
      BY SettingsType DEF AppInv, AppType, Attempts
    <2>2. ~ (i > tries)
      BY <1>4, NoAttemptType DEF AppInv, Unmade
    <2> QED
      BY <2>1, <2>2
  <1>6. CASE o.mode = "error"
    <2> DEFINE a == [att[i] EXCEPT !.at = "failed"]
               c == [kind |-> "error", state |-> "none"]
    <2>1. /\ att' = [att EXCEPT ![i] = a] /\ posted' = Append(posted, c) /\ UNCHANGED ui
      BY <1>2, <1>6 DEF OpenFails, Post
    <2>2. a \in Attempted /\ a.at = "failed" /\ a.held = att[i].held /\ a.mode = att[i].mode /\ a.nic = att[i].nic
      BY DEF AppInv, AppType, Attempted
    <2>3. \A j \in Attempts : att'[j] = IF j = i THEN a ELSE att[j]
      BY <2>1 DEF AppInv, AppType
    <2>4. posted \in Seq(Closures) /\ c \in Closures /\ c.kind = "error"
      BY DEF AppInv, AppType, Closures
    <2>5. /\ posted' \in Seq(Closures)
          /\ Errors(posted') = Errors(posted) \cup {Len(posted) + 1}
      BY <2>1, <2>4, PostType
    <2> HIDE DEF a, c
    <2>6. AppType'
      BY <1>3, <1>4, <2>1, <2>2, <2>5 DEF AppInv, AppType, Sane
    <2>7. Captures'
      BY <1>3, <1>4, <2>2, <2>3 DEF AppInv, Captures, Sane, Allowed
    <2>8. Unmade(att', tries')
      BY <1>4, <1>5, <2>3 DEF AppInv, Unmade, Attempts
    <2>9. WindowInv'
      <3> SUFFICES ASSUME kit # "mini", ~hasty
                   PROVE  /\ ui'.disconnectOn = ~ui'.connectOn
                          /\ Settled(att', ui', cancelled', tries')
                          /\ Current(att', ui', tries')
                          /\ Told(att', ui', tries', posted')
        BY <1>4 DEF WindowInv
      <3>1. i = tries /\ ~ui.connectOn
        BY <1>4, OpeningIsLast
      <3>2. ~att[i].held
        BY <1>4, <3>1 DEF AppInv, WindowInv, Current
      <3>3. Settled(att', ui', cancelled', tries')
        BY <1>4, <2>1, <2>3, <3>1 DEF AppInv, WindowInv, Settled, Quiet
      <3>4. Current(att', ui', tries')
        BY <1>4, <2>1, <2>2, <2>3, <3>1, <3>2 DEF Current
      <3>5. Errors(posted) = {}
        BY <1>4, <3>1 DEF AppInv, WindowInv, Told
      <3>6. Told(att', ui', tries', posted')
        BY <1>4, <2>1, <2>2, <2>3, <2>5, <3>1, <3>5 DEF Told
      <3> QED
        BY <2>1, <3>3, <3>4, <3>6 DEF AppInv, WindowInv
    <2> QED
      BY <2>6, <2>7, <2>8, <2>9 DEF AppInv
  <1>7. CASE o.mode # "error"
    <2> DEFINE a == [at |-> "opened", mode |-> o.mode, nic |-> o.nic, dev |-> o.dev, held |-> TRUE]
    <2>1. /\ att' = [att EXCEPT ![i] = a] /\ ui' = [ui EXCEPT !.framer = i] /\ UNCHANGED posted
      BY <1>2, <1>7 DEF FramerOpen
    <2>2. a \in Attempted /\ a.at = "opened" /\ a.mode = o.mode /\ a.nic = o.nic
      BY <1>3, <1>7 DEF Attempted
    <2>3. \A j \in Attempts : att'[j] = IF j = i THEN a ELSE att[j]
      BY <2>1 DEF AppInv, AppType
    <2>4. /\ ui' \in Window /\ ui'.framer = i
          /\ ui'.connectOn = ui.connectOn /\ ui'.disconnectOn = ui.disconnectOn
      BY <2>1 DEF AppInv, AppType, Window, Attempts
    <2> HIDE DEF a
    <2>6. AppType'
      BY <1>3, <1>4, <2>1, <2>2, <2>4 DEF AppInv, AppType, Sane
    <2>7. Captures'
      BY <1>3, <1>4, <2>2, <2>3 DEF AppInv, Captures, Sane, Allowed
    <2>8. Unmade(att', tries')
      BY <1>4, <1>5, <2>3 DEF AppInv, Unmade, Attempts
    <2>9. WindowInv'
      <3> SUFFICES ASSUME kit # "mini", ~hasty
                   PROVE  /\ ui'.disconnectOn = ~ui'.connectOn
                          /\ Settled(att', ui', cancelled', tries')
                          /\ Current(att', ui', tries')
                          /\ Told(att', ui', tries', posted')
        BY <1>4 DEF WindowInv
      <3>1. i = tries /\ ~ui.connectOn
        BY <1>4, OpeningIsLast
      <3>3. Settled(att', ui', cancelled', tries')
        BY <1>4, <2>3, <2>4, <3>1 DEF AppInv, WindowInv, Settled, Quiet
      <3>4. Current(att', ui', tries')
        BY <1>4, <2>2, <2>3, <2>4, <3>1 DEF Current
      <3>5. Errors(posted) = {}
        BY <1>4, <3>1 DEF AppInv, WindowInv, Told
      <3>6. Told(att', ui', tries', posted')
        BY <2>1, <3>5 DEF Told
      <3> QED
        BY <2>4, <3>3, <3>4, <3>6 DEF AppInv, WindowInv
    <2> QED
      BY <2>6, <2>7, <2>8, <2>9 DEF AppInv
  <1> QED
    BY <1>6, <1>7

\* Launch: the client joins the adapter in the window's fields.
LEMMA LaunchStep ==
  ASSUME AppInv, NEW i \in Attempts, Launch(i)
  PROVE  AppInv'
  <1> DEFINE a == [att[i] EXCEPT !.at = "live"]
  <1>1. /\ att[i].at = "opened" /\ att' = [att EXCEPT ![i] = a]
        /\ ui' = [ui EXCEPT !.cancel = i, !.client = i, !.chan = i]
        /\ UNCHANGED <<kit, set, host, client, cancelled, posted, tries, hasty>>
    BY DEF Launch, machinery
  <1>2. a \in Attempted /\ a.at = "live" /\ a.held = att[i].held /\ a.mode = att[i].mode /\ a.nic = att[i].nic
    BY DEF AppInv, AppType, Attempted
  <1>3. \A j \in Attempts : att'[j] = IF j = i THEN a ELSE att[j]
    BY <1>1 DEF AppInv, AppType
  <1>4. /\ ui' \in Window /\ ui'.client = i /\ ui'.framer = ui.framer
        /\ ui'.connectOn = ui.connectOn /\ ui'.disconnectOn = ui.disconnectOn
    <2> DEFINE u == [ui EXCEPT !.cancel = i]
               v == [u EXCEPT !.client = i]
    <2>1. /\ u \in Window /\ u.framer = ui.framer
          /\ u.connectOn = ui.connectOn /\ u.disconnectOn = ui.disconnectOn
      BY DEF AppInv, AppType, Window, Attempts
    <2>2. ui' = [v EXCEPT !.chan = i]
      BY <1>1 DEF AppInv, AppType, Window
    <2> HIDE DEF u
    <2>3. /\ v \in Window /\ v.client = i /\ v.framer = u.framer
          /\ v.connectOn = u.connectOn /\ v.disconnectOn = u.disconnectOn
      BY <2>1 DEF Window, Attempts
    <2> HIDE DEF v
    <2> QED
      BY <2>1, <2>2, <2>3 DEF Window, Attempts
  <1> HIDE DEF a
  <1>5. AppType'
    BY <1>1, <1>2, <1>4 DEF AppInv, AppType
  <1>6. Captures'
    BY <1>1, <1>2, <1>3 DEF AppInv, Captures, Allowed
  <1>7. Unmade(att', tries')
    <2>1. ~ (i > tries)
      BY <1>1, NoAttemptType DEF AppInv, Unmade
    <2> QED
      BY <1>1, <1>3, <2>1 DEF AppInv, Unmade
  <1>8. WindowInv'
    <2> SUFFICES ASSUME kit # "mini", ~hasty
                 PROVE  /\ ui'.disconnectOn = ~ui'.connectOn
                        /\ Settled(att', ui', cancelled', tries')
                        /\ Current(att', ui', tries')
                        /\ Told(att', ui', tries', posted')
      BY <1>1 DEF WindowInv
    <2>1. i = tries /\ ~ui.connectOn
      BY <1>1, OpeningIsLast
    <2>2. Settled(att', ui', cancelled', tries')
      BY <1>1, <1>3, <1>4, <2>1 DEF AppInv, WindowInv, Settled, Quiet
    <2>3. ui.framer = i
      BY <1>1, <2>1 DEF AppInv, WindowInv, Current
    <2>4. Current(att', ui', tries')
      BY <1>1, <1>2, <1>3, <1>4, <2>1, <2>3 DEF Current
    <2>5. Errors(posted) = {}
      BY <1>1, <2>1 DEF AppInv, WindowInv, Told
    <2>6. Told(att', ui', tries', posted')
      BY <1>1, <2>5 DEF Told
    <2> QED
      BY <1>4, <2>2, <2>4, <2>6 DEF AppInv, WindowInv
  <1> QED
    BY <1>5, <1>6, <1>7, <1>8 DEF AppInv

\* A status report that is posted or shown: it is no error, and the window
\* keeps its buttons and the fields an attempt fills.
LEMMA StatusStep ==
  ASSUME AppInv, posted' \in Seq(Closures), ui' \in Window,
         Errors(posted) = {} => Errors(posted') = {},
         (\A j, k \in Errors(posted) : j = k) => \A j, k \in Errors(posted') : j = k,
         ui'.connectOn = ui.connectOn, ui'.disconnectOn = ui.disconnectOn,
         ui'.client = ui.client, ui'.framer = ui.framer,
         UNCHANGED <<kit, set, host, att, client, cancelled, tries, hasty>>
  PROVE  AppInv'
  <1>1. AppType'
    BY DEF AppInv, AppType
  <1>2. Captures'
    BY DEF AppInv, Captures
  <1>3. Unmade(att', tries')
    BY DEF AppInv
  <1>4. WindowInv'
    <2> SUFFICES ASSUME kit # "mini", ~hasty
                 PROVE  /\ ui'.disconnectOn = ~ui'.connectOn
                        /\ Settled(att', ui', cancelled', tries')
                        /\ Current(att', ui', tries')
                        /\ Told(att', ui', tries', posted')
      BY DEF WindowInv
    <2>1. Settled(att', ui', cancelled', tries')
      BY DEF AppInv, WindowInv, Settled
    <2>2. Current(att', ui', tries')
      BY DEF AppInv, WindowInv, Current
    <2>3. Told(att', ui', tries', posted')
      BY DEF AppInv, WindowInv, Told
    <2> QED
      BY <2>1, <2>2, <2>3 DEF AppInv, WindowInv
  <1> QED
    BY <1>1, <1>2, <1>3, <1>4 DEF AppInv

\* RefreshStatus, on the loop of attempt i.
LEMMA RefreshStep ==
  ASSUME AppInv, NEW i \in Attempts, RefreshStatus(i)
  PROVE  AppInv'
  <1>1. UNCHANGED <<kit, set, host, att, client, cancelled, tries, hasty>>
    BY DEF RefreshStatus, machinery
  <1>2. CASE ui.client = 0
    <2>1. posted' = posted /\ ui' = ui
      BY <1>2 DEF RefreshStatus
    <2>2. posted \in Seq(Closures) /\ ui \in Window
      BY DEF AppInv, AppType
    <2> QED
      BY <1>1, <2>1, <2>2, StatusStep
  <1>3. CASE ui.client # 0
    <2> DEFINE c == [kind |-> "status", state |-> client[ui.client]]
    <2>1. ui.client \in Attempts
      BY <1>3 DEF AppInv, AppType, Window, Attempts
    <2>2. c \in Closures /\ c.kind = "status"
      BY <2>1 DEF AppInv, AppType, Closures
    <2>3. posted' = Append(posted, c)
      BY <1>3 DEF RefreshStatus, Post
    <2>4. ui' = ui \/ ui' = [ui EXCEPT !.autoSaveDone = TRUE]
      BY <1>3 DEF RefreshStatus
    <2>5. /\ ui' \in Window
          /\ ui'.connectOn = ui.connectOn /\ ui'.disconnectOn = ui.disconnectOn
          /\ ui'.client = ui.client /\ ui'.framer = ui.framer
      BY <2>4 DEF AppInv, AppType, Window
    <2> HIDE DEF c
    <2>6. posted' \in Seq(Closures) /\ Errors(posted') = Errors(posted)
      BY <2>2, <2>3, PostType DEF AppInv, AppType
    <2> QED
      BY <1>1, <2>5, <2>6, StatusStep
  <1> QED
    BY <1>2, <1>3

\* The queue without its head.
LEMMA TailType ==
  ASSUME NEW q \in Seq(Closures), q # <<>>
  PROVE  /\ Tail(q) \in Seq(Closures) /\ Head(q) \in Closures /\ Head(q) = q[1] /\ 1 \in DOMAIN q
         /\ \A k \in Errors(Tail(q)) : k \in Nat /\ k >= 1 /\ k + 1 \in Errors(q)
  BY DEF Errors

\* The window runs a closure: the last attempt's error, or a status.
LEMMA ClosureStep ==
  ASSUME AppInv, RunClosure
  PROVE  AppInv'
  <1>1. /\ posted \in Seq(Closures) /\ posted # <<>> /\ posted' = Tail(posted)
        /\ UNCHANGED <<kit, set, host, att, client, cancelled, tries, hasty>>
    BY DEF RunClosure, machinery, AppInv, AppType
  <1>2. /\ posted' \in Seq(Closures) /\ Head(posted) \in Closures /\ Head(posted) = posted[1] /\ 1 \in DOMAIN posted
        /\ \A k \in Errors(posted') : k \in Nat /\ k >= 1 /\ k + 1 \in Errors(posted)
    BY <1>1, TailType
  <1>3. /\ Errors(posted) = {} => Errors(posted') = {}
        /\ (\A j, k \in Errors(posted) : j = k) => \A j, k \in Errors(posted') : j = k
    <2>1. ASSUME \A j, k \in Errors(posted) : j = k, NEW j \in Errors(posted'), NEW k \in Errors(posted')
          PROVE  j = k
      <3>1. j \in Nat /\ k \in Nat /\ j + 1 = k + 1
        BY <1>2, <2>1
      <3> QED
        BY <3>1
    <2> QED
      BY <1>2, <2>1
  <1>4. CASE Head(posted).kind # "error"
    <2>1. ShowStatus(Head(posted).state)
      BY <1>4 DEF RunClosure
    <2> DEFINE s == Head(posted).state
               u == [ui EXCEPT !.dot = Dot(s)]
               b == ui.autoSaveDone \/ (kit = "walk" /\ s = "connected")
    <2>2. /\ u \in Window /\ u.connectOn = ui.connectOn /\ u.disconnectOn = ui.disconnectOn
          /\ u.client = ui.client /\ u.framer = ui.framer /\ u.autoSaveDone = ui.autoSaveDone
      BY DEF AppInv, AppType, Window, Dot
    <2>3. ui' = [u EXCEPT !.autoSaveDone = b]
      BY <2>1 DEF ShowStatus, AppInv, AppType, Window
    <2>4. b \in BOOLEAN
      BY DEF AppInv, AppType, Window
    <2> HIDE DEF u, b
    <2>5. /\ ui' \in Window /\ ui'.connectOn = u.connectOn /\ ui'.disconnectOn = u.disconnectOn
          /\ ui'.client = u.client /\ ui'.framer = u.framer
      BY <2>2, <2>3, <2>4 DEF Window
    <2> QED
      BY <1>1, <1>2, <1>3, <2>2, <2>5, StatusStep
  <1>5. CASE Head(posted).kind = "error"
    <2>1. ShowError
      BY <1>5 DEF RunClosure
    <2> DEFINE u == [ui EXCEPT !.connectOn = (kit # "mini")]
               v == [u EXCEPT !.disconnectOn = FALSE]
    <2>2. u \in Window /\ u.connectOn = (kit # "mini")
      BY DEF AppInv, AppType, Window
    <2>3. ui' = [v EXCEPT !.dot = IF kit = "walk" THEN ui.dot ELSE "red"]
      BY <2>1 DEF ShowError, AppInv, AppType, Window
    <2>4. ui.dot \in {"grey", "yellow", "green", "red"}
      BY DEF AppInv, AppType, Window
    <2> HIDE DEF u
    <2>5. v \in Window /\ v.connectOn = (kit # "mini") /\ v.disconnectOn = FALSE
      BY <2>2 DEF Window
    <2> HIDE DEF v
    <2>6. ui' \in Window /\ ui'.connectOn = (kit # "mini") /\ ui'.disconnectOn = FALSE
      BY <2>3, <2>4, <2>5 DEF Window
    <2>7. AppType'
      BY <1>1, <1>2, <2>6 DEF AppInv, AppType
    <2>8. Captures'
      BY <1>1 DEF AppInv, Captures
    <2>9. Unmade(att', tries')
      BY <1>1 DEF AppInv
    <2>10. WindowInv'
      <3> SUFFICES ASSUME kit # "mini", ~hasty
                   PROVE  /\ ui'.disconnectOn = ~ui'.connectOn
                          /\ Settled(att', ui', cancelled', tries')
                          /\ Current(att', ui', tries')
                          /\ Told(att', ui', tries', posted')
        BY <1>1 DEF WindowInv
      <3>1. 1 \in Errors(posted)
        BY <1>2, <1>5 DEF Errors
      <3>2. /\ ~ui.connectOn /\ att[tries].at = "failed"
            /\ \A k \in Errors(posted) : k = 1
        BY <3>1 DEF AppInv, WindowInv, Told
      <3>3. Errors(posted') = {}
        <4> SUFFICES ASSUME NEW k \in Errors(posted') PROVE FALSE
          OBVIOUS
        <4>1. k \in Nat /\ k >= 1 /\ k + 1 = 1
          BY <1>2, <3>2
        <4> QED
          BY <4>1
      <3>4. tries \in Attempts /\ ~att[tries].held
        BY <3>2 DEF AppInv, WindowInv, Current
      <3>5. \A i \in Attempts : Quiet(att, i, cancelled)
        BY <3>2, <3>4 DEF AppInv, WindowInv, Settled, Quiet
      <3>6. Settled(att', ui', cancelled', tries')
        BY <1>1, <3>5 DEF Settled
      <3>7. Current(att', ui', tries')
        BY <2>6 DEF Current
      <3>8. Told(att', ui', tries', posted')
        BY <3>3 DEF Told
      <3> QED
        BY <2>6, <3>6, <3>7, <3>8
    <2> QED
      BY <2>7, <2>8, <2>9, <2>10 DEF AppInv
  <1> QED
    BY <1>4, <1>5

\* onDisconnect: pressed in time, it ends the last attempt, which is in the
\* fields of the window; pressed early, nothing is promised any more.
LEMMA DisconnectStep ==
  ASSUME AppInv, onDisconnect
  PROVE  AppInv'
  <1> DEFINE f == ui.framer
             Freed(i) == IF i = f THEN [att[i] EXCEPT !.held = FALSE] ELSE att[i]
  <1>1. /\ ui.disconnectOn
        /\ cancelled' = cancelled \cup ({ui.cancel, ui.client} \ {0})
        /\ att' = [i \in Attempts |-> Freed(i)]
        /\ ui' = [ui EXCEPT !.client = 0, !.framer = 0, !.dot = "grey", !.autoSaveDone = FALSE,
                            !.connectOn = TRUE, !.disconnectOn = FALSE]
        /\ UNCHANGED <<kit, set, host, client, posted, tries>>
    BY DEF onDisconnect, machinery
  <1>2. hasty' = (hasty \/ Undecided)
    BY DEF onDisconnect
  <1>3. \A i \in Attempts : /\ att'[i] \in Attempted
                            /\ att'[i].at = att[i].at /\ att'[i].mode = att[i].mode /\ att'[i].nic = att[i].nic
                            /\ i # f => att'[i] = att[i]
                            /\ i = f \/ ~att[i].held => ~att'[i].held
                            /\ att[i] = NoAttempt => att'[i] = NoAttempt
    <2> SUFFICES ASSUME NEW i \in Attempts
                 PROVE  /\ Freed(i) \in Attempted
                        /\ Freed(i).at = att[i].at /\ Freed(i).mode = att[i].mode /\ Freed(i).nic = att[i].nic
                        /\ i # f => Freed(i) = att[i]
                        /\ i = f \/ ~att[i].held => ~Freed(i).held
                        /\ att[i] = NoAttempt => Freed(i) = NoAttempt
      BY <1>1
    <2> DEFINE r == [att[i] EXCEPT !.held = FALSE]
    <2>1. att[i] \in Attempted
      BY DEF AppInv, AppType
    <2>2. /\ r \in Attempted /\ r.held = FALSE
          /\ r.at = att[i].at /\ r.mode = att[i].mode /\ r.nic = att[i].nic
      BY <2>1 DEF Attempted
    <2>3. ASSUME att[i].held = FALSE
          PROVE  r = att[i]
      BY <2>1, <2>3 DEF Attempted
    <2> QED
      BY <2>1, <2>2, <2>3, NoAttemptType DEF Attempted
  <1>4. ui' \in Window /\ ui'.connectOn = TRUE /\ ui'.disconnectOn = FALSE
    <2> DEFINE u1 == [ui EXCEPT !.client = 0]
               u2 == [u1 EXCEPT !.framer = 0]
               u3 == [u2 EXCEPT !.dot = "grey"]
               u4 == [u3 EXCEPT !.autoSaveDone = FALSE]
               u5 == [u4 EXCEPT !.connectOn = TRUE]
    <2>1. ui' = [u5 EXCEPT !.disconnectOn = FALSE]
      BY <1>1 DEF AppInv, AppType, Window
    <2>2. 0 \in 0..MaxAttempts
      BY SettingsType DEF AppInv, AppType
    <2>3. u1 \in Window
      BY <2>2 DEF AppInv, AppType, Window
    <2> HIDE DEF u1
    <2>4. u2 \in Window
      BY <2>2, <2>3 DEF Window
    <2> HIDE DEF u2
    <2>5. u3 \in Window
      BY <2>4 DEF Window
    <2> HIDE DEF u3
    <2>6. u4 \in Window
      BY <2>5 DEF Window
    <2> HIDE DEF u4
    <2>7. u5 \in Window /\ u5.connectOn = TRUE
      BY <2>6 DEF Window
    <2> HIDE DEF u5
    <2> QED
      BY <2>1, <2>7 DEF Window
  <1> HIDE DEF f
  <1>5. AppType'
    <2>1. att' \in [Attempts -> Attempted]
      BY <1>1, <1>3
    <2>2. hasty' \in BOOLEAN
      BY <1>2 DEF AppInv, AppType, Undecided
    <2> QED
      BY <1>1, <1>4, <2>1, <2>2 DEF AppInv, AppType
  <1>6. Captures'
    BY <1>1, <1>3 DEF AppInv, Captures, Allowed
  <1>7. Unmade(att', tries')
    BY <1>1, <1>3 DEF AppInv, Unmade
  <1>8. WindowInv'
    <2> SUFFICES ASSUME kit # "mini", ~hasty'
                 PROVE  /\ ui'.disconnectOn = ~ui'.connectOn
                        /\ Settled(att', ui', cancelled', tries')
                        /\ Current(att', ui', tries')
                        /\ Told(att', ui', tries', posted')
      BY <1>1 DEF WindowInv
    <2>1. ~hasty /\ Opening = {} /\ Errors(posted) = {}
      BY <1>2 DEF Undecided, Errors, AppInv, AppType
    <2>2. ~ui.connectOn
      BY <1>1, <2>1 DEF AppInv, WindowInv
    <2>3. /\ tries \in Attempts
          /\ att[tries].at = "failed" => ~att[tries].held
          /\ att[tries].at = "live" => ui.framer = tries /\ ui.client = tries
      BY <2>1, <2>2 DEF AppInv, WindowInv, Current
    <2>4. ASSUME NEW i \in Attempts
          PROVE  Quiet(att', i, cancelled')
      <3>1. CASE i # tries
        <4>1. Quiet(att, i, cancelled)
          BY <2>1, <3>1 DEF AppInv, WindowInv, Settled
        <4>2. /\ att'[i].at = att[i].at
              /\ ~att'[i].held
              /\ cancelled \subseteq cancelled'
          BY <1>1, <1>3, <4>1 DEF Quiet
        <4> QED
          BY <4>1, <4>2 DEF Quiet
      <3>2. CASE i = tries
        <4>1. att[i] \in Attempted /\ att[i].at \notin {"opening", "opened"}
          BY <2>1 DEF Opening, AppInv, AppType
        <4>2. att[i].at \in {"none", "failed", "live"}
          BY <4>1 DEF Attempted
        <4>3. CASE att[i].at # "live"
          <5>1. ~att[i].held
            BY <2>1, <2>2, <3>2, <4>2, <4>3 DEF AppInv, WindowInv, Current
          <5> QED
            BY <1>3, <4>2, <4>3, <5>1 DEF Quiet
        <4>5. CASE att[i].at = "live"
          <5>1. i = f /\ i \in cancelled'
            BY <1>1, <2>3, <3>2, <4>5 DEF f, Attempts
          <5> QED
            BY <1>3, <4>5, <5>1 DEF Quiet
        <4> QED
          BY <4>3, <4>5
      <3> QED
        BY <3>1, <3>2
    <2>5. Settled(att', ui', cancelled', tries')
      BY <2>4 DEF Settled
    <2>6. Current(att', ui', tries')
      BY <1>4 DEF Current
    <2>7. Told(att', ui', tries', posted')
      BY <1>1, <2>1 DEF Told
    <2> QED
      BY <1>4, <2>5, <2>6, <2>7
  <1> QED
    BY <1>5, <1>6, <1>7, <1>8 DEF AppInv

LEMMA AppNext == AppInv /\ [Next]_vars => AppInv'
  <1> SUFFICES ASSUME AppInv, [Next]_vars PROVE AppInv'
    OBVIOUS
  <1>1. CASE UNCHANGED vars
    BY <1>1 DEF vars, AppInv, AppType, Captures, WindowInv
  <1>2. ASSUME NEW i \in Attempts, ClientStep(i) \/ ClientEnds(i)
        PROVE  AppInv'
    <2>1. PICK s \in States : setState(i, s)
      BY <1>2 DEF ClientStep, ClientEnds, States
    <2>2. UNCHANGED <<machinery, host, att, cancelled, loop, ui, posted, tries, hasty>>
      BY <1>2 DEF ClientStep, ClientEnds
    <2> QED
      BY <2>1, <2>2, ClientMoves
  <1>3. CASE InstallNpcap
    <2>1. client' \in [Attempts -> States]
      BY <1>3 DEF InstallNpcap, AppInv, AppType
    <2>2. Sane(host')
      BY <1>3 DEF InstallNpcap, AppInv, AppType, Captures, Sane, Hosts
    <2> QED
      BY <1>3, <2>1, <2>2, ElsewhereStep DEF InstallNpcap, machinery
  <1>4. ASSUME NEW i \in Attempts, Attempt(i) \/ Loop(i)
        PROVE  AppInv'
    BY <1>4, OpenStep, LaunchStep, LoopStep, RefreshStep DEF Attempt, Loop
  <1> QED
    BY <1>1, <1>2, <1>3, <1>4, ConnectStep, DisconnectStep, ClosureStep DEF Next, Client

LEMMA AppInvariant == Spec => []AppInv
  BY AppInit, AppNext, PTL DEF Spec

\* The window's fields, the attempts and the closures are what AppType says.
THEOREM WindowTypeCorrect == Spec => []AppType
  <1>1. AppInv => AppType
    BY DEF AppInv
  <1> QED
    BY AppInvariant, <1>1, PTL

\* Once Disconnect was pressed in time, or an attempt's error was shown, and
\* Connect is offered again: no attempt holds a device, and none runs a client.
THEOREM DisconnectLeavesNothing == Spec => []DisconnectedMeansStopped
  <1>1. AppInv => DisconnectedMeansStopped
    <2> SUFFICES ASSUME AppInv, kit # "mini", ui.connectOn, ~hasty
                 PROVE  Used = {} /\ \A i \in Attempts : ~Running(i)
      BY DEF DisconnectedMeansStopped
    <2>1. \A i \in Attempts : Quiet(att, i, cancelled)
      BY DEF AppInv, WindowInv, Settled
    <2> QED
      BY <2>1 DEF Quiet, Used, Running
  <1> QED
    BY AppInvariant, <1>1, PTL

\* Whatever driver fails to load and whichever adapter is found, what an attempt
\* captures is what the settings allow, and Radmin VPN's card joins no bridge.
THEOREM CaptureIsAllowed == Spec => []CapturesAsConfigured
  <1>1. AppInv => CapturesAsConfigured
    BY DEF AppInv, Captures, Allowed, CapturesAsConfigured
  <1> QED
    BY AppInvariant, <1>1, PTL

-------------------------------------------------------------------------------
(* The fields of the battery.

   The argument.  What is in the connection when a request is made are echoes,
   refusals and data of the requests before; and as long as none of these was
   answered "response pending", nothing is.  So the frame that is taken is about
   the request's own DID, or about an earlier one after "response pending"; after
   a timeout no answer is taken any more. *)

\* d is data for the i-th of the requests for dids.
DataFor(d, dids, i, pended) ==
    \E j \in 1..i : dids[j][2] = d /\ (j = i \/ pended)

\* Every field has data for one of its requests on that platform.
OwnData(held, platform) ==
    \A f \in DOMAIN held : \E i \in DOMAIN DidsOf(platform) :
        /\ DidsOf(platform)[i][1] = f
        /\ DataFor(held[f].did, DidsOf(platform), i, held[f].pended)

Dids == {"40AD", "40C3", "40B5", "4023", "4022"}
NoData == {"error", "timeout"}

\* Frames that may be left over from the first n requests.
Left(dids, n) == {"ack", "nrc"} \cup {dids[j][2] : j \in 1..n}

\* What the first n requests of a read heard, s.
Heard(s, dids, how, n) ==
    /\ s.got \in Seq(Dids \cup NoData)
    /\ Len(s.got) <= n
    /\ ~s.dead => /\ Len(s.got) = n /\ s.inbox \in Seq(Left(dids, n))
                  /\ ~Pended(how, n + 1) => s.inbox = <<>>
    /\ \A i \in 1..Len(s.got) :
          s.got[i] \in NoData \/ DataFor(s.got[i], dids, i, Pended(how, i))

LEMMA DidsType ==
  ASSUME NEW platform
  PROVE  LET dids == DidsOf(platform)
         IN  /\ Len(dids) \in {2, 3} /\ DOMAIN dids = 1..Len(dids)
             /\ \A i \in 1..Len(dids) : dids[i][2] \in Dids /\ dids[i] = <<dids[i][1], dids[i][2]>>
  <1>1. /\ Len(readG) = 3 /\ DOMAIN readG = 1..3 /\ Len(readF) = 2 /\ DOMAIN readF = 1..2
    BY DEF readG, readF
  <1>2. \A i \in 1..3 : readG[i][2] \in Dids /\ readG[i] = <<readG[i][1], readG[i][2]>>
    <2>1. /\ readG[1] = <<"soc", "40AD">> /\ readG[2] = <<"voltage", "40C3">> /\ readG[3] = <<"ageing", "40B5">>
      BY DEF readG
    <2>2. \A i \in 1..3 : i = 1 \/ i = 2 \/ i = 3
      OBVIOUS
    <2> QED
      BY <2>1, <2>2 DEF Dids
  <1>3. \A i \in 1..2 : readF[i][2] \in Dids /\ readF[i] = <<readF[i][1], readF[i][2]>>
    <2>1. readF[1] = <<"soc", "4023">> /\ readF[2] = <<"voltage", "4022">>
      BY DEF readF
    <2>2. \A i \in 1..2 : i = 1 \/ i = 2
      OBVIOUS
    <2> QED
      BY <2>1, <2>2 DEF Dids
  <1> QED
    BY <1>1, <1>2, <1>3 DEF DidsOf

\* Nothing was left over: the data are the DID's, or there are none, and again
\* nothing is left over.
LEMMA ReadsItsDid ==
  ASSUME NEW did \in Dids, NEW how, how # "pending"
  PROVE  LET r == readDID(<<>> \o Frames(did, how))
         IN  r.data \in {did, "error", "timeout"} /\ r.rest = <<>>
  <1>1. \A d : d # "ack" => LET r == readDID(<<"ack", d>>) IN r.data = (IF d = "nrc" THEN "error" ELSE d) /\ r.rest = <<>>
    <2> SUFFICES ASSUME NEW d, d # "ack"
                 PROVE  LET r == readDID(<<"ack", d>>) IN r.data = (IF d = "nrc" THEN "error" ELSE d) /\ r.rest = <<>>
      OBVIOUS
    <2> DEFINE x == <<"ack", d>>
               answers == {i \in DOMAIN x : i <= 3 /\ x[i] # "ack"}
               i == CHOOSE k \in answers : \A j \in answers : k <= j
    <2>1. answers = {2}
      <3>1. DOMAIN x = {1, 2} /\ x[1] = "ack" /\ x[2] = d
        OBVIOUS
      <3> HIDE DEF x
      <3> QED
        BY <3>1
    <2>2. i = 2
      <3> HIDE DEF answers
      <3> QED
        BY <2>1
    <2>3. Len(x) = 2 /\ x[2] = d /\ SubSeq(x, 3, 2) = <<>>
      OBVIOUS
    <2> HIDE DEF answers
    <2>4. readDID(x) = [data |-> IF x[i] = "nrc" THEN "error" ELSE x[i], rest |-> SubSeq(x, i + 1, Len(x))]
      BY <2>1 DEF readDID, answers
    <2> HIDE DEF i, x
    <2> QED
      BY <2>2, <2>3, <2>4 DEF x
  <1>2. readDID(<<"ack">>) = [data |-> "timeout", rest |-> <<>>]
    <2> DEFINE x == <<"ack">>
               answers == {i \in DOMAIN x : i <= 3 /\ x[i] # "ack"}
    <2>1. answers = {} /\ Len(x) = 1
      <3>1. DOMAIN x = {1} /\ x[1] = "ack" /\ Len(x) = 1
        OBVIOUS
      <3> HIDE DEF x
      <3> QED
        BY <3>1
    <2> HIDE DEF answers
    <2> QED
      BY <2>1 DEF readDID, answers
  <1>3. did # "ack" /\ did # "nrc"
    BY DEF Dids
  <1>4. CASE how = "ok"
    <2>1. <<>> \o Frames(did, how) = <<"ack", did>>
      BY <1>4 DEF Frames
    <2> QED
      BY <1>1, <1>3, <2>1
  <1>5. CASE how = "refused"
    <2>1. <<>> \o Frames(did, how) = <<"ack", "nrc">>
      BY <1>5 DEF Frames
    <2> QED
      BY <1>1, <2>1
  <1>6. CASE how \notin {"ok", "refused"}
    <2>1. <<>> \o Frames(did, how) = <<"ack">>
      BY <1>6 DEF Frames
    <2> QED
      BY <1>2, <2>1
  <1> QED
    BY <1>4, <1>5, <1>6

\* Whatever is in the connection: the data are one of the frames, and what is left
\* over are frames that were there.
LEMMA ReadsAFrame ==
  ASSUME NEW S, NEW x \in Seq(S)
  PROVE  LET r == readDID(x)
         IN  r.data \in (S \ {"ack", "nrc"}) \cup NoData /\ r.rest \in Seq(S)
  <1> DEFINE answers == {i \in DOMAIN x : i <= 3 /\ x[i] # "ack"}
             i == CHOOSE k \in answers : \A j \in answers : k <= j
  <1>1. answers \subseteq {1, 2, 3} /\ Len(x) \in Nat /\ answers \subseteq 1..Len(x)
    OBVIOUS
  <1>2. CASE answers # {}
    <2>1. readDID(x) = [data |-> IF x[i] = "nrc" THEN "error" ELSE x[i],
                        rest |-> SubSeq(x, i + 1, Len(x))]
      BY <1>2 DEF readDID
    <2>2. i \in answers
      <3> HIDE DEF answers
      <3>1. \E k \in answers : \A j \in answers : k <= j
        <4>0. \A j \in answers : j = 1 \/ j = 2 \/ j = 3
          BY <1>1
        <4>1. CASE 1 \in answers
          <5>1. \A j \in answers : 1 <= j
            BY <4>0
          <5> QED
            BY <4>1, <5>1
        <4>2. CASE 1 \notin answers /\ 2 \in answers
          <5>1. \A j \in answers : 2 <= j
            BY <4>0, <4>2
          <5> QED
            BY <4>2, <5>1
        <4>3. CASE 1 \notin answers /\ 2 \notin answers
          <5>1. answers = {3}
            BY <1>2, <4>0, <4>3
          <5> QED
            BY <5>1
        <4> QED
          BY <4>1, <4>2, <4>3
      <3> QED
        BY <3>1
    <2>3. x[i] \in S /\ x[i] # "ack" /\ i \in 1..Len(x)
      BY <1>1, <2>2
    <2> HIDE DEF i, answers
    <2>4. SubSeq(x, i + 1, Len(x)) \in Seq(S)
      BY <1>1, <2>3
    <2> QED
      BY <2>1, <2>3, <2>4 DEF NoData
  <1>3. CASE answers = {} /\ Len(x) >= 3
    <2>1. readDID(x) = [data |-> "error", rest |-> SubSeq(x, 4, Len(x))]
      BY <1>3 DEF readDID
    <2>2. SubSeq(x, 4, Len(x)) \in Seq(S)
      BY <1>1, <1>3
    <2> QED
      BY <2>1, <2>2 DEF NoData
  <1>4. CASE answers = {} /\ ~(Len(x) >= 3)
    <2>1. readDID(x) = [data |-> "timeout", rest |-> <<>>]
      BY <1>4 DEF readDID
    <2> QED
      BY <2>1 DEF NoData
  <1> QED
    BY <1>2, <1>3, <1>4

LEMMA AskHears ==
  ASSUME NEW n \in Nat, NEW dids, \A j \in 1..(n + 1) : dids[j][2] \in Dids, NEW how,
         NEW s, Heard(s, dids, how, n)
  PROVE  Heard(Ask(s, dids[n + 1][2], how[n + 1]), dids, how, n + 1)
  <1>1. CASE s.dead
    BY <1>1 DEF Ask, Heard
  <1>2. CASE ~s.dead
    <2> DEFINE did == dids[n + 1][2]
               x == s.inbox \o Frames(did, how[n + 1])
               r == readDID(x)
               t == [inbox |-> r.rest, dead |-> r.data = "timeout", got |-> Append(s.got, r.data)]
               D == Dids \cup NoData
               S == Left(dids, n + 1)
    <2>1. /\ s.inbox \in Seq(Left(dids, n)) /\ s.got \in Seq(D) /\ Len(s.got) = n
          /\ ~Pended(how, n + 1) => s.inbox = <<>>
      BY <1>2 DEF Heard
    <2>2. did \in Dids /\ n + 1 \in 1..(n + 1)
      OBVIOUS
    <2>3. x \in Seq(S)
      <3>1. Left(dids, n) \subseteq S
        BY DEF Left
      <3>2. s.inbox \in Seq(S)
        BY <2>1, <3>1
      <3>3. did \in S /\ "ack" \in S /\ "nrc" \in S
        BY <2>2 DEF Left
      <3> HIDE DEF S, did
      <3>4. Frames(did, how[n + 1]) \in Seq(S)
        BY <3>3 DEF Frames
      <3> QED
        BY <3>2, <3>4
    <2>4. r.data \in (S \ {"ack", "nrc"}) \cup NoData /\ r.rest \in Seq(S)
      BY <2>3, ReadsAFrame
    <2>5. ~Pended(how, n + 1) /\ how[n + 1] # "pending" => r.data \in {did} \cup NoData /\ r.rest = <<>>
      <3> SUFFICES ASSUME ~Pended(how, n + 1), how[n + 1] # "pending"
                   PROVE  r.data \in {did} \cup NoData /\ r.rest = <<>>
        OBVIOUS
      <3>1. x = <<>> \o Frames(did, how[n + 1])
        BY <2>1
      <3> HIDE DEF x, did
      <3>2. readDID(x).data \in {did, "error", "timeout"} /\ readDID(x).rest = <<>>
        BY <2>2, <3>1, ReadsItsDid
      <3> QED
        BY <3>2 DEF NoData
    <2>6. Pended(how, (n + 1) + 1) <=> Pended(how, n + 1) \/ how[n + 1] = "pending"
      BY DEF Pended
    <2>7. Ask(s, did, how[n + 1]) = t
      BY <1>2 DEF Ask
    <2>8. r.data \in NoData \/ DataFor(r.data, dids, n + 1, Pended(how, n + 1))
      <3>1. CASE Pended(how, n + 1)
        BY <2>4, <3>1 DEF Left, DataFor
      <3>2. CASE ~Pended(how, n + 1)
        <4>1. x = <<>> \o Frames(did, how[n + 1])
          BY <2>1, <3>2
        <4>2. CASE how[n + 1] = "pending"
          <5>1. Frames(did, how[n + 1]) = <<"ack", "nrc", did>>
            BY <4>2 DEF Frames
          <5>2. r.data \in {did} \cup NoData
            <6>1. x \in Seq({"ack", "nrc", did})
              BY <4>1, <5>1
            <6> QED
              BY <6>1, ReadsAFrame
          <5> QED
            BY <2>2, <5>2 DEF DataFor
        <4>3. CASE how[n + 1] # "pending"
          BY <2>2, <2>5, <3>2, <4>3 DEF DataFor
        <4> QED
          BY <4>2, <4>3
      <3> QED
        BY <3>1, <3>2
    <2>9. r.data \in D
      BY <2>4 DEF Left
    <2> HIDE DEF r
    <2>10. t.inbox = r.rest /\ t.got = Append(s.got, r.data)
      OBVIOUS
    <2> HIDE DEF t, D, S
    <2>11. /\ Append(s.got, r.data) \in Seq(D) /\ Len(Append(s.got, r.data)) = n + 1
           /\ Append(s.got, r.data)[n + 1] = r.data
           /\ \A i \in 1..n : Append(s.got, r.data)[i] = s.got[i]
      BY <2>1, <2>9
    <2>12. \A i \in 1..(n + 1) : t.got[i] \in NoData \/ DataFor(t.got[i], dids, i, Pended(how, i))
      <3> SUFFICES ASSUME NEW i \in 1..(n + 1)
                   PROVE  t.got[i] \in NoData \/ DataFor(t.got[i], dids, i, Pended(how, i))
        OBVIOUS
      <3>1. CASE i = n + 1
        BY <2>8, <2>10, <2>11, <3>1
      <3>2. CASE i \in 1..n
        BY <2>1, <2>10, <2>11, <3>2 DEF Heard
      <3> QED
        BY <3>1, <3>2
    <2>13. ~Pended(how, (n + 1) + 1) => t.inbox = <<>>
      BY <2>5, <2>6, <2>10
    <2> QED
      BY <2>4, <2>7, <2>10, <2>11, <2>12, <2>13 DEF Heard, D, S
  <1> QED
    BY <1>1, <1>2

\* A read asks two or three times: the last state is reached from the first by
\* as many requests.
LEMMA AnswersHeard ==
  ASSUME NEW dids, Len(dids) \in {2, 3}, \A i \in 1..Len(dids) : dids[i][2] \in Dids,
         NEW how
  PROVE  \E s : Answers(dids, how) = s.got /\ Heard(s, dids, how, Len(dids))
  <1> DEFINE L == Len(dids)
             s0 == [inbox |-> <<>>, dead |-> FALSE, got |-> <<>>]
             A(s, n) == Ask(s, dids[n][2], how[n])
             s1 == A(s0, 1)
             s2 == A(s1, 2)
             s3 == A(s2, 3)
             g == [n \in 0..L |-> IF n = 0 THEN s0 ELSE IF n = 1 THEN s1 ELSE IF n = 2 THEN s2 ELSE s3]
             after == CHOOSE f : f = [n \in 0..L |-> IF n = 0 THEN s0 ELSE A(f[n - 1], n)]
  <1>1. Answers(dids, how) = after[L].got
    BY DEF Answers
  <1>2. Heard(s0, dids, how, 0)
    BY DEF Heard
  <1>3. \A s : \A n \in 0..(L - 1) : Heard(s, dids, how, n) => Heard(A(s, n + 1), dids, how, n + 1)
    <2> SUFFICES ASSUME NEW s, NEW n \in 0..(L - 1), Heard(s, dids, how, n)
                 PROVE  Heard(A(s, n + 1), dids, how, n + 1)
      OBVIOUS
    <2>1. n \in Nat /\ n + 1 <= L
      OBVIOUS
    <2>2. \A j \in 1..(n + 1) : dids[j][2] \in Dids
      BY <2>1
    <2> QED
      BY <2>1, <2>2, AskHears
  <1> HIDE DEF s0, A
  <1>4. g = [n \in 0..L |-> IF n = 0 THEN s0 ELSE A(g[n - 1], n)]
    <2> HIDE DEF L
    <2>1. L \in {2, 3}
      BY DEF L
    <2>2. \A n \in 0..L : n = 0 \/ n = 1 \/ n = 2 \/ n = 3
      BY <2>1
    <2>3. g[0] = s0 /\ g[1] = s1 /\ g[2] = s2 /\ (L = 3 => g[3] = s3)
      BY <2>1
    <2>4. \A n \in 0..L : g[n] = IF n = 0 THEN s0 ELSE A(g[n - 1], n)
      <3> HIDE DEF g
      <3>1. 1 - 1 = 0 /\ 2 - 1 = 1 /\ 3 - 1 = 2
        OBVIOUS
      <3> QED
        BY <2>1, <2>2, <2>3, <3>1
    <2>5. g = [n \in 0..L |-> g[n]]
      OBVIOUS
    <2> HIDE DEF g
    <2> QED
      BY <2>4, <2>5
  <1> HIDE DEF g, L
  <1>5. after = [n \in 0..L |-> IF n = 0 THEN s0 ELSE A(after[n - 1], n)]
    BY <1>4
  <1> HIDE DEF after
  <1>6. L \in {2, 3}
    BY DEF L
  <1>7. after[0] = s0 /\ after[1] = A(after[0], 1) /\ after[2] = A(after[1], 2) /\ (L = 3 => after[3] = A(after[2], 3))
    <2>1. \A n \in 0..L : after[n] = IF n = 0 THEN s0 ELSE A(after[n - 1], n)
      BY <1>5
    <2> QED
      BY <1>6, <2>1
  <1>8. Heard(after[0], dids, how, 0)
    BY <1>2, <1>7
  <1>9. Heard(after[1], dids, how, 1)
    BY <1>3, <1>6, <1>7, <1>8
  <1>10. Heard(after[2], dids, how, 2)
    BY <1>3, <1>6, <1>7, <1>9
  <1>11. L = 3 => Heard(after[3], dids, how, 3)
    BY <1>3, <1>7, <1>10
  <1> QED
    BY <1>1, <1>6, <1>10, <1>11 DEF L

LEMMA ReadOwn ==
  ASSUME NEW platform, NEW how
  PROVE  OwnData(Read(platform, how), platform)
  <1>0. PICK dids : dids = DidsOf(platform)
    OBVIOUS
  <1> DEFINE got  == Answers(dids, how)
             good == {i \in DOMAIN got : got[i] \notin {"timeout", "error"}}
             At(f) == CHOOSE i \in good : dids[i][1] = f
             fresh == [f \in {dids[i][1] : i \in good} |-> [did |-> got[At(f)], pended |-> Pended(how, At(f))]]
  <1>1. Read(platform, how) = fresh
    BY <1>0 DEF Read
  <1>2. /\ Len(dids) \in {2, 3} /\ DOMAIN dids = 1..Len(dids)
        /\ \A i \in 1..Len(dids) : dids[i][2] \in Dids
    BY <1>0, DidsType
  <1>3. PICK s : got = s.got /\ Heard(s, dids, how, Len(dids))
    <2> HIDE DEF got, good, fresh, At
    <2>2. Len(dids) \in {2, 3}
      BY <1>2
    <2>3. \A i \in 1..Len(dids) : dids[i][2] \in Dids
      BY <1>2
    <2>4. \E s : Answers(dids, how) = s.got /\ Heard(s, dids, how, Len(dids))
      BY <2>2, <2>3, AnswersHeard
    <2> QED
      BY <2>4 DEF got
  <1>4. /\ DOMAIN got \subseteq 1..Len(dids)
        /\ \A i \in DOMAIN got : got[i] \in NoData \/ DataFor(got[i], dids, i, Pended(how, i))
    <2>1. DOMAIN got = 1..Len(got) /\ Len(got) \in Nat /\ Len(got) <= Len(dids)
      BY <1>3 DEF Heard
    <2> QED
      BY <1>2, <1>3, <2>1 DEF Heard
  <1> HIDE DEF got
  <1>5. \A i \in good : i \in DOMAIN dids /\ DataFor(got[i], dids, i, Pended(how, i))
    BY <1>2, <1>4 DEF NoData
  <1> HIDE DEF good
  <1>6. \A f \in DOMAIN fresh : \E i \in DOMAIN dids :
           dids[i][1] = f /\ DataFor(fresh[f].did, dids, i, fresh[f].pended)
    <2> SUFFICES ASSUME NEW f \in {dids[i][1] : i \in good}
                 PROVE  \E i \in DOMAIN dids :
                            dids[i][1] = f /\ DataFor(fresh[f].did, dids, i, fresh[f].pended)
      OBVIOUS
    <2> DEFINE k == At(f)
    <2>1. k \in good /\ dids[k][1] = f
      OBVIOUS
    <2>2. fresh[f].did = got[k] /\ fresh[f].pended = Pended(how, k)
      OBVIOUS
    <2> HIDE DEF k, fresh, At
    <2> QED
      BY <1>5, <2>1, <2>2
  <1> HIDE DEF fresh
  <1> QED
    BY <1>0, <1>1, <1>6 DEF OwnData

Platforms == {InfoOf(c).platform : c \in Cars}

LEMMA OutcomeOwn ==
  ASSUME NEW platform \in Platforms, NEW fresh \in Outcomes[platform]
  PROVE  OwnData(fresh, platform)
  <1>1. PICK how \in DmeScripts : fresh = Read(platform, how)
    BY DEF Outcomes, Platforms
  <1> QED
    BY <1>1, ReadOwn

LEMMA MergeOwn ==
  ASSUME NEW held, NEW fresh, NEW platform, OwnData(held, platform), OwnData(fresh, platform)
  PROVE  OwnData(merge(held, fresh), platform)
  BY DEF merge, OwnData

-------------------------------------------------------------------------------
(* The battery display. *)

Addresses == {c.ip : c \in Cars}
Queueable == [op : {"info"}, info : Reports] \cup [op : {"label"}, ip : Addresses]

\* What is asked at an address suits the car there.
Suits(ip, platform) ==
    /\ ip \in Addresses
    /\ \A c \in Cars : ip = c.ip => IsGSeries(platform) = (c.built = "G")

\* A goroutine that polls, or none; the only one not cancelled is chosen.  What it
\* holds is data for its own requests.
Polling(q, chosen, p) ==
    /\ DOMAIN q = {"pc", "ip", "platform", "live", "held"}
    /\ q.live => chosen = p
    /\ q.pc # "none" => Suits(q.ip, q.platform) /\ q.platform \in Platforms
    /\ OwnData(q.held, q.platform)

BatteryInv ==
    /\ shown \in Reports
    /\ queued \in Seq(Queueable)
    /\ DOMAIN polls = Polls
    /\ \A p \in Polls : Polling(polls[p], poll, p)

LEMMA TargetSuits ==
  ASSUME NEW info \in Reports, batteryTarget(info).ip # ""
  PROVE  /\ Suits(batteryTarget(info).ip, batteryTarget(info).platform)
         /\ batteryTarget(info).platform \in Platforms
  <1> DEFINE t == batteryTarget(info)
  <1>1. ~NoVin(info) /\ info.chassis # "" /\ t = [ip |-> info.ip, platform |-> info.platform]
    BY DEF batteryTarget
  <1>2. PICK c \in Cars : info = InfoOf(c)
    <2>1. info # None
      BY <1>1 DEF NoVin
    <2>2. info # Bare
      <3>1. Bare.vin = None
        BY DEF Bare
      <3> QED
        BY <1>1, <3>1 DEF NoVin
    <2> QED
      BY <2>1, <2>2 DEF Reports
  <1>3. info.ip = c.ip
    BY <1>2 DEF InfoOf
  <1>4. IsGSeries(info.platform) = (c.built = "G")
    BY <1>1, <1>2, BatteryAssumption
  <1>5. \A d \in Cars : c.ip = d.ip => c = d
    BY BatteryAssumption
  <1> HIDE DEF t
  <1>6. t.ip = c.ip /\ t.platform = info.platform /\ t.platform \in Platforms
    BY <1>1, <1>2, <1>3 DEF Platforms
  <1> QED
    BY <1>4, <1>5, <1>6 DEF Suits, Addresses, t

\* Idle polls nothing.
LEMMA IdlePolls == \A chosen, p : Polling(Idle, chosen, p)
  <1>1. DOMAIN Idle.held = {}
    BY DEF Idle
  <1>2. OwnData(Idle.held, Idle.platform)
    BY <1>1 DEF OwnData
  <1> QED
    BY <1>2 DEF Idle, Polling

\* After a cancel nothing is live.
LEMMA CancelledPolls ==
  ASSUME BatteryInv
  PROVE  /\ DOMAIN Cancelled = Polls
         /\ \A p \in Polls : Polling(Cancelled[p], poll, p) /\ ~Cancelled[p].live
  <1>1. CASE poll \notin Polls
    <2>1. DOMAIN Cancelled = Polls /\ \A p \in Polls : Cancelled[p] = polls[p]
      BY <1>1 DEF BatteryInv, Cancelled
    <2> QED
      BY <1>1, <2>1 DEF BatteryInv, Polling
  <1>2. CASE poll \in Polls
    <2> DEFINE q == [polls[poll] EXCEPT !.live = FALSE]
    <2>1. Cancelled = [polls EXCEPT ![poll] = q]
      BY <1>2, BatteryAssumption DEF Cancelled
    <2>2. Polling(q, poll, poll) /\ ~q.live
      BY <1>2 DEF BatteryInv, Polling
    <2> HIDE DEF q
    <2>3. \A p \in Polls : Cancelled[p] = IF p = poll THEN q ELSE polls[p]
      BY <1>2, <2>1 DEF BatteryInv
    <2> QED
      BY <2>1, <2>2, <2>3 DEF BatteryInv, Polling
  <1> QED
    BY <1>1, <1>2

LEMMA StartPolls ==
  ASSUME BatteryInv, NEW t, Suits(t.ip, t.platform), t.platform \in Platforms, StartPoll(t, Cancelled)
  PROVE  DOMAIN polls' = Polls /\ \A p \in Polls : Polling(polls'[p], poll', p)
  <1>1. PICK p \in Polls :
          /\ polls' = [Cancelled EXCEPT ![p] = [Idle EXCEPT !.pc = "read", !.ip = t.ip,
                                                  !.platform = t.platform, !.live = TRUE]]
          /\ poll' = p
    BY DEF StartPoll
  <1> DEFINE Fields == {"pc", "ip", "platform", "live", "held"}
             q1 == [Idle EXCEPT !.pc = "read"]
             q2 == [q1 EXCEPT !.ip = t.ip]
             q3 == [q2 EXCEPT !.platform = t.platform]
             q  == [q3 EXCEPT !.live = TRUE]
  <1>2. polls' = [Cancelled EXCEPT ![p] = q]
    BY <1>1
  <1>3. Polling(q, p, p)
    <2>1. DOMAIN q1 = Fields /\ q1.pc = "read" /\ q1.held = <<>>
      BY DEF Idle
    <2> HIDE DEF q1
    <2>2. DOMAIN q2 = Fields /\ q2.pc = "read" /\ q2.ip = t.ip /\ q2.held = <<>>
      BY <2>1
    <2> HIDE DEF q2
    <2>3. DOMAIN q3 = Fields /\ q3.pc = "read" /\ q3.ip = t.ip /\ q3.platform = t.platform /\ q3.held = <<>>
      BY <2>2
    <2> HIDE DEF q3
    <2>4. DOMAIN q = Fields /\ q.pc = "read" /\ q.ip = t.ip /\ q.platform = t.platform /\ q.held = <<>>
      BY <2>3
    <2> HIDE DEF q
    <2>5. OwnData(<<>>, t.platform)
      <3>1. DOMAIN <<>> = {}
        OBVIOUS
      <3> QED
        BY <3>1 DEF OwnData
    <2> QED
      BY <2>4, <2>5 DEF Polling
  <1> HIDE DEF q
  <1>4. DOMAIN polls' = Polls /\ \A r \in Polls : polls'[r] = IF r = p THEN q ELSE Cancelled[r]
    BY <1>2, CancelledPolls
  <1> QED
    BY <1>1, <1>3, <1>4, CancelledPolls DEF Polling

LEMMA StopPolls ==
  ASSUME BatteryInv, StopPoll
  PROVE  DOMAIN polls' = Polls /\ \A p \in Polls : Polling(polls'[p], poll', p)
  BY CancelledPolls DEF StopPoll, Polling

LEMMA UpdatePolls ==
  ASSUME BatteryInv, NEW info \in Reports, NEW ip, updateBattery(info, ip)
  PROVE  DOMAIN polls' = Polls /\ \A p \in Polls : Polling(polls'[p], poll', p)
  <1>1. CASE UNCHANGED <<poll, polls>>
    BY <1>1 DEF BatteryInv
  <1>2. CASE StopPoll
    BY <1>2, StopPolls
  <1>3. CASE batteryTarget(info).ip # "" /\ StartPoll(batteryTarget(info), Cancelled)
    BY <1>3, TargetSuits, StartPolls
  <1> QED
    BY <1>1, <1>2, <1>3 DEF updateBattery

\* A goroutine reads, waits, or ends, and the others stay.
LEMMA PollMoves ==
  ASSUME BatteryInv, NEW p \in Polls, NEW q, polls' = [polls EXCEPT ![p] = q],
         Polling(q, poll, p), UNCHANGED poll
  PROVE  DOMAIN polls' = Polls /\ \A r \in Polls : Polling(polls'[r], poll', r)
  <1>1. DOMAIN polls' = Polls /\ \A r \in Polls : polls'[r] = IF r = p THEN q ELSE polls[r]
    BY DEF BatteryInv
  <1> QED
    BY <1>1 DEF BatteryInv

LEMMA BatteryInitially == BatteryInit => BatteryInv
  <1> SUFFICES ASSUME BatteryInit PROVE BatteryInv
    OBVIOUS
  <1>1. queued \in Seq(Queueable) /\ shown \in Reports
    <2>1. queued = <<>> /\ shown = None
      BY Zenon DEF BatteryInit
    <2> QED
      BY <2>1 DEF Reports
  <1>2. polls = [p \in Polls |-> Idle]
    BY DEF BatteryInit
  <1> QED
    BY <1>1, <1>2, IdlePolls DEF BatteryInv

LEMMA BatteryStep == BatteryInv /\ [BatteryNext]_batteryVars => BatteryInv'
  <1> SUFFICES ASSUME BatteryInv, [BatteryNext]_batteryVars PROVE BatteryInv'
    OBVIOUS
  <1> DEFINE PollsKept == DOMAIN polls' = Polls /\ \A p \in Polls : Polling(polls'[p], poll', p)
  <1> SUFFICES shown' \in Reports /\ queued' \in Seq(Queueable) /\ PollsKept
    BY DEF BatteryInv
  <1>0. shown \in Reports /\ queued \in Seq(Queueable)
    BY DEF BatteryInv
  <1>1. ASSUME UNCHANGED <<poll, polls>> PROVE PollsKept
    BY <1>1 DEF BatteryInv
  <1>2. CASE UNCHANGED batteryVars
    BY <1>0, <1>1, <1>2 DEF batteryVars
  <1>3. CASE Report
    <2>1. PICK info \in Reports : queued' = Append(queued, [op |-> "info", info |-> info])
      BY <1>3 DEF Report
    <2>2. [op |-> "info", info |-> info] \in Queueable
      BY DEF Queueable
    <2>3. queued' \in Seq(Queueable)
      BY <1>0, <2>1, <2>2
    <2> QED
      BY <1>0, <1>1, <1>3, <2>3 DEF Report
  <1>4. CASE ShowReport
    <2>1. Head(queued) \in Queueable /\ queued' \in Seq(Queueable)
      BY <1>0, <1>4 DEF ShowReport
    <2>2. Head(queued).info \in Reports
      BY <1>4, <2>1 DEF ShowReport, Queueable
    <2>3. shown' = Head(queued).info /\ shown' \in Reports
      BY <1>4, <2>2 DEF ShowReport
    <2>4. CASE UNCHANGED <<poll, polls>>
      BY <1>1, <2>1, <2>3, <2>4
    <2>5. CASE updateBattery(Head(queued).info, batteryIP)
      BY <2>1, <2>2, <2>3, <2>5, UpdatePolls
    <2> QED
      BY <1>4, <2>3, <2>4, <2>5 DEF ShowReport, updateBMW
  <1>5. CASE ShowLabel
    BY <1>0, <1>1, <1>5 DEF ShowLabel
  <1>6. CASE PollingOff
    BY <1>0, <1>6, StopPolls DEF PollingOff
  <1>7. CASE PollingOn
    BY <1>0, <1>1, <1>7, TargetSuits, StartPolls DEF PollingOn
  <1>8. CASE PollingOnFyne \/ populateBatteryBox
    BY <1>0, <1>1, <1>8 DEF PollingOnFyne, populateBatteryBox
  <1>9. ASSUME NEW p \in Polls, StickyPoll(p) PROVE shown' \in Reports /\ queued' \in Seq(Queueable) /\ PollsKept
    <2>1. Polling(polls[p], poll, p) /\ polls[p].pc = "read" /\ UNCHANGED <<shown, poll>>
      BY <1>9 DEF StickyPoll, BatteryInv
    <2>2. [op |-> "label", ip |-> polls[p].ip] \in Queueable
      BY <2>1 DEF Polling, Suits, Queueable
    <2>3. queued' \in Seq(Queueable)
      BY <1>0, <1>9, <2>2 DEF StickyPoll
    <2> DEFINE q == [polls[p] EXCEPT !.pc = "wait"]
    <2>4. Polling(q, poll, p) /\ q.platform = polls[p].platform /\ q.held = polls[p].held
      BY <2>1 DEF Polling
    <2>5. CASE polls' = [polls EXCEPT ![p].pc = "wait"]
      <3>1. polls' = [polls EXCEPT ![p] = q]
        BY <2>5
      <3> HIDE DEF q
      <3> QED
        BY <1>0, <2>1, <2>3, <2>4, <3>1, PollMoves
    <2>6. CASE \E fresh \in Outcomes[polls[p].platform] :
                 polls' = [polls EXCEPT ![p].pc = "wait", ![p].held = merge(polls[p].held, fresh)]
      <3>1. PICK fresh \in Outcomes[polls[p].platform] :
                 polls' = [polls EXCEPT ![p].pc = "wait", ![p].held = merge(polls[p].held, fresh)]
        BY <2>6
      <3> DEFINE h == merge(q.held, fresh)
                 r == [q EXCEPT !.held = h]
      <3>2. polls' = [polls EXCEPT ![p] = r]
        BY <2>4, <3>1 DEF BatteryInv
      <3>3. OwnData(h, q.platform)
        BY <2>1, <2>4, MergeOwn, OutcomeOwn DEF Polling
      <3> HIDE DEF q, h
      <3>4. Polling(r, poll, p)
        BY <2>4, <3>3 DEF Polling
      <3> HIDE DEF r
      <3> QED
        BY <1>0, <2>1, <2>3, <3>2, <3>4, PollMoves
    <2> QED
      BY <1>9, <2>5, <2>6 DEF StickyPoll
  <1>10. ASSUME NEW p \in Polls, PollTick(p) PROVE shown' \in Reports /\ queued' \in Seq(Queueable) /\ PollsKept
    <2> DEFINE q == [polls[p] EXCEPT !.pc = "read"]
    <2>1. Polling(polls[p], poll, p) /\ polls[p].pc = "wait" /\ UNCHANGED <<shown, queued, poll>>
      BY <1>10 DEF PollTick, BatteryInv
    <2>2. polls' = [polls EXCEPT ![p] = q] /\ Polling(q, poll, p)
      BY <1>10, <2>1 DEF PollTick, Polling
    <2> HIDE DEF q
    <2> QED
      BY <1>0, <2>1, <2>2, PollMoves
  <1>11. ASSUME NEW p \in Polls, PollEnds(p) PROVE shown' \in Reports /\ queued' \in Seq(Queueable) /\ PollsKept
    BY <1>0, <1>11, PollMoves, IdlePolls DEF PollEnds
  <1> QED
    BY <1>2, <1>3, <1>4, <1>5, <1>6, <1>7, <1>8, <1>9, <1>10, <1>11 DEF BatteryNext

LEMMA BatteryInvariant == BatterySpec => []BatteryInv
  BY BatteryInitially, BatteryStep, PTL DEF BatterySpec

\* Through reports, cancels, late ticks and boxes changed behind the handlers'
\* back: only the poll that can still be cancelled is live, and every poll asks
\* the car at its address for the DIDs of that car's generation.
THEOREM PollAsksItsCar == BatterySpec => []PollFitsCar
  <1>1. BatteryInv => PollFitsCar
    BY DEF BatteryInv, Polling, Suits, PollFitsCar
  <1> QED
    BY BatteryInvariant, <1>1, PTL

\* readDID, Read and the merge of reads: in whatever order a control unit answers,
\* refuses, is silent or pending, a field has data of its own DID, or, after an earlier
\* request of that read was answered "response pending", of an earlier DID of the read.
THEOREM FieldsHaveTheirDids == BatterySpec => []FieldFromItsDid
  <1>1. BatteryInv => FieldFromItsDid
    BY DEF BatteryInv, Polling, OwnData, DataFor, FieldFromItsDid
  <1> QED
    BY BatteryInvariant, <1>1, PTL

-------------------------------------------------------------------------------
(* The configuration files. *)

Named == Files \cup {Nothing}
Contents == Stored \cup {Absent, Broken}
Saves == {NoSave} \cup [at : {"snap"}]
         \cup [at : {"path"}, cfg : Stored, path : {Nothing}]
         \cup [at : {"create", "encode", "record"}, cfg : Stored, path : Files]
ForUI == [kind : {"snap"}] \cup [kind : {"path"}, path : Files] \cup [kind : {"hubs"}, server : DOMAIN Hubs]

FilesType ==
    /\ program \in {"walk", "fyne"} /\ on \in BOOLEAN /\ switched \in BOOLEAN
    /\ disk \in [Files -> Contents] /\ last \in Named /\ path \in Named
    /\ w \in Config
    /\ pending \in Nat /\ want \in Nat
    /\ listed \in DOMAIN Hubs \cup {Nothing}
    /\ byBase \in [Bases -> Named]
    /\ fetch \in Seq(DOMAIN Hubs \cup {Nothing})
    /\ save \in Saves
    /\ closures \in Seq(ForUI)

\* A program that does not run has opened nothing.
Stopped ==
    ~on => /\ path = Nothing /\ w.owner = Nothing
           /\ save = NoSave /\ closures = <<>> /\ fetch = <<>> /\ want = 0

\* Each file d that can be read has its own settings.
OwnFiles(d) == \A f \in Files : Readable(d, f) => d[f].owner = f

\* What the window has, c, belongs to the open file p, the last used one, l.
InWindow(c, p, l) == c.owner = p /\ (p # Nothing => l = p)

\* What a save s writes belongs to the open file p, or to none, and it goes to
\* that file.
SaveFits(s, p) ==
    /\ s.at \in {"path", "create", "encode", "record"} => s.cfg.owner \in {Nothing, ToDefault(p)}
    /\ s.at \in {"create", "encode", "record"} => s.path = ToDefault(p)

\* The saves that the window does not know of yet, in q, went to the open file.
Announced(q, p, l) ==
    \A i \in DOMAIN q : q[i].kind = "path" => q[i].path = ToDefault(p) /\ l = q[i].path

Belongs ==
    ~switched => /\ OwnFiles(disk) /\ InWindow(w, path, last)
                 /\ SaveFits(save, path) /\ Announced(closures, path, last)

ListComes(q) == \E i \in DOMAIN q : q[i].kind = "hubs"

\* The hub that was asked for, n, is in the text; Walk's pending one, h, stands
\* in for it until a list has come, and one is on its way.
HubKept(c, h, s, g, q, n) ==
    /\ program = "fyne" => g = <<>> /\ s = Nothing /\ h = 0 /\ ~ListComes(q) /\ (n # 0 => c.hub = n)
    /\ program = "walk" =>
          /\ s = Nothing => c.hub = 0
          /\ n # 0 => \/ h = 0 /\ c.hub = n /\ s # Nothing
                      \/ h = n /\ (s = Nothing \/ g # <<>> \/ ListComes(q))

FilesInv == FilesType /\ Stopped /\ Belongs /\ HubKept(w, pending, listed, fetch, closures, want)

LEMMA ReadableType ==
  ASSUME NEW d \in [Files -> Contents], NEW f, f \in Named, Readable(d, f)
  PROVE  f \in Files /\ d[f] \in Stored /\ d[f] \in Config
  <1>1. f \in Files /\ d[f] \in Stored
    BY DEF Named, Contents, Readable
  <1> QED
    BY <1>1 DEF Stored, Config

LEMMA ToDefaultType ==
  ASSUME NEW p \in Named
  PROVE  ToDefault(p) \in Files /\ (p # Nothing => ToDefault(p) = p)
  BY FilesAssumption DEF Named, ToDefault

\* What is built from the widgets names a hub and belongs to the same file.
LEMMA BuildType ==
  ASSUME FilesType
  PROVE  buildConfig \in Stored /\ buildConfig.owner = w.owner
  <1>1. w \in Config /\ pending \in Nat
    BY DEF FilesType
  <1> QED
    BY <1>1 DEF buildConfig, Config, Stored

LEMMA QueueAppend ==
  ASSUME NEW q \in Seq(ForUI), NEW c \in ForUI, NEW p, NEW l
  PROVE  /\ Append(q, c) \in Seq(ForUI)
         /\ ListComes(Append(q, c)) = (ListComes(q) \/ c.kind = "hubs")
         /\ Announced(q, p, l) /\ (c.kind = "path" => c.path = ToDefault(p) /\ l = c.path)
                => Announced(Append(q, c), p, l)
  <1>1. Append(q, c) \in Seq(ForUI)
    OBVIOUS
  <1>2. /\ Len(q) \in Nat /\ DOMAIN q = 1..Len(q) /\ DOMAIN Append(q, c) = 1..(Len(q) + 1)
        /\ Append(q, c)[Len(q) + 1] = c
        /\ \A i \in 1..Len(q) : Append(q, c)[i] = q[i]
    OBVIOUS
  <1> DEFINE r == Append(q, c)
  <1> HIDE DEF r
  <1>3. /\ DOMAIN q \subseteq DOMAIN r /\ Len(q) + 1 \in DOMAIN r /\ r[Len(q) + 1] = c
        /\ \A i \in DOMAIN r : i = Len(q) + 1 \/ (i \in DOMAIN q /\ r[i] = q[i])
        /\ \A i \in DOMAIN q : r[i] = q[i]
    BY <1>2 DEF r
  <1>4. ListComes(r) = (ListComes(q) \/ c.kind = "hubs")
    BY <1>3 DEF ListComes
  <1>5. Announced(q, p, l) /\ (c.kind = "path" => c.path = ToDefault(p) /\ l = c.path) => Announced(r, p, l)
    BY <1>3 DEF Announced
  <1> QED
    BY <1>1, <1>4, <1>5 DEF r

LEMMA QueueTail ==
  ASSUME NEW q \in Seq(ForUI), q # <<>>, NEW p, NEW l
  PROVE  /\ Tail(q) \in Seq(ForUI) /\ Head(q) \in ForUI
         /\ ListComes(q) = (ListComes(Tail(q)) \/ Head(q).kind = "hubs")
         /\ Announced(q, p, l) =>
                /\ Announced(Tail(q), p, l)
                /\ Head(q).kind = "path" => Head(q).path = ToDefault(p) /\ l = Head(q).path
  <1>1. Tail(q) \in Seq(ForUI) /\ Head(q) \in ForUI
    OBVIOUS
  <1> DEFINE t == Tail(q)
             h == Head(q)
  <1>2. /\ Len(q) \in Nat /\ Len(q) >= 1 /\ DOMAIN q = 1..Len(q) /\ DOMAIN t = 1..(Len(q) - 1)
        /\ h = q[1] /\ \A i \in 1..(Len(q) - 1) : t[i] = q[i + 1]
    OBVIOUS
  <1> HIDE DEF t, h
  <1>3. /\ 1 \in DOMAIN q /\ \A i \in DOMAIN t : i + 1 \in DOMAIN q
        /\ \A i \in DOMAIN q : i = 1 \/ \E j \in DOMAIN t : q[i] = t[j]
    <2>1. 1 \in DOMAIN q /\ \A i \in DOMAIN t : i + 1 \in DOMAIN q
      BY <1>2
    <2>2. ASSUME NEW i \in DOMAIN q, i # 1
          PROVE  i - 1 \in DOMAIN t /\ t[i - 1] = q[i]
      <3>1. i - 1 \in 1..(Len(q) - 1) /\ (i - 1) + 1 = i
        BY <1>2, <2>2
      <3> QED
        BY <1>2, <3>1
    <2> QED
      BY <2>1, <2>2
  <1>4. ListComes(q) = (ListComes(t) \/ h.kind = "hubs")
    <2>1. ListComes(q) => ListComes(t) \/ h.kind = "hubs"
      BY <1>2, <1>3 DEF ListComes
    <2>2. ListComes(t) => ListComes(q)
      <3>1. \A i \in DOMAIN t : t[i] = q[i + 1]
        BY <1>2
      <3> QED
        BY <1>3, <3>1 DEF ListComes
    <2>3. h.kind = "hubs" => ListComes(q)
      BY <1>2, <1>3 DEF ListComes
    <2> QED
      BY <2>1, <2>2, <2>3 DEF ListComes
  <1>5. Announced(q, p, l) => Announced(t, p, l) /\ (h.kind = "path" => h.path = ToDefault(p) /\ l = h.path)
    BY <1>2, <1>3 DEF Announced
  <1> QED
    BY <1>1, <1>4, <1>5 DEF t, h

\* No file has settings of another when one more is broken, or is written for.
LEMMA WriteOwn ==
  ASSUME NEW d \in [Files -> Contents], NEW f \in Files, NEW c \in Contents,
         c \in Stored => c.owner = f
  PROVE  /\ [d EXCEPT ![f] = c] \in [Files -> Contents]
         /\ OwnFiles(d) => OwnFiles([d EXCEPT ![f] = c])
  BY DEF OwnFiles, Readable, Contents

LEMMA FilesInitially == FilesInit => FilesInv
  <1> SUFFICES ASSUME FilesInit PROVE FilesInv
    OBVIOUS
  <1>1. /\ program \in {"walk", "fyne"} /\ disk = Initial /\ last = Nothing
        /\ on = FALSE /\ path = Nothing /\ w = Blank
        /\ pending = 0 /\ listed = Nothing /\ fetch = <<>> /\ want = 0
        /\ save = NoSave /\ closures = <<>> /\ switched = FALSE
    BY FilesAssumption DEF FilesInit
  <1>2. byBase \in [Bases -> Named]
    BY DEF FilesInit, Named
  <1>3. w \in Config /\ w.owner = Nothing /\ (program = "walk" => w.hub = 0)
    BY <1>1, FilesAssumption DEF Blank, Config
  <1>4. FilesType
    <2>1. disk \in [Files -> Contents]
      BY <1>1, FilesAssumption DEF Contents
    <2>2. fetch \in Seq(DOMAIN Hubs \cup {Nothing}) /\ closures \in Seq(ForUI)
      BY <1>1
    <2>3. save \in Saves
      BY <1>1 DEF Saves
    <2> QED
      BY <1>1, <1>2, <1>3, <2>1, <2>2, <2>3 DEF FilesType, Named
  <1>5. Stopped
    BY <1>1, <1>3 DEF Stopped
  <1>6. Belongs
    <2>1. OwnFiles(disk)
      BY <1>1, FilesAssumption DEF OwnFiles, Readable
    <2>2. SaveFits(save, path) /\ Announced(closures, path, last)
      BY <1>1 DEF SaveFits, NoSave, Announced
    <2> QED
      BY <1>1, <1>3, <2>1, <2>2 DEF Belongs, InWindow
  <1>7. HubKept(w, pending, listed, fetch, closures, want)
    BY <1>1, <1>3 DEF HubKept, ListComes
  <1> QED
    BY <1>4, <1>5, <1>6, <1>7 DEF FilesInv

\* initConfigSelect opens what it selects, or nothing.
LEMMA StartStep ==
  ASSUME FilesInv, Start
  PROVE  FilesInv'
  <1> DEFINE f == autoSelect(disk, last)
  <1>1. /\ ~on /\ on' = TRUE /\ byBase' = NamesFound(disk, last)
        /\ UNCHANGED <<program, disk, save, closures, switched, listed, want>>
    BY DEF Start
  <1>2. /\ path = Nothing /\ w.owner = Nothing /\ save = NoSave /\ closures = <<>> /\ fetch = <<>> /\ want = 0
    BY <1>1 DEF FilesInv, Stopped
  <1>3. byBase' \in [Bases -> Named]
    <2> DEFINE Same(b) == {g \in Found : disk[g] # Absent /\ Base[g] = b}
               One(b) == IF Same(b) # {} THEN IF Cardinality(Same(b)) = 1 THEN CHOOSE g \in Same(b) : TRUE ELSE Nothing
                         ELSE IF last # Nothing /\ Base[last] = b /\ disk[last] # Absent THEN last ELSE Nothing
    <2>1. byBase' = [b \in Bases |-> One(b)]
      BY <1>1 DEF NamesFound
    <2>2. last \in Named /\ Nothing \in Named
      BY DEF FilesInv, FilesType, Named
    <2>3. \A b : Same(b) # {} => (CHOOSE g \in Same(b) : TRUE) \in Named
      BY FilesAssumption DEF Named
    <2> HIDE DEF Same
    <2>4. \A b : One(b) \in Named
      BY <2>2, <2>3
    <2> HIDE DEF One
    <2> QED
      BY <2>1, <2>4
  <1>4. CASE ~Readable(disk, f)
    <2>1. UNCHANGED <<w, pending, fetch, path, last>>
      BY <1>4 DEF Start
    <2> QED
      BY <1>1, <1>2, <1>3, <2>1 DEF FilesInv, FilesType, Stopped, Belongs, HubKept
  <1>5. CASE Readable(disk, f)
    <2> DEFINE c == disk[f]
    <2>1. /\ w' = IF program = "fyne" THEN c ELSE [c EXCEPT !.hub = 0]
          /\ pending' = IF program = "fyne" THEN 0 ELSE c.hub
          /\ fetch' = IF program = "fyne" THEN <<>> ELSE <<Nothing, Nothing>>
          /\ path' = f /\ last' = f
      BY <1>5 DEF Start
    <2>2. f \in Files /\ c \in Stored
      <3>1. f \in Named
        BY FilesAssumption DEF autoSelect, Named, FilesInv, FilesType
      <3> QED
        BY <1>5, <3>1, ReadableType DEF FilesInv, FilesType
    <2> HIDE DEF f
    <2>3. ~switched => c.owner = f
      BY <1>5, <2>2 DEF FilesInv, Belongs, OwnFiles
    <2> HIDE DEF c
    <2>4. w' \in Config /\ w'.owner = c.owner /\ pending' \in Nat /\ (program = "walk" => w'.hub = 0)
      BY <2>1, <2>2 DEF Stored, Config, FilesInv, FilesType
    <2>5. fetch' \in Seq(DOMAIN Hubs \cup {Nothing})
      <3> DEFINE S == DOMAIN Hubs \cup {Nothing}
      <3>1. Nothing \in S
        OBVIOUS
      <3> HIDE DEF S
      <3>2. <<>> \in Seq(S) /\ <<Nothing, Nothing>> \in Seq(S)
        BY <3>1
      <3> QED
        BY <2>1, <3>2 DEF S
    <2>6. FilesType'
      BY <1>1, <1>3, <2>1, <2>2, <2>4, <2>5 DEF FilesInv, FilesType, Named
    <2>7. Stopped'
      BY <1>1 DEF Stopped
    <2>8. Belongs'
      <3>1. SaveFits(save', path') /\ Announced(closures', path', last')
        BY <1>1, <1>2 DEF SaveFits, NoSave, Announced
      <3> QED
        BY <1>1, <2>1, <2>3, <2>4, <3>1 DEF FilesInv, Belongs, InWindow
    <2>9. HubKept(w, pending, listed, fetch, closures, want)'
      BY <1>1, <1>2, <2>1, <2>4 DEF FilesInv, HubKept
    <2> QED
      BY <2>6, <2>7, <2>8, <2>9 DEF FilesInv
  <1> QED
    BY <1>4, <1>5

\* Whatever ends the process, what is on the disk is what counts.
LEMMA GoneStep ==
  ASSUME FilesInv, Gone, disk' \in [Files -> Contents], OwnFiles(disk) => OwnFiles(disk'), last' \in Named
  PROVE  FilesInv'
  <1>1. /\ on' = FALSE /\ path' = Nothing /\ w' = Blank
        /\ pending' = 0 /\ listed' = Nothing /\ fetch' = <<>> /\ want' = 0
        /\ save' = NoSave /\ closures' = <<>>
        /\ UNCHANGED <<program, byBase, switched>>
    BY DEF Gone
  <1>2. w' \in Config /\ w'.owner = Nothing /\ (program = "walk" => w'.hub = 0)
    BY <1>1, FilesAssumption DEF Blank, Config
  <1>3. FilesType'
    <2>1. fetch' \in Seq(DOMAIN Hubs \cup {Nothing}) /\ closures' \in Seq(ForUI)
      BY <1>1
    <2>2. save' \in Saves
      BY <1>1 DEF Saves
    <2> QED
      BY <1>1, <1>2, <2>1, <2>2 DEF FilesInv, FilesType, Named
  <1>4. Stopped'
    BY <1>1, <1>2 DEF Stopped
  <1>5. Belongs'
    <2>1. SaveFits(save', path') /\ Announced(closures', path', last')
      BY <1>1 DEF SaveFits, NoSave, Announced
    <2> QED
      BY <1>1, <1>2, <2>1 DEF FilesInv, Belongs, InWindow
  <1>6. HubKept(w, pending, listed, fetch, closures, want)'
    BY <1>1, <1>2 DEF HubKept, ListComes
  <1> QED
    BY <1>3, <1>4, <1>5, <1>6 DEF FilesInv

\* A file is loaded: the window, the path and the last used file are its own,
\* and in Walk the hub waits for a list.
LEMMA LoadStep ==
  ASSUME FilesInv, Click, NEW f \in Files, Load(f),
         disk' \in [Files -> Contents], OwnFiles(disk) => OwnFiles(disk'),
         byBase' \in [Bases -> Named], UNCHANGED <<program, on, save, closures>>
  PROVE  FilesInv'
  <1>1. on /\ switched' = (switched \/ Saving)
    BY DEF Click, Act
  <1>2. SaveFits(NoSave, path') /\ Announced(<<>>, path', last')
    BY DEF SaveFits, NoSave, Announced
  <1>3. ASSUME ~switched'
        PROVE  /\ ~switched /\ OwnFiles(disk) /\ InWindow(w, path, last)
               /\ SaveFits(save', path') /\ Announced(closures', path', last')
    BY <1>1, <1>2, <1>3 DEF Saving, FilesInv, Belongs
  <1>4. switched' \in BOOLEAN
    BY <1>1 DEF FilesInv, FilesType, Saving
  <1>5. Stopped'
    BY <1>1 DEF Stopped
  <1>6. CASE ~Readable(disk, f)
    <2>1. UNCHANGED <<w, path, last, pending, listed, fetch, want>>
      BY <1>6 DEF Load, hubVars
    <2>2. FilesType'
      BY <1>4, <2>1 DEF FilesInv, FilesType
    <2>3. Belongs'
      BY <1>3, <2>1 DEF Belongs
    <2> QED
      BY <1>5, <2>1, <2>2, <2>3 DEF FilesInv, HubKept
  <1>7. CASE Readable(disk, f)
    <2> DEFINE c == disk[f]
    <2>1. /\ populateHub(c) /\ startFetch(fetch) /\ want' = (IF fetch = <<>> THEN c.hub ELSE 0)
          /\ UNCHANGED listed /\ path' = f /\ last' = f
      BY <1>7 DEF Load, populateFromConfig, ParseClientConfig
    <2>2. c \in Stored
      BY <1>7, ReadableType DEF Named, FilesInv, FilesType
    <2>3. ~switched => c.owner = f
      BY <1>7 DEF FilesInv, Belongs, OwnFiles
    <2> HIDE DEF c
    <2>4. c.hub \in Nat /\ c.hub # 0 /\ c \in Config
      BY <2>2 DEF Stored, Config
    <2>5. CASE program = "fyne"
      <3>1. /\ w' = c /\ pending' = pending /\ fetch' = fetch
            /\ fetch = <<>> /\ listed = Nothing /\ pending = 0 /\ ~ListComes(closures)
        BY <2>1, <2>5 DEF populateHub, startFetch, FilesInv, HubKept
      <3>2. FilesType'
        BY <1>4, <2>1, <2>4, <3>1 DEF FilesInv, FilesType, Named
      <3>3. Belongs'
        BY <1>3, <2>1, <2>3, <3>1 DEF Belongs, InWindow
      <3>4. HubKept(w, pending, listed, fetch, closures, want)'
        BY <2>1, <2>5, <3>1 DEF HubKept
      <3> QED
        BY <1>5, <3>2, <3>3, <3>4 DEF FilesInv
    <2>6. CASE program = "walk"
      <3>1. PICK h \in IF listed = Nothing THEN {0} ELSE {w.hub, c.hub} : w' = [c EXCEPT !.hub = h]
        BY <2>1, <2>6 DEF populateHub
      <3>2. /\ pending' = c.hub /\ fetch' = Append(fetch, Nothing)
        BY <2>1, <2>6 DEF populateHub, startFetch
      <3>3. h \in Nat /\ (listed = Nothing => h = 0)
        <4>1. w.hub \in Nat
          BY DEF FilesInv, FilesType, Config
        <4> QED
          BY <2>4, <3>1, <4>1
      <3>4. w' \in Config /\ w'.owner = c.owner /\ w'.hub = h
        BY <2>4, <3>1, <3>3 DEF Config
      <3>5. fetch' \in Seq(DOMAIN Hubs \cup {Nothing}) /\ fetch' # <<>>
        <4> DEFINE S == DOMAIN Hubs \cup {Nothing}
        <4>1. fetch \in Seq(S) /\ Nothing \in S
          BY DEF FilesInv, FilesType
        <4> HIDE DEF S
        <4>2. Append(fetch, Nothing) \in Seq(S) /\ Len(Append(fetch, Nothing)) = Len(fetch) + 1 /\ Len(fetch) \in Nat
          BY <4>1
        <4>3. Len(<<>>) = 0
          OBVIOUS
        <4> QED
          BY <3>2, <4>2, <4>3 DEF S
      <3>6. FilesType'
        BY <1>4, <2>1, <2>4, <3>2, <3>4, <3>5 DEF FilesInv, FilesType, Named
      <3>7. Belongs'
        BY <1>3, <2>1, <2>3, <3>4 DEF Belongs, InWindow
      <3>8. HubKept(w, pending, listed, fetch, closures, want)'
        BY <2>1, <2>6, <3>2, <3>3, <3>4, <3>5 DEF HubKept
      <3> QED
        BY <1>5, <3>6, <3>7, <3>8 DEF FilesInv
    <2> QED
      BY <2>5, <2>6 DEF FilesInv, FilesType
  <1> QED
    BY <1>6, <1>7

\* A step of a save: the window, the path and the hubs stay as they are.
LEMMA SaveStep ==
  ASSUME FilesInv, on, UNCHANGED <<program, on, path, w, byBase, pending, listed, fetch, want>>,
         disk' \in [Files -> Contents], last' \in Named, save' \in Saves, closures' \in Seq(ForUI),
         ListComes(closures') = ListComes(closures),
         switched' \in BOOLEAN, switched => switched',
         ~switched' /\ Belongs => /\ OwnFiles(disk') /\ InWindow(w, path, last')
                                  /\ SaveFits(save', path) /\ Announced(closures', path, last')
  PROVE  FilesInv'
  <1>1. FilesType'
    BY DEF FilesInv, FilesType
  <1>2. Stopped'
    BY DEF Stopped
  <1>3. Belongs'
    BY DEF FilesInv, Belongs
  <1>4. HubKept(w, pending, listed, fetch, closures, want)'
    BY DEF FilesInv, HubKept
  <1> QED
    BY <1>1, <1>2, <1>3, <1>4 DEF FilesInv

LEMMA BreakType ==
  ASSUME FilesInv, NEW f \in Files
  PROVE  /\ [disk EXCEPT ![f] = Broken] \in [Files -> Contents]
         /\ OwnFiles(disk) => OwnFiles([disk EXCEPT ![f] = Broken])
  <1>1. Broken \in Contents /\ Broken \notin Stored
    BY FilesAssumption DEF Contents, Broken, Stored
  <1> QED
    BY <1>1, WriteOwn DEF FilesInv, FilesType

LEMMA SaveBreaksStep ==
  ASSUME FilesInv, NEW f \in Files, SaveBreaks(f)
  PROVE  FilesInv'
  <1>1. disk' \in [Files -> Contents] /\ (OwnFiles(disk) => OwnFiles(disk'))
    BY BreakType DEF SaveBreaks
  <1>2. CASE Gone /\ UNCHANGED last
    BY <1>1, <1>2, GoneStep DEF FilesInv, FilesType
  <1>3. CASE Click /\ UNCHANGED <<program, last, on, path, w, byBase, save, closures, hubVars>>
    <2>1. on /\ switched' = (switched \/ Saving) /\ UNCHANGED <<pending, listed, fetch, want>>
      BY <1>3 DEF Click, Act, hubVars
    <2>2. switched' \in BOOLEAN /\ (switched => switched')
      BY <2>1 DEF FilesInv, FilesType, Saving
    <2>3. /\ last' \in Named /\ save' \in Saves /\ closures' \in Seq(ForUI)
      BY <1>3 DEF FilesInv, FilesType
    <2> QED
      BY <1>1, <1>3, <2>1, <2>2, <2>3, SaveStep DEF Belongs
  <1> QED
    BY <1>2, <1>3 DEF SaveBreaks

\* The automatic save begins: what it writes is the window's.
LEMMA ConnectedStep ==
  ASSUME FilesInv, Connected
  PROVE  FilesInv'
  <1>1. /\ on /\ UNCHANGED <<program, disk, last, on, path, w, byBase, switched, pending, listed, fetch, want>>
    BY DEF Connected, Act, hubVars
  <1>2. /\ program \in {"walk", "fyne"} /\ closures \in Seq(ForUI) /\ buildConfig \in Stored /\ buildConfig.owner = w.owner
        /\ disk \in [Files -> Contents] /\ last \in Named /\ path \in Named /\ switched \in BOOLEAN
    BY BuildType DEF FilesInv, FilesType
  <1>3. CASE program = "walk"
    <2> DEFINE s == [at |-> "path", cfg |-> buildConfig, path |-> Nothing]
    <2>1. save' = s /\ closures' = closures
      BY <1>3 DEF Connected
    <2>2. s \in Saves
      BY <1>2 DEF Saves
    <2>3. InWindow(w, path, last) => SaveFits(s, path)
      BY <1>2, ToDefaultType DEF InWindow, SaveFits
    <2> HIDE DEF s
    <2> QED
      BY <1>1, <1>2, <2>1, <2>2, <2>3, SaveStep DEF Belongs
  <1>4. CASE program = "fyne"
    <2> DEFINE s == [at |-> "snap"]
               c == [kind |-> "snap"]
    <2>1. save' = s /\ closures' = Append(closures, c)
      BY <1>4 DEF Connected
    <2>2. s \in Saves /\ c \in ForUI /\ c.kind = "snap" /\ SaveFits(s, path)
      BY DEF Saves, ForUI, SaveFits
    <2> HIDE DEF s, c
    <2>3. /\ closures' \in Seq(ForUI) /\ ListComes(closures') = ListComes(closures)
          /\ Announced(closures, path, last) => Announced(closures', path, last)
      <3>1. /\ Append(closures, c) \in Seq(ForUI)
            /\ ListComes(Append(closures, c)) = (ListComes(closures) \/ c.kind = "hubs")
        BY <1>2, <2>2, QueueAppend
      <3>2. Announced(closures, path, last) => Announced(Append(closures, c), path, last)
        BY <1>2, <2>2, QueueAppend
      <3>3. ListComes(closures) \in BOOLEAN /\ ListComes(Append(closures, c)) \in BOOLEAN
        BY DEF ListComes
      <3> QED
        BY <2>1, <2>2, <3>1, <3>2, <3>3
    <2> QED
      BY <1>1, <1>2, <2>1, <2>2, <2>3, SaveStep DEF Belongs
  <1> QED
    BY <1>2, <1>3, <1>4

\* What the states of a save are.
LEMMA SavesType ==
  ASSUME NEW s \in Saves
  PROVE  /\ s.at = "path" => s.cfg \in Stored /\ s.path = Nothing /\ s = [at |-> "path", cfg |-> s.cfg, path |-> Nothing]
         /\ s.at \in {"create", "encode", "record"} =>
                s.cfg \in Stored /\ s.path \in Files /\ s = [at |-> s.at, cfg |-> s.cfg, path |-> s.path]
  BY DEF Saves, NoSave

\* The save moves on, in a goroutine.
LEMMA SavingStep ==
  ASSUME FilesInv, SavePath \/ SaveCreate \/ SaveEncode \/ SaveRecord \/ SaveFails
  PROVE  FilesInv'
  <1>1. on /\ UNCHANGED <<program, on, path, w, byBase, switched, pending, listed, fetch, want>>
    BY DEF SavePath, SaveCreate, SaveEncode, SaveRecord, SaveFails, hubVars
  <1>2. /\ closures \in Seq(ForUI) /\ save \in Saves
        /\ disk \in [Files -> Contents] /\ last \in Named /\ path \in Named /\ switched \in BOOLEAN
    BY DEF FilesInv, FilesType
  <1>3. CASE SavePath
    <2> DEFINE s == [at |-> "create", cfg |-> save.cfg, path |-> ToDefault(path)]
    <2>1. save.at = "path" /\ save' = [save EXCEPT !.at = "create", !.path = ToDefault(path)] /\ UNCHANGED <<disk, last, closures>>
      BY <1>3 DEF SavePath
    <2>2. save.cfg \in Stored /\ save = [at |-> "path", cfg |-> save.cfg, path |-> Nothing]
      BY <1>2, <2>1, SavesType
    <2>3. save' = s
      <3> DEFINE g == save.cfg
                 old == [at |-> "path", cfg |-> g, path |-> Nothing]
                 mid == [at |-> "create", cfg |-> g, path |-> Nothing]
                 p   == ToDefault(path)
      <3> HIDE DEF g, p
      <3>1. [old EXCEPT !.at = "create"] = mid
        OBVIOUS
      <3>2. [mid EXCEPT !.path = p] = [at |-> "create", cfg |-> g, path |-> p]
        OBVIOUS
      <3>3. save' = [[save EXCEPT !.at = "create"] EXCEPT !.path = p]
        BY <2>1 DEF p
      <3>4. save = old
        BY <2>2 DEF g
      <3> HIDE DEF old, mid
      <3> QED
        BY <3>1, <3>2, <3>3, <3>4 DEF g, p
    <2>4. s \in Saves
      BY <1>2, <2>2, ToDefaultType DEF Saves
    <2>5. SaveFits(save, path) => SaveFits(s, path)
      BY <2>1 DEF SaveFits
    <2> HIDE DEF s
    <2> QED
      BY <1>1, <1>2, <2>1, <2>3, <2>4, <2>5, SaveStep DEF Belongs
  <1>4. CASE SaveCreate
    <2> DEFINE s == [at |-> "encode", cfg |-> save.cfg, path |-> save.path]
    <2>1. /\ save.at = "create" /\ save' = [save EXCEPT !.at = "encode"] /\ disk' = [disk EXCEPT ![save.path] = Broken]
          /\ UNCHANGED <<last, closures>>
      BY <1>4 DEF SaveCreate
    <2>2. save.cfg \in Stored /\ save.path \in Files /\ save = [at |-> "create", cfg |-> save.cfg, path |-> save.path]
      BY <1>2, <2>1, SavesType
    <2>3. save' = s
      <3> DEFINE g == save.cfg
                 p == save.path
                 old == [at |-> "create", cfg |-> g, path |-> p]
      <3> HIDE DEF g, p
      <3>1. [old EXCEPT !.at = "encode"] = [at |-> "encode", cfg |-> g, path |-> p]
        OBVIOUS
      <3> QED
        BY <2>1, <2>2, <3>1 DEF g, p
    <2>4. s \in Saves
      BY <2>2 DEF Saves
    <2>5. SaveFits(save, path) => SaveFits(s, path)
      BY <2>1 DEF SaveFits
    <2> HIDE DEF s
    <2>6. disk' \in [Files -> Contents] /\ (OwnFiles(disk) => OwnFiles(disk'))
      BY <2>1, <2>2, BreakType
    <2> QED
      BY <1>1, <1>2, <2>1, <2>3, <2>4, <2>5, <2>6, SaveStep DEF Belongs
  <1>5. CASE SaveEncode
    <2> DEFINE f == save.path
               g == Owned(save.cfg, f)
               s == [at |-> "record", cfg |-> save.cfg, path |-> f]
    <2>1. /\ save.at = "encode" /\ save' = [save EXCEPT !.at = "record"] /\ disk' = [disk EXCEPT ![f] = g]
          /\ UNCHANGED <<last, closures>>
      BY <1>5 DEF SaveEncode
    <2>2. save.cfg \in Stored /\ f \in Files /\ save = [at |-> "encode", cfg |-> save.cfg, path |-> f]
      BY <1>2, <2>1, SavesType
    <2>3. g \in Stored /\ g.owner = (IF save.cfg.owner = Nothing THEN f ELSE save.cfg.owner)
      BY <2>2 DEF Owned, Stored
    <2>4. save' = s
      <3> DEFINE c == save.cfg
                 p == save.path
                 old == [at |-> "encode", cfg |-> c, path |-> p]
      <3> HIDE DEF c, p
      <3>1. [old EXCEPT !.at = "record"] = [at |-> "record", cfg |-> c, path |-> p]
        OBVIOUS
      <3> QED
        BY <2>1, <2>2, <3>1 DEF c, p
    <2>5. s \in Saves
      BY <2>2 DEF Saves
    <2>6. SaveFits(save, path) => SaveFits(s, path)
      BY <2>1 DEF SaveFits
    <2>7. g \in Contents
      BY <2>3 DEF Contents
    <2> HIDE DEF g, s
    <2>8. disk' \in [Files -> Contents]
      BY <1>2, <2>1, <2>2, <2>7
    <2>9. ASSUME Belongs, ~switched'
          PROVE  /\ OwnFiles(disk') /\ InWindow(w, path, last')
                 /\ SaveFits(save', path) /\ Announced(closures', path, last')
      <3>1. /\ OwnFiles(disk) /\ InWindow(w, path, last) /\ SaveFits(save, path) /\ Announced(closures, path, last)
        BY <1>1, <2>9 DEF Belongs
      <3>2. f = ToDefault(path) /\ save.cfg.owner \in {Nothing, ToDefault(path)}
        BY <2>1, <3>1 DEF SaveFits
      <3>3. g.owner = f
        BY <2>3, <3>2
      <3>4. OwnFiles(disk')
        BY <1>2, <2>1, <2>2, <2>7, <3>1, <3>3, WriteOwn
      <3> QED
        BY <2>1, <2>4, <2>6, <3>1, <3>4
    <2> HIDE DEF f
    <2> QED
      BY <1>1, <1>2, <2>1, <2>4, <2>5, <2>8, <2>9, SaveStep
  <1>6. CASE SaveRecord
    <2> DEFINE f == save.path
               c == [kind |-> "path", path |-> f]
    <2>1. save.at = "record" /\ save' = NoSave /\ last' = f /\ closures' = Append(closures, c) /\ UNCHANGED disk
      BY <1>6 DEF SaveRecord
    <2>2. f \in Files
      BY <1>2, <2>1, SavesType
    <2>3. c \in ForUI /\ c.kind = "path" /\ c.path = f
      BY <2>2 DEF ForUI
    <2> HIDE DEF c
    <2>4. save' \in Saves /\ last' \in Named /\ SaveFits(save', path)
      BY <2>1, <2>2 DEF Saves, Named, SaveFits, NoSave
    <2>5. /\ closures' \in Seq(ForUI)
          /\ ListComes(closures') = (ListComes(closures) \/ c.kind = "hubs")
      BY <1>2, <2>1, <2>3, QueueAppend
    <2>6. ListComes(closures') = ListComes(closures)
      <3>1. ListComes(closures') \in BOOLEAN /\ ListComes(closures) \in BOOLEAN
        BY DEF ListComes
      <3> QED
        BY <2>3, <2>5, <3>1
    <2>7. ASSUME Belongs, ~switched'
          PROVE  /\ OwnFiles(disk') /\ InWindow(w, path, last')
                 /\ SaveFits(save', path) /\ Announced(closures', path, last')
      <3>1. /\ OwnFiles(disk) /\ InWindow(w, path, last) /\ SaveFits(save, path) /\ Announced(closures, path, last)
        BY <1>1, <2>7 DEF Belongs
      <3>2. f = ToDefault(path)
        BY <2>1, <3>1 DEF SaveFits
      <3>3. path # Nothing => path = f
        BY <1>2, <3>2, ToDefaultType
      <3>4. InWindow(w, path, f)
        BY <3>1, <3>3 DEF InWindow
      <3>5. Announced(closures, path, f)
        BY <3>1, <3>2 DEF Announced
      <3>6. Announced(closures', path, f)
        BY <1>2, <2>1, <2>3, <3>2, <3>5, QueueAppend
      <3> QED
        BY <2>1, <2>4, <3>1, <3>4, <3>6
    <2> HIDE DEF f
    <2> QED
      BY <1>1, <1>2, <2>1, <2>4, <2>5, <2>6, <2>7, SaveStep
  <1>7. CASE SaveFails
    <2>1. save' = NoSave /\ UNCHANGED <<disk, last, closures>>
      BY <1>7 DEF SaveFails
    <2>2. save' \in Saves /\ SaveFits(save', path)
      BY <2>1 DEF Saves, SaveFits, NoSave
    <2> QED
      BY <1>1, <1>2, <2>1, <2>2, SaveStep DEF Belongs
  <1> QED
    BY <1>3, <1>4, <1>5, <1>6, <1>7

\* A step that changes neither the files nor what belongs to one.
LEMMA WidgetStep ==
  ASSUME FilesInv, on, UNCHANGED <<program, disk, last, on, path, byBase, save, switched>>,
         w' \in Config, w'.owner = w.owner, pending' \in Nat, want' \in Nat, listed' \in DOMAIN Hubs \cup {Nothing},
         fetch' \in Seq(DOMAIN Hubs \cup {Nothing}), closures' \in Seq(ForUI),
         Announced(closures, path, last) => Announced(closures', path, last),
         HubKept(w', pending', listed', fetch', closures', want')
  PROVE  FilesInv'
  <1>1. FilesType'
    BY DEF FilesInv, FilesType
  <1>2. Stopped'
    BY DEF Stopped
  <1>3. Belongs'
    BY DEF FilesInv, Belongs, InWindow
  <1>4. HubKept(w, pending, listed, fetch, closures, want)'
    BY DEF HubKept
  <1> QED
    BY <1>1, <1>2, <1>3, <1>4 DEF FilesInv

LEMMA EditServerStep ==
  ASSUME FilesInv, NEW s \in DOMAIN Hubs, EditServer(s)
  PROVE  FilesInv'
  <1>1. /\ on /\ w' = [w EXCEPT !.server = s] /\ want' = 0
        /\ UNCHANGED <<program, disk, last, on, path, byBase, save, closures, switched, pending, listed>>
        /\ fetch' = IF program = "walk" THEN Append(fetch, Nothing) ELSE fetch
    BY DEF EditServer, Act, startFetch
  <1>2. w' \in Config /\ w'.owner = w.owner /\ w'.hub = w.hub
    BY <1>1 DEF FilesInv, FilesType, Config
  <1>3. fetch' \in Seq(DOMAIN Hubs \cup {Nothing})
    <2> DEFINE S == DOMAIN Hubs \cup {Nothing}
    <2>1. fetch \in Seq(S) /\ Nothing \in S
      BY DEF FilesInv, FilesType
    <2> HIDE DEF S
    <2>2. Append(fetch, Nothing) \in Seq(S)
      BY <2>1
    <2> QED
      BY <1>1, <2>1, <2>2 DEF S
  <1>4. HubKept(w', pending', listed', fetch', closures', want')
    BY <1>1, <1>2 DEF FilesInv, HubKept
  <1>5. pending' \in Nat /\ want' \in Nat /\ listed' \in DOMAIN Hubs \cup {Nothing} /\ closures' \in Seq(ForUI)
    BY <1>1 DEF FilesInv, FilesType
  <1> QED
    BY <1>1, <1>2, <1>3, <1>4, <1>5, WidgetStep

\* The hubs of every server.
LEMMA ListedType ==
  ASSUME NEW s \in DOMAIN Hubs
  PROVE  /\ \A h \in ToSet(Hubs[s]) : h \in Nat /\ h # 0
         /\ Head(Hubs[s]) \in Nat
  <1>1. Hubs[s] \in Seq(Nat \ {0}) /\ Hubs[s] # <<>>
    BY FilesAssumption
  <1> QED
    BY <1>1 DEF ToSet

LEMMA EditHubStep ==
  ASSUME FilesInv, NEW h \in UNION {ToSet(Hubs[s]) : s \in DOMAIN Hubs}, EditHub(h)
  PROVE  FilesInv'
  <1>1. /\ on /\ w' = [w EXCEPT !.hub = h] /\ want' = 0 /\ (program = "walk" => listed # Nothing)
        /\ UNCHANGED <<program, disk, last, on, path, byBase, save, closures, switched, pending, listed, fetch>>
    BY DEF EditHub, Act
  <1>2. h \in Nat
    BY ListedType
  <1>3. w' \in Config /\ w'.owner = w.owner
    BY <1>1, <1>2 DEF FilesInv, FilesType, Config
  <1>4. HubKept(w', pending', listed', fetch', closures', want')
    BY <1>1 DEF FilesInv, HubKept
  <1>5. /\ pending' \in Nat /\ want' \in Nat /\ listed' \in DOMAIN Hubs \cup {Nothing} /\ closures' \in Seq(ForUI)
        /\ fetch' \in Seq(DOMAIN Hubs \cup {Nothing})
    BY <1>1 DEF FilesInv, FilesType
  <1> QED
    BY <1>1, <1>3, <1>4, <1>5, WidgetStep

LEMMA NameType ==
  ASSUME NEW f \in Files, byBase \in [Bases -> Named]
  PROVE  Name(f) \in [Bases -> Named] /\ Name(f)[Base[f]] \in Named
  <1>1. Base[f] \in Bases
    BY DEF Bases
  <1>2. f \in Named /\ byBase[Base[f]] \in Named
    BY <1>1 DEF Named
  <1> DEFINE v == IF byBase[Base[f]] = Nothing THEN f ELSE byBase[Base[f]]
  <1>3. v \in Named /\ Name(f) = [byBase EXCEPT ![Base[f]] = v]
    BY <1>2 DEF Name
  <1> HIDE DEF v
  <1> QED
    BY <1>1, <1>3

\* Only a program that runs asks for lists and runs what is posted.
LEMMA BusyIsOn ==
  ASSUME FilesInv, fetch # <<>> \/ closures # <<>>
  PROVE  on
  BY DEF FilesInv, Stopped

\* The goroutine that asks for a list reads the server.
LEMMA FetchReadsStep ==
  ASSUME FilesInv, NEW k \in DOMAIN fetch, FetchReads(k)
  PROVE  FilesInv'
  <1> DEFINE S == DOMAIN Hubs \cup {Nothing}
  <1>1. /\ fetch' = [fetch EXCEPT ![k] = w.server]
        /\ UNCHANGED <<program, disk, last, on, path, w, byBase, save, closures, switched, pending, listed, want>>
    BY DEF FetchReads
  <1>2. fetch \in Seq(S) /\ w.server \in S /\ w \in Config
    BY DEF FilesInv, FilesType, Config
  <1>3. /\ pending' \in Nat /\ want' \in Nat /\ listed' \in S /\ closures' \in Seq(ForUI)
    BY <1>1 DEF FilesInv, FilesType
  <1> HIDE DEF S
  <1>4. fetch # <<>> /\ fetch' \in Seq(S) /\ fetch' # <<>>
    <2>1. Len(fetch) \in Nat /\ DOMAIN fetch = 1..Len(fetch) /\ Len(fetch) # 0
      BY <1>2
    <2>2. fetch' \in Seq(S) /\ Len(fetch') = Len(fetch)
      BY <1>1, <1>2
    <2>3. Len(<<>>) = 0
      OBVIOUS
    <2> QED
      BY <2>1, <2>2, <2>3
  <1>5. on
    BY <1>4, BusyIsOn
  <1>6. HubKept(w', pending', listed', fetch', closures', want')
    BY <1>1, <1>4 DEF FilesInv, HubKept
  <1> QED
    BY <1>1, <1>2, <1>3, <1>4, <1>5, <1>6, WidgetStep DEF S

\* The list is posted, or there will be none.
LEMMA FetchEndsStep ==
  ASSUME FilesInv, NEW k \in DOMAIN fetch, FetchEnds(k)
  PROVE  FilesInv'
  <1> DEFINE S == DOMAIN Hubs \cup {Nothing}
             c == [kind |-> "hubs", server |-> fetch[k]]
  <1>1. /\ fetch[k] # Nothing /\ fetch' = RemoveAt(fetch, k)
        /\ \/ closures' = Append(closures, c) /\ want' = want
           \/ closures' = closures /\ want' = 0
        /\ UNCHANGED <<program, disk, last, on, path, w, byBase, save, switched, pending, listed>>
    BY DEF FetchEnds
  <1>2. fetch \in Seq(S) /\ w \in Config /\ closures \in Seq(ForUI)
    BY DEF FilesInv, FilesType
  <1>3. fetch # <<>> /\ fetch[k] \in S
    BY <1>2
  <1>4. c \in ForUI /\ c.kind = "hubs"
    BY <1>1, <1>3 DEF ForUI
  <1>5. /\ pending' \in Nat /\ want' \in Nat /\ listed' \in S
    BY <1>1 DEF FilesInv, FilesType
  <1> HIDE DEF c
  <1>6. closures' \in Seq(ForUI) /\ (Announced(closures, path, last) => Announced(closures', path, last))
    <2>1. CASE closures' = closures
      BY <1>2, <2>1
    <2>2. CASE closures' = Append(closures, c)
      BY <1>2, <1>4, <2>2, QueueAppend
    <2> QED
      BY <1>1, <2>1, <2>2
  <1>7. want' # 0 => ListComes(closures')
    BY <1>1, <1>2, <1>4, QueueAppend
  <1>8. program = "walk"
    BY <1>3 DEF FilesInv, FilesType, HubKept
  <1>9. HubKept(w', pending', listed', fetch', closures', want')
    BY <1>1, <1>7, <1>8 DEF FilesInv, HubKept
  <1>10. fetch' \in Seq(S)
    <2> HIDE DEF S
    <2>1. /\ k \in Nat /\ k >= 1 /\ k <= Len(fetch) /\ Len(fetch) \in Nat
      BY <1>2
    <2>2. SubSeq(fetch, 1, k - 1) \in Seq(S)
      BY <1>2, <2>1
    <2>3. SubSeq(fetch, k + 1, Len(fetch)) \in Seq(S)
      BY <1>2, <2>1
    <2>4. fetch' = SubSeq(fetch, 1, k - 1) \o SubSeq(fetch, k + 1, Len(fetch))
      BY <1>1 DEF RemoveAt
    <2> QED
      BY <2>2, <2>3, <2>4
  <1>11. on
    BY <1>3, BusyIsOn
  <1> QED
    BY <1>1, <1>2, <1>5, <1>6, <1>9, <1>10, <1>11, WidgetStep

\* A list is shown: the hub that was waiting goes into the text.
LEMMA ShowHubsStep ==
  ASSUME FilesInv, closures # <<>>, closures' = Tail(closures), Head(closures).kind = "hubs",
         ShowHubs(Head(closures).server),
         UNCHANGED <<program, disk, last, on, path, byBase, save, fetch, switched>>
  PROVE  FilesInv'
  <1> DEFINE s == Head(closures).server
  <1>1. /\ closures \in Seq(ForUI) /\ w \in Config /\ pending \in Nat /\ want \in Nat
        /\ fetch' \in Seq(DOMAIN Hubs \cup {Nothing}) /\ program \in {"walk", "fyne"}
    BY DEF FilesInv, FilesType
  <1>2. /\ closures' \in Seq(ForUI) /\ Head(closures) \in ForUI /\ ListComes(closures)
        /\ Announced(closures, path, last) => Announced(closures', path, last)
    BY <1>1, QueueTail
  <1>3. s \in DOMAIN Hubs
    BY <1>2 DEF ForUI
  <1>4. /\ listed' = s /\ pending' = 0
        /\ want' = IF s = w.server /\ want \in ToSet(Hubs[s]) /\ pending # 0 THEN want ELSE 0
    BY DEF ShowHubs
  <1>5. PICK text \in {w.hub, 0} :
            LET target == IF pending # 0 THEN pending ELSE text
            IN  w' = [w EXCEPT !.hub = IF target \in ToSet(Hubs[s]) THEN target ELSE Head(Hubs[s])]
    BY DEF ShowHubs
  <1> DEFINE target == IF pending # 0 THEN pending ELSE text
             h == IF target \in ToSet(Hubs[s]) THEN target ELSE Head(Hubs[s])
  <1>6. w' = [w EXCEPT !.hub = h]
    BY <1>5
  <1>7. h \in Nat
    BY <1>3, ListedType
  <1>8. program = "walk" /\ (want # 0 /\ pending # 0 => pending = want)
    BY <1>1, <1>2 DEF FilesInv, HubKept
  <1>9. want' # 0 => want' = want /\ h = want
    BY <1>4, <1>8
  <1> HIDE DEF h, s
  <1>10. w' \in Config /\ w'.owner = w.owner /\ w'.hub = h
    BY <1>1, <1>6, <1>7 DEF Config
  <1>11. s # Nothing /\ listed' \in DOMAIN Hubs \cup {Nothing} /\ pending' \in Nat /\ want' \in Nat
    BY <1>1, <1>3, <1>4, FilesAssumption
  <1>12. HubKept(w', pending', listed', fetch', closures', want')
    BY <1>4, <1>8, <1>9, <1>10, <1>11 DEF HubKept
  <1>13. on
    BY BusyIsOn
  <1> QED
    BY <1>1, <1>2, <1>10, <1>11, <1>12, <1>13, WidgetStep

\* The window hears of a save.
LEMMA ShowPathStep ==
  ASSUME FilesInv, closures # <<>>, closures' = Tail(closures), Head(closures).kind = "path",
         ShowPath(Head(closures).path),
         UNCHANGED <<program, disk, last, on, save, switched, pending, listed, fetch, want>>
  PROVE  FilesInv'
  <1> DEFINE p == Head(closures).path
  <1>1. closures \in Seq(ForUI) /\ w \in Config /\ path \in Named
    BY DEF FilesInv, FilesType
  <1>2. /\ closures' \in Seq(ForUI) /\ Head(closures) \in ForUI
        /\ ListComes(closures) = (ListComes(closures') \/ Head(closures).kind = "hubs")
        /\ Announced(closures, path, last) => Announced(closures', path, last) /\ p = ToDefault(path) /\ last = p
    BY <1>1, QueueTail
  <1>3. ListComes(closures') = ListComes(closures)
    <2>1. ListComes(closures') \in BOOLEAN /\ ListComes(closures) \in BOOLEAN
      BY DEF ListComes
    <2> QED
      BY <1>2, <2>1
  <1>4. p \in Files
    BY <1>2 DEF ForUI
  <1>5. path' = p /\ w' = [w EXCEPT !.owner = IF w.owner = Nothing THEN p ELSE w.owner]
    BY DEF ShowPath
  <1>6. byBase' \in [Bases -> Named]
    BY <1>4, NameType DEF ShowPath, FilesInv, FilesType
  <1> HIDE DEF p
  <1>7. w' \in Config /\ w'.hub = w.hub /\ w'.owner = (IF w.owner = Nothing THEN p ELSE w.owner)
    BY <1>1, <1>4, <1>5 DEF Config
  <1>8. FilesType'
    BY <1>2, <1>4, <1>5, <1>6, <1>7 DEF FilesInv, FilesType, Named
  <1>9. Stopped'
    BY BusyIsOn DEF Stopped
  <1>10. Belongs'
    <2> SUFFICES ASSUME ~switched
                 PROVE  /\ OwnFiles(disk) /\ InWindow(w', p, last)
                        /\ SaveFits(save, p) /\ Announced(closures', p, last)
      BY <1>5 DEF Belongs
    <2>1. /\ OwnFiles(disk) /\ InWindow(w, path, last) /\ SaveFits(save, path) /\ Announced(closures, path, last)
      BY DEF FilesInv, Belongs
    <2>2. p = ToDefault(path) /\ last = p /\ Announced(closures', path, last)
      BY <1>2, <2>1
    <2>3. ToDefault(p) = ToDefault(path)
      BY <1>4, <2>2, FilesAssumption DEF ToDefault
    <2>4. InWindow(w', p, last)
      BY <1>7, <2>1, <2>2 DEF InWindow, ToDefault
    <2>5. SaveFits(save, p) /\ Announced(closures', p, last)
      BY <2>1, <2>2, <2>3 DEF SaveFits, Announced
    <2> QED
      BY <2>1, <2>4, <2>5
  <1>11. HubKept(w, pending, listed, fetch, closures, want)'
    BY <1>3, <1>7 DEF FilesInv, HubKept
  <1> QED
    BY <1>8, <1>9, <1>10, <1>11 DEF FilesInv

\* Fyne: the closure takes the settings and the path together.
LEMMA SnapStep ==
  ASSUME FilesInv, closures # <<>>, closures' = Tail(closures), Head(closures).kind = "snap",
         save' = [at |-> "create", cfg |-> buildConfig, path |-> ToDefault(path)],
         UNCHANGED <<program, disk, last, on, path, w, byBase, switched, pending, listed, fetch, want>>
  PROVE  FilesInv'
  <1>1. /\ closures \in Seq(ForUI) /\ path \in Named /\ buildConfig \in Stored /\ buildConfig.owner = w.owner
        /\ disk \in [Files -> Contents] /\ last \in Named /\ switched \in BOOLEAN
    BY BuildType DEF FilesInv, FilesType
  <1>2. /\ closures' \in Seq(ForUI)
        /\ ListComes(closures) = (ListComes(closures') \/ Head(closures).kind = "hubs")
        /\ Announced(closures, path, last) => Announced(closures', path, last)
    BY <1>1, QueueTail
  <1>3. ListComes(closures') = ListComes(closures)
    <2>1. ListComes(closures') \in BOOLEAN /\ ListComes(closures) \in BOOLEAN
      BY DEF ListComes
    <2> QED
      BY <1>2, <2>1
  <1>4. ToDefault(path) \in Files /\ (path # Nothing => ToDefault(path) = path)
    BY <1>1, ToDefaultType
  <1> DEFINE s == [at |-> "create", cfg |-> buildConfig, path |-> ToDefault(path)]
  <1>5. s \in Saves
    BY <1>1, <1>4 DEF Saves
  <1>6. InWindow(w, path, last) => SaveFits(s, path)
    BY <1>1, <1>4 DEF InWindow, SaveFits
  <1>7. save' = s
    OBVIOUS
  <1> HIDE DEF s
  <1>8. on
    BY BusyIsOn
  <1> QED
    BY <1>1, <1>2, <1>3, <1>5, <1>6, <1>7, <1>8, SaveStep DEF Belongs

LEMMA FilesClosureStep ==
  ASSUME FilesInv, RunFilesClosure
  PROVE  FilesInv'
  <1>1. closures # <<>> /\ closures' = Tail(closures) /\ UNCHANGED <<program, disk, last, on, switched>>
    BY DEF RunFilesClosure
  <1>2. CASE /\ Head(closures).kind = "snap"
             /\ save' = [at |-> "create", cfg |-> buildConfig, path |-> ToDefault(path)]
             /\ UNCHANGED <<path, w, byBase, hubVars>>
    BY <1>1, <1>2, SnapStep DEF hubVars
  <1>3. CASE Head(closures).kind = "path" /\ ShowPath(Head(closures).path) /\ UNCHANGED <<save, hubVars>>
    BY <1>1, <1>3, ShowPathStep DEF hubVars
  <1>4. CASE Head(closures).kind = "hubs" /\ ShowHubs(Head(closures).server) /\ UNCHANGED <<path, byBase, save, fetch>>
    BY <1>1, <1>4, ShowHubsStep
  <1> QED
    BY <1>2, <1>3, <1>4 DEF RunFilesClosure

LEMMA SelectStep ==
  ASSUME FilesInv, NEW f \in Files, Select(f)
  PROVE  FilesInv'
  BY LoadStep DEF Select, FilesInv, FilesType

\* Fyne may load another file of the same name.
LEMMA BrowseStep ==
  ASSUME FilesInv, NEW f \in Files, onBrowseConfig(f)
  PROVE  FilesInv'
  <1> DEFINE g == byBase'[Base[f]]
             h == IF program = "fyne" /\ Readable(disk, g) THEN g ELSE f
  <1>1. /\ Click /\ Load(h) /\ byBase' = Name(f)
        /\ UNCHANGED <<program, disk, on, save, closures>>
    BY DEF onBrowseConfig
  <1>2. byBase' \in [Bases -> Named] /\ g \in Named /\ disk \in [Files -> Contents]
    BY <1>1, NameType DEF FilesInv, FilesType
  <1>3. h \in Files
    BY <1>2, ReadableType
  <1> HIDE DEF h
  <1> QED
    BY <1>1, <1>2, <1>3, LoadStep

\* Save as: the settings are that file's from now on, but Fyne may load another.
LEMMA SaveAsStep ==
  ASSUME FilesInv, NEW f \in Files, onSaveConfig(f)
  PROVE  FilesInv'
  <1> DEFINE g == byBase'[Base[f]]
             c == [buildConfig EXCEPT !.owner = f]
  <1>1. /\ Click /\ disk' = [disk EXCEPT ![f] = c] /\ byBase' = Name(f)
        /\ UNCHANGED <<program, on, save, closures>>
    BY DEF onSaveConfig, Written
  <1>2. c \in Stored /\ c.owner = f
    BY BuildType DEF FilesInv, Stored
  <1> HIDE DEF c
  <1>3. disk' \in [Files -> Contents] /\ (OwnFiles(disk) => OwnFiles(disk'))
    <2>1. c \in Contents
      BY <1>2 DEF Contents
    <2> QED
      BY <1>1, <1>2, <2>1, WriteOwn DEF FilesInv, FilesType
  <1>4. byBase' \in [Bases -> Named] /\ g \in Named /\ disk \in [Files -> Contents]
    BY <1>1, NameType DEF FilesInv, FilesType
  <1>5. CASE program = "fyne" /\ g # f /\ Readable(disk, g)
    <2>1. Load(g)
      BY <1>5 DEF onSaveConfig
    <2>2. g \in Files
      BY <1>4, <1>5, ReadableType
    <2> HIDE DEF g
    <2> QED
      BY <1>1, <1>3, <1>4, <2>1, <2>2, LoadStep
  <1>6. CASE ~(program = "fyne" /\ g # f /\ Readable(disk, g))
    <2>1. /\ w' = [w EXCEPT !.owner = f] /\ path' = f /\ last' = f
          /\ UNCHANGED <<pending, listed, fetch, want>>
      BY <1>6 DEF onSaveConfig, hubVars
    <2>2. w' \in Config /\ w'.owner = f /\ w'.hub = w.hub
      BY <2>1 DEF FilesInv, FilesType, Config
    <2>3. on /\ switched' = (switched \/ Saving)
      BY <1>1 DEF Click, Act
    <2>4. switched' \in BOOLEAN
      BY <2>3 DEF FilesInv, FilesType, Saving
    <2>5. FilesType'
      BY <1>1, <1>3, <1>4, <2>1, <2>2, <2>4 DEF FilesInv, FilesType, Named
    <2>6. Stopped'
      BY <1>1, <2>3 DEF Stopped
    <2>7. Belongs'
      <3> SUFFICES ASSUME ~switched'
                   PROVE  /\ OwnFiles(disk') /\ InWindow(w', path', last')
                          /\ SaveFits(save', path') /\ Announced(closures', path', last')
        BY DEF Belongs
      <3>1. save' = NoSave /\ closures' = <<>>
        BY <1>1, <2>3 DEF Saving
      <3>2. SaveFits(save', path') /\ Announced(closures', path', last')
        BY <3>1 DEF SaveFits, NoSave, Announced
      <3>3. OwnFiles(disk')
        BY <1>3, <2>3 DEF FilesInv, Belongs
      <3> QED
        BY <2>1, <2>2, <3>2, <3>3 DEF InWindow
    <2>8. HubKept(w, pending, listed, fetch, closures, want)'
      BY <1>1, <2>1, <2>2 DEF FilesInv, HubKept
    <2> QED
      BY <2>5, <2>6, <2>7, <2>8 DEF FilesInv
  <1> QED
    BY <1>5, <1>6

LEMMA FilesStep == FilesInv /\ [FilesNext]_filesVars => FilesInv'
  <1> SUFFICES ASSUME FilesInv, [FilesNext]_filesVars PROVE FilesInv'
    OBVIOUS
  <1>1. CASE UNCHANGED filesVars
    BY <1>1 DEF filesVars, hubVars, FilesInv, FilesType, Stopped, Belongs, HubKept
  <1>2. CASE Crash
    BY <1>2, GoneStep DEF Crash, FilesInv, FilesType, Named
  <1>3. CASE User
    BY <1>3, SelectStep, BrowseStep, SaveAsStep, SaveBreaksStep, EditServerStep, EditHubStep, ConnectedStep DEF User
  <1>4. CASE \E k \in DOMAIN fetch : FetchReads(k) \/ FetchEnds(k)
    BY <1>4, FetchReadsStep, FetchEndsStep
  <1> QED
    BY <1>1, <1>2, <1>3, <1>4, StartStep, SavingStep, FilesClosureStep DEF FilesNext

LEMMA FilesInvariant == FilesSpec => []FilesInv
  BY FilesInitially, FilesStep, PTL DEF FilesSpec

\* What is on the disk, in the window, in a save and on its way to the UI thread
\* is what FilesType says; only files are written, only listed servers asked.
THEOREM FilesTypeCorrect == FilesSpec => []FilesType
  <1>1. FilesInv => FilesType
    BY DEF FilesInv
  <1> QED
    BY FilesInvariant, <1>1, PTL

\* Whatever is loaded, saved, broken off or killed: unless the user changed files
\* during a save, a file that can be read has its own settings.
THEOREM SavesStayInTheirFile == FilesSpec => []SavesToItsOwnFile
  <1>1. FilesInv => SavesToItsOwnFile
    BY DEF FilesInv, Belongs, OwnFiles, SavesToItsOwnFile
  <1> QED
    BY FilesInvariant, <1>1, PTL

\* Only a crash and a save that is broken off end the process.
LEMMA HowItEnds ==
  ASSUME FilesNext, on, ~on'
  PROVE  UNCHANGED last \/ (save.at = "record" /\ last' = Nothing)
  <1>1. CASE Crash
    BY <1>1 DEF Crash
  <1>2. ASSUME NEW f \in Files, SaveBreaks(f)
        PROVE  UNCHANGED last
    BY <1>2 DEF SaveBreaks
  <1> QED
    BY <1>1, <1>2 DEF FilesNext, Start, User, Select, onBrowseConfig, onSaveConfig, EditServer, EditHub, Connected,
           SavePath, SaveCreate, SaveEncode, SaveRecord, SaveFails, FetchReads, FetchEnds, RunFilesClosure

\* A process that ends with a file open, in the middle of a save too, leaves files
\* and a record from which the next start selects that file.  Assumed: no file was
\* changed during a save, the end left the open one readable and some file in the
\* searched directories, and did not come while the record itself was written.
THEOREM NextStartReopens == FilesSpec => ReopensWhatIsOpen
  <1>1. ASSUME FilesInv, FilesNext, on, ~on', ~switched, Readable(disk', path), \E f \in Found : disk'[f] # Absent
        PROVE  autoSelect(disk', last') = path \/ (save.at = "record" /\ last' = Nothing)
    <2>1. path # Nothing /\ last = path /\ disk'[path] # Absent
      BY <1>1 DEF FilesInv, Belongs, InWindow, Readable
    <2>2. CASE UNCHANGED last
      BY <1>1, <2>1, <2>2 DEF autoSelect
    <2> QED
      BY <1>1, <2>2, HowItEnds
  <1>2. ASSUME FilesInv, [FilesNext]_filesVars
        PROVE  [on /\ ~on' /\ ~switched /\ Readable(disk', path) /\ (\E f \in Found : disk'[f] # Absent)
                  => \/ autoSelect(disk', last') = path
                     \/ save.at = "record" /\ last' = Nothing]_filesVars
    BY <1>1, <1>2
  <1> QED
    BY FilesInvariant, <1>2, PTL DEF FilesSpec, ReopensWhatIsOpen

\* The hub that a loaded file asks for is connected to before a list of hubs has come,
\* and after the one that was asked for came, if it is of that server and has the hub;
\* whatever the combo's text does.  A second list that is asked for, another server or
\* another hub picked, and a list that never comes end the promise: they may move it.
THEOREM LoadedHubIsUsed == FilesSpec => []HubSurvivesDiscovery
  <1>1. FilesInv => HubSurvivesDiscovery
    <2> SUFFICES ASSUME FilesInv, want # 0, listed = Nothing \/ (fetch = <<>> /\ closures = <<>>)
                 PROVE  buildConfig.hub = want
      BY DEF HubSurvivesDiscovery
    <2>1. program \in {"walk", "fyne"} /\ HubKept(w, pending, listed, fetch, closures, want)
      BY DEF FilesInv, FilesType
    <2>2. buildConfig.hub = IF w.hub # 0 THEN w.hub ELSE IF pending # 0 THEN pending ELSE 1
      BY DEF buildConfig
    <2>3. closures = <<>> => ~ListComes(closures)
      BY DEF ListComes
    <2> QED
      BY <2>1, <2>2, <2>3 DEF HubKept
  <1> QED
    BY FilesInvariant, <1>1, PTL
===============================================================================
