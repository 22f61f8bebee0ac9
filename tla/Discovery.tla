------------------------------- MODULE Discovery -------------------------------
(***************************************************************************)
(* How a program finds the car on the bench.  One goroutine re-scans the    *)
(* network adapters and sends probes every tick, others receive what the    *)
(* car's gateway answers, and all of them report through notify; a report   *)
(* runs as a closure on the UI thread.                                      *)
(*                                                                          *)
(* The same package exists twice: pkg is "internal" in the clients and      *)
(* "standalone" in bmwzgw.  Time is counted in ticks of 5 s, so that        *)
(* zgwSilenceTimeout (more than 10 s) has passed at the third tick.         *)
(***************************************************************************)
EXTENDS VinDecode, SequencesExt

CONSTANTS
    Pkgs,        \* the packages an instance looks at
    Nics,        \* the adapters, in the order net.Interfaces lists them
    Cars,        \* the cars: a VIN, an ip, and built, "F" or "G"
    Receivers,   \* bound: goroutines that read a socket
    MaxMoves,    \* bound: cables plugged and cars moved
    MaxPosted    \* bound: closures queued for the UI thread

Silence == 3

VARIABLES
    pkg, rxOpen,       \* the package; did the socket on port 6811 open
    link, radmin,      \* adapters that have a link; the Radmin adapters
    car, at, moves,    \* the car, the adapter it answers on, changes so far
    asked, air,        \* adapters a probe went out on; answers on their way
    loop, scan,        \* the tick loop: where it is, what it found
    silent,            \* ticks since lastSeen, None before the first packet
    last, rcv,         \* the last report; what each receiver is reporting
    posted, shown      \* reports for the UI thread; the one on the screen

bench == <<pkg, rxOpen, link, radmin, car, at, moves>>
net   == <<asked, air>>
vars  == <<bench, net, loop, scan, silent, last, rcv, posted, shown>>

Names == {n.name : n \in ToSet(Nics)}
Tunnels == {n.name : n \in {m \in ToSet(Nics) : m.tunnel}}

-------------------------------------------------------------------------------
(* Which adapters may have a car behind them. *)

\* An adapter of Radmin VPN must never be bridged or probed.
IsExcludedFromBridge(n) == n.name \in radmin

\* Windows: an enabled adapter without a cable keeps its address.
ifaceHasLink(n) == n.name \in link

DetectLinkLocal ==
    SelectSeq(Nics, LAMBDA n : ~IsExcludedFromBridge(n) /\ ifaceHasLink(n) /\ n.linkLocal)

\* A report without a VIN: there is an adapter but no answer.
Bare(s) ==
    IF s = <<>> THEN None
    ELSE [ip |-> Head(s).name, vin |-> None, chassis |-> "", model |-> <<>>, platform |-> ""]

\* The first adapter that is not the tunnel.
scanIfaces == Bare(SelectSeq(DetectLinkLocal, LAMBDA n : ~n.tunnel))

\* The standalone package asks neither for a link nor about Radmin.
StandaloneNics == SelectSeq(Nics, LAMBDA n : ~n.tunnel /\ n.linkLocal)
scanIfaces_standalone == Bare(StandaloneNics)

\* Mutant of doProbes: the tunnel is left out, as in the standalone package.
doProbes_NoTunnel == {n.name : n \in {m \in ToSet(DetectLinkLocal) : ~m.tunnel}}

\* A probe goes out on every adapter, the tunnel included: the car may be at
\* the other end of the hub.  (Its comment says so; Run's, zgw.go:491-494, that
\* the tunnel is excluded from detection and probing.)
doProbes == {n.name : n \in ToSet(DetectLinkLocal)}

\* The standalone package leaves the tunnel out.
doProbes_standalone == {n.name : n \in ToSet(StandaloneNics)}

Scan   == IF pkg = "standalone" THEN scanIfaces_standalone ELSE scanIfaces
Probed == IF pkg = "standalone" THEN doProbes_standalone ELSE doProbes

\* processPacket: the report about a car.
InfoOf(c) ==
    LET d == IF pkg = "standalone" THEN decodeVIN_standalone(c) ELSE decodeVIN(c)
    IN  [ip |-> c.ip, vin |-> c, chassis |-> d.chassis, model |-> d.model,
         platform |-> platformForChassis(d.chassis)]

\* Everything that is displayed is compared, except the body and the MAC.
equal(a, b) == a = b

-------------------------------------------------------------------------------
(* The bench: cables and cars come and go. *)

\* Run has made its first report and sent the first probes.
Init ==
    /\ pkg \in Pkgs /\ rxOpen \in BOOLEAN
    /\ link \in SUBSET Names /\ radmin \in {{}} \cup {{n} : n \in Names}
    /\ car = None /\ at = None /\ moves = 0
    /\ asked = (IF rxOpen THEN Probed ELSE {}) /\ air = {}
    /\ loop = "tick" /\ scan = None /\ silent = None
    /\ last = Scan /\ rcv = [r \in Receivers |-> None]
    /\ posted = <<Scan>> /\ shown = None

Moved == moves < MaxMoves /\ moves' = moves + 1

Plug(n) ==
    /\ Moved
    /\ link' = IF n \in link THEN link \ {n} ELSE link \cup {n}
    /\ UNCHANGED <<pkg, rxOpen, radmin, car, at, net, loop, scan, silent, last, rcv, posted, shown>>

CarComes(c, n) ==
    /\ Moved /\ car = None
    /\ car' = c /\ at' = n
    /\ UNCHANGED <<pkg, rxOpen, link, radmin, net, loop, scan, silent, last, rcv, posted, shown>>

CarGoes ==
    /\ Moved /\ car # None
    /\ car' = None /\ at' = None
    /\ UNCHANGED <<pkg, rxOpen, link, radmin, net, loop, scan, silent, last, rcv, posted, shown>>

Connected == car # None /\ at \in link

\* The gateway answers a probe that reached it; it may do so several times.
Answer ==
    /\ Connected /\ at \in asked
    /\ air' = air \cup {car}
    /\ UNCHANGED <<bench, asked, loop, scan, silent, last, rcv, posted, shown>>

\* The probes are spent, answered or lost.
Lost ==
    /\ asked # {} /\ asked' = {}
    /\ UNCHANGED <<bench, air, loop, scan, silent, last, rcv, posted, shown>>

-------------------------------------------------------------------------------
(* Run: the tick loop and the receivers. *)

\* Under the lock: a report that differs from the last one is posted.
notify(info) ==
    IF equal(last, info) THEN UNCHANGED <<last, posted>>
    ELSE /\ Len(posted) < MaxPosted
         /\ last' = info /\ posted' = Append(posted, info)

\* Without the socket there are no probes, only the adapters are scanned.
InterfaceOnly ==
    /\ ~rxOpen
    /\ notify(Scan)
    /\ UNCHANGED <<bench, net, loop, scan, silent, rcv, shown>>

\* The tick: scan, probe ...
Tick ==
    /\ rxOpen /\ loop = "tick"
    /\ scan' = Scan /\ asked' = Probed
    /\ silent' = IF silent = None \/ silent = Silence THEN silent ELSE silent + 1
    /\ loop' = "read"
    /\ UNCHANGED <<bench, air, last, rcv, posted, shown>>

\* Mutant of ReadLastSeen: a car that was seen once is never given up.
ReadLastSeen_Forever ==
    /\ loop = "read"
    /\ loop' = IF silent = None THEN "notify" ELSE "tick"
    /\ scan' = IF loop' = "tick" THEN None ELSE scan
    /\ UNCHANGED <<bench, net, silent, last, rcv, posted, shown>>

\* ... read lastSeen under the lock ...
ReadLastSeen ==
    /\ loop = "read"
    /\ loop' = IF silent \in {None, Silence} THEN "notify" ELSE "tick"
    /\ scan' = IF loop' = "tick" THEN None ELSE scan
    /\ UNCHANGED <<bench, net, silent, last, rcv, posted, shown>>

\* ... and after it, report the adapter alone when the car was silent then.
ReportSilence ==
    /\ loop = "notify"
    /\ notify(scan)
    /\ loop' = "tick" /\ scan' = None
    /\ UNCHANGED <<bench, net, silent, rcv, shown>>

\* processPacket: lastSeen is set in one critical section ...
Receive(r) ==
    /\ rxOpen /\ rcv[r] = None
    /\ \E c \in air : rcv' = [rcv EXCEPT ![r] = InfoOf(c)] /\ air' = air \ {c}
    /\ silent' = 0
    /\ UNCHANGED <<bench, asked, loop, scan, last, posted, shown>>

\* ... and the car is reported in another.
ReportCar(r) ==
    /\ rcv[r] # None
    /\ notify(rcv[r])
    /\ rcv' = [rcv EXCEPT ![r] = None]
    /\ UNCHANGED <<bench, net, loop, scan, silent, shown>>

\* The closure runs on the UI thread.
Show ==
    /\ posted # <<>>
    /\ shown' = Head(posted) /\ posted' = Tail(posted)
    /\ UNCHANGED <<bench, net, loop, scan, silent, last, rcv>>

-------------------------------------------------------------------------------

Next ==
    \/ \E n \in Names : Plug(n) \/ \E c \in Cars : CarComes(c, n)
    \/ CarGoes \/ Answer \/ Lost
    \/ InterfaceOnly \/ Tick \/ ReadLastSeen \/ ReportSilence \/ Show
    \/ \E r \in Receivers : Receive(r) \/ ReportCar(r)

\* Goroutines, the ticker and the UI thread run; a car that is asked over and
\* over answers in the end.
Fairness ==
    /\ WF_vars(InterfaceOnly) /\ WF_vars(Tick) /\ WF_vars(ReadLastSeen)
    /\ WF_vars(ReportSilence) /\ WF_vars(Show) /\ SF_vars(Answer)
    /\ \A r \in Receivers : WF_vars(Receive(r)) /\ WF_vars(ReportCar(r))

Spec == Init /\ [][Next]_vars /\ Fairness

-------------------------------------------------------------------------------

\* A car that stays connected is shown, again and again, also when it is at the
\* other end of the VPN: doProbes does not skip the tunnel, as its comment says and
\* Run's denies (in the standalone package it does).  It may be lost for a tick, because ReportSilence acts on
\* what ReadLastSeen read before a packet came.
CarIsFound ==
    \A c \in Cars :
        <>[](/\ rxOpen /\ car = c /\ at \in link \ radmin
             /\ pkg = "standalone" => at \notin Tunnels)
            => []<>(shown # None /\ shown.vin = c)

\* A car that is gone for good is given up: its VIN does not stay on the
\* screen, although nothing announces its departure and its last answers may
\* be reported late.
CarLossIsSeen ==
    <>[](car = None) => <>[](shown = None \/ shown.vin = None)
===============================================================================
