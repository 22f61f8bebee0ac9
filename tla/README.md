# supervpn: TLA+ models, checks and proofs

supervpn is a layer-2 VPN written in Go: clients authenticate to a server over UDP, TLS or a
Reality-style stream, send Ethernet frames through a forward-error-correction pipe over one or two
paths, and the server switches the frames between the sessions of a hub.  This directory holds
TLA+ modules of the parts whose behaviour depends on order, time, loss or concurrency, TLC
configurations that check them on small instances, and TLAPS proofs.

All paths below are relative to the repository (`src/` here).

## Inventory of the system

| Part | Code | State | Operations | Hard because |
|---|---|---|---|---|
| Replay window | `internal/crypto/crypto.go` | highest counter, 512-bit array | `Check` | shift arithmetic across words and at the edges of the window |
| FEC pipe | `internal/fec/pipe.go`, `fec.go` | encoder block, packet index, repair queue; decoder blocks, `maxSeen`, `minBlockID` | `Send`, `RecvData`, `RecvRepair`, `StartRepairSender`, `StartFlush`, `expire` | loss, reordering, duplicates by the second path, flush and expiry timers, all at once |
| Fragmentation | `internal/fragment/fragment.go` | partial frames by identifier | `Split`, `Add`, `evictLocked` | duplicates, capacity, identifiers that come back |
| Hub | `internal/hub/hub.go` | members, MAC table | `Join`, `Leave`, `Forward`, `purgeMACTable` | `Forward` releases its lock between reading the table and sending |
| Sessions and administration | `cmd/supervpn-server/main.go` | session table, kicked logins, ban lists, ban files | `handleAuth`, `removeSession`, `cleanupSessions`, kick, ban, unban, save, load | checks and updates in separate critical sections, files written without a lock, restarts |
| Client session | `internal/vpnclient/client.go` | connection state, last pong | `run`, `authenticate`, ping loop, `recvLoop` | time-outs on both sides, lost and late packets, server restarts |
| Reality transport | `internal/transport/reality_*.go` | replay cache, streams of a splice | `DialReality`, `AcceptReality`, `fresh`, `realityFallback` | replays, clock skew, half-closed and reset connections |
| Updater | `internal/update`, the clients' `main`, the server's mirror | binary, `.new`, `.old`, mutex, environment | check, download from three sources, replace, restart, clean up | killed between two renames; several processes at once |
| Gateway discovery | `internal/zgw`, `standalone/bmwzgw` | last answer, last report | `scanIfaces`, `doProbes`, `Run`, `decodeVIN` | answers race the silence timer; adapters come and go |
| Battery polling | `internal/bmwbattery`, `updateBattery` of the windows | the poll, its label | `Poll`, `StickyPoll`, `Read` | cancelled polls still post; boxes change without handlers |
| Network adapters | `internal/clientadapter`, `pkg/tun`, `internal/bridge` | drivers, bridges, open devices | `OpenAdapter` and what it tries | each way may fail after it changed the machine |
| Client windows | `cmd/supervpn-client-*` | fields, buttons, queue of closures | Connect, Disconnect, refresh loop | goroutines write fields the UI thread reads |
| Configuration files | `internal/config`, both windows | files, last used path, widgets, hub list | load, browse, save, automatic save, hub discovery | late closures, crashes, files of one name |
| Dual path | `main.go` `handleJoin`, `handleTCPConn2`, `runSecondaryUDP` | `sendRaw2`, `closeConn2` | register, clear | a late end of an old connection meets a new one |
| Plain transports, wire format, cipher, MSS clamp | `internal/transport`, `internal/proto`, `internal/crypto`, `internal/bridge` | none | send, receive, marshal, seal | mostly I/O and arithmetic |

How the parts interact: a receive loop (a UDP worker, a stream connection or the client's
`recvLoop`) opens a packet with the session's cipher, whose replay window refuses repeats; takes the
session's `orderMu`; passes the packet to the FEC decoder or the reassembler; and hands the frames
that come out to `hub.Forward` (server) or to the bridge (client).  The flush ticker does the same
for frames stuck behind a gap.  `hub.Forward` calls the `Send` of the destination sessions, which
passes the frame to their FEC pipe or fragments it.  The HTTP API and the clean-up ticker remove
sessions from the session table and from their hub.  On the client, a window opens an adapter, starts
a client on it and is told of its states through a channel of one slot; discovery and battery polls
report to the same window as closures on its UI thread.

What makes each part correct is stated as properties (below); the places where it is hard to test
are the `hazards` of `PROJECT.json`.

## Modules

| Module | Models | Properties checked |
|---|---|---|
| `ReplaySpec` | what a replay window promises, on a set of counters | (specification) |
| `ReplayWindow` | `ReplayWindow.Check` on its array of words | `WindowIsHistory`, `ImplementsReplaySpec` |
| `FecPipe` | one direction of a session: sender, paths, decoder, delivery | `OrderedWithinBlock`, `AnyKSuffice`, `NothingForgotten`, `NotClosedEarly`, `EventuallyDelivered` |
| `Fragment` | splitting and reassembly of oversized frames | `Intact`, `OnceWhileRemembered`, `NotCrowdedOut` |
| `Hub` | one hub with concurrent `Forward`s | `ReachesDestination`, `FloodsOnlyTheUnknown`, `TalkersStayKnown` |
| `ServerSessions` | authentication, removal, kick, bans, ban files, restart | `SessionsAreMembers`, `MembersAccountedFor`, `LoginBanHolds`, `BlocksCanBeLifted`, `BansSurviveRestart` |
| `Keepalive` | a client and the server keeping a UDP session alive | `SessionOutlivesClient`, `DetectsLostSession`, `Recovers` |
| `Reality` | the Reality front: authentication, replay cache, splice | `NoReplay`, `GenuineAdmitted`, `NothingCutOff`, `FallbackEnds` |
| `SelfUpdate` | start, elevation, single instance, update, restart; mirrors | `BinaryRemains`, `OneUpdater`, `ChainEnds` |
| `VinDecode` | `decodeVIN` on tables that are constants | (operators) |
| `Discovery` | `zgw.Run`: interface scan, probes, answers, silence | `CarIsFound`, `CarLossIsSeen` |
| `Battery` | `updateBattery`, `Poll`, `StickyPoll`, `Read` | `PollFitsCar`, `FieldFromItsDid`, `PollStops` |
| `Adapter` | what `OpenAdapter` may come to on a Windows machine | (operators) |
| `ClientApp` | Connect, Disconnect, client, refresh loop, UI queue | `DisconnectedMeansStopped`, `CapturesAsConfigured`, `StatusCatchesUp`, `CanTryAgain` |
| `ConfigFiles` | configurations: files, windows, automatic save, hub list | `SavesToItsOwnFile`, `ReopensWhatIsOpen`, `HubSurvivesDiscovery` |
| `MC*` | constants for TLC; `MCVinTables` holds a cut of the VIN tables | |
| `*Proofs` | TLAPS proofs, of the module of that name; `FrameProofs` of `Hub` and `Fragment`, `WindowProofs` of `Adapter`, `ClientApp`, `ConfigFiles` and `Battery` | |

`TypeOK` is the type invariant of a module where one is defined (`HubTypeOK` in `Hub`); in the
modules with proofs it is a theorem.  `SelfUpdate`'s, `AppType` of `ClientApp`, `FilesType` of
`ConfigFiles` and the types in `BatteryInv` stand with the proofs; `Reality`'s is the part `ShapeOK`
of the invariant proved there.  `ClientApp` extends `Adapter`, `Discovery` and `Battery` extend
`VinDecode`.  `Hub`, `ConfigFiles` and `Battery` put the component's name into `Init`, `Next` and
`Spec` (`HubSpec`, `FilesSpec`, `BatterySpec`), since the proofs extend several components.

Operators whose name has the form `Definition_Variant` and whose comment begins with "Mutant" are
faulty variants of the definition that follows them.  They are not part of any specification: they
are put in place of the definition to see that the property named in `PROJECT.json` notices.

### ReplayWindow

A word is the set of its bits that are one; `WordBits` and `Words` are 64 and 8 in the code.  The
three branches of `Check` are the actions `Reject`, `Advance` and `Mark`; the mutex makes each call
one step.  `Shifted` is the loop that moves words and carries bits.  `ReplaySpec` keeps the accepted
counters as a set and accepts exactly the fresh ones; `ReplayWindow` is shown to implement it with
the identity mapping on its history variable.

### FecPipe

A frame is the pair (blockID, pktIdx) the encoder gives it.  `SendData` and `SendLast` are
`Pipe.Send` without and with the completion of a block, `RepairSender` the delayed sender, `Recv`
and `SkipRepair` the receive loops with `Decoder.add`, `tryRecover` and `expire`, `FlushStale` the
flush ticker, `Deliver` the loop that hands frames on while `orderMu` is held (`pending` is not empty
meanwhile, and nobody else enters).  XOR and Reed-Solomon are reduced to their promise: with as many
repair packets as gaps, all slots are known.  Ages count ticks since `lastActivity`.  The server has
one replay window per session, so its two listeners are one path that never repeats a packet; the
client's two receive loops have a window each and are two paths.  `Carried` bounds what a path brings.

### Fragment

A frame has a length and a piece is an interval of it, so that "put together correctly" can be said.
`AddNew`, `AddMore` and `AddLate` are the ways through `Add`; `evictLocked` is the set of evictions it
may make, since the iteration order of a Go map decides between entries of the same age.  `since` is
history: for an entry that has not expired, the identifiers whose entries were opened after it, or in
the same tick; `NotCrowdedOut` counts them when the entry is dropped.

### Hub

`Begin`, `Learn`, `Route` and `Flood` are the critical sections of `Forward`.  The per-session
`orderMu` of the callers admits one `Forward` per session.  `steady` and `named` record, for a
`Forward` in progress, who was a member throughout and what the table said of the destination
meanwhile; the properties compare the outcome with them.  `load` chooses, for a behaviour, between
two sessions that send at the same time and one that sends for six minutes.

### ServerSessions

An attempt is one AuthHello and the session it may become.  `CheckIP`, `CheckLogin`, `Insert` and
`JoinHub` are the sections of `handleAuth`.  Session identifiers are random 32-bit numbers and taken
to be unique.  A request of the HTTP API is a small program kept in `admin`: it changes a list, saves
it (`Snapshot`, `Truncate`, `WriteFile` or `SaveFails`), takes sessions out of the table and closes
them.  `os.WriteFile` truncates first, so a restart in between leaves a file that does not parse
(`Corrupt`), which loading skips.  `early` and `overtaken` are history: sessions removed before they
had joined their hub, and authentications that had passed the check when a ban was carried out.
They mark the two races of the code, and `MembersAccountedFor` and `LoginBanHolds` say that there is
no other way to the same state.

### Keepalive

Discrete time; a due packet or timer goes before the next tick.  Each attempt opens a new socket, so
packets of earlier ones are orphans.  No data flows, the hardest case for the time-outs.  The
client starts at any moment between two clean-ups of the server, and a restart begins a new
interval, so the phase of the two tickers is arbitrary.  The fall-backs to Reality and TLS are taken
to fail.

`SessionOutlivesClient` does not say that the server never drops a session first: when all pings of
a client are lost, the clean-up may come less than a packet's way before the ping tick at which the
client gives up, because the server's clock for the session starts with its hello and the client's
with the AuthOK.  The property allows exactly that.

### Reality

A hello is what its sender sealed (key, short ID, time stamp) or a prober's record; any connection
may bring any hello again.  `Accept`, `ReadRecord`, `authenticate` and `Serve` are `AcceptReality`
in the steps between which the clock moves: `now` is the time a connection has read, `Lag` how much
later `fresh` may run.  `DialDest`, `Pipe` (one per direction), `SpliceEnds` and `Returns` are
`realityFallback`.  Streams are counted in units; the first two are the header and the body of the
first record, which authentication has taken and `DialDest` writes to the site before the splice
starts; until then nothing has moved, and the write may fail.  The two TCP connections break one at a
time (`lost`): the direction that reads from the broken one returns; the other one returns when it has
something to write, and until then waits in `Read` for its own peer (`CopyEnds`).

### SelfUpdate

Files are versions: `exe`, `new` (`.new`), `old` (`.old`), `Partial` for a piece.  A process goes
through `pc`: elevation, single-instance guard, clean-up, check, sources, `OpenNew`, `CopyDone` or
`CopyFails`, `MoveAway`, `MoveIn`, restart.  `End` may happen at any of them.  What a process leaves
to its successor is its environment (the two marks) and the files.  `shared`, `swept` and `unguarded`
are history: two sessions wrote the same `.new`; a clean-up ran between the two renames of another
process; a process went on although `CreateMutex` failed with an error other than "exists".

### Discovery, VinDecode, Battery

Time in `Discovery` is ticks of five seconds; `Tick`, `ReadLastSeen` and `ReportSilence` are one pass
of the loop, `Receive` and `ReportCar` one packet of a receiver, and notify's closures are `posted`.
`pkg` chooses between the clients' package and the standalone tool's copy, which probes no tunnel.
`Battery` takes any sequence of the reports discovery can make.  A poll is `StartPoll`, `PollTick`,
`StickyPoll` (with all of `Read`, whose answers are a script of the control unit: each request is
answered, refused, put off with "response pending", or left without an answer) and `PollEnds`;
`Cancelled` and `PollEnds` are apart, as the code's goroutine sees its context later.

### Adapter and ClientApp

`Adapter` has no state: each operator is the set of `[mode, nic, dev, host]` the code may return,
where `host` is what it leaves on the machine also when it fails.  In `ClientApp` an attempt is the
goroutine of `onConnect`: `Open` writes `ui.framer`, `Launch` the other fields (`connectCancel`,
`client`, `refreshCh`; Go code in between does not block).  `setState` puts a token into the channel
the window has then; `TakeToken` and `RefreshStatus` are a pass of the refresh loop, which waits on
the channel that was current when it began to wait.  `kit` is the program: the Walk and Fyne windows
differ in where the automatic save starts and what an error does to the dot; `mini` is the pair
without buttons.  A client is reduced to its states; `Keepalive` looks inside.

### ConfigFiles

A configuration is a server, a hub and `owner`, the file whose settings it carries.  `Load` is what
every way of opening ends in; `onBrowseConfig` and `onSaveConfig` keep the difference of the two
windows in what selecting a name in the list does.  The automatic save goes through `SavePath`,
`SaveCreate`, `SaveEncode`, `SaveRecord` (the record of the last used file) and the closure that shows
its path; the process may end between any two of them (`Crash`), also while the record is written,
which is then empty.  Writing the record does not fail otherwise.  A Walk combo may keep or lose its
text when its list is replaced, so `ShowHubs` allows both.  `want` and `switched` are history: the
hub a load asked for, and that the user changed files during a save.  Dialogs are one step, save
names end in `.toml`, one automatic save runs at a time.

## Runs

TLC finishes the state space of each.

| Run | Instance | Shows |
|---|---|---|
| `replay_window` | 3 words of 2 bits, counters to 11 | all sequences of calls, with jumps below, at and beyond a word and the window |
| `fec_stream` | K=2, R=1, 3 blocks, 4 frames, a second path that brings block 0 again | order, completeness, early closing, expiry and, under fairness, delivery of all that arrives |
| `hub_forward` | 3 sessions, 2 addresses; 2 concurrent `Forward`s, or one sender over 6 minutes | no echo, no silent drop, no leak; refresh and purge leave no gap |
| `sessions` | 2 attempts, 2 addresses, 2 logins, 3 requests, 1 restart | the table, the hubs, the lists and the files stay consistent |
| `fragments` | 4 frames, one on both paths, 3 identifiers, map of 2 | integrity, single return, what may be evicted |
| `keepalive` | ping 3, time-out 6, stale 9, clean-up 6, delay up to 1 (a unit is 5/3 s), 3 faults, 1 restart | a session is dropped only when its client is about to give it up; a restart is noticed; the client recovers |
| `self_update` | 2 processes, 2 logon sessions, 1 mirror, 2 releases; GUI and command line | a whole binary is left; one updater per session; restarts end |
| `discovery` | a tunnel and a cable, the cars of `MCVinTables`, 1 receiver, 3 moves, both packages | a car that stays, also after it came, left and came elsewhere, is found; one that left is given up |
| `battery` | the same cars, 2 polls, 2 scripts of the control unit (answer, refusal, silence; response pending, answers), both windows | the right poll, the right answers but for what a pending one shifts, no poll left |
| `reality` | 2 hellos on 2 connections, window 1 s, lag 1, skew 0 or 1, 3 s, streams of 2 units; keys, names and short IDs set or not on either side; splices of records that are no TLS, followed while nothing else happens | one admission, unless the clock ran ahead; genuine clients admitted; splices complete and finite |
| `client_app` | 12 machines and settings, 1 press of Connect or 2, 3 programs | stopped means stopped; the right device; the dot catches up; Connect comes back |
| `config_files` | 4 files, two of one name, one outside the searched directories, 2 servers, 4 actions, 2 hub lists, both windows | files, last path and hub survive late closures, crashes and failures, but for a change of files during a save |

Bounds.  A hazard of the FEC stream needs two blocks and a third to move `maxSeen` past a block that
may expire, with `maxOldBlocks` reduced from 8 to 0 in proportion; two slots per block show order and
a gap, and copies of the first block on the second path arrive before, during and after its life in
the decoder.  Two concurrent `Forward`s are all that interact, since a `Forward` only meets others
through the table and the members.  For the sessions, one authentication, one competing session and
three requests suffice for a ban, a kick and an unban of what they left.  Two processes are what
a relaunch, a second logon session or a clean-up in the middle of an update needs.  A hello
is forgotten when another connection judges a hello after the cache's memory of two windows, so a
replay needs two hellos and two connections, and three seconds with a window of one; both skews
occur, the one `NoReplay` is about and the one it exempts, and the exempted replay is reached.  A
splice touches only its own streams, so it is followed while the other connections rest (`Apart`);
the proofs leave that open.  Two
presses of Connect show an attempt meeting what the one before left.  Four actions of the user are
enough to load, save, switch and end the process; a mutant breaks each property within these bounds.

`CHECK_DEADLOCK FALSE` appears where a bound on frames, requests, presses or actions is used up and
the model stops.  `SYMMETRY` permutes forwarding sessions, processes or logon sessions, which nothing
tells apart, in runs without liveness.

Fairness.  `FecPipe!FairSpec` assumes that the goroutines of the flush ticker, of the repair sender
and of the delivery loop, and time, go on; nothing is assumed of the network.  `Keepalive!FairSpec`
assumes the tickers and time go on and that packets that are not lost arrive; losses and restarts
are bounded in number.  `Reality!Fairness` makes the two copy goroutines and their waiter run and
assumes nothing of the peers, so `FallbackEnds` only speaks of splices whose two copies have a reason
to return.  `Discovery!Fairness` lets ticker, receivers and UI thread run, and a
car that is asked again and again answer some time (strong: single answers may be lost).
`BatteryFairness`: a read ends, by its deadline at the latest, and a `select` with the ticker and
the cancelled context ready takes the latter some time (Go chooses at random; strong).
`ClientApp!Fairness`: goroutines and the UI thread run; nobody has to press a button and no session
has to come about.

## What the code does otherwise than one would expect

Met while modelling; the models contain all of it, and the properties are stated so that they name
the exception.

* FEC: each block delivers on its own, so a later block overtakes one that waits
  (`client.go:800-802` and `main.go:157-158` speak of a strict (blockID, pktIdx) order); a block that
  expired is opened again by a late copy from the other path and delivers a second time
  (`README.md:54`: no duplicates).  A late packet below `minBlockID` opens a block that no later scan
  visits.  With R = 0 `pktIdx` is never reset; the configuration excludes it.
* Sessions: a kick between `handleAuth`'s insertion and its `Join` leaves a hub member without a
  session, which nobody removes (`early` in `MembersAccountedFor`); kick and ban never call the
  session's `cancel`, so its flush and repair goroutines stay (`main.go:164`, 816-817).
  A crash between `os.WriteFile`'s truncation and its write empties a ban file, loading skips it, and
  every ban of that list is lost (`main.go:191` says "permanently banned until explicit unban");
  `BansSurviveRestart` says that no other crash loses more than the entry a request has not saved yet.
  It needs one request at a time: with two, the older snapshot may be written last.
  With two, one request may also lift an address ban between another's ban and its kick; the login
  the kick blocks is then noted under an address that is no longer banned (`BlocksCanBeLifted` asks
  for a banned one only when there is one request at a time).
* Fragments: a full reassembler evicts tombstones of frames it has just returned.
* Updater: the mirror writes its version stamp also when an asset could not be fetched
  (`main.go:1472-1475`, against 1424-1427), so a stale binary is served under a new version until the
  next release; two logon sessions write the same `.new`.  `acquireSingleInstance` lets a process go on
  when `CreateMutex` fails with access denied or another error, so that two processes of a session may
  then update at once (`OneUpdater` is about the others).
* Discovery and battery: the comment over `Run` (`zgw.go:491-494`) says that the VPN's adapter is
  excluded from "BMW interface detection and probing"; detection leaves it out, but `doProbes` sends
  through it as well, and `CarIsFound` relies on it for a car behind the tunnel.  The standalone tool
  does not probe it.  The Fyne window goes on
  polling a car that is gone; Walk's `SetChecked` runs no handler; a cancelled poll posts its label
  once more.  When a control unit answers "response pending", `readDID` (`battery.go:222-243`) gives up
  the request and takes the late answer for the next one's: the later fields of that read hold data of
  earlier requests (`FieldFromItsDid` names the case).
* Reality: a server's restart forgets the replay cache (`NoReplay` is about one life); a connection
  whose first record is incomplete is closed, not spliced.  `reality_server.go:205` admits stamps up
  to the whole window ahead, and `fresh` judges by the time its connection read before: a hello from a
  clock that is ahead by more than the window less that delay can be admitted again just after another
  connection has dropped its entry (`NoReplay` names the case, which `reality_server.go:87-92` does
  not).  When one of a splice's two connections breaks, the other copy, and with it the goroutine and
  both sockets, stays until its own peer sends or ends.
* Windows: Disconnect before the attempt is decided finds nothing to end, and the client that starts
  afterwards runs while the window offers Connect (`hasty`); a status closure posted before Disconnect
  colours the dot afterwards and marks the automatic save as done; seema and bmgarage try once.
* Adapters: any Windows bridge that exists is taken for the right one; the first tap0901 adapter is
  renamed whoever owns it; an explicit card that is not there means direct, also with mode = bridge.
* Configuration: a load or another save between the parts of an automatic save puts the settings of
  one file into another, or brings the path of the former file back: load `home`, connect, load
  `work` before the closure of `ui_windows.go:980` runs, and the window shows `work` under the path
  of `home` while the record says `work` (`switched`); a crash after `os.Create` leaves an empty
  file, which reads as an error, and one in `os.WriteFile` an empty record; when the searched
  directories hold no file, the last used one elsewhere is not opened; Fyne loads another file of
  the same name when the browsed or saved one is selected in the list; Walk asks for two hub lists
  at the start, and the second may move the selection to the first hub.  `buildConfig` drops
  `server_tcp`, Reality keys, `update_mirrors` and `mss_clamp`.

## Proofs

The theorems hold for every value of the constants that satisfies the module's assumptions; the runs
look at one instance.  Mostly one action, or one class of actions, is one lemma, and `IInv` (or the
name given below) is the conjunction that is inductive.

| Module | Theorem | States | Under |
|---|---|---|---|
| `ReplayWindowProofs` | `TypeCorrect`, `WindowCorrect`, `Refinement` | `TypeOK`, `WindowIsHistory`, `ImplementsReplaySpec` | `ReplayAssumption`: positive word size and number of words |
| `FecPipeProofs` | `TypeCorrect`, `InOrder`, `AllHandedOn`, `NeverWaitsForMore`, `SlowIsNotLost` | `TypeOK`, `OrderedWithinBlock`, `NothingForgotten`, `AnyKSuffice`, `NotClosedEarly` | `FecAssumption`: K positive, a flush comes no later than the expiry |
| `FrameProofs`, of `Hub` | `HubTypeCorrect`, `FramesArrive`, `NoLeak`, `ActiveAreKnown` | `HubTypeOK`, `ReachesDestination`, `FloodsOnlyTheUnknown`, `TalkersStayKnown` | `HubAssumption`: an entry is refreshed before it expires |
| `ServerSessionsProofs` | `TypeCorrect`, `SessionsReachable`, `NoOtherGhosts`, `LoginBansHold`, `BlocksLift`, `BansSurvive` | `TypeOK`, `SessionsAreMembers`, `MembersAccountedFor`, `LoginBanHolds`, `BlocksCanBeLifted`, `BansSurviveRestart` | `SessionsAssumption`: finitely many requests at a time |
| `FrameProofs`, of `Fragment` | `TypeCorrect`, `ReturnsWhole`, `ReturnsOnce`, `OnlyNewcomersCrowdOut`, `MemoryBounded` | `TypeOK`, `Intact`, `OnceWhileRemembered`, `NotCrowdedOut`, at most `maxPending` entries | `FragmentAssumption`: only frames longer than a piece are split |
| `KeepaliveProofs` | `TypeCorrect`, `LostIsNoticed`, `CleanupIsLate` | `TypeOK`, `DetectsLostSession`, `SessionOutlivesClient` | `KeepaliveAssumption`; the last also `Margins` |
| `RealityProofs` | `NoHelloTwice`, `SpliceDelivers`, `GenuineLetIn` | `NoReplay`, `NothingCutOff`, `GenuineAdmitted` | `TimesAssumption`: times are natural numbers, skews integers; `HellosAssumption`: hellos are numbers |
| `SelfUpdateProofs` | `TypeCorrect`, `NeverWithoutBinary`, `OneInstaller`, `RestartsBounded` | `TypeOK`, `BinaryRemains`, `OneUpdater`, `ChainEnds` | `SelfUpdateAssumption`: the names of no file and of a partial file are no versions |
| `WindowProofs`, of `ClientApp` | `WindowTypeCorrect`, `DisconnectLeavesNothing`, `CaptureIsAllowed` | `AppType`, `DisconnectedMeansStopped`, `CapturesAsConfigured` | `AdapterAssumption`: the client's own adapter is not Radmin VPN's; `ClientAppAssumption`: nobody has bridged Radmin VPN's by hand |
| `WindowProofs`, of `ConfigFiles` | `FilesTypeCorrect`, `SavesStayInTheirFile`, `NextStartReopens`, `LoadedHubIsUsed` | `FilesType`, `SavesToItsOwnFile`, `ReopensWhatIsOpen`, `HubSurvivesDiscovery` | `FilesAssumption`: a server lists at least one hub, hub 0 is none, a file at first has its own settings |
| `WindowProofs`, of `Battery` | `PollAsksItsCar`, `FieldsHaveTheirDids` | `PollFitsCar`, `FieldFromItsDid` | `BatteryAssumption`: one car has an address, and the tables know the generation of the cars they know |

`ReplayWindowProofs`.  `TypeOK /\ WindowIsHistory` is inductive.  The core is `ShiftedBits`: position
`WordBits * i + b` after a shift holds what the position `shift` lower held before, by cases on the
word and bit shift, using that quotient and remainder are unique (`DivMod`, `Unique`).  For the
refinement, the bit that `Check` tests is membership in the set of accepted counters
(`BitIsMembership`), so each branch of `Check` is the abstract step.

`FecPipeProofs`.  `OrderedWithinBlock` says nothing of the decoder, so it is not inductive alone.
Every block in the decoder is `WellFormed`: it is done, or everything below `delivered` is there, at
`delivered` there is a gap, and there are too few packets to repair it.  One lemma says that taking
a packet in (`Added`) keeps this and never moves `delivered` back. `HandedOn` relates the history to
it: what was handed on since its block was last expired lies below `delivered` and before what is
pending.  For `NotClosedEarly`, `Sent` and `Unfilled` say that before its sender has filled a block,
neither its last packet nor a repair exists on any path, so a block can only be closed by the flush,
and the flush needs a gap.

`FrameProofs`, hub.  Between its critical sections a `Forward` holds facts that other steps could
take away. `HubSound` says, for each stage of a `Forward`, what it may rely on: the session it is
about to send to was named by the table during the `Forward`; it floods a unicast frame only when
the table named nobody, or somebody who was not a member throughout.  `WatchAllSound` shows that
every change of members or table, which adds to the history of all `Forward`s in progress, keeps it.
`FreshEnough` is the invariant behind `TalkersStayKnown`: the time an entry has left and the time
its address was quiet add up to at least `refreshBelow`.

`ServerSessionsProofs`.  None of the invariants is inductive.

* `TableInv` (`SessionsReachable`, `NoOtherGhosts`) adds `InOrder` (only a request that still has to
  close them holds sessions) and `Progress` (an attempt that `handleAuth` has not inserted is neither
  in the map, in a hub nor on its way out; one that was inserted and is not in the map was removed
  early; what is about to leave its hub is not in the map).  `RequestReplaced` says once what changing
  one request does to the sessions being closed.
* `BanInv` (`LoginBansHold`): a session of a banned account was overtaken by the ban, or some request
  still has to look for it.
* `LiftInv` (`BlocksLift`): a blocked login is noted under an address, or the request that blocked it
  is about to note it; with one request at a time the address that request works on is banned.
* `DiskInv` (`BansSurvive`, an action property): with one request at a time, file and list agree
  unless the list's save failed; while the request has the list still to save they differ in at most
  one entry; its snapshot is the list; between truncation and writing the file is `Corrupt`.

`FrameProofs`, fragments.  An entry is `Sound`: under index i it holds a piece with that index, with the
entry's identifier and its number of pieces, or nothing.  `Entries` says so of the map; `Returns`,
that what was returned is complete in this sense and that its identifier keeps a tombstone until
that is evicted; hence `Once`.  Frames that share an identifier but differ in their number of pieces
cannot mix, and `PiecesCover` shows that the pieces of a frame in order cover it.  `NotCrowdedOut`
is an action property and needs `Followed`: whoever is as young as an unexpired entry is in its `since`.
`evictLocked` drops an unexpired entry only from a full map of unexpired entries, and an oldest one,
whichever way a Go map is walked; so the `maxPending - 1` others are all as young, hence in `since`.
`MemoryBounded` counts with the library's facts about cardinalities.

`KeepaliveProofs`.  `Base` gives the types and `Sockets`: what can be on its way while the client has
no session.

* `LostIsNoticed`: a client that holds a lost session has not pinged since (`stranded <= timer`), or
  its ping is on its way (and has used so much of its delay), or the refusal is (`Noticing`).
* `CleanupIsLate` holds under `Margins`: `keepaliveTimeout <= 2 * pingInterval` and
  `3 * pingInterval <= staleAfter`, which the code's 5, 10 and 15 s satisfy with equality.  `Tracked`
  says that client and server heard of each other at about the same ping: the client's news is b
  units before the last ping (b is 0, 1 or 2 intervals), late by d, and the server's is older by e
  only when it is the hello.  A clean-up needs the server's age beyond three intervals, hence b = 2 and
  a client less than `maxDelay` before the tick at which it gives up.

An earlier form of `SessionOutlivesClient` demanded that the server never be first.  The induction
failed on it, and TLC found the case once one more loss was allowed and the phase of the clean-up was
free; the property now names it.

`RealityProofs`.  `NoHelloTwice` strengthens `NoReplay` by, for a hello whose sender's clock is ahead
by at most window - `Lag` (`Modest`; no assumption excludes the others): its stamp lies at most that
far ahead of the clock (`StampBound`), a connection's time is at most `Lag` old (`TimedBound`), and once
it was admitted it is held by the cache or expired for every connection that may still judge it
(`Spent`).  `EvictionIsSafe` is the core: what `fresh` forgets at time t was stored more than twice the
window before, hence its stamp is too old at t and ever after; `JudgedInTime` says that a hello judged
authentic is not among those.  `SpliceInv` (`SpliceDelivers`): a direction that is done lost one of its
peers, or its sender had ended and all was moved, and in the latter case nobody sends into it again.
`GenuineInv` (`GenuineLetIn`) follows a connection from the time it reads to the verdict.

`SelfUpdateProofs`.  A process carries what bounds its chain in its environment (`Local`), and past
the guard it owns the mutex of its session, is named by the pid file, or was let past by an error of
`CreateMutex` (`Guarded`), which gives `OneUpdater` and `ChainEnds`.  `BinaryRemains` is not
inductive: `NewWhole` says that as long as no two processes installed at a time, what an installer
is about to move in is whole; `OneMoves`, that one process at most is between the two renames; and
`Images`, that while there is no binary every process runs from `exe.old`, which Windows then lets
nobody remove or replace.

`WindowProofs`, adapters and windows.  `OpenAdapterAllowed` goes through every way `OpenAdapter` may
end: it leaves a machine on which Radmin VPN's card is in no bridge, and what it opened is allowed.
`DisconnectedMeansStopped` speaks of the moments when Connect is offered; it is not inductive,
because the window's fields decide what Disconnect ends.  `WindowInv`, as long as nobody was hasty,
has four parts: the two buttons are never offered together; every attempt but the last one is over
(`Settled`), and so is the last one when Connect is offered; otherwise the last one left the adapter
it holds and the client it runs in the window's fields (`Current`); and an error that waits for the
UI thread is the last attempt's, and the only one (`Told`), without which the window could offer
Connect while a later attempt opens.

`WindowProofs`, configuration files.  Four invariants hold together.  `Stopped`: a program that does
not run has opened nothing.  `Belongs`, as long as no file was changed during a save: the settings
in the window belong to the open file, which is the last used one; a save holds settings of that
file, or of none, and goes there (`SaveFits`); and the closures that tell of a save name it
(`Announced`).  The path may be unknown while a first save is under way: `ToDefault` is then the
file that all three agree on.  `NextStartReopens` is an action property about the steps that end the
process (`HowItEnds`: the record stays, or is lost only while it is written).  `HubKept`: in Walk,
the hub a load asked for is pending until a list has come, and one is on its way; afterwards it is
in the text; Fyne never has anything pending.  All of this is about `want`, which a second list, another
server or another hub picked sets to 0: what they do to the hub is not promised.

`WindowProofs`, battery.  `Polling` says of each goroutine that it is live only if it can still be
cancelled, and that what it asks suits the car at its address, because every target comes from a
report (`TargetSuits`).  For `FieldFromItsDid`, `Heard` is the invariant of a read's conversation:
until a request times out, what is left over in the connection belongs to requests made so far, and
nothing is left over as long as none was answered "response pending"; so the next answer is about
the next DID or, after a pending one, about an earlier one.  A read has two or three requests, so
the recursive function in `Answers` can be unfolded against an explicit one (`AnswersHeard`),
without an induction.

Every invariant that a run checks is thus a theorem.  Only model-checked: what `VinDecode` computes
on the tables (a search through sequences, induction over data; the proofs about the battery assume
of it what `BatteryAssumption` says and TLC evaluates); and all liveness (`EventuallyDelivered`,
`Recovers`, `FallbackEnds`, `CarIsFound`, `CarLossIsSeen`, `PollStops`, `StatusCatchesUp`,
`CanTryAgain`), which TLAPS does not reach.

## Not modelled

* The cipher, key derivation, TLS handshakes, Reed-Solomon and checksum arithmetic: computations of
  libraries or without state; the modules use what they promise.
* Socket I/O, length-prefixed framing and packet layouts: no state beyond the operating system's.
* Dual-path registration: one field of a session, set once per session by the clients there are.
* Reading and writing frames on an adapter, the macOS and Linux devices: system calls.
* The fall-backs of `connectWithFallback`: a fixed sequence of attempts; `Keepalive` lets all but UDP
  fail.
* Tray, connectivity test, log page, labels, autostart; defaults and validation of single settings.
* The firewall switch: two commands at the start and the end of the program.
* The HTTP status page and the listeners' accept loops.

## What could come next

The dual-path registration, where a late end of an old secondary connection clears the sender of the
newer one, and the fall-backs of `connectWithFallback` are the parts with an order worth a module of
their own.  A lemma that a table lookup in `VinDecode` returns an entry of that table would replace
the part of `BatteryAssumption` about the tables by one about their rows.
