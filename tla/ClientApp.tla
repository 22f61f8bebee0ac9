------------------------------ MODULE ClientApp -------------------------------
(***************************************************************************)
(* The windows of the client: Connect, Disconnect, the status dot.          *)
(*                                                                          *)
(* Connect starts a goroutine that opens an adapter, which takes seconds,   *)
(* and then leaves what it made in fields of the window; Disconnect, on the *)
(* UI thread, ends what it finds in these fields.  A client reports every   *)
(* change through a channel of one slot to a refresh loop, which posts      *)
(* closures to the UI thread.                                               *)
(*                                                                          *)
(* kit is the program: "walk" (Windows), "fyne", or "mini" (seema and       *)
(* bmgarage: one attempt at the start, no buttons).  Labels, speeds, the    *)
(* log page and the window itself are left out.                             *)
(***************************************************************************)
EXTENDS Adapter

CONSTANTS
    Kits,         \* the programs an instance looks at
    Settings,     \* [machine, host, cfg, presses, early]: where and how the
                  \* user connects; bounds: how often, and whether Disconnect is
                  \* ever pressed before the window knows what became of Connect
    MaxAttempts,  \* bound: presses of Connect in any setting
    MaxPosted     \* bound: closures queued for the UI thread

Attempts == 1..MaxAttempts

\* Nobody has bridged Radmin VPN's adapter by hand.
ASSUME ClientAppAssumption ==
    /\ MaxAttempts \in Nat
    /\ \A s \in Settings :
          /\ s.machine \in Machines /\ s.host \in Hosts /\ s.host.bound \cap RadminNics = {}
          /\ s.cfg \in [mode : {"auto", "bridge", "direct"}, nic : NicNames]
          /\ s.presses \in 0..MaxAttempts

VARIABLES
    kit, set,     \* the program; where it runs and what is configured
    host,         \* what opening adapters has changed on the machine
    att,          \* per attempt: how far its goroutine is, and what it opened
    client,       \* per attempt: the state of its client
    cancelled,    \* attempts whose context is cancelled
    slot, loop,   \* per attempt: its refreshCh; its refresh loop
    ui,           \* the fields and widgets of the window
    posted,       \* closures for the UI thread
    tries,        \* attempts so far
    hasty         \* history: Disconnect was pressed before the window knew what
                  \* became of the attempt

machinery == <<kit, set>>
vars == <<kit, set, host, att, client, cancelled, slot, loop, ui, posted, tries, hasty>>

\* The devices the program holds.
Used == {att[i].dev : i \in {j \in Attempts : att[j].held}}

NoAttempt == [at |-> "none", mode |-> "", nic |-> "", dev |-> "none", held |-> FALSE]

\* A window that has just opened.
Init ==
    /\ kit \in Kits /\ set \in Settings
    /\ kit = "mini" => set.cfg = [mode |-> "auto", nic |-> ""] /\ set.host.pcap # "absent"
    /\ host = set.host
    /\ att = [i \in Attempts |-> NoAttempt]
    /\ client = [i \in Attempts |-> "down"] /\ cancelled = {}
    /\ slot = [i \in Attempts |-> FALSE]
    /\ loop = [i \in Attempts |-> [at |-> "none", chan |-> 0]]
    /\ ui = [client |-> 0, framer |-> 0, cancel |-> 0, chan |-> 0,
             connectOn |-> TRUE, disconnectOn |-> FALSE,
             dot |-> IF kit = "mini" THEN "yellow" ELSE "grey", autoSaveDone |-> FALSE]
    /\ posted = <<>> /\ tries = 0 /\ hasty = FALSE

-------------------------------------------------------------------------------
(* The button Connect, and the attempt it starts. *)

Opening == {i \in Attempts : att[i].at \in {"opening", "opened"}}

\* The outcome of an attempt is not known to the window.
Undecided == Opening # {} \/ \E k \in DOMAIN posted : posted[k].kind = "error"

\* Walk and Fyne: a configuration that does not validate changes nothing.
onConnect ==
    /\ ui.connectOn /\ tries < set.presses
    /\ tries' = tries + 1
    /\ att' = [att EXCEPT ![tries'].at = "opening"]
    /\ ui' = [ui EXCEPT !.connectOn = FALSE, !.disconnectOn = kit # "mini"]
    /\ UNCHANGED <<machinery, host, client, cancelled, slot, loop, posted, hasty>>

Post(c) == Len(posted) < MaxPosted /\ posted' = Append(posted, c)

\* The error goes to the window, which offers Connect again.
OpenFails(i, o) ==
    /\ Post([kind |-> "error", state |-> "none"])
    /\ att' = [att EXCEPT ![i].at = "failed"]
    /\ UNCHANGED ui

\* ui.framer = framer
FramerOpen(i, o) ==
    /\ att' = [att EXCEPT ![i] = [at |-> "opened", mode |-> o.mode, nic |-> o.nic,
                                  dev |-> o.dev, held |-> TRUE]]
    /\ ui' = [ui EXCEPT !.framer = i]
    /\ UNCHANGED posted

Open(i) ==
    /\ att[i].at = "opening"
    /\ \E o \in OpenAdapter(set.machine, host, set.cfg, Used) :
          /\ host' = o.host
          /\ IF o.mode = "error" THEN OpenFails(i, o) ELSE FramerOpen(i, o)
    /\ UNCHANGED <<machinery, client, cancelled, slot, loop, tries, hasty>>

\* ui.connectCancel, ui.client, a channel, the refresh loop, and Start.
Launch(i) ==
    /\ att[i].at = "opened"
    /\ att' = [att EXCEPT ![i].at = "live"]
    /\ ui' = [ui EXCEPT !.cancel = i, !.client = i, !.chan = i]
    /\ loop' = [loop EXCEPT ![i] = [at |-> "select", chan |-> i]]
    /\ UNCHANGED <<machinery, host, client, cancelled, slot, posted, tries, hasty>>

-------------------------------------------------------------------------------
(* The client: Keepalive looks inside a session. *)

\* OnChange: one token into the channel the window has now, if it is empty.
setState(i, s) ==
    /\ client' = [client EXCEPT ![i] = s]
    /\ slot' = [slot EXCEPT ![ui.chan] = TRUE]

\* run: connecting, a session, two seconds of rest, and again.
ClientStep(i) ==
    /\ att[i].at = "live" /\ i \notin cancelled
    /\ \/ client[i] = "down" /\ setState(i, "connecting")
       \/ client[i] = "connecting" /\ setState(i, "connected")
       \/ client[i] \in {"connecting", "connected"} /\ setState(i, "down")
    /\ UNCHANGED <<machinery, host, att, cancelled, loop, ui, posted, tries, hasty>>

\* run returns, wherever it is, once its context is cancelled.
ClientEnds(i) ==
    /\ att[i].at = "live" /\ i \in cancelled /\ client[i] # "stopped"
    /\ setState(i, "stopped")
    /\ UNCHANGED <<machinery, host, att, cancelled, loop, ui, posted, tries, hasty>>

-------------------------------------------------------------------------------
(* runRefreshLoop and doRefreshStatus. *)

\* A token; the next wait is on the channel the window has then.
TakeToken(i) ==
    /\ loop[i].at = "select" /\ slot[loop[i].chan]
    /\ slot' = [slot EXCEPT ![loop[i].chan] = FALSE]
    /\ loop' = [loop EXCEPT ![i].at = "read"]
    /\ UNCHANGED <<machinery, host, att, client, cancelled, ui, posted, tries, hasty>>

LoopEnds(i) ==
    /\ loop[i].at = "select" /\ i \in cancelled
    /\ loop' = [loop EXCEPT ![i].at = "ended"]
    /\ UNCHANGED <<machinery, host, att, client, cancelled, slot, ui, posted, tries, hasty>>

Back(i) == loop' = [loop EXCEPT ![i] = [at |-> "select", chan |-> ui.chan]]

\* Mutant of RefreshStatus: the channel is drained after the state was read.
RefreshStatus_DrainsLate(i) ==
    /\ loop[i].at = "read" /\ Back(i)
    /\ slot' = [slot EXCEPT ![ui.chan] = FALSE]
    /\ IF ui.client = 0 THEN UNCHANGED <<posted, ui>>
       ELSE /\ Post([kind |-> "status", state |-> client[ui.client]])
            /\ UNCHANGED ui
    /\ UNCHANGED <<machinery, host, att, client, cancelled, tries, hasty>>

\* The state of the client the window has; Fyne also starts the save of the
\* configuration from here.
RefreshStatus(i) ==
    /\ loop[i].at = "read" /\ Back(i)
    /\ IF ui.client = 0 THEN UNCHANGED <<posted, ui>>
       ELSE /\ Post([kind |-> "status", state |-> client[ui.client]])
            /\ ui' = IF kit = "fyne" /\ client[ui.client] = "connected"
                     THEN [ui EXCEPT !.autoSaveDone = TRUE] ELSE ui
    /\ UNCHANGED <<machinery, host, att, client, cancelled, slot, tries, hasty>>

-------------------------------------------------------------------------------
(* The UI thread. *)

Dot(s) == IF s = "connected" THEN "green" ELSE IF s = "connecting" THEN "yellow" ELSE "red"

\* Walk: the save starts from the closure.
ShowStatus(s) ==
    ui' = [ui EXCEPT !.dot = Dot(s),
                     !.autoSaveDone = @ \/ (kit = "walk" /\ s = "connected")]

\* Mutant of ShowError: Connect stays disabled.
ShowError_NoRetry ==
    ui' = [ui EXCEPT !.disconnectOn = FALSE, !.dot = IF kit = "walk" THEN @ ELSE "red"]

\* Walk leaves the dot; seema and bmgarage have no button to enable.
ShowError ==
    ui' = [ui EXCEPT !.connectOn = kit # "mini", !.disconnectOn = FALSE,
                     !.dot = IF kit = "walk" THEN @ ELSE "red"]

RunClosure ==
    /\ posted # <<>>
    /\ posted' = Tail(posted)
    /\ IF Head(posted).kind = "error" THEN ShowError ELSE ShowStatus(Head(posted).state)
    /\ UNCHANGED <<machinery, host, att, client, cancelled, slot, loop, tries, hasty>>

\* Mutant of onDisconnect: the client is stopped, its adapter stays open.
onDisconnect_KeepsFramer ==
    /\ ui.disconnectOn /\ (Undecided => set.early)
    /\ cancelled' = cancelled \cup ({ui.cancel, ui.client} \ {0})
    /\ ui' = [ui EXCEPT !.client = 0, !.framer = 0, !.dot = "grey", !.autoSaveDone = FALSE,
                        !.connectOn = TRUE, !.disconnectOn = FALSE]
    /\ hasty' = (hasty \/ Undecided)
    /\ UNCHANGED <<machinery, host, att, client, slot, loop, posted, tries>>

\* Cancel, Stop, Close, and the buttons the other way round.  What an attempt
\* that is still opening will leave in the fields, nobody ends.
onDisconnect ==
    /\ ui.disconnectOn /\ (Undecided => set.early)
    /\ cancelled' = cancelled \cup ({ui.cancel, ui.client} \ {0})
    /\ att' = [i \in Attempts |-> IF i = ui.framer THEN [att[i] EXCEPT !.held = FALSE] ELSE att[i]]
    /\ ui' = [ui EXCEPT !.client = 0, !.framer = 0, !.dot = "grey", !.autoSaveDone = FALSE,
                        !.connectOn = TRUE, !.disconnectOn = FALSE]
    /\ hasty' = (hasty \/ Undecided)
    /\ UNCHANGED <<machinery, host, client, slot, loop, posted, tries>>

\* The wizard of the embedded installer, when there is no capture driver.
InstallNpcap ==
    /\ kit # "mini" /\ set.machine.installer /\ host.pcap = "absent"
    /\ host' = [host EXCEPT !.pcap = "works"]
    /\ UNCHANGED <<machinery, att, client, cancelled, slot, loop, ui, posted, tries, hasty>>

-------------------------------------------------------------------------------

Attempt(i) == Open(i) \/ Launch(i)
Client(i)  == ClientStep(i) \/ ClientEnds(i)
Loop(i)    == TakeToken(i) \/ LoopEnds(i) \/ RefreshStatus(i)

Next ==
    \/ onConnect \/ onDisconnect \/ InstallNpcap \/ RunClosure
    \/ \E i \in Attempts : Attempt(i) \/ Client(i) \/ Loop(i)

\* Goroutines go on and the UI thread runs what is posted; nobody has to press
\* a button, and no session has to come about.
Fairness ==
    /\ WF_vars(RunClosure)
    /\ \A i \in Attempts : WF_vars(Attempt(i)) /\ WF_vars(ClientEnds(i)) /\ WF_vars(Loop(i))

Spec == Init /\ [][Next]_vars /\ Fairness

-------------------------------------------------------------------------------
(* Properties *)

Running(i) == att[i].at = "live" /\ i \notin cancelled

\* Where Connect is offered and nothing is in the making, no client runs and
\* no adapter is held, unless Disconnect came before an attempt was decided.
DisconnectedMeansStopped ==
    kit # "mini" /\ ui.connectOn /\ Opening = {} /\ ~hasty =>
        Used = {} /\ \A i \in Attempts : ~Running(i)

\* However the session flaps, once it holds the window says so: no report of
\* the last change is lost between the client, the slot, the loop and the UI.
StatusCatchesUp ==
    <>[](~hasty /\ ui.client # 0 /\ client[ui.client] = "connected")
        => <>[](ui.dot = "green" /\ (kit # "mini" => ui.autoSaveDone))

\* An attempt that found no adapter leaves the user a way to try again.
CanTryAgain ==
    \A i \in Attempts : (kit # "mini" /\ i = tries /\ att[i].at = "failed") ~> (ui.connectOn \/ tries > i)

\* What is captured is what the settings and the machine allow, whatever fails:
\* Radmin VPN's adapter is never captured nor put into a Windows bridge; direct
\* captures no card; bridge never goes direct unless the card that was named is
\* not there.
CapturesAsConfigured ==
    /\ host.bound \cap RadminNics = {}
    /\ \A i \in Attempts :
          /\ att[i].mode = "bridge" => ~IsExcludedFromBridge(att[i].nic)
          /\ set.cfg.mode = "direct" => att[i].mode # "bridge"
          /\ set.cfg.mode = "bridge" /\ att[i].mode = "direct" =>
                 set.cfg.nic # "" /\ InterfaceByName(set.machine, set.cfg.nic) = {}
===============================================================================
