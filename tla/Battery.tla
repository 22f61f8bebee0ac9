-------------------------------- MODULE Battery --------------------------------
(***************************************************************************)
(* The battery display of the two GUIs.  Reports about the car, which       *)
(* Discovery makes, reach the UI thread as closures; they start and stop    *)
(* goroutines that poll the car's DME and post the label.                   *)
(*                                                                          *)
(* app is "walk" (Windows) or "fyne".  A read is one step: what the DME     *)
(* does about its requests is a script, one word per request.               *)
(***************************************************************************)
EXTENDS VinDecode, SequencesExt

CONSTANTS
    Cars,        \* the cars: a VIN, an ip, and built, "F" or "G"
    Series,      \* chassis code -> its first letter
    GSeriesPlatforms,
    DmeScripts,  \* what the DME may do about the requests of one read
    Polls,       \* bound: poll goroutines at the same time
    MaxQueued    \* bound: closures queued for the UI thread

VARIABLES
    app, reported,     \* the GUI; the last report of Discovery
    queued,            \* closures for the UI thread
    shown, checked,    \* lastZGWInfo; the battery check box
    batteryIP, poll,   \* the car polled; the poll that batteryCancel cancels
    polls, label,      \* the poll goroutines; what the battery label is about
    unheard,           \* history: a configuration changed the box unnoticed
    late               \* history: a label update was under way at a cancel

batteryVars == <<app, reported, queued, shown, checked, batteryIP, poll, polls, label, unheard, late>>

Bare == [ip |-> "nic", vin |-> None, chassis |-> "", platform |-> ""]
InfoOf(c) ==
    LET d == decodeVIN(c)
    IN  [ip |-> c.ip, vin |-> c, chassis |-> d.chassis, platform |-> platformForChassis(d.chassis)]
Reports == {None, Bare} \cup {InfoOf(c) : c \in Cars}
NoVin(info) == IF info = None THEN TRUE ELSE info.vin = None

IsGSeries(platform) == platform \in GSeriesPlatforms

\* An address is one car's, and the tables know the generation of the cars they
\* know.
ASSUME BatteryAssumption ==
    /\ None \notin Polls
    /\ \A c, d \in Cars : c.ip = d.ip => c = d
    /\ \A c \in Cars : InfoOf(c).chassis # "" => IsGSeries(InfoOf(c).platform) = (c.built = "G")

Idle == [pc |-> "none", ip |-> "", platform |-> "", live |-> FALSE, held |-> <<>>]

BatteryInit ==
    /\ app \in {"walk", "fyne"} /\ reported = None /\ queued = <<>>
    /\ shown = None /\ checked = TRUE /\ batteryIP = "" /\ poll = None
    /\ polls = [p \in Polls |-> Idle] /\ label = ""
    /\ unheard = FALSE /\ late = FALSE

\* onChange: a report that differs from the one before is posted.
Report ==
    /\ Len(queued) < MaxQueued
    /\ \E info \in Reports \ {reported} :
          reported' = info /\ queued' = Append(queued, [op |-> "info", info |-> info])
    /\ UNCHANGED <<app, shown, checked, batteryIP, poll, polls, label, unheard, late>>

-------------------------------------------------------------------------------
(* The UI thread. *)

\* Only F- and G-series cars have battery DIDs.
batteryTarget(info) ==
    IF NoVin(info) THEN [ip |-> "", platform |-> ""]
    ELSE IF info.chassis = "" \/ Series[info.chassis] \notin {"F", "G"}
    THEN [ip |-> "", platform |-> ""]
    ELSE [ip |-> info.ip, platform |-> info.platform]

\* batteryCancel: the poll goes on until it looks at its context.
Cancelled == IF poll = None THEN polls ELSE [polls EXCEPT ![poll].live = FALSE]

\* A label update of the poll is on its way, or will be.
StaleLabel ==
    /\ poll # None
    /\ polls[poll].pc = "read" \/ \E i \in DOMAIN queued : queued[i].op = "label"

\* A new poll, among the goroutines in ps.
StartPoll(t, ps) ==
    \E p \in Polls :
        /\ polls[p].pc = "none"
        /\ polls' = [ps EXCEPT ![p] = [Idle EXCEPT !.pc = "read", !.ip = t.ip,
                                                   !.platform = t.platform, !.live = TRUE]]
        /\ poll' = p /\ label' = "reading"

StopPoll == poll' = None /\ polls' = Cancelled /\ label' = ""

\* Mutant of updateBattery: the old poll is not cancelled.
updateBattery_Leaks(info, ip) ==
    LET t == batteryTarget(info) IN
    IF ~checked \/ t.ip = ip THEN batteryIP' = ip /\ UNCHANGED <<poll, polls, label, late>>
    ELSE /\ batteryIP' = t.ip /\ late' = (late \/ StaleLabel)
         /\ IF t.ip = "" THEN StopPoll ELSE StartPoll(t, polls)

\* Mutant of updateBattery: a car that is gone is not a reason to stop.
updateBattery_Sticks(info, ip) ==
    LET t == batteryTarget(info) IN
    IF ~checked \/ t.ip \in {ip, ""} THEN batteryIP' = ip /\ UNCHANGED <<poll, polls, label, late>>
    ELSE /\ batteryIP' = t.ip /\ late' = (late \/ StaleLabel) /\ StartPoll(t, Cancelled)

\* Polling is switched to another address, or off.  ip is batteryIP.
updateBattery(info, ip) ==
    LET t == batteryTarget(info) IN
    IF ~checked \/ t.ip = ip THEN batteryIP' = ip /\ UNCHANGED <<poll, polls, label, late>>
    ELSE /\ batteryIP' = t.ip /\ late' = (late \/ StaleLabel)
         /\ IF t.ip = "" THEN StopPoll ELSE StartPoll(t, Cancelled)

\* Fyne leaves the battery alone unless the report has a VIN.
updateBMW(info) ==
    IF NoVin(info) THEN UNCHANGED <<batteryIP, poll, polls, label, late>>
    ELSE updateBattery(info, batteryIP)

\* The closure that shows a report.
ShowReport ==
    /\ queued # <<>> /\ Head(queued).op = "info"
    /\ queued' = Tail(queued) /\ shown' = Head(queued).info
    /\ IF app = "walk" THEN updateBattery(shown', batteryIP) ELSE updateBMW(shown')
    /\ UNCHANGED <<app, reported, checked, unheard>>

\* The closure that sets the label.
ShowLabel ==
    /\ queued # <<>> /\ Head(queued).op = "label"
    /\ queued' = Tail(queued) /\ label' = Head(queued).ip
    /\ UNCHANGED <<app, reported, shown, checked, batteryIP, poll, polls, unheard, late>>

\* The user clears the check box ...
PollingOff ==
    /\ checked /\ checked' = FALSE
    /\ StopPoll /\ late' = (late \/ StaleLabel)
    /\ batteryIP' = IF app = "walk" THEN "" ELSE batteryIP
    /\ UNCHANGED <<app, reported, queued, shown, unheard>>

\* ... or ticks it: Walk starts from the last report ...
PollingOn ==
    /\ app = "walk" /\ ~checked /\ checked' = TRUE
    /\ LET t == batteryTarget(shown) IN
       IF t.ip = "" THEN batteryIP' = "" /\ UNCHANGED <<poll, polls, label, late>>
       ELSE batteryIP' = t.ip /\ late' = (late \/ StaleLabel) /\ StartPoll(t, Cancelled)
    /\ UNCHANGED <<app, reported, queued, shown, unheard>>

\* ... and Fyne waits for the next one.
PollingOnFyne ==
    /\ app = "fyne" /\ ~checked /\ checked' = TRUE
    /\ batteryIP' = ""
    /\ UNCHANGED <<app, reported, queued, shown, poll, polls, label, unheard, late>>

\* A configuration sets the box; Walk runs no handler for that.
populateBatteryBox ==
    /\ app = "walk"
    /\ checked' = ~checked /\ unheard' = TRUE
    /\ UNCHANGED <<app, reported, queued, shown, batteryIP, poll, polls, label, late>>

-------------------------------------------------------------------------------
(* The poll goroutines. *)

\* The fields read from a G-series car and the DIDs they come from ...
readG == << <<"soc", "40AD">>, <<"voltage", "40C3">>, <<"ageing", "40B5">> >>

\* ... and from an F-series car.
readF == << <<"soc", "4023">>, <<"voltage", "4022">> >>

DidsOf(platform) == IF IsGSeries(platform) THEN readG ELSE readF

\* What the DME sends: after the echo of the request the data, a refusal, data
\* after "response pending", or nothing more.
Frames(did, how) ==
    CASE how = "ok"      -> <<"ack", did>>
      [] how = "refused" -> <<"ack", "nrc">>
      [] how = "pending" -> <<"ack", "nrc", did>>
      [] OTHER           -> <<"ack">>

\* Mutant of readDID: the echo is taken for the answer.
readDID_EchoIsAnswer(inbox) ==
    [data |-> IF Head(inbox) \in {"ack", "nrc"} THEN "error" ELSE Head(inbox),
     rest |-> Tail(inbox)]

\* readDID takes the first of three frames that is not an echo, and does not
\* look which DID it is about.
readDID(inbox) ==
    LET answers == {i \in DOMAIN inbox : i <= 3 /\ inbox[i] # "ack"}
        i == CHOOSE k \in answers : \A j \in answers : k <= j
    IN  CASE answers # {} -> [data |-> IF inbox[i] = "nrc" THEN "error" ELSE inbox[i],
                              rest |-> SubSeq(inbox, i + 1, Len(inbox))]
          [] answers = {} /\ Len(inbox) >= 3 -> [data |-> "error", rest |-> SubSeq(inbox, 4, Len(inbox))]
          [] OTHER -> [data |-> "timeout", rest |-> <<>>]

\* One request.  After a timeout the deadline of the connection has passed.
Ask(s, did, how) ==
    IF s.dead THEN s
    ELSE LET r == readDID(s.inbox \o Frames(did, how))
         IN  [inbox |-> r.rest, dead |-> r.data = "timeout", got |-> Append(s.got, r.data)]

\* The answers to a script's requests, one after the other.
Answers(dids, how) ==
    LET after[n \in 0..Len(dids)] ==
            IF n = 0 THEN [inbox |-> <<>>, dead |-> FALSE, got |-> <<>>]
            ELSE Ask(after[n - 1], dids[n][2], how[n])
    IN  after[Len(dids)].got

\* A request before the i-th was answered "response pending".
Pended(how, i) == \E k \in 1..(i - 1) : how[k] = "pending"

\* Read: the fields that were answered, each with the DID of its data and, as history,
\* what Pended says of its request.
Read(platform, how) ==
    LET dids == DidsOf(platform)
        got  == Answers(dids, how)
        good == {i \in DOMAIN got : got[i] \notin {"timeout", "error"}}
        At(f) == CHOOSE i \in good : dids[i][1] = f
    IN  [f \in {dids[i][1] : i \in good} |-> [did |-> got[At(f)], pended |-> Pended(how, At(f))]]

\* What a read of a car may return.
Outcomes ==
    [platform \in {InfoOf(c).platform : c \in Cars} |-> {Read(platform, how) : how \in DmeScripts}]

\* Each field keeps its last good value.
merge(held, fresh) ==
    [f \in DOMAIN held \cup DOMAIN fresh |-> IF f \in DOMAIN fresh THEN fresh[f] ELSE held[f]]

\* Poll's tick: a read that is answered somehow, or not; StickyPoll posts the
\* label either way, cancelled or not.
StickyPoll(p) ==
    /\ polls[p].pc = "read" /\ Len(queued) < MaxQueued
    /\ \/ \E fresh \in Outcomes[polls[p].platform] :
            polls' = [polls EXCEPT ![p].pc = "wait", ![p].held = merge(@, fresh)]
       \/ polls' = [polls EXCEPT ![p].pc = "wait"]
    /\ queued' = Append(queued, [op |-> "label", ip |-> polls[p].ip])
    /\ UNCHANGED <<app, reported, shown, checked, batteryIP, poll, label, unheard, late>>

\* Poll: the ticker fires, which may also be chosen after the cancel ...
PollTick(p) ==
    /\ polls[p].pc = "wait"
    /\ polls' = [polls EXCEPT ![p].pc = "read"]
    /\ late' = (late \/ ~polls[p].live)
    /\ UNCHANGED <<app, reported, queued, shown, checked, batteryIP, poll, label, unheard>>

\* ... or the goroutine sees that it was cancelled.
PollEnds(p) ==
    /\ polls[p].pc = "wait" /\ ~polls[p].live
    /\ polls' = [polls EXCEPT ![p] = Idle]
    /\ UNCHANGED <<app, reported, queued, shown, checked, batteryIP, poll, label, unheard, late>>

-------------------------------------------------------------------------------

BatteryNext ==
    \/ Report \/ ShowReport \/ ShowLabel
    \/ PollingOff \/ PollingOn \/ PollingOnFyne \/ populateBatteryBox
    \/ \E p \in Polls : StickyPoll(p) \/ PollTick(p) \/ PollEnds(p)

\* The UI thread runs its closures.  A read ends, by its deadline if nothing
\* else; of the two ready cases of Poll's select the cancel is taken sometime.
BatteryFairness ==
    /\ WF_batteryVars(ShowReport) /\ WF_batteryVars(ShowLabel)
    /\ \A p \in Polls : SF_batteryVars(StickyPoll(p)) /\ SF_batteryVars(PollEnds(p))

BatterySpec == BatteryInit /\ [][BatteryNext]_batteryVars /\ BatteryFairness

-------------------------------------------------------------------------------

\* A poll that runs is the one that can still be cancelled, also when the car
\* changes or configurations change the box behind the handlers' back; and it
\* asks the car at its address for the DIDs of that car's generation, also when
\* the type key was used for F-series cars and, later, for G-series ones.
PollFitsCar ==
    \A p \in Polls :
        /\ polls[p].live => poll = p
        /\ polls[p].pc # "none" =>
               \A c \in Cars : polls[p].ip = c.ip => IsGSeries(polls[p].platform) = (c.built = "G")

\* "Polled via ENET while the car is live": when the car is gone for good, Walk
\* stops polling and clears the label, unless a configuration changed the box
\* or a read was under way when the poll was cancelled.
PollStops ==
    <>[](app = "walk" /\ NoVin(reported) /\ checked /\ ~unheard /\ ~late)
        => <>[](label = "" /\ \A p \in Polls : ~polls[p].live)

\* A field has the data of its own DID: readDID does not look which DID an answer is
\* about, and a poll keeps fields of earlier reads.  The one way to other data is an
\* earlier request of the same read that was answered "response pending" (NRC 0x78):
\* the answer that follows stays in the connection, and the later fields get data of
\* earlier requests.  They never get those of a later request, of another poll's car
\* or of the other generation's DIDs.
FieldFromItsDid ==
    \A p \in Polls : \A f \in DOMAIN polls[p].held :
        LET dids == DidsOf(polls[p].platform)
            data == polls[p].held[f]
        IN  \E i \in DOMAIN dids : \E j \in 1..i :
                /\ dids[i][1] = f /\ dids[j][2] = data.did
                /\ j = i \/ data.pended
===============================================================================
