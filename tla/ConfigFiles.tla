----------------------------- MODULE ConfigFiles ------------------------------
(***************************************************************************)
(* The configuration files of the client's windows: which one is loaded,    *)
(* what the automatic save after a connect writes into which file, what the *)
(* next start shows, and how the list of hubs that the server sends lands   *)
(* on the hub a file asks for.                                              *)
(*                                                                          *)
(* program is "walk" or "fyne".  A configuration is a server, a hub and     *)
(* owner, the file these settings belong to; the other settings travel with *)
(* them.  A save empties its file before it writes, and the program may be  *)
(* killed at any moment.  A dialog is one step with what its answer does.   *)
(***************************************************************************)
EXTENDS SequencesExt, FiniteSets, Integers

CONSTANTS
    Programs,    \* the programs an instance looks at
    Files,       \* where a configuration may be
    Base,        \* the file name of each, without its directory
    Found,       \* the files in a directory initConfigSelect searches
    Default,     \* where a save without a path goes, client.toml
    Initial,     \* what is on the disk at first
    Preset,      \* the first of predefinedServers
    Hubs,        \* the hubs each server lists, in its order
    Nothing,     \* no file, no server, no hub list
    MaxActs,     \* bound: things the user does and crashes
    MaxFetches   \* bound: hub lists asked for at a time

Absent == [server |-> Nothing, hub |-> 0, owner |-> "absent"]
Broken == [server |-> Nothing, hub |-> 0, owner |-> "broken"]

VARIABLES
    program,           \* the one that runs, or will
    disk, last,        \* the files; the last used one, or Nothing
    on, path,          \* is it running; ui.configPath, or Nothing
    w,                 \* the widgets: a configuration; hub 0 is an empty text
    pending, listed,   \* pendingHubID; the server whose hubs are in the combo
    byBase,            \* configFilePaths, of the names without a directory
    fetch,             \* hub lists asked for: Nothing, or the server read
    save,              \* the automatic save: NoSave, or where it is
    closures,          \* what is posted to the UI thread
    acts,
    switched,          \* history: the file was changed during a save
    want               \* history: the hub a load asked for, or 0

hubVars == <<pending, listed, fetch, want>>
filesVars == <<program, disk, last, on, path, w, byBase, save, closures, acts, switched, hubVars>>

NoSave == [at |-> "none"]
Readable(d, f) == f # Nothing /\ d[f] \notin {Absent, Broken}

Bases == {Base[f] : f \in Files}

\* Settings, and settings that were saved, which name a hub.
Config == [server : DOMAIN Hubs, hub : Nat, owner : Files \cup {Nothing}]
Stored == [server : DOMAIN Hubs, hub : Nat \ {0}, owner : Files \cup {Nothing}]

\* Every server lists hubs, and hub 0 is none.  At first the settings in a file
\* are its own.
ASSUME FilesAssumption ==
    /\ Programs \subseteq {"walk", "fyne"}
    /\ Nothing \notin Files /\ Default \in Files /\ Found \subseteq Files
    /\ Nothing \notin DOMAIN Hubs /\ Preset \in DOMAIN Hubs
    /\ \A s \in DOMAIN Hubs : Hubs[s] \in Seq(Nat \ {0}) /\ Hubs[s] # <<>>
    /\ Initial \in [Files -> Stored \cup {Absent, Broken}]
    /\ \A f \in Files : Initial[f] \notin {Absent, Broken} => Initial[f].owner = f

-------------------------------------------------------------------------------
(* Reading and writing files. *)

\* ParseClientConfig fills in defaults, which the settings here never need.
ParseClientConfig(f) == disk[f]

\* Mutant of buildConfig: an empty hub is hub 1.
buildConfig_HubOne ==
    [server |-> w.server, owner |-> w.owner, hub |-> IF w.hub # 0 THEN w.hub ELSE 1]

\* WithDefaults and the text fields: an empty hub is the pending one, else 1.
buildConfig ==
    [server |-> w.server, owner |-> w.owner,
     hub |-> IF w.hub # 0 THEN w.hub ELSE IF pending # 0 THEN pending ELSE 1]

\* Walk: SetText does not last on a combo that has no list, and need not on
\* one that has; pendingHubID remembers.  Fyne has a plain text field.
populateHub(cfg) ==
    IF program = "fyne" THEN w' = cfg /\ UNCHANGED pending
    ELSE /\ w' \in {[cfg EXCEPT !.hub = h] : h \in IF listed = Nothing THEN {0}
                                                   ELSE {w.hub, cfg.hub}}
         /\ pending' = cfg.hub

\* Walk asks the server for its hubs.
startFetch(q) == fetch' = IF program = "walk" THEN Append(q, Nothing) ELSE q

populateFromConfig(cfg) ==
    /\ populateHub(cfg)
    /\ Len(fetch) < MaxFetches /\ startFetch(fetch)
    /\ want' = IF fetch = <<>> THEN cfg.hub ELSE 0
    /\ UNCHANGED listed

\* Mutant of Load: the path stays that of the file before.
Load_KeepsPath(f) ==
    IF Readable(disk, f)
    THEN populateFromConfig(ParseClientConfig(f)) /\ last' = f /\ UNCHANGED path
    ELSE UNCHANGED <<w, path, last, hubVars>>

\* What selecting a file does; one that cannot be read changes nothing.
Load(f) ==
    IF Readable(disk, f)
    THEN populateFromConfig(ParseClientConfig(f)) /\ path' = f /\ last' = f
    ELSE UNCHANGED <<w, path, last, hubVars>>

-------------------------------------------------------------------------------
(* The start. *)

\* The last used file if it is still there, else the only one there is.
\* Nothing in the searched directories: not even the last used one.
autoSelect(d, l) ==
    LET found == {f \in Found : d[f] # Absent}
        names == found \cup {f \in {l} \ {Nothing} : d[f] # Absent}
    IN  IF found = {} THEN Nothing
        ELSE IF l \in names THEN l
        ELSE IF Cardinality(names) = 1 THEN CHOOSE f \in names : TRUE
        ELSE Nothing

\* Two found files of one name are listed with their directories; the last
\* used one joins under its name, if that is free.
NamesFound(d, l) ==
    [b \in Bases |->
        LET same == {f \in Found : d[f] # Absent /\ Base[f] = b}
        IN  IF same # {} THEN IF Cardinality(same) = 1 THEN CHOOSE f \in same : TRUE ELSE Nothing
            ELSE IF l # Nothing /\ Base[l] = b /\ d[l] # Absent THEN l ELSE Nothing]

Blank == [server |-> Preset, hub |-> IF program = "fyne" THEN 1 ELSE 0, owner |-> Nothing]

FilesInit ==
    /\ program \in Programs /\ disk = Initial /\ last = Nothing
    /\ on = FALSE /\ path = Nothing /\ w = Blank
    /\ pending = 0 /\ listed = Nothing /\ fetch = <<>> /\ want = 0
    /\ byBase = [b \in Bases |-> Nothing]
    /\ save = NoSave /\ closures = <<>> /\ acts = 0 /\ switched = FALSE

\* initConfigSelect.  Walk loads its choice twice, as the combo changes and
\* by a call, so two hub lists are on their way.
Start ==
    /\ ~on /\ on' = TRUE
    /\ byBase' = NamesFound(disk, last)
    /\ LET f == autoSelect(disk, last)
       IN  IF Readable(disk, f)
           THEN /\ w' = IF program = "fyne" THEN disk[f] ELSE [disk[f] EXCEPT !.hub = 0]
                /\ pending' = IF program = "fyne" THEN 0 ELSE disk[f].hub
                /\ fetch' = IF program = "fyne" THEN <<>> ELSE <<Nothing, Nothing>>
                /\ path' = f /\ last' = f
           ELSE UNCHANGED <<w, pending, fetch, path, last>>
    /\ UNCHANGED <<program, disk, save, closures, acts, switched, listed, want>>

\* The process ends; what is on the disk stays as it is.
Gone ==
    /\ on' = FALSE /\ path' = Nothing /\ w' = Blank
    /\ pending' = 0 /\ listed' = Nothing /\ fetch' = <<>> /\ want' = 0
    /\ save' = NoSave /\ closures' = <<>>
    /\ UNCHANGED <<program, byBase, switched>>

Act == on /\ acts < MaxActs /\ acts' = acts + 1

\* The record of the last used file is emptied before it is written, too.
Crash ==
    /\ Act /\ Gone /\ UNCHANGED disk
    /\ last' \in {last} \cup (IF save.at = "record" THEN {Nothing} ELSE {})

-------------------------------------------------------------------------------
(* What the user does.  Closures that are posted run before the next click. *)

Saving == save # NoSave \/ closures # <<>>
Click  == Act /\ switched' = (switched \/ Saving)

\* onConfigSelected, and the handler of the Fyne list.
Select(f) ==
    /\ Click /\ disk[f] # Absent /\ Load(f)
    /\ UNCHANGED <<program, disk, on, byBase, save, closures>>

Name(f) == [byBase EXCEPT ![Base[f]] = IF @ = Nothing THEN f ELSE @]

\* Walk keeps the handler quiet while it selects the name in the list; Fyne
\* lets it run, and a file of the same name takes over.
onBrowseConfig(f) ==
    /\ Click /\ Readable(disk, f)
    /\ byBase' = Name(f)
    /\ LET g == byBase'[Base[f]]
       IN  Load(IF program = "fyne" /\ Readable(disk, g) THEN g ELSE f)
    /\ UNCHANGED <<program, disk, on, save, closures>>

\* os.Create empties the file, Encode fills it.
Written(f) == [disk EXCEPT ![f] = [buildConfig EXCEPT !.owner = f]]

\* Save as: from now on the settings belong to that file.
onSaveConfig(f) ==
    /\ Click
    /\ disk' = Written(f) /\ byBase' = Name(f)
    /\ LET g == byBase'[Base[f]]
       IN  IF program = "fyne" /\ g # f /\ Readable(disk, g) THEN Load(g)
           ELSE w' = [w EXCEPT !.owner = f] /\ path' = f /\ last' = f /\ UNCHANGED hubVars
    /\ UNCHANGED <<program, on, save, closures>>

\* The disk is full, or the process is killed in the middle.
SaveBreaks(f) ==
    /\ disk' = [disk EXCEPT ![f] = Broken]
    /\ \/ Act /\ Gone /\ UNCHANGED last
       \/ Click /\ UNCHANGED <<program, last, on, path, w, byBase, save, closures, hubVars>>

\* A server is typed or picked; Walk asks it for its hubs.
EditServer(s) ==
    /\ Act /\ s # w.server
    /\ w' = [w EXCEPT !.server = s]
    /\ Len(fetch) < MaxFetches /\ startFetch(fetch)
    /\ want' = 0
    /\ UNCHANGED <<program, disk, last, on, path, byBase, save, closures, switched, pending, listed>>

\* Walk: from the list; Fyne: any number.
EditHub(h) ==
    /\ Act /\ h # w.hub
    /\ program = "walk" => listed # Nothing /\ h \in ToSet(Hubs[listed])
    /\ w' = [w EXCEPT !.hub = h] /\ want' = 0
    /\ UNCHANGED <<program, disk, last, on, path, byBase, save, closures, switched, pending, listed, fetch>>

-------------------------------------------------------------------------------
(* The automatic save, once per connect. *)

\* Walk builds the configuration on the UI thread and reads the path later, in
\* a goroutine; Fyne posts a closure that takes both.
Connected ==
    /\ Act /\ save = NoSave
    /\ save' = IF program = "walk" THEN [at |-> "path", cfg |-> buildConfig, path |-> Nothing]
               ELSE [at |-> "snap"]
    /\ closures' = IF program = "walk" THEN closures ELSE Append(closures, [kind |-> "snap"])
    /\ UNCHANGED <<program, disk, last, on, path, w, byBase, switched, hubVars>>

ToDefault(p) == IF p = Nothing THEN Default ELSE p

SavePath ==
    /\ on /\ save.at = "path"
    /\ save' = [save EXCEPT !.at = "create", !.path = ToDefault(path)]
    /\ UNCHANGED <<program, disk, last, on, path, w, byBase, closures, acts, switched, hubVars>>

SaveCreate ==
    /\ on /\ save.at = "create"
    /\ disk' = [disk EXCEPT ![save.path] = Broken]
    /\ save' = [save EXCEPT !.at = "encode"]
    /\ UNCHANGED <<program, last, on, path, w, byBase, closures, acts, switched, hubVars>>

\* Settings that belong to no file yet belong to the one they are saved in.
Owned(cfg, f) == [cfg EXCEPT !.owner = IF @ = Nothing THEN f ELSE @]

SaveEncode ==
    /\ on /\ save.at = "encode"
    /\ disk' = [disk EXCEPT ![save.path] = Owned(save.cfg, save.path)]
    /\ save' = [save EXCEPT !.at = "record"]
    /\ UNCHANGED <<program, last, on, path, w, byBase, closures, acts, switched, hubVars>>

\* Mutant of SaveRecord: the last used file is not recorded.
SaveRecord_Forgets ==
    /\ on /\ save.at = "record"
    /\ closures' = Append(closures, [kind |-> "path", path |-> save.path])
    /\ save' = NoSave
    /\ UNCHANGED <<program, disk, last, on, path, w, byBase, acts, switched, hubVars>>

\* The record of the last used file comes after the file, the window after both.
SaveRecord ==
    /\ on /\ save.at = "record"
    /\ last' = save.path
    /\ closures' = Append(closures, [kind |-> "path", path |-> save.path])
    /\ save' = NoSave
    /\ UNCHANGED <<program, disk, on, path, w, byBase, acts, switched, hubVars>>

\* os.Create or Encode fails; that is logged, or not even that.
SaveFails ==
    /\ on /\ save.at \in {"create", "encode"} /\ save' = NoSave
    /\ UNCHANGED <<program, disk, last, on, path, w, byBase, closures, acts, switched, hubVars>>

-------------------------------------------------------------------------------
(* fetchAndPopulateHubs. *)

\* The goroutine reads the server field when it gets to run.
FetchReads(k) ==
    /\ fetch[k] = Nothing
    /\ fetch' = [fetch EXCEPT ![k] = w.server]
    /\ UNCHANGED <<program, disk, last, on, path, w, byBase, save, closures, acts, switched, pending, listed, want>>

\* The server answers, or never: then the combo stays as it is.
FetchEnds(k) ==
    /\ fetch[k] # Nothing /\ fetch' = RemoveAt(fetch, k)
    /\ \/ closures' = Append(closures, [kind |-> "hubs", server |-> fetch[k]]) /\ UNCHANGED want
       \/ closures' = closures /\ want' = 0
    /\ UNCHANGED <<program, disk, last, on, path, w, byBase, save, acts, switched, pending, listed>>

\* The closure: the list replaces the old one, whose text may be lost with it;
\* then the pending hub, else the one in the text, else the first.
ShowHubs(s) ==
    /\ listed' = s /\ pending' = 0
    /\ \E text \in {w.hub, 0} :
          LET target == IF pending # 0 THEN pending ELSE text
          IN  w' = [w EXCEPT !.hub = IF target \in ToSet(Hubs[s]) THEN target ELSE Head(Hubs[s])]
    /\ want' = IF s = w.server /\ want \in ToSet(Hubs[s]) /\ pending # 0 THEN want ELSE 0

\* A save is over: its file is the one that is open, and in the list.
ShowPath(p) ==
    /\ path' = p
    /\ w' = [w EXCEPT !.owner = IF @ = Nothing THEN p ELSE @]
    /\ byBase' = IF program = "walk" THEN Name(p) ELSE byBase

RunFilesClosure ==
    /\ closures # <<>> /\ closures' = Tail(closures)
    /\ LET c == Head(closures)
       IN  \/ /\ c.kind = "snap"
              /\ save' = [at |-> "create", cfg |-> buildConfig, path |-> ToDefault(path)]
              /\ UNCHANGED <<path, w, byBase, hubVars>>
           \/ c.kind = "path" /\ ShowPath(c.path) /\ UNCHANGED <<save, hubVars>>
           \/ c.kind = "hubs" /\ ShowHubs(c.server) /\ UNCHANGED <<path, byBase, save, fetch>>
    /\ UNCHANGED <<program, disk, last, on, acts, switched>>

-------------------------------------------------------------------------------

User ==
    \/ \E f \in Files : Select(f) \/ onBrowseConfig(f) \/ onSaveConfig(f) \/ SaveBreaks(f)
    \/ \E s \in DOMAIN Hubs : EditServer(s)
    \/ \E h \in UNION {ToSet(Hubs[s]) : s \in DOMAIN Hubs} : EditHub(h)
    \/ Connected

FilesNext ==
    \/ Start \/ Crash \/ User
    \/ SavePath \/ SaveCreate \/ SaveEncode \/ SaveRecord \/ SaveFails
    \/ \E k \in DOMAIN fetch : FetchReads(k) \/ FetchEnds(k)
    \/ RunFilesClosure

FilesSpec == FilesInit /\ [][FilesNext]_filesVars

-------------------------------------------------------------------------------
(* Properties *)

\* The automatic save never puts the settings of one file into another, unless
\* the user changed files while a save was on its way.
SavesToItsOwnFile ==
    ~switched => \A f \in Files : Readable(disk, f) => disk[f].owner = f

\* A process that ends, at any step of a save too, leaves a record of the last used
\* file and files from which the next start selects the file that was open.  Not
\* covered: a program that has no file open, as before the first save is announced; a
\* file that the end left unreadable; no file in the searched directories; a record
\* lost because the end came while it was written; and a user who changed files
\* during a save, whose closure then brings the path of the former file back.
ReopensWhatIsOpen ==
    [][on /\ ~on' /\ ~switched /\ Readable(disk', path) /\ (\E f \in Found : disk'[f] # Absent)
           => \/ autoSelect(disk', last') = path
              \/ save.at = "record" /\ last' = Nothing]_filesVars

\* The hub a loaded file asks for is the one a connect uses, before any list of
\* hubs has come and after it came, when the list has it and only one list was
\* asked for.
HubSurvivesDiscovery ==
    on /\ want # 0 /\ (listed = Nothing \/ (fetch = <<>> /\ closures = <<>>))
        => buildConfig.hub = want
===============================================================================
