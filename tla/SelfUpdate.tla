------------------------------ MODULE SelfUpdate ------------------------------
(***************************************************************************)
(* How a client starts, finds out that there is a newer release, replaces   *)
(* its own binary and restarts itself, and the mirror that every server     *)
(* keeps for it.  Several processes of one program may start: in one logon  *)
(* session they find each other through a mutex, but they all share one     *)
(* directory with the binary, the .new file being written and the .old one. *)
(*                                                                          *)
(* kind is "gui" for the Windows programs (main GUI, seema, bmgarage) and   *)
(* "cli" for the command-line client on Unix, which has no mutex but kills  *)
(* the client whose number its pid file holds.  Reading, killing and        *)
(* writing the pid file is one step.  Versions are numbers; a file holds a  *)
(* version, nothing (None) or a piece of one (Partial).  Any process may    *)
(* end at any moment: its window is closed, it crashes, it is killed.       *)
(***************************************************************************)
EXTENDS Naturals, FiniteSets

CONSTANTS
    Pids,        \* bound: processes alive at the same time
    Sessions,    \* logon (RDP) sessions that use the same directory
    Mirrors,     \* servers that serve /update
    MaxVersion,  \* bound: releases b1 .. bMaxVersion
    MaxDepth,    \* bound: restarts in a row of the command-line client
    None, Partial

ASSUME SelfUpdateAssumption ==
    /\ MaxVersion \in Nat \ {0} /\ MaxDepth \in Nat
    /\ None \notin 1..MaxVersion /\ Partial \notin 1..MaxVersion /\ None # Partial
    /\ None \notin Pids

Versions == 1..MaxVersion

VARIABLES
    kind,       \* "gui" or "cli"
    exe,        \* the binary's file
    new,        \* exe.new
    old,        \* exe.old
    open,       \* processes that have exe.new open for writing
    proc,       \* the processes
    mutex,      \* "gui": per session, the process that owns it
    pidFile,    \* "cli": the process that supervpn-client.pid names
    released,   \* the latest release on GitHub
    srv,        \* per mirror: its version, .mirror-version, its client asset
    shared,     \* history: a process opened .new while another was using it
    swept,      \* history: .old was removed while there was no binary
    unguarded   \* history: processes that went on although CreateMutex failed

disk == <<exe, new, old>>
vars == <<kind, exe, new, old, open, proc, mutex, pidFile, released, srv, shared, swept, unguarded>>

Dead == [pc |-> "none"]
Alive == {p \in Pids : proc[p].pc # "none"}
Installing == {"copy", "apply", "moved"}

\* A process that starts from the binary on disk, with the environment env.
Process(s, env, depth) ==
    [pc |-> IF kind = "gui" THEN "admin" ELSE "guard",
     sess |-> s, env |-> env, ver |-> exe, image |-> "exe", clean |-> FALSE,
     tag |-> 0, stage |-> "github", left |-> {}, got |-> 0, depth |-> depth]

\* Windows neither removes nor replaces the file a process runs from.
Locked(file) == kind = "gui" /\ \E p \in Alive : proc[p].image = file

\* ... nor one that somebody has open.
Free(p) == kind = "cli" \/ open \ {p} = {}

Goto(p, pc) == proc' = [proc EXCEPT ![p].pc = pc]

-------------------------------------------------------------------------------

Init ==
    /\ kind \in {"gui", "cli"}
    /\ exe = 1 /\ new = None /\ old = None /\ open = {}
    /\ proc = [p \in Pids |-> Dead]
    /\ mutex = [s \in Sessions |-> None] /\ pidFile = None
    /\ unguarded = {}
    /\ released = 1
    /\ srv = [m \in Mirrors |-> [ver |-> 1, stamp |-> 1, asset |-> 1]]
    /\ shared = FALSE /\ swept = FALSE

Release ==
    /\ released < MaxVersion
    /\ released' = released + 1
    /\ UNCHANGED <<kind, disk, open, proc, mutex, unguarded, pidFile, srv, shared, swept>>

\* The asset is kept when .mirror-version names this version, and fetched
\* from GitHub otherwise; the stamp is written whether that worked or not.
checkUpdateAssets(m, v) ==
    \E fetched \in BOOLEAN :
        srv' = [srv EXCEPT ![m] =
            [ver |-> v, stamp |-> v,
             asset |-> IF @.stamp = v /\ @.asset # None THEN @.asset
                       ELSE IF fetched THEN v ELSE @.asset]]

\* A server starts, with the version it had or a later one.
ServerStart(m) ==
    /\ \E v \in srv[m].ver .. released : checkUpdateAssets(m, v)
    /\ UNCHANGED <<kind, disk, open, proc, mutex, unguarded, pidFile, released, shared, swept>>

\* GET /update/version and GET /update/{asset}, over HTTP or in-band.
handleVersion(m) == srv[m].ver
handleUpdateAsset(m) == srv[m].asset
handleUpdateGet(m) == srv[m].asset

-------------------------------------------------------------------------------

\* The user starts the program.
Launch(p, s) ==
    /\ proc[p].pc = "none" /\ exe \in Versions
    /\ proc' = [proc EXCEPT ![p] = Process(s, {}, 0)]
    /\ UNCHANGED <<kind, disk, open, mutex, unguarded, pidFile, released, srv, shared, swept>>

\* ensureAdmin: nothing to do, or tried before.
AlreadyElevated(p) ==
    /\ proc[p].pc = "admin"
    /\ proc[p].env \cap {"elevated", "tried"} # {}
    /\ Goto(p, "guard")
    /\ UNCHANGED <<kind, disk, open, mutex, unguarded, pidFile, released, srv, shared, swept>>

\* Mutant of RunasEnv: the attempt is not marked before it is made.
RunasEnv_Unmarked(env) == {{"elevated"}, env}

\* The environment of the process that ShellExecute "runas" starts: a fresh
\* one when UAC elevates, this process's own when UAC is switched off.
RunasEnv(env) == {{"elevated"}, env \cup {"tried"}}

\* ensureAdmin: the launcher is replaced by another process, or the user
\* says no (or there is no binary) and it goes on without elevation.
ensureAdmin(p) ==
    /\ proc[p].pc = "admin" /\ proc[p].env \cap {"elevated", "tried"} = {}
    /\ \/ /\ exe \in Versions
          /\ \E env \in RunasEnv(proc[p].env) :
                proc' = [proc EXCEPT ![p] = Process(@.sess, env, @.depth + 1)]
       \/ proc' = [proc EXCEPT ![p].pc = "guard", ![p].env = @ \cup {"tried"}]
    /\ UNCHANGED <<kind, disk, open, mutex, unguarded, pidFile, released, srv, shared, swept>>

Ended(p) == [proc EXCEPT ![p] = Dead]
Released(p) == [s \in Sessions |-> IF mutex[s] = p THEN None ELSE mutex[s]]

\* Past the guard: CleanupOldFiles and CheckAndUpdate start, except in the
\* successor that an update started, which does not check again.
Started(p) ==
    [proc EXCEPT ![p].pc = IF "relaunched" \in proc[p].env THEN "idle" ELSE "tag",
                 ![p].clean = TRUE]

\* Mutant of acquireSingleInstance: an instance that runs is not noticed.
acquireSingleInstance_Blind(p) ==
    /\ kind = "gui" /\ proc[p].pc = "guard" /\ "relaunched" \notin proc[p].env
    /\ mutex' = [mutex EXCEPT ![proc[p].sess] = p]
    /\ proc' = Started(p)
    /\ UNCHANGED <<kind, disk, open, pidFile, released, srv, shared, swept, unguarded>>

\* The first instance of a session goes on and another one exits; after any
\* other error of CreateMutex (access denied: the mutex is an elevated
\* process's) the program goes on without the mutex.
acquireSingleInstance(p) ==
    /\ kind = "gui" /\ proc[p].pc = "guard" /\ "relaunched" \notin proc[p].env
    /\ \/ /\ mutex[proc[p].sess] = None
          /\ mutex' = [mutex EXCEPT ![proc[p].sess] = p]
          /\ proc' = Started(p) /\ UNCHANGED unguarded
       \/ /\ mutex[proc[p].sess] # None
          /\ proc' = Ended(p) /\ UNCHANGED <<mutex, unguarded>>
       \/ proc' = Started(p) /\ unguarded' = unguarded \cup {p} /\ UNCHANGED mutex
    /\ UNCHANGED <<kind, disk, open, pidFile, released, srv, shared, swept>>

\* The successor waits for the mutex, and goes on without it in the end.
tryAcquireSingleInstance(p) ==
    /\ kind = "gui" /\ proc[p].pc = "guard" /\ "relaunched" \in proc[p].env
    /\ proc' = Started(p)
    /\ mutex' = IF mutex[proc[p].sess] = None
                THEN [mutex EXCEPT ![proc[p].sess] = p] ELSE mutex
    /\ UNCHANGED <<kind, disk, open, pidFile, released, srv, shared, swept, unguarded>>

\* The command-line client kills the one its pid file names, whatever it does.
killStaleClient(p) ==
    /\ kind = "cli" /\ proc[p].pc = "guard"
    /\ proc' = IF pidFile \in Pids \ {p} THEN [Started(p) EXCEPT ![pidFile] = Dead]
               ELSE Started(p)
    /\ open' = open \ {pidFile}
    /\ pidFile' = p
    /\ UNCHANGED <<kind, disk, mutex, unguarded, released, srv, shared, swept>>

\* A process ends, wherever it is; its handles and its mutex are closed.  Only
\* a client that is not killed removes its pid file.
End(p) ==
    /\ p \in Alive
    /\ proc' = Ended(p) /\ mutex' = Released(p) /\ open' = open \ {p}
    /\ unguarded' = unguarded \ {p}
    /\ pidFile' \in IF pidFile = p THEN {p, None} ELSE {pidFile}
    /\ UNCHANGED <<kind, disk, released, srv, shared, swept>>

\* One round of the background clean-up; it gives up after 30 of them.
CleanupOldFiles(p) ==
    /\ p \in Alive /\ proc[p].clean
    /\ \/ /\ ~Locked("old")
          /\ old' = None /\ swept' = (swept \/ (exe \notin Versions /\ old # None))
       \/ Locked("old") /\ UNCHANGED <<old, swept>>
    /\ proc' = [proc EXCEPT ![p].clean = FALSE]
    /\ UNCHANGED <<kind, exe, new, open, mutex, unguarded, pidFile, released, srv, shared>>

\* Another program of the family starts in the same directory.
SiblingCleanup ==
    /\ old # None /\ ~Locked("old")
    /\ old' = None /\ swept' = (swept \/ exe \notin Versions)
    /\ UNCHANGED <<kind, exe, new, open, proc, mutex, unguarded, pidFile, released, srv, shared>>

-------------------------------------------------------------------------------

\* What resolveLatestTag may return: GitHub's answer or, when GitHub does
\* not answer, a mirror's, over HTTP or in-band.
resolveLatestTag == {released} \cup {handleVersion(m) : m \in Mirrors}

\* CheckAndUpdate: a newer tag is found, or the program is up to date, or no
\* source answers.
CheckAndUpdate(p) ==
    /\ proc[p].pc = "tag"
    /\ \/ \E t \in resolveLatestTag :
            /\ t > proc[p].ver
            /\ proc' = [proc EXCEPT ![p].pc = "get", ![p].tag = t,
                                    ![p].stage = "github", ![p].left = {}]
       \/ Goto(p, "idle")
    /\ UNCHANGED <<kind, disk, open, mutex, unguarded, pidFile, released, srv, shared, swept>>

\* downloadWithFallback: the record of p after a source has failed.
NextSource(r) ==
    CASE r.stage = "github"               -> [r EXCEPT !.pc = "get", !.stage = "http", !.left = Mirrors]
      [] r.stage # "github" /\ r.left # {} -> [r EXCEPT !.pc = "get"]
      [] r.stage = "http" /\ r.left = {}   -> [r EXCEPT !.pc = "get", !.stage = "inband", !.left = Mirrors]
      [] OTHER                             -> [r EXCEPT !.pc = "idle"]

\* The sources that may be asked next, and what each one sends.
Offers(r) ==
    IF r.stage = "github" THEN {[left |-> {}, ver |-> r.tag]}
    ELSE {[left |-> r.left \ {m},
           ver |-> IF r.stage = "http" THEN handleUpdateAsset(m) ELSE handleUpdateGet(m)]
          : m \in r.left}

\* A source does not answer, or has no such asset.
SourceFails(p) ==
    /\ proc[p].pc = "get"
    /\ IF Offers(proc[p]) = {} THEN proc' = [proc EXCEPT ![p] = NextSource(@)]
       ELSE \E o \in Offers(proc[p]) :
              proc' = [proc EXCEPT ![p] = NextSource([@ EXCEPT !.left = o.left])]
    /\ UNCHANGED <<kind, disk, open, mutex, unguarded, pidFile, released, srv, shared, swept>>

\* applyBinary: exe.new is created, or emptied, and written.
OpenNew(p) ==
    /\ proc[p].pc = "get"
    /\ \E o \in Offers(proc[p]) :
         /\ o.ver # None
         /\ proc' = [proc EXCEPT ![p].pc = "copy", ![p].got = o.ver, ![p].left = o.left]
    /\ new' = Partial /\ open' = open \cup {p}
    /\ shared' = (shared \/ \E q \in Pids \ {p} : proc[q].pc \in Installing)
    /\ UNCHANGED <<kind, exe, old, mutex, unguarded, pidFile, released, srv, swept>>

\* All of it was written.  Two writers at once may leave anything.
CopyDone(p) ==
    /\ proc[p].pc = "copy"
    /\ open' = open \ {p}
    /\ new' \in IF shared THEN {proc[p].got, Partial} ELSE {proc[p].got}
    /\ Goto(p, "apply")
    /\ UNCHANGED <<kind, exe, old, mutex, unguarded, pidFile, released, srv, shared, swept>>

\* The connection broke: exe.new is removed, the next source is tried.
CopyFails(p) ==
    /\ proc[p].pc = "copy"
    /\ open' = open \ {p}
    /\ new' = IF Free(p) THEN None ELSE new
    /\ proc' = [proc EXCEPT ![p] = NextSource(@)]
    /\ UNCHANGED <<kind, exe, old, mutex, unguarded, pidFile, released, srv, shared, swept>>

\* filesBytesEqual: the same binary ends the update.
Unchanged(p) ==
    /\ proc[p].pc = "apply" /\ exe = new /\ exe # None
    /\ new' = IF Free(p) THEN None ELSE new
    /\ Goto(p, "idle")
    /\ UNCHANGED <<kind, exe, old, open, mutex, unguarded, pidFile, released, srv, shared, swept>>

\* Every process that runs from the binary now runs from exe.old.
ImagesMoved == [q \in Pids |-> IF q \in Alive THEN [proc[q] EXCEPT !.image = "old"]
                               ELSE proc[q]]

\* Mutant of MoveAway: the binary is removed to make room.
MoveAway_Removes(p) ==
    /\ proc[p].pc = "apply" /\ ~(exe = new /\ exe # None)
    /\ exe # None
    /\ exe' = None /\ old' = None
    /\ proc' = [ImagesMoved EXCEPT ![p].pc = "moved"]
    /\ UNCHANGED <<kind, new, open, mutex, unguarded, pidFile, released, srv, shared, swept>>

\* Windows: exe.old is removed if it can be, exe is renamed to exe.old.
MoveAway(p) ==
    /\ proc[p].pc = "apply" /\ ~(exe = new /\ exe # None)
    /\ IF kind = "cli" THEN Goto(p, "moved") /\ UNCHANGED <<exe, old>>
       ELSE /\ exe # None /\ ~Locked("old")
            /\ old' = exe /\ exe' = None
            /\ proc' = [ImagesMoved EXCEPT ![p].pc = "moved"]
    /\ UNCHANGED <<kind, new, open, mutex, unguarded, pidFile, released, srv, shared, swept>>

\* That rename fails: exe.new is removed, the next source is tried.
MoveAwayFails(p) ==
    /\ kind = "gui" /\ proc[p].pc = "apply" /\ ~(exe = new /\ exe # None)
    /\ old' = IF Locked("old") THEN old ELSE None
    /\ swept' = (swept \/ (exe \notin Versions /\ old \in Versions /\ old' = None))
    /\ new' = IF Free(p) THEN None ELSE new
    /\ proc' = [proc EXCEPT ![p] = NextSource(@)]
    /\ UNCHANGED <<kind, exe, open, mutex, unguarded, pidFile, released, srv, shared>>

\* exe.new becomes the binary.
MoveIn(p) ==
    /\ proc[p].pc = "moved" /\ new # None /\ Free(p)
    /\ exe' = new /\ new' = None
    /\ Goto(p, "reexec")
    /\ UNCHANGED <<kind, old, open, mutex, unguarded, pidFile, released, srv, shared, swept>>

\* It does not, and stays where it is; the next source is tried.
MoveInFails(p) ==
    /\ proc[p].pc = "moved"
    /\ proc' = [proc EXCEPT ![p] = NextSource(@)]
    /\ UNCHANGED <<kind, disk, open, mutex, unguarded, pidFile, released, srv, shared, swept>>

\* The environment of the successor.
ReexecEnv(env) == env \cup {"relaunched"}

\* Windows: a successor is started ...
reexec(p) ==
    /\ kind = "gui" /\ proc[p].pc = "reexec"
    /\ \/ /\ exe \in Versions
          /\ \E q \in Pids \ Alive :
                proc' = [proc EXCEPT ![p].pc = "exit",
                           ![q] = Process(proc[p].sess, ReexecEnv(proc[p].env), proc[p].depth + 1)]
       \/ Goto(p, "idle")
    /\ UNCHANGED <<kind, disk, open, mutex, unguarded, pidFile, released, srv, shared, swept>>

\* ... and this process exits.
Exit(p) ==
    /\ proc[p].pc = "exit"
    /\ proc' = Ended(p) /\ mutex' = Released(p) /\ unguarded' = unguarded \ {p}
    /\ UNCHANGED <<kind, disk, open, pidFile, released, srv, shared, swept>>

\* Unix: the process executes the new binary, with the environment it has.
syscallExec(p) ==
    /\ kind = "cli" /\ proc[p].pc = "reexec"
    /\ IF exe \in Versions
       THEN /\ proc[p].depth < MaxDepth
            /\ proc' = [proc EXCEPT ![p] = Process(@.sess, @.env, @.depth + 1)]
       ELSE Goto(p, "idle")
    /\ UNCHANGED <<kind, disk, open, mutex, unguarded, pidFile, released, srv, shared, swept>>

-------------------------------------------------------------------------------

Next ==
    \/ Release \/ SiblingCleanup
    \/ \E m \in Mirrors : ServerStart(m)
    \/ \E p \in Pids, s \in Sessions : Launch(p, s)
    \/ \E p \in Pids :
        \/ AlreadyElevated(p) \/ ensureAdmin(p) \/ acquireSingleInstance(p)
        \/ tryAcquireSingleInstance(p) \/ killStaleClient(p) \/ CleanupOldFiles(p)
        \/ CheckAndUpdate(p) \/ SourceFails(p) \/ OpenNew(p) \/ CopyDone(p)
        \/ CopyFails(p) \/ Unchanged(p) \/ MoveAway(p) \/ MoveAwayFails(p)
        \/ MoveIn(p) \/ MoveInFails(p) \/ reexec(p) \/ Exit(p) \/ syscallExec(p)
        \/ End(p)

Spec == Init /\ [][Next]_vars

-------------------------------------------------------------------------------

\* However an update is cut short, the file the user starts is never a piece of
\* a binary, unless two sessions updated at the same time; and where it is
\* missing, between the two renames, a whole binary is still there as exe.old,
\* so that the update can be undone by hand, unless somebody's CleanupOldFiles
\* took that one too.
BinaryRemains ==
    /\ exe = Partial => shared
    /\ exe \in Versions \/ old \in Versions \/ swept

\* The single-instance guard, and the rule that a successor does not check
\* for updates, leave one updater per session: two processes of a session write
\* exe.new only if CreateMutex failed for one of them and acquireSingleInstance
\* let it go on ("let the process proceed").
OneUpdater ==
    \A p, q \in Alive \ unguarded :
        /\ kind = "gui" /\ p # q /\ proc[p].sess = proc[q].sess
        => ~(proc[p].pc \in Installing /\ proc[q].pc \in Installing)

\* The marks left in the environment end every chain of processes that start
\* one another: after one launch by the user there is at most an elevated
\* copy and one successor.
ChainEnds == kind = "gui" => \A p \in Alive : proc[p].depth <= 2

===============================================================================
