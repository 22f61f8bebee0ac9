--------------------------- MODULE SelfUpdateProofs ---------------------------
(***************************************************************************)
(* For any number of processes, logon sessions, mirrors and releases: the   *)
(* binary is never lost to an update that is cut short (BinaryRemains), one *)
(* process per session updates unless CreateMutex failed for another        *)
(* (OneUpdater), and no chain of restarts runs on (ChainEnds).              *)
(*                                                                          *)
(* The argument.  Each process carries what bounds its chain in its         *)
(* environment (Local).  A process past the guard owns the mutex of its     *)
(* session, was let past it by an error (unguarded), or is the one the pid  *)
(* file names (Guarded).  As long as no two processes installed at a time,  *)
(* what an installer has written is whole (NewWhole).  And while there is   *)
(* no binary, every process still runs from exe.old: Windows then lets none *)
(* of them remove or replace it (Images), so the whole binary that was      *)
(* moved away stays there (Backup).                                         *)
(***************************************************************************)
EXTENDS SelfUpdate, TLAPS

Working == {"tag", "get", "copy", "apply", "moved", "reexec", "exit"}
Passed  == Working \cup {"idle"}
Stages  == Passed \cup {"admin", "guard"}
Marks   == {"elevated", "tried", "relaunched"}

Proc == [pc : Stages, sess : Sessions, env : SUBSET Marks, ver : Versions,
         image : {"exe", "old"}, clean : BOOLEAN, tag : Nat,
         stage : {"github", "http", "inband"}, left : SUBSET Mirrors, got : Nat,
         depth : Nat]

\* ensureAdmin has been through with this process, or with the one it replaced.
Marked(env) == env \cap {"elevated", "tried"} # {}

\* Every restart leaves a mark, and one that is there keeps the step from being
\* made again.
Chain(r) ==
    /\ r.pc # "admin" \/ "relaunched" \in r.env => Marked(r.env)
    /\ r.pc \in Working => "relaunched" \notin r.env
    /\ r.depth <= 2
    /\ "relaunched" \notin r.env => r.depth <= 1
    /\ ~Marked(r.env) => r.depth = 0

Local(r) ==
    \/ r = Dead
    \/ /\ r \in Proc
       /\ r.pc \in {"get", "copy", "apply", "moved"} => r.tag \in Versions
       /\ r.pc = "copy" => r.got \in Versions
       /\ kind = "gui" => Chain(r)

TypeOK ==
    /\ kind \in {"gui", "cli"}
    /\ exe \in Versions \cup {None, Partial} /\ new \in Versions \cup {None, Partial}
    /\ open \subseteq Pids /\ shared \in BOOLEAN /\ swept \in BOOLEAN
    /\ unguarded \subseteq Pids
    /\ mutex \in [Sessions -> Pids \cup {None}] /\ pidFile \in Pids \cup {None}
    /\ released \in Versions
    /\ srv \in [Mirrors -> [ver : Versions, stamp : Versions, asset : Versions \cup {None}]]
    /\ proc = [p \in Pids |-> proc[p]] /\ \A p \in Pids : Local(proc[p])

\* Past the guard, a process has what the guard is about, or CreateMutex failed.
Guarded ==
    \A p \in Pids :
        /\ kind = "gui" /\ proc[p].pc \in Working =>
              mutex[proc[p].sess] = p \/ p \in unguarded
        /\ kind = "cli" /\ proc[p].pc \in Passed => pidFile = p

Alone ==
    ~shared => \A p, q \in Pids : proc[p].pc \in Installing /\ proc[q].pc \in Installing => p = q

\* The .new file of an installer that was alone is whole.
NewWhole == ~shared => \A p \in Pids : proc[p].pc \in {"apply", "moved"} => new \in Versions

\* Between the two renames there is no binary, and one process that is there.
OneMoves ==
    kind = "gui" => \A p \in Pids : proc[p].pc = "moved" =>
                       /\ exe = None
                       /\ \A q \in Pids : proc[q].pc = "moved" => q = p

Images ==
    kind = "gui" /\ exe \notin Versions => \A p \in Alive : proc[p].image = "old"

Unix == kind = "cli" => ~shared /\ exe \in Versions

Files == Alone /\ NewWhole /\ OneMoves /\ Images /\ Unix /\ BinaryRemains

IInv == TypeOK /\ Guarded /\ Files

-------------------------------------------------------------------------------
(* Records of processes. *)

\* What the guard, the marks and the disk depend on.
Keeps(s, r) == s.sess = r.sess /\ s.env = r.env /\ s.depth = r.depth

\* One field of a process is set.
LEMMA SetPc ==
  ASSUME NEW r \in Proc, NEW x \in Stages
  PROVE  LET s == [r EXCEPT !.pc = x]
         IN  s \in Proc /\ Keeps(s, r) /\ s.pc = x /\ s.image = r.image
             /\ s.tag = r.tag /\ s.got = r.got /\ s.stage = r.stage /\ s.left = r.left
  BY DEF Proc, Keeps

LEMMA SetTag ==
  ASSUME NEW r \in Proc, NEW x \in Nat
  PROVE  LET s == [r EXCEPT !.tag = x]
         IN  s \in Proc /\ Keeps(s, r) /\ s.pc = r.pc /\ s.image = r.image
             /\ s.tag = x /\ s.got = r.got
  BY DEF Proc, Keeps

LEMMA SetLeft ==
  ASSUME NEW r \in Proc, NEW x \in SUBSET Mirrors
  PROVE  LET s == [r EXCEPT !.left = x]
         IN  s \in Proc /\ Keeps(s, r) /\ s.pc = r.pc /\ s.image = r.image
             /\ s.tag = r.tag /\ s.got = r.got
  BY DEF Proc, Keeps

LEMMA SetClean ==
  ASSUME NEW r \in Proc, NEW x \in BOOLEAN
  PROVE  LET s == [r EXCEPT !.clean = x]
         IN  s \in Proc /\ Keeps(s, r) /\ s.pc = r.pc /\ s.image = r.image
             /\ s.tag = r.tag /\ s.got = r.got
  BY DEF Proc, Keeps

LEMMA SetStage ==
  ASSUME NEW r \in Proc, NEW x \in {"github", "http", "inband"}
  PROVE  LET s == [r EXCEPT !.stage = x]
         IN  s \in Proc /\ Keeps(s, r) /\ s.pc = r.pc /\ s.image = r.image
             /\ s.tag = r.tag /\ s.got = r.got
  BY DEF Proc, Keeps

LEMMA SetGot ==
  ASSUME NEW r \in Proc, NEW x \in Nat
  PROVE  LET s == [r EXCEPT !.got = x]
         IN  s \in Proc /\ Keeps(s, r) /\ s.pc = r.pc /\ s.image = r.image
             /\ s.tag = r.tag /\ s.got = x
  BY DEF Proc, Keeps

LEMMA SetImage ==
  ASSUME NEW r \in Proc, NEW x \in {"exe", "old"}
  PROVE  LET s == [r EXCEPT !.image = x]
         IN  s \in Proc /\ Keeps(s, r) /\ s.pc = r.pc /\ s.image = x
             /\ s.tag = r.tag /\ s.got = r.got
  BY DEF Proc, Keeps

LEMMA SetEnv ==
  ASSUME NEW r \in Proc, NEW e \in SUBSET Marks
  PROVE  LET s == [r EXCEPT !.env = e]
         IN  s \in Proc /\ s.env = e /\ s.pc = r.pc /\ s.image = r.image /\ s.sess = r.sess
             /\ s.depth = r.depth
  BY DEF Proc

\* downloadWithFallback: the next source, or none left.
LEMMA NextSourceIs ==
  ASSUME NEW r \in Proc
  PROVE  LET s == NextSource(r)
         IN  s \in Proc /\ Keeps(s, r) /\ s.pc \in {"get", "idle"} /\ s.image = r.image
             /\ s.tag = r.tag
  <1> DEFINE get == [r EXCEPT !.pc = "get"]
             idle == [r EXCEPT !.pc = "idle"]
             http == [get EXCEPT !.stage = "http"]
             inband == [get EXCEPT !.stage = "inband"]
             All(t) == [t EXCEPT !.left = Mirrors]
             Good(t) == /\ t \in Proc /\ Keeps(t, r) /\ t.pc \in {"get", "idle"}
                        /\ t.image = r.image /\ t.tag = r.tag
  <1>1. Good(get) /\ Good(idle) /\ get.pc = "get" /\ idle.pc = "idle"
    BY SetPc DEF Stages, Passed, Working
  <1>2. Good(http) /\ Good(inband)
    <2> HIDE DEF get
    <2>0. get \in Proc
      BY <1>1
    <2>1. /\ http \in Proc /\ Keeps(http, get) /\ http.pc = get.pc
          /\ http.image = get.image /\ http.tag = get.tag
          /\ inband \in Proc /\ Keeps(inband, get) /\ inband.pc = get.pc
          /\ inband.image = get.image /\ inband.tag = get.tag
      BY <2>0, SetStage
    <2> HIDE DEF http, inband
    <2> QED
      BY <1>1, <2>1 DEF Keeps
  <1>3. Good(All(http)) /\ Good(All(inband))
    <2> HIDE DEF http, inband
    <2>1. \A t \in Proc : /\ All(t) \in Proc /\ Keeps(All(t), t) /\ All(t).pc = t.pc
                          /\ All(t).image = t.image /\ All(t).tag = t.tag
      BY SetLeft
    <2> HIDE DEF All
    <2> QED
      BY <1>2, <2>1 DEF Keeps
  <1>4. /\ [r EXCEPT !.pc = "get", !.stage = "http", !.left = Mirrors] = All(http)
        /\ [r EXCEPT !.pc = "get", !.stage = "inband", !.left = Mirrors] = All(inband)
    BY Zenon
  <1>5. NextSource(r) \in {get, idle, All(http), All(inband)}
    <2> HIDE DEF get, idle, All, http, inband
    <2>1. \/ NextSource(r) = [r EXCEPT !.pc = "get", !.stage = "http", !.left = Mirrors]
          \/ NextSource(r) = [r EXCEPT !.pc = "get"]
          \/ NextSource(r) = [r EXCEPT !.pc = "get", !.stage = "inband", !.left = Mirrors]
          \/ NextSource(r) = [r EXCEPT !.pc = "idle"]
      BY DEF NextSource
    <2> QED
      BY <1>4, <2>1 DEF get, idle
  <1> HIDE DEF All, http, inband, get, idle
  <1> QED
    BY <1>1, <1>3, <1>5

\* The processes a step sees, by their types.
LEMMA ProcIs ==
  ASSUME TypeOK, NEW p \in Pids
  PROVE  /\ proc[p].pc = "none" <=> proc[p] = Dead
         /\ proc[p].pc # "none" <=> p \in Alive
         /\ proc[p].pc # "none" => proc[p] \in Proc /\ proc[p].pc \in Stages
  BY DEF TypeOK, Local, Dead, Alive, Proc, Stages, Passed, Working

\* A new process, from a binary that is there.
LEMMA ProcessIs ==
  ASSUME exe \in Versions, NEW s \in Sessions, NEW e \in SUBSET Marks, NEW d \in Nat,
         kind \in {"gui", "cli"}
  PROVE  LET r == Process(s, e, d)
         IN  r \in Proc /\ r.sess = s /\ r.env = e /\ r.depth = d
             /\ r.pc = IF kind = "gui" THEN "admin" ELSE "guard"
  BY DEF Process, Proc, Stages, Passed, Working

-------------------------------------------------------------------------------
(* What steps have in common. *)

\* One process changes.
LEMMA Replaced ==
  ASSUME TypeOK, NEW p \in Pids, NEW s, Local(s), kind' = kind,
         proc' = [proc EXCEPT ![p] = s]
  PROVE  /\ proc' = [q \in Pids |-> proc'[q]] /\ \A q \in Pids : Local(proc[q])'
         /\ \A q \in Pids : proc'[q] = IF q = p THEN s ELSE proc[q]
  <1>1. \A q \in Pids : proc'[q] = IF q = p THEN s ELSE proc[q]
    BY DEF TypeOK
  <1>2. proc' = [q \in Pids |-> proc'[q]]
    BY DEF TypeOK
  <1>3. \A q \in Pids : Local(proc'[q])
    BY <1>1 DEF TypeOK
  <1>4. \A q \in Pids : Local(proc[q])'
    BY <1>3 DEF Local, Chain, Marked
  <1> QED
    BY <1>1, <1>2, <1>4

\* Nobody becomes an installer, no file of the update changes, and a process
\* starts only where there is a binary.
LEMMA QuietFiles ==
  ASSUME IInv, UNCHANGED <<kind, exe, new, shared>>,
         exe \in Versions \/ old' \in Versions \/ swept',
         \A q \in Pids :
            /\ proc'[q].pc \in Installing => proc'[q].pc = proc[q].pc
            /\ proc'[q].pc # "none" =>
                  \/ exe \in Versions
                  \/ proc[q].pc # "none" /\ proc'[q].image = proc[q].image
  PROVE  Files'
  <1>1. Alone'
    BY DEF IInv, Files, Alone, Installing
  <1>2. NewWhole'
    BY DEF IInv, Files, NewWhole, Installing
  <1>3. OneMoves'
    BY DEF IInv, Files, OneMoves, Installing
  <1>4. Images'
    BY DEF IInv, Files, Images, Alive
  <1>5. Unix' /\ BinaryRemains'
    BY DEF IInv, Files, Unix, BinaryRemains
  <1> QED
    BY <1>1, <1>2, <1>3, <1>4, <1>5 DEF Files

\* A process goes on with its update, or stays where it is.
Advances(p, s) ==
    /\ proc' = [proc EXCEPT ![p] = s] /\ proc[p].pc # "none"
    /\ s \in Proc /\ Keeps(s, proc[p]) /\ s.image = proc[p].image
    /\ \/ s.pc = proc[p].pc
       \/ proc[p].pc \in Working /\ s.pc \in Passed
    /\ s.pc \in {"get", "copy", "apply", "moved"} => s.tag \in Versions
    /\ s.pc = "copy" => s.got \in Versions

\* It leaves the chain it is in and its guard alone.
LEMMA AdvanceKeeps ==
  ASSUME IInv, NEW p \in Pids, NEW s, Advances(p, s), UNCHANGED <<kind, mutex, unguarded, pidFile>>
  PROVE  /\ proc' = [q \in Pids |-> proc'[q]] /\ \A q \in Pids : Local(proc[q])'
         /\ \A q \in Pids : proc'[q] = IF q = p THEN s ELSE proc[q]
         /\ Guarded'
         /\ \A q \in Pids : proc'[q].pc # "none" =>
               proc[q].pc # "none" /\ proc'[q].image = proc[q].image
  <1>1. proc[p] \in Proc /\ (kind = "gui" => Chain(proc[p]))
    BY DEF IInv, TypeOK, Local, Advances, Dead
  <1>2. kind = "gui" => Chain(s)
    BY <1>1 DEF Chain, Advances, Keeps, Working, Passed
  <1>3. Local(s)
    BY <1>2 DEF Local, Advances
  <1>4. /\ proc' = [q \in Pids |-> proc'[q]] /\ \A q \in Pids : Local(proc[q])'
        /\ \A q \in Pids : proc'[q] = IF q = p THEN s ELSE proc[q]
    BY <1>3, Replaced DEF IInv, Advances
  <1>5. Guarded'
    BY <1>4 DEF IInv, Guarded, Advances, Keeps, Working, Passed
  <1>6. \A q \in Pids : proc'[q].pc # "none" =>
           proc[q].pc # "none" /\ proc'[q].image = proc[q].image
    BY <1>4 DEF Advances
  <1> QED
    BY <1>4, <1>5, <1>6

-------------------------------------------------------------------------------
(* The steps of an update: what becomes of the process that makes them. *)

\* One and several fields of one process.
LEMMA OneField ==
  ASSUME TypeOK, NEW p \in Pids, proc[p].pc # "none"
  PROVE  /\ p \in DOMAIN proc /\ proc[p] \in Proc
         /\ proc[p].pc \in {"get", "copy", "apply", "moved"} => proc[p].tag \in Versions
         /\ proc[p].pc = "copy" => proc[p].got \in Versions
  BY ProcIs DEF TypeOK, Local, Dead

\* What a process is told to do next, with its other fields as they are.
LEMMA GotoEffect ==
  ASSUME IInv, NEW p \in Pids, NEW x \in Passed, Goto(p, x),
         proc[p].pc \in {"copy", "apply", "moved", "tag", "get", "reexec"},
         x \notin {"get", "copy"}, x \in {"apply", "moved"} => proc[p].pc \in {"copy", "apply", "moved"}
  PROVE  \E s : Advances(p, s) /\ s.pc = x
  <1>1. proc[p].pc # "none"
    OBVIOUS
  <1>2. /\ p \in DOMAIN proc /\ proc[p] \in Proc
        /\ proc[p].pc \in {"get", "copy", "apply", "moved"} => proc[p].tag \in Versions
    BY <1>1, OneField DEF IInv
  <1> DEFINE s == [proc[p] EXCEPT !.pc = x]
  <1>3. s \in Proc /\ Keeps(s, proc[p]) /\ s.pc = x /\ s.image = proc[p].image
        /\ s.tag = proc[p].tag
    BY <1>2, SetPc DEF Stages
  <1>4. proc' = [proc EXCEPT ![p] = s]
    BY DEF Goto
  <1> HIDE DEF s
  <1> QED
    BY <1>1, <1>2, <1>3, <1>4 DEF Advances, Working, Passed

\* A failed source.
LEMMA FailEffect ==
  ASSUME IInv, NEW p \in Pids, proc[p].pc \in {"get", "copy", "apply", "moved"},
         NEW r \in Proc, Keeps(r, proc[p]), r.image = proc[p].image, r.tag = proc[p].tag,
         proc' = [proc EXCEPT ![p] = NextSource(r)]
  PROVE  \E s : Advances(p, s) /\ s.pc \in {"get", "idle"}
  <1>1. proc[p].pc # "none" /\ proc[p].tag \in Versions
    BY OneField DEF IInv
  <1> DEFINE s == NextSource(r)
  <1>2. s \in Proc /\ Keeps(s, r) /\ s.pc \in {"get", "idle"} /\ s.image = r.image
        /\ s.tag = r.tag
    BY NextSourceIs
  <1> HIDE DEF s
  <1>3. s.pc # "copy" /\ s.pc \in Passed /\ proc[p].pc \in Working
    BY <1>2 DEF Passed, Working
  <1>4. Keeps(s, proc[p])
    BY <1>2 DEF Keeps
  <1>5. proc' = [proc EXCEPT ![p] = s]
    BY DEF s
  <1> QED
    BY <1>1, <1>2, <1>3, <1>4, <1>5 DEF Advances

\* CheckAndUpdate: a tag that some source named is a release.
LEMMA CheckEffect ==
  ASSUME IInv, NEW p \in Pids, CheckAndUpdate(p)
  PROVE  \E s : Advances(p, s) /\ s.pc \in {"get", "idle"}
  <1>1. proc[p].pc = "tag"
    BY DEF CheckAndUpdate
  <1>2. CASE Goto(p, "idle")
    BY <1>1, <1>2, GotoEffect DEF Passed, Working
  <1>3. CASE \E t \in resolveLatestTag :
            /\ t > proc[p].ver
            /\ proc' = [proc EXCEPT ![p].pc = "get", ![p].tag = t,
                                    ![p].stage = "github", ![p].left = {}]
    <2>1. PICK t \in resolveLatestTag :
             proc' = [proc EXCEPT ![p].pc = "get", ![p].tag = t,
                                  ![p].stage = "github", ![p].left = {}]
      BY <1>3
    <2>2. t \in Versions /\ t \in Nat
      BY SelfUpdateAssumption DEF resolveLatestTag, handleVersion, IInv, TypeOK, Versions
    <2>3. p \in DOMAIN proc /\ proc[p] \in Proc
      BY <1>1, OneField DEF IInv
    <2> DEFINE a == [proc[p] EXCEPT !.pc = "get"]
               b == [a EXCEPT !.tag = t]
               c == [b EXCEPT !.stage = "github"]
               s == [c EXCEPT !.left = {}]
    <2>4. proc' = [proc EXCEPT ![p] = s]
      BY <2>1, <2>3
    <2>5. a \in Proc /\ Keeps(a, proc[p]) /\ a.pc = "get" /\ a.image = proc[p].image
      BY <2>3, SetPc DEF Stages, Passed, Working
    <2> HIDE DEF a
    <2>6. b \in Proc /\ Keeps(b, a) /\ b.pc = a.pc /\ b.image = a.image /\ b.tag = t
      BY <2>2, <2>5, SetTag
    <2> HIDE DEF b
    <2>7. c \in Proc /\ Keeps(c, b) /\ c.pc = b.pc /\ c.image = b.image /\ c.tag = b.tag
      BY <2>6, SetStage
    <2> HIDE DEF c
    <2>8. s \in Proc /\ Keeps(s, c) /\ s.pc = c.pc /\ s.image = c.image /\ s.tag = c.tag
      BY <2>7, SetLeft
    <2> HIDE DEF s
    <2>9. Keeps(s, proc[p]) /\ s.pc = "get" /\ s.image = proc[p].image /\ s.tag = t
      BY <2>5, <2>6, <2>7, <2>8 DEF Keeps
    <2> QED
      BY <1>1, <2>2, <2>4, <2>8, <2>9 DEF Advances, Working, Passed
  <1> QED
    BY <1>2, <1>3 DEF CheckAndUpdate

\* A process is its own reflection.
LEMMA KeepsSelf == \A r : Keeps(r, r)
  BY DEF Keeps

\* What is offered, and by whom.
LEMMA OfferIs ==
  ASSUME IInv, NEW p \in Pids, proc[p].pc = "get", NEW o \in Offers(proc[p])
  PROVE  o.left \in SUBSET Mirrors /\ o.ver \in Versions \cup {None}
  <1>1. proc[p] \in Proc /\ proc[p].tag \in Versions
    BY OneField DEF IInv
  <1>2. proc[p].left \subseteq Mirrors
    BY <1>1 DEF Proc
  <1>3. \A m \in Mirrors : srv[m].asset \in Versions \cup {None}
    BY DEF IInv, TypeOK
  <1>4. CASE proc[p].stage = "github"
    BY <1>1, <1>4 DEF Offers
  <1>5. CASE proc[p].stage # "github"
    <2>1. PICK m \in proc[p].left :
             o = [left |-> proc[p].left \ {m},
                  ver |-> IF proc[p].stage = "http" THEN handleUpdateAsset(m)
                          ELSE handleUpdateGet(m)]
      BY <1>5 DEF Offers
    <2> QED
      BY <1>2, <1>3, <2>1 DEF handleUpdateAsset, handleUpdateGet
  <1> QED
    BY <1>4, <1>5

\* downloadWithFallback goes on.
LEMMA SourceFailsEffect ==
  ASSUME IInv, NEW p \in Pids, SourceFails(p)
  PROVE  \E s : Advances(p, s) /\ s.pc \in {"get", "idle"}
  <1>1. proc[p].pc = "get" /\ proc[p].pc # "none"
    BY DEF SourceFails
  <1>2. p \in DOMAIN proc /\ proc[p] \in Proc
    BY <1>1, OneField DEF IInv
  <1>3. CASE proc' = [proc EXCEPT ![p] = NextSource(@)]
    BY <1>1, <1>2, <1>3, FailEffect, KeepsSelf
  <1>4. CASE \E o \in Offers(proc[p]) :
              proc' = [proc EXCEPT ![p] = NextSource([@ EXCEPT !.left = o.left])]
    <2>1. PICK o \in Offers(proc[p]) :
              proc' = [proc EXCEPT ![p] = NextSource([@ EXCEPT !.left = o.left])]
      BY <1>4
    <2> DEFINE r == [proc[p] EXCEPT !.left = o.left]
    <2>2. /\ r \in Proc /\ Keeps(r, proc[p]) /\ r.image = proc[p].image
          /\ r.tag = proc[p].tag
      BY <1>1, <1>2, OfferIs, SetLeft
    <2>3. proc' = [proc EXCEPT ![p] = NextSource(r)]
      BY <2>1
    <2> HIDE DEF r
    <2> QED
      BY <1>1, <2>2, <2>3, FailEffect
  <1> QED
    BY <1>3, <1>4 DEF SourceFails

\* applyBinary has created exe.new.
LEMMA OpenNewEffect ==
  ASSUME IInv, NEW p \in Pids, OpenNew(p)
  PROVE  \E s : Advances(p, s) /\ s.pc = "copy"
  <1>1. proc[p].pc = "get" /\ proc[p].pc # "none"
    BY DEF OpenNew
  <1>2. p \in DOMAIN proc /\ proc[p] \in Proc /\ proc[p].tag \in Versions
    BY <1>1, OneField DEF IInv
  <1>3. PICK o \in Offers(proc[p]) :
          /\ o.ver # None
          /\ proc' = [proc EXCEPT ![p].pc = "copy", ![p].got = o.ver, ![p].left = o.left]
    BY DEF OpenNew
  <1>4. o.left \in SUBSET Mirrors /\ o.ver \in Versions /\ o.ver \in Nat
    BY <1>1, <1>3, OfferIs DEF Versions
  <1> DEFINE a == [proc[p] EXCEPT !.pc = "copy"]
             b == [a EXCEPT !.got = o.ver]
             s == [b EXCEPT !.left = o.left]
  <1>5. proc' = [proc EXCEPT ![p] = s]
    BY <1>2, <1>3
  <1>6. /\ a \in Proc /\ Keeps(a, proc[p]) /\ a.pc = "copy" /\ a.image = proc[p].image
        /\ a.tag = proc[p].tag
    BY <1>2, SetPc DEF Stages, Passed, Working
  <1> HIDE DEF a
  <1>7. /\ b \in Proc /\ Keeps(b, a) /\ b.pc = a.pc /\ b.image = a.image
        /\ b.tag = a.tag /\ b.got = o.ver
    BY <1>4, <1>6, SetGot
  <1> HIDE DEF b
  <1>8. /\ s \in Proc /\ Keeps(s, b) /\ s.pc = b.pc /\ s.image = b.image
        /\ s.tag = b.tag /\ s.got = b.got
    BY <1>4, <1>7, SetLeft
  <1> HIDE DEF s
  <1>9. Keeps(s, proc[p]) /\ s.pc = "copy" /\ s.image = proc[p].image
    BY <1>6, <1>7, <1>8 DEF Keeps
  <1>10. s.tag \in Versions /\ s.got \in Versions
    BY <1>2, <1>4, <1>6, <1>7, <1>8
  <1> QED
    BY <1>1, <1>5, <1>8, <1>9, <1>10 DEF Advances, Working, Passed

\* A failure after the download: the next source is tried.
LEMMA ApplyFailsEffect ==
  ASSUME IInv, NEW p \in Pids, proc[p].pc \in {"copy", "apply", "moved"},
         proc' = [proc EXCEPT ![p] = NextSource(@)]
  PROVE  \E s : Advances(p, s) /\ s.pc \in {"get", "idle"}
  <1>1. proc[p].pc # "none"
    OBVIOUS
  <1>2. p \in DOMAIN proc /\ proc[p] \in Proc
    BY <1>1, OneField DEF IInv
  <1> QED
    BY <1>2, FailEffect, KeepsSelf

\* A round of the clean-up is over.
LEMMA CleanEffect ==
  ASSUME IInv, NEW p \in Pids, CleanupOldFiles(p)
  PROVE  \E s : Advances(p, s) /\ s.pc = proc[p].pc
  <1>1. proc[p].pc # "none"
    BY DEF CleanupOldFiles, Alive
  <1>2. /\ p \in DOMAIN proc /\ proc[p] \in Proc
        /\ proc[p].pc \in {"get", "copy", "apply", "moved"} => proc[p].tag \in Versions
        /\ proc[p].pc = "copy" => proc[p].got \in Versions
    BY <1>1, OneField DEF IInv
  <1> DEFINE s == [proc[p] EXCEPT !.clean = FALSE]
  <1>3. /\ s \in Proc /\ Keeps(s, proc[p]) /\ s.pc = proc[p].pc /\ s.image = proc[p].image
        /\ s.tag = proc[p].tag /\ s.got = proc[p].got
    BY <1>2, SetClean
  <1>4. proc' = [proc EXCEPT ![p] = s]
    BY DEF CleanupOldFiles
  <1> HIDE DEF s
  <1> QED
    BY <1>1, <1>2, <1>3, <1>4 DEF Advances

-------------------------------------------------------------------------------
(* The steps of an update preserve the invariant. *)

\* A step of the update that writes nothing.
LEMMA QuietAdvance ==
  ASSUME IInv, NEW p \in Pids, NEW s, Advances(p, s),
         s.pc \in Installing => s.pc = proc[p].pc,
         UNCHANGED <<kind, exe, new, open, mutex, unguarded, pidFile, released, srv, shared>>,
         swept' \in BOOLEAN, exe \in Versions \/ old' \in Versions \/ swept'
  PROVE  IInv'
  <1>1. /\ proc' = [q \in Pids |-> proc'[q]] /\ \A q \in Pids : Local(proc[q])'
        /\ \A q \in Pids : proc'[q] = IF q = p THEN s ELSE proc[q]
        /\ Guarded'
        /\ \A q \in Pids : proc'[q].pc # "none" =>
               proc[q].pc # "none" /\ proc'[q].image = proc[q].image
    BY AdvanceKeeps
  <1>2. TypeOK'
    BY <1>1 DEF IInv, TypeOK
  <1>3. Files'
    BY <1>1, QuietFiles
  <1> QED
    BY <1>1, <1>2, <1>3 DEF IInv

\* Looking for a release, a failed source, a clean-up.
LEMMA SearchSteps ==
  ASSUME IInv, NEW p \in Pids,
         CheckAndUpdate(p) \/ SourceFails(p) \/ MoveInFails(p) \/ CleanupOldFiles(p)
  PROVE  IInv'
  <1>1. \E s : Advances(p, s) /\ (s.pc \in Installing => s.pc = proc[p].pc)
    <2>1. CASE CheckAndUpdate(p)
      BY <2>1, CheckEffect DEF Installing
    <2>2. CASE SourceFails(p)
      BY <2>2, SourceFailsEffect DEF Installing
    <2>3. CASE MoveInFails(p)
      BY <2>3, ApplyFailsEffect DEF MoveInFails, Installing
    <2>4. CASE CleanupOldFiles(p)
      BY <2>4, CleanEffect DEF Installing
    <2> QED
      BY <2>1, <2>2, <2>3, <2>4
  <1>2. UNCHANGED <<kind, exe, new, open, mutex, unguarded, pidFile, released, srv, shared>>
    BY DEF CheckAndUpdate, SourceFails, MoveInFails, CleanupOldFiles, disk
  <1>3. exe \in Versions \/ old \in Versions \/ swept
    BY DEF IInv, Files, BinaryRemains
  <1>4. swept' \in BOOLEAN /\ (exe \in Versions \/ old' \in Versions \/ swept')
    <2>1. CASE UNCHANGED <<old, swept>>
      BY <1>3, <2>1 DEF IInv, TypeOK
    <2>2. CASE old' = None /\ swept' = (swept \/ (exe \notin Versions /\ old # None))
      <3>1. swept' \in BOOLEAN
        BY <2>2
      <3>2. ASSUME exe \notin Versions
            PROVE  swept'
        BY <1>3, <2>2, <3>2, SelfUpdateAssumption DEF Versions
      <3> QED
        BY <3>1, <3>2
    <2> QED
      BY <2>1, <2>2 DEF CheckAndUpdate, SourceFails, MoveInFails, CleanupOldFiles, disk
  <1> QED
    BY <1>1, <1>2, <1>4, QuietAdvance

\* In its own session nobody else installs, and on Unix nobody else runs: who
\* finds nobody at work is alone.
LEMMA OpenNewStep ==
  ASSUME IInv, NEW p \in Pids, OpenNew(p)
  PROVE  IInv'
  <1>1. PICK s : Advances(p, s) /\ s.pc = "copy"
    BY OpenNewEffect
  <1>2. /\ UNCHANGED <<kind, exe, old, mutex, unguarded, pidFile, released, srv, swept>>
        /\ new' = Partial /\ open' = open \cup {p} /\ proc[p].pc = "get"
        /\ shared' = (shared \/ \E q \in Pids \ {p} : proc[q].pc \in Installing)
    BY DEF OpenNew
  <1>3. /\ proc' = [q \in Pids |-> proc'[q]] /\ \A q \in Pids : Local(proc[q])'
        /\ \A q \in Pids : proc'[q] = IF q = p THEN s ELSE proc[q]
        /\ Guarded'
        /\ \A q \in Pids : proc'[q].pc # "none" =>
               proc[q].pc # "none" /\ proc'[q].image = proc[q].image
    BY <1>1, <1>2, AdvanceKeeps
  <1>4. TypeOK'
    BY <1>2, <1>3 DEF IInv, TypeOK
  <1>5. Alone' /\ NewWhole'
    <2> SUFFICES ASSUME ~shared'
                 PROVE  \A q \in Pids : proc'[q].pc \in Installing => q = p
      BY <1>1, <1>3 DEF Alone, NewWhole, Installing
    <2> QED
      BY <1>1, <1>2, <1>3
  <1>6. OneMoves'
    BY <1>1, <1>2, <1>3 DEF IInv, Files, OneMoves
  <1>7. Images' /\ BinaryRemains'
    BY <1>2, <1>3 DEF IInv, Files, Images, BinaryRemains, Alive
  <1>8. Unix'
    <2> SUFFICES ASSUME kind = "cli", NEW q \in Pids, proc[q].pc \in Installing
                 PROVE  q = p
      BY <1>2 DEF IInv, Files, Unix
    <2> QED
      BY <1>2 DEF IInv, Guarded, Passed, Working, Installing
  <1> QED
    BY <1>3, <1>4, <1>5, <1>6, <1>7, <1>8 DEF IInv, Files

\* exe.new was written, or is removed; nothing else of the disk changes.
LEMMA NewChanges ==
  ASSUME IInv, NEW p \in Pids, NEW s, Advances(p, s), proc[p].pc \in Installing,
         s.pc # "moved", s.pc \in {"apply"} /\ ~shared => new' \in Versions,
         UNCHANGED <<kind, exe, mutex, unguarded, pidFile, released, srv, shared>>,
         s.pc \in Installing => s.pc = "apply",
         open' \subseteq open, new' \in Versions \cup {None, Partial}, swept' \in BOOLEAN,
         exe \in Versions \/ old' \in Versions \/ swept'
  PROVE  IInv'
  <1>1. /\ proc' = [q \in Pids |-> proc'[q]] /\ \A q \in Pids : Local(proc[q])'
        /\ \A q \in Pids : proc'[q] = IF q = p THEN s ELSE proc[q]
        /\ Guarded'
        /\ \A q \in Pids : proc'[q].pc # "none" =>
               proc[q].pc # "none" /\ proc'[q].image = proc[q].image
    BY AdvanceKeeps
  <1>2. TypeOK'
    BY <1>1 DEF IInv, TypeOK
  <1>3. Alone' /\ NewWhole'
    BY <1>1 DEF IInv, Files, Alone, NewWhole, Installing
  <1>4. OneMoves'
    BY <1>1 DEF IInv, Files, OneMoves
  <1>5. Images' /\ BinaryRemains' /\ Unix'
    BY <1>1 DEF IInv, Files, Images, BinaryRemains, Unix, Alive
  <1> QED
    BY <1>1, <1>2, <1>3, <1>4, <1>5 DEF IInv, Files

\* The copy ends, one way or the other; the binary is the same; it cannot be
\* moved away.
LEMMA CopySteps ==
  ASSUME IInv, NEW p \in Pids,
         CopyDone(p) \/ CopyFails(p) \/ Unchanged(p) \/ MoveAwayFails(p)
  PROVE  IInv'
  <1>1. exe \in Versions \/ old \in Versions \/ swept
    BY DEF IInv, Files, BinaryRemains
  <1>2. new \in Versions \cup {None, Partial} /\ swept \in BOOLEAN
    BY DEF IInv, TypeOK
  <1>3. CASE CopyDone(p)
    <2>1. proc[p].pc = "copy" /\ Goto(p, "apply")
      BY <1>3 DEF CopyDone
    <2>2. proc[p].got \in Versions
      BY <2>1, OneField DEF IInv
    <2>3. PICK s : Advances(p, s) /\ s.pc = "apply"
      BY <2>1, GotoEffect DEF Passed, Working
    <2>4. /\ new' \in {proc[p].got, Partial} /\ (~shared => new' = proc[p].got)
          /\ open' \subseteq open
          /\ UNCHANGED <<kind, exe, old, mutex, unguarded, pidFile, released, srv, shared, swept>>
      BY <1>3 DEF CopyDone
    <2> QED
      BY <1>1, <1>2, <2>1, <2>2, <2>3, <2>4, NewChanges DEF Installing
  <1>4. CASE CopyFails(p)
    <2>1. proc[p].pc = "copy" /\ proc' = [proc EXCEPT ![p] = NextSource(@)]
      BY <1>4 DEF CopyFails
    <2>2. PICK s : Advances(p, s) /\ s.pc \in {"get", "idle"}
      BY <2>1, ApplyFailsEffect
    <2>3. /\ new' \in {new, None} /\ open' \subseteq open
          /\ UNCHANGED <<kind, exe, old, mutex, unguarded, pidFile, released, srv, shared, swept>>
      BY <1>4 DEF CopyFails
    <2> QED
      BY <1>1, <1>2, <2>1, <2>2, <2>3, NewChanges DEF Installing
  <1>5. CASE Unchanged(p)
    <2>1. proc[p].pc = "apply" /\ Goto(p, "idle")
      BY <1>5 DEF Unchanged
    <2>2. PICK s : Advances(p, s) /\ s.pc = "idle"
      BY <2>1, GotoEffect DEF Passed, Working
    <2>3. /\ new' \in {new, None} /\ open' \subseteq open
          /\ UNCHANGED <<kind, exe, old, mutex, unguarded, pidFile, released, srv, shared, swept>>
      BY <1>5 DEF Unchanged
    <2> QED
      BY <1>1, <1>2, <2>1, <2>2, <2>3, NewChanges DEF Installing
  <1>6. CASE MoveAwayFails(p)
    <2>1. proc[p].pc = "apply" /\ proc' = [proc EXCEPT ![p] = NextSource(@)]
      BY <1>6 DEF MoveAwayFails
    <2>2. PICK s : Advances(p, s) /\ s.pc \in {"get", "idle"}
      BY <2>1, ApplyFailsEffect
    <2>3. /\ new' \in {new, None} /\ open' \subseteq open /\ (old' = old \/ old' = None)
          /\ UNCHANGED <<kind, exe, mutex, unguarded, pidFile, released, srv, shared>>
          /\ swept' = (swept \/ (exe \notin Versions /\ old \in Versions /\ old' = None))
      BY <1>6 DEF MoveAwayFails
    <2>4. swept' \in BOOLEAN
      BY <1>2, <2>3
    <2>5. exe \in Versions \/ old' \in Versions \/ swept'
      BY <1>1, <2>3
    <2> QED
      BY <1>2, <2>1, <2>2, <2>3, <2>4, <2>5, NewChanges DEF Installing
  <1> QED
    BY <1>3, <1>4, <1>5, <1>6

\* The binary is moved away: it was whole, since everybody who still runs
\* without one holds exe.old, and exe.old is what it becomes.
LEMMA MoveAwayStep ==
  ASSUME IInv, NEW p \in Pids, MoveAway(p)
  PROVE  IInv'
  <1>1. /\ proc[p].pc = "apply" /\ proc[p].pc # "none"
        /\ UNCHANGED <<kind, new, open, mutex, unguarded, pidFile, released, srv, shared, swept>>
    BY DEF MoveAway
  <1>2. p \in DOMAIN proc /\ proc[p] \in Proc /\ proc[p].tag \in Versions /\ p \in Alive
    BY <1>1, OneField, ProcIs DEF IInv
  <1>3. CASE kind = "cli"
    <2>1. Goto(p, "moved") /\ UNCHANGED <<exe, old>>
      BY <1>3 DEF MoveAway
    <2>2. PICK s : Advances(p, s) /\ s.pc = "moved"
      BY <1>1, <2>1, GotoEffect DEF Passed, Working
    <2>3. /\ proc' = [q \in Pids |-> proc'[q]] /\ \A q \in Pids : Local(proc[q])'
          /\ \A q \in Pids : proc'[q] = IF q = p THEN s ELSE proc[q]
          /\ Guarded'
      BY <1>1, <2>2, AdvanceKeeps
    <2>4. TypeOK'
      BY <1>1, <2>1, <2>3 DEF IInv, TypeOK
    <2>5. Alone' /\ NewWhole'
      BY <1>1, <2>2, <2>3 DEF IInv, Files, Alone, NewWhole, Installing
    <2>6. OneMoves' /\ Images' /\ Unix' /\ BinaryRemains'
      BY <1>1, <1>3, <2>1 DEF IInv, Files, OneMoves, Images, Unix, BinaryRemains
    <2> QED
      BY <2>3, <2>4, <2>5, <2>6 DEF IInv, Files
  <1>4. CASE kind = "gui"
    <2>1. /\ exe # None /\ ~Locked("old") /\ old' = exe /\ exe' = None
          /\ proc' = [ImagesMoved EXCEPT ![p].pc = "moved"]
      BY <1>4 DEF MoveAway
    <2>2. exe \in Versions
      BY <1>2, <1>4, <2>1 DEF Locked, IInv, Files, Images
    <2>3. \A q \in Pids : proc'[q] = IF q = p THEN [ImagesMoved[p] EXCEPT !.pc = "moved"]
                                    ELSE ImagesMoved[q]
      BY <2>1 DEF ImagesMoved
    <2>4. \A q \in Pids : \/ proc[q] = Dead /\ ImagesMoved[q] = Dead
                          \/ /\ proc[q] \in Proc /\ ImagesMoved[q] \in Proc
                             /\ Keeps(ImagesMoved[q], proc[q])
                             /\ ImagesMoved[q].pc = proc[q].pc
                             /\ ImagesMoved[q].image = "old"
                             /\ ImagesMoved[q].tag = proc[q].tag
                             /\ ImagesMoved[q].got = proc[q].got
      <3> TAKE q \in Pids
      <3>1. CASE q \in Alive
        <4>1. proc[q] \in Proc
          BY <3>1, ProcIs DEF IInv
        <4>2. ImagesMoved[q] = [proc[q] EXCEPT !.image = "old"]
          BY <3>1 DEF ImagesMoved
        <4> DEFINE i == [proc[q] EXCEPT !.image = "old"]
        <4>3. /\ i \in Proc /\ Keeps(i, proc[q]) /\ i.pc = proc[q].pc /\ i.image = "old"
              /\ i.tag = proc[q].tag /\ i.got = proc[q].got
          BY <4>1, SetImage
        <4> HIDE DEF i
        <4>4. ImagesMoved[q] = i
          BY <4>2 DEF i
        <4> QED
          BY <4>1, <4>3, <4>4
      <3>2. CASE q \notin Alive
        BY <3>2, ProcIs DEF IInv, ImagesMoved
      <3> QED
        BY <3>1, <3>2
    <2> DEFINE s == [ImagesMoved[p] EXCEPT !.pc = "moved"]
    <2>5. /\ s \in Proc /\ Keeps(s, proc[p]) /\ s.pc = "moved" /\ s.image = "old"
          /\ s.tag = proc[p].tag
      <3>1. ImagesMoved[p] \in Proc
        BY <1>1, <2>4 DEF Dead
      <3>2. /\ s \in Proc /\ Keeps(s, ImagesMoved[p]) /\ s.pc = "moved"
            /\ s.image = ImagesMoved[p].image /\ s.tag = ImagesMoved[p].tag
        BY <3>1, SetPc DEF Stages, Passed, Working
      <3> HIDE DEF s
      <3> QED
        BY <1>1, <2>4, <3>2 DEF Dead, Keeps
    <2>6. \A q \in Pids : proc'[q] = IF q = p THEN s ELSE ImagesMoved[q]
      BY <2>3
    <2> HIDE DEF s
    <2>7. \A q \in Pids :
            /\ proc'[q].pc = IF q = p THEN "moved" ELSE proc[q].pc
            /\ proc'[q] = Dead \/ (proc'[q] \in Proc /\ proc'[q].image = "old")
            /\ proc'[q] = Dead \/ Keeps(proc'[q], proc[q])
      BY <1>1, <2>4, <2>5, <2>6 DEF Dead
    <2>8. \A q \in Pids : Local(proc[q])'
      <3> SUFFICES ASSUME NEW q \in Pids, proc'[q] # Dead
                   PROVE  Local(proc[q])'
        BY DEF Local
      <3>1. proc[q] \in Proc /\ Local(proc[q]) /\ proc[q] # Dead
        BY <1>2, <2>4, <2>6 DEF IInv, TypeOK, Local, Dead, Proc, Stages, Passed, Working
      <3>2. Chain(proc[q])'
        BY <1>1, <1>4, <2>7, <3>1 DEF Local, Chain, Keeps, Working, Marked
      <3>3. /\ proc'[q].pc \in {"get", "copy", "apply", "moved"} => proc'[q].tag \in Versions
            /\ proc'[q].pc = "copy" => proc'[q].got \in Versions
        <4>1. CASE q = p
          BY <1>2, <2>5, <2>6, <4>1
        <4>2. CASE q # p
          BY <2>4, <2>6, <3>1, <4>2 DEF Local
        <4> QED
          BY <4>1, <4>2
      <3> QED
        BY <2>7, <3>2, <3>3 DEF Local
    <2>9. TypeOK'
      BY <1>1, <2>1, <2>8 DEF IInv, TypeOK, ImagesMoved
    <2>10. Guarded'
      BY <1>1, <1>4, <2>7 DEF IInv, Guarded, Working, Keeps, Dead
    <2>11. Alone' /\ NewWhole'
      BY <1>1, <2>7 DEF IInv, Files, Alone, NewWhole, Installing
    <2>12. OneMoves'
      BY <1>4, <2>1, <2>7 DEF IInv, Files, OneMoves
    <2>13. Images'
      BY <2>7 DEF Images, Alive, Dead
    <2>14. Unix' /\ BinaryRemains'
      BY <1>1, <1>4, <2>1, <2>2, SelfUpdateAssumption DEF Unix, BinaryRemains
    <2> QED
      BY <2>9, <2>10, <2>11, <2>12, <2>13, <2>14 DEF IInv, Files
  <1> QED
    BY <1>3, <1>4 DEF IInv, TypeOK

\* exe.new becomes the binary.  Where it is a piece, two processes wrote it, and
\* there was no binary: what was moved away is still there.
LEMMA MoveInStep ==
  ASSUME IInv, NEW p \in Pids, MoveIn(p)
  PROVE  IInv'
  <1>1. /\ proc[p].pc = "moved" /\ new # None /\ exe' = new /\ new' = None
        /\ Goto(p, "reexec")
        /\ UNCHANGED <<kind, old, open, mutex, unguarded, pidFile, released, srv, shared, swept>>
    BY DEF MoveIn
  <1>2. PICK s : Advances(p, s) /\ s.pc = "reexec"
    BY <1>1, GotoEffect DEF Passed, Working
  <1>3. /\ proc' = [q \in Pids |-> proc'[q]] /\ \A q \in Pids : Local(proc[q])'
        /\ \A q \in Pids : proc'[q] = IF q = p THEN s ELSE proc[q]
        /\ Guarded'
        /\ \A q \in Pids : proc'[q].pc # "none" =>
               proc[q].pc # "none" /\ proc'[q].image = proc[q].image
    BY <1>1, <1>2, AdvanceKeeps
  <1>4. new \in Versions \cup {Partial} /\ (~shared => new \in Versions)
    BY <1>1 DEF IInv, TypeOK, Files, NewWhole
  <1>5. kind = "gui" => exe = None
    BY <1>1 DEF IInv, Files, OneMoves
  <1>6. TypeOK'
    BY <1>1, <1>3 DEF IInv, TypeOK
  <1>7. Alone' /\ NewWhole'
    BY <1>1, <1>2, <1>3 DEF IInv, Files, Alone, NewWhole, Installing
  <1>8. OneMoves'
    BY <1>1, <1>2, <1>3 DEF IInv, Files, OneMoves
  <1>9. exe \notin Versions \/ kind = "cli"
    BY <1>5, SelfUpdateAssumption DEF Versions, IInv, TypeOK
  <1>10. Images'
    BY <1>1, <1>3, <1>9 DEF IInv, Files, Images, Alive
  <1>11. Unix'
    BY <1>1, <1>4 DEF IInv, Files, Unix
  <1>12. BinaryRemains'
    BY <1>1, <1>4, <1>9, SelfUpdateAssumption DEF IInv, Files, Unix, BinaryRemains, Versions
  <1> QED
    BY <1>3, <1>6, <1>7, <1>8, <1>10, <1>11, <1>12 DEF IInv, Files

\* The steps of one update.
LEMMA UpdateStep ==
  ASSUME IInv, NEW p \in Pids,
         \/ CleanupOldFiles(p) \/ CheckAndUpdate(p) \/ SourceFails(p) \/ OpenNew(p)
         \/ CopyDone(p) \/ CopyFails(p) \/ Unchanged(p) \/ MoveAway(p)
         \/ MoveAwayFails(p) \/ MoveIn(p) \/ MoveInFails(p)
  PROVE  IInv'
  BY SearchSteps, OpenNewStep, CopySteps, MoveAwayStep, MoveInStep

-------------------------------------------------------------------------------
(* Processes that start, pass the guard, start others and end. *)

\* A process that is not an installer takes the place of what p was.
LEMMA ProcessChanges ==
  ASSUME IInv, NEW p \in Pids, NEW s, Local(s), proc' = [proc EXCEPT ![p] = s],
         s.pc \notin Installing,
         \/ s = Dead \/ exe \in Versions
         \/ proc[p].pc # "none" /\ s.image = proc[p].image,
         UNCHANGED <<kind, exe, new, old, released, srv, shared, swept>>,
         open' \subseteq open, mutex' \in [Sessions -> Pids \cup {None}],
         pidFile' \in Pids \cup {None},
         unguarded' \subseteq Pids,
         s.pc \in Working /\ kind = "gui" => mutex'[s.sess] = p \/ p \in unguarded',
         s.pc \in Passed /\ kind = "cli" => pidFile' = p,
         \A q \in Pids \ {p} :
            /\ \A r \in Sessions : mutex[r] = q => mutex'[r] = q
            /\ pidFile = q => pidFile' = q
            /\ q \in unguarded => q \in unguarded'
  PROVE  IInv'
  <1>1. /\ proc' = [q \in Pids |-> proc'[q]] /\ \A q \in Pids : Local(proc[q])'
        /\ \A q \in Pids : proc'[q] = IF q = p THEN s ELSE proc[q]
    BY Replaced DEF IInv
  <1>2. TypeOK'
    BY <1>1 DEF IInv, TypeOK
  <1>3. Guarded'
    <2> SUFFICES ASSUME NEW q \in Pids
                 PROVE  /\ kind = "gui" /\ proc'[q].pc \in Working =>
                              mutex'[proc'[q].sess] = q \/ q \in unguarded'
                        /\ kind = "cli" /\ proc'[q].pc \in Passed => pidFile' = q
      BY DEF Guarded
    <2>1. CASE q = p
      BY <1>1, <2>1
    <2>2. CASE q # p
      <3>1. proc'[q] = proc[q]
        BY <1>1, <2>2
      <3>2. proc[q].pc \in Working => proc[q].sess \in Sessions
        BY ProcIs DEF IInv, Working, Proc
      <3> QED
        BY <2>2, <3>1, <3>2 DEF IInv, Guarded
    <2> QED
      BY <2>1, <2>2
  <1>4. Files'
    <2>1. \A q \in Pids :
            /\ proc'[q].pc \in Installing => proc'[q].pc = proc[q].pc
            /\ proc'[q].pc # "none" =>
                  \/ exe \in Versions
                  \/ proc[q].pc # "none" /\ proc'[q].image = proc[q].image
      BY <1>1 DEF Dead
    <2> QED
      BY <2>1, QuietFiles DEF IInv, Files, BinaryRemains
  <1> QED
    BY <1>2, <1>3, <1>4 DEF IInv

\* The user starts the program, and ensureAdmin.
LEMMA StartSteps ==
  ASSUME IInv, NEW p \in Pids,
         (\E s \in Sessions : Launch(p, s)) \/ AlreadyElevated(p) \/ ensureAdmin(p)
  PROVE  IInv'
  <1>1. /\ UNCHANGED <<kind, disk, open, mutex, unguarded, pidFile, released, srv, shared, swept>>
        /\ mutex \in [Sessions -> Pids \cup {None}] /\ pidFile \in Pids \cup {None}
        /\ unguarded \subseteq Pids /\ kind \in {"gui", "cli"}
    BY DEF Launch, AlreadyElevated, ensureAdmin, IInv, TypeOK
  <1>2. SUFFICES \E s : /\ Local(s) /\ proc' = [proc EXCEPT ![p] = s]
                        /\ s.pc \in {"admin", "guard"}
                        /\ \/ exe \in Versions
                           \/ proc[p].pc # "none" /\ s.image = proc[p].image
    BY <1>1, ProcessChanges DEF disk, Installing, Working, Passed
  <1>3. CASE \E s \in Sessions : Launch(p, s)
    <2>1. PICK s \in Sessions : Launch(p, s)
      BY <1>3
    <2> DEFINE r == Process(s, {}, 0)
    <2>2. exe \in Versions /\ proc' = [proc EXCEPT ![p] = r]
      BY <2>1 DEF Launch
    <2>3. /\ r \in Proc /\ r.env = {} /\ r.depth = 0
          /\ r.pc = IF kind = "gui" THEN "admin" ELSE "guard"
      BY <1>1, <2>2, ProcessIs
    <2> HIDE DEF r
    <2>4. Local(r)
      BY <1>1, <2>3 DEF Local, Chain, Working, Marked
    <2> QED
      BY <2>2, <2>3, <2>4
  <1>4. ASSUME proc[p].pc = "admin"
        PROVE  /\ p \in DOMAIN proc /\ proc[p] \in Proc
               /\ kind = "gui" => Chain(proc[p])
    BY <1>4, OneField DEF IInv, TypeOK, Local, Dead
  <1>5. CASE AlreadyElevated(p)
    <2> DEFINE r == [proc[p] EXCEPT !.pc = "guard"]
    <2>1. /\ proc[p].pc = "admin" /\ proc' = [proc EXCEPT ![p] = r]
          /\ Marked(proc[p].env)
      BY <1>5 DEF AlreadyElevated, Goto, Marked
    <2>2. r \in Proc /\ Keeps(r, proc[p]) /\ r.pc = "guard" /\ r.image = proc[p].image
      BY <1>4, <2>1, SetPc DEF Stages
    <2> HIDE DEF r
    <2>3. Local(r)
      BY <1>4, <2>1, <2>2 DEF Local, Chain, Keeps, Working
    <2> QED
      BY <2>1, <2>2, <2>3
  <1>6. CASE ensureAdmin(p)
    <2>1. proc[p].pc = "admin" /\ ~Marked(proc[p].env)
      BY <1>6 DEF ensureAdmin, Marked
    <2>2. proc[p].env \subseteq Marks /\ proc[p].sess \in Sessions /\ proc[p].depth \in Nat
      BY <1>4, <2>1 DEF Proc
    <2>3. kind = "gui" => proc[p].depth = 0 /\ "relaunched" \notin proc[p].env
      BY <1>4, <2>1 DEF Chain
    <2>4. CASE /\ exe \in Versions
               /\ \E env \in RunasEnv(proc[p].env) :
                     proc' = [proc EXCEPT ![p] = Process(@.sess, env, @.depth + 1)]
      <3>1. PICK env \in RunasEnv(proc[p].env) :
               proc' = [proc EXCEPT ![p] = Process(@.sess, env, @.depth + 1)]
        BY <2>4
      <3> DEFINE r == Process(proc[p].sess, env, proc[p].depth + 1)
      <3>2. /\ env \subseteq Marks /\ Marked(env)
            /\ kind = "gui" => "relaunched" \notin env
        BY <2>2, <2>3 DEF RunasEnv, Marks, Marked
      <3>3. proc[p].depth + 1 \in Nat
        BY <2>2
      <3>4. /\ r \in Proc /\ r.env = env /\ r.depth = proc[p].depth + 1
            /\ r.pc = IF kind = "gui" THEN "admin" ELSE "guard"
        BY <1>1, <2>2, <2>4, <3>2, <3>3, ProcessIs
      <3>5. proc' = [proc EXCEPT ![p] = r]
        BY <3>1
      <3> HIDE DEF r
      <3>6. kind = "gui" => r.depth = 1
        BY <2>3, <3>4
      <3>7. Local(r)
        BY <1>1, <3>2, <3>4, <3>6 DEF Local, Chain, Working
      <3> QED
        BY <2>4, <3>4, <3>5, <3>7
    <2>5. CASE proc' = [proc EXCEPT ![p].pc = "guard", ![p].env = @ \cup {"tried"}]
      <3> DEFINE a == [proc[p] EXCEPT !.pc = "guard"]
                 r == [a EXCEPT !.env = proc[p].env \cup {"tried"}]
      <3>1. proc' = [proc EXCEPT ![p] = r]
        BY <1>4, <2>1, <2>5
      <3>2. a \in Proc /\ Keeps(a, proc[p]) /\ a.pc = "guard" /\ a.image = proc[p].image
        BY <1>4, <2>1, SetPc DEF Stages
      <3> HIDE DEF a
      <3>3. /\ r \in Proc /\ r.env = proc[p].env \cup {"tried"} /\ r.pc = a.pc
            /\ r.image = a.image /\ r.depth = a.depth
        BY <2>2, <3>2, SetEnv DEF Marks
      <3> HIDE DEF r
      <3>4. Local(r)
        BY <2>3, <3>2, <3>3 DEF Local, Chain, Working, Marked, Keeps
      <3> QED
        BY <2>1, <3>1, <3>2, <3>3, <3>4
    <2> QED
      BY <1>6, <2>4, <2>5 DEF ensureAdmin
  <1> QED
    BY <1>3, <1>5, <1>6

\* Past the guard: the process it has become.
LEMMA StartedIs ==
  ASSUME IInv, NEW p \in Pids, proc[p].pc = "guard"
  PROVE  \E s : /\ Started(p) = [proc EXCEPT ![p] = s]
                /\ Local(s) /\ s \in Proc /\ s.image = proc[p].image /\ s.sess = proc[p].sess
                /\ s.pc = IF "relaunched" \in proc[p].env THEN "idle" ELSE "tag"
  <1>1. p \in DOMAIN proc /\ proc[p] \in Proc /\ (kind = "gui" => Chain(proc[p]))
    BY OneField DEF IInv, TypeOK, Local, Dead
  <1> DEFINE x == IF "relaunched" \in proc[p].env THEN "idle" ELSE "tag"
             a == [proc[p] EXCEPT !.pc = x]
             s == [a EXCEPT !.clean = TRUE]
  <1>2. Started(p) = [proc EXCEPT ![p] = s]
    BY <1>1 DEF Started
  <1>7. x \in Stages
    BY DEF Stages, Passed, Working
  <1> HIDE DEF x
  <1>3. a \in Proc /\ Keeps(a, proc[p]) /\ a.pc = x /\ a.image = proc[p].image
    BY <1>1, <1>7, SetPc
  <1> HIDE DEF a
  <1>4. s \in Proc /\ Keeps(s, a) /\ s.pc = a.pc /\ s.image = a.image
    BY <1>3, SetClean
  <1> HIDE DEF s
  <1>5. /\ Keeps(s, proc[p]) /\ s.image = proc[p].image
        /\ s.pc = IF "relaunched" \in proc[p].env THEN "idle" ELSE "tag"
    BY <1>3, <1>4 DEF Keeps, x
  <1>6. Local(s)
    BY <1>1, <1>4, <1>5 DEF Local, Chain, Keeps, Working
  <1> QED
    BY <1>2, <1>4, <1>5, <1>6 DEF Keeps

\* The mutex lets one process of a session past, and nobody takes it from who
\* has it.
LEMMA GuardSteps ==
  ASSUME IInv, NEW p \in Pids, acquireSingleInstance(p) \/ tryAcquireSingleInstance(p)
  PROVE  IInv'
  <1>1. /\ kind = "gui" /\ proc[p].pc = "guard" /\ proc[p].pc # "none"
        /\ UNCHANGED <<kind, disk, open, pidFile, released, srv, shared, swept>>
    BY DEF acquireSingleInstance, tryAcquireSingleInstance
  <1>2. /\ proc[p].sess \in Sessions /\ mutex \in [Sessions -> Pids \cup {None}]
        /\ pidFile \in Pids \cup {None} /\ unguarded \subseteq Pids
    BY <1>1, OneField DEF IInv, TypeOK, Proc
  <1>3. PICK s : /\ Started(p) = [proc EXCEPT ![p] = s]
                 /\ Local(s) /\ s \in Proc /\ s.image = proc[p].image /\ s.sess = proc[p].sess
                 /\ s.pc = IF "relaunched" \in proc[p].env THEN "idle" ELSE "tag"
    BY <1>1, StartedIs
  <1>4. /\ mutex' \in [Sessions -> Pids \cup {None}]
        /\ \A q \in Pids \ {p}, r \in Sessions : mutex[r] = q => mutex'[r] = q
        /\ unguarded' \subseteq Pids /\ unguarded \subseteq unguarded'
    BY <1>2, SelfUpdateAssumption DEF acquireSingleInstance, tryAcquireSingleInstance
  <1>5. CASE proc' = Ended(p)
    <2>1. Local(Dead) /\ Dead.pc = "none"
      BY DEF Local, Dead
    <2> QED
      BY <1>1, <1>2, <1>4, <1>5, <2>1, ProcessChanges
         DEF Ended, disk, Installing, Working, Passed
  <1>6. CASE /\ proc' = Started(p)
             /\ \/ "relaunched" \in proc[p].env \/ mutex'[proc[p].sess] = p
                \/ p \in unguarded'
    <2>1. /\ s.pc \in {"idle", "tag"}
          /\ s.pc \in Working => mutex'[s.sess] = p \/ p \in unguarded'
      BY <1>3, <1>6 DEF Working
    <2> QED
      BY <1>1, <1>2, <1>3, <1>4, <1>6, <2>1, ProcessChanges DEF disk, Installing
  <1> QED
    BY <1>2, <1>5, <1>6 DEF acquireSingleInstance, tryAcquireSingleInstance

\* The command-line client that passes the guard ends the one that had passed.
LEMMA KillStep ==
  ASSUME IInv, NEW p \in Pids, killStaleClient(p)
  PROVE  IInv'
  <1>1. /\ kind = "cli" /\ proc[p].pc = "guard" /\ pidFile' = p
        /\ open' = open \ {pidFile}
        /\ UNCHANGED <<kind, disk, mutex, unguarded, released, srv, shared, swept>>
    BY DEF killStaleClient
  <1>2. PICK s : /\ Started(p) = [proc EXCEPT ![p] = s]
                 /\ Local(s) /\ s \in Proc
                 /\ s.pc = IF "relaunched" \in proc[p].env THEN "idle" ELSE "tag"
    BY <1>1, StartedIs
  <1>3. \A q \in Pids : proc'[q] = IF q = p THEN s
                                   ELSE IF q = pidFile THEN Dead ELSE proc[q]
    BY <1>2 DEF killStaleClient, IInv, TypeOK
  <1>4. proc' = [q \in Pids |-> proc'[q]]
    BY <1>2 DEF killStaleClient, IInv, TypeOK
  <1>5. \A q \in Pids : Local(proc[q])'
    <2>1. \A q \in Pids : Local(proc'[q])
      BY <1>2, <1>3 DEF IInv, TypeOK, Local
    <2> QED
      BY <1>1, <2>1 DEF Local, Chain, Marked
  <1>6. TypeOK'
    BY <1>1, <1>4, <1>5 DEF IInv, TypeOK, disk
  <1>7. Guarded'
    BY <1>1, <1>3 DEF IInv, Guarded, Dead, Passed, Working
  <1>8. Files'
    <2>1. exe \in Versions
      BY <1>1 DEF IInv, Files, Unix
    <2>2. \A q \in Pids : proc'[q].pc \in Installing => proc'[q].pc = proc[q].pc
      BY <1>2, <1>3 DEF Installing, Dead
    <2> QED
      BY <1>1, <2>1, <2>2, QuietFiles DEF disk
  <1> QED
    BY <1>6, <1>7, <1>8 DEF IInv

\* A process ends; what it owned is free.
LEMMA EndSteps ==
  ASSUME IInv, NEW p \in Pids, End(p) \/ Exit(p)
  PROVE  IInv'
  <1>1. /\ proc' = [proc EXCEPT ![p] = Dead] /\ mutex' = Released(p) /\ open' \subseteq open
        /\ unguarded' = unguarded \ {p}
        /\ UNCHANGED <<kind, disk, released, srv, shared, swept>>
        /\ pidFile' = pidFile \/ (pidFile = p /\ pidFile' \in {p, None})
    BY DEF End, Exit, Ended
  <1>2. /\ mutex \in [Sessions -> Pids \cup {None}] /\ pidFile \in Pids \cup {None}
        /\ unguarded \subseteq Pids
    BY DEF IInv, TypeOK
  <1>3. /\ mutex' \in [Sessions -> Pids \cup {None}]
        /\ \A q \in Pids \ {p}, r \in Sessions : mutex[r] = q => mutex'[r] = q
    BY <1>1, <1>2 DEF Released
  <1>4. /\ pidFile' \in Pids \cup {None}
        /\ \A q \in Pids \ {p} : /\ pidFile = q => pidFile' = q
                               /\ q \in unguarded => q \in unguarded'
        /\ unguarded' \subseteq Pids
    BY <1>1, <1>2
  <1>5. Local(Dead) /\ Dead.pc = "none"
    BY DEF Local, Dead
  <1> QED
    BY <1>1, <1>3, <1>4, <1>5, ProcessChanges DEF disk, Installing, Working, Passed

\* Windows: the successor is marked, and there is none of a successor.
LEMMA ReexecStep ==
  ASSUME IInv, NEW p \in Pids, reexec(p)
  PROVE  IInv'
  <1>1. /\ kind = "gui" /\ proc[p].pc = "reexec" /\ proc[p].pc # "none"
        /\ UNCHANGED <<kind, disk, open, mutex, unguarded, pidFile, released, srv, shared, swept>>
    BY DEF reexec
  <1>2. p \in DOMAIN proc /\ proc[p] \in Proc /\ Chain(proc[p])
    BY <1>1, OneField DEF IInv, TypeOK, Local, Dead
  <1>3. CASE Goto(p, "idle")
    <2>1. PICK s : Advances(p, s) /\ s.pc = "idle"
      BY <1>1, <1>3, GotoEffect DEF Passed
    <2> QED
      BY <1>1, <2>1, QuietAdvance DEF disk, Installing, IInv, TypeOK, Files, BinaryRemains
  <1>4. CASE /\ exe \in Versions
             /\ \E q \in Pids \ Alive :
                   proc' = [proc EXCEPT ![p].pc = "exit",
                     ![q] = Process(proc[p].sess, ReexecEnv(proc[p].env), proc[p].depth + 1)]
    <2>1. PICK q \in Pids \ Alive :
             proc' = [proc EXCEPT ![p].pc = "exit",
               ![q] = Process(proc[p].sess, ReexecEnv(proc[p].env), proc[p].depth + 1)]
      BY <1>4
    <2> DEFINE s == [proc[p] EXCEPT !.pc = "exit"]
               r == Process(proc[p].sess, ReexecEnv(proc[p].env), proc[p].depth + 1)
    <2>2. p # q
      BY <1>1, <2>1, ProcIs DEF IInv
    <2>3. \A o \in Pids : proc'[o] = IF o = p THEN s ELSE IF o = q THEN r ELSE proc[o]
      BY <1>2, <2>1, <2>2 DEF IInv, TypeOK
    <2>4. s \in Proc /\ Keeps(s, proc[p]) /\ s.pc = "exit"
      BY <1>2, SetPc DEF Stages, Passed, Working
    <2> HIDE DEF s
    <2>5. /\ ReexecEnv(proc[p].env) \subseteq Marks /\ "relaunched" \in ReexecEnv(proc[p].env)
          /\ Marked(ReexecEnv(proc[p].env))
      BY <1>1, <1>2 DEF ReexecEnv, Marks, Marked, Proc, Chain
    <2>6. proc[p].depth \in Nat /\ proc[p].depth <= 1 /\ proc[p].sess \in Sessions
      BY <1>1, <1>2 DEF Proc, Chain, Working
    <2>7. proc[p].depth + 1 \in Nat /\ proc[p].depth + 1 <= 2
      BY <2>6
    <2>8. /\ r \in Proc /\ r.env = ReexecEnv(proc[p].env) /\ r.depth = proc[p].depth + 1
          /\ r.pc = "admin"
      BY <1>1, <1>4, <2>5, <2>6, <2>7, ProcessIs
    <2> HIDE DEF r
    <2>9. Local(s) /\ Local(r)
      <3>1. Chain(s)
        BY <1>1, <1>2, <2>4 DEF Chain, Keeps, Working
      <3>2. Chain(r)
        BY <2>5, <2>7, <2>8 DEF Chain, Working
      <3> QED
        BY <2>4, <2>8, <3>1, <3>2 DEF Local
    <2>10. \A o \in Pids : Local(proc[o])'
      <3>1. \A o \in Pids : Local(proc'[o])
        BY <2>3, <2>9 DEF IInv, TypeOK
      <3> QED
        BY <1>1, <3>1 DEF Local, Chain, Marked
    <2>11. proc' = [o \in Pids |-> proc'[o]]
      BY <2>1 DEF IInv, TypeOK
    <2>12. TypeOK'
      BY <1>1, <2>10, <2>11 DEF IInv, TypeOK, disk
    <2>13. Guarded'
      BY <1>1, <2>3, <2>4, <2>8 DEF IInv, Guarded, Keeps, Working
    <2>14. \A o \in Pids : proc'[o].pc \in Installing => proc'[o].pc = proc[o].pc
      BY <2>3, <2>4, <2>8 DEF Installing
    <2>15. Files'
      BY <1>1, <1>4, <2>14, QuietFiles DEF disk
    <2> QED
      BY <2>12, <2>13, <2>15 DEF IInv
  <1> QED
    BY <1>3, <1>4 DEF reexec

\* Unix: the same process, with a new binary.
LEMMA ExecStep ==
  ASSUME IInv, NEW p \in Pids, syscallExec(p)
  PROVE  IInv'
  <1>1. /\ kind = "cli" /\ proc[p].pc = "reexec" /\ proc[p].pc # "none"
        /\ UNCHANGED <<kind, disk, open, mutex, unguarded, pidFile, released, srv, shared, swept>>
        /\ exe \in Versions
    BY DEF syscallExec, IInv, Files, Unix
  <1>2. p \in DOMAIN proc /\ proc[p] \in Proc
    BY <1>1, OneField DEF IInv
  <1> DEFINE r == Process(proc[p].sess, proc[p].env, proc[p].depth + 1)
  <1>3. proc' = [proc EXCEPT ![p] = r]
    BY <1>1 DEF syscallExec
  <1>4. /\ proc[p].env \subseteq Marks /\ proc[p].sess \in Sessions
        /\ proc[p].depth + 1 \in Nat
    BY <1>2 DEF Proc
  <1>5. r \in Proc /\ r.pc = "guard"
    BY <1>1, <1>4, ProcessIs
  <1> HIDE DEF r
  <1>6. Local(r)
    BY <1>1, <1>5 DEF Local
  <1>7. /\ UNCHANGED <<mutex, unguarded, pidFile, open>> /\ unguarded \subseteq Pids
        /\ mutex' \in [Sessions -> Pids \cup {None}] /\ pidFile' \in Pids \cup {None}
    BY <1>1 DEF IInv, TypeOK
  <1> QED
    BY <1>1, <1>3, <1>5, <1>6, <1>7, ProcessChanges DEF disk, Installing, Working, Passed

\* Releases, servers and sibling programs.
LEMMA WorldSteps ==
  ASSUME IInv, Release \/ SiblingCleanup \/ \E m \in Mirrors : ServerStart(m)
  PROVE  IInv'
  <1>1. UNCHANGED <<kind, exe, new, open, proc, mutex, unguarded, pidFile, shared>>
    BY DEF Release, SiblingCleanup, ServerStart, disk
  <1>2. /\ exe \in Versions \/ old \in Versions \/ swept
        /\ None \notin Versions
        /\ swept \in BOOLEAN /\ released \in Versions
        /\ srv \in [Mirrors -> [ver : Versions, stamp : Versions, asset : Versions \cup {None}]]
    BY SelfUpdateAssumption DEF IInv, Files, BinaryRemains, TypeOK, Versions
  <1>3. exe \in Versions \/ old' \in Versions \/ swept'
    BY <1>2 DEF Release, SiblingCleanup, ServerStart, disk
  <1>4. swept' \in BOOLEAN
    BY <1>2 DEF Release, SiblingCleanup, ServerStart
  <1>5. released' \in Versions
    BY <1>2, SelfUpdateAssumption DEF Release, SiblingCleanup, ServerStart, Versions
  <1>6. srv' \in [Mirrors -> [ver : Versions, stamp : Versions, asset : Versions \cup {None}]]
    <2>1. CASE UNCHANGED srv
      BY <1>2, <2>1
    <2>2. ASSUME NEW m \in Mirrors, ServerStart(m)
          PROVE  srv' \in [Mirrors -> [ver : Versions, stamp : Versions,
                                       asset : Versions \cup {None}]]
      <3>1. PICK v \in srv[m].ver .. released : checkUpdateAssets(m, v)
        BY <2>2 DEF ServerStart
      <3>2. v \in Versions
        BY <1>2, <3>1, SelfUpdateAssumption DEF Versions
      <3>3. PICK fetched \in BOOLEAN :
              srv' = [srv EXCEPT ![m] =
                [ver |-> v, stamp |-> v,
                 asset |-> IF @.stamp = v /\ @.asset # None THEN @.asset
                           ELSE IF fetched THEN v ELSE @.asset]]
        BY <3>1 DEF checkUpdateAssets
      <3>4. srv[m].asset \in Versions \cup {None}
        BY <1>2
      <3> QED
        BY <1>2, <3>2, <3>3, <3>4
    <2> QED
      BY <2>1, <2>2 DEF Release, SiblingCleanup
  <1>7. TypeOK'
    BY <1>1, <1>4, <1>5, <1>6 DEF IInv, TypeOK, Local, Chain, Marked
  <1>8. Guarded' /\ Files'
    <2>1. Guarded'
      BY <1>1 DEF IInv, Guarded
    <2> QED
      BY <1>1, <1>3, <2>1, QuietFiles
  <1> QED
    BY <1>7, <1>8 DEF IInv

-------------------------------------------------------------------------------
(* The theorems. *)

\* At first there is one binary and nobody runs.
LEMMA InitIInv == Init => IInv
  <1> SUFFICES ASSUME Init
               PROVE  IInv
    OBVIOUS
  <1>1. 1 \in Versions /\ None \notin Versions /\ Partial \notin Versions
    BY SelfUpdateAssumption DEF Versions
  <1>2. \A p \in Pids : proc[p] = Dead /\ proc[p].pc = "none" /\ Local(proc[p])
    BY DEF Init, Local, Dead
  <1>3. TypeOK
    BY <1>1, <1>2 DEF Init, TypeOK
  <1>4. Guarded
    BY <1>2 DEF Guarded, Working, Passed
  <1>5. Alone /\ NewWhole /\ OneMoves
    BY <1>2 DEF Alone, NewWhole, OneMoves, Installing
  <1>6. Images /\ Unix
    BY <1>1 DEF Init, Images, Unix
  <1>7. BinaryRemains
    BY <1>1 DEF Init, BinaryRemains
  <1> QED
    BY <1>3, <1>4, <1>5, <1>6, <1>7 DEF IInv, Files

\* Every step preserves the invariant.
LEMMA StepIInv == IInv /\ [Next]_vars => IInv'
  <1> SUFFICES ASSUME IInv, [Next]_vars
               PROVE  IInv'
    OBVIOUS
  <1>1. CASE UNCHANGED vars
    <2>1. UNCHANGED <<kind, exe, new, old, open, proc, mutex, unguarded, pidFile, released, srv,
                      shared, swept>>
      BY <1>1 DEF vars, disk
    <2>2. TypeOK'
      BY <2>1 DEF IInv, TypeOK, Local, Chain, Marked
    <2>3. Guarded' /\ Files'
      <3>1. Guarded'
        BY <2>1 DEF IInv, Guarded
      <3> QED
        BY <2>1, <3>1, QuietFiles DEF IInv, Files, BinaryRemains
    <2> QED
      BY <2>2, <2>3 DEF IInv
  <1>2. CASE Next
    BY <1>2, WorldSteps, StartSteps, GuardSteps, KillStep, UpdateStep, ReexecStep,
       ExecStep, EndSteps DEF Next
  <1> QED
    BY <1>1, <1>2

\* The invariant holds throughout.
THEOREM Invariance == Spec => []IInv
  BY InitIInv, StepIInv, PTL DEF Spec

\* The processes, the files and the mirrors keep their types.
THEOREM TypeCorrect == Spec => []TypeOK
  <1>1. IInv => TypeOK
    BY DEF IInv
  <1> QED
    BY <1>1, Invariance, PTL

\* applyBinary: however an update is cut short, the binary is whole, or a whole
\* one is there as exe.old.
THEOREM NeverWithoutBinary == Spec => []BinaryRemains
  <1>1. IInv => BinaryRemains
    BY DEF IInv, Files
  <1> QED
    BY <1>1, Invariance, PTL

\* acquireSingleInstance: in one session, one process installs at a time, unless
\* one of two went on after CreateMutex had failed for it.
THEOREM OneInstaller == Spec => []OneUpdater
  <1>1. IInv => OneUpdater
    <2> SUFFICES ASSUME IInv, kind = "gui", NEW p \in Alive \ unguarded,
                        NEW q \in Alive \ unguarded, proc[p].sess = proc[q].sess,
                        proc[p].pc \in Installing, proc[q].pc \in Installing
                 PROVE  p = q
      BY DEF OneUpdater
    <2> QED
      BY DEF IInv, Guarded, Alive, Working, Installing
  <1> QED
    BY <1>1, Invariance, PTL

\* ensureAdmin and reexec: the marks in the environment bound every chain.
THEOREM RestartsBounded == Spec => []ChainEnds
  <1>1. IInv => ChainEnds
    BY DEF IInv, TypeOK, Local, Chain, ChainEnds, Alive, Dead
  <1> QED
    BY <1>1, Invariance, PTL
===============================================================================
