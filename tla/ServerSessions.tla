---------------------------- MODULE ServerSessions ----------------------------
(***************************************************************************)
(* The server's session table and its administration: authentication,       *)
(* time-out, disconnection, kick, bans of addresses and logins, the ban      *)
(* files and a restart.  Every action is one critical section of s.mu (or   *)
(* the work between two of them); an authentication and an API request take *)
(* several, so they interleave.                                             *)
(*                                                                          *)
(* An attempt is one AuthHello and the session it may become; its random    *)
(* session identifier is taken to be unique.                                *)
(***************************************************************************)
EXTENDS Naturals, FiniteSets

CONSTANTS
    Attempts,          \* authentication attempts, in any order
    IPs, Logins, Hubs,
    ipOf, loginOf, hubOf, \* what an attempt says: functions on Attempts
    Streams,           \* the attempts over a stream transport (TLS, Reality)
    Admins,            \* API requests served at the same time
    Corrupt,           \* content of a file whose writing was cut short
    MaxOps,            \* bound: number of API requests
    MaxRestarts        \* bound: number of restarts

ASSUME SessionsAssumption ==
    /\ ipOf \in [Attempts -> IPs] /\ loginOf \in [Attempts -> Logins]
    /\ hubOf \in [Attempts -> Hubs] /\ Streams \subseteq Attempts
    /\ \A S \in (SUBSET IPs) \cup (SUBSET (Logins \X Hubs)) : Corrupt # S
    /\ IsFiniteSet(Admins) /\ MaxOps \in Nat /\ MaxRestarts \in Nat

VARIABLES
    auth,        \* per attempt, how far handleAuth has come
    sessions,    \* s.sessions
    clients,     \* the hubs' members
    running,     \* sessions whose flush and repair goroutines run
    cancelled,   \* sessions whose context was cancelled
    ended,       \* stream sessions whose serveStream loop has returned
    leaving,     \* sessions removeSession has taken out of s.sessions only
    kicked,      \* s.kicked: logins blocked for kickBlockDuration
    banned,      \* s.bannedIPs and s.bannedLogins
    ipToLogins,  \* s.ipToLogins
    disk,        \* banned_ips.json and banned_logins.json
    admin,       \* the API requests in progress
    ops, restarts,
    unsaved,     \* history: lists whose last save failed or was cut short
    early,       \* history: sessions removed before handleAuth had joined the hub
    overtaken,   \* history: attempts cleared before a login ban and inserted after
    loginKicked  \* history: logins blocked by a login ban

vars == <<auth, sessions, clients, running, cancelled, ended, leaving, kicked,
          banned, ipToLogins, disk, admin, ops, restarts, unsaved, early,
          overtaken, loginKicked>>

authVars  == <<auth, running, cancelled, ended, leaving>>
banVars   == <<kicked, banned, ipToLogins, loginKicked>>
fileVars  == <<disk, unsaved>>
adminVars == <<admin, ops, restarts, early, overtaken>>

Account == Logins \X Hubs
accountOf(a) == <<loginOf[a], hubOf[a]>>

Stage == {"away", "hello", "cleared", "inserted", "up", "gone"}

Lists == {"ip", "login"}
Entries(list) == IF list = "ip" THEN IPs ELSE Account

\* An API request: its next step, the list it changes, the entry it is about,
\* the step after saving, the sessions it still has to close, its snapshot.
NoRequest == [pc |-> "idle", list |-> "ip", about |-> {}, then |-> "idle",
              close |-> {}, snap |-> {}]

APIRequest == [pc : {"idle", "banip", "save", "open", "write", "collect", "leave"},
               list : Lists, about : SUBSET (IPs \cup Account),
               then : {"idle", "collect", "leave"},
               close : SUBSET Attempts, snap : SUBSET (IPs \cup Account)]

-------------------------------------------------------------------------------

Init ==
    /\ auth = [a \in Attempts |-> "away"]
    /\ sessions = {} /\ clients = {} /\ running = {} /\ cancelled = {}
    /\ ended = {} /\ leaving = {}
    /\ kicked = {} /\ ipToLogins = [i \in IPs |-> {}]
    /\ banned = [l \in Lists |-> {}]
    /\ disk = [l \in Lists |-> {}]
    /\ admin = [w \in Admins |-> NoRequest]
    /\ ops = 0 /\ restarts = 0
    /\ unsaved = {} /\ early = {} /\ overtaken = {} /\ loginKicked = {}

AuthStep(a, from, to) == auth[a] = from /\ auth' = [auth EXCEPT ![a] = to]

\* handleAuth, first section: a banned address is refused.
CheckIP(a) ==
    /\ AuthStep(a, "away", IF ipOf[a] \in banned["ip"] THEN "gone" ELSE "hello")
    /\ UNCHANGED <<sessions, clients, running, cancelled, ended, leaving,
                   banVars, fileVars, adminVars>>

\* Malformed request, unknown hub or login, wrong password.
RefuseCredentials(a) ==
    /\ AuthStep(a, "hello", "gone")
    /\ UNCHANGED <<sessions, clients, running, cancelled, ended, leaving,
                   banVars, fileVars, adminVars>>

\* Mutant of CheckLogin: login bans are not looked up.
CheckLogin_NoBan(a) ==
    /\ AuthStep(a, "hello", IF loginOf[a] \in kicked THEN "gone" ELSE "cleared")
    /\ UNCHANGED <<sessions, clients, running, cancelled, ended, leaving,
                   banVars, fileVars, adminVars>>

\* The password matched: a kicked or banned login is refused.
CheckLogin(a) ==
    /\ AuthStep(a, "hello",
                IF loginOf[a] \in kicked \/ accountOf(a) \in banned["login"]
                THEN "gone" ELSE "cleared")
    /\ UNCHANGED <<sessions, clients, running, cancelled, ended, leaving,
                   banVars, fileVars, adminVars>>

\* The session is built and put into s.sessions.
Insert(a) ==
    /\ AuthStep(a, "cleared", "inserted")
    /\ sessions' = sessions \cup {a}
    /\ UNCHANGED <<clients, running, cancelled, ended, leaving, banVars, fileVars, adminVars>>

\* h.Join, StartFlush and StartRepairSender, AuthOK.
JoinHub(a) ==
    /\ AuthStep(a, "inserted", "up")
    /\ clients' = clients \cup {a}
    /\ running' = IF a \in cancelled THEN running ELSE running \cup {a}
    /\ UNCHANGED <<sessions, cancelled, ended, leaving, banVars, fileVars, adminVars>>

\* sess.cancel() ends the goroutines of the session.
Cancel(S) == /\ cancelled' = cancelled \cup S
             /\ running' = running \ S

\* cleanupSessions: sessions not heard of for 15 s, all under s.mu.  A session
\* does not fall silent for 15 s inside handleAuth.
cleanupSessions(a) ==
    /\ a \in sessions /\ auth[a] = "up"
    /\ sessions' = sessions \ {a}
    /\ clients' = clients \ {a}
    /\ Cancel({a})
    /\ UNCHANGED <<auth, ended, leaving, banVars, fileVars, adminVars>>

\* Mutant of StreamEnds: the session leaves its hub before it leaves the map.
StreamEnds_HubFirst(a) ==
    /\ a \in Streams \ ended /\ auth[a] = "up"
    /\ ended' = ended \cup {a}
    /\ clients' = clients \ {a}
    /\ UNCHANGED <<auth, sessions, leaving, running, cancelled, banVars, fileVars,
                   adminVars>>

\* The loop of serveStream ends, on an error or because closeConn was called:
\* removeSession takes the session out of the map if it is still there ...
StreamEnds(a) ==
    /\ a \in Streams \ ended /\ auth[a] = "up"
    /\ ended' = ended \cup {a}
    /\ sessions' = sessions \ {a}
    /\ leaving' = IF a \in sessions THEN leaving \cup {a} ELSE leaving
    /\ UNCHANGED <<auth, clients, running, cancelled, banVars, fileVars, adminVars>>

\* ... and then cancels it and takes it out of its hub.
removeSession(a) ==
    /\ a \in leaving
    /\ leaving' = leaving \ {a}
    /\ clients' = clients \ {a}
    /\ Cancel({a})
    /\ UNCHANGED <<auth, sessions, ended, banVars, fileVars, adminVars>>

\* kickBlockDuration is over.
KickExpires(l) ==
    /\ l \in kicked
    /\ kicked' = kicked \ {l}
    /\ loginKicked' = loginKicked \ {l}
    /\ UNCHANGED <<authVars, sessions, clients, banned, ipToLogins, fileVars, adminVars>>

-------------------------------------------------------------------------------

Request(w, req) ==
    /\ admin[w].pc = "idle" /\ ops < MaxOps
    /\ ops' = ops + 1
    /\ admin' = [admin EXCEPT ![w] = req]

NotUp(S) == {a \in S : auth[a] # "up"}

\* The logins of the sessions in S are noted under the address they came from.
Blame(S) == [i \in IPs |-> ipToLogins[i] \cup {loginOf[a] : a \in {b \in S : ipOf[b] = i}}]

\* POST kick, first section: the session leaves s.sessions, its login is blocked.
Kick(w, a) ==
    /\ a \in sessions
    /\ Request(w, [NoRequest EXCEPT !.pc = "banip", !.then = "leave", !.close = {a}])
    /\ sessions' = sessions \ {a}
    /\ kicked' = kicked \cup {loginOf[a]}
    /\ early' = early \cup NotUp({a})
    /\ UNCHANGED <<authVars, clients, banned, ipToLogins, loginKicked, fileVars,
                   restarts, overtaken>>

\* Mutant of KickBansIP: the login is not noted under the address.
KickBansIP_NoNote(w) ==
    /\ admin[w].pc = "banip"
    /\ admin' = [admin EXCEPT ![w].pc = "save"]
    /\ banned' = [banned EXCEPT !["ip"] = @ \cup {ipOf[a] : a \in admin[w].close}]
    /\ UNCHANGED <<authVars, sessions, clients, kicked, ipToLogins, loginKicked,
                   fileVars, ops, restarts, early, overtaken>>

\* POST kick, second section: its address is banned.
KickBansIP(w) ==
    /\ admin[w].pc = "banip"
    /\ admin' = [admin EXCEPT ![w].pc = "save"]
    /\ banned' = [banned EXCEPT !["ip"] = @ \cup {ipOf[a] : a \in admin[w].close}]
    /\ ipToLogins' = Blame(admin[w].close)
    /\ UNCHANGED <<authVars, sessions, clients, kicked, loginKicked, fileVars, ops,
                   restarts, early, overtaken>>

\* POST ips/{ip}/ban and hubs/{hub}/loginbans/{login}: the entry is added ...
Ban(w, list, entry) ==
    /\ Request(w, [NoRequest EXCEPT !.pc = "save", !.list = list, !.about = {entry},
                                    !.then = "collect"])
    /\ banned' = [banned EXCEPT ![list] = @ \cup {entry}]
    /\ UNCHANGED <<authVars, sessions, clients, kicked, ipToLogins, loginKicked,
                   fileVars, restarts, early, overtaken>>

Concerned(S, list, about) ==
    {a \in S : IF list = "ip" THEN ipOf[a] \in about ELSE accountOf(a) \in about}

\* ... and after saving, the sessions it concerns leave s.sessions and their
\* logins are blocked (kickSessionsByIP, kickSessionsByLogin).
kickSessions(w) ==
    LET req == admin[w]
        S   == Concerned(sessions, req.list, req.about)
        L   == {loginOf[a] : a \in S}
        C   == {a \in Attempts : auth[a] = "cleared"}
    IN /\ req.pc = "collect"
       /\ admin' = [admin EXCEPT ![w].pc = "leave", ![w].close = S]
       /\ sessions' = sessions \ S
       /\ kicked' = kicked \cup L
       /\ ipToLogins' = IF req.list = "ip" THEN Blame(S) ELSE ipToLogins
       /\ loginKicked' = IF req.list = "ip" THEN loginKicked ELSE loginKicked \cup L
       /\ early' = early \cup NotUp(S)
       /\ overtaken' = overtaken \cup Concerned(C, req.list, req.about)
       /\ UNCHANGED <<authVars, clients, banned, fileVars, ops, restarts>>

\* Mutant of CloseAndLeave: the sessions stay in their hub.
CloseAndLeave_NoLeave(w) ==
    /\ admin[w].pc = "leave"
    /\ admin' = [admin EXCEPT ![w] = NoRequest]
    /\ UNCHANGED <<authVars, sessions, clients, banVars, fileVars, ops, restarts,
                   early, overtaken>>

\* The transports are closed and the sessions leave their hub.
CloseAndLeave(w) ==
    /\ admin[w].pc = "leave"
    /\ admin' = [admin EXCEPT ![w] = NoRequest]
    /\ clients' = clients \ admin[w].close
    /\ UNCHANGED <<authVars, sessions, banVars, fileVars, ops, restarts, early,
                   overtaken>>

\* Mutant of UnbanIP: whether it was banned is asked after it was removed.
UnbanIP_AskedLate(w, i) ==
    /\ Request(w, NoRequest)
    /\ banned' = [banned EXCEPT !["ip"] = @ \ {i}]
    /\ kicked' = kicked \ ipToLogins[i]
    /\ ipToLogins' = [ipToLogins EXCEPT ![i] = {}]
    /\ loginKicked' = loginKicked \ ipToLogins[i]
    /\ UNCHANGED <<authVars, sessions, clients, fileVars, restarts, early, overtaken>>

\* POST ips/{ip}/unban: also forgets the logins kicked from the address.
UnbanIP(w, i) ==
    /\ Request(w, IF i \in banned["ip"] THEN [NoRequest EXCEPT !.pc = "save"]
                                        ELSE NoRequest)
    /\ banned' = [banned EXCEPT !["ip"] = @ \ {i}]
    /\ kicked' = kicked \ ipToLogins[i]
    /\ ipToLogins' = [ipToLogins EXCEPT ![i] = {}]
    /\ loginKicked' = loginKicked \ ipToLogins[i]
    /\ UNCHANGED <<authVars, sessions, clients, fileVars, restarts, early, overtaken>>

\* POST hubs/{hub}/loginunbans/{login}.
UnbanLogin(w, acc) ==
    /\ Request(w, IF acc \in banned["login"]
                  THEN [NoRequest EXCEPT !.pc = "save", !.list = "login"]
                  ELSE NoRequest)
    /\ banned' = [banned EXCEPT !["login"] = @ \ {acc}]
    /\ UNCHANGED <<authVars, sessions, clients, kicked, ipToLogins, loginKicked,
                   fileVars, restarts, early, overtaken>>

-------------------------------------------------------------------------------

\* saveBannedIPs, saveBannedLogins: the list is copied under s.mu ...
Snapshot(w) ==
    /\ admin[w].pc = "save"
    /\ admin' = [admin EXCEPT ![w].pc = "open", ![w].snap = banned[admin[w].list]]
    /\ UNCHANGED <<authVars, sessions, clients, banVars, fileVars, ops, restarts,
                   early, overtaken>>

\* ... and os.WriteFile, without a lock, truncates the file ...
Truncate(w) ==
    /\ admin[w].pc = "open"
    /\ admin' = [admin EXCEPT ![w].pc = "write"]
    /\ disk' = [disk EXCEPT ![admin[w].list] = Corrupt]
    /\ UNCHANGED <<authVars, sessions, clients, banVars, unsaved, ops, restarts,
                   early, overtaken>>

\* ... and writes it.  If another request wrote the file since, the longer of the
\* two contents sticks out: the file may not parse.
WriteFile(w) ==
    LET req == admin[w]
    IN /\ req.pc = "write"
       /\ admin' = [admin EXCEPT ![w] =
                        IF req.then = "idle" THEN NoRequest
                        ELSE [req EXCEPT !.pc = req.then, !.snap = {}]]
       /\ \E content \in {req.snap} \cup
                         IF disk[req.list] \in {Corrupt, req.snap} THEN {} ELSE {Corrupt} :
             disk' = [disk EXCEPT ![req.list] = content]
       /\ unsaved' = unsaved \ {req.list}
       /\ UNCHANGED <<authVars, sessions, clients, banVars, ops, restarts, early,
                      overtaken>>

\* Opening or writing fails: it is logged, and the request goes on.
SaveFails(w) ==
    LET req == admin[w]
    IN /\ req.pc \in {"open", "write"}
       /\ admin' = [admin EXCEPT ![w] =
                        IF req.then = "idle" THEN NoRequest
                        ELSE [req EXCEPT !.pc = req.then, !.snap = {}]]
       /\ unsaved' = unsaved \cup {req.list}
       /\ UNCHANGED <<authVars, sessions, clients, banVars, disk, ops, restarts,
                      early, overtaken>>

\* loadBannedIPs, loadBannedLogins: a file that does not parse is skipped.
Loaded(content) == IF content = Corrupt THEN {} ELSE content

\* The process ends and is started again: only the two files remain.
Restart ==
    /\ restarts < MaxRestarts
    /\ restarts' = restarts + 1
    /\ auth' = [a \in Attempts |-> IF auth[a] = "away" THEN "away" ELSE "gone"]
    /\ sessions' = {} /\ clients' = {} /\ running' = {} /\ cancelled' = {}
    /\ ended' = {} /\ leaving' = {}
    /\ kicked' = {} /\ ipToLogins' = [i \in IPs |-> {}] /\ loginKicked' = {}
    /\ banned' = [l \in Lists |-> Loaded(disk[l])]
    /\ admin' = [w \in Admins |-> NoRequest]
    /\ unsaved' = {l \in Lists : disk[l] = Corrupt}
    /\ early' = {} /\ overtaken' = {}
    /\ UNCHANGED <<disk, ops>>

Next ==
    \/ \E a \in Attempts :
         \/ CheckIP(a) \/ RefuseCredentials(a) \/ CheckLogin(a)
         \/ Insert(a) \/ JoinHub(a)
         \/ cleanupSessions(a) \/ StreamEnds(a) \/ removeSession(a)
    \/ \E l \in Logins : KickExpires(l)
    \/ \E w \in Admins :
         \/ \E a \in Attempts : Kick(w, a)
         \/ \E i \in IPs : Ban(w, "ip", i) \/ UnbanIP(w, i)
         \/ \E acc \in Account : Ban(w, "login", acc) \/ UnbanLogin(w, acc)
         \/ KickBansIP(w) \/ kickSessions(w) \/ CloseAndLeave(w)
         \/ Snapshot(w) \/ Truncate(w) \/ WriteFile(w) \/ SaveFails(w)
    \/ Restart

Spec == Init /\ [][Next]_vars

-------------------------------------------------------------------------------

AllIdle == \A w \in Admins : admin[w].pc = "idle"
OneAtATime == Cardinality(Admins) = 1

\* The type invariant of the session table and the administration.
TypeOK ==
    /\ auth \in [Attempts -> Stage]
    /\ sessions \subseteq Attempts /\ clients \subseteq Attempts
    /\ running \subseteq Attempts /\ cancelled \subseteq Attempts
    /\ ended \subseteq Streams /\ leaving \subseteq Streams
    /\ kicked \subseteq Logins /\ loginKicked \subseteq kicked
    /\ banned \in [Lists -> SUBSET (IPs \cup Account)]
    /\ disk \in [Lists -> (SUBSET (IPs \cup Account)) \cup {Corrupt}]
    /\ \A l \in Lists : /\ banned[l] \subseteq Entries(l)
                        /\ disk[l] = Corrupt \/ disk[l] \subseteq Entries(l)
    /\ ipToLogins \in [IPs -> SUBSET Logins]
    /\ unsaved \subseteq Lists
    /\ early \subseteq Attempts /\ overtaken \subseteq Attempts
    /\ ops \in 0 .. MaxOps /\ restarts \in 0 .. MaxRestarts
    /\ admin \in [Admins -> APIRequest]
    /\ \A w \in Admins : /\ admin[w].about \subseteq Entries(admin[w].list)
                        /\ admin[w].snap \subseteq Entries(admin[w].list)

\* A session that finished handleAuth and is in s.sessions is a member of its
\* hub: whoever takes it out of the hub took it out of the map first.
SessionsAreMembers == \A a \in sessions : auth[a] = "up" => a \in clients

\* A hub member without a session is one whose removal is still under way, or
\* that was removed between handleAuth's insertion and its Join.
MembersAccountedFor ==
    \A a \in clients \ sessions :
        a \in leaving \cup early \cup UNION {admin[w].close : w \in Admins}

\* Once a login ban has been carried out, no session of the account remains but
\* one whose authentication had passed the check before the ban and entered the
\* map after kickSessionsByLogin looked.
LoginBanHolds ==
    AllIdle => \A a \in sessions : accountOf(a) \in banned["login"] => a \in overtaken

\* A login blocked by a kick or an address ban is noted under an address, so that
\* unbanning the address releases it; only a login ban blocks without.  With one
\* request at a time, the address is one the administrator finds banned; of two,
\* one may lift the ban before the other kicks (kickSessionsByIP).
BlocksCanBeLifted ==
    AllIdle => \A l \in kicked \ loginKicked :
                  \E i \in IPs : /\ l \in ipToLogins[i]
                                 /\ OneAtATime => i \in banned["ip"]

OneApart(S, T) == \A x, y \in (S \ T) \cup (T \ S) : x = y
Saving(list, stages) == \E w \in Admins : admin[w].list = list /\ admin[w].pc \in stages

\* What a restart at any moment loses, with one request at a time: of a list
\* whose last save succeeded it brings back exactly the bans there were; while a
\* request still has to open the list's file, all but the one entry it changed.
\* Only a list whose file has just been truncated by os.WriteFile may be lost,
\* and then it is lost whole, since loading skips it: "permanently banned until
\* explicit unban" (main.go:191) does not hold there.
BansSurviveRestart ==
    [][restarts' # restarts /\ OneAtATime =>
         \A l \in Lists \ unsaved :
            \/ banned'[l] = banned[l]
            \/ Saving(l, {"save", "open"}) /\ OneApart(banned'[l], banned[l])
            \/ Saving(l, {"write"})]_vars
===============================================================================
