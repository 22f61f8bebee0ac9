------------------------ MODULE ServerSessionsProofs -------------------------
(***************************************************************************)
(* Proofs about the session table and the administration, for every number  *)
(* of attempts, addresses, logins and hubs, and of API requests served at   *)
(* the same time.                                                           *)
(***************************************************************************)
EXTENDS ServerSessions, FiniteSetTheorems, TLAPS

\* The step of an attempt.
AttemptStep(a) ==
    \/ CheckIP(a) \/ RefuseCredentials(a) \/ CheckLogin(a)
    \/ Insert(a) \/ JoinHub(a)
    \/ cleanupSessions(a) \/ StreamEnds(a) \/ removeSession(a)

\* The type invariant, one part for each group of variables.
AttemptTypes ==
    /\ auth \in [Attempts -> Stage]
    /\ sessions \subseteq Attempts /\ clients \subseteq Attempts
    /\ running \subseteq Attempts /\ cancelled \subseteq Attempts
    /\ ended \subseteq Streams /\ leaving \subseteq Streams
    /\ early \subseteq Attempts /\ overtaken \subseteq Attempts

BanTypes ==
    /\ kicked \subseteq Logins /\ loginKicked \subseteq kicked
    /\ banned \in [Lists -> SUBSET (IPs \cup Account)]
    /\ \A l \in Lists : banned[l] \subseteq Entries(l)
    /\ ipToLogins \in [IPs -> SUBSET Logins]

FileTypes ==
    /\ disk \in [Lists -> (SUBSET (IPs \cup Account)) \cup {Corrupt}]
    /\ \A l \in Lists : disk[l] = Corrupt \/ disk[l] \subseteq Entries(l)
    /\ unsaved \subseteq Lists

RequestType(r) ==
    r \in APIRequest /\ r.about \subseteq Entries(r.list) /\ r.snap \subseteq Entries(r.list)

RequestTypes == admin \in [Admins -> APIRequest] /\ \A w \in Admins : RequestType(admin[w])

CountTypes == ops \in 0 .. MaxOps /\ restarts \in 0 .. MaxRestarts

\* The parts together are the type invariant, before and after a step.
LEMMA TypeParts ==
    /\ TypeOK <=> AttemptTypes /\ BanTypes /\ FileTypes /\ RequestTypes /\ CountTypes
    /\ TypeOK' <=> /\ AttemptTypes' /\ BanTypes' /\ FileTypes'
                   /\ RequestTypes' /\ CountTypes'
BY DEF TypeOK, AttemptTypes, BanTypes, FileTypes, RequestTypes, RequestType, CountTypes

\* The idle request is a request.
LEMMA NoRequestType == RequestType(NoRequest)
BY DEF NoRequest, APIRequest, Lists, RequestType, Entries

\* A step of a request replaces one record by another.
LEMMA RequestsKeepType ==
    ASSUME RequestTypes, NEW w \in Admins, NEW r, RequestType(r),
           admin' = [admin EXCEPT ![w] = r]
    PROVE  RequestTypes'
BY DEF RequestTypes, RequestType

\* Noting the logins of some attempts leaves sets of logins.
LEMMA BlameType ==
    ASSUME BanTypes, NEW S \in SUBSET Attempts
    PROVE  Blame(S) \in [IPs -> SUBSET Logins]
BY SessionsAssumption DEF BanTypes, Blame

\* The server starts well typed.
LEMMA TypeInit == Init => TypeOK
<1> SUFFICES ASSUME Init PROVE TypeOK
    OBVIOUS
<1>1. AttemptTypes /\ BanTypes /\ FileTypes
    BY DEF Init, AttemptTypes, BanTypes, FileTypes, Stage
<1>2. RequestTypes
    BY NoRequestType DEF Init, RequestTypes, RequestType
<1>3. CountTypes
    BY SessionsAssumption DEF Init, CountTypes
<1> QED
    BY <1>1, <1>2, <1>3, TypeParts

\* Authentication, time-out and disconnection keep the types.
LEMMA TypeAttempt ==
    ASSUME TypeOK, NEW a \in Attempts, AttemptStep(a)
    PROVE  TypeOK'
<1> USE DEF AttemptStep
<1>1. UNCHANGED <<banVars, fileVars, adminVars>>
    BY DEF CheckIP, RefuseCredentials, CheckLogin, Insert, JoinHub, cleanupSessions,
           StreamEnds, removeSession
<1>2. BanTypes' /\ FileTypes' /\ RequestTypes' /\ CountTypes'
    BY <1>1, TypeParts DEF banVars, fileVars, adminVars, BanTypes, FileTypes,
       RequestTypes, RequestType, CountTypes
<1>3. AttemptTypes'
    <2> USE TypeParts, <1>1 DEF AttemptTypes, adminVars, Stage
    <2>1. CASE CheckIP(a) \/ RefuseCredentials(a) \/ CheckLogin(a)
        BY <2>1 DEF CheckIP, RefuseCredentials, CheckLogin, AuthStep
    <2>2. CASE Insert(a) \/ JoinHub(a)
        BY <2>2 DEF Insert, JoinHub, AuthStep
    <2>3. CASE cleanupSessions(a) \/ StreamEnds(a) \/ removeSession(a)
        BY <2>3 DEF cleanupSessions, StreamEnds, removeSession, Cancel
    <2> QED
        BY <2>1, <2>2, <2>3
<1> QED
    BY <1>2, <1>3, TypeParts

\* A request that starts keeps the types of the requests.
LEMMA TypeRequest ==
    ASSUME TypeOK, NEW w \in Admins, NEW req, RequestType(req), Request(w, req)
    PROVE  RequestTypes' /\ ops' \in 0 .. MaxOps
<1>1. RequestTypes'
    BY TypeParts, RequestsKeepType DEF Request
<1>2. ops' \in 0 .. MaxOps
    BY TypeParts, SessionsAssumption DEF Request, CountTypes
<1> QED
    BY <1>1, <1>2

\* A kick keeps the types: the session and its address go to the request.
LEMMA TypeKick ==
    ASSUME TypeOK, NEW w \in Admins, NEW a \in Attempts, Kick(w, a)
    PROVE  TypeOK'
<1> DEFINE req == [NoRequest EXCEPT !.pc = "banip", !.then = "leave", !.close = {a}]
<1>1. RequestType(req)
    BY DEF RequestType, NoRequest, APIRequest, Lists, Entries
<1>2. RequestTypes' /\ ops' \in 0 .. MaxOps
    BY <1>1, TypeRequest DEF Kick
<1>3. AttemptTypes' /\ CountTypes'
    BY <1>2, TypeParts DEF Kick, AttemptTypes, CountTypes, authVars, NotUp
<1>4. BanTypes'
    BY TypeParts, SessionsAssumption DEF Kick, BanTypes
<1>5. FileTypes'
    BY TypeParts DEF Kick, FileTypes, fileVars
<1> QED
    BY <1>2, <1>3, <1>4, <1>5, TypeParts

\* Changing one of the ban lists leaves two lists.
LEMMA BannedType ==
    ASSUME BanTypes, NEW l \in Lists, NEW S \in SUBSET Entries(l),
           banned' = [banned EXCEPT ![l] = S]
    PROVE  /\ banned' \in [Lists -> SUBSET (IPs \cup Account)]
           /\ \A k \in Lists : banned'[k] \subseteq Entries(k)
BY DEF BanTypes, Entries, Lists

\* The requests that ban and unban keep the types.
LEMMA TypeBan ==
    ASSUME TypeOK, NEW w \in Admins,
           \/ \E i \in IPs : Ban(w, "ip", i) \/ UnbanIP(w, i)
           \/ \E acc \in Account : Ban(w, "login", acc) \/ UnbanLogin(w, acc)
    PROVE  TypeOK'
<1>1. ASSUME NEW list \in Lists, NEW entry \in Entries(list), Ban(w, list, entry)
      PROVE  TypeOK'
    <2> DEFINE req == [NoRequest EXCEPT !.pc = "save", !.list = list, !.about = {entry},
                                        !.then = "collect"]
    <2>1. RequestType(req)
        BY DEF RequestType, NoRequest, APIRequest, Lists, Entries
    <2>2. RequestTypes' /\ ops' \in 0 .. MaxOps
        BY <1>1, <2>1, TypeRequest DEF Ban
    <2>3. banned[list] \cup {entry} \in SUBSET Entries(list)
        BY TypeParts DEF BanTypes
    <2>4. BanTypes'
        <3>1. banned' = [banned EXCEPT ![list] = banned[list] \cup {entry}]
            BY <1>1 DEF Ban
        <3> QED
            BY <1>1, <2>3, <3>1, TypeParts, BannedType DEF Ban, BanTypes
    <2>5. AttemptTypes' /\ FileTypes' /\ CountTypes'
        BY <1>1, <2>2, TypeParts DEF Ban, AttemptTypes, CountTypes, FileTypes,
           authVars, fileVars
    <2> QED
        BY <2>2, <2>4, <2>5, TypeParts
<1>2. ASSUME NEW i \in IPs, UnbanIP(w, i)
      PROVE  TypeOK'
    <2>1. RequestType([NoRequest EXCEPT !.pc = "save"])
        BY DEF RequestType, NoRequest, APIRequest, Lists, Entries
    <2>2. RequestTypes' /\ ops' \in 0 .. MaxOps
        BY <1>2, <2>1, NoRequestType, TypeRequest DEF UnbanIP
    <2>3. BanTypes'
        <3>1. banned["ip"] \ {i} \in SUBSET Entries("ip") /\ "ip" \in Lists
            BY TypeParts DEF BanTypes, Lists
        <3>2. banned' = [banned EXCEPT !["ip"] = banned["ip"] \ {i}]
            BY <1>2 DEF UnbanIP
        <3>3. /\ banned' \in [Lists -> SUBSET (IPs \cup Account)]
              /\ \A k \in Lists : banned'[k] \subseteq Entries(k)
            BY <3>1, <3>2, TypeParts, BannedType
        <3> QED
            BY <1>2, <3>3, TypeParts DEF UnbanIP, BanTypes
    <2>4. AttemptTypes' /\ FileTypes' /\ CountTypes'
        BY <1>2, <2>2, TypeParts DEF UnbanIP, AttemptTypes, CountTypes, FileTypes,
           authVars, fileVars
    <2> QED
        BY <2>2, <2>3, <2>4, TypeParts
<1>3. ASSUME NEW acc \in Account, UnbanLogin(w, acc)
      PROVE  TypeOK'
    <2>1. RequestType([NoRequest EXCEPT !.pc = "save", !.list = "login"])
        BY DEF RequestType, NoRequest, APIRequest, Lists, Entries
    <2>2. RequestTypes' /\ ops' \in 0 .. MaxOps
        BY <1>3, <2>1, NoRequestType, TypeRequest DEF UnbanLogin
    <2>3. BanTypes'
        <3>1. banned["login"] \ {acc} \in SUBSET Entries("login") /\ "login" \in Lists
            BY TypeParts DEF BanTypes, Lists
        <3>2. banned' = [banned EXCEPT !["login"] = banned["login"] \ {acc}]
            BY <1>3 DEF UnbanLogin
        <3>3. /\ banned' \in [Lists -> SUBSET (IPs \cup Account)]
              /\ \A k \in Lists : banned'[k] \subseteq Entries(k)
            BY <3>1, <3>2, TypeParts, BannedType
        <3> QED
            BY <1>3, <3>3, TypeParts DEF UnbanLogin, BanTypes
    <2>4. AttemptTypes' /\ FileTypes' /\ CountTypes'
        BY <1>3, <2>2, TypeParts DEF UnbanLogin, AttemptTypes, CountTypes, FileTypes,
           authVars, fileVars
    <2> QED
        BY <2>2, <2>3, <2>4, TypeParts
<1> QED
    BY <1>1, <1>2, <1>3 DEF Lists, Entries

\* The sections in which a request bans an address, takes sessions out of the
\* map and closes them keep the types.
LEMMA TypeCarryOut ==
    ASSUME TypeOK, NEW w \in Admins,
           KickBansIP(w) \/ kickSessions(w) \/ CloseAndLeave(w)
    PROVE  TypeOK'
<1>0. RequestType(admin[w]) /\ admin[w].close \subseteq Attempts
    BY TypeParts DEF RequestTypes, RequestType, APIRequest
<1>1. CASE KickBansIP(w)
    <2>1. RequestType([admin[w] EXCEPT !.pc = "save"])
        BY <1>0 DEF RequestType, APIRequest
    <2>2. RequestTypes'
        BY <1>1, <2>1, TypeParts, RequestsKeepType DEF KickBansIP
    <2>3. BanTypes'
        <3> DEFINE S == banned["ip"] \cup {ipOf[a] : a \in admin[w].close}
        <3>1. S \in SUBSET Entries("ip") /\ "ip" \in Lists
            BY <1>0, TypeParts, SessionsAssumption DEF BanTypes, Lists, Entries
        <3>2. banned' = [banned EXCEPT !["ip"] = S]
            BY <1>1 DEF KickBansIP
        <3>3. /\ banned' \in [Lists -> SUBSET (IPs \cup Account)]
              /\ \A k \in Lists : banned'[k] \subseteq Entries(k)
            BY <3>1, <3>2, TypeParts, BannedType
        <3>4. Blame(admin[w].close) \in [IPs -> SUBSET Logins]
            BY <1>0, TypeParts, BlameType
        <3> QED
            BY <1>1, <3>3, <3>4, TypeParts DEF KickBansIP, BanTypes
    <2>4. AttemptTypes' /\ FileTypes' /\ CountTypes'
        BY <1>1, TypeParts DEF KickBansIP, AttemptTypes, CountTypes, FileTypes,
           authVars, fileVars
    <2> QED
        BY <2>2, <2>3, <2>4, TypeParts
<1>2. CASE kickSessions(w)
    <2> DEFINE S == Concerned(sessions, admin[w].list, admin[w].about)
    <2>1. S \subseteq sessions /\ S \in SUBSET Attempts
        BY TypeParts DEF Concerned, AttemptTypes
    <2>2. RequestType([admin[w] EXCEPT !.pc = "leave", !.close = S])
        BY <1>0, <2>1 DEF RequestType, APIRequest
    <2>3. admin' = [admin EXCEPT ![w] = [admin[w] EXCEPT !.pc = "leave", !.close = S]]
        BY <1>2, TypeParts DEF kickSessions, RequestTypes, APIRequest
    <2>4. RequestTypes'
        BY <2>2, <2>3, TypeParts, RequestsKeepType
    <2>5. BanTypes'
        <3>1. Blame(S) \in [IPs -> SUBSET Logins]
            BY <2>1, TypeParts, BlameType
        <3>2. {loginOf[a] : a \in S} \subseteq Logins
            BY <2>1, SessionsAssumption
        <3> QED
            BY <1>2, <3>1, <3>2, TypeParts DEF kickSessions, BanTypes
    <2>6. AttemptTypes'
        BY <1>2, <2>1, TypeParts DEF kickSessions, AttemptTypes, authVars, NotUp, Concerned
    <2>7. FileTypes' /\ CountTypes'
        BY <1>2, TypeParts DEF kickSessions, CountTypes, FileTypes, fileVars
    <2> QED
        BY <2>4, <2>5, <2>6, <2>7, TypeParts
<1>3. CASE CloseAndLeave(w)
    <2>1. RequestTypes'
        BY <1>3, NoRequestType, TypeParts, RequestsKeepType DEF CloseAndLeave
    <2>2. AttemptTypes' /\ FileTypes' /\ CountTypes' /\ BanTypes'
        BY <1>3, TypeParts DEF CloseAndLeave, AttemptTypes, CountTypes, FileTypes,
           BanTypes, authVars, fileVars, banVars
    <2> QED
        BY <2>1, <2>2, TypeParts
<1> QED
    BY <1>1, <1>2, <1>3
\* Saving a ban list keeps the types: what is written was copied from memory.
LEMMA TypeSave ==
    ASSUME TypeOK, NEW w \in Admins,
           Snapshot(w) \/ Truncate(w) \/ WriteFile(w) \/ SaveFails(w)
    PROVE  TypeOK'
<1> DEFINE req == admin[w]
           after == IF req.then = "idle" THEN NoRequest
                    ELSE [req EXCEPT !.pc = req.then, !.snap = {}]
<1>0. RequestType(req) /\ req.list \in Lists /\ req.snap \subseteq Entries(req.list)
    BY TypeParts DEF RequestTypes, RequestType, APIRequest
<1>1. RequestType(after)
    BY <1>0, NoRequestType DEF RequestType, APIRequest
<1>2. AttemptTypes' /\ BanTypes' /\ CountTypes'
    BY TypeParts DEF Snapshot, Truncate, WriteFile, SaveFails, AttemptTypes, BanTypes,
       CountTypes, authVars, banVars
<1>3. RequestTypes'
    <2>1. CASE Snapshot(w)
        <3> DEFINE r == [req EXCEPT !.pc = "open", !.snap = banned[req.list]]
        <3>1. banned[req.list] \subseteq Entries(req.list)
            BY <1>0, TypeParts DEF BanTypes
        <3>2. RequestType(r)
            BY <1>0, <3>1 DEF RequestType, APIRequest, Entries
        <3>3. admin' = [admin EXCEPT ![w] = r]
            BY <2>1, TypeParts DEF Snapshot, RequestTypes, APIRequest
        <3> QED
            BY <3>2, <3>3, TypeParts, RequestsKeepType
    <2>2. CASE Truncate(w)
        <3>1. RequestType([req EXCEPT !.pc = "write"])
            BY <1>0 DEF RequestType, APIRequest
        <3> QED
            BY <2>2, <3>1, TypeParts, RequestsKeepType DEF Truncate
    <2>3. CASE WriteFile(w) \/ SaveFails(w)
        BY <1>1, <2>3, TypeParts, RequestsKeepType DEF WriteFile, SaveFails
    <2> QED
        BY <2>1, <2>2, <2>3
<1>4. FileTypes'
    <2>1. req.snap \in SUBSET (IPs \cup Account)
        BY <1>0 DEF RequestType, APIRequest
    <2>2. CASE Snapshot(w) \/ SaveFails(w)
        BY <1>0, <2>2, TypeParts DEF Snapshot, SaveFails, FileTypes, fileVars
    <2>3. CASE Truncate(w)
        BY <1>0, <2>3, TypeParts DEF Truncate, FileTypes
    <2>4. CASE WriteFile(w)
        <3>1. PICK content \in {req.snap, Corrupt} :
                 disk' = [disk EXCEPT ![req.list] = content]
            BY <2>4 DEF WriteFile
        <3> QED
            BY <1>0, <2>1, <2>4, <3>1, TypeParts DEF WriteFile, FileTypes
    <2> QED
        BY <2>2, <2>3, <2>4
<1> QED
    BY <1>2, <1>3, <1>4, TypeParts

\* The end of a block and a restart keep the types: a file that cannot be parsed
\* is not taken for a list.
LEMMA TypeRest ==
    ASSUME TypeOK, Restart \/ \E l \in Logins : KickExpires(l)
    PROVE  TypeOK'
<1>1. CASE \E l \in Logins : KickExpires(l)
    BY <1>1, TypeParts DEF KickExpires, AttemptTypes, BanTypes, FileTypes, RequestTypes,
       RequestType, CountTypes, authVars, fileVars, adminVars
<1>2. CASE Restart
    <2>1. AttemptTypes'
        BY <1>2, TypeParts DEF Restart, AttemptTypes, Stage
    <2>2. BanTypes'
        BY <1>2, TypeParts DEF Restart, BanTypes, FileTypes, Loaded, Entries
    <2>3. FileTypes'
        BY <1>2, TypeParts DEF Restart, FileTypes
    <2>4. RequestTypes'
        BY <1>2, NoRequestType DEF Restart, RequestTypes, RequestType
    <2>5. CountTypes'
        BY <1>2, TypeParts, SessionsAssumption DEF Restart, CountTypes
    <2> QED
        BY <2>1, <2>2, <2>3, <2>4, <2>5, TypeParts
<1> QED
    BY <1>1, <1>2

\* The server's tables keep their types whatever attempts, requests and restarts
\* do; in particular no unparsable ban file ever becomes a ban list.
THEOREM TypeCorrect == Spec => []TypeOK
<1>1. TypeOK /\ [Next]_vars => TypeOK'
    <2> SUFFICES ASSUME TypeOK, [Next]_vars PROVE TypeOK'
        OBVIOUS
    <2>1. CASE UNCHANGED vars
        BY <2>1, TypeParts DEF vars, AttemptTypes, BanTypes, FileTypes, RequestTypes,
           RequestType, CountTypes
    <2>2. CASE Next
        BY <2>2, TypeAttempt, TypeKick, TypeBan, TypeCarryOut, TypeSave, TypeRest
        DEF Next, AttemptStep
    <2> QED
        BY <2>1, <2>2
<1> QED
    BY TypeInit, <1>1, PTL DEF Spec

-------------------------------------------------------------------------------

\* Where a request stands decides what follows, and only one that is bound to
\* close them holds sessions.
InOrder(r) == /\ r.pc = "idle" => r.then = "idle"
              /\ r.pc = "collect" => r.then = "collect"
              /\ r.then # "leave" /\ r.pc # "leave" => r.close = {}

Closing == UNION {admin[w].close : w \in Admins}

\* An attempt that was not inserted yet is nowhere; one that was, and is no
\* longer in the map, was removed early; what is on its way out is not in the map.
Progress ==
    /\ \A a \in Attempts : auth[a] \in {"away", "hello", "cleared"} =>
          /\ a \notin sessions /\ a \notin clients
          /\ a \notin leaving /\ a \notin Closing
    /\ \A a \in Attempts : auth[a] = "inserted" => a \in sessions \cup early
    /\ leaving \cap sessions = {}
    /\ Closing \cap sessions = {}

\* The inductive invariant.
TableInv == /\ \A w \in Admins : InOrder(admin[w])
            /\ Progress
            /\ SessionsAreMembers /\ MembersAccountedFor

\* The server starts with nobody connected and no request.
LEMMA TableInit == Init => TableInv
<1> SUFFICES ASSUME Init PROVE TableInv
    OBVIOUS
<1>1. \A w \in Admins : InOrder(admin[w])
    BY DEF Init, NoRequest, InOrder
<1>2. Closing = {}
    BY DEF Init, Closing, NoRequest
<1>3. Progress /\ SessionsAreMembers /\ MembersAccountedFor
    BY <1>2 DEF Init, Progress, SessionsAreMembers, MembersAccountedFor
<1> QED
    BY <1>1, <1>3 DEF TableInv

\* Authentication, time-out and disconnection of one attempt.
LEMMA TableAttempt ==
    ASSUME TypeOK, TableInv, NEW a \in Attempts, AttemptStep(a)
    PROVE  TableInv'
<1> USE TypeParts DEF TableInv, AttemptStep, AttemptTypes
<1>0. admin' = admin /\ early' = early
    BY DEF CheckIP, RefuseCredentials, CheckLogin, Insert, JoinHub, cleanupSessions,
           StreamEnds, removeSession, adminVars
<1>1. (\A w \in Admins : InOrder(admin[w]))' /\ Closing' = Closing
    BY <1>0 DEF Closing, InOrder
<1>2. CASE CheckIP(a) \/ RefuseCredentials(a) \/ CheckLogin(a)
    <2>1. /\ auth[a] \in {"away", "hello"}
          /\ \E to \in {"gone", "hello", "cleared"} : auth' = [auth EXCEPT ![a] = to]
        BY <1>2 DEF CheckIP, RefuseCredentials, CheckLogin, AuthStep
    <2>2. sessions' = sessions /\ clients' = clients /\ leaving' = leaving
        BY <1>2 DEF CheckIP, RefuseCredentials, CheckLogin
    <2> QED
        BY <1>0, <1>1, <2>1, <2>2
        DEF Progress, SessionsAreMembers, MembersAccountedFor, Closing
<1>3. CASE Insert(a)
    BY <1>0, <1>1, <1>3
    DEF Insert, AuthStep, Progress, SessionsAreMembers, MembersAccountedFor, Closing
<1>4. CASE JoinHub(a)
    BY <1>0, <1>1, <1>4
    DEF JoinHub, AuthStep, Progress, SessionsAreMembers, MembersAccountedFor, Closing
<1>5. CASE cleanupSessions(a)
    BY <1>0, <1>1, <1>5
    DEF cleanupSessions, Progress, SessionsAreMembers, MembersAccountedFor, Closing
<1>6. CASE StreamEnds(a)
    BY <1>0, <1>1, <1>6
    DEF StreamEnds, Progress, SessionsAreMembers, MembersAccountedFor, Closing
<1>7. CASE removeSession(a)
    BY <1>0, <1>1, <1>7
    DEF removeSession, Progress, SessionsAreMembers, MembersAccountedFor, Closing
<1> QED
    BY <1>2, <1>3, <1>4, <1>5, <1>6, <1>7

\* A request's record is replaced by another: the sessions it holds are the new
\* record's and the other requests' as before.
LEMMA RequestReplaced ==
    ASSUME TypeOK, TableInv, NEW w \in Admins, NEW r, InOrder(r),
           admin' = [admin EXCEPT ![w] = r]
    PROVE  /\ (\A x \in Admins : InOrder(admin[x]))'
           /\ admin'[w] = r
           /\ \A x \in Admins \ {w} : admin'[x] = admin[x]
           /\ \A a \in Closing' : a \in Closing \/ a \in r.close
           /\ \A a \in Closing : a \in Closing' \/ a \in admin[w].close
           /\ r.close \subseteq Closing'
<1>1. /\ admin'[w] = r
      /\ \A x \in Admins \ {w} : admin'[x] = admin[x]
    BY TypeParts DEF RequestTypes
<1> QED
    BY <1>1 DEF TableInv, InOrder, Closing

\* A step that moves a request on and leaves the tables alone, and the sessions
\* the request holds, preserves the invariant.
LEMMA TableRequestOnly ==
    ASSUME TypeOK, TableInv, NEW w \in Admins, NEW r, InOrder(r),
           admin' = [admin EXCEPT ![w] = r], r.close = admin[w].close,
           UNCHANGED <<auth, sessions, clients, leaving, early>>
    PROVE  TableInv'
<1>1. /\ (\A x \in Admins : InOrder(admin[x]))'
      /\ \A a : a \in Closing' <=> a \in Closing
    <2>1. /\ (\A x \in Admins : InOrder(admin[x]))'
          /\ \A a \in Closing' : a \in Closing \/ a \in r.close
          /\ \A a \in Closing : a \in Closing' \/ a \in admin[w].close
          /\ r.close \subseteq Closing'
        BY RequestReplaced
    <2>2. admin[w].close \subseteq Closing
        BY DEF Closing
    <2> QED
        BY <2>1, <2>2
<1>2. Progress'
    BY <1>1 DEF TableInv, Progress
<1>3. SessionsAreMembers' /\ MembersAccountedFor'
    BY <1>1 DEF TableInv, SessionsAreMembers, MembersAccountedFor, Closing
<1> QED
    BY <1>1, <1>2, <1>3 DEF TableInv

\* Bans, unbans and the saving of the lists.
LEMMA TableBan ==
    ASSUME TypeOK, TableInv, NEW w \in Admins,
           \/ \E i \in IPs : Ban(w, "ip", i) \/ UnbanIP(w, i)
           \/ \E acc \in Account : Ban(w, "login", acc) \/ UnbanLogin(w, acc)
           \/ KickBansIP(w) \/ Snapshot(w) \/ Truncate(w)
           \/ WriteFile(w) \/ SaveFails(w)
    PROVE  TableInv'
<1> DEFINE req == admin[w]
           Tables == UNCHANGED <<auth, sessions, clients, leaving, early>>
           Moved == \E r : /\ InOrder(r) /\ r.close = req.close
                           /\ admin' = [admin EXCEPT ![w] = r]
<1>0. req \in APIRequest /\ InOrder(req)
    BY TypeParts DEF RequestTypes, TableInv
<1>1. Tables
    BY DEF Ban, UnbanIP, UnbanLogin, KickBansIP, Snapshot, Truncate, WriteFile,
           SaveFails, authVars, Request
<1>2. SUFFICES Moved
    BY <1>1, TableRequestOnly
<1>3. ASSUME NEW r \in APIRequest, Request(w, r), r.close = {}, InOrder(r) PROVE Moved
    BY <1>0, <1>3 DEF Request, InOrder
<1>4. CASE \/ \E i \in IPs : Ban(w, "ip", i) \/ UnbanIP(w, i)
           \/ \E acc \in Account : Ban(w, "login", acc) \/ UnbanLogin(w, acc)
    <2>1. ASSUME NEW list \in Lists, NEW entry \in Entries(list), Ban(w, list, entry)
          PROVE  Moved
        <3> DEFINE r == [NoRequest EXCEPT !.pc = "save", !.list = list, !.about = {entry},
                                          !.then = "collect"]
        <3>1. r \in APIRequest /\ r.close = {} /\ InOrder(r)
            BY DEF NoRequest, APIRequest, InOrder, Entries, Lists
        <3> QED
            BY <1>3, <2>1, <3>1 DEF Ban
    <2>2. LET r == [NoRequest EXCEPT !.pc = "save", !.list = "login"]
          IN  r \in APIRequest /\ r.close = {} /\ InOrder(r)
        BY DEF NoRequest, APIRequest, InOrder, Lists
    <2>3. NoRequest \in APIRequest /\ NoRequest.close = {} /\ InOrder(NoRequest)
        BY DEF NoRequest, APIRequest, InOrder, Lists
    <2>4. LET r == [NoRequest EXCEPT !.pc = "save"]
          IN  r \in APIRequest /\ r.close = {} /\ InOrder(r)
        BY DEF NoRequest, APIRequest, InOrder, Lists
    <2>5. ASSUME NEW i \in IPs, UnbanIP(w, i) PROVE Moved
        BY <1>3, <2>3, <2>4, <2>5 DEF UnbanIP
    <2>6. ASSUME NEW acc \in Account, UnbanLogin(w, acc) PROVE Moved
        BY <1>3, <2>2, <2>3, <2>6 DEF UnbanLogin
    <2> QED
        BY <1>4, <2>1, <2>5, <2>6 DEF Lists, Entries
<1>5. CASE KickBansIP(w) \/ Truncate(w)
    <2>1. \E p \in {"save", "write"} : admin' = [admin EXCEPT ![w] = [req EXCEPT !.pc = p]]
        BY <1>5, TypeParts DEF KickBansIP, Truncate, RequestTypes
    <2>2. req.pc \in {"banip", "open"}
        BY <1>5 DEF KickBansIP, Truncate
    <2> QED
        BY <1>0, <2>1, <2>2 DEF InOrder, APIRequest
<1>6. CASE Snapshot(w)
    <2> DEFINE r == [req EXCEPT !.pc = "open", !.snap = banned[req.list]]
    <2>1. admin' = [admin EXCEPT ![w] = r]
        BY <1>6, TypeParts DEF Snapshot, RequestTypes, APIRequest
    <2>2. InOrder(r) /\ r.close = req.close
        BY <1>0, <1>6 DEF Snapshot, InOrder, APIRequest
    <2> QED
        BY <2>1, <2>2
<1>7. CASE WriteFile(w) \/ SaveFails(w)
    <2> DEFINE r == IF req.then = "idle" THEN NoRequest
                    ELSE [req EXCEPT !.pc = req.then, !.snap = {}]
    <2>1. admin' = [admin EXCEPT ![w] = r]
        BY <1>7 DEF WriteFile, SaveFails
    <2>2. InOrder(r) /\ r.close = req.close
        BY <1>0, <1>7 DEF WriteFile, SaveFails, InOrder, APIRequest, NoRequest
    <2> QED
        BY <2>1, <2>2
<1> QED
    BY <1>4, <1>5, <1>6, <1>7

\* The two steps that take sessions out of the map for good.
LEMMA TableKick ==
    ASSUME TypeOK, TableInv, NEW w \in Admins,
           kickSessions(w) \/ \E a \in Attempts : Kick(w, a)
    PROVE  TableInv'
<1> USE TypeParts DEF AttemptTypes
<1> DEFINE Out(S, r) ==
             /\ admin' = [admin EXCEPT ![w] = r] /\ InOrder(r)
             /\ r.close = S /\ S \subseteq sessions /\ admin[w].close = {}
             /\ sessions' = sessions \ S
             /\ early' = early \cup NotUp(S)
             /\ UNCHANGED <<auth, clients, leaving>>
<1>0. admin[w] \in APIRequest /\ InOrder(admin[w])
    BY DEF RequestTypes, TableInv
<1>1. ASSUME NEW S, NEW r, Out(S, r) PROVE TableInv'
    <2>1. /\ (\A x \in Admins : InOrder(admin[x]))'
          /\ \A a : a \in Closing' <=> a \in Closing \/ a \in S
        <3>1. /\ (\A x \in Admins : InOrder(admin[x]))'
              /\ \A a \in Closing' : a \in Closing \/ a \in r.close
              /\ \A a \in Closing : a \in Closing' \/ a \in admin[w].close
              /\ r.close \subseteq Closing'
            BY <1>1, RequestReplaced
        <3> QED
            BY <1>1, <3>1
    <2>2. Progress'
        BY <1>1, <2>1 DEF TableInv, Progress, NotUp
    <2>3. SessionsAreMembers' /\ MembersAccountedFor'
        BY <1>1, <2>1 DEF TableInv, SessionsAreMembers, MembersAccountedFor, Closing
    <2> QED
        BY <2>1, <2>2, <2>3 DEF TableInv
<1>2. CASE kickSessions(w)
    <2> DEFINE S == Concerned(sessions, admin[w].list, admin[w].about)
               r == [admin[w] EXCEPT !.pc = "leave", !.close = S]
    <2>1. admin' = [admin EXCEPT ![w] = r]
        BY <1>2 DEF kickSessions, RequestTypes, APIRequest
    <2>2. /\ S \subseteq sessions /\ r.close = S
          /\ InOrder(r) /\ admin[w].close = {}
        BY <1>0, <1>2 DEF kickSessions, Concerned, InOrder, APIRequest
    <2>3. Out(S, r)
        BY <1>2, <2>1, <2>2 DEF kickSessions, authVars
    <2> QED
        BY <1>1, <2>3
<1>3. ASSUME NEW a \in Attempts, Kick(w, a) PROVE TableInv'
    <2> DEFINE r == [NoRequest EXCEPT !.pc = "banip", !.then = "leave", !.close = {a}]
    <2>1. admin' = [admin EXCEPT ![w] = r] /\ admin[w].close = {}
        BY <1>0, <1>3 DEF Kick, Request, InOrder
    <2>2. r.close = {a} /\ InOrder(r)
        BY DEF NoRequest, InOrder
    <2>3. Out({a}, r)
        BY <1>3, <2>1, <2>2 DEF Kick, authVars
    <2> QED
        BY <1>1, <2>3
<1> QED
    BY <1>2, <1>3

\* The sessions a request holds leave their hub: none of them is in the map.
LEMMA TableLeave ==
    ASSUME TypeOK, TableInv, NEW w \in Admins, CloseAndLeave(w)
    PROVE  TableInv'
<1>1. NoRequest.close = {} /\ InOrder(NoRequest)
    BY DEF NoRequest, InOrder
<1>2. /\ (\A x \in Admins : InOrder(admin[x]))'
      /\ \A a \in Closing' : a \in Closing
      /\ \A a \in Closing : a \in Closing' \/ a \in admin[w].close
    BY <1>1, RequestReplaced DEF CloseAndLeave
<1>3. /\ clients' = clients \ admin[w].close /\ admin[w].close \subseteq Closing
      /\ UNCHANGED <<auth, sessions, leaving, early>>
    BY DEF CloseAndLeave, authVars, Closing
<1>4. Progress' /\ SessionsAreMembers'
    BY <1>2, <1>3, TypeParts DEF TableInv, Progress, SessionsAreMembers, AttemptTypes
<1>5. MembersAccountedFor'
    BY <1>2, <1>3 DEF TableInv, MembersAccountedFor, Closing
<1> QED
    BY <1>2, <1>4, <1>5 DEF TableInv

\* A restart forgets everybody; the end of a block concerns no session.
LEMMA TableRest ==
    ASSUME TypeOK, TableInv,
           Restart \/ (\E l \in Logins : KickExpires(l)) \/ UNCHANGED vars
    PROVE  TableInv'
<1>1. CASE (\E l \in Logins : KickExpires(l)) \/ UNCHANGED vars
    <2>1. UNCHANGED <<auth, sessions, clients, leaving, early, admin>>
        BY <1>1 DEF KickExpires, vars, authVars, adminVars
    <2> QED
        BY <2>1 DEF TableInv, Progress, SessionsAreMembers, MembersAccountedFor, Closing,
           InOrder
<1>2. CASE Restart
    <2>1. (\A w \in Admins : InOrder(admin[w]))' /\ Closing' = {}
        BY <1>2 DEF Restart, NoRequest, InOrder, Closing
    <2>2. Progress' /\ SessionsAreMembers' /\ MembersAccountedFor'
        BY <1>2, <2>1 DEF Restart, Progress, SessionsAreMembers, MembersAccountedFor
    <2> QED
        BY <2>1, <2>2 DEF TableInv
<1> QED
    BY <1>1, <1>2

\* The invariant that ties the map, the hubs and the requests together holds.
LEMMA TableInvariant == Spec => []TableInv
<1>1. TypeOK /\ TableInv /\ [Next]_vars => TableInv'
    BY TableAttempt, TableBan, TableKick, TableLeave, TableRest DEF Next, AttemptStep
<1> QED
    BY TableInit, <1>1, TypeCorrect, PTL DEF Spec

\* Whoever takes an authenticated session out of its hub (time-out, end of the
\* stream, kick, ban) took it out of s.sessions first: with any number of
\* requests and of attempts, a session in the map can be reached by frames.
THEOREM SessionsReachable == Spec => []SessionsAreMembers
BY TableInvariant, PTL DEF TableInv

\* A hub member without a session is on its way out or was removed between the
\* two critical sections of handleAuth: no other interleaving of the four ways
\* out leaves a member behind.
THEOREM NoOtherGhosts == Spec => []MembersAccountedFor
BY TableInvariant, PTL DEF TableInv

-------------------------------------------------------------------------------
(* Login bans. *)

\* A request that has banned the account and has still to look for its sessions.
Waits(r, acc) ==
    r.list = "login" /\ acc \in r.about /\ r.pc \in {"save", "open", "write", "collect"}

Awaited(acc) == \E w \in Admins : Waits(admin[w], acc)

\* Only a ban is about somebody.
AboutBan(r) == r.then # "collect" => r.about = {}

\* A session of a banned account, or an attempt past the check, was overtaken or
\* is still to be looked for.
BanInv ==
    /\ \A w \in Admins : AboutBan(admin[w])
    /\ \A a \in Attempts :
          accountOf(a) \in banned["login"] /\ (a \in sessions \/ auth[a] = "cleared") =>
              a \in overtaken \/ Awaited(accountOf(a))

\* A request moves on and goes on waiting; the sessions of banned accounts become
\* no more.
LEMMA BanMoves ==
    ASSUME TypeOK, BanInv, NEW w \in Admins, NEW r, admin' = [admin EXCEPT ![w] = r],
           AboutBan(r), \A acc : Waits(admin[w], acc) => Waits(r, acc),
           auth' = auth, sessions' \subseteq sessions, overtaken' = overtaken,
           banned'["login"] \subseteq banned["login"]
    PROVE  BanInv'
<1>1. admin'[w] = r /\ \A x \in Admins \ {w} : admin'[x] = admin[x]
    BY TypeParts DEF RequestTypes
<1>2. \A x \in Admins : AboutBan(admin[x])'
    BY <1>1 DEF BanInv, AboutBan
<1>3. \A acc : Awaited(acc) => Awaited(acc)'
    BY <1>1 DEF Awaited, Waits
<1> QED
    BY <1>2, <1>3 DEF BanInv

\* Authentication refuses a banned account, and what had passed before enters the
\* map with what is known about it.
LEMMA BanAttempt ==
    ASSUME TypeOK, BanInv, NEW a \in Attempts, AttemptStep(a)
    PROVE  BanInv'
<1> USE DEF AttemptStep
<1>1. UNCHANGED <<banned, admin, overtaken>>
    BY DEF CheckIP, RefuseCredentials, CheckLogin, Insert, JoinHub, cleanupSessions,
           StreamEnds, removeSession, adminVars, banVars
<1>2. \A acc : Awaited(acc)' <=> Awaited(acc)
    BY <1>1 DEF Awaited, Waits
<1>3. \A b \in Attempts :
         accountOf(b) \in banned["login"] /\ (b \in sessions' \/ auth'[b] = "cleared") =>
             b \in sessions \/ auth[b] = "cleared"
    BY TypeParts DEF AttemptTypes, CheckIP, RefuseCredentials, CheckLogin, Insert, JoinHub,
       cleanupSessions, StreamEnds, removeSession, AuthStep
<1>4. (\A w \in Admins : AboutBan(admin[w]))'
    BY <1>1 DEF BanInv, AboutBan
<1> QED
    BY <1>1, <1>2, <1>3, <1>4 DEF BanInv

\* Kicks, unbans and the steps that save a list.
LEMMA BanRequest ==
    ASSUME TypeOK, BanInv, NEW w \in Admins,
           \/ \E a \in Attempts : Kick(w, a)
           \/ \E i \in IPs : UnbanIP(w, i) \/ Ban(w, "ip", i)
           \/ \E acc \in Account : UnbanLogin(w, acc)
           \/ KickBansIP(w) \/ CloseAndLeave(w)
           \/ Snapshot(w) \/ Truncate(w) \/ WriteFile(w) \/ SaveFails(w)
    PROVE  BanInv'
<1> DEFINE req == admin[w]
<1>0. req \in APIRequest /\ AboutBan(req) /\ "login" \in Lists /\ "ip" # "login"
    BY TypeParts DEF RequestTypes, BanInv, Lists
<1>1. /\ UNCHANGED <<auth, overtaken>> /\ sessions' \subseteq sessions
      /\ banned'["login"] \subseteq banned["login"]
    BY <1>0, TypeParts DEF BanTypes, Kick, UnbanIP, Ban, UnbanLogin, KickBansIP,
       CloseAndLeave, Snapshot, Truncate, WriteFile, SaveFails, authVars, adminVars, banVars
<1>2. SUFFICES \E r : /\ admin' = [admin EXCEPT ![w] = r] /\ AboutBan(r)
                      /\ \A acc : Waits(req, acc) => Waits(r, acc)
    BY <1>1, BanMoves
<1>3. ASSUME NEW r, Request(w, r), AboutBan(r)
      PROVE  \E q : /\ admin' = [admin EXCEPT ![w] = q] /\ AboutBan(q)
                    /\ \A acc : Waits(req, acc) => Waits(q, acc)
    BY <1>3 DEF Request, Waits
<1>4. AboutBan(NoRequest)
    BY DEF AboutBan, NoRequest
<1>5. ASSUME NEW a \in Attempts, Kick(w, a)
      PROVE  \E r : /\ admin' = [admin EXCEPT ![w] = r] /\ AboutBan(r)
                    /\ \A acc : Waits(req, acc) => Waits(r, acc)
    <2>1. AboutBan([NoRequest EXCEPT !.pc = "banip", !.then = "leave", !.close = {a}])
        BY DEF AboutBan, NoRequest
    <2> QED
        BY <1>3, <1>5, <2>1 DEF Kick
<1>6. ASSUME NEW i \in IPs, UnbanIP(w, i) \/ Ban(w, "ip", i)
      PROVE  \E r : /\ admin' = [admin EXCEPT ![w] = r] /\ AboutBan(r)
                    /\ \A acc : Waits(req, acc) => Waits(r, acc)
    <2>1. /\ AboutBan([NoRequest EXCEPT !.pc = "save"])
          /\ AboutBan([NoRequest EXCEPT !.pc = "save", !.list = "ip", !.about = {i},
                                        !.then = "collect"])
        BY DEF AboutBan, NoRequest
    <2> QED
        BY <1>3, <1>4, <1>6, <2>1 DEF UnbanIP, Ban
<1>7. ASSUME NEW acc \in Account, UnbanLogin(w, acc)
      PROVE  \E r : /\ admin' = [admin EXCEPT ![w] = r] /\ AboutBan(r)
                    /\ \A c : Waits(req, c) => Waits(r, c)
    <2>1. AboutBan([NoRequest EXCEPT !.pc = "save", !.list = "login"])
        BY DEF AboutBan, NoRequest
    <2> QED
        BY <1>3, <1>4, <1>7, <2>1 DEF UnbanLogin
<1>8. CASE KickBansIP(w) \/ CloseAndLeave(w)
    <2>1. /\ req.pc \in {"banip", "leave"}
          /\ \/ admin' = [admin EXCEPT ![w] = [req EXCEPT !.pc = "save"]]
             \/ admin' = [admin EXCEPT ![w] = NoRequest]
        BY <1>8 DEF KickBansIP, CloseAndLeave
    <2>2. AboutBan([req EXCEPT !.pc = "save"])
        BY <1>0 DEF AboutBan, APIRequest
    <2>3. \A acc : ~Waits(req, acc)
        BY <2>1 DEF Waits
    <2> QED
        BY <1>4, <2>1, <2>2, <2>3
<1>9. CASE Snapshot(w) \/ Truncate(w)
    <2> DEFINE r == IF req.pc = "open" THEN [req EXCEPT !.pc = "write"]
                    ELSE [req EXCEPT !.pc = "open", !.snap = banned[req.list]]
    <2>1. admin' = [admin EXCEPT ![w] = r]
        BY <1>9, TypeParts DEF Snapshot, Truncate, RequestTypes, APIRequest
    <2>2. AboutBan(r) /\ \A acc : Waits(req, acc) => Waits(r, acc)
        BY <1>0 DEF AboutBan, Waits, APIRequest
    <2> QED
        BY <2>1, <2>2
<1>10. CASE WriteFile(w) \/ SaveFails(w)
    <2> DEFINE r == IF req.then = "idle" THEN NoRequest
                    ELSE [req EXCEPT !.pc = req.then, !.snap = {}]
    <2>1. admin' = [admin EXCEPT ![w] = r]
        BY <1>10 DEF WriteFile, SaveFails
    <2>2. AboutBan(r)
        BY <1>0, <1>4 DEF AboutBan, APIRequest
    <2>3. \A acc : Waits(req, acc) => Waits(r, acc)
        BY <1>0 DEF AboutBan, Waits, APIRequest
    <2> QED
        BY <2>1, <2>2, <2>3
<1> QED
    BY <1>5, <1>6, <1>7, <1>8, <1>9, <1>10

\* The ban of an account, and the step that looks for its sessions: what is in
\* the map goes, what is about to enter it has been overtaken.
LEMMA BanCarriedOut ==
    ASSUME TypeOK, BanInv, NEW w \in Admins,
           kickSessions(w) \/ \E acc \in Account : Ban(w, "login", acc)
    PROVE  BanInv'
<1>0. /\ admin[w] \in APIRequest /\ AboutBan(admin[w]) /\ "login" \in Lists
      /\ banned["login"] \in SUBSET Account /\ DOMAIN banned = Lists
    BY TypeParts DEF RequestTypes, BanInv, Lists, BanTypes, Entries
<1>1. ASSUME NEW acc \in Account, Ban(w, "login", acc)
      PROVE  BanInv'
    <2> DEFINE r == [NoRequest EXCEPT !.pc = "save", !.list = "login", !.about = {acc},
                                      !.then = "collect"]
    <2>1. /\ admin[w].pc = "idle" /\ admin' = [admin EXCEPT ![w] = r]
          /\ UNCHANGED <<auth, sessions, overtaken>>
        BY <1>1 DEF Ban, Request, authVars
    <2>2. r.list = "login" /\ r.about = {acc} /\ r.then = "collect" /\ r.pc = "save"
        BY DEF NoRequest
    <2> HIDE DEF r
    <2>3. admin'[w] = r /\ \A x \in Admins \ {w} : admin'[x] = admin[x]
        BY <2>1, TypeParts DEF RequestTypes
    <2>4. \A x \in Admins : AboutBan(admin[x])'
        BY <2>2, <2>3 DEF BanInv, AboutBan
    <2>5. \A c : Awaited(c) => Awaited(c)'
        BY <2>1, <2>3 DEF Awaited, Waits
    <2>6. Awaited(acc)'
        BY <2>2, <2>3 DEF Awaited, Waits
    <2>7. banned'["login"] = banned["login"] \cup {acc}
        BY <1>0, <1>1 DEF Ban
    <2> QED
        BY <2>1, <2>4, <2>5, <2>6, <2>7 DEF BanInv
<1>2. CASE kickSessions(w)
    <2> DEFINE req == admin[w]
               S == Concerned(sessions, req.list, req.about)
               C == {a \in Attempts : auth[a] = "cleared"}
               r == [req EXCEPT !.pc = "leave", !.close = S]
    <2>1. /\ req.pc = "collect" /\ sessions' = sessions \ S
          /\ overtaken' = overtaken \cup Concerned(C, req.list, req.about)
          /\ UNCHANGED <<auth, banned>>
        BY <1>2 DEF kickSessions, authVars
    <2>2. admin' = [admin EXCEPT ![w] = r]
        BY <1>2, TypeParts DEF kickSessions, RequestTypes, APIRequest
    <2>3. AboutBan(r)
        BY <1>0 DEF AboutBan, APIRequest
    <2>4. admin'[w] = r /\ \A x \in Admins \ {w} : admin'[x] = admin[x]
        BY <2>2, TypeParts DEF RequestTypes
    <2>5. \A x \in Admins : AboutBan(admin[x])'
        BY <2>3, <2>4 DEF BanInv, AboutBan
    <2>6. \A acc : Awaited(acc) => Awaited(acc)' \/ (req.list = "login" /\ acc \in req.about)
        BY <2>4 DEF Awaited, Waits
    <2>7. SUFFICES ASSUME NEW a \in Attempts, accountOf(a) \in banned["login"],
                          a \in sessions' \/ auth[a] = "cleared"
                   PROVE  a \in overtaken' \/ Awaited(accountOf(a))'
        BY <2>1, <2>5 DEF BanInv
    <2>8. a \in overtaken \/ Awaited(accountOf(a))
        BY <2>1, <2>7 DEF BanInv
    <2>9. CASE req.list = "login" /\ accountOf(a) \in req.about
        <3>1. a \in sessions => a \in S
            BY <2>9 DEF Concerned
        <3>2. a \in C => a \in Concerned(C, req.list, req.about)
            BY <2>9 DEF Concerned
        <3> QED
            BY <2>1, <2>7, <3>1, <3>2
    <2> QED
        BY <2>1, <2>6, <2>8, <2>9
<1> QED
    BY <1>1, <1>2

\* A restart leaves no session and no attempt past the check.
LEMMA BanRest ==
    ASSUME TypeOK, BanInv,
           Restart \/ (\E l \in Logins : KickExpires(l)) \/ UNCHANGED vars
    PROVE  BanInv'
<1>1. CASE (\E l \in Logins : KickExpires(l)) \/ UNCHANGED vars
    <2>1. UNCHANGED <<auth, sessions, banned, admin, overtaken>>
        BY <1>1 DEF KickExpires, vars, authVars, adminVars
    <2> QED
        BY <2>1 DEF BanInv, AboutBan, Awaited, Waits
<1>2. CASE Restart
    BY <1>2 DEF Restart, BanInv, AboutBan, NoRequest
<1> QED
    BY <1>1, <1>2

\* kickSessionsByLogin and handleAuth: with any number of requests, a carried-out
\* login ban leaves no session of the account but one that overtook it.
THEOREM LoginBansHold == Spec => []LoginBanHolds
<1>1. Init => BanInv
    BY DEF Init, BanInv, AboutBan, NoRequest
<1>2. TypeOK /\ BanInv /\ [Next]_vars => BanInv'
    BY BanAttempt, BanRequest, BanCarriedOut, BanRest DEF Next, AttemptStep
<1>3. TypeOK /\ BanInv => LoginBanHolds
    BY TypeParts DEF AttemptTypes, BanInv, LoginBanHolds, AllIdle, Awaited, Waits
<1> QED
    BY <1>1, <1>2, <1>3, TypeCorrect, PTL DEF Spec

-------------------------------------------------------------------------------
(* Blocks and the lists on disk. *)

\* One request at a time: there is one, and no other.
LEMMA OnlyOne ==
    ASSUME OneAtATime
    PROVE  \E w \in Admins : \A x \in Admins : x = w
<1>1. PICK w : Admins = {w}
    BY FS_Singleton, SessionsAssumption DEF OneAtATime
<1> QED
    BY <1>1

\* A kick that has blocked the login and not yet noted it.
Pending(l) ==
    \E w \in Admins : admin[w].pc = "banip" /\ \E a \in admin[w].close : loginOf[a] = l

\* A request about an address finds the address banned until it looks for its
\* sessions.
AboutBanned(r, bans) ==
    r.list = "ip" /\ r.pc \in {"banip", "save", "open", "write", "collect"} =>
        r.about \subseteq bans["ip"]

Liftable(l) == \E i \in IPs : l \in ipToLogins[i] /\ (OneAtATime => i \in banned["ip"])

\* A blocked login is noted, or about to be.
LiftInv ==
    /\ \A l \in kicked \ loginKicked : Pending(l) \/ Liftable(l)
    /\ OneAtATime => \A w \in Admins : AboutBanned(admin[w], banned)

\* A request that is not about to note a login moves on; notes stay, and so do
\* the bans of addresses.
LEMMA LiftMoves ==
    ASSUME TypeOK, LiftInv, NEW w \in Admins, NEW r, admin' = [admin EXCEPT ![w] = r],
           admin[w].pc # "banip", UNCHANGED <<kicked, loginKicked, ipToLogins>>,
           banned["ip"] \subseteq banned'["ip"],
           OneAtATime => AboutBanned(r, banned')
    PROVE  LiftInv'
<1>1. admin'[w] = r /\ \A x \in Admins \ {w} : admin'[x] = admin[x]
    BY TypeParts DEF RequestTypes
<1>2. \A l : Pending(l) => Pending(l)'
    BY <1>1 DEF Pending
<1>3. \A l : Liftable(l) => Liftable(l)'
    BY DEF Liftable
<1>4. OneAtATime => \A x \in Admins : AboutBanned(admin'[x], banned')
    BY <1>1, OnlyOne DEF AboutBanned
<1> QED
    BY <1>2, <1>3, <1>4 DEF LiftInv

\* The kick blocks the login; its second section notes it under the address.
LEMMA LiftKick ==
    ASSUME TypeOK, LiftInv, NEW w \in Admins,
           KickBansIP(w) \/ \E a \in Attempts : Kick(w, a)
    PROVE  LiftInv'
<1>0. admin[w] \in APIRequest /\ "ip" \in Lists
    BY TypeParts DEF RequestTypes, Lists
<1>1. ASSUME NEW a \in Attempts, Kick(w, a)
      PROVE  LiftInv'
    <2> DEFINE r == [NoRequest EXCEPT !.pc = "banip", !.then = "leave", !.close = {a}]
    <2>1. /\ admin[w].pc = "idle" /\ admin' = [admin EXCEPT ![w] = r]
          /\ UNCHANGED <<banned, ipToLogins, loginKicked>>
          /\ kicked' = kicked \cup {loginOf[a]}
        BY <1>1 DEF Kick, Request
    <2>2. r.pc = "banip" /\ r.close = {a} /\ r.about = {}
        BY DEF NoRequest
    <2> HIDE DEF r
    <2>3. admin'[w] = r /\ \A x \in Admins \ {w} : admin'[x] = admin[x]
        BY <2>1, TypeParts DEF RequestTypes
    <2>4. \A l : Pending(l) => Pending(l)'
        BY <2>1, <2>3 DEF Pending
    <2>5. Pending(loginOf[a])'
        BY <2>2, <2>3 DEF Pending
    <2>6. \A l : Liftable(l) => Liftable(l)'
        BY <2>1 DEF Liftable
    <2>7. OneAtATime => \A x \in Admins : AboutBanned(admin'[x], banned')
        BY <2>1, <2>2, <2>3 DEF LiftInv, AboutBanned
    <2> QED
        BY <2>1, <2>4, <2>5, <2>6, <2>7 DEF LiftInv
<1>2. CASE KickBansIP(w)
    <2> DEFINE r == [admin[w] EXCEPT !.pc = "save"]
    <2>1. /\ admin[w].pc = "banip" /\ admin' = [admin EXCEPT ![w] = r]
          /\ ipToLogins' = Blame(admin[w].close) /\ UNCHANGED <<kicked, loginKicked>>
        BY <1>2 DEF KickBansIP
    <2>2. banned'["ip"] = banned["ip"] \cup {ipOf[a] : a \in admin[w].close}
        BY <1>0, <1>2, TypeParts DEF KickBansIP, BanTypes
    <2>3. r.pc = "save" /\ r.about = admin[w].about /\ r.list = admin[w].list
        BY <1>0 DEF APIRequest
    <2> HIDE DEF r
    <2>4. admin'[w] = r /\ \A x \in Admins \ {w} : admin'[x] = admin[x]
        BY <2>1, TypeParts DEF RequestTypes
    <2>5. \A l : Liftable(l) => Liftable(l)'
        BY <2>1, <2>2 DEF Liftable, Blame
    <2>6. ASSUME NEW a \in admin[w].close
          PROVE  Liftable(loginOf[a])'
        <3>1. a \in Attempts /\ ipOf[a] \in IPs
            BY <1>0, SessionsAssumption DEF APIRequest
        <3>2. loginOf[a] \in ipToLogins'[ipOf[a]]
            BY <2>1, <3>1 DEF Blame
        <3> QED
            BY <2>2, <3>1, <3>2 DEF Liftable
    <2>7. \A l : Pending(l) => Pending(l)' \/ Liftable(l)'
        BY <2>4, <2>6 DEF Pending
    <2>8. OneAtATime => \A x \in Admins : AboutBanned(admin'[x], banned')
        BY <2>1, <2>2, <2>3, <2>4 DEF LiftInv, AboutBanned
    <2> QED
        BY <2>1, <2>5, <2>7, <2>8 DEF LiftInv
<1> QED
    BY <1>1, <1>2

\* The sessions of a banned address: their logins are blocked and noted at once.
LEMMA LiftCollect ==
    ASSUME TypeOK, LiftInv, NEW w \in Admins, kickSessions(w)
    PROVE  LiftInv'
<1> DEFINE req == admin[w]
           S == Concerned(sessions, req.list, req.about)
           r == [req EXCEPT !.pc = "leave", !.close = S]
<1>0. req \in APIRequest /\ "ip" \in Lists /\ S \subseteq Attempts
    BY TypeParts DEF RequestTypes, Lists, Concerned, AttemptTypes
<1>1. admin' = [admin EXCEPT ![w] = r]
    BY TypeParts DEF kickSessions, RequestTypes, APIRequest
<1>2. r.pc = "leave"
    BY <1>0 DEF APIRequest
<1>3. admin'[w] = r /\ \A x \in Admins \ {w} : admin'[x] = admin[x]
    BY <1>1, TypeParts DEF RequestTypes
<1>4. /\ req.pc = "collect" /\ banned' = banned
      /\ kicked' = kicked \cup {loginOf[a] : a \in S}
      /\ ipToLogins' = IF req.list = "ip" THEN Blame(S) ELSE ipToLogins
      /\ loginKicked' = IF req.list = "ip" THEN loginKicked
                        ELSE loginKicked \cup {loginOf[a] : a \in S}
    BY DEF kickSessions
<1>5. \A l : Pending(l) => Pending(l)'
    BY <1>3, <1>4 DEF Pending
<1>6. \A l : Liftable(l) => Liftable(l)'
    BY <1>4 DEF Liftable, Blame
<1>7. ASSUME req.list = "ip", NEW a \in S
      PROVE  Liftable(loginOf[a])'
    <2>1. a \in Attempts /\ ipOf[a] \in IPs /\ ipOf[a] \in req.about
        BY <1>0, <1>7, SessionsAssumption DEF Concerned
    <2>2. loginOf[a] \in ipToLogins'[ipOf[a]]
        BY <1>4, <1>7, <2>1 DEF Blame
    <2>3. OneAtATime => ipOf[a] \in banned["ip"]
        BY <1>4, <1>7, <2>1 DEF LiftInv, AboutBanned
    <2> QED
        BY <1>4, <2>1, <2>2, <2>3 DEF Liftable
<1>8. OneAtATime => \A x \in Admins : AboutBanned(admin'[x], banned')
    BY <1>2, <1>3, <1>4 DEF LiftInv, AboutBanned
<1> HIDE DEF S
<1> QED
    BY <1>4, <1>5, <1>6, <1>7, <1>8 DEF LiftInv

\* Lifting the ban of an address releases every login noted under it, so that the
\* blocked ones that are left are noted under another.
LEMMA LiftUnban ==
    ASSUME TypeOK, LiftInv, NEW w \in Admins, NEW i \in IPs, UnbanIP(w, i)
    PROVE  LiftInv'
<1> DEFINE r == IF i \in banned["ip"] THEN [NoRequest EXCEPT !.pc = "save"] ELSE NoRequest
<1>1. /\ admin[w].pc = "idle" /\ admin' = [admin EXCEPT ![w] = r]
      /\ kicked' = kicked \ ipToLogins[i] /\ loginKicked' = loginKicked \ ipToLogins[i]
      /\ ipToLogins' = [ipToLogins EXCEPT ![i] = {}]
    BY DEF UnbanIP, Request
<1>2. r.about = {}
    BY DEF NoRequest
<1>3. banned'["ip"] = banned["ip"] \ {i}
    BY TypeParts DEF UnbanIP, BanTypes, Lists
<1> HIDE DEF r
<1>4. admin'[w] = r /\ \A x \in Admins \ {w} : admin'[x] = admin[x]
    BY <1>1, TypeParts DEF RequestTypes
<1>5. \A l : Pending(l) => Pending(l)'
    BY <1>1, <1>4 DEF Pending
<1>6. \A l : Liftable(l) /\ l \notin ipToLogins[i] => Liftable(l)'
    BY <1>1, <1>3, TypeParts DEF Liftable, BanTypes
<1>7. OneAtATime => \A x \in Admins : AboutBanned(admin'[x], banned')
    BY <1>2, <1>4, OnlyOne DEF AboutBanned
<1> QED
    BY <1>1, <1>5, <1>6, <1>7 DEF LiftInv

\* The other steps of a request.
LEMMA LiftRequest ==
    ASSUME TypeOK, LiftInv, NEW w \in Admins,
           \/ \E i \in IPs : Ban(w, "ip", i)
           \/ \E acc \in Account : Ban(w, "login", acc) \/ UnbanLogin(w, acc)
           \/ CloseAndLeave(w)
           \/ Snapshot(w) \/ Truncate(w) \/ WriteFile(w) \/ SaveFails(w)
    PROVE  LiftInv'
<1> DEFINE req == admin[w]
<1>0. req \in APIRequest /\ (OneAtATime => AboutBanned(req, banned)) /\ DOMAIN banned = Lists
      /\ Lists = {"ip", "login"}
    BY TypeParts DEF RequestTypes, LiftInv, Lists, BanTypes
<1>1. UNCHANGED <<kicked, loginKicked, ipToLogins>> /\ banned["ip"] \subseteq banned'["ip"]
    BY <1>0 DEF Ban, UnbanLogin, CloseAndLeave, Snapshot, Truncate, WriteFile, SaveFails,
       banVars
<1>2. SUFFICES \E r : /\ admin' = [admin EXCEPT ![w] = r] /\ req.pc # "banip"
                      /\ OneAtATime => AboutBanned(r, banned')
    BY <1>1, LiftMoves
<1>3. AboutBanned(NoRequest, banned')
    BY DEF AboutBanned, NoRequest
<1>4. ASSUME NEW i \in IPs, Ban(w, "ip", i)
      PROVE  \E r : /\ admin' = [admin EXCEPT ![w] = r] /\ req.pc # "banip"
                    /\ OneAtATime => AboutBanned(r, banned')
    <2> DEFINE r == [NoRequest EXCEPT !.pc = "save", !.list = "ip", !.about = {i},
                                      !.then = "collect"]
    <2>1. req.pc = "idle" /\ admin' = [admin EXCEPT ![w] = r] /\ i \in banned'["ip"]
        BY <1>0, <1>4 DEF Ban, Request
    <2>2. AboutBanned(r, banned')
        BY <2>1 DEF AboutBanned, NoRequest
    <2> QED
        BY <2>1, <2>2
<1>5. ASSUME NEW acc \in Account, Ban(w, "login", acc) \/ UnbanLogin(w, acc)
      PROVE  \E r : /\ admin' = [admin EXCEPT ![w] = r] /\ req.pc # "banip"
                    /\ OneAtATime => AboutBanned(r, banned')
    <2>1. /\ AboutBanned([NoRequest EXCEPT !.pc = "save", !.list = "login",
                                           !.about = {acc}, !.then = "collect"], banned')
          /\ AboutBanned([NoRequest EXCEPT !.pc = "save", !.list = "login"], banned')
        BY DEF AboutBanned, NoRequest
    <2>2. req.pc = "idle"
        BY <1>5 DEF Ban, UnbanLogin, Request
    <2> QED
        BY <1>3, <1>5, <2>1, <2>2 DEF Ban, UnbanLogin, Request
<1>6. CASE CloseAndLeave(w)
    BY <1>3, <1>6 DEF CloseAndLeave
<1>7. CASE Snapshot(w) \/ Truncate(w)
    <2> DEFINE r == IF req.pc = "open" THEN [req EXCEPT !.pc = "write"]
                    ELSE [req EXCEPT !.pc = "open", !.snap = banned[req.list]]
    <2>1. admin' = [admin EXCEPT ![w] = r] /\ req.pc \in {"save", "open"}
        BY <1>7, TypeParts DEF Snapshot, Truncate, RequestTypes, APIRequest
    <2>2. r.list = req.list /\ r.about = req.about
        BY <1>0 DEF APIRequest
    <2> HIDE DEF r
    <2>3. OneAtATime => AboutBanned(r, banned')
        BY <1>0, <1>1, <2>1, <2>2 DEF AboutBanned
    <2> QED
        BY <2>1, <2>3
<1>8. CASE WriteFile(w) \/ SaveFails(w)
    <2> DEFINE r == [req EXCEPT !.pc = req.then, !.snap = {}]
    <2>1. /\ req.pc \in {"open", "write"}
          /\ admin' = [admin EXCEPT ![w] = IF req.then = "idle" THEN NoRequest ELSE r]
        BY <1>8 DEF WriteFile, SaveFails
    <2>2. r.list = req.list /\ r.about = req.about
        BY <1>0 DEF APIRequest
    <2> HIDE DEF r
    <2>3. OneAtATime => AboutBanned(r, banned')
        BY <1>0, <1>1, <2>1, <2>2 DEF AboutBanned
    <2> QED
        BY <1>3, <2>1, <2>3
<1> QED
    BY <1>4, <1>5, <1>6, <1>7, <1>8

\* Authentication blocks nobody, a block that is over needs no lifting, and a
\* restart forgets them all.
LEMMA LiftRest ==
    ASSUME TypeOK, LiftInv,
           \/ \E a \in Attempts : AttemptStep(a)
           \/ \E l \in Logins : KickExpires(l)
           \/ Restart \/ UNCHANGED vars
    PROVE  LiftInv'
<1>1. CASE (\E a \in Attempts : AttemptStep(a)) \/ UNCHANGED vars
    <2>1. UNCHANGED <<admin, banned, ipToLogins, kicked, loginKicked>>
        BY <1>1 DEF AttemptStep, CheckIP, RefuseCredentials, CheckLogin, Insert, JoinHub,
           cleanupSessions, StreamEnds, removeSession, adminVars, banVars, vars
    <2> QED
        BY <2>1 DEF LiftInv, Pending, Liftable, AboutBanned
<1>2. CASE \E l \in Logins : KickExpires(l)
    <2>1. UNCHANGED <<admin, banned, ipToLogins>>
          /\ \A x \in kicked' \ loginKicked' : x \in kicked \ loginKicked
        BY <1>2 DEF KickExpires, adminVars
    <2> QED
        BY <2>1 DEF LiftInv, Pending, Liftable, AboutBanned
<1>3. CASE Restart
    BY <1>3 DEF Restart, LiftInv, AboutBanned, NoRequest
<1> QED
    BY <1>1, <1>2, <1>3

\* handleAPIKick, kickSessionsByIP and the unban: with any number of requests, a
\* login blocked without a login ban is noted under an address, and with one
\* request at a time under a banned one.
THEOREM BlocksLift == Spec => []BlocksCanBeLifted
<1>1. Init => LiftInv
    BY DEF Init, LiftInv, AboutBanned, NoRequest
<1>2. TypeOK /\ LiftInv /\ [Next]_vars => LiftInv'
    BY LiftKick, LiftCollect, LiftUnban, LiftRequest, LiftRest DEF Next, AttemptStep
<1>3. LiftInv => BlocksCanBeLifted
    BY DEF LiftInv, BlocksCanBeLifted, AllIdle, Pending, Liftable
<1> QED
    BY <1>1, <1>2, <1>3, TypeCorrect, PTL DEF Spec

\* What the only request knows of the files: a list that it is not about to write
\* is on disk as it is in memory unless a save failed, and the list it is about to
\* write is so but for one entry; its snapshot is the list, and the file it writes
\* has been emptied.
InStep(r, bans, files, lost) ==
    /\ \A l \in Lists \ lost :
          \/ files[l] = bans[l]
          \/ /\ r.list = l /\ r.pc \in {"save", "open"}
             /\ files[l] # Corrupt /\ OneApart(files[l], bans[l])
          \/ r.list = l /\ r.pc = "write"
    /\ r.pc = "banip" => r.list = "ip" /\ \E a \in Attempts : r.close = {a}
    /\ r.pc \in {"open", "write"} => r.snap = bans[r.list]
    /\ r.pc = "write" => files[r.list] = Corrupt

DiskInv == OneAtATime => \A w \in Admins : InStep(admin[w], banned, disk, unsaved)

\* With one request at a time, a step of a request replaces the only one.
LEMMA DiskMoves ==
    ASSUME TypeOK, NEW w \in Admins, NEW r, admin' = [admin EXCEPT ![w] = r],
           OneAtATime => InStep(r, banned', disk', unsaved')
    PROVE  DiskInv'
<1>1. admin'[w] = r
    BY TypeParts DEF RequestTypes
<1> QED
    BY <1>1, OnlyOne DEF DiskInv

\* A request that starts or bans the address of a kick has the list still to save.
LEMMA DiskRequest ==
    ASSUME TypeOK, DiskInv, NEW w \in Admins,
           \/ \E a \in Attempts : Kick(w, a)
           \/ \E i \in IPs : Ban(w, "ip", i) \/ UnbanIP(w, i)
           \/ \E acc \in Account : Ban(w, "login", acc) \/ UnbanLogin(w, acc)
           \/ KickBansIP(w)
    PROVE  DiskInv'
<1> DEFINE req == admin[w]
<1>0. /\ req \in APIRequest /\ (OneAtATime => InStep(req, banned, disk, unsaved))
      /\ Lists = {"ip", "login"} /\ banned \in [Lists -> SUBSET (IPs \cup Account)]
      /\ \A l \in Lists : banned[l] # Corrupt
    BY TypeParts, SessionsAssumption DEF RequestTypes, DiskInv, Lists, BanTypes, Entries, Account
<1>1. UNCHANGED <<disk, unsaved>>
    BY DEF Kick, Ban, UnbanIP, UnbanLogin, KickBansIP, fileVars
<1>2. SUFFICES \E r : /\ admin' = [admin EXCEPT ![w] = r]
                      /\ InStep(req, banned, disk, unsaved) =>
                            InStep(r, banned', disk, unsaved)
    BY <1>0, <1>1, DiskMoves
<1>3. ASSUME NEW r, NEW list \in Lists, NEW S, req.pc = "idle",
             r.pc \in {"idle", "save"}, r.pc = "idle" => S = banned[list],
             r.pc # "idle" => r.list = list, OneApart(banned[list], S),
             banned' = [banned EXCEPT ![list] = S]
      PROVE  InStep(req, banned, disk, unsaved) => InStep(r, banned', disk, unsaved)
    BY <1>0, <1>3 DEF InStep
<1>4. ASSUME NEW a \in Attempts, Kick(w, a)
      PROVE  \E r : /\ admin' = [admin EXCEPT ![w] = r]
                    /\ InStep(req, banned, disk, unsaved) =>
                          InStep(r, banned', disk, unsaved)
    <2> DEFINE r == [NoRequest EXCEPT !.pc = "banip", !.then = "leave", !.close = {a}]
    <2>1. req.pc = "idle" /\ admin' = [admin EXCEPT ![w] = r] /\ banned' = banned
        BY <1>4 DEF Kick, Request
    <2>2. r.pc = "banip" /\ r.list = "ip" /\ r.close = {a}
        BY DEF NoRequest
    <2> HIDE DEF r
    <2>3. InStep(req, banned, disk, unsaved) => InStep(r, banned', disk, unsaved)
        BY <1>0, <2>1, <2>2 DEF InStep
    <2> QED
        BY <2>1, <2>3
<1>5. ASSUME NEW list \in Lists, NEW entry \in Entries(list), Ban(w, list, entry)
      PROVE  \E r : /\ admin' = [admin EXCEPT ![w] = r]
                    /\ InStep(req, banned, disk, unsaved) =>
                          InStep(r, banned', disk, unsaved)
    <2> DEFINE r == [NoRequest EXCEPT !.pc = "save", !.list = list, !.about = {entry},
                                      !.then = "collect"]
    <2>1. /\ req.pc = "idle" /\ admin' = [admin EXCEPT ![w] = r]
          /\ banned' = [banned EXCEPT ![list] = banned[list] \cup {entry}]
        BY <1>5 DEF Ban, Request
    <2>2. r.pc = "save" /\ r.list = list
        BY DEF NoRequest
    <2> HIDE DEF r
    <2>3. OneApart(banned[list], banned[list] \cup {entry})
        BY DEF OneApart
    <2>4. InStep(req, banned, disk, unsaved) => InStep(r, banned', disk, unsaved)
        BY <1>3, <2>1, <2>2, <2>3
    <2> QED
        BY <2>1, <2>4
<1>6. ASSUME NEW list \in Lists, NEW entry, NEW r, Request(w, r),
             r.pc = (IF entry \in banned[list] THEN "save" ELSE "idle"),
             r.pc = "save" => r.list = list,
             banned' = [banned EXCEPT ![list] = banned[list] \ {entry}]
      PROVE  \E q : /\ admin' = [admin EXCEPT ![w] = q]
                    /\ InStep(req, banned, disk, unsaved) =>
                          InStep(q, banned', disk, unsaved)
    <2>1. req.pc = "idle" /\ admin' = [admin EXCEPT ![w] = r]
        BY <1>6 DEF Request
    <2>2. r.pc = "idle" => banned[list] \ {entry} = banned[list]
        BY <1>6
    <2>3. OneApart(banned[list], banned[list] \ {entry})
        BY DEF OneApart
    <2>4. InStep(req, banned, disk, unsaved) => InStep(r, banned', disk, unsaved)
        BY <1>3, <1>6, <2>1, <2>2, <2>3
    <2> QED
        BY <2>1, <2>4
<1>7. ASSUME NEW i \in IPs, UnbanIP(w, i)
      PROVE  \E r : /\ admin' = [admin EXCEPT ![w] = r]
                    /\ InStep(req, banned, disk, unsaved) =>
                          InStep(r, banned', disk, unsaved)
    <2> DEFINE r == IF i \in banned["ip"] THEN [NoRequest EXCEPT !.pc = "save"]
                    ELSE NoRequest
    <2>1. Request(w, r) /\ banned' = [banned EXCEPT !["ip"] = banned["ip"] \ {i}]
        BY <1>7 DEF UnbanIP
    <2>2. r.pc = (IF i \in banned["ip"] THEN "save" ELSE "idle") /\ r.list = "ip"
        BY DEF NoRequest
    <2> HIDE DEF r
    <2> QED
        BY <1>0, <1>6, <2>1, <2>2
<1>8. ASSUME NEW acc \in Account, UnbanLogin(w, acc)
      PROVE  \E r : /\ admin' = [admin EXCEPT ![w] = r]
                    /\ InStep(req, banned, disk, unsaved) =>
                          InStep(r, banned', disk, unsaved)
    <2> DEFINE r == IF acc \in banned["login"]
                    THEN [NoRequest EXCEPT !.pc = "save", !.list = "login"]
                    ELSE NoRequest
    <2>1. Request(w, r) /\ banned' = [banned EXCEPT !["login"] = banned["login"] \ {acc}]
        BY <1>8 DEF UnbanLogin
    <2>2. /\ r.pc = (IF acc \in banned["login"] THEN "save" ELSE "idle")
          /\ r.pc = "save" => r.list = "login"
        BY DEF NoRequest
    <2> HIDE DEF r
    <2> QED
        BY <1>0, <1>6, <2>1, <2>2
<1>9. CASE KickBansIP(w)
    <2> DEFINE r == [req EXCEPT !.pc = "save"]
               S == banned["ip"] \cup {ipOf[a] : a \in req.close}
    <2>1. /\ req.pc = "banip" /\ admin' = [admin EXCEPT ![w] = r]
          /\ banned' = [banned EXCEPT !["ip"] = S]
        BY <1>9 DEF KickBansIP
    <2>2. r.pc = "save" /\ r.list = req.list
        BY <1>0 DEF APIRequest
    <2>3. InStep(req, banned, disk, unsaved) => OneApart(banned["ip"], S)
        BY <2>1 DEF InStep, OneApart
    <2> HIDE DEF r, S
    <2>4. InStep(req, banned, disk, unsaved) => InStep(r, banned', disk, unsaved)
        BY <1>0, <2>1, <2>2, <2>3 DEF InStep
    <2> QED
        BY <2>1, <2>4
<1> QED
    BY <1>0, <1>4, <1>5, <1>7, <1>8, <1>9 DEF Entries

\* Saving: what is copied is the list, the file is emptied and then holds the
\* list, unless a step failed, which is remembered.
LEMMA DiskSave ==
    ASSUME TypeOK, DiskInv, NEW w \in Admins,
           \/ Snapshot(w) \/ Truncate(w) \/ WriteFile(w) \/ SaveFails(w)
           \/ kickSessions(w) \/ CloseAndLeave(w)
    PROVE  DiskInv'
<1> DEFINE req == admin[w]
           after == IF req.then = "idle" THEN NoRequest
                    ELSE [req EXCEPT !.pc = req.then, !.snap = {}]
<1>0. /\ req \in APIRequest /\ req.list \in Lists
      /\ OneAtATime => InStep(req, banned, disk, unsaved)
      /\ DOMAIN disk = Lists
    BY TypeParts DEF RequestTypes, DiskInv, FileTypes, APIRequest
<1>1. banned' = banned
    BY DEF Snapshot, Truncate, WriteFile, SaveFails, kickSessions, CloseAndLeave, banVars
<1>2. after.pc \in {"idle", "collect", "leave"}
    BY <1>0 DEF APIRequest, NoRequest
<1>3. CASE Snapshot(w)
    <2> DEFINE r == [req EXCEPT !.pc = "open", !.snap = banned[req.list]]
    <2>1. /\ req.pc = "save" /\ admin' = [admin EXCEPT ![w] = r]
          /\ UNCHANGED <<disk, unsaved>>
        BY <1>3, TypeParts DEF Snapshot, RequestTypes, APIRequest, fileVars
    <2>2. r.pc = "open" /\ r.list = req.list /\ r.snap = banned[req.list]
        BY <1>0 DEF APIRequest
    <2> HIDE DEF r
    <2>3. OneAtATime => InStep(r, banned', disk', unsaved')
        BY <1>0, <1>1, <2>1, <2>2 DEF InStep
    <2> QED
        BY <2>1, <2>3, DiskMoves
<1>4. CASE Truncate(w)
    <2> DEFINE r == [req EXCEPT !.pc = "write"]
    <2>1. /\ req.pc = "open" /\ admin' = [admin EXCEPT ![w] = r] /\ unsaved' = unsaved
          /\ disk' = [disk EXCEPT ![req.list] = Corrupt]
        BY <1>4 DEF Truncate
    <2>2. r.pc = "write" /\ r.list = req.list /\ r.snap = req.snap
        BY <1>0 DEF APIRequest
    <2> HIDE DEF r
    <2>3. OneAtATime => InStep(r, banned', disk', unsaved')
        BY <1>0, <1>1, <2>1, <2>2 DEF InStep
    <2> QED
        BY <2>1, <2>3, DiskMoves
<1>5. CASE WriteFile(w)
    <2>1. /\ req.pc = "write" /\ admin' = [admin EXCEPT ![w] = after]
          /\ unsaved' = unsaved \ {req.list}
          /\ disk[req.list] = Corrupt => disk' = [disk EXCEPT ![req.list] = req.snap]
        BY <1>5 DEF WriteFile
    <2> HIDE DEF after
    <2>2. OneAtATime => InStep(after, banned', disk', unsaved')
        BY <1>0, <1>1, <1>2, <2>1 DEF InStep
    <2> QED
        BY <2>1, <2>2, DiskMoves
<1>6. CASE SaveFails(w)
    <2>1. /\ req.pc \in {"open", "write"} /\ admin' = [admin EXCEPT ![w] = after]
          /\ unsaved' = unsaved \cup {req.list} /\ disk' = disk
        BY <1>6 DEF SaveFails
    <2> HIDE DEF after
    <2>2. OneAtATime => InStep(after, banned', disk', unsaved')
        BY <1>0, <1>1, <1>2, <2>1 DEF InStep
    <2> QED
        BY <2>1, <2>2, DiskMoves
<1>7. CASE kickSessions(w) \/ CloseAndLeave(w)
    <2> DEFINE S == Concerned(sessions, req.list, req.about)
               r == IF req.pc = "collect" THEN [req EXCEPT !.pc = "leave", !.close = S]
                    ELSE NoRequest
    <2>1. /\ req.pc \in {"collect", "leave"} /\ admin' = [admin EXCEPT ![w] = r]
          /\ UNCHANGED <<disk, unsaved>>
        BY <1>7, TypeParts DEF kickSessions, CloseAndLeave, RequestTypes, APIRequest,
           fileVars
    <2>2. r.pc \in {"idle", "leave"}
        BY <1>0 DEF APIRequest, NoRequest
    <2> HIDE DEF r
    <2>3. OneAtATime => InStep(r, banned', disk', unsaved')
        BY <1>0, <1>1, <2>1, <2>2 DEF InStep
    <2> QED
        BY <2>1, <2>3, DiskMoves
<1> QED
    BY <1>3, <1>4, <1>5, <1>6, <1>7

\* A restart reads the lists from the files; a file cut short counts as unsaved.
LEMMA DiskRest ==
    ASSUME TypeOK, DiskInv,
           \/ \E a \in Attempts : AttemptStep(a)
           \/ \E l \in Logins : KickExpires(l)
           \/ Restart \/ UNCHANGED vars
    PROVE  DiskInv'
<1>1. CASE \/ \E a \in Attempts : AttemptStep(a)
           \/ \E l \in Logins : KickExpires(l)
           \/ UNCHANGED vars
    <2>1. UNCHANGED <<admin, banned, disk, unsaved>>
        BY <1>1 DEF AttemptStep, CheckIP, RefuseCredentials, CheckLogin, Insert, JoinHub,
           cleanupSessions, StreamEnds, removeSession, KickExpires, adminVars, banVars,
           fileVars, vars
    <2> QED
        BY <2>1 DEF DiskInv, InStep
<1>2. CASE Restart
    <2>1. /\ \A w \in Admins : admin'[w] = NoRequest
          /\ \A l \in Lists \ unsaved' : disk'[l] = banned'[l]
        BY <1>2 DEF Restart, Loaded
    <2> QED
        BY <2>1 DEF DiskInv, InStep, NoRequest
<1> QED
    BY <1>1, <1>2

\* With one request at a time, what the files hold is known at every step.
LEMMA DiskInvariant == Spec => []DiskInv
<1>1. Init => DiskInv
    BY DEF Init, DiskInv, InStep, NoRequest
<1>2. TypeOK /\ DiskInv /\ [Next]_vars => DiskInv'
    BY DiskRequest, DiskSave, DiskRest DEF Next, AttemptStep
<1> QED
    BY <1>1, <1>2, TypeCorrect, PTL DEF Spec

\* saveBannedIPs, saveBannedLogins and the loading at the start: a restart at any
\* moment brings back the bans of every list whose save succeeded, but for the
\* entry of a request that has not opened the file yet; a list whose file has just
\* been truncated is lost.
THEOREM BansSurvive == Spec => BansSurviveRestart
<1> DEFINE Kept(l) == \/ banned'[l] = banned[l]
                      \/ Saving(l, {"save", "open"}) /\ OneApart(banned'[l], banned[l])
                      \/ Saving(l, {"write"})
           Survive == restarts' # restarts /\ OneAtATime => \A l \in Lists \ unsaved : Kept(l)
<1>1. TypeOK /\ DiskInv /\ [Next]_vars => [Survive]_vars
    <2> SUFFICES ASSUME TypeOK, DiskInv, Next, restarts' # restarts, OneAtATime,
                        NEW l \in Lists \ unsaved
                 PROVE  Kept(l)
        OBVIOUS
    <2>1. Restart
        BY DEF Next, CheckIP, RefuseCredentials, CheckLogin, Insert, JoinHub,
           cleanupSessions, StreamEnds, removeSession, KickExpires, Kick, Ban, UnbanIP,
           UnbanLogin, KickBansIP, kickSessions, CloseAndLeave, Snapshot, Truncate,
           WriteFile, SaveFails, adminVars
    <2>2. PICK w \in Admins : InStep(admin[w], banned, disk, unsaved)
        BY OnlyOne DEF DiskInv
    <2>3. banned[l] # Corrupt
        BY TypeParts, SessionsAssumption DEF BanTypes, Entries, Account
    <2>4. disk[l] # Corrupt => banned'[l] = disk[l]
        BY <2>1 DEF Restart, Loaded
    <2> QED
        BY <2>2, <2>3, <2>4 DEF InStep, Saving
<1> QED
    BY <1>1, DiskInvariant, TypeCorrect, PTL DEF Spec, BansSurviveRestart
===============================================================================
