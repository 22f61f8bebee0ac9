---------------------------- MODULE KeepaliveProofs ---------------------------
(***************************************************************************)
(* Proofs about keepalive, for every value of the times, every number of    *)
(* session identifiers, of losses, duplications and server restarts: when   *)
(* the server and the client give a session up.                             *)
(***************************************************************************)
EXTENDS Keepalive, TLAPS

-------------------------------------------------------------------------------
(* Packets. *)

\* What travels in which direction; all but a hello name a session.
WellFormed(m) ==
    /\ m \in Message
    /\ m.to = "server" <=> m.kind \in {"hello", "ping"}
    /\ m.kind # "hello" => m.sid \in Sids

\* The two packets a client sends, and the answers.
LEMMA SentWellFormed ==
    /\ WellFormed(Hello) /\ Hello.kind = "hello" /\ Hello.age = 0
    /\ \A s \in Sids : /\ WellFormed(Ping(s)) /\ Ping(s).kind = "ping" /\ Ping(s).sid = s
                       /\ Ping(s).age = 0 /\ Ping(s).cur
BY KeepaliveAssumption DEF WellFormed, Hello, Ping, Message

LEMMA ReplyWellFormed ==
    ASSUME NEW m, NEW kind \in {"ok", "pong", "expired"}, NEW s \in Sids
    PROVE  \A n \in Reply(m, kind, s) : /\ WellFormed(n) /\ n.kind = kind /\ n.sid = s
                                        /\ n.age = 0 /\ m.cur
<1> SUFFICES ASSUME NEW n \in Reply(m, kind, s)
             PROVE  WellFormed(n) /\ n.kind = kind /\ n.sid = s /\ n.age = 0 /\ m.cur
    OBVIOUS
<1>1. /\ m.cur
      /\ n = [to |-> "client", kind |-> kind, sid |-> s, cur |-> TRUE, age |-> 0]
    BY DEF Reply
<1>2. 0 \in 0 .. maxDelay
    BY KeepaliveAssumption
<1> QED
    BY <1>1, <1>2 DEF WellFormed, Message

\* A reply is sent to a socket that is open.
LEMMA ReplySent ==
    ASSUME NEW m, m.cur, NEW kind, NEW s
    PROVE  \E n \in Reply(m, kind, s) : n.kind = kind /\ n.sid = s /\ n.age = 0
BY DEF Reply

\* A closed socket leaves packets to the server that nobody waits for.
LEMMA ClosedPackets ==
    ASSUME NEW ms, \A m \in ms : WellFormed(m)
    PROVE  \A n \in Closed(ms) : WellFormed(n) /\ n.to = "server" /\ ~n.cur
<1> SUFFICES ASSUME NEW n \in Closed(ms) PROVE WellFormed(n) /\ n.to = "server" /\ ~n.cur
    OBVIOUS
<1>1. PICK m \in ms : m.to = "server" /\ n = [m EXCEPT !.cur = FALSE]
    BY DEF Closed
<1> QED
    BY <1>1 DEF WellFormed, Message

\* A packet that was on its way for longer.
LEMMA OlderPacket ==
    ASSUME NEW m, WellFormed(m), m.age < maxDelay
    PROVE  LET n == [m EXCEPT !.age = @ + 1]
           IN  /\ WellFormed(n) /\ n.kind = m.kind /\ n.sid = m.sid /\ n.cur = m.cur
               /\ n.to = m.to /\ n.age = m.age + 1
<1>1. m.age \in Nat /\ m.age + 1 \in 0 .. maxDelay
    BY KeepaliveAssumption DEF WellFormed, Message
<1> QED
    BY <1>1 DEF WellFormed, Message

-------------------------------------------------------------------------------
(* Types, and which packets there are when. *)

Types ==
    /\ st \in {"hello", "up", "wait"} /\ sid \in Sids \cup {None}
    /\ st = "up" <=> sid # None
    /\ tries \in 1..udpAttempts /\ timer \in Nat /\ since \in 0 .. keepaliveTimeout + 1
    /\ st = "up" => timer <= pingInterval
    /\ sessions \in [Sids -> (0 .. staleAfter + 1) \cup {None}]
    /\ cleanup \in 0..cleanupEvery
    /\ faults \in 0..MaxFaults /\ restarts \in 0..MaxRestarts /\ stranded \in Nat

Packets == \A m \in wire : WellFormed(m)

\* Between sessions nobody waits for an answer; while the client authenticates,
\* it can only be given an AuthOK, of a session that no ping names.
Sockets ==
    /\ st = "wait" => \A m \in wire : m.to = "server" /\ ~m.cur
    /\ st = "hello" =>
          /\ \A m \in wire : m.to = "client" => m.kind = "ok"
          /\ \A m \in wire : m.kind = "ping" => ~m.cur
          /\ \A m, n \in wire : m.kind = "ok" /\ n.kind = "ping" => m.sid # n.sid

Base == Types /\ Packets /\ Sockets

\* The session the server makes of a hello is one that nothing refers to.
LEMMA NewSession ==
    ASSUME Base, NEW m, handleAuth(m)
    PROVE  \E s \in Sids :
              /\ sessions[s] = None /\ s # sid /\ \A n \in wire : n.sid # s
              /\ m \in wire /\ m.kind = "hello"
              /\ sessions' = [sessions EXCEPT ![s] = 0]
              /\ wire' = (wire \ {m}) \cup Reply(m, "ok", s)
<1> DEFINE s == CHOOSE x \in Unused : TRUE
<1>1. s \in Unused
    BY DEF handleAuth
<1>2. /\ sessions' = [sessions EXCEPT ![s] = 0] /\ m \in wire /\ m.kind = "hello"
      /\ wire' = (wire \ {m}) \cup Reply(m, "ok", s)
    BY DEF handleAuth
<1> HIDE DEF s
<1> QED
    BY <1>1, <1>2 DEF Unused

\* The start.
LEMMA BaseInit == Init => Base
<1> SUFFICES ASSUME Init PROVE Base
    OBVIOUS
<1>1. Types
    BY KeepaliveAssumption DEF Init, Types
<1>2. Packets /\ Sockets
    BY SentWellFormed DEF Init, Packets, Sockets, WellFormed
<1> QED
    BY <1>1, <1>2 DEF Base

\* The steps of the server.
LEMMA BaseServer ==
    ASSUME Base, NEW m, handleAuth(m) \/ handlePing(m)
    PROVE  Base'
<1> USE DEF Base
<1>1. CASE handleAuth(m)
    <2>1. PICK s \in Sids :
              /\ sessions[s] = None /\ s # sid /\ \A n \in wire : n.sid # s
              /\ m \in wire /\ m.kind = "hello"
              /\ sessions' = [sessions EXCEPT ![s] = 0]
              /\ wire' = (wire \ {m}) \cup Reply(m, "ok", s)
        BY <1>1, NewSession
    <2>2. UNCHANGED <<st, sid, tries, timer, since, cleanup, faults, restarts, stranded>>
        BY <1>1 DEF handleAuth, clientVars
    <2>3. \A n \in wire' : n \in wire \/ /\ WellFormed(n) /\ n.kind = "ok" /\ n.sid = s
                                         /\ m.cur /\ n.to = "client"
        BY <2>1, ReplyWellFormed DEF WellFormed, Message
    <2>4. Types'
        BY <2>1, <2>2, KeepaliveAssumption DEF Types
    <2>5. Packets'
        BY <2>3 DEF Packets
    <2>6. Sockets'
        BY <2>1, <2>2, <2>3 DEF Sockets
    <2> QED
        BY <2>4, <2>5, <2>6
<1>2. CASE handlePing(m)
    <2> DEFINE known == sessions[m.sid] # None
               kind == IF known THEN "pong" ELSE "expired"
    <2>1. /\ m \in wire /\ m.kind = "ping"
          /\ sessions' = IF known THEN [sessions EXCEPT ![m.sid] = 0] ELSE sessions
          /\ wire' = (wire \ {m}) \cup Reply(m, kind, m.sid)
          /\ UNCHANGED <<st, sid, tries, timer, since, cleanup, faults, restarts, stranded>>
        BY <1>2 DEF handlePing, clientVars
    <2>2. m.sid \in Sids /\ kind \in {"ok", "pong", "expired"}
        BY <2>1 DEF Packets, WellFormed
    <2> HIDE DEF kind, known
    <2>3. \A n \in wire' : n \in wire \/ (WellFormed(n) /\ m.cur /\ n.kind = kind /\ n.to = "client")
        BY <2>1, <2>2, ReplyWellFormed DEF WellFormed, Message
    <2>4. Types'
        BY <2>1, <2>2, KeepaliveAssumption DEF Types
    <2>5. Packets'
        BY <2>3 DEF Packets
    <2>6. m.to = "server"
        BY <2>1 DEF Packets, WellFormed
    <2>7. Sockets'
        BY <2>1, <2>3, <2>6 DEF Sockets, kind
    <2> QED
        BY <2>4, <2>5, <2>7
<1> QED
    BY <1>1, <1>2

\* The clean-up and the restart of the server, and what the network does to a
\* packet.
LEMMA BaseNetwork ==
    ASSUME Base, cleanupSessions \/ Restart \/ \E m \in wire : Lose(m) \/ Duplicate(m)
    PROVE  Base'
<1> USE DEF Base
<1>1. CASE cleanupSessions \/ Restart
    <2>1. UNCHANGED <<st, sid, tries, timer, since, wire, faults, stranded>>
        BY <1>1 DEF cleanupSessions, Restart, clientVars
    <2>2. Types'
        BY <1>1, <2>1, KeepaliveAssumption DEF cleanupSessions, Restart, Types
    <2> QED
        BY <2>1, <2>2 DEF Packets, Sockets
<1>2. ASSUME NEW m \in wire, Lose(m) \/ Duplicate(m)
      PROVE  Base'
    <2> DEFINE copy == [m EXCEPT !.age = @ + 1]
    <2>1. UNCHANGED <<st, sid, tries, timer, since, sessions, cleanup, restarts, stranded>>
        BY <1>2 DEF Lose, Duplicate, clientVars
    <2>2. Types'
        BY <1>2, <2>1, KeepaliveAssumption DEF Lose, Duplicate, Types
    <2>3. \A n \in wire' : n \in wire \/ (n = copy /\ m.age < maxDelay)
        BY <1>2 DEF Lose, Duplicate
    <2>4. m.age < maxDelay => /\ WellFormed(copy) /\ copy.kind = m.kind /\ copy.sid = m.sid
                              /\ copy.cur = m.cur /\ copy.to = m.to
        BY OlderPacket DEF Packets
    <2> HIDE DEF copy
    <2>5. Packets'
        BY <2>3, <2>4 DEF Packets
    <2>6. Sockets'
        BY <2>1, <2>3, <2>4 DEF Sockets
    <2> QED
        BY <2>2, <2>5, <2>6
<1> QED
    BY <1>1, <1>2

\* The steps of the client.
LEMMA BaseClient ==
    ASSUME Base,
           \/ \E m \in wire : AuthOK(m) \/ recvLoop(m)
           \/ AuthTimeout \/ PingTick \/ Reconnect
    PROVE  Base'
<1> USE DEF Base
<1>0. \A ms : (\A m \in ms : WellFormed(m)) =>
               \A n \in Closed(ms) : WellFormed(n) /\ n.to = "server" /\ ~n.cur
    BY ClosedPackets
<1>1. ASSUME NEW m \in wire, AuthOK(m)
      PROVE  Base'
    <2>1. /\ m.kind = "ok" /\ st' = "up" /\ sid' = m.sid /\ timer' = 0 /\ since' = 0
          /\ stranded' = 0 /\ wire' = wire \ {m}
          /\ UNCHANGED <<tries, sessions, cleanup, faults, restarts>>
        BY <1>1 DEF AuthOK
    <2>2. m.sid \in Sids
        BY <2>1 DEF Packets, WellFormed
    <2>3. Types'
        BY <2>1, <2>2, KeepaliveAssumption DEF Types
    <2> QED
        BY <2>1, <2>3 DEF Packets, Sockets
<1>2. ASSUME NEW ms, \A m \in ms : WellFormed(m), EndSession(ms), st = "up",
             UNCHANGED <<tries, sessions, cleanup, faults, restarts>>
      PROVE  Base'
    <2>1. Types'
        BY <1>2, KeepaliveAssumption DEF EndSession, Types
    <2>2. Packets' /\ Sockets'
        BY <1>0, <1>2 DEF EndSession, Packets, Sockets
    <2> QED
        BY <2>1, <2>2
<1>3. ASSUME NEW m \in wire, recvLoop(m)
      PROVE  Base'
    <2>1. CASE EndSession(wire \ {m})
        BY <1>2, <1>3, <2>1 DEF recvLoop, Packets
    <2>2. CASE ~EndSession(wire \ {m})
        <3>1. /\ wire' = wire \ {m} /\ since' \in {0, since}
              /\ UNCHANGED <<st, sid, timer, stranded, tries, sessions, cleanup, faults, restarts>>
            BY <1>3, <2>2 DEF recvLoop
        <3>2. Types'
            BY <3>1, KeepaliveAssumption DEF Types
        <3> QED
            BY <3>1, <3>2 DEF Packets, Sockets
    <2> QED
        BY <2>1, <2>2
<1>4. CASE AuthTimeout
    <2>1. /\ st = "hello" /\ timer' = 0 /\ st' \in {"hello", "wait"} /\ tries' \in 1..udpAttempts
          /\ wire' = IF st' = "hello" THEN Closed(wire) \cup {Hello} ELSE Closed(wire)
          /\ UNCHANGED <<sid, since, sessions, cleanup, faults, restarts, stranded>>
        BY <1>4, KeepaliveAssumption DEF AuthTimeout, Types
    <2>2. Types'
        BY <2>1, KeepaliveAssumption DEF Types
    <2>3. \A n \in Closed(wire) : WellFormed(n) /\ n.to = "server" /\ ~n.cur
        BY <1>0 DEF Packets
    <2>4. Hello.to = "server"
        BY DEF Hello
    <2>5. Packets'
        BY <2>1, <2>3, SentWellFormed DEF Packets
    <2>6. Sockets'
        BY <2>1, <2>3, <2>4, SentWellFormed DEF Sockets, WellFormed
    <2> QED
        BY <2>2, <2>5, <2>6
<1>5. CASE PingTick
    <2>1. sid \in Sids /\ \A m \in wire \cup {Ping(sid)} : WellFormed(m)
        BY <1>5, SentWellFormed DEF PingTick, Types, Packets
    <2>2. CASE EndSession(wire \cup {Ping(sid)})
        BY <1>2, <1>5, <2>1, <2>2 DEF PingTick
    <2>3. CASE ~EndSession(wire \cup {Ping(sid)})
        <3>1. /\ st = "up" /\ timer' = 0 /\ wire' = wire \cup {Ping(sid)}
              /\ UNCHANGED <<st, sid, since, stranded, tries, sessions, cleanup, faults, restarts>>
            BY <1>5, <2>3 DEF PingTick
        <3>2. Types'
            BY <3>1, KeepaliveAssumption DEF Types
        <3> QED
            BY <2>1, <3>1, <3>2 DEF Packets, Sockets
    <2> QED
        BY <2>2, <2>3
<1>6. CASE Reconnect
    <2>1. /\ st = "wait" /\ st' = "hello" /\ tries' = 1 /\ timer' = 0
          /\ wire' = wire \cup {Hello}
          /\ UNCHANGED <<sid, since, sessions, cleanup, faults, restarts, stranded>>
        BY <1>6 DEF Reconnect
    <2>2. Types'
        BY <2>1, KeepaliveAssumption DEF Types
    <2>3. Packets'
        BY <2>1, SentWellFormed DEF Packets
    <2>4. Hello.to = "server" /\ Hello.kind = "hello"
        BY DEF Hello
    <2>5. \A m \in wire' : /\ m.to = "server" /\ (m.kind = "ping" => ~m.cur) /\ m.kind # "ok"
        BY <2>1, <2>4 DEF Sockets, Packets, WellFormed
    <2>6. Sockets'
        BY <2>1, <2>5 DEF Sockets
    <2> QED
        BY <2>2, <2>3, <2>6
<1> QED
    BY <1>1, <1>3, <1>4, <1>5, <1>6

\* Packets grow older together.
LEMMA AgedPackets ==
    ASSUME Packets, Tick
    PROVE  \A n \in wire' : \E m \in wire :
              /\ m.age < maxDelay /\ WellFormed(n) /\ n.kind = m.kind /\ n.sid = m.sid
              /\ n.cur = m.cur /\ n.to = m.to /\ n.age = m.age + 1
<1> SUFFICES ASSUME NEW n \in wire'
             PROVE  \E m \in wire :
              /\ m.age < maxDelay /\ WellFormed(n) /\ n.kind = m.kind /\ n.sid = m.sid
              /\ n.cur = m.cur /\ n.to = m.to /\ n.age = m.age + 1
    OBVIOUS
<1>1. PICK m \in wire : n = [m EXCEPT !.age = @ + 1]
    BY DEF Tick
<1>2. WellFormed(m) /\ m.age < maxDelay
    BY KeepaliveAssumption DEF Tick, Due, Packets, WellFormed, Message
<1> QED
    BY <1>1, <1>2, OlderPacket

LEMMA BaseTick ==
    ASSUME Base, Tick
    PROVE  Base'
<1> USE DEF Base
<1>1. UNCHANGED <<st, sid, tries, faults, restarts>>
    BY DEF Tick
<1>2. Types'
    <2>1. /\ timer' \in Nat /\ (st = "up" => timer' <= pingInterval) /\ cleanup' \in 0..cleanupEvery
        BY KeepaliveAssumption DEF Tick, Due, Types
    <2>2. since' \in 0 .. keepaliveTimeout + 1 /\ stranded' \in Nat
        BY KeepaliveAssumption DEF Tick, Types, Upto
    <2>3. sessions' \in [Sids -> (0 .. staleAfter + 1) \cup {None}]
        BY KeepaliveAssumption DEF Tick, Types, Upto
    <2> QED
        BY <1>1, <2>1, <2>2, <2>3 DEF Types
<1>3. \A n \in wire' : \E m \in wire :
              /\ WellFormed(n) /\ n.kind = m.kind /\ n.sid = m.sid
              /\ n.cur = m.cur /\ n.to = m.to
    BY AgedPackets
<1>4. Packets'
    BY <1>3 DEF Packets
<1>5. Sockets'
    BY <1>1, <1>3 DEF Sockets
<1> QED
    BY <1>2, <1>4, <1>5

LEMMA BaseInvariant == Spec => []Base
<1>1. Base /\ [Next]_vars => Base'
    <2> SUFFICES ASSUME Base, [Next]_vars PROVE Base'
        OBVIOUS
    <2>1. CASE UNCHANGED vars
        BY <2>1 DEF vars, clientVars, Base, Types, Packets, Sockets
    <2> QED
        BY <2>1, BaseServer, BaseNetwork, BaseClient, BaseTick DEF Next, Deliver
<1> QED
    BY BaseInit, <1>1, PTL DEF Spec

\* Client, server and wire keep their types, whatever the times are.
THEOREM TypeCorrect == Spec => []TypeOK
<1>1. Base => TypeOK
    BY DEF Base, Types, Packets, WellFormed, TypeOK
<1> QED
    BY <1>1, BaseInvariant, PTL

-------------------------------------------------------------------------------
(* A session the server has forgotten is given up. *)

\* A client that holds a session the server lost has not pinged since, or its
\* ping is on its way, or the answer is.
Noticing ==
    \/ stranded <= timer
    \/ \E m \in wire : /\ m.kind = "ping" /\ m.sid = sid /\ m.cur
                       /\ stranded <= pingInterval + m.age
    \/ \E m \in wire : /\ m.kind = "expired"
                       /\ stranded <= pingInterval + maxDelay + m.age

Stranded ==
    /\ st # "up" => stranded = 0
    /\ faults = 0 /\ st = "up" => IF sessions[sid] = None THEN Noticing ELSE stranded = 0

\* Pings and refusals that stay on their way go on being noticed.
LEMMA NoticingKept ==
    ASSUME Noticing, UNCHANGED <<stranded, timer, sid>>,
           \A m \in wire : m.kind \in {"ping", "expired"} => m \in wire'
    PROVE  Noticing'
BY DEF Noticing

LEMMA StrandedServer ==
    ASSUME Base, Stranded, NEW m, handleAuth(m) \/ handlePing(m)
    PROVE  Stranded'
<1> USE DEF Base
<1>0. UNCHANGED <<st, sid, timer, faults, stranded>>
    BY DEF handleAuth, handlePing, clientVars
<1> SUFFICES ASSUME faults = 0, st = "up"
             PROVE  IF sessions'[sid] = None THEN Noticing' ELSE stranded = 0
    BY <1>0 DEF Stranded
<1>1. CASE handleAuth(m)
    <2>1. PICK s \in Sids :
              /\ sessions[s] = None /\ s # sid /\ \A n \in wire : n.sid # s
              /\ m \in wire /\ m.kind = "hello"
              /\ sessions' = [sessions EXCEPT ![s] = 0]
              /\ wire' = (wire \ {m}) \cup Reply(m, "ok", s)
        BY <1>1, NewSession
    <2>2. sessions'[sid] = sessions[sid]
        BY <2>1 DEF Types
    <2> QED
        BY <1>0, <2>1, <2>2, NoticingKept DEF Stranded
<1>2. CASE handlePing(m)
    <2>1. /\ m \in wire /\ m.kind = "ping" /\ m.sid \in Sids /\ WellFormed(m) /\ sid \in Sids
          /\ 0 # None
        BY <1>2, KeepaliveAssumption DEF handlePing, Packets, WellFormed, Types
    <2>2. /\ sessions[m.sid] = None =>
                sessions' = sessions /\ wire' = (wire \ {m}) \cup Reply(m, "expired", m.sid)
          /\ sessions[m.sid] # None => sessions' = [sessions EXCEPT ![m.sid] = 0]
          /\ \A n \in wire : n = m \/ n \in wire'
        BY <1>2 DEF handlePing
    <2>3. sessions'[sid] = None <=> sessions[sid] = None
        BY <2>1, <2>2 DEF Types
    <2>4. CASE sessions[sid] # None
        BY <2>3, <2>4 DEF Stranded
    <2>5. CASE sessions[sid] = None /\ m.sid = sid /\ m.cur /\ stranded <= pingInterval + m.age
        <3>1. PICK n \in Reply(m, "expired", m.sid) : n.kind = "expired" /\ n.age = 0
            BY <2>5, ReplySent
        <3>2. n \in wire'
            BY <2>2, <2>5, <3>1
        <3>3. stranded <= pingInterval + maxDelay + n.age
            BY <2>1, <2>5, <3>1, KeepaliveAssumption DEF WellFormed, Message, Types
        <3> QED
            BY <1>0, <2>3, <2>5, <3>1, <3>2, <3>3 DEF Noticing
    <2>6. CASE sessions[sid] = None /\ ~(m.sid = sid /\ m.cur /\ stranded <= pingInterval + m.age)
        <3>1. Noticing
            BY <2>6 DEF Stranded
        <3>2. Noticing'
            BY <1>0, <2>1, <2>2, <2>6, <3>1 DEF Noticing
        <3> QED
            BY <2>3, <2>6, <3>2
    <2> QED
        BY <2>4, <2>5, <2>6
<1> QED
    BY <1>1, <1>2

LEMMA StrandedNetwork ==
    ASSUME Base, Stranded, cleanupSessions \/ Restart \/ \E m \in wire : Lose(m) \/ Duplicate(m)
    PROVE  Stranded'
<1> USE DEF Base
<1>1. CASE cleanupSessions \/ Restart
    <2>1. UNCHANGED <<st, sid, timer, wire, faults, stranded>>
        BY <1>1 DEF cleanupSessions, Restart, clientVars
    <2>2. st = "up" => sid \in Sids /\ (sessions[sid] = None => sessions'[sid] = None)
        BY <1>1 DEF cleanupSessions, Restart, Types
    <2>3. stranded = 0 => Noticing
        BY DEF Noticing, Types
    <2> QED
        BY <2>1, <2>2, <2>3, NoticingKept DEF Stranded
<1>2. CASE \E m \in wire : Lose(m) \/ Duplicate(m)
    <2>1. UNCHANGED <<st, stranded>> /\ faults' = faults + 1
        BY <1>2 DEF Lose, Duplicate, clientVars
    <2> QED
        BY <2>1 DEF Stranded, Types
<1> QED
    BY <1>1, <1>2

LEMMA StrandedClient ==
    ASSUME Base, Stranded,
           \/ \E m \in wire : AuthOK(m) \/ recvLoop(m)
           \/ AuthTimeout \/ PingTick \/ Reconnect
    PROVE  Stranded'
<1> USE DEF Base
<1>1. CASE \E m \in wire : AuthOK(m)
    <2>1. stranded' = 0 /\ timer' = 0
        BY <1>1 DEF AuthOK
    <2> QED
        BY <2>1 DEF Stranded, Noticing
<1>2. ASSUME NEW ms, EndSession(ms)
      PROVE  Stranded'
    BY <1>2 DEF EndSession, Stranded
<1>3. ASSUME NEW m \in wire, recvLoop(m), ~EndSession(wire \ {m})
      PROVE  Stranded'
    <2>1. /\ wire' = wire \ {m} /\ m.to = "client" /\ m.kind # "expired"
          /\ UNCHANGED <<st, sid, timer, stranded, sessions, faults>>
        BY <1>3 DEF recvLoop
    <2>2. m.kind # "ping"
        BY <2>1 DEF Packets, WellFormed
    <2> QED
        BY <2>1, <2>2, NoticingKept DEF Stranded
<1>4. CASE AuthTimeout \/ Reconnect
    BY <1>4 DEF AuthTimeout, Reconnect, Stranded
<1>5. CASE PingTick /\ ~EndSession(wire \cup {Ping(sid)})
    <2>1. /\ st = "up" /\ timer = pingInterval /\ timer' = 0 /\ wire' = wire \cup {Ping(sid)}
          /\ UNCHANGED <<st, sid, stranded, sessions, faults>>
        BY <1>5 DEF PingTick
    <2>2. /\ Ping(sid).kind = "ping" /\ Ping(sid).sid = sid /\ Ping(sid).cur /\ Ping(sid).age = 0
        BY DEF Ping
    <2>3. Noticing => Noticing'
        BY <2>1, <2>2, KeepaliveAssumption DEF Noticing, Types
    <2> QED
        BY <2>1, <2>3 DEF Stranded
<1> QED
    BY <1>1, <1>2, <1>3, <1>4, <1>5 DEF PingTick

LEMMA StrandedTick ==
    ASSUME Base, Stranded, Tick
    PROVE  Stranded'
<1> USE DEF Base
<1>0. UNCHANGED <<st, sid, faults>> /\ timer' = timer + 1
    BY DEF Tick
<1>1. CASE st # "up"
    BY <1>0, <1>1 DEF Tick, Stranded
<1>2. CASE st = "up"
    <2>1. sid \in Sids
        BY <1>2 DEF Types
    <2>2. sessions'[sid] = None <=> sessions[sid] = None
        BY <2>1, KeepaliveAssumption DEF Tick, Types, Upto
    <2>3. CASE sessions[sid] # None
        BY <1>0, <1>2, <2>2, <2>3 DEF Tick, Stranded
    <2>4. CASE sessions[sid] = None
        <3>1. stranded' <= stranded + 1 /\ stranded' \in Nat
            BY <1>2, <2>4, KeepaliveAssumption DEF Tick, Upto, Types
        <3>2. \A m \in wire : [m EXCEPT !.age = @ + 1] \in wire'
            BY DEF Tick
        <3>3. \A m \in wire : LET n == [m EXCEPT !.age = @ + 1]
                              IN  /\ n.kind = m.kind /\ n.sid = m.sid /\ n.cur = m.cur
                                  /\ n.age = m.age + 1 /\ m.age \in Nat
            BY KeepaliveAssumption DEF Packets, WellFormed, Message
        <3>4. \A m \in wire : \E n \in wire' : /\ n.kind = m.kind /\ n.sid = m.sid
                                               /\ n.cur = m.cur
                                               /\ n.age = m.age + 1 /\ m.age \in Nat
            BY <3>2, <3>3
        <3>5. faults = 0 => Noticing
            BY <1>2, <2>4 DEF Stranded
        <3>6. Noticing => Noticing'
            BY <1>0, <3>1, <3>4, KeepaliveAssumption DEF Noticing, Types
        <3> QED
            BY <1>0, <1>2, <2>2, <2>4, <3>5, <3>6 DEF Stranded
    <2> QED
        BY <2>3, <2>4
<1> QED
    BY <1>1, <1>2

\* When no packet is lost, a client gives a session the server has forgotten up
\* after a ping interval and a round trip, whatever else the server and it do.
THEOREM LostIsNoticed == Spec => []DetectsLostSession
<1>1. Init => Stranded
    BY DEF Init, Stranded
<1>2. Base /\ Stranded /\ [Next]_vars => Stranded'
    <2> SUFFICES ASSUME Base, Stranded, [Next]_vars PROVE Stranded'
        OBVIOUS
    <2>1. CASE UNCHANGED vars
        BY <2>1 DEF vars, clientVars, Stranded, Noticing
    <2> QED
        BY <2>1, StrandedServer, StrandedNetwork, StrandedClient, StrandedTick DEF Next, Deliver
<1>3. Base /\ Stranded => DetectsLostSession
    <2> SUFFICES ASSUME Base, Stranded PROVE DetectsLostSession
        OBVIOUS
    <2>1. \A m \in wire : m.age \in 0 .. maxDelay
        BY DEF Base, Packets, WellFormed, Message
    <2> QED
        BY <2>1, KeepaliveAssumption
        DEF Base, Types, Stranded, Noticing, DetectsLostSession
<1> QED
    BY <1>1, <1>2, <1>3, BaseInvariant, PTL DEF Spec

-------------------------------------------------------------------------------
(* A session that its client goes on using is not forgotten. *)

\* The code's times: 5 s, 10 s and 15 s.
Margins ==
    /\ keepaliveTimeout <= 2 * pingInterval
    /\ 3 * pingInterval <= staleAfter

Undisturbed == Margins /\ 2 * maxDelay < pingInterval /\ restarts = 0

\* The server has heard of session s within the last n units.
HeardWithin(s, n) == sessions[s] # None /\ sessions[s] <= n

\* What is on its way: an AuthOK and a pong follow the server's notice of the
\* session; a ping was sent at the last tick, and its pong is back before the
\* next one.
Answers ==
    /\ \A m \in wire : m.kind = "ok" => HeardWithin(m.sid, m.age)
    /\ st = "up" => \A m \in wire : m.sid = sid =>
          /\ m.kind = "ping" => timer <= m.age
          /\ m.kind = "pong" => timer <= maxDelay + m.age /\ HeardWithin(sid, timer)

\* The client and the server have heard of each other at about the same ping: b
\* units before the last one.  The client's news is late by d; the server's is
\* older by e when it is the hello itself.
Track(b, d, e) ==
    /\ d <= b + timer
    /\ since = IF b + timer - d > keepaliveTimeout THEN keepaliveTimeout + 1
                                                   ELSE b + timer - d
    /\ e > 0 => d = 0
    /\ IF sessions[sid] = None
       THEN b = 2 * pingInterval /\ e = maxDelay /\ timer > pingInterval - maxDelay
       ELSE sessions[sid] <= b + timer + e

Tracked ==
    st = "up" => \E b \in {0, pingInterval, 2 * pingInterval},
                    d \in 0 .. 2 * maxDelay, e \in {0, maxDelay} : Track(b, d, e)

Heard == Undisturbed => Answers /\ Tracked

LEMMA HeardServer ==
    ASSUME Base, Heard, NEW m, handleAuth(m) \/ handlePing(m)
    PROVE  Heard'
<1> USE DEF Base
<1>0. UNCHANGED <<st, sid, timer, since, restarts>>
    BY DEF handleAuth, handlePing, clientVars
<1> SUFFICES ASSUME Undisturbed PROVE Answers' /\ Tracked'
    BY <1>0 DEF Heard, Undisturbed
<1>h. Answers /\ Tracked
    BY DEF Heard
<1>n. 0 # None /\ 0 <= 0
    BY KeepaliveAssumption
<1>1. CASE handleAuth(m)
    <2>1. PICK s \in Sids :
              /\ sessions[s] = None /\ s # sid /\ \A n \in wire : n.sid # s
              /\ m \in wire /\ m.kind = "hello"
              /\ sessions' = [sessions EXCEPT ![s] = 0]
              /\ wire' = (wire \ {m}) \cup Reply(m, "ok", s)
        BY <1>1, NewSession
    <2>2. \A n \in wire' : n \in wire \/ (n.kind = "ok" /\ n.sid = s /\ n.age = 0)
        BY <2>1, ReplyWellFormed
    <2>3. \A x : x # s => sessions'[x] = sessions[x]
        BY <2>1 DEF Types
    <2>4. sessions'[s] = 0
        BY <2>1 DEF Types
    <2>5. Answers'
        BY <1>0, <1>h, <1>n, <2>1, <2>2, <2>3, <2>4 DEF Answers, HeardWithin
    <2>6. Tracked'
        BY <1>0, <1>h, <2>1, <2>3 DEF Tracked, Track
    <2> QED
        BY <2>5, <2>6
<1>2. CASE handlePing(m)
    <2> DEFINE known == sessions[m.sid] # None
               kind == IF known THEN "pong" ELSE "expired"
    <2>1. /\ m \in wire /\ m.kind = "ping" /\ m.sid \in Sids /\ WellFormed(m)
          /\ m.age \in 0 .. maxDelay
        BY <1>2 DEF handlePing, Packets, WellFormed, Message
    <2>2. /\ wire' = (wire \ {m}) \cup Reply(m, kind, m.sid)
          /\ kind \in {"ok", "pong", "expired"} /\ kind # "ok"
          /\ kind = "pong" => known
        BY <1>2 DEF handlePing
    <2>3. \A x \in Sids : \/ sessions'[x] = sessions[x]
                          \/ x = m.sid /\ sessions[x] # None /\ sessions'[x] = 0
        BY <1>2, <2>1 DEF handlePing, Types
    <2>4. known => sessions'[m.sid] = 0
        BY <1>2, <2>1 DEF handlePing, Types
    <2> HIDE DEF kind, known
    <2>5. \A n \in wire' : n \in wire \/ /\ n.kind = kind /\ n.sid = m.sid /\ n.age = 0
        BY <2>1, <2>2, ReplyWellFormed
    <2>6. \A x \in Sids, n \in Nat : HeardWithin(x, n) => HeardWithin(x, n)'
        BY <1>n, <2>3 DEF HeardWithin
    <2>7. \A n \in wire : n.age \in Nat /\ (n.kind # "hello" => n.sid \in Sids)
        BY KeepaliveAssumption DEF Packets, WellFormed, Message
    <2>8. \A n \in wire' : n.kind = "ok" => HeardWithin(n.sid, n.age)'
        BY <1>h, <2>2, <2>5, <2>6, <2>7 DEF Answers
    <2>9. ASSUME st = "up", NEW n \in wire', n.sid = sid
          PROVE  /\ n.kind = "ping" => timer <= n.age
                 /\ n.kind = "pong" => timer <= maxDelay + n.age /\ HeardWithin(sid, timer)'
        <3>1. CASE n \in wire
            <4>1. sid \in Sids /\ timer \in Nat
                BY <2>9 DEF Types
            <4>2. /\ n.kind = "ping" => timer <= n.age
                  /\ n.kind = "pong" => timer <= maxDelay + n.age /\ HeardWithin(sid, timer)
                BY <1>h, <2>9, <3>1 DEF Answers
            <4> QED
                BY <1>0, <2>6, <4>1, <4>2 DEF HeardWithin
        <3>2. CASE n \notin wire /\ n.kind = "pong"
            <4>1. timer <= m.age /\ n.age = 0 /\ sessions'[sid] = 0
                BY <1>h, <2>1, <2>2, <2>4, <2>5, <2>9, <3>2 DEF Answers
            <4>2. HeardWithin(sid, timer)'
                BY <1>0, <1>n, <4>1 DEF HeardWithin, Types
            <4>3. timer <= maxDelay + n.age
                BY <2>1, <4>1, KeepaliveAssumption DEF Types
            <4> QED
                BY <3>2, <4>2, <4>3
        <3> QED
            BY <2>2, <2>5, <2>9, <3>1, <3>2
    <2>10. Answers'
        BY <1>0, <2>8, <2>9 DEF Answers, HeardWithin
    <2>11. ASSUME st = "up", NEW b \in {0, pingInterval, 2 * pingInterval},
                  NEW d \in 0 .. 2 * maxDelay, NEW e \in {0, maxDelay}, Track(b, d, e)
           PROVE  Track(b, d, e)'
        <3>1. sid \in Sids /\ b + timer + e >= 0
            BY <2>11, KeepaliveAssumption DEF Types
        <3> QED
            BY <1>0, <1>n, <2>3, <2>11, <3>1 DEF Track
    <2>12. Tracked'
        BY <1>0, <1>h, <2>11 DEF Tracked
    <2> QED
        BY <2>10, <2>12
<1> QED
    BY <1>1, <1>2

\* The clean-up drops a session only when three pings of its client have not
\* come: the third is one the client is about to send, and gives up at.
LEMMA HeardCleanup ==
    ASSUME Base, Heard, cleanupSessions
    PROVE  Heard'
<1> USE DEF Base
<1>0. UNCHANGED <<st, sid, timer, since, restarts, wire>>
    BY DEF cleanupSessions, clientVars
<1> SUFFICES ASSUME Undisturbed PROVE Answers' /\ Tracked'
    BY <1>0 DEF Heard, Undisturbed
<1>h. Answers /\ Tracked
    BY DEF Heard
<1>1. \A x \in Sids : \/ sessions'[x] = sessions[x]
                      \/ /\ sessions[x] # None /\ sessions[x] > staleAfter
                         /\ sessions[x] \in Nat /\ sessions'[x] = None
    BY KeepaliveAssumption DEF cleanupSessions, Types
<1>2. \A x \in Sids, n \in 0 .. staleAfter : HeardWithin(x, n) => HeardWithin(x, n)'
    BY <1>1, KeepaliveAssumption DEF HeardWithin
<1>3. maxDelay <= staleAfter /\ pingInterval <= staleAfter
    BY KeepaliveAssumption DEF Undisturbed, Margins
<1>4. \A n \in wire : n.age \in 0 .. staleAfter /\ (n.kind # "hello" => n.sid \in Sids)
    BY <1>3, KeepaliveAssumption DEF Packets, WellFormed, Message
<1>5. st = "up" => sid \in Sids /\ timer \in 0 .. staleAfter
    BY <1>3, KeepaliveAssumption DEF Types
<1>6. Answers'
    BY <1>0, <1>h, <1>2, <1>4, <1>5 DEF Answers, HeardWithin
<1>7. ASSUME st = "up", NEW b \in {0, pingInterval, 2 * pingInterval},
             NEW d \in 0 .. 2 * maxDelay, NEW e \in {0, maxDelay}, Track(b, d, e)
      PROVE  Track(b, d, e)'
    <2>1. CASE sessions'[sid] = sessions[sid]
        BY <1>0, <1>7, <2>1 DEF Track
    <2>2. CASE /\ sessions[sid] # None /\ sessions[sid] > staleAfter
               /\ sessions[sid] \in Nat /\ sessions'[sid] = None
        <3>1. b + timer + e > 3 * pingInterval
            BY <1>7, <2>2, KeepaliveAssumption DEF Track, Undisturbed, Margins, Types
        <3>2. b = 2 * pingInterval /\ timer + e > pingInterval
            BY <1>7, <3>1, KeepaliveAssumption DEF Types, Undisturbed
        <3>3. e = maxDelay /\ timer > pingInterval - maxDelay
            BY <1>7, <3>2, KeepaliveAssumption DEF Types
        <3> QED
            BY <1>0, <1>7, <2>2, <3>2, <3>3 DEF Track
    <2> QED
        BY <1>1, <1>5, <1>7, <2>1, <2>2
<1>8. Tracked'
    BY <1>0, <1>h, <1>7 DEF Tracked
<1> QED
    BY <1>6, <1>8

\* Steps after which the wire holds old packets, or copies of them that took
\* longer, and the client and the server know what they knew.
LEMMA HeardNetwork ==
    ASSUME Base, Heard, \E m \in wire : Lose(m) \/ Duplicate(m)
    PROVE  Heard'
<1> USE DEF Base
<1>0. UNCHANGED <<st, sid, timer, since, sessions, restarts>>
    BY DEF Lose, Duplicate, clientVars
<1> SUFFICES ASSUME Undisturbed PROVE Answers' /\ Tracked'
    BY <1>0 DEF Heard, Undisturbed
<1>h. Answers /\ Tracked
    BY DEF Heard
<1>1. \A m \in wire : LET n == [m EXCEPT !.age = @ + 1]
                      IN  m.age < maxDelay => /\ n.kind = m.kind /\ n.sid = m.sid
                                              /\ n.age = m.age + 1
    BY OlderPacket DEF Packets
<1>2. \A n \in wire' : \E m \in wire : /\ n.kind = m.kind /\ n.sid = m.sid
                                       /\ n.age \in {m.age, m.age + 1}
    BY <1>1 DEF Lose, Duplicate
<1>3. \A m \in wire : m.age \in Nat /\ (m.kind # "hello" => m.sid \in Sids)
    BY KeepaliveAssumption DEF Packets, WellFormed, Message
<1>4. \A x \in Sids, k \in Nat : HeardWithin(x, k) => HeardWithin(x, k + 1)
    BY KeepaliveAssumption DEF HeardWithin, Types
<1>5. \A n \in wire' : n.kind = "ok" => HeardWithin(n.sid, n.age)
    BY <1>h, <1>2, <1>3, <1>4 DEF Answers
<1>6. ASSUME st = "up", NEW n \in wire', n.sid = sid
      PROVE  /\ n.kind = "ping" => timer <= n.age
             /\ n.kind = "pong" => timer <= maxDelay + n.age /\ HeardWithin(sid, timer)
    <2>1. PICK m \in wire : /\ n.kind = m.kind /\ n.sid = m.sid
                            /\ n.age \in {m.age, m.age + 1}
        BY <1>2
    <2>2. /\ m.kind = "ping" => timer <= m.age
          /\ m.kind = "pong" => timer <= maxDelay + m.age /\ HeardWithin(sid, timer)
        BY <1>h, <1>6, <2>1 DEF Answers
    <2>3. m.age \in Nat /\ n.age \in Nat /\ m.age <= n.age
        BY <1>3, <2>1
    <2> QED
        BY <2>1, <2>2, <2>3, KeepaliveAssumption DEF Types
<1>7. Answers'
    BY <1>0, <1>5, <1>6 DEF Answers, HeardWithin
<1>8. Tracked'
    BY <1>0, <1>h DEF Tracked, Track
<1> QED
    BY <1>7, <1>8

\* Steps after which the client has no session.
LEMMA HeardNothing ==
    ASSUME Heard, st' # "up", UNCHANGED <<sessions, restarts>>,
           \A n \in wire' : n \in wire \/ n.kind # "ok"
    PROVE  Heard'
<1> SUFFICES ASSUME Undisturbed PROVE Answers' /\ Tracked'
    BY DEF Heard, Undisturbed
<1>1. Answers'
    BY DEF Heard, Answers, HeardWithin
<1> QED
    BY <1>1 DEF Tracked

LEMMA HeardClient ==
    ASSUME Base, Heard,
           \/ \E m \in wire : AuthOK(m) \/ recvLoop(m)
           \/ AuthTimeout \/ PingTick \/ Reconnect
    PROVE  Heard'
<1> USE DEF Base
<1>0. UNCHANGED <<sessions, restarts>>
    BY DEF AuthOK, recvLoop, AuthTimeout, PingTick, Reconnect
<1>1. ASSUME NEW m \in wire, AuthOK(m)
      PROVE  Heard'
    <2> SUFFICES ASSUME Undisturbed PROVE Answers' /\ Tracked'
        BY <1>0 DEF Heard, Undisturbed
    <2>h. Answers
        BY <1>0 DEF Heard
    <2>1. /\ m.kind = "ok" /\ st = "hello" /\ st' = "up" /\ sid' = m.sid /\ timer' = 0
          /\ since' = 0 /\ wire' = wire \ {m}
        BY <1>1 DEF AuthOK
    <2>2. m.sid \in Sids /\ m.age \in 0 .. maxDelay
        BY <2>1 DEF Packets, WellFormed, Message
    <2>3. ASSUME NEW n \in wire', n.sid = sid'
          PROVE  n.kind # "ping" /\ n.kind # "pong"
        <3>1. n \in wire /\ n.sid = m.sid
            BY <2>1, <2>3
        <3>2. n.kind # "ping"
            BY <2>1, <3>1 DEF Sockets
        <3>3. n.kind # "pong"
            BY <2>1, <3>1 DEF Sockets, Packets, WellFormed, Message
        <3> QED
            BY <3>2, <3>3
    <2>4. Answers'
        BY <1>0, <2>h, <2>1, <2>3 DEF Answers, HeardWithin
    <2>5. HeardWithin(m.sid, m.age)
        BY <2>h, <2>1 DEF Answers
    <2>6. Track(0, 0, maxDelay)'
        BY <1>0, <2>1, <2>2, <2>5, KeepaliveAssumption DEF Track, HeardWithin, Types
    <2>7. 0 \in 0 .. 2 * maxDelay
        BY KeepaliveAssumption
    <2>8. Tracked'
        BY <2>6, <2>7 DEF Tracked
    <2> QED
        BY <2>4, <2>8
<1>2. ASSUME NEW ms, EndSession(ms), \A m \in ms : WellFormed(m)
      PROVE  Heard'
    <2>1. \A n \in Closed(ms) : n.kind # "ok"
        BY <1>2, ClosedPackets DEF WellFormed
    <2> QED
        BY <1>0, <1>2, <2>1, HeardNothing DEF EndSession
<1>3. ASSUME NEW m \in wire, recvLoop(m)
      PROVE  Heard'
    <2>1. CASE EndSession(wire \ {m})
        BY <1>2, <2>1 DEF Packets
    <2>2. CASE ~EndSession(wire \ {m})
        <3> SUFFICES ASSUME Undisturbed PROVE Answers' /\ Tracked'
            BY <1>0 DEF Heard, Undisturbed
        <3>h. Answers /\ Tracked
            BY <1>0 DEF Heard
        <3>1. /\ wire' = wire \ {m} /\ st = "up" /\ UNCHANGED <<st, sid, timer>>
              /\ \/ since' = since
                 \/ since' = 0 /\ m.kind = "pong" /\ m.sid = sid
            BY <1>3, <2>2 DEF recvLoop
        <3>2. Answers'
            BY <1>0, <3>h, <3>1 DEF Answers, HeardWithin
        <3>3. CASE since' = since
            BY <1>0, <3>h, <3>1, <3>2, <3>3 DEF Tracked, Track
        <3>4. CASE since' = 0 /\ m.kind = "pong" /\ m.sid = sid
            <4>1. timer <= maxDelay + m.age /\ HeardWithin(sid, timer)
                BY <3>h, <3>1, <3>4 DEF Answers
            <4>2. m.age \in 0 .. maxDelay
                BY DEF Packets, WellFormed, Message
            <4>3. timer \in 0 .. 2 * maxDelay
                BY <4>1, <4>2, KeepaliveAssumption DEF Types
            <4>4. Track(0, timer, 0)'
                BY <1>0, <3>1, <3>4, <4>1, KeepaliveAssumption DEF Track, HeardWithin, Types
            <4>5. \E d \in 0 .. 2 * maxDelay : Track(0, d, 0)'
                BY <3>1, <4>3, <4>4
            <4> QED
                BY <3>2, <4>5 DEF Tracked
        <3> QED
            BY <3>1, <3>2, <3>3, <3>4
    <2> QED
        BY <2>1, <2>2
<1>4. CASE AuthTimeout
    <2>1. st' # "up" /\ \A n \in wire' : n.kind # "ok"
        BY <1>4, ClosedPackets, SentWellFormed DEF AuthTimeout, Packets, WellFormed
    <2> QED
        BY <1>0, <2>1, HeardNothing
<1>5. CASE Reconnect
    <2>1. st' # "up" /\ \A n \in wire' : n \in wire \/ n.kind # "ok"
        BY <1>5, SentWellFormed DEF Reconnect
    <2> QED
        BY <1>0, <2>1, HeardNothing
<1>6. CASE PingTick
    <2>1. sid \in Sids /\ \A m \in wire \cup {Ping(sid)} : WellFormed(m)
        BY <1>6, SentWellFormed DEF PingTick, Types, Packets
    <2>2. CASE EndSession(wire \cup {Ping(sid)})
        BY <1>2, <2>1, <2>2
    <2>3. CASE ~EndSession(wire \cup {Ping(sid)})
        <3> SUFFICES ASSUME Undisturbed PROVE Answers' /\ Tracked'
            BY <1>0 DEF Heard, Undisturbed
        <3>h. Answers /\ Tracked
            BY <1>0 DEF Heard
        <3>1. /\ st = "up" /\ timer = pingInterval /\ timer' = 0 /\ since <= keepaliveTimeout
              /\ wire' = wire \cup {Ping(sid)} /\ UNCHANGED <<st, sid, since>>
            BY <1>6, <2>3, KeepaliveAssumption DEF PingTick, Types
        <3>2. \A m \in wire : m.age \in 0 .. maxDelay
            BY DEF Packets, WellFormed, Message
        <3>3. \A m \in wire : ~(m.kind = "pong" /\ m.sid = sid)
            BY <3>h, <3>1, <3>2, KeepaliveAssumption DEF Answers, Undisturbed
        <3>4. Ping(sid).kind = "ping" /\ Ping(sid).age = 0
            BY DEF Ping
        <3>5. Answers'
            BY <1>0, <3>h, <3>1, <3>2, <3>3, <3>4, KeepaliveAssumption DEF Answers, HeardWithin
        <3>6. PICK b \in {0, pingInterval, 2 * pingInterval},
                   d \in 0 .. 2 * maxDelay, e \in {0, maxDelay} : Track(b, d, e)
            BY <3>h, <3>1 DEF Tracked
        <3>7. b + pingInterval - d <= keepaliveTimeout
            BY <3>1, <3>6, KeepaliveAssumption DEF Track
        <3>8. b # 2 * pingInterval
            BY <3>7, KeepaliveAssumption DEF Undisturbed, Margins
        <3>9. b + pingInterval \in {0, pingInterval, 2 * pingInterval}
            BY <3>8, KeepaliveAssumption
        <3>10. sessions[sid] # None
            BY <3>6, <3>8 DEF Track
        <3>11. Track(b + pingInterval, d, e)'
            BY <1>0, <3>1, <3>6, <3>7, <3>10, KeepaliveAssumption DEF Track
        <3>12. \E c \in {0, pingInterval, 2 * pingInterval} : Track(c, d, e)'
            BY <3>9, <3>11
        <3> QED
            BY <3>5, <3>12 DEF Tracked
    <2> QED
        BY <2>2, <2>3
<1> QED
    BY <1>1, <1>3, <1>4, <1>5, <1>6

LEMMA HeardTick ==
    ASSUME Base, Heard, Tick
    PROVE  Heard'
<1> USE DEF Base
<1>0. UNCHANGED <<st, sid, restarts>> /\ timer' = timer + 1
    BY DEF Tick
<1> SUFFICES ASSUME Undisturbed PROVE Answers' /\ Tracked'
    BY <1>0 DEF Heard, Undisturbed
<1>h. Answers /\ Tracked
    BY DEF Heard
<1>1. \A x \in Sids : \/ sessions[x] = None /\ sessions'[x] = None
                      \/ /\ sessions[x] \in Nat /\ sessions'[x] \in Nat
                         /\ sessions'[x] <= sessions[x] + 1
    BY KeepaliveAssumption DEF Tick, Types, Upto
<1>2. \A x \in Sids, k \in Nat : HeardWithin(x, k) =>
            sessions'[x] # None /\ sessions'[x] <= k + 1
    BY <1>1, KeepaliveAssumption DEF HeardWithin
<1>3. \A n \in wire' : \E m \in wire : /\ n.kind = m.kind /\ n.sid = m.sid
                                       /\ n.age = m.age + 1
    BY AgedPackets
<1>4. \A m \in wire : m.age \in Nat /\ (m.kind # "hello" => m.sid \in Sids)
    BY KeepaliveAssumption DEF Packets, WellFormed, Message
<1>5. \A n \in wire' : n.kind = "ok" => HeardWithin(n.sid, n.age)'
    BY <1>h, <1>2, <1>3, <1>4 DEF Answers, HeardWithin
<1>6. ASSUME st = "up", NEW n \in wire', n.sid = sid
      PROVE  /\ n.kind = "ping" => timer' <= n.age
             /\ n.kind = "pong" => /\ timer' <= maxDelay + n.age
                                   /\ sessions'[sid] # None /\ sessions'[sid] <= timer'
    <2>1. PICK m \in wire : n.kind = m.kind /\ n.sid = m.sid /\ n.age = m.age + 1
        BY <1>3
    <2>2. /\ m.kind = "ping" => timer <= m.age
          /\ m.kind = "pong" => timer <= maxDelay + m.age /\ HeardWithin(sid, timer)
        BY <1>h, <1>6, <2>1 DEF Answers
    <2>3. m.age \in Nat /\ sid \in Sids /\ timer \in Nat
        BY <1>4, <1>6 DEF Types
    <2> QED
        BY <1>0, <1>2, <2>1, <2>2, <2>3, KeepaliveAssumption
<1>7. Answers'
    BY <1>0, <1>5, <1>6 DEF Answers, HeardWithin
<1>8. ASSUME st = "up", NEW b \in {0, pingInterval, 2 * pingInterval},
             NEW d \in 0 .. 2 * maxDelay, NEW e \in {0, maxDelay}, Track(b, d, e)
      PROVE  Track(b, d, e)'
    <2>1. sid \in Sids /\ timer \in Nat /\ b \in Nat /\ d \in Nat /\ e \in Nat
        BY <1>8, KeepaliveAssumption DEF Types
    <2>2. since' = IF since < keepaliveTimeout + 1 THEN since + 1 ELSE since
        BY <1>8 DEF Tick, Upto
    <2>3. since' = IF b + timer' - d > keepaliveTimeout THEN keepaliveTimeout + 1
                                                        ELSE b + timer' - d
        BY <1>0, <1>8, <2>1, <2>2, KeepaliveAssumption DEF Track
    <2>4. IF sessions'[sid] = None
          THEN b = 2 * pingInterval /\ e = maxDelay /\ timer' > pingInterval - maxDelay
          ELSE sessions'[sid] <= b + timer' + e
        BY <1>0, <1>1, <1>8, <2>1, KeepaliveAssumption DEF Track
    <2> QED
        BY <1>0, <1>8, <2>1, <2>3, <2>4 DEF Track
<1>9. Tracked'
    BY <1>0, <1>h, <1>8 DEF Tracked
<1> QED
    BY <1>7, <1>9

\* Whatever is lost, duplicated or delayed: with the code's times the clean-up
\* drops a session only when its client is about to give it up itself.
THEOREM CleanupIsLate == ASSUME Margins PROVE Spec => []SessionOutlivesClient
<1>1. Init => Heard
    <2> SUFFICES ASSUME Init PROVE Answers /\ Tracked
        BY DEF Heard
    <2> QED
        BY SentWellFormed DEF Init, Answers, Tracked
<1>2. Base /\ Heard /\ [Next]_vars => Heard'
    <2> SUFFICES ASSUME Base, Heard, [Next]_vars PROVE Heard'
        OBVIOUS
    <2>1. CASE Restart
        BY <2>1 DEF Restart, Heard, Undisturbed, Base, Types
    <2>2. CASE UNCHANGED vars
        BY <2>2 DEF vars, clientVars, Heard, Undisturbed, Answers, HeardWithin, Tracked, Track
    <2> QED
        BY <2>1, <2>2, HeardServer, HeardCleanup, HeardNetwork, HeardClient, HeardTick
        DEF Next, Deliver
<1>3. Base /\ Heard => SessionOutlivesClient
    <2> SUFFICES ASSUME Base, Heard, 2 * maxDelay < pingInterval, restarts = 0, st = "up",
                        sessions[sid] = None
                 PROVE  /\ pingInterval - timer < maxDelay
                        /\ since + (pingInterval - timer) > keepaliveTimeout
        BY DEF SessionOutlivesClient
    <2>1. PICK b \in {0, pingInterval, 2 * pingInterval},
               d \in 0 .. 2 * maxDelay, e \in {0, maxDelay} : Track(b, d, e)
        BY DEF Heard, Undisturbed, Tracked
    <2>2. b = 2 * pingInterval /\ e = maxDelay /\ timer > pingInterval - maxDelay
        BY <2>1 DEF Track
    <2>3. d = 0
        BY <2>1, <2>2, KeepaliveAssumption DEF Track, Base, Types
    <2> QED
        BY <2>1, <2>2, <2>3, KeepaliveAssumption DEF Track, Base, Types, Margins
<1> QED
    BY <1>1, <1>2, <1>3, BaseInvariant, PTL DEF Spec
===============================================================================
