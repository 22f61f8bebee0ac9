------------------------------ MODULE Keepalive -------------------------------
(***************************************************************************)
(* How a client and the server keep a UDP session alive and find out that   *)
(* the other side lost it: authentication with retries, ping and pong, the  *)
(* client's keepalive time-out, the server's clean-up of silent sessions,   *)
(* and a server restart.  No data flows, which is the hardest case: only    *)
(* pings tell the server that the client is there.                          *)
(*                                                                          *)
(* Packets take up to maxDelay, or are lost or duplicated.  Every attempt   *)
(* opens a new socket, so packets for an earlier one find nobody (cur is    *)
(* FALSE for them).  Time is discrete; what is due happens before it moves. *)
(* The Reality and TLS fall-backs of connectWithFallback are taken to fail. *)
(***************************************************************************)
EXTENDS Integers, FiniteSets

CONSTANTS
    pingInterval,      \* 5 s
    keepaliveTimeout,  \* 10 s
    staleAfter,        \* 15 s, in cleanupSessions
    cleanupEvery,      \* 10 s, in cleanupLoop
    authTimeout,       \* 5 s per attempt
    retryDelay,        \* 2 s between sessions
    udpAttempts,       \* udpCfg.Attempts
    maxDelay,          \* a packet's longest way
    Sids,              \* session identifiers
    None,
    MaxFaults,         \* bound: packets lost or duplicated
    MaxRestarts        \* bound: server restarts

ASSUME KeepaliveAssumption ==
    /\ pingInterval \in Nat \ {0} /\ keepaliveTimeout \in Nat /\ staleAfter \in Nat
    /\ cleanupEvery \in Nat \ {0} /\ authTimeout \in Nat \ {0} /\ retryDelay \in Nat
    /\ udpAttempts \in Nat \ {0} /\ maxDelay \in Nat
    /\ None \notin Sids \cup Nat /\ IsFiniteSet(Sids)
    /\ MaxFaults \in Nat /\ MaxRestarts \in Nat

VARIABLES
    st,         \* the client: "hello", "up" or "wait"
    sid,        \* its session
    tries,      \* the UDP attempt it makes
    timer,      \* time since the hello, the last ping, or the end of a session
    since,      \* time since lastPong
    sessions,   \* s.sessions: time since lastSeenNano, or None
    cleanup,    \* time since the last cleanupSessions
    wire,       \* packets on their way
    faults, restarts,
    stranded    \* history: how long the client has held a session the server lost

clientVars == <<st, sid, tries, timer, since>>
vars == <<clientVars, sessions, cleanup, wire, faults, restarts, stranded>>

Hello     == [to |-> "server", kind |-> "hello", sid |-> None, cur |-> TRUE, age |-> 0]
Ping(s)   == [to |-> "server", kind |-> "ping", sid |-> s, cur |-> TRUE, age |-> 0]
Reply(m, kind, s) == IF m.cur
    THEN {[to |-> "client", kind |-> kind, sid |-> s, cur |-> TRUE, age |-> 0]} ELSE {}

\* Closing a socket: what is sent to it is dropped, what left it is orphaned.
Closed(ms) == {[m EXCEPT !.cur = FALSE] : m \in {n \in ms : n.to = "server"}}

Unused == {s \in Sids : /\ sessions[s] = None /\ s # sid
                        /\ \A m \in wire : m.sid # s}

-------------------------------------------------------------------------------

\* The client starts at any moment between two clean-ups.
Init ==
    /\ st = "hello" /\ sid = None /\ tries = 1 /\ timer = 0 /\ since = 0
    /\ sessions = [s \in Sids |-> None]
    /\ cleanup \in 0 .. cleanupEvery - 1
    /\ wire = {Hello}
    /\ faults = 0 /\ restarts = 0 /\ stranded = 0

\* The server takes a hello: newSessionID, a session, AuthOK.
handleAuth(m) ==
    /\ m \in wire /\ m.kind = "hello"
    /\ Unused # {}
    /\ LET s == CHOOSE x \in Unused : TRUE
       IN /\ sessions' = [sessions EXCEPT ![s] = 0]
          /\ wire' = (wire \ {m}) \cup Reply(m, "ok", s)
    /\ UNCHANGED <<clientVars, cleanup, faults, restarts, stranded>>

\* Mutant of handlePing: a ping for an unknown session is ignored.
handlePing_Silent(m) ==
    /\ m \in wire /\ m.kind = "ping"
    /\ sessions' = [s \in Sids |-> IF s = m.sid /\ sessions[s] # None
                                   THEN 0 ELSE sessions[s]]
    /\ wire' = (wire \ {m}) \cup
               (IF sessions[m.sid] = None THEN {} ELSE Reply(m, "pong", m.sid))
    /\ UNCHANGED <<clientVars, cleanup, faults, restarts, stranded>>

\* The server takes a ping: pong, or "session expired" when it has no session.
handlePing(m) ==
    /\ m \in wire /\ m.kind = "ping"
    /\ LET known == sessions[m.sid] # None
       IN /\ sessions' = IF known THEN [sessions EXCEPT ![m.sid] = 0] ELSE sessions
          /\ wire' = (wire \ {m}) \cup Reply(m, IF known THEN "pong" ELSE "expired", m.sid)
    /\ UNCHANGED <<clientVars, cleanup, faults, restarts, stranded>>

\* Mutant of cleanupSessions: a session is stale one moment too early.
cleanupSessions_Early ==
    /\ cleanup = cleanupEvery
    /\ cleanup' = 0
    /\ sessions' = [s \in Sids |-> IF sessions[s] # None /\ sessions[s] >= staleAfter
                                   THEN None ELSE sessions[s]]
    /\ UNCHANGED <<clientVars, wire, faults, restarts, stranded>>

\* The clean-up ticker: sessions not heard of for longer than staleAfter.
cleanupSessions ==
    /\ cleanup = cleanupEvery
    /\ cleanup' = 0
    /\ sessions' = [s \in Sids |-> IF sessions[s] # None /\ sessions[s] > staleAfter
                                   THEN None ELSE sessions[s]]
    /\ UNCHANGED <<clientVars, wire, faults, restarts, stranded>>

\* The server is started again: no session, a new ticker.
Restart ==
    /\ restarts < MaxRestarts
    /\ restarts' = restarts + 1
    /\ sessions' = [s \in Sids |-> None] /\ cleanup' = 0
    /\ UNCHANGED <<clientVars, wire, faults, stranded>>

-------------------------------------------------------------------------------

\* authenticate returns with AuthOK: the session starts, lastPong is now.
AuthOK(m) ==
    /\ m \in wire /\ m.kind = "ok" /\ st = "hello"
    /\ st' = "up" /\ sid' = m.sid /\ timer' = 0 /\ since' = 0 /\ stranded' = 0
    /\ wire' = wire \ {m}
    /\ UNCHANGED <<tries, sessions, cleanup, faults, restarts>>

\* No answer within authTimeout: the next attempt, or the session has failed.
AuthTimeout ==
    /\ st = "hello" /\ timer = authTimeout
    /\ timer' = 0
    /\ IF tries < udpAttempts
       THEN /\ tries' = tries + 1 /\ wire' = Closed(wire) \cup {Hello}
            /\ UNCHANGED st
       ELSE /\ st' = "wait" /\ wire' = Closed(wire)
            /\ UNCHANGED tries
    /\ UNCHANGED <<sid, since, sessions, cleanup, faults, restarts, stranded>>

\* The session has ended: its socket is closed, run() waits.
EndSession(ms) ==
    /\ st' = "wait" /\ sid' = None /\ timer' = 0 /\ since' = 0 /\ stranded' = 0
    /\ wire' = Closed(ms)

\* The ping ticker: a ping, and the end of the session when no pong came for
\* longer than keepaliveTimeout.
PingTick ==
    /\ st = "up" /\ timer = pingInterval
    /\ IF since > keepaliveTimeout
       THEN EndSession(wire \cup {Ping(sid)})
       ELSE /\ timer' = 0 /\ wire' = wire \cup {Ping(sid)}
            /\ UNCHANGED <<st, sid, since, stranded>>
    /\ UNCHANGED <<tries, sessions, cleanup, faults, restarts>>

\* Mutant of recvLoop: whatever arrives is taken for a sign of life.
recvLoop_AnyAnswer(m) ==
    /\ m \in wire /\ m.to = "client" /\ st = "up"
    /\ since' = 0 /\ wire' = wire \ {m}
    /\ UNCHANGED <<st, sid, timer, stranded, tries, sessions, cleanup, faults, restarts>>

\* recvLoop: a pong of this session; an AuthError ends the session; an AuthOK
\* (the answer to a duplicated hello) is skipped.
recvLoop(m) ==
    /\ m \in wire /\ m.to = "client" /\ st = "up"
    /\ CASE m.kind = "expired" -> EndSession(wire \ {m})
         [] m.kind = "pong" /\ m.sid = sid ->
              /\ since' = 0 /\ wire' = wire \ {m}
              /\ UNCHANGED <<st, sid, timer, stranded>>
         [] OTHER -> wire' = wire \ {m} /\ UNCHANGED <<st, sid, timer, since, stranded>>
    /\ UNCHANGED <<tries, sessions, cleanup, faults, restarts>>

\* run() starts over after retryDelay.
Reconnect ==
    /\ st = "wait" /\ timer = retryDelay
    /\ st' = "hello" /\ tries' = 1 /\ timer' = 0
    /\ wire' = wire \cup {Hello}
    /\ UNCHANGED <<sid, since, sessions, cleanup, faults, restarts, stranded>>

-------------------------------------------------------------------------------

Lose(m) ==
    /\ faults < MaxFaults /\ m \in wire
    /\ faults' = faults + 1 /\ wire' = wire \ {m}
    /\ UNCHANGED <<clientVars, sessions, cleanup, restarts, stranded>>

\* A copy that took another way: it is told apart by its age.
Duplicate(m) ==
    /\ faults < MaxFaults /\ m \in wire /\ m.age < maxDelay
    /\ faults' = faults + 1 /\ wire' = wire \cup {[m EXCEPT !.age = @ + 1]}
    /\ UNCHANGED <<clientVars, sessions, cleanup, restarts, stranded>>

Due ==
    \/ st = "hello" /\ timer = authTimeout
    \/ st = "up" /\ timer = pingInterval
    \/ st = "wait" /\ timer = retryDelay
    \/ cleanup = cleanupEvery
    \/ \E m \in wire : m.age >= maxDelay

Upto(n, cap) == IF n < cap THEN n + 1 ELSE n

\* Time moves on when nothing is due.  Times past the last one that matters are
\* not told apart.
Tick ==
    /\ ~ Due
    /\ timer' = timer + 1
    /\ since' = IF st = "up" THEN Upto(since, keepaliveTimeout + 1) ELSE since
    /\ sessions' = [s \in Sids |-> IF sessions[s] = None THEN None
                                   ELSE Upto(sessions[s], staleAfter + 1)]
    /\ cleanup' = cleanup + 1
    /\ wire' = {[m EXCEPT !.age = @ + 1] : m \in wire}
    /\ stranded' = IF st = "up" /\ sessions[sid] = None
                   THEN Upto(stranded, pingInterval + 2 * maxDelay + 1) ELSE stranded
    /\ UNCHANGED <<st, sid, tries, faults, restarts>>

Deliver == \E m \in wire : handleAuth(m) \/ handlePing(m) \/ AuthOK(m) \/ recvLoop(m)

Next ==
    \/ Deliver
    \/ cleanupSessions \/ Restart
    \/ AuthTimeout \/ PingTick \/ Reconnect
    \/ \E m \in wire : Lose(m) \/ Duplicate(m)
    \/ Tick

Spec == Init /\ [][Next]_vars

\* Packets that are not lost arrive, tickers fire and time passes.
FairSpec == /\ Spec
            /\ WF_vars(Deliver) /\ WF_vars(cleanupSessions)
            /\ WF_vars(AuthTimeout) /\ WF_vars(PingTick) /\ WF_vars(Reconnect)
            /\ WF_vars(Tick)

-------------------------------------------------------------------------------

Message == [to : {"client", "server"}, kind : {"hello", "ok", "ping", "pong", "expired"},
            sid : Sids \cup {None}, cur : BOOLEAN, age : 0 .. maxDelay]

\* The type invariant of client, server and wire.
TypeOK ==
    /\ st \in {"hello", "up", "wait"} /\ sid \in Sids \cup {None}
    /\ st = "up" <=> sid # None
    /\ tries \in 1..udpAttempts /\ timer \in Nat /\ since \in 0 .. keepaliveTimeout + 1
    /\ sessions \in [Sids -> (0 .. staleAfter + 1) \cup {None}]
    /\ cleanup \in 0..cleanupEvery
    /\ wire \subseteq Message
    /\ faults \in 0..MaxFaults /\ restarts \in 0..MaxRestarts

\* The server does not expire a session that its client goes on using: unless it
\* was restarted, a session it has dropped is one whose client gives it up at its
\* next ping, less than a packet's way later, whatever is lost, as long as a round
\* trip is shorter than the ping interval.
SessionOutlivesClient ==
    2 * maxDelay < pingInterval /\ restarts = 0 /\ st = "up" /\ sessions[sid] = None =>
        LET left == pingInterval - timer
        IN  left < maxDelay /\ since + left > keepaliveTimeout

\* "the client detects the stale session immediately and reconnects, instead of
\* hanging": when no packet is lost, a session the server has forgotten is given
\* up after a ping interval and a round trip.
DetectsLostSession ==
    faults = 0 => stranded <= pingInterval + 2 * maxDelay

\* Losses and restarts being finite in number, the client ends up connected for
\* good to a session the server has.
Recovers == <>[](st = "up" /\ sessions[sid] # None)
===============================================================================
