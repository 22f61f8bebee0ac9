-------------------------------- MODULE Reality --------------------------------
(***************************************************************************)
(* The Reality front on port 443.  A client hides an authentication blob    *)
(* in the session_id of its TLS ClientHello; AcceptReality opens it with    *)
(* one of the server's private keys and serves the connection, or splices   *)
(* it to the site the server pretends to be.  A blob is a sealed short ID   *)
(* and time stamp: `fresh` remembers for twice the time window the blobs    *)
(* it has taken, and takes none twice.                                      *)
(*                                                                          *)
(* A hello is what its sender sealed, and may reach the server again on     *)
(* another connection.  Every stream is counted in units: the header of     *)
(* the first record, its body, and what follows.                            *)
(***************************************************************************)
EXTENDS Integers, FiniteSets, SequencesExt

CONSTANTS
    Hellos,           \* the ClientHellos, numbered in the order they are sent
    Conns,            \* the connections accepted
    Spliced,          \* bound: the kinds of hello whose splice is followed
    Apart,            \* bound: whether it is followed while nothing else happens
    Servers,          \* server configurations: keys, names, shorts
    Clients,          \* client configurations: key, sni, short, None when unset
    Pool,             \* the built-in key pool, in the server's order
    timeWindow,       \* seconds
    Lag,              \* bound: seconds from reading the clock to `fresh`
    Skews,            \* bound: seconds a client's clock is ahead
    MaxClock, MaxUnits, \* bounds: seconds; units of a stream
    None

ASSUME TimesAssumption ==
    timeWindow \in Nat /\ Lag \in Nat /\ MaxClock \in Nat /\ Skews \subseteq Int
ASSUME HellosAssumption == Hellos \subseteq Nat
ASSUME ApartAssumption == Apart \in BOOLEAN
ASSUME UnitsAssumption == MaxUnits \in Nat \ {0, 1}

VARIABLES
    server,           \* the server's configuration
    clock,            \* the server's clock
    hello,            \* what each hello carries, None before it is sent
    pc, of, now,      \* per connection: where it is, its hello, the time read
    pipe, lost,       \* per connection: its two streams; the peers that were reset
    seen,             \* replayCache: blobs taken, and when
    admitted          \* history: times a hello was let in

conns == <<pc, of, now, pipe, lost>>
vars  == <<server, clock, hello, conns, seen, admitted>>

Up == "up"
Down == "down"
Ends == {Up, Down}
Peers == {"client", "site"}
Source(d) == IF d = Up THEN "client" ELSE "site"
Sink(d) == IF d = Up THEN "site" ELSE "client"
DefaultRealitySNI == "default"
ZeroShortID == "zero"

-------------------------------------------------------------------------------
(* Configuration.  What is not set has a default on both sides. *)

ServerKeys == IF server.keys = <<>> THEN Pool ELSE server.keys
ServerNames == IF server.names = {} THEN {DefaultRealitySNI} ELSE server.names
ShortIDs == IF server.shorts = {} THEN {ZeroShortID} ELSE server.shorts

RandomPoolPublicKey(c) == IF c.key = None THEN ToSet(Pool) ELSE {c.key}
ClientSNI(c) == IF c.sni = None THEN DefaultRealitySNI ELSE c.sni
ParseShortID(c) == IF c.short = None THEN ZeroShortID ELSE c.short

\* The two configurations were made for each other: each field is set on
\* neither side, or the client's value is one of the server's.
Suits(c) ==
    /\ IF c.key = None THEN server.keys = <<>> ELSE c.key \in ToSet(server.keys)
    /\ IF c.sni = None THEN server.names = {} ELSE c.sni \in server.names
    /\ IF c.short = None THEN server.shorts = {} ELSE c.short \in server.shorts

-------------------------------------------------------------------------------
(* The first record. *)

\* What is no handshake record, or too long, is read no further than its header.
RecordUnits(kind) == IF kind = "other" THEN 1 ELSE 2

\* A hello that goes on in a second record does not parse.
parseClientHelloRecord(kind) == kind \notin {"other", "split"}
parseKeyShareX25519(kind) == kind # "noX25519"
sniAllowed(sni) == ServerNames # {} => sni \in ServerNames

\* Only the key it was sealed for opens a blob; a browser's opens with none.
openRealityAuth(key, h) == h.kind = "sealed" /\ h.key = key
shortIDAllowed(h) == h.short \in ShortIDs

Abs(n) == IF n < 0 THEN -n ELSE n

\* Mutant of SomeKeyOpens: a key that does not open the blob ends the search.
SomeKeyOpens_FirstOnly(h) == ServerKeys # <<>> /\ openRealityAuth(ServerKeys[1], h)

\* Trial decryption with every key of the pool.
SomeKeyOpens(h) == \E i \in DOMAIN ServerKeys : openRealityAuth(ServerKeys[i], h)

Authentic(h, t) ==
    SomeKeyOpens(h) /\ shortIDAllowed(h) /\ Abs(t - h.stamp) <= timeWindow

-------------------------------------------------------------------------------
(* replayCache *)

\* Mutant of ttl: as long as the window.
ttl_OneWindow == timeWindow

ttl == 2 * timeWindow

Remembered(t) == {e \in seen : t - e.at <= ttl}
Fresh(b, t) == \A e \in Remembered(t) : e.blob # b

-------------------------------------------------------------------------------
Stream(n) == [sent |-> n, moved |-> 0, ended |-> FALSE, done |-> FALSE]

Init ==
    /\ server \in Servers
    /\ clock = 0
    /\ hello = [h \in Hellos |-> None]
    /\ pc = [c \in Conns |-> "free"]
    /\ of = [c \in Conns |-> None]
    /\ now = [c \in Conns |-> 0]
    /\ pipe = [c \in Conns |-> [d \in Ends |-> Stream(0)]]
    /\ lost = [c \in Conns |-> {}]
    /\ seen = {}
    /\ admitted = [h \in Hellos |-> 0]

\* A splice touches nothing of the other connections, so the rest may rest.
Rest == Apart => \A c \in Conns : pc[c] \notin {"splice", "over"}

IsNext(h) == \A g \in Hellos : hello[g] = None <=> g >= h

\* A client seals a new hello, by a clock of its own.
DialReality(h) ==
    /\ IsNext(h) /\ Rest
    /\ \E c \in Clients : \E key \in RandomPoolPublicKey(c) :
       \E skew \in Skews :
          hello' = [hello EXCEPT ![h] =
             [kind |-> "sealed", key |-> key, sni |-> ClientSNI(c),
              short |-> ParseShortID(c), stamp |-> clock + skew, skew |-> skew,
              client |-> c]]
    /\ UNCHANGED <<server, clock, conns, seen, admitted>>

\* Somebody else's first record.
Probe(h) ==
    /\ IsNext(h) /\ Rest
    /\ \E kind \in {"browser", "noX25519", "split", "other"} :
          hello' = [hello EXCEPT ![h] =
             [kind |-> kind, key |-> None, sni |-> DefaultRealitySNI,
              short |-> None, stamp |-> 0, skew |-> 0, client |-> None]]
    /\ UNCHANGED <<server, clock, conns, seen, admitted>>

\* A connection arrives with a hello, which may have been sent before.
Accept(c, h) ==
    /\ pc[c] = "free"
    /\ hello[h] # None /\ Rest
    /\ pc' = [pc EXCEPT ![c] = "reading"]
    /\ of' = [of EXCEPT ![c] = h]
    /\ pipe' = [pipe EXCEPT ![c] = [d \in Ends |-> Stream(IF d = Up THEN 1 ELSE 0)]]
    /\ UNCHANGED <<server, clock, hello, now, lost, seen, admitted>>

Goes(c, to) == pc' = [pc EXCEPT ![c] = to]

\* The connection is closed and its goroutine returns.
Closes(c) ==
    /\ Goes(c, "free")
    /\ of' = [of EXCEPT ![c] = None]
    /\ now' = [now EXCEPT ![c] = 0]
    /\ pipe' = [pipe EXCEPT ![c] = [d \in Ends |-> Stream(0)]]
    /\ lost' = [lost EXCEPT ![c] = {}]

\* The peer stops before its record is complete.
ReadFails(c) ==
    /\ pc[c] = "reading"
    /\ pipe[c][Up].sent < RecordUnits(hello[of[c]].kind)
    /\ Closes(c)
    /\ UNCHANGED <<server, clock, hello, seen, admitted>>

\* The record is in; the clock is read once the hello is worth a trial.
ReadRecord(c) ==
    LET h == hello[of[c]] IN
    /\ pc[c] = "reading"
    /\ pipe[c][Up].sent >= RecordUnits(h.kind)
    /\ IF parseClientHelloRecord(h.kind) /\ parseKeyShareX25519(h.kind) /\ sniAllowed(h.sni)
       THEN Goes(c, "timed") /\ now' = [now EXCEPT ![c] = clock]
       ELSE Goes(c, "dial") /\ UNCHANGED now
    /\ UNCHANGED <<server, clock, hello, of, pipe, lost, seen, admitted>>

authenticate(c) ==
    LET b == of[c]  t == now[c] IN
    /\ pc[c] = "timed"
    /\ IF Authentic(hello[b], t)
       THEN IF Fresh(b, t)
            THEN /\ seen' = Remembered(t) \cup {[blob |-> b, at |-> t]}
                 /\ admitted' = [admitted EXCEPT ![b] = @ + 1]
                 /\ Goes(c, "handshake")
                 /\ now' = [now EXCEPT ![c] = 0]
            ELSE /\ seen' = Remembered(t)
                 /\ Goes(c, "dial")
                 /\ UNCHANGED <<now, admitted>>
       ELSE Goes(c, "dial") /\ UNCHANGED <<now, seen, admitted>>
    /\ UNCHANGED <<server, clock, hello, of, pipe, lost>>

\* The TLS handshake replays the buffered hello; then the session is served.
Serve(c) ==
    /\ \/ pc[c] = "handshake" /\ Goes(c, "open") /\ UNCHANGED <<of, now, pipe, lost>>
       \/ pc[c] \in {"handshake", "open"} /\ Closes(c)
    /\ UNCHANGED <<server, clock, hello, seen, admitted>>

-------------------------------------------------------------------------------
(* realityFallback *)

\* The site is dialled and gets the record that was read; either may fail.
DialDest(c) ==
    /\ pc[c] = "dial"
    /\ \/ Closes(c)
       \/ /\ hello[of[c]].kind \in Spliced
          /\ Apart => \A b \in Conns \ {c} : pc[b] = "free"
          /\ Goes(c, "splice")
          /\ pipe' = [pipe EXCEPT ![c][Up].moved = RecordUnits(hello[of[c]].kind)]
          /\ UNCHANGED <<of, now, lost>>
    /\ UNCHANGED <<server, clock, hello, seen, admitted>>

\* Why io.Copy returns: its source has ended or was reset, or it has something
\* to write and its destination was reset.  While nothing comes, the reset of
\* the destination alone leaves it in Read.
CopyEnds(c, d) ==
    LET p == pipe[c][d] IN
    \/ p.ended /\ p.moved = p.sent
    \/ Source(d) \in lost[c]
    \/ Sink(d) \in lost[c] /\ p.moved < p.sent

Moves(c, d) ==
    /\ pipe[c][d].moved < pipe[c][d].sent /\ Sink(d) \notin lost[c]
    /\ pipe' = [pipe EXCEPT ![c][d].moved = @ + 1]

\* Mutant of Pipe: a direction whose Copy failed is not reported done.
Pipe_NoSignal(c, d) ==
    /\ pc[c] = "splice" /\ ~pipe[c][d].done
    /\ \/ Moves(c, d)
       \/ /\ pipe[c][d].ended /\ pipe[c][d].moved = pipe[c][d].sent
          /\ pipe' = [pipe EXCEPT ![c][d].done = TRUE]
    /\ UNCHANGED <<server, clock, hello, pc, of, now, lost, seen, admitted>>

Pipe(c, d) ==
    /\ pc[c] = "splice" /\ ~pipe[c][d].done
    /\ \/ Moves(c, d)
       \/ CopyEnds(c, d) /\ pipe' = [pipe EXCEPT ![c][d].done = TRUE]
    /\ UNCHANGED <<server, clock, hello, pc, of, now, lost, seen, admitted>>

\* Mutant of SpliceEnds: returns after one side.
SpliceEnds_OneSide(c) ==
    /\ pc[c] = "splice"
    /\ \E d \in Ends : pipe[c][d].done
    /\ Goes(c, "over")
    /\ UNCHANGED <<server, clock, hello, of, now, pipe, lost, seen, admitted>>

SpliceEnds(c) ==
    /\ pc[c] = "splice"
    /\ \A d \in Ends : pipe[c][d].done
    /\ Goes(c, "over")
    /\ UNCHANGED <<server, clock, hello, of, now, pipe, lost, seen, admitted>>

\* Both connections are closed and AcceptReality returns.
Returns(c) ==
    /\ pc[c] = "over" /\ Closes(c)
    /\ UNCHANGED <<server, clock, hello, seen, admitted>>

\* The two peers: the site speaks only once it is reached.
Speaks(c, d) == pc[c] = "splice" \/ (d = Up /\ pc[c] = "reading")

PeerSends(c, d) ==
    LET p == pipe[c][d] IN
    /\ Speaks(c, d) /\ ~p.ended /\ Source(d) \notin lost[c]
    /\ p.sent < (IF d = Up THEN MaxUnits ELSE MaxUnits - 1)
    /\ pipe' = [pipe EXCEPT ![c][d].sent = @ + 1]
    /\ UNCHANGED <<server, clock, hello, pc, of, now, lost, seen, admitted>>

PeerEnds(c, d) ==
    /\ pc[c] = "splice" /\ ~pipe[c][d].ended /\ Source(d) \notin lost[c]
    /\ pipe' = [pipe EXCEPT ![c][d].ended = TRUE]
    /\ UNCHANGED <<server, clock, hello, pc, of, now, lost, seen, admitted>>

\* The TCP connection to one of the two peers breaks.
Reset(c, peer) ==
    /\ pc[c] = "splice" /\ peer \notin lost[c]
    /\ lost' = [lost EXCEPT ![c] = @ \cup {peer}]
    /\ UNCHANGED <<server, clock, hello, pc, of, now, pipe, seen, admitted>>

\* A connection is never further than Lag behind the clock it has read.
Tick ==
    /\ clock < MaxClock /\ Rest
    /\ \A c \in Conns : pc[c] = "timed" => clock - now[c] < Lag
    /\ clock' = clock + 1
    /\ UNCHANGED <<server, hello, conns, seen, admitted>>

-------------------------------------------------------------------------------
Step(c) ==
    \/ ReadFails(c) \/ ReadRecord(c) \/ authenticate(c) \/ Serve(c) \/ DialDest(c)
    \/ SpliceEnds(c) \/ Returns(c) \/ \E peer \in Peers : Reset(c, peer)
    \/ \E d \in Ends : Pipe(c, d) \/ PeerSends(c, d) \/ PeerEnds(c, d)

Next ==
    \/ \E h \in Hellos : DialReality(h) \/ Probe(h)
    \/ \E c \in Conns : (\E h \in Hellos : Accept(c, h)) \/ Step(c)
    \/ Tick

\* The splice's own goroutines run; nothing is assumed of the peers.
Fairness ==
    \A c \in Conns : WF_vars(SpliceEnds(c)) /\ \A d \in Ends : WF_vars(Pipe(c, d))

Spec == Init /\ [][Next]_vars
FairSpec == Spec /\ Fairness

-------------------------------------------------------------------------------
(* Properties *)

\* A hello is let in once, however often and late it is sent again
\* (replayCache.fresh, reality_server.go), unless its sender's clock ran ahead
\* by more than the window less Lag.  The cache forgets a blob after two
\* windows, and by then its stamp is too old for a connection that reads the
\* clock; but one that read it before, up to Lag ago, may come to `fresh` when
\* another has just dropped the entry, and judges it by its own, older time.
NoReplay == \A h \in Hellos : admitted[h] > 1 => hello[h].skew + Lag > timeWindow

\* A client whose configuration suits the server's is not taken for a probe
\* the first time its hello is judged on time, whichever key of the pool it
\* drew (AcceptReality and authenticate).
GenuineAdmitted ==
    \A c \in Conns :
        LET h == hello[of[c]] IN
        (/\ pc[c] \in {"dial", "splice", "over"}
         /\ h.kind = "sealed" /\ Suits(h.client)
         /\ Abs(now[c] - h.stamp) <= timeWindow) => admitted[of[c]] >= 1

\* When a splice is over and neither of its two TCP connections was reset,
\* each side has got all the other sent, the record that was read for
\* authentication and written first included (realityFallback).
NothingCutOff ==
    \A c \in Conns : pc[c] = "over" /\ lost[c] = {} =>
        \A d \in Ends : pipe[c][d].ended /\ pipe[c][d].moved = pipe[c][d].sent

\* A splice comes to an end and frees its goroutine once each direction has a
\* reason to: its sender has ended or was reset, or it has something to write
\* to a peer that was reset (realityFallback).  No more is true: a peer that
\* neither sends nor ends keeps its direction, and so the goroutine, though the
\* peer on the other side is gone.
Finished(c) ==
    \A d \in Ends : pipe[c][d].ended \/ CopyEnds(c, d)
FallbackEnds ==
    \A c \in Conns : (pc[c] = "splice" /\ Finished(c)) ~> pc[c] # "splice"
===============================================================================
