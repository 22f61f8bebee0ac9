---------------------------- MODULE RealityProofs ----------------------------
(***************************************************************************)
(* The server lets a Reality hello in once, for any number of hellos and    *)
(* connections, any time window and any delay before `fresh`, unless its    *)
(* sender's clock runs ahead by more than the window less that delay.       *)
(*                                                                          *)
(* The argument.  The stamp of a modest hello is at most timeWindow - Lag   *)
(* ahead of the server's clock (StampBound), so it is let in at a time `at` *)
(* with stamp + Lag <= at + timeWindow.  Its entry is dropped by a          *)
(* connection whose time is beyond at + 2 * timeWindow; every connection    *)
(* still to be judged has then read a time beyond stamp + timeWindow, and   *)
(* Authentic refuses it (Spent).  A hello that is further ahead can still   *)
(* be on time by then, and the run shows that it may be let in again.  The  *)
(* other two theorems have invariants of their own: SpliceInv is about the  *)
(* two directions of a splice, GenuineInv about what a connection that      *)
(* judges a hello has read.                                                 *)
(***************************************************************************)
EXTENDS Reality, TLAPS

ShapeOK ==
    /\ clock \in Nat
    /\ admitted \in [Hellos -> Nat]
    /\ DOMAIN hello = Hellos
    /\ pc = [c \in Conns |-> pc[c]] /\ of = [c \in Conns |-> of[c]]
    /\ now \in [Conns -> Int]
    /\ \A e \in seen : e.at \in Int

\* The sender's clock is not so far ahead that the stamp outlives the entry.
Modest(h) == h.skew + Lag <= timeWindow

StampBound ==
    \A h \in Hellos : hello[h] # None =>
        /\ hello[h].stamp \in Int /\ hello[h].skew \in Int
        /\ hello[h].kind = "sealed" /\ Modest(hello[h]) =>
              hello[h].stamp + Lag <= clock + timeWindow

\* What a connection that has read the clock knows.
TimedBound ==
    \A c \in Conns :
        /\ pc[c] \in {"reading", "timed"} => of[c] \in Hellos /\ hello[of[c]] # None
        /\ pc[c] = "timed" =>
              /\ now[c] <= clock /\ clock <= now[c] + Lag
              /\ hello[of[c]].kind = "sealed" /\ Modest(hello[of[c]]) =>
                    hello[of[c]].stamp + Lag <= now[c] + timeWindow

Held(h) == \E e \in seen : e.blob = h /\ hello[h].stamp + Lag <= e.at + timeWindow
Expired(h) == clock > hello[h].stamp + Lag + timeWindow

\* A modest hello that was let in is in the cache or too old for everybody.
Spent ==
    \A h \in Hellos : admitted[h] # 0 =>
        hello[h] # None /\ (Modest(hello[h]) => Held(h) \/ Expired(h))

IInv == ShapeOK /\ StampBound /\ TimedBound /\ Spent /\ NoReplay

-------------------------------------------------------------------------------
\* In the initial state nothing has been sent or let in.
LEMMA InitIInv == Init => IInv
  BY DEF Init, IInv, ShapeOK, StampBound, TimedBound, Spent, NoReplay

\* An authentic hello is sealed, and on time for the connection that read t.
LEMMA AuthenticOnTime ==
  ASSUME NEW h, NEW t \in Int, h.stamp \in Int, Authentic(h, t)
  PROVE  h.kind = "sealed" /\ t <= h.stamp + timeWindow
  BY TimesAssumption DEF Authentic, SomeKeyOpens, openRealityAuth, Abs

\* Steps that leave the cache, the clock, the hellos and the times read alone,
\* and bring no connection to "reading" or "timed".
LEMMA QuietStep ==
  ASSUME IInv, UNCHANGED <<clock, hello, seen, admitted>>,
         pc' = [c \in Conns |-> pc'[c]], of' = [c \in Conns |-> of'[c]],
         now' \in [Conns -> Int],
         \A c \in Conns : pc'[c] \in {"reading", "timed"} =>
            pc'[c] = pc[c] /\ of'[c] = of[c] /\ now'[c] = now[c]
  PROVE  IInv'
  <1>1. ShapeOK'
    BY DEF IInv, ShapeOK
  <1>2. StampBound' /\ Spent' /\ NoReplay'
    BY DEF IInv, StampBound, Spent, Held, Expired, NoReplay
  <1>3. TimedBound'
    BY DEF IInv, TimedBound
  <1> QED
    BY <1>1, <1>2, <1>3 DEF IInv

\* A connection that moves on in the fallback or after the handshake.
LEMMA GoesQuiet ==
  ASSUME IInv, NEW c \in Conns, NEW to, Goes(c, to),
         to \notin {"reading", "timed"},
         UNCHANGED <<clock, hello, of, now, seen, admitted>>
  PROVE  IInv'
  <1>1. pc' = [d \in Conns |-> pc'[d]] /\ of' = [d \in Conns |-> of'[d]]
    BY DEF IInv, ShapeOK, Goes
  <1>2. now' \in [Conns -> Int]
    BY DEF IInv, ShapeOK
  <1>3. \A d \in Conns : pc'[d] \in {"reading", "timed"} =>
            pc'[d] = pc[d] /\ of'[d] = of[d] /\ now'[d] = now[d]
    BY DEF IInv, ShapeOK, Goes
  <1> QED
    BY <1>1, <1>2, <1>3, QuietStep

\* A connection that is closed.
LEMMA ClosesQuiet ==
  ASSUME IInv, NEW c \in Conns, Closes(c), UNCHANGED <<clock, hello, seen, admitted>>
  PROVE  IInv'
  <1>1. pc' = [d \in Conns |-> pc'[d]] /\ of' = [d \in Conns |-> of'[d]]
    BY DEF IInv, ShapeOK, Closes, Goes
  <1>2. now' \in [Conns -> Int]
    BY DEF IInv, ShapeOK, Closes
  <1>3. \A d \in Conns : pc'[d] \in {"reading", "timed"} =>
            pc'[d] = pc[d] /\ of'[d] = of[d] /\ now'[d] = now[d]
    BY DEF IInv, ShapeOK, Closes, Goes
  <1> QED
    BY <1>1, <1>2, <1>3, QuietStep

\* The hello to be sent next has not been sent.
LEMMA NextIsNew ==
  ASSUME NEW h \in Hellos, IsNext(h)
  PROVE  hello[h] = None
  BY HellosAssumption DEF IsNext

\* A new hello: the only step that makes a stamp.
LEMMA MintStep ==
  ASSUME IInv, NEW h \in Hellos, hello[h] = None, NEW v, v.stamp \in Int, v.skew \in Int,
         hello' = [hello EXCEPT ![h] = v],
         v.kind = "sealed" /\ Modest(v) => v.stamp + Lag <= clock + timeWindow,
         UNCHANGED <<clock, conns, seen, admitted>>
  PROVE  IInv'
  <1> USE DEF conns
  <1>1. ShapeOK'
    BY DEF IInv, ShapeOK
  <1>2. \A g \in Hellos : hello[g] # None => hello'[g] = hello[g]
    BY DEF IInv, ShapeOK
  <1>3. StampBound'
    BY <1>2 DEF IInv, ShapeOK, StampBound
  <1>4. TimedBound'
    BY <1>2 DEF IInv, TimedBound
  <1>5. Spent' /\ NoReplay'
    BY <1>2 DEF IInv, Spent, Held, Expired, NoReplay
  <1> QED
    BY <1>1, <1>3, <1>4, <1>5 DEF IInv

\* A connection arrives and has read nothing yet.
LEMMA AcceptStep ==
  ASSUME IInv, NEW c \in Conns, NEW h \in Hellos, Accept(c, h)
  PROVE  IInv'
  <1> USE DEF Accept
  <1>1. ShapeOK' /\ StampBound'
    BY DEF IInv, ShapeOK, StampBound
  <1>2. TimedBound'
    <2> SUFFICES ASSUME NEW d \in Conns
                 PROVE  /\ pc'[d] \in {"reading", "timed"} =>
                              of'[d] \in Hellos /\ hello'[of'[d]] # None
                        /\ pc'[d] = "timed" =>
                              /\ now'[d] <= clock' /\ clock' <= now'[d] + Lag
                              /\ hello'[of'[d]].kind = "sealed" /\ Modest(hello'[of'[d]]) =>
                                    hello'[of'[d]].stamp + Lag <= now'[d] + timeWindow
      BY DEF TimedBound
    <2>1. CASE d = c
      BY <2>1 DEF IInv, ShapeOK
    <2>2. CASE d # c
      BY <2>2 DEF IInv, ShapeOK, TimedBound
    <2> QED
      BY <2>1, <2>2
  <1>3. Spent' /\ NoReplay'
    BY DEF IInv, Spent, Held, Expired, NoReplay
  <1> QED
    BY <1>1, <1>2, <1>3 DEF IInv

\* A connection reads the clock: now is clock, so StampBound gives TimedBound.
LEMMA ReadRecordStep ==
  ASSUME IInv, NEW c \in Conns, ReadRecord(c)
  PROVE  IInv'
  <1>1. of[c] \in Hellos /\ hello[of[c]] # None
    BY DEF IInv, TimedBound, ReadRecord
  <1>4. UNCHANGED <<clock, hello, of, seen, admitted>>
    BY DEF ReadRecord
  <1>2. CASE Goes(c, "timed") /\ now' = [now EXCEPT ![c] = clock]
    <2>1. ShapeOK' /\ StampBound'
      BY <1>2, <1>4 DEF IInv, ShapeOK, StampBound, Goes
    <2>2. TimedBound'
      <3> SUFFICES ASSUME NEW d \in Conns
                   PROVE  /\ pc'[d] \in {"reading", "timed"} =>
                                of'[d] \in Hellos /\ hello'[of'[d]] # None
                          /\ pc'[d] = "timed" =>
                                /\ now'[d] <= clock' /\ clock' <= now'[d] + Lag
                                /\ hello'[of'[d]].kind = "sealed" /\ Modest(hello'[of'[d]]) =>
                                      hello'[of'[d]].stamp + Lag <= now'[d] + timeWindow
        BY DEF TimedBound
      <3>1. CASE d = c
        BY <3>1, <1>1, <1>2, <1>4, TimesAssumption DEF IInv, ShapeOK, StampBound, Goes
      <3>2. CASE d # c
        BY <3>2, <1>2, <1>4 DEF IInv, ShapeOK, TimedBound, Goes
      <3> QED
        BY <3>1, <3>2
    <2>3. Spent' /\ NoReplay'
      BY <1>4 DEF IInv, Spent, Held, Expired, NoReplay
    <2> QED
      BY <2>1, <2>2, <2>3 DEF IInv
  <1>3. CASE Goes(c, "dial") /\ UNCHANGED now
    BY <1>3, <1>4, GoesQuiet
  <1> QED
    BY <1>2, <1>3 DEF ReadRecord

\* An authentic hello of a connection still to be judged has not expired: what
\* the cache drops before then belongs to hellos that are late for everybody.
LEMMA JudgedInTime ==
  ASSUME IInv, NEW c \in Conns, pc[c] = "timed", Authentic(hello[of[c]], now[c]),
         Modest(hello[of[c]])
  PROVE  ~Expired(of[c]) /\ hello[of[c]].stamp + Lag <= now[c] + timeWindow
  <1>1. of[c] \in Hellos /\ hello[of[c]].stamp \in Int
    BY DEF IInv, TimedBound, StampBound
  <1>2. hello[of[c]].kind = "sealed" /\ now[c] <= hello[of[c]].stamp + timeWindow
    BY <1>1, AuthenticOnTime DEF IInv, ShapeOK
  <1> QED
    BY <1>1, <1>2, TimesAssumption DEF IInv, ShapeOK, TimedBound, Expired

\* What the cache still remembers at t, or dropped because t is late for it.
LEMMA EvictionIsSafe ==
  ASSUME IInv, NEW t \in Int, t <= clock, NEW h \in Hellos, admitted[h] # 0,
         Modest(hello[h]), hello' = hello, clock' = clock, Remembered(t) \subseteq seen'
  PROVE  Held(h)' \/ Expired(h)'
  <1>1. hello[h] # None /\ hello[h].stamp \in Int
    BY DEF IInv, Spent, StampBound
  <1>2. CASE Expired(h)
    BY <1>2 DEF Expired
  <1>3. CASE Held(h)
    <2>1. PICK e \in seen : e.blob = h /\ hello[h].stamp + Lag <= e.at + timeWindow
      BY <1>3 DEF Held
    <2>2. e.at \in Int
      BY DEF IInv, ShapeOK
    <2>3. CASE t - e.at <= ttl
      BY <2>1, <2>3 DEF Remembered, Held
    <2>4. CASE ~(t - e.at <= ttl)
      BY <1>1, <2>1, <2>2, <2>4, TimesAssumption DEF IInv, ShapeOK, ttl, Expired
    <2> QED
      BY <2>3, <2>4
  <1> QED
    BY <1>2, <1>3 DEF IInv, Spent

\* The step that lets a hello in, records it and drops old entries.
LEMMA AuthenticateStep ==
  ASSUME IInv, NEW c \in Conns, authenticate(c)
  PROVE  IInv'
  <1> DEFINE b == of[c]
             t == now[c]
  <1> USE DEF authenticate
  <1>1. /\ b \in Hellos /\ hello[b] # None
        /\ t \in Int /\ t <= clock /\ hello[b].stamp \in Int
    BY DEF IInv, ShapeOK, TimedBound, StampBound
  <1>2. UNCHANGED <<clock, hello, of>> /\ now' \in [Conns -> Int]
    BY DEF IInv, ShapeOK
  <1>3. TimedBound' /\ StampBound'
    <2>1. \A d \in Conns : pc'[d] \in {"reading", "timed"} =>
             pc'[d] = pc[d] /\ now'[d] = now[d]
      BY DEF IInv, ShapeOK, Goes
    <2> QED
      BY <1>2, <2>1 DEF IInv, TimedBound, StampBound
  <1>4. pc' = [d \in Conns |-> pc'[d]]
    BY DEF IInv, ShapeOK, Goes
  <1>5. CASE ~Authentic(hello[b], t)
    BY <1>5, GoesQuiet
  <1>6. CASE Authentic(hello[b], t) /\ ~Fresh(b, t)
    <2>1. seen' = Remembered(t) /\ UNCHANGED admitted
      BY <1>6
    <2>2. ShapeOK'
      BY <1>2, <1>4, <2>1 DEF IInv, ShapeOK, Remembered
    <2>3. Spent'
      BY <1>1, <1>2, <2>1, EvictionIsSafe DEF IInv, Spent
    <2> QED
      BY <1>3, <2>1, <2>2, <2>3 DEF IInv, NoReplay
  <1>7. CASE Authentic(hello[b], t) /\ Fresh(b, t)
    <2>1. /\ seen' = Remembered(t) \cup {[blob |-> b, at |-> t]}
          /\ admitted' = [admitted EXCEPT ![b] = @ + 1]
      BY <1>7
    <2>2. ShapeOK'
      BY <1>1, <1>2, <1>4, <2>1 DEF IInv, ShapeOK, Remembered
    <2>3. Modest(hello[b]) =>
             ~Expired(b) /\ hello[b].stamp + Lag <= t + timeWindow
      BY <1>7, JudgedInTime
    <2>4. Modest(hello[b]) => admitted[b] = 0
      <3>1. SUFFICES ASSUME Modest(hello[b]), admitted[b] # 0
                     PROVE  FALSE
        OBVIOUS
      <3>2. PICK e \in seen : e.blob = b /\ hello[b].stamp + Lag <= e.at + timeWindow
        BY <1>1, <2>3, <3>1 DEF IInv, Spent, Held
      <3>3. e.at \in Int /\ t - e.at > ttl
        BY <1>1, <1>7, <3>2, TimesAssumption DEF IInv, ShapeOK, Fresh, Remembered, ttl
      <3> QED
        BY <1>1, <2>3, <3>1, <3>2, <3>3, TimesAssumption DEF IInv, ShapeOK, ttl, Expired
    <2>5. Modest(hello[b]) => Held(b)'
      <3> SUFFICES ASSUME Modest(hello[b])
                   PROVE  Held(b)'
        OBVIOUS
      <3> DEFINE e == [blob |-> b, at |-> t]
      <3>1. e \in seen' /\ e.blob = b /\ e.at = t
        BY <2>1
      <3>2. hello'[b].stamp + Lag <= e.at + timeWindow
        BY <1>2, <2>3
      <3> HIDE DEF e
      <3> QED
        BY <1>2, <3>1, <3>2 DEF Held
    <2>6. Spent'
      <3> SUFFICES ASSUME NEW h \in Hellos, admitted'[h] # 0
                   PROVE  /\ hello'[h] # None
                          /\ Modest(hello'[h]) => Held(h)' \/ Expired(h)'
        BY DEF Spent
      <3>1. CASE h = b
        BY <3>1, <1>1, <1>2, <2>5
      <3>2. CASE h # b
        <4>1. admitted[h] # 0
          BY <3>2, <2>1 DEF IInv, ShapeOK
        <4> QED
          BY <4>1, <1>1, <1>2, <2>1, EvictionIsSafe DEF IInv, Spent
      <3> QED
        BY <3>1, <3>2
    <2>7. NoReplay'
      <3>1. \A h \in Hellos : h # b => admitted'[h] = admitted[h]
        BY <2>1 DEF IInv, ShapeOK
      <3>2. Modest(hello[b]) => admitted'[b] = 1
        BY <1>1, <2>1, <2>4 DEF IInv, ShapeOK
      <3> QED
        BY <1>1, <1>2, <3>1, <3>2, TimesAssumption
           DEF IInv, NoReplay, StampBound, Modest
    <2> QED
      BY <1>3, <2>2, <2>6, <2>7 DEF IInv
  <1> QED
    BY <1>5, <1>6, <1>7

\* Time passes, at most Lag beyond a time that was read.
LEMMA TickStep ==
  ASSUME IInv, Tick
  PROVE  IInv'
  <1> USE TimesAssumption DEF Tick, conns
  <1>1. ShapeOK' /\ NoReplay'
    BY DEF IInv, ShapeOK, NoReplay
  <1>2. StampBound'
    BY DEF IInv, ShapeOK, StampBound
  <1>3. TimedBound'
    BY DEF IInv, ShapeOK, TimedBound
  <1>4. Spent'
    BY DEF IInv, ShapeOK, StampBound, Spent, Held, Expired
  <1> QED
    BY <1>1, <1>2, <1>3, <1>4 DEF IInv

\* Every step of the specification preserves the inductive invariant.
LEMMA StepIInv == IInv /\ [Next]_vars => IInv'
  <1> SUFFICES ASSUME IInv, [Next]_vars
               PROVE  IInv'
    OBVIOUS
  <1>1. ASSUME NEW h \in Hellos, DialReality(h)
        PROVE  IInv'
    <2>1. PICK v : /\ hello' = [hello EXCEPT ![h] = v]
                   /\ v.stamp \in Int /\ v.skew \in Int
                   /\ Modest(v) => v.stamp + Lag <= clock + timeWindow
      <3>1. PICK c \in Clients : \E key \in RandomPoolPublicKey(c) : \E skew \in Skews :
               hello' = [hello EXCEPT ![h] =
                 [kind |-> "sealed", key |-> key, sni |-> ClientSNI(c),
                  short |-> ParseShortID(c), stamp |-> clock + skew, skew |-> skew, client |-> c]]
        BY <1>1 DEF DialReality
      <3>2. PICK key \in RandomPoolPublicKey(c), skew \in Skews :
               hello' = [hello EXCEPT ![h] =
                 [kind |-> "sealed", key |-> key, sni |-> ClientSNI(c),
                  short |-> ParseShortID(c), stamp |-> clock + skew, skew |-> skew, client |-> c]]
        BY <3>1
      <3> DEFINE v == [kind |-> "sealed", key |-> key, sni |-> ClientSNI(c),
                       short |-> ParseShortID(c), stamp |-> clock + skew, skew |-> skew, client |-> c]
      <3>3. /\ v.stamp \in Int /\ v.skew \in Int
            /\ Modest(v) => v.stamp + Lag <= clock + timeWindow
        BY TimesAssumption DEF IInv, ShapeOK, Modest
      <3>4. hello' = [hello EXCEPT ![h] = v]
        BY <3>2
      <3> HIDE DEF v
      <3> QED
        BY <3>3, <3>4
    <2> QED
      BY <1>1, <2>1, NextIsNew, MintStep DEF DialReality
  <1>2. ASSUME NEW h \in Hellos, Probe(h)
        PROVE  IInv'
    <2>1. PICK v : /\ hello' = [hello EXCEPT ![h] = v]
                   /\ v.stamp \in Int /\ v.skew \in Int /\ v.kind # "sealed"
      <3>1. PICK kind \in {"browser", "noX25519", "split", "other"} :
               hello' = [hello EXCEPT ![h] =
                 [kind |-> kind, key |-> None, sni |-> DefaultRealitySNI,
                  short |-> None, stamp |-> 0, skew |-> 0, client |-> None]]
        BY <1>2 DEF Probe
      <3> DEFINE v == [kind |-> kind, key |-> None, sni |-> DefaultRealitySNI,
                       short |-> None, stamp |-> 0, skew |-> 0, client |-> None]
      <3>2. v.stamp \in Int /\ v.skew \in Int /\ v.kind # "sealed"
        OBVIOUS
      <3>3. hello' = [hello EXCEPT ![h] = v]
        BY <3>1
      <3> HIDE DEF v
      <3> QED
        BY <3>2, <3>3
    <2> QED
      BY <1>2, <2>1, NextIsNew, MintStep DEF Probe
  <1>3. ASSUME NEW c \in Conns, Step(c)
        PROVE  IInv'
    <2>1. CASE ReadFails(c)
      BY <2>1, ClosesQuiet DEF ReadFails
    <2>2. CASE ReadRecord(c)
      BY <2>2, ReadRecordStep
    <2>3. CASE authenticate(c)
      BY <2>3, AuthenticateStep
    <2>4. CASE Serve(c)
      BY <2>4, ClosesQuiet, GoesQuiet DEF Serve
    <2>5. CASE DialDest(c)
      BY <2>5, ClosesQuiet, GoesQuiet DEF DialDest
    <2>6. CASE SpliceEnds(c)
      BY <2>6, GoesQuiet DEF SpliceEnds
    <2>7. CASE \/ \E peer \in Peers : Reset(c, peer)
               \/ \E d \in Ends : Pipe(c, d) \/ PeerSends(c, d) \/ PeerEnds(c, d)
      <3>1. UNCHANGED <<clock, hello, pc, of, now, seen, admitted>>
        BY <2>7 DEF Reset, Pipe, PeerSends, PeerEnds
      <3> QED
        BY <3>1, QuietStep DEF IInv, ShapeOK
    <2>8. CASE Returns(c)
      BY <2>8, ClosesQuiet DEF Returns
    <2> QED
      BY <1>3, <2>1, <2>2, <2>3, <2>4, <2>5, <2>6, <2>7, <2>8 DEF Step
  <1>4. CASE UNCHANGED vars
    BY <1>4, QuietStep DEF vars, conns, IInv, ShapeOK
  <1> QED
    BY <1>1, <1>2, <1>3, <1>4, AcceptStep, TickStep DEF Next

\* The invariant holds throughout.
THEOREM Invariance == Spec => []IInv
  BY InitIInv, StepIInv, PTL DEF Spec

\* replayCache.fresh (reality_server.go): whatever is sent again, and whichever
\* connection drops which entry when, no hello is let in twice whose sender's
\* clock ran ahead by at most the window less the delay before `fresh`.
THEOREM NoHelloTwice == Spec => []NoReplay
  <1>1. IInv => NoReplay
    BY DEF IInv
  <1> QED
    BY <1>1, Invariance, PTL

-------------------------------------------------------------------------------
(* The splice.  A direction that is done lost a peer, or its sender had ended   *)
(* and everything was handed on; nobody sends after that, until the           *)
(* connection is a new one.                                                   *)

Flow == [sent : Nat, moved : Nat, ended : BOOLEAN, done : BOOLEAN]

Drained(s) == s.ended /\ s.moved = s.sent

SpliceInv ==
    /\ pc = [c \in Conns |-> pc[c]] /\ lost = [c \in Conns |-> lost[c]]
    /\ pipe \in [Conns -> [Ends -> Flow]]
    /\ \A c \in Conns, d \in Ends :
         /\ pipe[c][d].done =>
               pc[c] \in {"splice", "over"} /\ (lost[c] # {} \/ Drained(pipe[c][d]))
         /\ pc[c] = "over" => pipe[c][d].done

\* A connection that is not spliced moves on, and not past the splice.
LEMMA SpliceMoves ==
  ASSUME SpliceInv, NEW c \in Conns, NEW to, to # "over",
         pc[c] \notin {"splice", "over"}, Goes(c, to), UNCHANGED <<pipe, lost>>
  PROVE  SpliceInv'
  BY DEF SpliceInv, Goes

\* A connection whose streams are set back.
LEMMA SpliceOpens ==
  ASSUME SpliceInv, NEW c \in Conns, NEW to, to # "over", Goes(c, to),
         NEW f \in [Ends -> Nat],
         pipe' = [pipe EXCEPT ![c] = [d \in Ends |-> Stream(f[d])]],
         lost' = [b \in Conns |-> lost'[b]],
         \A b \in Conns \ {c} : lost'[b] = lost[b]
  PROVE  SpliceInv'
  <1>1. \A n \in Nat : Stream(n) \in Flow /\ ~Stream(n).done
    BY DEF Stream, Flow
  <1>2. pipe' \in [Conns -> [Ends -> Flow]]
    BY <1>1 DEF SpliceInv
  <1>3. \A b \in Conns \ {c} : pipe'[b] = pipe[b] /\ pc'[b] = pc[b]
    BY DEF SpliceInv, Goes
  <1>4. \A d \in Ends : ~pipe'[c][d].done
    BY <1>1 DEF SpliceInv
  <1>5. pc' = [b \in Conns |-> pc'[b]] /\ pc'[c] = to
    BY DEF SpliceInv, Goes
  <1> QED
    BY <1>2, <1>3, <1>4, <1>5 DEF SpliceInv

\* One stream changes in one connection.
LEMMA StreamChanges ==
  ASSUME SpliceInv, NEW c \in Conns, NEW d \in Ends, NEW s \in Flow,
         pipe' = [pipe EXCEPT ![c] = [@ EXCEPT ![d] = s]], UNCHANGED lost,
         \/ UNCHANGED pc
         \/ pc[c] \notin {"splice", "over"} /\ \E to : to # "over" /\ Goes(c, to),
         s.done => pc[c] \in {"splice", "over"} /\ (lost[c] # {} \/ Drained(s)),
         pc[c] = "over" => s.done
  PROVE  SpliceInv'
  <1>1. pipe' \in [Conns -> [Ends -> Flow]]
    BY DEF SpliceInv
  <1>2. \A b \in Conns, e \in Ends :
           pipe'[b][e] = IF b = c /\ e = d THEN s ELSE pipe[b][e]
    BY DEF SpliceInv
  <1>3. pc' = [b \in Conns |-> pc'[b]]
    BY DEF SpliceInv, Goes
  <1>4. \A b \in Conns :
           \/ pc'[b] = pc[b]
           \/ b = c /\ pc[b] \notin {"splice", "over"} /\ pc'[b] # "over"
    BY DEF SpliceInv, Goes
  <1> QED
    BY <1>1, <1>2, <1>3, <1>4 DEF SpliceInv

\* Any number added up in a stream of type Flow leaves it one.
LEMMA FlowFields ==
  ASSUME NEW s \in Flow, NEW n \in Nat
  PROVE  /\ [s EXCEPT !.sent = n] \in Flow /\ [s EXCEPT !.moved = n] \in Flow
         /\ [s EXCEPT !.ended = TRUE] \in Flow /\ [s EXCEPT !.done = TRUE] \in Flow
  BY DEF Flow

\* Pipe, PeerSends, PeerEnds and the write in DialDest change one stream.
LEMMA SpliceStep == SpliceInv /\ [Next]_vars => SpliceInv'
  <1> SUFFICES ASSUME SpliceInv, [Next]_vars
               PROVE  SpliceInv'
    OBVIOUS
  <1>a. \A n \in Nat : n + 1 \in Nat
    OBVIOUS
  <1>t. \A c \in Conns, d \in Ends :
           /\ pipe[c][d] \in Flow /\ pipe[c][d].sent \in Nat /\ pipe[c][d].moved \in Nat
    BY DEF SpliceInv, Flow
  <1>1. ASSUME NEW c \in Conns, NEW h \in Hellos, Accept(c, h)
        PROVE  SpliceInv'
    <2> DEFINE f == [d \in Ends |-> IF d = Up THEN 1 ELSE 0]
    <2>1. f \in [Ends -> Nat] /\ \A d \in Ends : f[d] = IF d = Up THEN 1 ELSE 0
      OBVIOUS
    <2>2. pipe' = [pipe EXCEPT ![c] = [d \in Ends |-> Stream(f[d])]]
      BY <1>1, <2>1 DEF Accept
    <2> HIDE DEF f
    <2>3. lost' = [b \in Conns |-> lost'[b]] /\ \A b \in Conns \ {c} : lost'[b] = lost[b]
      BY <1>1 DEF Accept, SpliceInv
    <2>4. pc' = [pc EXCEPT ![c] = "reading"] /\ \A d \in Ends : ~Stream(f[d]).done
      BY <1>1 DEF Accept, Stream
    <2> QED
      BY <2>1, <2>2, <2>3, <2>4, SpliceOpens DEF Goes
  <1>2. ASSUME NEW c \in Conns, Closes(c)
        PROVE  SpliceInv'
    <2> DEFINE f == [d \in Ends |-> 0]
    <2>1. f \in [Ends -> Nat] /\ \A d \in Ends : f[d] = 0
      OBVIOUS
    <2>2. pipe' = [pipe EXCEPT ![c] = [d \in Ends |-> Stream(f[d])]]
      BY <1>2, <2>1 DEF Closes
    <2> HIDE DEF f
    <2>3. lost' = [b \in Conns |-> lost'[b]] /\ \A b \in Conns \ {c} : lost'[b] = lost[b]
      BY <1>2 DEF Closes, SpliceInv
    <2> QED
      BY <1>2, <2>1, <2>2, <2>3, SpliceOpens DEF Closes
  <1>3. ASSUME NEW c \in Conns, DialDest(c), ~Closes(c)
        PROVE  SpliceInv'
    <2> DEFINE n == RecordUnits(hello[of[c]].kind)
               s == [pipe[c][Up] EXCEPT !.moved = n]
    <2>1. n \in Nat
      BY DEF RecordUnits
    <2>2. Up \in Ends
      BY DEF Ends
    <2>3. pipe' = [pipe EXCEPT ![c] = [@ EXCEPT ![Up] = s]]
      BY <1>3 DEF DialDest
    <2>4. s \in Flow
      BY <1>t, <2>1, <2>2, FlowFields
    <2>5. pc[c] = "dial" /\ UNCHANGED lost /\ Goes(c, "splice")
      BY <1>3 DEF DialDest
    <2>6. ~s.done
      BY <1>t, <2>2, <2>5 DEF SpliceInv, Flow
    <2> HIDE DEF s
    <2> QED
      BY <2>2, <2>3, <2>4, <2>5, <2>6, StreamChanges
  <1>4. ASSUME NEW c \in Conns, NEW d \in Ends, Pipe(c, d)
        PROVE  SpliceInv'
    <2>1. /\ pc[c] = "splice" /\ UNCHANGED <<pc, lost>> /\ ~pipe[c][d].done
      BY <1>4 DEF Pipe, Moves
    <2>2. CASE pipe' = [pipe EXCEPT ![c][d].moved = @ + 1]
      <3> DEFINE s == [pipe[c][d] EXCEPT !.moved = pipe[c][d].moved + 1]
      <3>1. pipe' = [pipe EXCEPT ![c] = [@ EXCEPT ![d] = s]]
        BY <2>2
      <3>2. s \in Flow
        BY <1>a, <1>t, FlowFields
      <3>3. ~s.done
        BY <1>t, <2>1 DEF Flow
      <3> HIDE DEF s
      <3> QED
        BY <2>1, <3>1, <3>2, <3>3, StreamChanges
    <2>3. CASE /\ CopyEnds(c, d)
               /\ pipe' = [pipe EXCEPT ![c][d].done = TRUE]
      <3> DEFINE s == [pipe[c][d] EXCEPT !.done = TRUE]
      <3>1. pipe' = [pipe EXCEPT ![c] = [@ EXCEPT ![d] = s]]
        BY <2>3
      <3>2. s \in Flow
        BY <1>t, FlowFields
      <3>3. lost[c] # {} \/ Drained(s)
        BY <1>t, <2>3 DEF Flow, Drained, CopyEnds
      <3> HIDE DEF s
      <3> QED
        BY <2>1, <3>1, <3>2, <3>3, StreamChanges
    <2> QED
      BY <1>4, <2>2, <2>3 DEF Pipe, Moves
  <1>5. ASSUME NEW c \in Conns, NEW d \in Ends, PeerSends(c, d)
        PROVE  SpliceInv'
    <2> DEFINE s == [pipe[c][d] EXCEPT !.sent = pipe[c][d].sent + 1]
    <2>1. /\ pc[c] # "over" /\ UNCHANGED <<pc, lost>> /\ ~pipe[c][d].ended
          /\ pipe' = [pipe EXCEPT ![c][d].sent = @ + 1]
      BY <1>5 DEF PeerSends, Speaks
    <2>5. UNCHANGED pc /\ UNCHANGED lost
      BY <2>1
    <2>2. pipe' = [pipe EXCEPT ![c] = [@ EXCEPT ![d] = s]]
      BY <2>1
    <2>3. s \in Flow
      BY <1>a, <1>t, FlowFields
    <2>4. s.done => pc[c] \in {"splice", "over"} /\ (lost[c] # {} \/ Drained(s))
      BY <1>t, <2>1 DEF SpliceInv, Flow, Drained
    <2> HIDE DEF s
    <2> QED
      BY <2>1, <2>2, <2>3, <2>4, <2>5, StreamChanges
  <1>6. ASSUME NEW c \in Conns, NEW d \in Ends, PeerEnds(c, d)
        PROVE  SpliceInv'
    <2> DEFINE s == [pipe[c][d] EXCEPT !.ended = TRUE]
    <2>1. /\ pc[c] = "splice" /\ UNCHANGED <<pc, lost>>
          /\ pipe' = [pipe EXCEPT ![c][d].ended = TRUE]
      BY <1>6 DEF PeerEnds
    <2>2. pipe' = [pipe EXCEPT ![c] = [@ EXCEPT ![d] = s]]
      BY <2>1
    <2>3. s \in Flow
      BY <1>t, FlowFields
    <2>4. s.done => lost[c] # {} \/ Drained(s)
      BY <1>t DEF SpliceInv, Flow, Drained
    <2>5. /\ s.done => pc[c] \in {"splice", "over"} /\ (lost[c] # {} \/ Drained(s))
          /\ pc[c] = "over" => s.done
      BY <2>1, <2>4
    <2>6. UNCHANGED pc /\ UNCHANGED lost
      BY <2>1
    <2> HIDE DEF s
    <2> QED
      BY <2>2, <2>3, <2>5, <2>6, StreamChanges
  <1>7. ASSUME NEW c \in Conns, SpliceEnds(c)
        PROVE  SpliceInv'
    BY <1>7 DEF SpliceEnds, Goes, SpliceInv
  <1>8. ASSUME NEW c \in Conns, NEW peer \in Peers, Reset(c, peer)
        PROVE  SpliceInv'
    BY <1>8 DEF Reset, SpliceInv
  <1>9. ASSUME NEW c \in Conns,
               \/ authenticate(c) \/ ReadRecord(c) \/ Serve(c)
               \/ ReadFails(c) \/ Returns(c) \/ DialDest(c)
        PROVE  SpliceInv'
    <2>1. \/ Closes(c)
          \/ DialDest(c) /\ ~Closes(c)
          \/ /\ UNCHANGED <<pipe, lost>> /\ pc[c] \notin {"splice", "over"}
             /\ \E to : to # "over" /\ Goes(c, to)
      BY <1>9 DEF authenticate, ReadRecord, Serve, DialDest, ReadFails, Returns
    <2> QED
      BY <1>2, <1>3, <2>1, SpliceMoves
  <1>10. CASE UNCHANGED conns
    BY <1>10 DEF conns, SpliceInv
  <1>11. \A h \in Hellos : DialReality(h) \/ Probe(h) => UNCHANGED conns
    BY DEF DialReality, Probe
  <1>12. (Tick \/ UNCHANGED vars) => UNCHANGED conns
    BY DEF Tick, vars
  <1> QED
    BY <1>1, <1>4, <1>5, <1>6, <1>7, <1>8, <1>9, <1>10, <1>11, <1>12 DEF Next, Step

\* realityFallback: when a splice is over and neither of its connections was
\* reset, both directions have handed on all that was sent, the record that
\* was read first and written to the site included.
THEOREM SpliceDelivers == Spec => []NothingCutOff
  <1>1. Init => SpliceInv
    BY DEF Init, SpliceInv, Stream, Flow
  <1>2. SpliceInv => NothingCutOff
    BY DEF SpliceInv, NothingCutOff, Drained
  <1> QED
    BY <1>1, <1>2, SpliceStep, PTL DEF Spec

-------------------------------------------------------------------------------
(* The genuine client.  A sealed hello carries what its client's              *)
(* configuration gives it, so a server that suits the client finds the name,  *)
(* the key and the short ID among its own; and the cache never refuses a blob *)
(* that was not let in before.                                                *)

SealedAs(h) ==
    h.kind = "sealed" => /\ h.key \in RandomPoolPublicKey(h.client)
                         /\ h.sni = ClientSNI(h.client)
                         /\ h.short = ParseShortID(h.client)

Judged(c) == pc[c] \in {"dial", "splice", "over"}

Accounted(c) ==
    LET h == hello[of[c]] IN
    (/\ h.kind = "sealed" /\ Suits(h.client)
     /\ Abs(now[c] - h.stamp) <= timeWindow) => admitted[of[c]] >= 1

GenuineInv ==
    /\ \A h \in Hellos : hello[h] # None => SealedAs(hello[h])
    /\ \A e \in seen : e.blob \in Hellos /\ admitted[e.blob] >= 1
    /\ \A c \in Conns : Judged(c) =>
         of[c] \in Hellos /\ hello[of[c]] # None /\ Accounted(c)

\* A server that suits the client allows its name.
LEMMA SuitedName ==
  ASSUME NEW h, h.kind = "sealed", SealedAs(h), Suits(h.client)
  PROVE  /\ parseClientHelloRecord(h.kind) /\ parseKeyShareX25519(h.kind)
         /\ sniAllowed(h.sni)
  BY DEF SealedAs, Suits, parseClientHelloRecord, parseKeyShareX25519, sniAllowed,
         ServerNames, ClientSNI

\* ... has the key the blob was sealed for, and allows its short ID.
LEMMA SuitedAuthentic ==
  ASSUME NEW h, NEW t, h.kind = "sealed", SealedAs(h), Suits(h.client),
         Abs(t - h.stamp) <= timeWindow
  PROVE  Authentic(h, t)
  <1>1. h.key \in ToSet(ServerKeys)
    BY DEF SealedAs, Suits, RandomPoolPublicKey, ServerKeys, ToSet
  <1>2. SomeKeyOpens(h)
    BY <1>1 DEF ToSet, SomeKeyOpens, openRealityAuth
  <1>3. shortIDAllowed(h)
    BY DEF SealedAs, Suits, shortIDAllowed, ShortIDs, ParseShortID
  <1> QED
    BY <1>2, <1>3 DEF Authentic

\* Steps that change no hello and let nobody in: what matters is which
\* connections come out as judged.
LEMMA GenuineQuiet ==
  ASSUME IInv, GenuineInv, UNCHANGED <<server, hello, seen, admitted>>,
         \A c \in Conns : Judged(c)' =>
            \/ Judged(c) /\ of'[c] = of[c] /\ now'[c] = now[c]
            \/ of'[c] \in Hellos /\ hello[of'[c]] # None /\ Accounted(c)'
  PROVE  GenuineInv'
  <1>1. \A h \in Hellos : hello'[h] # None => SealedAs(hello[h])'
    BY DEF GenuineInv, SealedAs, RandomPoolPublicKey, ClientSNI, ParseShortID
  <1>2. \A e \in seen' : e.blob \in Hellos /\ admitted'[e.blob] >= 1
    BY DEF GenuineInv
  <1>3. ASSUME NEW c \in Conns, Judged(c)'
        PROVE  of'[c] \in Hellos /\ hello'[of'[c]] # None /\ Accounted(c)'
    BY <1>3 DEF GenuineInv, Accounted, Suits
  <1> QED
    BY <1>1, <1>2, <1>3 DEF GenuineInv

\* A new hello: no connection has it yet.
LEMMA GenuineMints ==
  ASSUME IInv, GenuineInv, NEW h \in Hellos, hello[h] = None, NEW v,
         hello' = [hello EXCEPT ![h] = v], SealedAs(v),
         UNCHANGED <<server, conns, seen, admitted>>
  PROVE  GenuineInv'
  <1>1. \A g \in Hellos : hello[g] # None => hello'[g] = hello[g]
    BY DEF IInv, ShapeOK
  <1>2. \A g \in Hellos : hello'[g] # None => SealedAs(hello[g])'
    <2> TAKE g \in Hellos
    <2>1. hello'[g] = IF g = h THEN v ELSE hello[g]
      BY DEF IInv, ShapeOK
    <2> QED
      BY <2>1 DEF GenuineInv, SealedAs, RandomPoolPublicKey, ClientSNI, ParseShortID
  <1>3. \A e \in seen' : e.blob \in Hellos /\ admitted'[e.blob] >= 1
    BY DEF GenuineInv
  <1>4. ASSUME NEW c \in Conns, Judged(c)'
        PROVE  of'[c] \in Hellos /\ hello'[of'[c]] # None /\ Accounted(c)'
    <2>1. UNCHANGED <<pc, of, now>> /\ Judged(c)
      BY <1>4 DEF conns, Judged
    <2>2. of[c] \in Hellos /\ hello[of[c]] # None /\ Accounted(c)
      BY <2>1 DEF GenuineInv
    <2>3. hello'[of'[c]] = hello[of[c]]
      BY <1>1, <2>1, <2>2
    <2> QED
      BY <2>1, <2>2, <2>3 DEF Accounted, Suits
  <1> QED
    BY <1>2, <1>3, <1>4 DEF GenuineInv

\* The record is in: a hello that suits the server is worth a trial.
LEMMA GenuineRead ==
  ASSUME IInv, GenuineInv, NEW c \in Conns, ReadRecord(c)
  PROVE  GenuineInv'
  <1>1. of[c] \in Hellos /\ hello[of[c]] # None
    BY DEF IInv, TimedBound, ReadRecord
  <1>2. UNCHANGED <<server, hello, of, seen, admitted>>
    BY DEF ReadRecord
  <1>3. SealedAs(hello[of[c]])
    BY <1>1 DEF GenuineInv
  <1>4. ASSUME NEW b \in Conns \ {c}, Judged(b)'
        PROVE  Judged(b) /\ of'[b] = of[b] /\ now'[b] = now[b]
    BY <1>4, <1>2 DEF ReadRecord, Goes, Judged, IInv, ShapeOK
  <1>5. ASSUME Judged(c)'
        PROVE  Accounted(c)'
    <2>1. ~ (/\ parseClientHelloRecord(hello[of[c]].kind)
             /\ parseKeyShareX25519(hello[of[c]].kind) /\ sniAllowed(hello[of[c]].sni))
      BY <1>5 DEF ReadRecord, Goes, Judged, IInv, ShapeOK
    <2>2. ~ (hello[of[c]].kind = "sealed" /\ Suits(hello[of[c]].client))
      BY <1>3, <2>1, SuitedName
    <2> QED
      BY <1>2, <2>2 DEF Accounted, Suits
  <1> QED
    BY <1>1, <1>2, <1>4, <1>5, GenuineQuiet

\* The verdict: refused are only hellos that are not authentic or were let in.
LEMMA GenuineJudged ==
  ASSUME IInv, GenuineInv, NEW c \in Conns, authenticate(c)
  PROVE  GenuineInv'
  <1> DEFINE b == of[c]
             t == now[c]
  <1>1. b \in Hellos /\ hello[b] # None /\ SealedAs(hello[b])
    BY DEF IInv, TimedBound, GenuineInv, authenticate
  <1>2. UNCHANGED <<server, hello, of>>
    BY DEF authenticate
  <1>3. /\ \A a \in Conns \ {c} : pc'[a] = pc[a] /\ now'[a] = now[a]
        /\ pc'[c] = "dial" => now'[c] = now[c]
    BY DEF authenticate, Goes, IInv, ShapeOK
  <1>4. pc'[c] = "handshake" \/ pc'[c] = "dial"
    BY DEF authenticate, Goes, IInv, ShapeOK
  <1>5. \A h \in Hellos : admitted[h] \in Nat
    BY DEF IInv, ShapeOK
  <1>6. \A h \in Hellos : admitted'[h] >= admitted[h]
    <2>1. UNCHANGED admitted \/ admitted' = [admitted EXCEPT ![b] = @ + 1]
      BY DEF authenticate
    <2> QED
      BY <1>5, <2>1 DEF IInv, ShapeOK
  <1>7. \A h \in Hellos : admitted'[h] \in Nat
    <2>1. UNCHANGED admitted \/ admitted' = [admitted EXCEPT ![b] = @ + 1]
      BY DEF authenticate
    <2> QED
      BY <1>5, <2>1 DEF IInv, ShapeOK
  <1>8. \A e \in seen' : e.blob \in Hellos /\ admitted'[e.blob] >= 1
    <2>1. CASE seen' \subseteq seen
      <3> SUFFICES ASSUME NEW e \in seen'
                   PROVE  e.blob \in Hellos /\ admitted'[e.blob] >= 1
        OBVIOUS
      <3>1. e.blob \in Hellos /\ admitted[e.blob] >= 1
        BY <2>1 DEF GenuineInv
      <3> QED
        BY <3>1, <1>5, <1>6, <1>7
    <2>2. CASE /\ seen' = Remembered(t) \cup {[blob |-> b, at |-> t]}
               /\ admitted' = [admitted EXCEPT ![b] = @ + 1]
      <3> SUFFICES ASSUME NEW e \in seen'
                   PROVE  e.blob \in Hellos /\ admitted'[e.blob] >= 1
        OBVIOUS
      <3>1. CASE e \in seen
        <4>1. e.blob \in Hellos /\ admitted[e.blob] >= 1
          BY <3>1 DEF GenuineInv
        <4> QED
          BY <4>1, <1>5, <1>6, <1>7
      <3>2. CASE e = [blob |-> b, at |-> t]
        BY <3>2, <1>1, <1>5, <2>2 DEF IInv, ShapeOK
      <3> QED
        BY <2>2, <3>1, <3>2 DEF Remembered
    <2> QED
      BY <2>1, <2>2 DEF authenticate, Remembered
  <1>9. ASSUME NEW a \in Conns, Judged(a)'
        PROVE  of'[a] \in Hellos /\ hello'[of'[a]] # None /\ Accounted(a)'
    <2>1. CASE a # c
      <3>1. of[a] \in Hellos /\ hello[of[a]] # None /\ Accounted(a)
        BY <1>3, <1>9, <2>1 DEF GenuineInv, Judged
      <3>2. admitted[of[a]] >= 1 => admitted'[of[a]] >= 1
        BY <1>5, <1>6, <1>7, <3>1
      <3> QED
        BY <1>2, <1>3, <2>1, <3>1, <3>2 DEF Accounted, Suits
    <2>2. CASE a = c
      <3>1. pc'[c] = "dial"
        BY <1>4, <1>9, <2>2 DEF Judged
      <3>2. ~Authentic(hello[b], t) \/ ~Fresh(b, t)
        BY <3>1 DEF authenticate, Goes, IInv, ShapeOK
      <3>3. CASE ~Authentic(hello[b], t)
        <4>1. ~ (/\ hello[b].kind = "sealed" /\ Suits(hello[b].client)
                 /\ Abs(t - hello[b].stamp) <= timeWindow)
          BY <1>1, <3>3, SuitedAuthentic
        <4> QED
          BY <1>1, <1>2, <1>3, <2>2, <3>1, <4>1 DEF Accounted, Suits
      <3>4. CASE ~Fresh(b, t)
        <4>1. PICK e \in seen : e.blob = b
          BY <3>4 DEF Fresh, Remembered
        <4>2. admitted[b] >= 1
          BY <4>1 DEF GenuineInv
        <4>3. admitted'[b] >= 1
          BY <1>1, <1>5, <1>6, <1>7, <4>2
        <4> QED
          BY <1>1, <1>2, <1>3, <2>2, <3>1, <4>3 DEF Accounted
      <3> QED
        BY <3>2, <3>3, <3>4
    <2> QED
      BY <2>1, <2>2
  <1>10. \A h \in Hellos : hello'[h] # None => SealedAs(hello[h])'
    BY <1>2 DEF GenuineInv, SealedAs, RandomPoolPublicKey, ClientSNI, ParseShortID
  <1> QED
    BY <1>8, <1>9, <1>10 DEF GenuineInv

\* Connections arrive, are read, judged, served and spliced.
LEMMA GenuineStep == IInv /\ GenuineInv /\ [Next]_vars => GenuineInv'
  <1> SUFFICES ASSUME IInv, GenuineInv, [Next]_vars
               PROVE  GenuineInv'
    OBVIOUS
  <1>1. ASSUME NEW h \in Hellos, DialReality(h)
        PROVE  GenuineInv'
    <2>0. PICK c \in Clients : \E key \in RandomPoolPublicKey(c) : \E skew \in Skews :
             hello' = [hello EXCEPT ![h] =
               [kind |-> "sealed", key |-> key, sni |-> ClientSNI(c),
                short |-> ParseShortID(c), stamp |-> clock + skew, skew |-> skew, client |-> c]]
      BY <1>1 DEF DialReality
    <2>1. PICK key \in RandomPoolPublicKey(c), skew \in Skews :
             hello' = [hello EXCEPT ![h] =
               [kind |-> "sealed", key |-> key, sni |-> ClientSNI(c),
                short |-> ParseShortID(c), stamp |-> clock + skew, skew |-> skew, client |-> c]]
      BY <2>0
    <2> DEFINE v == [kind |-> "sealed", key |-> key, sni |-> ClientSNI(c),
                     short |-> ParseShortID(c), stamp |-> clock + skew, skew |-> skew, client |-> c]
    <2>2. v.key = key /\ v.client = c /\ v.sni = ClientSNI(c) /\ v.short = ParseShortID(c)
      OBVIOUS
    <2>3. hello' = [hello EXCEPT ![h] = v]
      BY <2>1
    <2> HIDE DEF v
    <2>4. SealedAs(v)
      BY <2>2 DEF SealedAs
    <2> QED
      BY <1>1, <2>3, <2>4, NextIsNew, GenuineMints DEF DialReality
  <1>2. ASSUME NEW h \in Hellos, Probe(h)
        PROVE  GenuineInv'
    <2>1. PICK kind \in {"browser", "noX25519", "split", "other"} :
             hello' = [hello EXCEPT ![h] =
               [kind |-> kind, key |-> None, sni |-> DefaultRealitySNI,
                short |-> None, stamp |-> 0, skew |-> 0, client |-> None]]
      BY <1>2 DEF Probe
    <2> DEFINE v == [kind |-> kind, key |-> None, sni |-> DefaultRealitySNI,
                     short |-> None, stamp |-> 0, skew |-> 0, client |-> None]
    <2>2. v.kind # "sealed"
      OBVIOUS
    <2>3. hello' = [hello EXCEPT ![h] = v]
      BY <2>1
    <2> HIDE DEF v
    <2>4. SealedAs(v)
      BY <2>2 DEF SealedAs
    <2> QED
      BY <1>2, <2>3, <2>4, NextIsNew, GenuineMints DEF Probe
  <1>3. ASSUME NEW c \in Conns,
               \/ \E h \in Hellos : Accept(c, h)
               \/ ReadFails(c) \/ Serve(c) \/ DialDest(c) \/ SpliceEnds(c) \/ Returns(c)
               \/ \E peer \in Peers : Reset(c, peer)
               \/ \E d \in Ends : Pipe(c, d) \/ PeerSends(c, d) \/ PeerEnds(c, d)
        PROVE  GenuineInv'
    <2>1. UNCHANGED <<server, hello, seen, admitted>>
      BY <1>3 DEF Accept, ReadFails, Serve, DialDest, SpliceEnds, Returns, Reset, Pipe,
                  PeerSends, PeerEnds
    <2>2. \/ UNCHANGED pc /\ UNCHANGED of /\ UNCHANGED now
          \/ \E to : /\ to \in {"reading", "open"} /\ pc' = [pc EXCEPT ![c] = to]
                     /\ \A a \in Conns \ {c} : of'[a] = of[a] /\ now'[a] = now[a]
          \/ /\ pc[c] \in {"dial", "splice"} /\ UNCHANGED of /\ UNCHANGED now
             /\ \E to : pc' = [pc EXCEPT ![c] = to]
          \/ Closes(c)
      BY <1>3 DEF Accept, ReadFails, Serve, DialDest, SpliceEnds, Returns, Reset, Pipe,
                  PeerSends, PeerEnds, Goes, IInv, ShapeOK
    <2>3. ASSUME NEW a \in Conns, Judged(a)'
          PROVE  Judged(a) /\ of'[a] = of[a] /\ now'[a] = now[a]
      BY <2>2, <2>3 DEF Judged, Closes, Goes, IInv, ShapeOK
    <2> QED
      BY <2>1, <2>3, GenuineQuiet
  <1>4. CASE Tick \/ UNCHANGED vars
    <2>1. UNCHANGED <<server, hello, seen, admitted, pc, of, now>>
      BY <1>4 DEF Tick, vars, conns
    <2> QED
      BY <2>1, GenuineQuiet DEF Judged
  <1> QED
    BY <1>1, <1>2, <1>3, <1>4, GenuineRead, GenuineJudged DEF Next, Step

\* AcceptReality and authenticate: a client whose configuration suits the
\* server's is let in the first time its hello is judged on time.
THEOREM GenuineLetIn == Spec => []GenuineAdmitted
  <1>1. Init => GenuineInv
    BY DEF Init, GenuineInv, Judged
  <1>2. GenuineInv => GenuineAdmitted
    BY DEF GenuineInv, Accounted, Judged, GenuineAdmitted
  <1> QED
    BY <1>1, <1>2, GenuineStep, Invariance, PTL DEF Spec
===============================================================================
