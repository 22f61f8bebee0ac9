------------------------------- MODULE FecPipe --------------------------------
(***************************************************************************)
(* One direction of a session's data stream: the sender's fec.Pipe (encoder *)
(* and delayed repair sender), the paths of the dual-path transport, and    *)
(* the receiver's decoder with its stale-block flush.  Frames are named by  *)
(* the <<blockID, pktIdx>> the encoder gives them; Reed-Solomon and XOR are *)
(* external and abstracted to what they promise, that K of the K + R        *)
(* packets of a block determine the others.                                 *)
(*                                                                          *)
(* A path hands each packet to the decoder at most once (its replay window  *)
(* drops repeats) and in any order; a packet that is never taken from a     *)
(* path is lost.  The client's two receive loops keep a window each, so     *)
(* they are two paths; the server's share one and are a single path.        *)
(***************************************************************************)
EXTENDS Integers, Sequences, FiniteSets

CONSTANTS
    K, R,            \* data and repair packets per block
    maxOldBlocks,    \* block distance after which a block may expire (8)
    flushAge,        \* ticks of silence before a gap is skipped (200 ms)
    blockKeepAge,    \* ticks of silence before a block may expire (2 s)
    Paths,           \* the receive loops with a replay window of their own
    Carried,         \* bound: the packets each path does not lose at once
    repairCap,       \* capacity of repairCh; 0: repairDelay is not configured
    MaxBlock,        \* bound: the highest block the sender starts
    MaxSends         \* bound: the number of frames sent

ASSUME FecAssumption ==
    /\ K \in Nat \ {0} /\ R \in Nat
    /\ maxOldBlocks \in Nat /\ repairCap \in Nat
    /\ flushAge \in Nat \ {0} /\ blockKeepAge \in Nat /\ flushAge <= blockKeepAge
    /\ MaxBlock \in Nat /\ MaxSends \in Nat

VARIABLES
    encBlock,    \* e.blockID
    encFill,     \* len(e.buf)
    pktIdx,      \* p.pktIdx
    sends,       \* frames sent so far
    repairCh,    \* p.repairCh: blocks whose repair packets wait for their delay
    net,         \* per path, the packets that are on their way
    blocks,      \* d.blocks
    maxSeen,     \* d.maxSeen
    minBlockID,  \* d.minBlockID
    pending,     \* frames decoded and not handed on yet: orderMu is held
    out,         \* the frames handed on, in order
    inc          \* history: how often each block was expired

sender   == <<encBlock, encFill, pktIdx, sends, repairCh>>
decoder  == <<blocks, maxSeen, minBlockID, inc>>
vars     == <<sender, net, decoder, pending, out>>

Block == 0 .. MaxBlock
Slot  == 0 .. K - 1          \* data positions of a block
Rep   == 0 .. R - 1          \* repair positions of a block
Never == -1                  \* the zero lastActivity

Packet == [kind : {"data"}, blk : Block, idx : 0..MaxSends]
          \cup [kind : {"repair"}, blk : Block, idx : Rep]

\* A decBlock; live says whether the decoder's map has it.  data and repair are
\* the present flags, age the ticks since lastActivity.
DecBlock == [live : BOOLEAN, data : SUBSET Slot, repair : SUBSET Rep,
             delivered : 0..K, done : BOOLEAN, age : Nat \cup {Never}]

\* A block fresh from the pool, and one returned to it.
returnBlock == [live |-> FALSE, data |-> {}, repair |-> {},
                delivered |-> 0, done |-> FALSE, age |-> Never]

-------------------------------------------------------------------------------

Init ==
    /\ encBlock = 0 /\ encFill = 0 /\ pktIdx = 0 /\ sends = 0
    /\ repairCh = <<>>
    /\ net = [p \in Paths |-> {}]
    /\ blocks = [b \in Block |-> returnBlock]
    /\ maxSeen = 0 /\ minBlockID = 0
    /\ pending = {}
    /\ out = <<>>
    /\ inc = [b \in Block |-> 0]

\* sendData and sendRepair: every sealed packet is copied to all paths; what a
\* path does not carry is lost on it.
OnPaths(packets) == [p \in Paths |-> net[p] \cup (packets \cap Carried[p])]

Data(b, i) == [kind |-> "data", blk |-> b, idx |-> i]
Repairs(b) == {[kind |-> "repair", blk |-> b, idx |-> i] : i \in Rep}

\* Pipe.Send of a frame that does not fill its block.
SendData ==
    /\ sends < MaxSends /\ encFill + 1 < K
    /\ encFill' = encFill + 1
    /\ pktIdx' = pktIdx + 1
    /\ sends' = sends + 1
    /\ net' = OnPaths({Data(encBlock, pktIdx)})
    /\ UNCHANGED <<encBlock, repairCh, decoder, pending, out>>

\* Pipe.Send of the frame that fills its block.  Add returns the repairs, nil
\* when R = 0, and only a non-nil result resets pktIdx.  An error of sendData
\* (the primary transport failed) skips the repairs; otherwise they go to
\* repairCh, or straight out when it is full or no delay is configured.
SendLast(err) ==
    /\ sends < MaxSends /\ encFill + 1 = K /\ encBlock < MaxBlock
    /\ encFill' = 0
    /\ encBlock' = encBlock + 1
    /\ pktIdx' = IF R > 0 THEN 0 ELSE pktIdx + 1
    /\ sends' = sends + 1
    /\ LET queued == Len(repairCh) < repairCap
       IN /\ repairCh' = IF ~err /\ R > 0 /\ queued
                         THEN Append(repairCh, encBlock) ELSE repairCh
          /\ net' = OnPaths({Data(encBlock, pktIdx)}
                            \cup IF err \/ queued THEN {} ELSE Repairs(encBlock))
    /\ UNCHANGED <<decoder, pending, out>>

\* The goroutine of StartRepairSender: the oldest job, once its delay is over.
RepairSender ==
    /\ repairCh # <<>>
    /\ repairCh' = Tail(repairCh)
    /\ net' = OnPaths(Repairs(Head(repairCh)))
    /\ UNCHANGED <<encBlock, encFill, pktIdx, sends, decoder, pending, out>>

-------------------------------------------------------------------------------

Young(b) == blocks[b].live /\ blocks[b].age \in 0 .. blockKeepAge

\* Where expire() leaves minBlockID: it scans upwards, removing what is old, and
\* stops at the threshold or at the first block that is still young.
ExpireTo(seen) ==
    IF minBlockID >= seen - maxOldBlocks THEN minBlockID
    ELSE CHOOSE m \in minBlockID .. seen - maxOldBlocks :
            /\ m = seen - maxOldBlocks \/ Young(m)
            /\ \A n \in minBlockID .. m - 1 : ~ Young(n)

\* The blocks deleted when a packet of block b raises maxSeen.
Expired(b) ==
    IF b > maxSeen
    THEN {n \in minBlockID .. ExpireTo(b) - 1 : blocks[n].live}
    ELSE {}

\* Mutant of Recovered: one repair packet more than needed is waited for.
Recovered_OneMore(blk) ==
    LET missing == (blk.delivered .. K - 1) \ blk.data
    IN IF missing # {} /\ Cardinality(missing) < Cardinality(blk.repair)
       THEN Slot ELSE blk.data

\* tryRecover's repair of the gaps: all K slots once the repairs cover them.
Recovered(blk) ==
    LET missing == (blk.delivered .. K - 1) \ blk.data
    IN IF missing # {} /\ Cardinality(missing) <= Cardinality(blk.repair)
       THEN Slot ELSE blk.data

\* The end of the run of consecutive packets that starts at blk.delivered.
RunEnd(blk) ==
    CHOOSE n \in blk.delivered .. K :
        /\ n = K \/ n \notin blk.data
        /\ \A i \in blk.delivered .. n - 1 : i \in blk.data

\* tryRecover: repair what can be repaired, deliver what is in order.
tryRecover(blk) ==
    LET full == [blk EXCEPT !.data = Recovered(blk)]
        end  == RunEnd(full)
    IN [full EXCEPT !.delivered = end, !.done = (end = K)]

\* What add() makes of the (possibly new) block of a packet.
Added(pkt, blk) ==
    IF \/ blk.done
       \/ pkt.kind = "data"   /\ (pkt.idx \notin Slot \/ pkt.idx \in blk.data)
       \/ pkt.kind = "repair" /\ pkt.idx \in blk.repair
    THEN blk
    ELSE tryRecover([blk EXCEPT
            !.data   = IF pkt.kind = "data" THEN @ \cup {pkt.idx} ELSE @,
            !.repair = IF pkt.kind = "repair" THEN @ \cup {pkt.idx} ELSE @,
            !.age    = 0])

\* Mutant of Frames: the first frame of a run is left out.
Frames_SkipFirst(b, from, to) == {<<b, i>> : i \in from + 1 .. to - 1}

Frames(b, from, to) == {<<b, i>> : i \in from .. to - 1}

\* A receive loop takes a packet from its path and, holding orderMu, passes it
\* to the decoder; the frames it returns are handed on before orderMu is given
\* up.  A repair packet of a finished block is dropped before the decoder.
Recv(p, pkt) ==
    /\ pending = {}
    /\ pkt \in net[p]
    /\ net' = [net EXCEPT ![p] = @ \ {pkt}]
    /\ ~ (pkt.kind = "repair" /\ blocks[pkt.blk].done)
    /\ LET b    == pkt.blk
           gone == Expired(b)
           old  == [blocks[b] EXCEPT !.live = TRUE]
           new  == Added(pkt, old)
       IN /\ maxSeen' = IF b > maxSeen THEN b ELSE maxSeen
          /\ minBlockID' = IF b > maxSeen THEN ExpireTo(b) ELSE minBlockID
          /\ blocks' = [n \in Block |-> IF n = b THEN new
                                        ELSE IF n \in gone THEN returnBlock
                                        ELSE blocks[n]]
          /\ inc' = [n \in Block |-> IF n \in gone THEN inc[n] + 1 ELSE inc[n]]
          /\ pending' = Frames(b, old.delivered, new.delivered)
    /\ UNCHANGED <<sender, out>>

\* RepairBlockDone: the packet is skipped without being decrypted.
SkipRepair(p, pkt) ==
    /\ pkt \in net[p]
    /\ pkt.kind = "repair" /\ blocks[pkt.blk].done
    /\ net' = [net EXCEPT ![p] = @ \ {pkt}]
    /\ UNCHANGED <<sender, decoder, pending, out>>

\* Mutants of Stuck: any silence counts; a gap counts only if it is wider than one
\* packet.
Stuck_AnySilence(b) ==
    blocks[b].live /\ ~ blocks[b].done /\ blocks[b].age >= flushAge

Stuck_WideGap(b) ==
    /\ blocks[b].live /\ ~ blocks[b].done /\ blocks[b].age >= flushAge
    /\ \E i \in blocks[b].data : i > blocks[b].delivered + 1

\* Frames stuck behind a gap of a block that has been silent for flushAge.
Stuck(b) ==
    /\ blocks[b].live /\ ~ blocks[b].done /\ blocks[b].age >= flushAge
    /\ \E i \in blocks[b].data : i >= blocks[b].delivered

\* Mutant of FlushStale: the flushed blocks are not marked as delivered.
FlushStale_LeavesOpen ==
    /\ pending = {}
    /\ \E b \in Block : Stuck(b)
    /\ pending' = UNION {{<<b, i>> : i \in {j \in blocks[b].data :
                                              j >= blocks[b].delivered}}
                         : b \in {n \in Block : Stuck(n)}}
    /\ UNCHANGED <<sender, net, decoder, out>>

\* The StartFlush ticker, with orderMu held: FlushStale closes every stuck block
\* and returns the frames it skips ahead to.
FlushStale ==
    /\ pending = {}
    /\ \E b \in Block : Stuck(b)
    /\ pending' = UNION {{<<b, i>> : i \in {j \in blocks[b].data :
                                              j >= blocks[b].delivered}}
                         : b \in {n \in Block : Stuck(n)}}
    /\ blocks' = [b \in Block |->
                    IF Stuck(b)
                    THEN [blocks[b] EXCEPT !.delivered = K, !.done = TRUE]
                    ELSE blocks[b]]
    /\ UNCHANGED <<sender, net, maxSeen, minBlockID, out, inc>>

Before(f, g) == f[1] < g[1] \/ (f[1] = g[1] /\ f[2] <= g[2])

\* The loop that hands decoded frames on (hub.Forward or the downstream
\* channel), in the order in which the decoder listed them.
Deliver ==
    \E f \in pending :
        /\ \A g \in pending : Before(f, g)
        /\ pending' = pending \ {f}
        /\ out' = Append(out, <<f[1], f[2], inc[f[1]]>>)
        /\ UNCHANGED <<sender, net, decoder>>

\* Time passes for every block at once.  The flush ticker is fast against
\* blockKeepAge (50 ms against 2 s): a stuck block is flushed before another
\* tick.  Ages beyond blockKeepAge need not be told apart.
Tick ==
    /\ \A b \in Block : ~ Stuck(b)
    /\ \E b \in Block : blocks[b].age \in 0 .. blockKeepAge
    /\ blocks' = [b \in Block |->
                    IF blocks[b].age \in 0 .. blockKeepAge
                    THEN [blocks[b] EXCEPT !.age = @ + 1] ELSE blocks[b]]
    /\ UNCHANGED <<sender, net, maxSeen, minBlockID, pending, out, inc>>

Next ==
    \/ SendData
    \/ \E err \in BOOLEAN : SendLast(err)
    \/ RepairSender
    \/ \E p \in Paths : \E pkt \in net[p] : Recv(p, pkt) \/ SkipRepair(p, pkt)
    \/ FlushStale
    \/ Deliver
    \/ Tick

Spec == Init /\ [][Next]_vars

\* The receive loops, the flush ticker, the delivery loop and the clock keep
\* running; nothing obliges the network to hand a packet over.
FairSpec == /\ Spec
            /\ WF_vars(Deliver) /\ WF_vars(FlushStale) /\ WF_vars(Tick)
            /\ WF_vars(RepairSender)

-------------------------------------------------------------------------------

\* The type invariant: a block never holds K frames unsent, an index a frame is
\* handed on under is a slot of its block.
TypeOK ==
    /\ encBlock \in Block /\ encFill \in 0..K-1
    /\ pktIdx \in Nat /\ sends \in 0..MaxSends
    /\ repairCh \in Seq(Block)
    /\ net \in [Paths -> SUBSET Packet]
    /\ blocks \in [Block -> DecBlock]
    /\ maxSeen \in Block /\ minBlockID \in Block
    /\ pending \subseteq Block \X Slot
    /\ out \in Seq(Block \X Slot \X Nat)
    /\ inc \in [Block -> Nat]

\* While a block stays in the decoder's map its frames are handed on in strictly
\* increasing pktIdx, hence at most once, whatever arrives twice, late, out of
\* order, by recovery or by a stale flush: orderMu and the delivered counter at
\* work together.  A block that expired and came back counts anew.
OrderedWithinBlock ==
    \A m, n \in 1..Len(out) :
        m < n /\ out[m][1] = out[n][1] /\ out[m][3] = out[n][3]
            => out[m][2] < out[n][2]

\* Any K of the K + R packets of a block are enough: a block the decoder still
\* waits for holds fewer than K distinct packets.
AnyKSuffice ==
    \A b \in Block :
        blocks[b].live /\ ~ blocks[b].done
            => Cardinality(blocks[b].data) + Cardinality(blocks[b].repair) < K

\* Nothing decoded is held back or forgotten: every packet present below the
\* delivery position of a block has been handed on or is about to be.
NothingForgotten ==
    \A b \in Block : \A i \in blocks[b].data :
        i < blocks[b].delivered
            => \/ <<b, i>> \in pending
               \/ \E n \in 1..Len(out) : out[n] = <<b, i, inc[b]>>

\* A block is not closed while its sender merely takes its time: one that is done
\* before all of it was sent had a frame stuck behind a gap.
NotClosedEarly ==
    \A b \in Block :
        blocks[b].done /\ b >= encBlock
            => \E j \in blocks[b].data : \E i \in 0 .. j - 1 : i \notin blocks[b].data

\* A frame that reached the decoder is handed on in the end, behind a gap too:
\* the stale flush bounds how long it waits.
EventuallyDelivered ==
    \A b \in Block : \A i \in Slot :
        i \in blocks[b].data ~> \E n \in 1..Len(out) : out[n][1] = b /\ out[n][2] = i

===============================================================================
