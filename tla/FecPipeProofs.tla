----------------------------- MODULE FecPipeProofs -----------------------------
(***************************************************************************)
(* What the receiver of a FEC stream hands on, for any block size and any   *)
(* number of repair packets, any paths, losses and reorderings, and any     *)
(* ages at which a gap is skipped and a block expires.                      *)
(*                                                                          *)
(* The argument.  A block in the decoder is well formed (WellFormed): up to *)
(* delivered it is whole, at delivered it has a gap, and it has too few     *)
(* packets to be repaired; or it is done.  `Added` keeps this and never     *)
(* changes what lies below delivered.  What was handed on since the block   *)
(* was last expired lies below delivered and below what is pending          *)
(* (HandedOn), so the order never breaks.  Until its sender has filled a    *)
(* block, its last packet and its repairs do not exist (Unfilled), so only  *)
(* the stale flush can close it.                                            *)
(***************************************************************************)
EXTENDS FecPipe, TLAPS, FiniteSetTheorems, WellFoundedInduction

-------------------------------------------------------------------------------
(* Numbers and finite sets *)

\* The least-number principle, for sets.
LEMMA Least ==
  ASSUME NEW S \in SUBSET Nat, S # {}
  PROVE  \E m \in S : \A k \in S : m <= k
  <1>1. \E x \in S : \A y \in S : <<y, x>> \notin OpToRel(<, Nat)
    BY NatLessThanWellFounded, WFMin, Zenon
  <1>2. \E x \in S : \A y \in S : ~ (y < x)
    <2>1. PICK x \in S : \A y \in S : <<y, x>> \notin OpToRel(<, Nat)
      BY <1>1, Zenon
    <2>2. \A y \in S : ~ (y < x)
      BY <2>1, Zenon DEF OpToRel
    <2> QED
      BY <2>2, Zenon
  <1> HIDE <1>1
  <1> QED
    BY <1>2

\* The slots of a block that are not in D.
LEMMA SlotsLeft ==
  ASSUME NEW D \in SUBSET Slot
  PROVE  /\ IsFiniteSet(D) /\ Cardinality(D) \in Nat
         /\ Cardinality(Slot \ D) = K - Cardinality(D)
  <1>1. IsFiniteSet(Slot) /\ Cardinality(Slot) = K
    BY FS_Interval, FecAssumption DEF Slot
  <1>2. IsFiniteSet(D) /\ Slot \cap D = D
    BY <1>1, FS_Subset
  <1> QED
    BY <1>1, <1>2, FS_Difference, FS_CardinalityType

LEMMA RepairsFinite ==
  ASSUME NEW P \in SUBSET Rep
  PROVE  IsFiniteSet(P) /\ Cardinality(P) \in Nat
  <1>1. IsFiniteSet(Rep)
    BY FS_Interval, FecAssumption DEF Rep
  <1> QED
    BY <1>1, FS_Subset, FS_CardinalityType

-------------------------------------------------------------------------------
(* Blocks of the decoder *)

WellFormed(blk) ==
    /\ ~ blk.live => blk = returnBlock
    /\ blk.done <=> blk.delivered = K
    /\ ~ blk.done =>
          /\ 0 .. blk.delivered - 1 \subseteq blk.data
          /\ blk.delivered \notin blk.data
          /\ Cardinality(blk.data) + Cardinality(blk.repair) < K

LEMMA EmptyBlock == returnBlock \in DecBlock /\ WellFormed(returnBlock)
  <1>1. Cardinality({}) = 0
    BY FS_EmptySet
  <1> QED
    BY <1>1, FecAssumption DEF returnBlock, DecBlock, WellFormed, Never

\* The run of consecutive packets ends somewhere: the CHOOSE of RunEnd has a value.
LEMMA RunEndIs ==
  ASSUME NEW blk, blk.delivered \in 0 .. K, blk.data \subseteq Slot
  PROVE  /\ RunEnd(blk) \in blk.delivered .. K
         /\ RunEnd(blk) = K \/ RunEnd(blk) \notin blk.data
         /\ \A i \in blk.delivered .. RunEnd(blk) - 1 : i \in blk.data
  <1> DEFINE S == {n \in blk.delivered .. K : n = K \/ n \notin blk.data}
  <1>1. S \in SUBSET Nat /\ K \in S
    BY FecAssumption
  <1>2. PICK m \in S : \A k \in S : m <= k
    BY <1>1, Least
  <1>3. /\ m \in blk.delivered .. K
        /\ m = K \/ m \notin blk.data
        /\ \A i \in blk.delivered .. m - 1 : i \in blk.data
    BY <1>2, FecAssumption
  <1> QED
    BY <1>3, Zenon DEF RunEnd

\* The first packet that makes a repair possible, or none does.
LEMMA RecoveredIs ==
  ASSUME NEW blk, blk.delivered \in 0 .. K, blk.data \in SUBSET Slot,
         blk.repair \in SUBSET Rep, 0 .. blk.delivered - 1 \subseteq blk.data
  PROVE  \/ Recovered(blk) = Slot
         \/ /\ Recovered(blk) = blk.data
            /\ Cardinality(blk.data) + Cardinality(blk.repair) < K
  <1>1. (blk.delivered .. K - 1) \ blk.data = Slot \ blk.data
    BY FecAssumption DEF Slot
  <1>2. Cardinality(blk.data) \in Nat /\ Cardinality(Slot \ blk.data) = K - Cardinality(blk.data)
    BY SlotsLeft
  <1>3. Cardinality(blk.repair) \in Nat
    BY RepairsFinite
  <1>4. CASE Slot \ blk.data = {}
    BY <1>1, <1>4 DEF Recovered
  <1>5. CASE Slot \ blk.data # {}
    BY <1>1, <1>2, <1>3, <1>5, FecAssumption DEF Recovered
  <1> QED
    BY <1>4, <1>5

\* A DecBlock that differs from another in one field.
LEMMA OneField ==
  ASSUME NEW blk \in DecBlock, NEW v
  PROVE  /\ [blk EXCEPT !.live = v] =
               [live |-> v, data |-> blk.data, repair |-> blk.repair,
                delivered |-> blk.delivered, done |-> blk.done, age |-> blk.age]
         /\ [blk EXCEPT !.data = v] =
               [live |-> blk.live, data |-> v, repair |-> blk.repair,
                delivered |-> blk.delivered, done |-> blk.done, age |-> blk.age]
         /\ [blk EXCEPT !.repair = v] =
               [live |-> blk.live, data |-> blk.data, repair |-> v,
                delivered |-> blk.delivered, done |-> blk.done, age |-> blk.age]
         /\ [blk EXCEPT !.delivered = v] =
               [live |-> blk.live, data |-> blk.data, repair |-> blk.repair,
                delivered |-> v, done |-> blk.done, age |-> blk.age]
         /\ [blk EXCEPT !.done = v] =
               [live |-> blk.live, data |-> blk.data, repair |-> blk.repair,
                delivered |-> blk.delivered, done |-> v, age |-> blk.age]
         /\ [blk EXCEPT !.age = v] =
               [live |-> blk.live, data |-> blk.data, repair |-> blk.repair,
                delivered |-> blk.delivered, done |-> blk.done, age |-> v]
  <1>1. [blk EXCEPT !.live = v] =
               [live |-> v, data |-> blk.data, repair |-> blk.repair,
                delivered |-> blk.delivered, done |-> blk.done, age |-> blk.age]
    BY DEF DecBlock
  <1>2. [blk EXCEPT !.data = v] =
               [live |-> blk.live, data |-> v, repair |-> blk.repair,
                delivered |-> blk.delivered, done |-> blk.done, age |-> blk.age]
    BY DEF DecBlock
  <1>3. [blk EXCEPT !.repair = v] =
               [live |-> blk.live, data |-> blk.data, repair |-> v,
                delivered |-> blk.delivered, done |-> blk.done, age |-> blk.age]
    BY DEF DecBlock
  <1>4. [blk EXCEPT !.delivered = v] =
               [live |-> blk.live, data |-> blk.data, repair |-> blk.repair,
                delivered |-> v, done |-> blk.done, age |-> blk.age]
    BY DEF DecBlock
  <1>5. [blk EXCEPT !.done = v] =
               [live |-> blk.live, data |-> blk.data, repair |-> blk.repair,
                delivered |-> blk.delivered, done |-> v, age |-> blk.age]
    BY DEF DecBlock
  <1>6. [blk EXCEPT !.age = v] =
               [live |-> blk.live, data |-> blk.data, repair |-> blk.repair,
                delivered |-> blk.delivered, done |-> blk.done, age |-> v]
    BY DEF DecBlock
  <1> QED
    BY <1>1, <1>2, <1>3, <1>4, <1>5, <1>6

\* A block after a delivery, and after a packet.
LEMMA Delivered ==
  ASSUME NEW blk \in DecBlock, NEW v \in 0 .. K, NEW f \in BOOLEAN
  PROVE  [blk EXCEPT !.delivered = v, !.done = f] =
           [live |-> blk.live, data |-> blk.data, repair |-> blk.repair,
            delivered |-> v, done |-> f, age |-> blk.age]
  <1> DEFINE h == [blk EXCEPT !.delivered = v]
  <1>1. [blk EXCEPT !.delivered = v, !.done = f] = [h EXCEPT !.done = f]
    BY Zenon
  <1>2. h = [live |-> blk.live, data |-> blk.data, repair |-> blk.repair,
                delivered |-> v, done |-> blk.done, age |-> blk.age]
    BY OneField
  <1> HIDE DEF h
  <1>3. h \in DecBlock
    BY <1>2 DEF DecBlock
  <1> QED
    BY <1>1, <1>2, <1>3, OneField

LEMMA Received ==
  ASSUME NEW blk \in DecBlock, NEW d \in SUBSET Slot, NEW r \in SUBSET Rep
  PROVE  [blk EXCEPT !.data = d, !.repair = r, !.age = 0] =
           [live |-> blk.live, data |-> d, repair |-> r,
            delivered |-> blk.delivered, done |-> blk.done, age |-> 0]
  <1> DEFINE h == [blk EXCEPT !.data = d]
               k == [h EXCEPT !.repair = r]
  <1>1. [blk EXCEPT !.data = d, !.repair = r, !.age = 0] = [k EXCEPT !.age = 0]
    BY Zenon
  <1>2. h = [live |-> blk.live, data |-> d, repair |-> blk.repair,
                delivered |-> blk.delivered, done |-> blk.done, age |-> blk.age]
    BY OneField
  <1> HIDE DEF h
  <1>3. h \in DecBlock
    BY <1>2 DEF DecBlock
  <1>4. k = [live |-> h.live, data |-> h.data, repair |-> r,
                delivered |-> h.delivered, done |-> h.done, age |-> h.age]
    BY <1>3, OneField
  <1> HIDE DEF k
  <1>5. k \in DecBlock
    BY <1>3, <1>4 DEF DecBlock
  <1> QED
    BY <1>1, <1>2, <1>4, <1>5, OneField

\* What tryRecover makes of a block that has just got a packet.
LEMMA TryRecoverIs ==
  ASSUME NEW blk \in DecBlock, blk.delivered < K, 0 .. blk.delivered - 1 \subseteq blk.data,
         blk.live
  PROVE  LET new == tryRecover(blk)
         IN  /\ new \in DecBlock /\ WellFormed(new) /\ new.live
             /\ new.delivered \in blk.delivered .. K /\ new.repair = blk.repair
             /\ new.data = Slot \/ new.data = blk.data
             /\ \A i \in blk.delivered .. new.delivered - 1 : i \in new.data
             /\ blk.repair = {} => new.data = blk.data
  <1> DEFINE full == [blk EXCEPT !.data = Recovered(blk)]
             end == RunEnd(full)
             new == [full EXCEPT !.delivered = end, !.done = (end = K)]
  <1>1. /\ blk.delivered \in 0 .. K /\ blk.data \in SUBSET Slot /\ blk.repair \in SUBSET Rep
        /\ blk.live = TRUE /\ blk.done \in BOOLEAN /\ blk.age \in Nat \cup {Never}
    BY DEF DecBlock
  <1>2. \/ Recovered(blk) = Slot
        \/ /\ Recovered(blk) = blk.data
           /\ Cardinality(blk.data) + Cardinality(blk.repair) < K
    BY <1>1, RecoveredIs
  <1>3. full = [live |-> blk.live, data |-> Recovered(blk), repair |-> blk.repair,
                delivered |-> blk.delivered, done |-> blk.done, age |-> blk.age]
    BY OneField, Zenon
  <1>4. /\ full \in DecBlock /\ full.delivered = blk.delivered /\ full.data = Recovered(blk)
        /\ full.repair = blk.repair /\ full.live = TRUE
    BY <1>1, <1>2, <1>3 DEF DecBlock
  <1>5. /\ end \in blk.delivered .. K
        /\ end = K \/ end \notin Recovered(blk)
        /\ \A i \in blk.delivered .. end - 1 : i \in Recovered(blk)
    <2>1. full.delivered \in 0 .. K /\ full.data \subseteq Slot
      BY <1>1, <1>2, <1>4
    <2> HIDE DEF full
    <2> QED
      BY <1>4, <2>1, RunEndIs
  <1>6. tryRecover(blk) = new
    BY DEF tryRecover
  <1> HIDE DEF full
  <1> HIDE DEF end
  <1>7. new = [live |-> TRUE, data |-> Recovered(blk), repair |-> blk.repair,
               delivered |-> end, done |-> (end = K), age |-> full.age]
    <2>1. end \in 0 .. K /\ (end = K) \in BOOLEAN
      BY <1>1, <1>5
    <2>2. new = [live |-> full.live, data |-> full.data, repair |-> full.repair,
                 delivered |-> end, done |-> (end = K), age |-> full.age]
      BY <1>4, <2>1, Delivered, Zenon
    <2> QED
      BY <1>4, <2>2, Zenon
  <1> HIDE DEF new
  <1>8. new \in DecBlock
    BY <1>1, <1>2, <1>4, <1>5, <1>7 DEF DecBlock
  <1>9. Recovered(blk) = Slot => end = K
    BY <1>1, <1>5, FecAssumption DEF Slot
  <1>10. 0 .. end - 1 \subseteq Recovered(blk)
    BY <1>1, <1>2, <1>5, FecAssumption DEF Slot
  <1>11. WellFormed(new)
    BY <1>2, <1>5, <1>7, <1>9, <1>10, FecAssumption DEF WellFormed
  <1>12. blk.repair = {} => Recovered(blk) = blk.data
    <2> SUFFICES ASSUME blk.repair = {}
                 PROVE  Recovered(blk) = blk.data
      OBVIOUS
    <2> DEFINE missing == (blk.delivered .. K - 1) \ blk.data
    <2>1. IsFiniteSet(missing)
      <3>1. blk.delivered \in Int /\ K - 1 \in Int
        BY <1>1, FecAssumption
      <3>2. IsFiniteSet(blk.delivered .. K - 1)
        BY <3>1, FS_Interval
      <3> QED
        BY <3>2, FS_Difference
    <2>2. Cardinality(blk.repair) = 0
      BY FS_EmptySet
    <2>3. Cardinality(missing) \in Nat /\ (Cardinality(missing) = 0 => missing = {})
      BY <2>1, FS_EmptySet, FS_CardinalityType
    <2>4. ~ (missing # {} /\ Cardinality(missing) <= Cardinality(blk.repair))
      BY <2>2, <2>3
    <2> QED
      BY <2>4 DEF Recovered
  <1> QED
    BY <1>2, <1>5, <1>6, <1>7, <1>8, <1>11, <1>12

\* What add makes of a well-formed block and a packet: it stays well formed, and
\* nothing changes below what was delivered.
LEMMA AddedIs ==
  ASSUME NEW blk \in DecBlock, WellFormed(blk), blk.live, NEW pkt \in Packet
  PROVE  LET new == Added(pkt, blk)
         IN  /\ new \in DecBlock /\ WellFormed(new)
             /\ new.delivered \in blk.delivered .. K
             /\ \A i \in new.data : i < blk.delivered => i \in blk.data
             /\ \A i \in blk.delivered .. new.delivered - 1 : i \in new.data
             /\ blk.done => new = blk
             /\ (/\ pkt.kind = "data" /\ pkt.idx # K - 1
                 /\ blk.repair = {} /\ K - 1 \notin blk.data) =>
                    new.repair = {} /\ K - 1 \notin new.data /\ (new.done => blk.done)
  <1>1. /\ blk.delivered \in 0 .. K /\ blk.data \in SUBSET Slot /\ blk.repair \in SUBSET Rep
        /\ blk.live = TRUE /\ blk.done \in BOOLEAN /\ blk.age \in Nat \cup {Never}
    BY DEF DecBlock
  <1> DEFINE skip == \/ blk.done
                     \/ pkt.kind = "data"   /\ (pkt.idx \notin Slot \/ pkt.idx \in blk.data)
                     \/ pkt.kind = "repair" /\ pkt.idx \in blk.repair
             d == IF pkt.kind = "data" THEN blk.data \cup {pkt.idx} ELSE blk.data
             r == IF pkt.kind = "repair" THEN blk.repair \cup {pkt.idx} ELSE blk.repair
             got == [blk EXCEPT !.data = d, !.repair = r, !.age = 0]
  <1>2. CASE skip
    <2>1. Added(pkt, blk) = blk
      BY <1>2 DEF Added
    <2> QED
      BY <1>1, <2>1, FecAssumption
  <1>3. CASE ~ skip
    <2>1. Added(pkt, blk) = tryRecover(got)
      BY <1>3, Zenon DEF Added
    <2>2. d \in SUBSET Slot /\ r \in SUBSET Rep /\ blk.data \subseteq d
      BY <1>1, <1>3 DEF Packet
    <2>4. blk.delivered < K /\ 0 .. blk.delivered - 1 \subseteq blk.data
      BY <1>1, <1>3, FecAssumption DEF WellFormed
    <2>5. d = blk.data \cup {pkt.idx} \/ d = blk.data
      OBVIOUS
    <2>6. pkt.kind = "data" => r = blk.repair
      OBVIOUS
    <2> HIDE DEF d
    <2> HIDE DEF r
    <2>3. got = [live |-> blk.live, data |-> d, repair |-> r,
                 delivered |-> blk.delivered, done |-> blk.done, age |-> 0]
      BY <2>2, Received
    <2> HIDE DEF got
    <2>7. /\ got \in DecBlock /\ got.live /\ got.delivered = blk.delivered
          /\ got.data = d /\ got.repair = r
      BY <1>1, <2>2, <2>3 DEF DecBlock
    <2> DEFINE new == tryRecover(got)
    <2>8. /\ new \in DecBlock /\ WellFormed(new) /\ new.live
          /\ new.delivered \in blk.delivered .. K /\ new.repair = r
          /\ new.data = Slot \/ new.data = d
          /\ \A i \in blk.delivered .. new.delivered - 1 : i \in new.data
          /\ r = {} => new.data = d
      BY <2>2, <2>4, <2>7, TryRecoverIs
    <2> HIDE DEF new
    <2>9. \A i \in new.data : i < blk.delivered => i \in blk.data
      <3>1. new.data \subseteq 0 .. K - 1
        BY <2>2, <2>8 DEF Slot
      <3> QED
        BY <1>1, <2>4, <3>1, FecAssumption
    <2>10. (/\ pkt.kind = "data" /\ pkt.idx # K - 1
            /\ blk.repair = {} /\ K - 1 \notin blk.data) =>
                new.repair = {} /\ K - 1 \notin new.data /\ (new.done => blk.done)
      BY <1>1, <2>4, <2>5, <2>6, <2>8, FecAssumption DEF WellFormed
    <2> QED
      BY <1>3, <2>1, <2>8, <2>9, <2>10 DEF new
  <1> QED
    BY <1>2, <1>3

-------------------------------------------------------------------------------
(* The invariant *)

\* Block IDs and indices of what was sent: the block being filled has neither its
\* last packet nor repairs under way, whatever R is.
Sent ==
    /\ pktIdx <= sends
    /\ R > 0 \/ encBlock = 0 => pktIdx = encFill
    /\ R = 0 /\ encBlock > 0 => pktIdx >= K
    /\ \A i \in 1 .. Len(repairCh) : repairCh[i] < encBlock
    /\ \A p \in Paths : \A pkt \in net[p] :
          /\ pkt.kind = "data" => pkt.blk < encBlock \/ (pkt.blk = encBlock /\ pkt.idx # K - 1)
          /\ pkt.kind = "repair" => pkt.blk < encBlock

Gap(blk) == \E j \in blk.data : \E i \in 0 .. j - 1 : i \notin blk.data

\* What the decoder holds of blocks whose sender has not filled them.
Unfilled ==
    \A b \in Block : b >= encBlock =>
        /\ blocks[b].repair = {} /\ K - 1 \notin blocks[b].data
        /\ blocks[b].done => Gap(blocks[b])

\* Frames handed on since their block was last expired lie below its delivery
\* position, and before what is pending.
HandedOn ==
    \A n \in 1 .. Len(out) :
        /\ out[n][3] <= inc[out[n][1]]
        /\ out[n][3] = inc[out[n][1]] =>
              /\ out[n][2] < blocks[out[n][1]].delivered
              /\ \A f \in pending : f[1] = out[n][1] => out[n][2] < f[2]

DecoderOK ==
    /\ \A b \in Block : WellFormed(blocks[b])
    /\ \A f \in pending : f[2] < blocks[f[1]].delivered

IInv ==
    /\ TypeOK /\ Sent /\ DecoderOK
    /\ Unfilled /\ HandedOn /\ OrderedWithinBlock /\ NothingForgotten

-------------------------------------------------------------------------------
LEMMA InitIInv == Init => IInv
  <1> SUFFICES ASSUME Init PROVE IInv
    OBVIOUS
  <1>1. TypeOK
    BY EmptyBlock, FecAssumption DEF Init, TypeOK, Block
  <1>2. Sent
    BY FecAssumption DEF Init, Sent, Block
  <1>3. DecoderOK /\ Unfilled /\ NothingForgotten
    BY EmptyBlock, FecAssumption
       DEF Init, DecoderOK, Unfilled, NothingForgotten, returnBlock
  <1>4. HandedOn /\ OrderedWithinBlock
    BY DEF Init, HandedOn, OrderedWithinBlock
  <1> QED
    BY <1>1, <1>2, <1>3, <1>4 DEF IInv

\* expire() scans up to a block that exists, and never past the new packet's.
LEMMA ExpireToIs ==
  ASSUME minBlockID \in Block, NEW b \in Block
  PROVE  /\ ExpireTo(b) \in Block
         /\ \A n \in minBlockID .. ExpireTo(b) - 1 : n \in Block /\ n < b
  <1>1. CASE minBlockID >= b - maxOldBlocks
    BY <1>1, FecAssumption DEF ExpireTo, Block
  <1>2. CASE ~ (minBlockID >= b - maxOldBlocks)
    <2> DEFINE last == b - maxOldBlocks
               S == {m \in minBlockID .. last : m = last \/ Young(m)}
    <2>1. last \in S /\ S \in SUBSET Nat /\ last <= b
      BY <1>2, FecAssumption DEF Block
    <2>2. PICK m \in S : \A k \in S : m <= k
      BY <2>1, Least
    <2>3. \A n \in minBlockID .. m - 1 : n \in minBlockID .. last /\ n < m
      BY <2>1, <2>2, FecAssumption DEF Block
    <2>4. \A n \in minBlockID .. m - 1 : ~ Young(n)
      BY <2>1, <2>2, <2>3
    <2>5. /\ ExpireTo(b) \in minBlockID .. last
      BY <1>2, <2>2, <2>4, Zenon DEF ExpireTo
    <2> QED
      BY <2>1, <2>5, FecAssumption DEF Block
  <1> QED
    BY <1>1, <1>2

\* The frames a decoder step hands to the delivery loop.
LEMMA FramesIs ==
  ASSUME NEW b \in Block, NEW from \in 0 .. K, NEW to \in from .. K
  PROVE  /\ Frames(b, from, to) \subseteq Block \X Slot
         /\ \A f \in Frames(b, from, to) : f[1] = b /\ from <= f[2] /\ f[2] < to
         /\ \A i \in from .. to - 1 : <<b, i>> \in Frames(b, from, to)
  BY FecAssumption DEF Frames, Slot

\* What Recv does to the decoder.
LEMMA RecvEffect ==
  ASSUME IInv, NEW p \in Paths, NEW pkt \in net[p], Recv(p, pkt)
  PROVE  LET b   == pkt.blk
             old == blocks[b]
             new == blocks'[b]
         IN  /\ pkt \in Packet /\ b \in Block /\ pending = {}
             /\ blocks' \in [Block -> DecBlock] /\ inc' \in [Block -> Nat]
             /\ maxSeen' \in Block /\ minBlockID' \in Block
             /\ \A n \in Block \ {b} :
                   \/ blocks'[n] = blocks[n] /\ inc'[n] = inc[n]
                   \/ blocks'[n] = returnBlock /\ inc'[n] = inc[n] + 1
             /\ inc'[b] = inc[b]
             /\ WellFormed(new) /\ new.delivered \in old.delivered .. K
             /\ \A i \in new.data : i < old.delivered => i \in old.data
             /\ old.done => new.done /\ new.data = old.data /\ new.repair = old.repair
             /\ (/\ pkt.kind = "data" /\ pkt.idx # K - 1
                 /\ old.repair = {} /\ K - 1 \notin old.data) =>
                    new.repair = {} /\ K - 1 \notin new.data /\ (new.done => old.done)
             /\ pending' = Frames(b, old.delivered, new.delivered)
  <1> DEFINE b == pkt.blk
             gone == Expired(b)
             blk == [blocks[b] EXCEPT !.live = TRUE]
             new == Added(pkt, blk)
  <1>1. pkt \in Packet /\ b \in Block
    BY DEF IInv, TypeOK, Packet
  <1>2. /\ blocks[b] \in DecBlock /\ WellFormed(blocks[b])
        /\ blocks \in [Block -> DecBlock] /\ inc \in [Block -> Nat]
        /\ minBlockID \in Block /\ maxSeen \in Block
    BY <1>1 DEF IInv, TypeOK, DecoderOK
  <1>3. /\ pending = {}
        /\ maxSeen' = IF b > maxSeen THEN b ELSE maxSeen
        /\ minBlockID' = IF b > maxSeen THEN ExpireTo(b) ELSE minBlockID
        /\ blocks' = [n \in Block |-> IF n = b THEN new
                                      ELSE IF n \in gone THEN returnBlock
                                      ELSE blocks[n]]
        /\ inc' = [n \in Block |-> IF n \in gone THEN inc[n] + 1 ELSE inc[n]]
        /\ pending' = Frames(b, blk.delivered, new.delivered)
    BY DEF Recv
  <1>4. b \notin gone
    <2>1. \A n \in minBlockID .. ExpireTo(b) - 1 : n < b
      BY <1>1, <1>2, ExpireToIs
    <2>2. ~ (b < b)
      BY <1>1, FecAssumption DEF Block
    <2>3. b \notin minBlockID .. ExpireTo(b) - 1
      BY <2>1, <2>2
    <2> QED
      BY <2>3 DEF Expired
  <1>5. blk = [live |-> TRUE, data |-> blocks[b].data, repair |-> blocks[b].repair,
               delivered |-> blocks[b].delivered, done |-> blocks[b].done, age |-> blocks[b].age]
    BY <1>2, OneField
  <1> HIDE DEF blk
  <1>6. blk \in DecBlock /\ WellFormed(blk) /\ blk.live
    BY <1>2, <1>5 DEF DecBlock, WellFormed
  <1>7. /\ new \in DecBlock /\ WellFormed(new) /\ new.delivered \in blk.delivered .. K
        /\ \A i \in new.data : i < blk.delivered => i \in blk.data
        /\ blk.done => new = blk
        /\ (/\ pkt.kind = "data" /\ pkt.idx # K - 1 /\ blk.repair = {} /\ K - 1 \notin blk.data) =>
               new.repair = {} /\ K - 1 \notin new.data /\ (new.done => blk.done)
    BY <1>1, <1>6, AddedIs
  <1> HIDE DEF new
  <1>8. blocks'[b] = new
    BY <1>1, <1>3
  <1> HIDE DEF gone
  <1>9. /\ blocks' \in [Block -> DecBlock] /\ inc' \in [Block -> Nat]
        /\ inc'[b] = inc[b]
        /\ \A n \in Block \ {b} :
              \/ blocks'[n] = blocks[n] /\ inc'[n] = inc[n]
              \/ blocks'[n] = returnBlock /\ inc'[n] = inc[n] + 1
    BY <1>1, <1>2, <1>3, <1>4, <1>7, EmptyBlock
  <1>10. maxSeen' \in Block /\ minBlockID' \in Block
    BY <1>1, <1>2, <1>3, ExpireToIs
  <1>11. /\ blk.data = blocks[b].data /\ blk.repair = blocks[b].repair
         /\ blk.delivered = blocks[b].delivered /\ blk.done = blocks[b].done
    BY <1>5
  <1> HIDE DEF b
  <1> QED
    BY <1>1, <1>3, <1>7, <1>8, <1>9, <1>10, <1>11 DEF b

\* A path loses or hands over a packet.
LEMMA TakeFromNet ==
  ASSUME IInv, NEW p \in Paths, NEW pkt, net' = [net EXCEPT ![p] = @ \ {pkt}],
         UNCHANGED sender
  PROVE  net' \in [Paths -> SUBSET Packet] /\ Sent'
  <1>1. \A q \in Paths : net'[q] \subseteq net[q]
    BY DEF IInv, TypeOK
  <1> QED
    BY <1>1 DEF IInv, TypeOK, Sent, sender

LEMMA RecvStep ==
  ASSUME IInv, NEW p \in Paths, NEW pkt \in net[p], Recv(p, pkt)
  PROVE  IInv'
  <1> DEFINE b   == pkt.blk
             old == blocks[b]
             new == blocks'[b]
  <1>1. /\ pkt \in Packet /\ b \in Block /\ pending = {}
        /\ blocks' \in [Block -> DecBlock] /\ inc' \in [Block -> Nat]
        /\ maxSeen' \in Block /\ minBlockID' \in Block
        /\ inc'[b] = inc[b]
    BY RecvEffect
  <1>2. \A n \in Block \ {b} :
              \/ blocks'[n] = blocks[n] /\ inc'[n] = inc[n]
              \/ blocks'[n] = returnBlock /\ inc'[n] = inc[n] + 1
    BY RecvEffect
  <1>3. /\ WellFormed(new) /\ new.delivered \in old.delivered .. K
        /\ \A i \in new.data : i < old.delivered => i \in old.data
        /\ old.done => new.done /\ new.data = old.data /\ new.repair = old.repair
    BY RecvEffect
  <1>4. (/\ pkt.kind = "data" /\ pkt.idx # K - 1
        /\ old.repair = {} /\ K - 1 \notin old.data) =>
           new.repair = {} /\ K - 1 \notin new.data /\ (new.done => old.done)
    BY RecvEffect
  <1>5. pending' = Frames(b, old.delivered, new.delivered)
    BY RecvEffect
  <1>6. old \in DecBlock /\ old.delivered \in 0 .. K
    BY <1>1 DEF IInv, TypeOK, DecBlock
  <1>7. /\ pending' \subseteq Block \X Slot
        /\ \A f \in pending' : f[1] = b /\ old.delivered <= f[2] /\ f[2] < new.delivered
        /\ \A i \in old.delivered .. new.delivered - 1 : <<b, i>> \in pending'
    BY <1>1, <1>3, <1>5, <1>6, FramesIs
  <1>8. UNCHANGED <<sender, out>> /\ net' = [net EXCEPT ![p] = @ \ {pkt}]
    BY DEF Recv
  <1>9. net' \in [Paths -> SUBSET Packet] /\ Sent'
    BY <1>8, TakeFromNet
  <1>10. TypeOK'
    BY <1>1, <1>7, <1>8, <1>9 DEF IInv, TypeOK, sender
  <1>11. DecoderOK'
    BY <1>1, <1>2, <1>3, <1>7, EmptyBlock DEF IInv, DecoderOK
  <1>12. Unfilled'
    <2> SUFFICES ASSUME NEW n \in Block, n >= encBlock
                 PROVE  /\ blocks'[n].repair = {} /\ K - 1 \notin blocks'[n].data
                        /\ blocks'[n].done => Gap(blocks'[n])
      BY <1>8 DEF Unfilled, sender
    <2>1. /\ blocks[n].repair = {} /\ K - 1 \notin blocks[n].data
          /\ blocks[n].done => Gap(blocks[n])
      BY DEF IInv, Unfilled
    <2>2. CASE n # b
      <3>1. \/ blocks'[n] = blocks[n]
            \/ blocks'[n] = returnBlock
        BY <1>2, <2>2
      <3> QED
        BY <2>1, <3>1 DEF returnBlock
    <2>3. CASE n = b
      <3>1. pkt.kind = "data" /\ pkt.idx # K - 1
        <4>0. pkt.kind \in {"data", "repair"}
          BY <1>1 DEF Packet
        <4>1. b \in Int /\ encBlock \in Int
          BY <1>1, FecAssumption DEF IInv, TypeOK, Block
        <4>2. /\ pkt.kind = "data" => b < encBlock \/ (b = encBlock /\ pkt.idx # K - 1)
              /\ pkt.kind = "repair" => b < encBlock
          BY DEF IInv, Sent
        <4> QED
          BY <2>3, <4>0, <4>1, <4>2
      <3>2. new.repair = {} /\ K - 1 \notin new.data /\ (new.done => old.done)
        BY <1>4, <2>1, <2>3, <3>1
      <3> QED
        BY <1>3, <2>1, <2>3, <3>2 DEF Gap
    <2> QED
      BY <2>2, <2>3
  <1>13. \A m \in 1 .. Len(out) : out[m] \in Block \X Slot \X Nat
    BY DEF IInv, TypeOK
  <1>14. HandedOn'
    <2> SUFFICES ASSUME NEW m \in 1 .. Len(out)
                 PROVE  /\ out[m][3] <= inc'[out[m][1]]
                        /\ out[m][3] = inc'[out[m][1]] =>
                              /\ out[m][2] < blocks'[out[m][1]].delivered
                              /\ \A f \in pending' : f[1] = out[m][1] => out[m][2] < f[2]
      BY <1>8 DEF HandedOn
    <2> DEFINE n == out[m][1]
    <2>1. /\ n \in Block /\ out[m][2] \in Slot /\ out[m][3] \in Nat
          /\ inc[n] \in Nat /\ out[m][3] <= inc[n]
          /\ out[m][3] = inc[n] => out[m][2] < blocks[n].delivered
      BY <1>13 DEF IInv, TypeOK, HandedOn
    <2>2. CASE n = b
      <3>1. \A f \in pending' : f[2] \in Int
        BY <1>7, FecAssumption DEF Slot
      <3>2. /\ out[m][2] \in Int /\ old.delivered \in Int /\ new.delivered \in Int
            /\ old.delivered <= new.delivered
        BY <1>3, <1>6, <2>1, FecAssumption DEF Slot
      <3>3. /\ out[m][3] <= inc'[n]
            /\ out[m][3] = inc'[n] => out[m][2] < old.delivered
        BY <1>1, <2>1, <2>2
      <3> QED
        BY <1>7, <2>2, <3>1, <3>2, <3>3
    <2>3. CASE n # b
      <3>1. \A f \in pending' : f[1] # n
        BY <1>7, <2>3
      <3> HIDE DEF n
      <3>2. \/ blocks'[n] = blocks[n] /\ inc'[n] = inc[n]
            \/ inc'[n] = inc[n] + 1
        BY <1>2, <2>1, <2>3
      <3>3. /\ out[m][3] <= inc'[n]
            /\ out[m][3] = inc'[n] => out[m][2] < blocks'[n].delivered
        BY <2>1, <3>2
      <3> QED
        BY <3>1, <3>3 DEF n
    <2> QED
      BY <2>2, <2>3
  <1>15. OrderedWithinBlock'
    BY <1>8 DEF IInv, OrderedWithinBlock
  <1>16. NothingForgotten'
    <2> SUFFICES ASSUME NEW n \in Block, NEW i \in blocks'[n].data, i < blocks'[n].delivered
                 PROVE  \/ <<n, i>> \in pending'
                        \/ \E m \in 1 .. Len(out) : out[m] = <<n, i, inc'[n]>>
      BY <1>8 DEF NothingForgotten
    <2>1. CASE n # b
      <3>1. \/ blocks'[n] = blocks[n] /\ inc'[n] = inc[n]
            \/ blocks'[n] = returnBlock
        BY <1>2, <2>1
      <3> QED
        <4>1. blocks'[n] = blocks[n] /\ inc'[n] = inc[n]
          BY <3>1 DEF returnBlock
        <4> QED
          BY <1>1, <4>1 DEF IInv, NothingForgotten
    <2>2. CASE n = b
      <3>1. i \in Nat
        BY <1>1, FecAssumption DEF DecBlock, Slot
      <3>2. CASE i < old.delivered
        <4>1. i \in old.data
          BY <1>3, <2>2, <3>2
        <4>2. \E m \in 1 .. Len(out) : out[m] = <<b, i, inc[b]>>
          BY <1>1, <3>2, <4>1 DEF IInv, NothingForgotten
        <4> QED
          BY <1>1, <2>2, <4>2
      <3>3. CASE ~ (i < old.delivered)
        BY <1>3, <1>6, <1>7, <2>2, <3>1, <3>3
      <3> QED
        BY <3>2, <3>3
    <2> QED
      BY <2>1, <2>2
  <1> QED
    BY <1>9, <1>10, <1>11, <1>12, <1>14, <1>15, <1>16 DEF IInv

\* Steps of the sender: they put packets on the paths and leave the receiver alone.
LEMMA SenderStep ==
  ASSUME IInv, UNCHANGED <<decoder, pending, out>>,
         encBlock' \in Block, encBlock' >= encBlock, encFill' \in 0 .. K - 1,
         pktIdx' \in Nat, sends' \in 0 .. MaxSends, repairCh' \in Seq(Block),
         NEW new \in SUBSET Packet, net' = OnPaths(new), Sent'
  PROVE  IInv'
  <1>1. net' \in [Paths -> SUBSET Packet]
    BY DEF IInv, TypeOK, OnPaths
  <1>2. TypeOK'
    BY <1>1 DEF IInv, TypeOK, decoder
  <1>3. DecoderOK' /\ HandedOn' /\ OrderedWithinBlock' /\ NothingForgotten'
    BY DEF IInv, DecoderOK, HandedOn, OrderedWithinBlock, NothingForgotten, decoder
  <1>4. Unfilled'
    <2>1. \A b \in Block : b >= encBlock' => b >= encBlock
      BY FecAssumption DEF IInv, TypeOK, Block
    <2> QED
      BY <2>1 DEF IInv, Unfilled, decoder
  <1> QED
    BY <1>2, <1>3, <1>4 DEF IInv

\* The packets a block consists of.
LEMMA PacketsOf ==
  ASSUME NEW b \in Block, NEW i \in 0 .. MaxSends
  PROVE  /\ Data(b, i) \in Packet /\ Repairs(b) \subseteq Packet
         /\ Data(b, i).kind = "data" /\ Data(b, i).blk = b /\ Data(b, i).idx = i
         /\ \A pkt \in Repairs(b) : pkt.kind = "repair" /\ pkt.blk = b
  BY DEF Data, Repairs, Packet

\* Send of a frame that is not the last of its block.
LEMMA SendDataStep ==
  ASSUME IInv, SendData
  PROVE  IInv'
  <1>1. /\ encBlock \in Block /\ encFill \in 0 .. K - 1 /\ sends \in 0 .. MaxSends
        /\ pktIdx \in Nat /\ pktIdx <= sends /\ sends < MaxSends /\ encFill + 1 < K
        /\ encFill' = encFill + 1 /\ pktIdx' = pktIdx + 1 /\ sends' = sends + 1
        /\ net' = OnPaths({Data(encBlock, pktIdx)})
        /\ UNCHANGED <<encBlock, repairCh, decoder, pending, out>>
    BY DEF SendData, IInv, TypeOK, Sent
  <1>2. pktIdx \in 0 .. MaxSends /\ pktIdx # K - 1
    BY <1>1, FecAssumption DEF IInv, Sent, Block
  <1> DEFINE pkt == Data(encBlock, pktIdx)
  <1>3. pkt \in Packet /\ pkt.kind = "data" /\ pkt.blk = encBlock /\ pkt.idx = pktIdx
    BY <1>1, <1>2, PacketsOf
  <1> HIDE DEF pkt
  <1>4. \A p \in Paths : net'[p] \subseteq net[p] \cup {pkt}
    BY <1>1 DEF OnPaths, pkt
  <1>5. Sent'
    <2>1. \A p \in Paths : \A q \in net'[p] :
             /\ q.kind = "data" => q.blk < encBlock \/ (q.blk = encBlock /\ q.idx # K - 1)
             /\ q.kind = "repair" => q.blk < encBlock
      BY <1>2, <1>3, <1>4 DEF IInv, Sent
    <2>2. /\ pktIdx' <= sends'
          /\ R > 0 \/ encBlock = 0 => pktIdx' = encFill'
          /\ R = 0 /\ encBlock > 0 => pktIdx' >= K
      BY <1>1, FecAssumption DEF IInv, Sent
    <2> QED
      BY <1>1, <2>1, <2>2 DEF IInv, Sent
  <1>6. /\ encBlock' \in Block /\ encBlock' >= encBlock /\ encFill' \in 0 .. K - 1
        /\ pktIdx' \in Nat /\ sends' \in 0 .. MaxSends /\ repairCh' \in Seq(Block)
    BY <1>1, FecAssumption DEF IInv, TypeOK, Block
  <1>7. {pkt} \in SUBSET Packet /\ net' = OnPaths({pkt})
    BY <1>1, <1>3 DEF pkt
  <1> QED
    BY <1>1, <1>5, <1>6, <1>7, SenderStep

\* Send of the last frame of a block: everything of the block may now exist.
LEMMA SendLastStep ==
  ASSUME IInv, NEW err \in BOOLEAN, SendLast(err)
  PROVE  IInv'
  <1> DEFINE new == {Data(encBlock, pktIdx)}
                    \cup IF err \/ Len(repairCh) < repairCap THEN {} ELSE Repairs(encBlock)
  <1>1. /\ encBlock \in Block /\ encFill \in 0 .. K - 1 /\ sends \in 0 .. MaxSends
        /\ pktIdx \in Nat /\ pktIdx <= sends /\ sends < MaxSends
        /\ encFill + 1 = K /\ encBlock < MaxBlock
        /\ encFill' = 0 /\ encBlock' = encBlock + 1 /\ sends' = sends + 1
        /\ pktIdx' = IF R > 0 THEN 0 ELSE pktIdx + 1
        /\ repairCh' \in {repairCh, Append(repairCh, encBlock)}
        /\ net' = OnPaths(new)
        /\ UNCHANGED <<decoder, pending, out>>
    BY DEF SendLast, IInv, TypeOK, Sent
  <1>2. pktIdx \in 0 .. MaxSends
    BY <1>1, FecAssumption
  <1>3. new \subseteq Packet /\ \A q \in new : q.blk = encBlock
    BY <1>1, <1>2, PacketsOf
  <1> HIDE DEF new
  <1>4. encBlock' \in Block /\ encBlock < encBlock' /\ encBlock \in Int /\ encBlock' \in Int
    BY <1>1, FecAssumption DEF Block
  <1>5. repairCh' \in Seq(Block) /\ \A i \in 1 .. Len(repairCh') : repairCh'[i] < encBlock'
    <2>1. repairCh \in Seq(Block) /\ \A i \in 1 .. Len(repairCh) : repairCh[i] < encBlock'
      BY <1>4, FecAssumption DEF IInv, TypeOK, Sent, Block
    <2>2. CASE repairCh' = repairCh
      BY <2>1, <2>2
    <2>3. CASE repairCh' = Append(repairCh, encBlock)
      BY <1>1, <1>4, <2>1, <2>3
    <2> QED
      BY <1>1, <2>2, <2>3
  <1>6. \A p \in Paths : \A q \in net'[p] : q.kind \in {"data", "repair"} => q.blk < encBlock'
    <2>1. \A p \in Paths : net'[p] \subseteq net[p] \cup new
      BY <1>1 DEF OnPaths
    <2>2. \A p \in Paths : \A q \in net[p] :
             q.kind \in {"data", "repair"} => q.blk < encBlock \/ q.blk = encBlock
      BY DEF IInv, Sent
    <2>3. \A p \in Paths : \A q \in net[p] : q \in Packet /\ q.blk \in Int
      BY FecAssumption DEF IInv, TypeOK, Packet, Block
    <2> QED
      BY <1>3, <1>4, <2>1, <2>2, <2>3
  <1>7. /\ pktIdx' <= sends' /\ pktIdx' \in Nat
        /\ R > 0 \/ encBlock' = 0 => pktIdx' = encFill'
        /\ R = 0 /\ encBlock' > 0 => pktIdx' >= K
    <2>1. encBlock' # 0
      BY <1>1, <1>4, FecAssumption DEF Block
    <2>2. R = 0 => pktIdx + 1 >= K
      BY <1>1, FecAssumption DEF IInv, Sent, Block
    <2> QED
      BY <1>1, <2>1, <2>2, FecAssumption
  <1>8. Sent'
    BY <1>5, <1>6, <1>7 DEF Sent
  <1> QED
    BY <1>1, <1>3, <1>4, <1>5, <1>7, <1>8, FecAssumption, SenderStep

\* The delayed repair packets of a block that was filled.
LEMMA RepairSenderStep ==
  ASSUME IInv, RepairSender
  PROVE  IInv'
  <1>1. /\ repairCh \in Seq(Block) /\ repairCh # <<>> /\ repairCh' = Tail(repairCh)
        /\ net' = OnPaths(Repairs(Head(repairCh)))
        /\ UNCHANGED <<encBlock, encFill, pktIdx, sends, decoder, pending, out>>
    BY DEF RepairSender, IInv, TypeOK
  <1> DEFINE b == Head(repairCh)
  <1>2. b \in Block /\ b < encBlock
    BY <1>1 DEF IInv, Sent
  <1> HIDE DEF b
  <1>3. Repairs(b) \subseteq Packet /\ \A q \in Repairs(b) : q.kind = "repair" /\ q.blk = b
    BY <1>2, PacketsOf, FecAssumption
  <1>4. repairCh' \in Seq(Block) /\ \A i \in 1 .. Len(repairCh') : repairCh'[i] < encBlock
    BY <1>1 DEF IInv, Sent
  <1>5. \A p \in Paths : net'[p] \subseteq net[p] \cup Repairs(b)
    BY <1>1 DEF OnPaths, b
  <1>6. Sent'
    BY <1>1, <1>2, <1>3, <1>4, <1>5 DEF IInv, Sent
  <1>7. encBlock' \in Block /\ encBlock' >= encBlock
    BY <1>1, FecAssumption DEF IInv, TypeOK, Block
  <1> QED
    BY <1>1, <1>3, <1>4, <1>6, <1>7, SenderStep DEF IInv, TypeOK, b

\* A repair packet that nobody needs is dropped.
LEMMA SkipRepairStep ==
  ASSUME IInv, NEW p \in Paths, NEW pkt \in net[p], SkipRepair(p, pkt)
  PROVE  IInv'
  <1>1. /\ net' = [net EXCEPT ![p] = @ \ {pkt}]
        /\ UNCHANGED <<sender, decoder, pending, out>>
    BY DEF SkipRepair
  <1>2. net' \in [Paths -> SUBSET Packet] /\ Sent'
    BY <1>1, TakeFromNet
  <1>3. TypeOK'
    BY <1>1, <1>2 DEF IInv, TypeOK, sender, decoder
  <1> QED
    BY <1>1, <1>2, <1>3
       DEF IInv, DecoderOK, Unfilled, HandedOn, OrderedWithinBlock, NothingForgotten,
           sender, decoder

\* The stale flush: what it hands on lies above delivered, and the block it closes
\* had a gap.
LEMMA FlushStaleStep ==
  ASSUME IInv, FlushStale
  PROVE  IInv'
  <1>1. /\ pending = {} /\ UNCHANGED <<sender, net, maxSeen, minBlockID, out, inc>>
        /\ blocks \in [Block -> DecBlock]
        /\ \A b \in Block : WellFormed(blocks[b])
    BY DEF FlushStale, IInv, TypeOK, DecoderOK
  <1>2. \A b \in Block : Stuck(b) =>
           /\ blocks'[b] \in DecBlock /\ blocks'[b].delivered = K /\ blocks'[b].done = TRUE
           /\ blocks'[b].live = TRUE
           /\ blocks'[b].data = blocks[b].data /\ blocks'[b].repair = blocks[b].repair
    <2> SUFFICES ASSUME NEW b \in Block, Stuck(b)
                 PROVE  /\ blocks'[b] \in DecBlock /\ blocks'[b].delivered = K
                        /\ blocks'[b].done = TRUE /\ blocks'[b].live = TRUE
                        /\ blocks'[b].data = blocks[b].data
                        /\ blocks'[b].repair = blocks[b].repair
      OBVIOUS
    <2>1. blocks'[b] = [blocks[b] EXCEPT !.delivered = K, !.done = TRUE]
      BY DEF FlushStale
    <2>2. K \in 0 .. K
      BY FecAssumption
    <2>3. blocks'[b] = [live |-> blocks[b].live, data |-> blocks[b].data,
                        repair |-> blocks[b].repair, delivered |-> K, done |-> TRUE,
                        age |-> blocks[b].age]
      BY <1>1, <2>1, <2>2, Delivered
    <2>4. blocks[b].live = TRUE
      BY <1>1 DEF Stuck, DecBlock
    <2> QED
      BY <1>1, <2>2, <2>3, <2>4 DEF DecBlock
  <1>3. \A b \in Block : ~ Stuck(b) => blocks'[b] = blocks[b]
    BY DEF FlushStale
  <1>4. /\ \A f \in pending' : /\ f[1] \in Block /\ Stuck(f[1]) /\ f[2] \in blocks[f[1]].data
                              /\ f[2] >= blocks[f[1]].delivered /\ f = <<f[1], f[2]>>
        /\ \A b \in Block : Stuck(b) =>
              \A i \in blocks[b].data : i >= blocks[b].delivered => <<b, i>> \in pending'
    <2>1. pending' = UNION {{<<b, i>> : i \in {j \in blocks[b].data : j >= blocks[b].delivered}}
                            : b \in {n \in Block : Stuck(n)}}
      BY DEF FlushStale
    <2> QED
      BY <2>1
  <1>5. /\ blocks' \in [Block -> DecBlock]
        /\ \A b \in Block : /\ WellFormed(blocks'[b]) /\ blocks'[b].data = blocks[b].data
                            /\ blocks'[b].repair = blocks[b].repair
                            /\ blocks[b].data \subseteq Slot /\ blocks[b].delivered \in 0 .. K
                            /\ blocks'[b].delivered \in blocks[b].delivered .. K
    <2>1. blocks' = [b \in Block |-> blocks'[b]]
      BY DEF FlushStale
    <2>2. ASSUME NEW b \in Block
          PROVE  /\ blocks'[b] \in DecBlock /\ WellFormed(blocks'[b])
                 /\ blocks'[b].data = blocks[b].data
                 /\ blocks'[b].repair = blocks[b].repair
                 /\ blocks[b].data \subseteq Slot /\ blocks[b].delivered \in 0 .. K
                 /\ blocks'[b].delivered \in blocks[b].delivered .. K
      <3>1. blocks[b] \in DecBlock /\ blocks[b].delivered \in 0 .. K /\ blocks[b].data \subseteq Slot
        BY <1>1 DEF DecBlock
      <3>2. CASE Stuck(b)
        BY <1>2, <3>1, <3>2, FecAssumption DEF WellFormed
      <3>3. CASE ~ Stuck(b)
        BY <1>1, <1>3, <3>1, <3>3, FecAssumption
      <3> QED
        BY <3>2, <3>3
    <2> QED
      BY <2>1, <2>2
  <1>6. TypeOK' /\ Sent'
    <2>1. pending' \subseteq Block \X Slot
      BY <1>4, <1>5
    <2> QED
      BY <1>1, <1>5, <2>1 DEF IInv, TypeOK, Sent, sender
  <1>7. DecoderOK'
    <2>1. \A f \in pending' : f[2] \in Slot /\ blocks'[f[1]].delivered = K
      BY <1>2, <1>4, <1>5
    <2> QED
      BY <1>5, <2>1, FecAssumption DEF DecoderOK, Slot
  <1>8. Unfilled'
    <2> SUFFICES ASSUME NEW b \in Block, b >= encBlock
                 PROVE  /\ blocks'[b].repair = {} /\ K - 1 \notin blocks'[b].data
                        /\ blocks'[b].done => Gap(blocks'[b])
      BY <1>1 DEF Unfilled, sender
    <2>1. /\ blocks[b].repair = {} /\ K - 1 \notin blocks[b].data
          /\ blocks[b].done => Gap(blocks[b])
      BY DEF IInv, Unfilled
    <2>2. CASE ~ Stuck(b)
      BY <1>3, <2>1, <2>2
    <2>3. CASE Stuck(b)
      <3>1. blocks[b].delivered \notin blocks[b].data
        BY <1>1, <2>3 DEF Stuck, WellFormed
      <3>2. PICK j \in blocks[b].data : j >= blocks[b].delivered
        BY <2>3 DEF Stuck
      <3>3. blocks[b].delivered \in 0 .. j - 1
        BY <1>5, <3>1, <3>2, FecAssumption DEF Slot
      <3> QED
        BY <1>5, <2>1, <3>1, <3>3 DEF Gap
    <2> QED
      BY <2>2, <2>3
  <1>9. HandedOn'
    <2> SUFFICES ASSUME NEW m \in 1 .. Len(out)
                 PROVE  /\ out[m][3] <= inc[out[m][1]]
                        /\ out[m][3] = inc[out[m][1]] =>
                              /\ out[m][2] < blocks'[out[m][1]].delivered
                              /\ \A f \in pending' : f[1] = out[m][1] => out[m][2] < f[2]
      BY <1>1 DEF HandedOn
    <2> DEFINE n == out[m][1]
    <2>1. /\ n \in Block /\ out[m][2] \in Int /\ out[m][3] <= inc[n]
          /\ out[m][3] = inc[n] => out[m][2] < blocks[n].delivered
      <3>1. out[m] \in Block \X Slot \X Nat
        BY DEF IInv, TypeOK
      <3> QED
        BY <3>1, FecAssumption DEF IInv, HandedOn, Slot
    <2> HIDE DEF n
    <2>2. /\ blocks[n].delivered \in Int /\ blocks'[n].delivered \in Int
          /\ blocks[n].delivered <= blocks'[n].delivered
      BY <1>5, <2>1, FecAssumption
    <2>3. \A f \in pending' : f[2] \in Int /\ (f[1] = n => f[2] >= blocks[n].delivered)
      BY <1>4, <1>5, FecAssumption DEF Slot
    <2> QED
      BY <2>1, <2>2, <2>3 DEF n
  <1>10. OrderedWithinBlock'
    BY <1>1 DEF IInv, OrderedWithinBlock
  <1>11. NothingForgotten'
    <2> SUFFICES ASSUME NEW b \in Block, NEW i \in blocks'[b].data, i < blocks'[b].delivered
                 PROVE  \/ <<b, i>> \in pending'
                        \/ \E m \in 1 .. Len(out) : out[m] = <<b, i, inc[b]>>
      BY <1>1 DEF NothingForgotten
    <2>1. i \in blocks[b].data /\ i \in Int /\ blocks[b].delivered \in Int
      BY <1>5, FecAssumption DEF Slot
    <2>2. CASE i < blocks[b].delivered
      BY <1>1, <2>1, <2>2 DEF IInv, NothingForgotten
    <2>3. CASE i >= blocks[b].delivered
      BY <1>3, <1>4, <2>1, <2>3
    <2> QED
      BY <2>1, <2>2, <2>3
  <1> QED
    BY <1>6, <1>7, <1>8, <1>9, <1>10, <1>11 DEF IInv

\* The delivery loop takes the least frame that is pending.
LEMMA DeliverStep ==
  ASSUME IInv, Deliver
  PROVE  IInv'
  <1>1. PICK f \in pending : /\ \A g \in pending : Before(f, g)
                             /\ pending' = pending \ {f}
                             /\ out' = Append(out, <<f[1], f[2], inc[f[1]]>>)
                             /\ UNCHANGED <<sender, net, decoder>>
    BY DEF Deliver
  <1> DEFINE e == <<f[1], f[2], inc[f[1]]>>
             last == Len(out) + 1
  <1>2. /\ f \in Block \X Slot /\ f = <<f[1], f[2]>> /\ f[1] \in Block /\ f[2] \in Slot
        /\ f[2] < blocks[f[1]].delivered
        /\ inc[f[1]] \in Nat /\ out \in Seq(Block \X Slot \X Nat)
    BY DEF IInv, TypeOK, DecoderOK
  <1>3. e \in Block \X Slot \X Nat /\ e[1] = f[1] /\ e[2] = f[2] /\ e[3] = inc[f[1]]
    BY <1>2
  <1> HIDE DEF e
  <1>4. /\ out' \in Seq(Block \X Slot \X Nat) /\ Len(out) \in Nat /\ Len(out') = last
        /\ \A m \in 1 .. Len(out) : out'[m] = out[m]
        /\ out'[last] = e
    BY <1>1, <1>2, <1>3 DEF e
  <1>5. TypeOK'
    BY <1>1, <1>4 DEF IInv, TypeOK, sender, decoder
  <1>6. Sent' /\ DecoderOK' /\ Unfilled'
    BY <1>1 DEF IInv, Sent, DecoderOK, Unfilled, sender, decoder
  <1>7. \A g \in pending' : g[1] = f[1] => f[2] < g[2]
    <2> SUFFICES ASSUME NEW g \in pending', g[1] = f[1]
                 PROVE  f[2] < g[2]
      OBVIOUS
    <2>1. g \in pending /\ g # f /\ g = <<g[1], g[2]>> /\ g[2] \in Int /\ f[1] \in Int
      BY <1>1, <1>2, FecAssumption DEF IInv, TypeOK, Slot, Block
    <2>2. f[2] <= g[2] /\ f[2] # g[2]
      BY <1>1, <1>2, <2>1 DEF Before
    <2> QED
      BY <1>2, <2>1, <2>2, FecAssumption DEF Slot
  <1>8. HandedOn'
    <2> SUFFICES ASSUME NEW m \in 1 .. Len(out')
                 PROVE  /\ out'[m][3] <= inc[out'[m][1]]
                        /\ out'[m][3] = inc[out'[m][1]] =>
                              /\ out'[m][2] < blocks[out'[m][1]].delivered
                              /\ \A g \in pending' : g[1] = out'[m][1] => out'[m][2] < g[2]
      BY <1>1 DEF HandedOn, decoder
    <2>1. CASE m = last
      BY <1>2, <1>3, <1>4, <1>7, <2>1
    <2>2. CASE m # last
      <3>1. m \in 1 .. Len(out) /\ out'[m] = out[m]
        BY <1>4, <2>2
      <3> QED
        BY <1>1, <3>1 DEF IInv, HandedOn
    <2> QED
      BY <2>1, <2>2
  <1>9. OrderedWithinBlock'
    <2> SUFFICES ASSUME NEW m \in 1 .. Len(out'), NEW n \in 1 .. Len(out'), m < n,
                        out'[m][1] = out'[n][1], out'[m][3] = out'[n][3]
                 PROVE  out'[m][2] < out'[n][2]
      BY DEF OrderedWithinBlock
    <2>1. m \in 1 .. Len(out) /\ out'[m] = out[m]
      BY <1>4
    <2>2. CASE n = last
      BY <1>1, <1>3, <1>4, <2>1, <2>2 DEF IInv, HandedOn
    <2>3. CASE n # last
      <3>1. n \in 1 .. Len(out) /\ out'[n] = out[n]
        BY <1>4, <2>3
      <3> QED
        BY <2>1, <3>1 DEF IInv, OrderedWithinBlock
    <2> QED
      BY <2>2, <2>3
  <1>10. NothingForgotten'
    <2> SUFFICES ASSUME NEW b \in Block, NEW i \in blocks[b].data, i < blocks[b].delivered
                 PROVE  \/ <<b, i>> \in pending'
                        \/ \E m \in 1 .. Len(out') : out'[m] = <<b, i, inc[b]>>
      BY <1>1 DEF NothingForgotten, decoder
    <2>1. \/ <<b, i>> \in pending
          \/ \E m \in 1 .. Len(out) : out[m] = <<b, i, inc[b]>>
      BY DEF IInv, NothingForgotten
    <2>2. CASE <<b, i>> = f
      <3>1. out'[last] = <<b, i, inc[b]>> /\ last \in 1 .. Len(out')
        BY <1>4, <2>2 DEF e
      <3> QED
        BY <3>1
    <2>3. CASE <<b, i>> \in pending /\ <<b, i>> # f
      BY <1>1, <2>3
    <2>4. CASE \E m \in 1 .. Len(out) : out[m] = <<b, i, inc[b]>>
      BY <1>4, <2>4
    <2> QED
      BY <2>1, <2>2, <2>3, <2>4
  <1> QED
    BY <1>5, <1>6, <1>8, <1>9, <1>10 DEF IInv

\* Only the ages of blocks that are in the decoder change.
LEMMA TickStep ==
  ASSUME IInv, Tick
  PROVE  IInv'
  <1>1. /\ blocks \in [Block -> DecBlock]
        /\ UNCHANGED <<sender, net, maxSeen, minBlockID, pending, out, inc>>
    BY DEF Tick, IInv, TypeOK
  <1>2. ASSUME NEW b \in Block
        PROVE  /\ blocks'[b] \in DecBlock /\ WellFormed(blocks'[b])
               /\ blocks'[b].data = blocks[b].data /\ blocks'[b].repair = blocks[b].repair
               /\ blocks'[b].delivered = blocks[b].delivered
               /\ blocks'[b].done = blocks[b].done
    <2>1. blocks[b] \in DecBlock /\ WellFormed(blocks[b])
      BY <1>1 DEF IInv, DecoderOK
    <2>2. CASE blocks[b].age \in 0 .. blockKeepAge
      <3>1. blocks'[b] = [blocks[b] EXCEPT !.age = blocks[b].age + 1]
        BY <2>2 DEF Tick
      <3>2. blocks'[b] = [live |-> blocks[b].live, data |-> blocks[b].data,
                          repair |-> blocks[b].repair, delivered |-> blocks[b].delivered,
                          done |-> blocks[b].done, age |-> blocks[b].age + 1]
        BY <2>1, <3>1, OneField
      <3>3. blocks[b].age + 1 \in Nat
        BY <2>2, FecAssumption
      <3>4. blocks[b].live
        BY <2>1, <2>2, FecAssumption DEF WellFormed, returnBlock, Never
      <3> QED
        BY <2>1, <3>2, <3>3, <3>4 DEF DecBlock, WellFormed
    <2>3. CASE blocks[b].age \notin 0 .. blockKeepAge
      <3>1. blocks'[b] = blocks[b]
        BY <2>3 DEF Tick
      <3> QED
        BY <2>1, <3>1
    <2> QED
      BY <2>2, <2>3
  <1>3. blocks' \in [Block -> DecBlock]
    <2>1. blocks' = [b \in Block |-> blocks'[b]]
      BY DEF Tick
    <2> QED
      BY <1>2, <2>1
  <1>4. TypeOK' /\ Sent' /\ OrderedWithinBlock'
    BY <1>1, <1>3 DEF IInv, TypeOK, Sent, OrderedWithinBlock, sender
  <1>5. DecoderOK' /\ Unfilled' /\ NothingForgotten'
    BY <1>1, <1>2 DEF IInv, TypeOK, DecoderOK, Unfilled, Gap, NothingForgotten, sender
  <1>6. HandedOn'
    <2>1. \A n \in 1 .. Len(out) : out[n][1] \in Block
      BY DEF IInv, TypeOK
    <2> QED
      BY <1>1, <1>2, <2>1 DEF IInv, HandedOn
  <1> QED
    BY <1>4, <1>5, <1>6 DEF IInv

LEMMA InvariantHolds == Spec => []IInv
  <1>1. IInv /\ [Next]_vars => IInv'
    <2> SUFFICES ASSUME IInv, [Next]_vars PROVE IInv'
      OBVIOUS
    <2>1. CASE UNCHANGED vars
      BY <2>1 DEF vars, sender, decoder, IInv, TypeOK, Sent, DecoderOK, Unfilled, HandedOn,
                  OrderedWithinBlock, NothingForgotten
    <2>2. CASE Next
      BY <2>2, SendDataStep, SendLastStep, RepairSenderStep, RecvStep, SkipRepairStep,
         FlushStaleStep, DeliverStep, TickStep DEF Next
    <2> QED
      BY <2>1, <2>2
  <1> QED
    BY <1>1, InitIInv, PTL DEF Spec

-------------------------------------------------------------------------------
\* The state of the pipe and of the decoder is well typed (pipe.go, fec.go).
THEOREM TypeCorrect == Spec => []TypeOK
  BY InvariantHolds, PTL DEF IInv

\* While the decoder remembers a block, it hands its frames on in order and at most
\* once (tryRecover and FlushStale under orderMu).
THEOREM InOrder == Spec => []OrderedWithinBlock
  BY InvariantHolds, PTL DEF IInv

\* What lies below the delivery position of a block was handed on or is about to be:
\* neither recovery nor the stale flush loses a frame (tryRecover, FlushStale).
THEOREM AllHandedOn == Spec => []NothingForgotten
  BY InvariantHolds, PTL DEF IInv

\* A block that is still waited for has fewer than K packets: the decoder never
\* waits for more than it needs (tryRecover).
THEOREM NeverWaitsForMore == Spec => []AnyKSuffice
  <1>1. IInv => AnyKSuffice
    BY DEF IInv, DecoderOK, WellFormed, AnyKSuffice
  <1> QED
    BY <1>1, InvariantHolds, PTL

\* Only a block with a gap is closed before its sender has filled it: the stale flush
\* does not take a slow sender for a loss (FlushStale).
THEOREM SlowIsNotLost == Spec => []NotClosedEarly
  <1>1. IInv => NotClosedEarly
    BY DEF IInv, Unfilled, Gap, NotClosedEarly
  <1> QED
    BY <1>1, InvariantHolds, PTL
===============================================================================
