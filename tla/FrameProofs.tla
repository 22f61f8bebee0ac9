----------------------------- MODULE FrameProofs ------------------------------
(***************************************************************************)
(* Proofs about what becomes of a frame on its way.                         *)
(*                                                                          *)
(* Fragmentation, for every number and length of frames, every piece size,  *)
(* number of identifiers, time-to-live, capacity and set of paths: what is  *)
(* returned is one whole frame, once as long as its entry is remembered,    *)
(* and only newcomers in sufficient number crowd an entry out.              *)
(*                                                                          *)
(* The hub, for any number of sessions and addresses, any lifetime of   *)
(* an entry and any number of Forwards at the same time: where a Forward    *)
(* sends a frame, and that active stations stay known.                      *)
(***************************************************************************)
EXTENDS Fragment, Hub, FiniteSetTheorems, TLAPS

-------------------------------------------------------------------------------
(* Splitting. *)

\* Division leaves a remainder smaller than the divisor.
LEMMA Division ==
    ASSUME NEW x \in Nat, NEW d \in Nat \ {0}
    PROVE  /\ x \div d \in Nat
           /\ (x \div d) * d <= x /\ x < (x \div d) * d + d
OBVIOUS

\* A frame that needs splitting gets at least two pieces; all but the last are
\* full and lie inside the frame.
LEMMA CountFits ==
    ASSUME NEW n \in Frame
    PROVE  /\ Count(n) \in Nat /\ Count(n) >= 2
           /\ (Count(n) - 1) * maxPiece < Length[n]
           /\ Length[n] <= Count(n) * maxPiece
<1> DEFINE L == Length[n]
           q == (L + maxPiece - 1) \div maxPiece
<1>1. L \in Nat /\ maxPiece \in Nat \ {0} /\ L > maxPiece /\ L + maxPiece - 1 \in Nat
    BY FragmentAssumption DEF Frame
<1>2. q \in Nat /\ q * maxPiece <= L + maxPiece - 1 /\ L + maxPiece - 1 < q * maxPiece + maxPiece
    BY <1>1, Division
<1> HIDE DEF q, L
<1>3. q >= 2
    <2>1. CASE q = 0
        BY <1>1, <1>2, <2>1
    <2>2. CASE q = 1
        BY <1>1, <1>2, <2>2
    <2> QED
        BY <1>2, <2>1, <2>2
<1>4. (q - 1) * maxPiece = q * maxPiece - maxPiece
    BY <1>1, <1>2
<1>5. (q - 1) * maxPiece < L /\ L <= q * maxPiece
    <2> DEFINE y == q * maxPiece
    <2>1. y \in Nat
        BY <1>1, <1>2
    <2>2. y <= L + maxPiece - 1 /\ L + maxPiece - 1 < y + maxPiece /\ (q - 1) * maxPiece = y - maxPiece
        BY <1>2, <1>4
    <2> HIDE DEF y
    <2>3. y - maxPiece < L /\ L <= y
        BY <1>1, <2>1, <2>2
    <2> QED
        BY <2>2, <2>3 DEF y
<1> QED
    BY <1>2, <1>3, <1>5 DEF Count, q, L

\* What a piece says of itself and of its frame.
LEMMA PieceSays ==
    ASSUME NEW pc \in Piece
    PROVE  /\ pc.frame \in Frame /\ pc.count = Count(pc.frame)
           /\ pc.idx \in 0 .. pc.count - 1
           /\ pc.from = pc.idx * maxPiece
           /\ pc.to = Smaller((pc.idx + 1) * maxPiece, Length[pc.frame])
BY DEF Piece, Split

\* Identifiers are numbers below IdSpace.
LEMMA IdType == \A n \in Frame : fragID(n) \in Id
<1> SUFFICES ASSUME NEW n \in Frame PROVE n % IdSpace \in 0 .. IdSpace - 1
    BY DEF fragID, Id
<1>1. n \in Nat /\ IdSpace \in Nat /\ IdSpace > 0
    BY FragmentAssumption DEF Frame
<1> QED
    BY <1>1

\* The pieces of a frame in the order of their indices cover it without gap or
\* overlap.
LEMMA PiecesCover ==
    ASSUME NEW n \in Frame, NEW pcs,
           \A i \in 0 .. Count(n) - 1 : pcs[i] \in Piece /\ pcs[i].frame = n /\ pcs[i].idx = i
    PROVE  /\ pcs[0].from = 0 /\ pcs[Count(n) - 1].to = Length[n]
           /\ \A i \in 1 .. Count(n) - 1 : pcs[i].from = pcs[i - 1].to
<1> DEFINE c == Count(n)
<1>1. /\ c \in Nat /\ c >= 2 /\ maxPiece \in Nat /\ Length[n] \in Nat
      /\ (c - 1) * maxPiece < Length[n] /\ Length[n] <= c * maxPiece
    BY CountFits, FragmentAssumption DEF Frame
<1>2. \A i \in 0 .. c - 1 : /\ pcs[i].from = i * maxPiece
                            /\ pcs[i].to = Smaller((i + 1) * maxPiece, Length[n])
    BY PieceSays
<1> HIDE DEF c
<1>3. pcs[0].from = 0
    BY <1>1, <1>2
<1>4. pcs[c - 1].to = Length[n]
    <2>1. c - 1 \in 0 .. c - 1 /\ (c - 1) + 1 = c /\ c * maxPiece \in Nat
        BY <1>1
    <2> QED
        BY <1>1, <1>2, <2>1 DEF Smaller
<1>5. ASSUME NEW i \in 1 .. c - 1
      PROVE  pcs[i].from = pcs[i - 1].to
    <2>1. i \in 0 .. c - 1 /\ i - 1 \in 0 .. c - 1 /\ (i - 1) + 1 = i
        BY <1>1
    <2>2. i * maxPiece < Length[n] /\ i * maxPiece \in Nat
        <3>1. i * maxPiece <= (c - 1) * maxPiece
            <4>1. i \in Nat /\ c - 1 \in Nat /\ i <= c - 1
                BY <1>1
            <4> QED
                BY <1>1, <4>1
        <3> DEFINE x == i * maxPiece
                   y == (c - 1) * maxPiece
        <3>2. x \in Nat /\ y \in Nat /\ x <= y /\ y < Length[n]
            BY <1>1, <2>1, <3>1
        <3> HIDE DEF x, y
        <3>3. x < Length[n] /\ x \in Nat
            BY <1>1, <3>2
        <3> QED
            BY <3>3 DEF x
    <2> QED
        BY <1>1, <1>2, <2>1, <2>2 DEF Smaller
<1> QED
    BY <1>3, <1>4, <1>5 DEF c

-------------------------------------------------------------------------------
(* Entries. *)

\* A piece that belongs at index i of an entry of c pieces under an identifier.
Belongs(pc, id, c, i) ==
    pc \in Piece /\ pc.idx = i /\ pc.count = c /\ fragID(pc.frame) = id

\* An entry holds pieces that belong where they are.
Sound(id, part) ==
    \A i \in DOMAIN part.pieces :
        part.pieces[i] # None => Belongs(part.pieces[i], id, CountOf(part), i)

\* What was returned is a piece for every index.
Whole(o, id) ==
    \E n \in Frame : /\ o.pieces \in [0 .. Count(n) - 1 -> Piece]
                     /\ \A i \in 0 .. Count(n) - 1 : Belongs(o.pieces[i], id, Count(n), i)

\* The size of an entry is the number of pieces of a frame.
LEMMA CountOfEntry ==
    ASSUME NEW n \in Frame, NEW S, NEW pcs \in [0 .. Count(n) - 1 -> S]
    PROVE  Cardinality(DOMAIN pcs) = Count(n)
<1>1. DOMAIN pcs = 0 .. Count(n) - 1 /\ Count(n) \in Nat /\ Count(n) >= 2
    BY CountFits
<1>2. Cardinality(0 .. Count(n) - 1) = Count(n)
    BY <1>1, FS_Interval
<1> QED
    BY <1>1, <1>2

\* An entry that was just opened is sound, as large as its first piece says.
LEMMA FreshSound ==
    ASSUME NEW pc \in Piece, NEW id
    PROVE  /\ Fresh(pc.count) \in Partial /\ Sound(id, Fresh(pc.count))
           /\ CountOf(Fresh(pc.count)) = pc.count /\ ~Fresh(pc.count).done
           /\ Fresh(pc.count).age = 0
<1> DEFINE n == pc.frame
           r == Fresh(pc.count)
<1>1. n \in Frame /\ pc.count = Count(n)
    BY PieceSays
<1>2. /\ r.pieces = [i \in 0 .. Count(n) - 1 |-> None] /\ r.age = 0 /\ r.done = FALSE
      /\ r = [pieces |-> r.pieces, age |-> 0, done |-> FALSE]
    BY <1>1 DEF Fresh
<1>3. r.pieces \in [0 .. Count(n) - 1 -> Piece \cup {None}]
    BY <1>2
<1>4. reassemblyTTL \in Nat
    BY FragmentAssumption
<1>5. r \in Partial
    <2>1. r.pieces \in UNION {[0 .. Count(m) - 1 -> Piece \cup {None}] : m \in Frame}
        BY <1>1, <1>3
    <2> HIDE DEF r
    <2>2. r.done \in BOOLEAN
        BY <1>2
    <2>3. 0 \in 0 .. reassemblyTTL + 1
        BY <1>4
    <2>4. r.age \in 0 .. reassemblyTTL + 1
        BY <1>2, <2>3
    <2> QED
        BY <1>2, <2>1, <2>2, <2>4 DEF Partial
<1>6. CountOf(r) = Count(n)
    BY <1>1, <1>3, CountOfEntry DEF CountOf
<1> QED
    BY <1>1, <1>2, <1>5, <1>6 DEF Sound

\* What is left of a finished entry: the tombstone.
Tombstone(part) ==
    [part EXCEPT !.done = TRUE, !.pieces = [i \in DOMAIN part.pieces |-> None]]

\* The pieces of an entry are those of the frames of one size.
LEMMA PartialPieces ==
    ASSUME NEW part \in Partial
    PROVE  /\ \E n \in Frame : /\ part.pieces \in [0 .. Count(n) - 1 -> Piece \cup {None}]
                               /\ CountOf(part) = Count(n)
           /\ part.age \in 0 .. reassemblyTTL + 1 /\ part.done \in BOOLEAN
<1>1. PICK n \in Frame : part.pieces \in [0 .. Count(n) - 1 -> Piece \cup {None}]
    BY DEF Partial
<1>2. CountOf(part) = Count(n)
    BY <1>1, CountOfEntry DEF CountOf
<1> QED
    BY <1>1, <1>2 DEF Partial

\* A tombstone is an entry, and remembers nothing but that it is done.
LEMMA TombstoneSound ==
    ASSUME NEW part \in Partial, NEW id
    PROVE  /\ Tombstone(part) \in Partial /\ Sound(id, Tombstone(part))
           /\ Tombstone(part).done
<1>1. PICK n \in Frame : part.pieces \in [0 .. Count(n) - 1 -> Piece \cup {None}]
    BY PartialPieces
<1> DEFINE none == [i \in DOMAIN part.pieces |-> None]
           r == [part EXCEPT !.done = TRUE]
<1>2. none \in [0 .. Count(n) - 1 -> Piece \cup {None}]
    BY <1>1
<1>3. none \in UNION {[0 .. Count(m) - 1 -> Piece \cup {None}] : m \in Frame}
    BY <1>2
<1>4. \A i \in DOMAIN none : none[i] = None
    OBVIOUS
<1>5. r \in Partial /\ r.done
    BY DEF Partial
<1>6. Tombstone(part) = [r EXCEPT !.pieces = none]
    BY DEF Tombstone
<1> HIDE DEF none, r
<1>7. /\ [r EXCEPT !.pieces = none] \in Partial
      /\ [r EXCEPT !.pieces = none].pieces = none /\ [r EXCEPT !.pieces = none].done
    BY <1>3, <1>5 DEF Partial
<1> QED
    BY <1>4, <1>6, <1>7 DEF Sound

\* Storing a piece under its own index keeps an entry sound.
LEMMA FilledSound ==
    ASSUME NEW part \in Partial, NEW pc \in Piece, NEW id, id = fragID(pc.frame),
           Sound(id, part), CountOf(part) = pc.count
    PROVE  LET filled == [part EXCEPT !.pieces[pc.idx] = pc]
           IN  /\ filled \in Partial /\ Sound(id, filled)
               /\ CountOf(filled) = CountOf(part) /\ filled.done = part.done
<1>1. PICK n \in Frame : /\ part.pieces \in [0 .. Count(n) - 1 -> Piece \cup {None}]
                         /\ CountOf(part) = Count(n)
    BY PartialPieces
<1> DEFINE pcs == [part.pieces EXCEPT ![pc.idx] = pc]
           filled == [part EXCEPT !.pieces[pc.idx] = pc]
<1>2. /\ pcs \in [0 .. Count(n) - 1 -> Piece \cup {None}]
      /\ pc.idx \in 0 .. Count(n) - 1
      /\ pcs[pc.idx] = pc
      /\ \A i \in (0 .. Count(n) - 1) \ {pc.idx} : pcs[i] = part.pieces[i]
    BY <1>1, PieceSays
<1>3. pcs \in UNION {[0 .. Count(m) - 1 -> Piece \cup {None}] : m \in Frame}
    BY <1>2
<1>4. filled = [part EXCEPT !.pieces = pcs]
    BY DEF Partial
<1> HIDE DEF pcs, filled
<1>5. filled \in Partial /\ filled.pieces = pcs /\ filled.done = part.done
    BY <1>3, <1>4 DEF Partial
<1>6. CountOf(filled) = Count(n)
    BY <1>2, <1>5, CountOfEntry DEF CountOf
<1>7. Belongs(pc, id, Count(n), pc.idx)
    BY <1>1 DEF Belongs
<1>8. Sound(id, filled)
    BY <1>1, <1>2, <1>5, <1>6, <1>7 DEF Sound
<1> QED
    BY <1>1, <1>5, <1>6, <1>8 DEF filled

-------------------------------------------------------------------------------
(* The inductive invariant. *)

Returned == [pieces : UNION {[0 .. Count(n) - 1 -> Piece] : n \in Frame}, epoch : Nat]

\* The identifier under which a frame was put together.
IdOf(o) == fragID(o.pieces[0].frame)

\* Entries hold pieces where they belong.
Entries == \A id \in Held : Sound(id, pending[id])

\* What was returned is whole, and as long as its entry was not dropped there is a
\* tombstone.
Returns ==
    \A k \in DOMAIN out :
        /\ IdOf(out[k]) \in Id /\ Whole(out[k], IdOf(out[k]))
        /\ out[k].epoch <= evicted[IdOf(out[k])]
        /\ out[k].epoch = evicted[IdOf(out[k])] =>
              IdOf(out[k]) \in Held /\ pending[IdOf(out[k])].done

\* Between two evictions of its entry an identifier returns one frame at most.
Once ==
    \A j, k \in DOMAIN out :
        IdOf(out[j]) = IdOf(out[k]) /\ out[j].epoch = out[k].epoch => j = k

Types ==
    /\ sent \in 0..NFrames
    /\ net \in [Paths -> SUBSET Piece]
    /\ pending \in [Id -> Partial \cup {None}]
    /\ out \in Seq(Returned)
    /\ evicted \in [Id -> Nat]
    /\ since \in [Id -> SUBSET Id]

IInv == Types /\ Entries /\ Returns /\ Once

\* Sound entries have the type the model gives them.
LEMMA IInvType == IInv => TypeOK
<1> SUFFICES ASSUME IInv, NEW id \in Held, NEW i \in DOMAIN pending[id].pieces
             PROVE  pending[id].pieces[i] \in {None} \cup {pc \in Piece : pc.idx = i}
    BY DEF IInv, Types, TypeOK, Returned
<1> QED
    BY DEF IInv, Entries, Sound, Belongs

\* Storing a piece: the entry stays sound, and what is returned is whole and
\* leaves a tombstone.
LEMMA StoreSound ==
    ASSUME NEW part \in Partial, NEW pc \in Piece, NEW id, id = fragID(pc.frame),
           Sound(id, part), CountOf(part) = pc.count, NEW entries, Store(pc, part, entries),
           evicted'[id] \in Nat
    PROVE  \E r \in Partial :
              /\ Sound(id, r) /\ pending' = [entries EXCEPT ![id] = r]
              /\ \/ out' = out
                 \/ r.done /\ \E o \in Returned : /\ out' = Append(out, o)
                                                  /\ o.epoch = evicted'[id]
                                                  /\ Whole(o, id) /\ IdOf(o) = id
<1> DEFINE filled == IF part.pieces[pc.idx] # None THEN part
                     ELSE [part EXCEPT !.pieces[pc.idx] = pc]
           complete == \A i \in DOMAIN filled.pieces : filled.pieces[i] # None
           o == [pieces |-> filled.pieces, epoch |-> evicted'[id]]
<1>1. filled \in Partial /\ Sound(id, filled) /\ CountOf(filled) = CountOf(part)
    BY FilledSound
<1>2. /\ pending' = [entries EXCEPT ![id] = IF complete THEN Tombstone(filled) ELSE filled]
      /\ out' = IF complete THEN Append(out, o) ELSE out
    BY DEF Store, Kept, Tombstone
<1> HIDE DEF filled
<1>3. CASE ~complete
    BY <1>1, <1>2, <1>3
<1>4. CASE complete
    <2>1. /\ Tombstone(filled) \in Partial /\ Sound(id, Tombstone(filled))
          /\ Tombstone(filled).done
        BY <1>1, TombstoneSound
    <2>2. PICK n \in Frame : /\ filled.pieces \in [0 .. Count(n) - 1 -> Piece \cup {None}]
                             /\ CountOf(filled) = Count(n)
        BY <1>1, PartialPieces
    <2>3. /\ filled.pieces \in [0 .. Count(n) - 1 -> Piece]
          /\ \A i \in 0 .. Count(n) - 1 : Belongs(filled.pieces[i], id, Count(n), i)
        BY <1>1, <1>4, <2>2 DEF Sound
    <2>4. o.pieces = filled.pieces /\ o.epoch = evicted'[id]
        OBVIOUS
    <2>5. o \in Returned
        BY <2>3 DEF Returned
    <2> HIDE DEF o
    <2>6. Whole(o, id)
        BY <2>3, <2>4 DEF Whole
    <2>7. IdOf(o) = id
        <3>1. 0 \in 0 .. Count(n) - 1
            BY CountFits
        <3> QED
            BY <2>3, <2>4, <3>1 DEF IdOf, Belongs
    <2> QED
        BY <1>2, <1>4, <2>1, <2>4, <2>5, <2>6, <2>7
<1> QED
    BY <1>3, <1>4

\* Add with an entry that is not done: whatever entries were dropped to make room
\* were counted.
LEMMA AddKeeps ==
    ASSUME IInv, NEW entries \in [Id -> Partial \cup {None}], NEW id \in Id,
           NEW r \in Partial, Sound(id, r), pending' = [entries EXCEPT ![id] = r],
           id \in Held => ~pending[id].done,
           \A x \in Id \ {id} :
              \/ entries[x] = pending[x] /\ evicted'[x] = evicted[x]
              \/ entries[x] = None /\ evicted'[x] = evicted[x] + 1,
           evicted' \in [Id -> Nat], evicted'[id] = evicted[id], since' \in [Id -> SUBSET Id],
           \/ out' = out
           \/ r.done /\ \E o \in Returned : /\ out' = Append(out, o)
                                            /\ o.epoch = evicted'[id]
                                            /\ Whole(o, id) /\ IdOf(o) = id,
           sent' \in 0..NFrames, net' \in [Paths -> SUBSET Piece]
    PROVE  IInv'
<1> USE DEF IInv, Types
<1>1. pending' \in [Id -> Partial \cup {None}] /\ pending'[id] = r
      /\ \A x \in Id \ {id} : pending'[x] = entries[x]
    OBVIOUS
<1>2. \A x \in Held : x \in Id /\ pending[x] \in Partial
    BY DEF Held
<1>3. id \in Held' /\ \A x \in Id \ {id} : x \in Held' <=> entries[x] # None
    BY <1>1, NoneAssumption DEF Held
<1>4. Entries'
    <2> SUFFICES ASSUME NEW x \in Held' PROVE Sound(x, pending'[x])
        BY DEF Entries
    <2>1. x \in Id
        BY DEF Held
    <2> QED
        BY <1>1, <1>3, <2>1 DEF Entries, Held
<1>5. ASSUME NEW k \in DOMAIN out
      PROVE  /\ out[k].epoch \in Nat /\ IdOf(out[k]) \in Id /\ Whole(out[k], IdOf(out[k]))
             /\ IdOf(out[k]) = id => out[k].epoch < evicted[id]
             /\ out[k].epoch <= evicted'[IdOf(out[k])]
             /\ out[k].epoch = evicted'[IdOf(out[k])] =>
                   IdOf(out[k]) \in Held' /\ pending'[IdOf(out[k])].done
    <2> DEFINE x == IdOf(out[k])
    <2>0. out[k] \in Returned
        OBVIOUS
    <2>1. /\ out[k].epoch \in Nat /\ x \in Id /\ Whole(out[k], x) /\ out[k].epoch <= evicted[x]
          /\ out[k].epoch = evicted[x] => x \in Held /\ pending[x].done
        BY <2>0 DEF Returns, Returned
    <2> HIDE DEF x
    <2>2. evicted[x] \in Nat /\ evicted'[x] \in Nat
        BY <2>1
    <2>3. x = id => out[k].epoch < evicted[id]
        BY <2>1, <2>2
    <2>4. CASE x = id
        BY <2>1, <2>2, <2>3, <2>4 DEF x
    <2>5. CASE x # id
        BY <1>1, <1>3, <2>1, <2>2, <2>5 DEF x, Held
    <2> QED
        BY <2>4, <2>5
<1>6. CASE out' = out
    BY <1>1, <1>4, <1>5, <1>6 DEF Returns, Once
<1>7. CASE r.done /\ out' # out
    <2>1. PICK o \in Returned : /\ out' = Append(out, o) /\ o.epoch = evicted'[id]
                                /\ Whole(o, id) /\ IdOf(o) = id
        BY <1>7
    <2>2. /\ out' \in Seq(Returned) /\ DOMAIN out' = 1 .. Len(out) + 1
          /\ DOMAIN out = 1 .. Len(out) /\ Len(out) \in Nat
          /\ out'[Len(out) + 1] = o
          /\ \A k \in DOMAIN out : out'[k] = out[k]
        BY <2>1
    <2>3. \A k \in DOMAIN out' : k \in DOMAIN out \/ k = Len(out) + 1
        BY <2>2
    <2>4. Returns'
        <3> SUFFICES ASSUME NEW k \in DOMAIN out'
                     PROVE  /\ IdOf(out'[k]) \in Id /\ Whole(out'[k], IdOf(out'[k]))
                            /\ out'[k].epoch <= evicted'[IdOf(out'[k])]
                            /\ out'[k].epoch = evicted'[IdOf(out'[k])] =>
                                  IdOf(out'[k]) \in Held' /\ pending'[IdOf(out'[k])].done
            BY DEF Returns
        <3>1. CASE k \in DOMAIN out
            BY <1>5, <2>2, <3>1
        <3>2. CASE k = Len(out) + 1
            <4>1. o.epoch \in Nat /\ out'[k] = o
                BY <2>2, <3>2 DEF Returned
            <4> QED
                BY <1>1, <1>3, <1>7, <2>1, <4>1
        <3> QED
            BY <2>3, <3>1, <3>2
    <2>5. Once'
        <3> SUFFICES ASSUME NEW j \in DOMAIN out', NEW k \in DOMAIN out',
                            IdOf(out'[j]) = IdOf(out'[k]), out'[j].epoch = out'[k].epoch
                     PROVE  j = k
            BY DEF Once
        <3>1. CASE j \in DOMAIN out /\ k \in DOMAIN out
            BY <2>2, <3>1 DEF Once
        <3>2. ASSUME NEW m \in DOMAIN out, IdOf(out[m]) = id
              PROVE  out[m].epoch # o.epoch
            BY <1>5, <2>1, <3>2
        <3>3. out'[Len(out) + 1] = o /\ IdOf(o) = id
            BY <2>1, <2>2
        <3>4. \A m \in DOMAIN out : IdOf(out[m]) = id => out[m].epoch # o.epoch
            BY <3>2
        <3>5. CASE j \in DOMAIN out /\ k = Len(out) + 1
            <4>1. out'[j] = out[j] /\ out'[k] = o
                BY <2>2, <3>3, <3>5
            <4> QED
                BY <3>3, <3>4, <3>5, <4>1
        <3>6. CASE j = Len(out) + 1 /\ k \in DOMAIN out
            <4>1. out'[k] = out[k] /\ out'[j] = o
                BY <2>2, <3>3, <3>6
            <4> QED
                BY <3>3, <3>4, <3>6, <4>1
        <3> QED
            BY <2>3, <3>1, <3>5, <3>6
    <2> QED
        BY <1>1, <1>4, <2>2, <2>4, <2>5
<1> QED
    BY <1>6, <1>7

-------------------------------------------------------------------------------
(* The steps. *)

\* Nothing was sent and nothing is remembered at the start.
LEMMA InvInit == Init => IInv
<1> SUFFICES ASSUME Init PROVE IInv
    OBVIOUS
<1>1. Types
    BY FragmentAssumption DEF Init, Types
<1>2. Entries /\ Returns /\ Once
    BY DEF Init, Entries, Held, Returns, Once
<1> QED
    BY <1>1, <1>2 DEF IInv

\* A piece that arrives is one that was sent, and leaves the path.
LEMMA ArrivesType ==
    ASSUME IInv, NEW p \in Paths, NEW piece \in net[p], Arrives(p, piece)
    PROVE  /\ piece \in Piece /\ net' \in [Paths -> SUBSET Piece]
           /\ fragID(piece.frame) \in Id
<1>1. piece \in Piece /\ net' \in [Paths -> SUBSET Piece]
    BY DEF Arrives, IInv, Types
<1> QED
    BY <1>1, PieceSays, IdType

\* The two steps that add to an entry are a step from the entries that are kept.
AddsTo(p, piece, entries) ==
    /\ entries \in [Id -> Partial \cup {None}]
    /\ \E r \in Partial : pending' = [entries EXCEPT ![fragID(piece.frame)] = r]
    /\ \A x \in Id \ {fragID(piece.frame)} :
          \/ entries[x] = pending[x] /\ evicted'[x] = evicted[x]
          \/ entries[x] = None /\ evicted'[x] = evicted[x] + 1

\* An entry that is opened leaves the history a history.
LEMMA OpenedType ==
    ASSUME since \in [Id -> SUBSET Id], NEW id \in Id, NEW entries, Opened(id, entries)
    PROVE  since' \in [Id -> SUBSET Id]
BY DEF Opened

\* A further piece of a frame.
LEMMA StepMore ==
    ASSUME IInv, NEW p \in Paths, NEW piece \in net[p], AddMore(p, piece)
    PROVE  IInv' /\ AddsTo(p, piece, pending)
<1> DEFINE id == fragID(piece.frame)
           part == IF CountOf(pending[id]) = piece.count THEN pending[id]
                   ELSE Fresh(piece.count)
<1>1. /\ piece \in Piece /\ id \in Id /\ net' \in [Paths -> SUBSET Piece]
    BY ArrivesType DEF AddMore
<1>2. /\ pending[id] # None /\ ~pending[id].done /\ evicted' = evicted /\ sent' = sent
      /\ Store(piece, part, pending)
      /\ UNCHANGED since \/ Opened(id, pending)
    BY DEF AddMore
<1>3. /\ pending \in [Id -> Partial \cup {None}] /\ evicted \in [Id -> Nat] /\ sent \in 0..NFrames
      /\ since' \in [Id -> SUBSET Id]
    BY <1>1, <1>2, OpenedType DEF IInv, Types
<1>4. part \in Partial /\ Sound(id, part) /\ CountOf(part) = piece.count
    BY <1>1, <1>2, <1>3, FreshSound DEF IInv, Entries, Held
<1> HIDE DEF part, id
<1>5. PICK r \in Partial :
              /\ Sound(id, r) /\ pending' = [pending EXCEPT ![id] = r]
              /\ \/ out' = out
                 \/ r.done /\ \E o \in Returned : /\ out' = Append(out, o)
                                                  /\ o.epoch = evicted'[id]
                                                  /\ Whole(o, id) /\ IdOf(o) = id
    BY <1>1, <1>2, <1>3, <1>4, StoreSound DEF id
<1>6. IInv'
    BY <1>1, <1>2, <1>3, <1>5, AddKeeps
<1> QED
    BY <1>2, <1>3, <1>5, <1>6 DEF AddsTo, id

\* evictLocked drops entries there are.
LEMMA GoneHeld == \A gone \in evictLocked : gone \subseteq Held
BY DEF evictLocked, Stale

\* The first piece of a frame.
LEMMA StepNew ==
    ASSUME IInv, NEW p \in Paths, NEW piece \in net[p], AddNew(p, piece)
    PROVE  /\ IInv' /\ fragID(piece.frame) \in Id \ Held
           /\ \E gone \in evictLocked :
                 AddsTo(p, piece, [x \in Id |-> IF x \in gone THEN None ELSE pending[x]])
<1> DEFINE id == fragID(piece.frame)
           part == Fresh(piece.count)
<1>1. /\ piece \in Piece /\ id \in Id /\ net' \in [Paths -> SUBSET Piece]
    BY ArrivesType DEF AddNew
<1>2. PICK gone \in evictLocked :
         /\ evicted' = [x \in Id |-> IF x \in gone THEN evicted[x] + 1 ELSE evicted[x]]
         /\ Store(piece, part, [x \in Id |-> IF x \in gone THEN None ELSE pending[x]])
         /\ Opened(id, [x \in Id |-> IF x \in gone THEN None ELSE pending[x]])
    BY DEF AddNew
<1> DEFINE entries == [x \in Id |-> IF x \in gone THEN None ELSE pending[x]]
<1>3. /\ pending \in [Id -> Partial \cup {None}] /\ evicted \in [Id -> Nat] /\ sent \in 0..NFrames
      /\ since' \in [Id -> SUBSET Id]
    BY <1>1, <1>2, OpenedType DEF IInv, Types
<1>4. pending[id] = None /\ id \notin Held /\ id \notin gone /\ sent' = sent
    BY GoneHeld DEF AddNew, Held
<1>5. /\ entries \in [Id -> Partial \cup {None}]
      /\ evicted' \in [Id -> Nat] /\ evicted'[id] = evicted[id]
      /\ \A x \in Id \ {id} : \/ entries[x] = pending[x] /\ evicted'[x] = evicted[x]
                              \/ entries[x] = None /\ evicted'[x] = evicted[x] + 1
    BY <1>1, <1>2, <1>3, <1>4
<1>6. part \in Partial /\ Sound(id, part) /\ CountOf(part) = piece.count
    BY <1>1, FreshSound
<1>7. Store(piece, part, entries)
    BY <1>2
<1> HIDE DEF part, id, entries
<1>8. PICK r \in Partial :
              /\ Sound(id, r) /\ pending' = [entries EXCEPT ![id] = r]
              /\ \/ out' = out
                 \/ r.done /\ \E o \in Returned : /\ out' = Append(out, o)
                                                  /\ o.epoch = evicted'[id]
                                                  /\ Whole(o, id) /\ IdOf(o) = id
    BY <1>1, <1>5, <1>6, <1>7, StoreSound DEF id
<1>9. IInv'
    BY <1>1, <1>3, <1>4, <1>5, <1>8, AddKeeps
<1>10. AddsTo(p, piece, entries)
    BY <1>5, <1>8 DEF AddsTo, id
<1> QED
    BY <1>1, <1>4, <1>9, <1>10 DEF entries, id

\* Entries grow older.
LEMMA StepTick ==
    ASSUME IInv, Tick
    PROVE  IInv' /\ Held' = Held
<1>1. /\ pending \in [Id -> Partial \cup {None}] /\ UNCHANGED <<sent, net, out, evicted>>
      /\ since \in [Id -> SUBSET Id]
      /\ pending' = [id \in Id |-> IF id \in Held \ Stale
                                   THEN [pending[id] EXCEPT !.age = @ + 1] ELSE pending[id]]
    BY DEF IInv, Types, Tick
<1>2. ASSUME NEW id \in Held
      PROVE  /\ pending'[id] \in Partial /\ pending'[id].pieces = pending[id].pieces
             /\ pending'[id].done = pending[id].done
    <2>1. id \in Id /\ pending[id] \in Partial
        BY <1>1 DEF Held
    <2>2. CASE id \in Stale
        BY <1>1, <2>1, <2>2
    <2>3. CASE id \notin Stale
        <3>1. pending[id].age \in 0 .. reassemblyTTL + 1 /\ ~(pending[id].age > reassemblyTTL)
            BY <2>1, <2>3, PartialPieces DEF Stale
        <3>2. pending[id].age + 1 \in 0 .. reassemblyTTL + 1
            BY <3>1, FragmentAssumption
        <3>3. pending'[id] = [pending[id] EXCEPT !.age = pending[id].age + 1]
            BY <1>1, <2>1, <2>3
        <3> QED
            BY <2>1, <3>2, <3>3 DEF Partial
    <2> QED
        BY <2>2, <2>3
<1>3. \A id \in Id \ Held : pending'[id] = None
    BY <1>1 DEF Held
<1>4. pending' \in [Id -> Partial \cup {None}] /\ Held' = Held
    BY <1>1, <1>2, <1>3, NoneAssumption DEF Held
<1>5. Entries'
    BY <1>2, <1>4 DEF IInv, Entries, Sound, CountOf
<1>6. Returns' /\ Once'
    BY <1>1, <1>2, <1>4 DEF IInv, Returns, Once
<1>7. since' \in [Id -> SUBSET Id]
    <2>1. since' = [id \in Id |-> IF id \in Held /\ pending'[id].age > reassemblyTTL THEN {}
                                  ELSE since[id]]
        BY DEF Tick
    <2> QED
        BY <1>1, <2>1
<1>8. Types'
    BY <1>1, <1>4, <1>7 DEF IInv, Types
<1> QED
    BY <1>4, <1>5, <1>6, <1>8 DEF IInv

\* Sending and a late piece concern no entry.
LEMMA StepOther ==
    ASSUME IInv,
           \/ sendFrag \/ UNCHANGED vars
           \/ \E p \in Paths : \E piece \in net[p] : AddLate(p, piece)
    PROVE  IInv' /\ pending' = pending /\ since' = since
<1>1. UNCHANGED <<pending, out, evicted, since>>
    BY DEF sendFrag, AddLate, vars
<1>2. sent' \in 0..NFrames /\ net' \in [Paths -> SUBSET Piece]
    <2>1. CASE sendFrag
        <3>1. sent' \in 0..NFrames /\ sent' \in Frame
            BY <2>1, FragmentAssumption DEF sendFrag, IInv, Types, Frame
        <3>2. Split(sent') \subseteq Piece
            BY <3>1 DEF Piece
        <3>3. net' = [p \in Paths |-> IF p \in SentOn[sent'] THEN net[p] \cup Split(sent')
                                      ELSE net[p]]
            BY <2>1 DEF sendFrag
        <3> HIDE DEF Split
        <3> QED
            BY <3>1, <3>2, <3>3 DEF IInv, Types
    <2>2. CASE \E p \in Paths : \E piece \in net[p] : AddLate(p, piece)
        BY <2>2, ArrivesType DEF AddLate, IInv, Types
    <2>3. CASE UNCHANGED vars
        BY <2>3 DEF vars, IInv, Types
    <2> QED
        BY <2>1, <2>2, <2>3
<1> QED
    BY <1>1, <1>2 DEF IInv, Types, Entries, Held, Returns, Once

\* The inductive invariant holds.
LEMMA Invariant == Spec => []IInv
<1>1. IInv /\ [Next]_vars => IInv'
    BY StepMore, StepNew, StepTick, StepOther DEF Next
<1> QED
    BY InvInit, <1>1, PTL DEF Spec

-------------------------------------------------------------------------------

\* Reassembler: entries hold pieces under their own index, for every number of
\* frames, identifiers and paths.
THEOREM TypeCorrect == Spec => []TypeOK
BY Invariant, IInvType, PTL

\* Split and Add: what Add returns is one whole frame, its pieces in order without
\* gap or overlap, for every size of frames and pieces, as long as two frames that
\* share an identifier differ in their number of pieces.
THEOREM ReturnsWhole == Spec => []Intact
<1>1. IInv => Intact
    <2> SUFFICES ASSUME IInv, TellApart, NEW k \in DOMAIN out
                 PROVE  LET pcs == out[k].pieces
                            last == Cardinality(DOMAIN pcs) - 1
                        IN /\ pcs[0].from = 0 /\ pcs[last].to = Length[pcs[0].frame]
                           /\ \A i \in 1..last : /\ pcs[i].frame = pcs[0].frame
                                                 /\ pcs[i].from = pcs[i - 1].to
        BY DEF Intact
    <2> DEFINE pcs == out[k].pieces
               id == IdOf(out[k])
    <2>1. PICK m \in Frame : /\ pcs \in [0 .. Count(m) - 1 -> Piece]
                             /\ \A i \in 0 .. Count(m) - 1 : Belongs(pcs[i], id, Count(m), i)
        BY DEF IInv, Returns, Whole
    <2> HIDE DEF pcs, id
    <2>2. Count(m) \in Nat /\ Count(m) >= 2 /\ 0 \in 0 .. Count(m) - 1
        BY CountFits
    <2>3. Cardinality(DOMAIN pcs) = Count(m)
        BY <2>1, CountOfEntry
    <2> DEFINE n == pcs[0].frame
    <2>4. n \in Frame /\ Count(n) = Count(m) /\ fragID(n) = id
        BY <2>1, <2>2, PieceSays DEF Belongs
    <2>5. ASSUME NEW i \in 0 .. Count(m) - 1
          PROVE  pcs[i] \in Piece /\ pcs[i].frame = n /\ pcs[i].idx = i
        <3>1. /\ pcs[i].frame \in Frame /\ Count(pcs[i].frame) = Count(m)
              /\ fragID(pcs[i].frame) = id
            BY <2>1, PieceSays DEF Belongs
        <3> QED
            BY <2>1, <2>4, <3>1 DEF TellApart, Belongs
    <2> HIDE DEF n
    <2>6. /\ pcs[0].from = 0 /\ pcs[Count(n) - 1].to = Length[n]
          /\ \A i \in 1 .. Count(n) - 1 : pcs[i].from = pcs[i - 1].to
        BY <2>4, <2>5, PiecesCover
    <2>7. \A i \in 1 .. Count(m) - 1 : pcs[i].frame = n
        BY <2>2, <2>5
    <2> QED
        BY <2>3, <2>4, <2>6, <2>7 DEF n, pcs
<1> QED
    BY <1>1, Invariant, PTL

\* The tombstone: as long as its entry is not dropped, a frame is returned once,
\* whatever number of paths brings its pieces.
THEOREM ReturnsOnce == Spec => []OnceWhileRemembered
<1>1. IInv => OnceWhileRemembered
    BY DEF IInv, Once, IdOf, OnceWhileRemembered
<1> QED
    BY <1>1, Invariant, PTL

\* Whoever is as young as an entry that has not expired was opened after it, or in
\* the same tick.
Followed ==
    \A id \in Held : pending[id].age <= reassemblyTTL =>
        {x \in Held \ {id} : pending[x].age <= pending[id].age} \subseteq since[id]

\* Storing a piece does not change the age of an entry.
LEMMA StoreAge ==
    ASSUME NEW part \in Partial, NEW pc, NEW entries \in [Id -> Partial \cup {None}],
           fragID(pc.frame) \in Id, Store(pc, part, entries)
    PROVE  /\ pending'[fragID(pc.frame)].age = part.age
           /\ \A x \in Id \ {fragID(pc.frame)} : pending'[x] = entries[x]
<1> DEFINE filled == IF part.pieces[pc.idx] # None THEN part
                     ELSE [part EXCEPT !.pieces[pc.idx] = pc]
           complete == \A i \in DOMAIN filled.pieces : filled.pieces[i] # None
<1>1. pending' = [entries EXCEPT ![fragID(pc.frame)] = Kept(fragID(pc.frame), filled, complete)]
    BY DEF Store
<1>2. filled = [pieces |-> filled.pieces, age |-> part.age, done |-> part.done]
    BY DEF Partial
<1> HIDE DEF filled, complete
<1>3. Kept(fragID(pc.frame), filled, complete).age = part.age
    BY <1>2 DEF Kept
<1> QED
    BY <1>1, <1>3

\* An entry that is opened beside others that are all there already, or were dropped.
LEMMA OpenedFollowed ==
    ASSUME Followed, NEW id \in Id, NEW entries \in [Id -> Partial \cup {None}],
           \A x \in Id \ {id} : entries[x] \in {pending[x], None},
           Opened(id, entries), pending' \in [Id -> Partial \cup {None}],
           pending'[id].age = 0, pending'[id] # None,
           \A x \in Id \ {id} : pending'[x] = entries[x]
    PROVE  Followed'
<1> SUFFICES ASSUME NEW x \in Held', pending'[x].age <= reassemblyTTL,
                    NEW y \in Held' \ {x}, pending'[y].age <= pending'[x].age
             PROVE  y \in since'[x]
    BY DEF Followed
<1>1. x \in Id /\ y \in Id /\ pending'[x] # None /\ pending'[y] # None
    BY DEF Held
<1>2. since'[x] = IF x = id THEN {z \in Id \ {id} : entries[z] # None /\ entries[z].age = 0}
                  ELSE IF entries[x] = None \/ entries[x].age > reassemblyTTL THEN {}
                  ELSE since[x] \cup {id}
    BY <1>1 DEF Opened
<1>6. x # id => entries[x] # None /\ ~(entries[x].age > reassemblyTTL)
    <2>1. pending'[x] \in Partial
        BY <1>1
    <2>2. pending'[x].age \in Nat
        BY <2>1, PartialPieces
    <2> QED
        BY <1>1, <2>2, FragmentAssumption
<1>3. CASE x = id
    <2>1. pending'[y] = entries[y] /\ pending'[y] \in Partial
        BY <1>1, <1>3
    <2>2. pending'[y].age \in Nat
        BY <2>1, PartialPieces
    <2> QED
        BY <1>1, <1>2, <1>3, <2>1, <2>2
<1>4. CASE x # id /\ y = id
    BY <1>2, <1>4, <1>6
<1>5. CASE x # id /\ y # id
    <2>1. pending'[x] = pending[x] /\ pending'[y] = pending[y] /\ entries[x] # None
        BY <1>1, <1>5
    <2>2. x \in Held /\ y \in Held
        BY <1>1, <2>1 DEF Held
    <2>3. y \in since[x]
        BY <1>5, <2>1, <2>2 DEF Followed
    <2> QED
        BY <1>2, <1>5, <1>6, <2>3
<1> QED
    BY <1>3, <1>4, <1>5

\* The history follows every step.
LEMMA FollowedStep ==
    ASSUME IInv, Followed, [Next]_vars
    PROVE  Followed'
<1>0. pending \in [Id -> Partial \cup {None}] /\ pending' \in [Id -> Partial \cup {None}]
    <2>1. IInv'
        BY StepMore, StepNew, StepTick, StepOther DEF Next
    <2> QED
        BY <2>1 DEF IInv, Types
<1>1. CASE Tick
    <2> SUFFICES ASSUME NEW x \in Held', pending'[x].age <= reassemblyTTL,
                        NEW y \in Held' \ {x}, pending'[y].age <= pending'[x].age
                 PROVE  y \in since'[x]
        BY DEF Followed
    <2>1. x \in Held /\ y \in Held \ {x}
        BY <1>1, StepTick DEF Tick
    <2>2. \A z \in Held :
             /\ pending[z].age \in Nat
             /\ pending'[z].age = IF pending[z].age > reassemblyTTL THEN pending[z].age
                                  ELSE pending[z].age + 1
        <3> SUFFICES ASSUME NEW z \in Held
                     PROVE  /\ pending[z].age \in Nat
                            /\ pending'[z].age = IF pending[z].age > reassemblyTTL
                                                 THEN pending[z].age ELSE pending[z].age + 1
            OBVIOUS
        <3>1. z \in Id /\ pending[z] \in Partial
            BY <1>0 DEF Held
        <3>2. pending[z].age \in 0 .. reassemblyTTL + 1
            BY <3>1, PartialPieces
        <3>3. pending'[z] = IF z \in Stale THEN pending[z]
                            ELSE [pending[z] EXCEPT !.age = pending[z].age + 1]
            BY <1>1, <3>1 DEF Tick
        <3>4. ([pending[z] EXCEPT !.age = pending[z].age + 1]).age = pending[z].age + 1
            BY <3>1 DEF Partial
        <3> QED
            BY <3>2, <3>3, <3>4, FragmentAssumption DEF Stale
    <2>3. pending[x].age <= reassemblyTTL /\ pending[y].age <= pending[x].age
        BY <2>1, <2>2, FragmentAssumption
    <2>4. since'[x] = since[x]
        <3>1. ~(pending'[x].age > reassemblyTTL) /\ x \in Id
            BY <2>1, <2>2, FragmentAssumption DEF Held
        <3> QED
            BY <1>1, <3>1 DEF Tick
    <2> QED
        BY <2>1, <2>3, <2>4 DEF Followed
<1>2. CASE pending' = pending /\ since' = since
    BY <1>2 DEF Followed, Held
<1>3. ASSUME NEW p \in Paths, NEW piece \in net[p], AddMore(p, piece)
      PROVE  Followed'
    <2> DEFINE id == fragID(piece.frame)
    <2>1. id \in Id /\ piece \in Piece /\ pending[id] # None
        BY <1>3, ArrivesType DEF AddMore
    <2>2. pending[id] \in Partial /\ id \in Held
        BY <1>0, <2>1 DEF Held
    <2>3. id \in Held' /\ pending'[id] # None
        <3>1. PICK r \in Partial : pending' = [pending EXCEPT ![id] = r]
            BY <1>3, StepMore DEF AddsTo
        <3> QED
            BY <1>0, <2>1, <3>1, NoneAssumption DEF Held
    <2>4. CASE Store(piece, pending[id], pending) /\ since' = since
        <3>1. \A x \in Id : pending'[x].age = pending[x].age
            BY <1>0, <2>1, <2>2, <2>4, StoreAge
        <3>2. Held' = Held
            BY <1>0, <2>1, <2>2, <2>3, <2>4, StoreAge DEF Held
        <3> QED
            BY <2>4, <3>1, <3>2 DEF Followed, Held
    <2>5. CASE Store(piece, Fresh(piece.count), pending) /\ Opened(id, pending)
        <3>1. Fresh(piece.count) \in Partial /\ Fresh(piece.count).age = 0
            BY <2>1, FreshSound DEF Fresh
        <3>2. pending'[id].age = 0 /\ \A x \in Id \ {id} : pending'[x] = pending[x]
            BY <1>0, <2>1, <2>5, <3>1, StoreAge
        <3> QED
            BY <1>0, <2>1, <2>3, <2>5, <3>2, OpenedFollowed
    <2> QED
        BY <1>3, <2>4, <2>5 DEF AddMore
<1>4. ASSUME NEW p \in Paths, NEW piece \in net[p], AddNew(p, piece)
      PROVE  Followed'
    <2> DEFINE id == fragID(piece.frame)
               left(gone) == [x \in Id |-> IF x \in gone THEN None ELSE pending[x]]
    <2>1. id \in Id /\ piece \in Piece
        BY <1>4, ArrivesType DEF AddNew
    <2>2. PICK gone \in evictLocked : /\ Store(piece, Fresh(piece.count), left(gone))
                                      /\ Opened(id, left(gone))
        BY <1>4 DEF AddNew
    <2>3. Fresh(piece.count) \in Partial /\ Fresh(piece.count).age = 0
        BY <2>1, FreshSound DEF Fresh
    <2>4. left(gone) \in [Id -> Partial \cup {None}]
        BY <1>0
    <2>5. \A x \in Id : left(gone)[x] \in {pending[x], None}
        OBVIOUS
    <2>6. pending'[id] # None
        <3>1. PICK g \in evictLocked : AddsTo(p, piece, left(g))
            BY <1>4, StepNew
        <3>2. PICK r \in Partial : pending' = [left(g) EXCEPT ![id] = r]
            BY <3>1 DEF AddsTo
        <3> QED
            BY <2>1, <3>2, NoneAssumption
    <2> HIDE DEF left
    <2>7. pending'[id].age = 0 /\ \A x \in Id \ {id} : pending'[x] = left(gone)[x]
        BY <2>1, <2>2, <2>3, <2>4, StoreAge
    <2> HIDE DEF id
    <2> QED
        BY <1>0, <2>1, <2>2, <2>4, <2>5, <2>6, <2>7, OpenedFollowed
<1>5. CASE \/ sendFrag \/ UNCHANGED vars
           \/ \E p \in Paths : \E piece \in net[p] : AddLate(p, piece)
    BY <1>2, <1>5, StepOther
<1> QED
    BY <1>1, <1>3, <1>4, <1>5 DEF Next

\* evictLocked: for every capacity and time-to-live, an entry that has not expired is
\* dropped only after at least maxPending - 1 other identifiers were opened since it was.
THEOREM OnlyNewcomersCrowdOut == Spec => NotCrowdedOut
<1> DEFINE A == \A id \in Held : pending'[id] = None =>
                   id \in Stale \/ Cardinality(since[id]) >= maxPending - 1
<1>1. Init => Followed
    BY DEF Init, Followed, Held
<1>2. IInv /\ Followed /\ [Next]_vars => [A]_vars
    <2> SUFFICES ASSUME IInv, Followed, Next, NEW id \in Held, pending'[id] = None, id \notin Stale
                 PROVE  Cardinality(since[id]) >= maxPending - 1
        OBVIOUS
    <2> DEFINE rest == Held \ Stale
    <2>0. id \in Id /\ pending[id] # None /\ id \in rest
        BY DEF Held
    <2>1. PICK p \in Paths : \E piece \in net[p] : AddMore(p, piece) \/ AddNew(p, piece)
        BY <2>0, StepTick, StepOther DEF Next, Held
    <2>2. PICK piece \in net[p] : AddMore(p, piece) \/ AddNew(p, piece)
        BY <2>1
    <2>3. AddNew(p, piece)
        BY <2>0, <2>2, StepMore, NoneAssumption DEF AddsTo
    <2>4. PICK gone \in evictLocked :
             AddsTo(p, piece, [x \in Id |-> IF x \in gone THEN None ELSE pending[x]])
        BY <2>3, StepNew
    <2>5. id \in gone
        BY <2>0, <2>3, <2>4, StepNew DEF AddsTo
    <2>6. ~(Cardinality(rest) < maxPending) /\ \A j \in rest : pending[j].age <= pending[id].age
        BY <2>0, <2>5 DEF evictLocked
    <2>7. rest \ {id} \subseteq since[id]
        <3>1. pending[id] \in Partial
            BY <2>0 DEF IInv, Types
        <3>2. pending[id].age <= reassemblyTTL
            BY <2>0, <3>1, PartialPieces, FragmentAssumption DEF Stale
        <3> QED
            BY <2>6, <3>2 DEF Followed
    <2>8. IsFiniteSet(Id) /\ rest \subseteq Id /\ since[id] \subseteq Id
        <3>1. 0 \in Int /\ IdSpace - 1 \in Int
            BY FragmentAssumption
        <3>2. IsFiniteSet(Id)
            BY <3>1, FS_Interval DEF Id
        <3>3. since[id] \subseteq Id
            BY <2>0 DEF IInv, Types
        <3> QED
            BY <3>2, <3>3 DEF Held
    <2> HIDE DEF rest
    <2>9. /\ IsFiniteSet(rest) /\ Cardinality(rest) \in Nat
          /\ IsFiniteSet(since[id]) /\ Cardinality(since[id]) \in Nat
        BY <2>8, FS_Subset, FS_CardinalityType
    <2>10. IsFiniteSet(rest \ {id}) /\ Cardinality(rest \ {id}) = Cardinality(rest) - 1
        BY <2>0, <2>9, FS_RemoveElement
    <2>11. Cardinality(rest \ {id}) <= Cardinality(since[id])
        BY <2>7, <2>9, FS_Subset
    <2> QED
        BY <2>6, <2>9, <2>10, <2>11, FragmentAssumption
<1> QED
    BY <1>1, <1>2, FollowedStep, Invariant, PTL DEF Spec, NotCrowdedOut

\* The map holds at most maxPending entries.
Bounded == IsFiniteSet(Held) /\ Cardinality(Held) <= maxPending

\* evictLocked makes room for one.
LEMMA MakesRoom ==
    ASSUME Bounded, NEW gone \in evictLocked
    PROVE  IsFiniteSet(Held \ gone) /\ Cardinality(Held \ gone) < maxPending
<1> DEFINE rest == Held \ Stale
<1>0. maxPending \in Nat /\ maxPending >= 1 /\ Cardinality(Held) \in Nat
    BY FragmentAssumption, FS_CardinalityType DEF Bounded
<1>1. /\ IsFiniteSet(rest) /\ Cardinality(rest) <= Cardinality(Held)
      /\ Cardinality(rest) \in Nat
    BY FS_Subset, FS_CardinalityType DEF Bounded
<1>2. CASE gone = Stale /\ Cardinality(rest) < maxPending
    BY <1>1, <1>2
<1>3. CASE ~(Cardinality(rest) < maxPending)
    <2>1. PICK x \in rest : gone = Stale \cup {x}
        BY <1>3 DEF evictLocked
    <2>2. Held \ gone = rest \ {x}
        BY <2>1
    <2>3. IsFiniteSet(rest \ {x}) /\ Cardinality(rest \ {x}) = Cardinality(rest) - 1
        BY <1>1, <2>1, FS_RemoveElement
    <2> HIDE DEF rest
    <2>4. Cardinality(Held) <= maxPending
        BY DEF Bounded
    <2>5. Cardinality(rest) - 1 < maxPending
        BY <1>0, <1>1, <2>4
    <2> QED
        BY <2>2, <2>3, <2>5
<1> QED
    BY <1>2, <1>3 DEF evictLocked

\* maxPending: however many frames stay incomplete, and with the tombstones of the
\* finished ones, the map never holds more entries than its cap.
THEOREM MemoryBounded == Spec => [](Cardinality(Held) <= maxPending)
<1>1. Init => Bounded
    <2> SUFFICES ASSUME Init PROVE Bounded
        OBVIOUS
    <2>1. Held = {}
        BY DEF Init, Held
    <2> QED
        BY <2>1, FS_EmptySet, FragmentAssumption DEF Bounded
<1>2. IInv /\ Bounded /\ [Next]_vars => Bounded'
    <2> SUFFICES ASSUME IInv, Bounded, [Next]_vars PROVE Bounded'
        OBVIOUS
    <2>1. CASE Tick \/ pending' = pending
        <3>1. Held' = Held
            BY <2>1, StepTick DEF Held
        <3> QED
            BY <3>1 DEF Bounded
    <2>2. ASSUME NEW p \in Paths, NEW piece \in net[p], AddMore(p, piece)
          PROVE  Bounded'
        <3>1. fragID(piece.frame) \in Held /\ AddsTo(p, piece, pending)
            BY <2>2, StepMore, ArrivesType DEF AddMore, Held
        <3>2. Held' = Held
            BY <3>1, NoneAssumption DEF AddsTo, Held
        <3> QED
            BY <3>2 DEF Bounded
    <2>3. ASSUME NEW p \in Paths, NEW piece \in net[p], AddNew(p, piece)
          PROVE  Bounded'
        <3> DEFINE id == fragID(piece.frame)
        <3>1. PICK gone \in evictLocked :
                 AddsTo(p, piece, [x \in Id |-> IF x \in gone THEN None ELSE pending[x]])
            BY <2>3, StepNew
        <3>2. id \in Id \ Held
            BY <2>3, StepNew
        <3>3. Held' = (Held \ gone) \cup {id}
            BY <3>1, <3>2, GoneHeld, NoneAssumption DEF AddsTo, Held
        <3>4. IsFiniteSet(Held \ gone) /\ Cardinality(Held \ gone) < maxPending
            BY MakesRoom
        <3>5. /\ IsFiniteSet((Held \ gone) \cup {id})
              /\ Cardinality((Held \ gone) \cup {id}) = Cardinality(Held \ gone) + 1
            BY <3>2, <3>4, FS_AddElement
        <3>6. Cardinality(Held \ gone) \in Nat /\ maxPending \in Nat
            BY <3>4, FS_CardinalityType, FragmentAssumption
        <3> QED
            BY <3>3, <3>4, <3>5, <3>6 DEF Bounded
    <2> QED
        BY <2>1, <2>2, <2>3, StepOther DEF Next
<1> QED
    BY <1>1, <1>2, Invariant, PTL DEF Spec, Bounded

-------------------------------------------------------------------------------
(* The hub.

   The argument.  Between its critical sections a Forward relies on two facts
   that other steps may not take away (HubSound): the session it is about to
   send to was named by the table during the Forward, and it floods a unicast
   frame only when the table named nobody, or somebody who was not a member
   throughout.  Watch, the history every change of the hub adds to a Forward
   in progress, preserves both. *)

\* What a Forward of session s, in state f, may rely on while the sessions in
\* members are in the hub; the last two conjuncts are what the run checks.
HubSound(s, f, members) ==
    /\ f.pc \in {"learn", "route", "flood"} => f.steady \subseteq members
    /\ f.pc = "route" => f.dst # Group /\ f.dstEntry \in f.named \cap Sessions
    /\ f.pc = "flood" /\ f.dst # Group => f.named \ f.steady # {}
    /\ f.pc = "sent" =>
          /\ s \notin f.to
          /\ \/ f.steady \ {s} \subseteq f.to
             \/ f.dst # Group /\ \E c \in f.named \cap Sessions : f.to = {c} \ {s}
    /\ f.pc = "sent" /\ f.dst # Group =>
          f.to \subseteq f.named \/ f.named \ f.steady # {}

AllSound == \A s \in Sessions : HubSound(s, fwd[s], clients)

\* An address heard within refreshBelow minutes has at least the rest of them left.
FreshEnough ==
    \A m \in Macs : quiet[m] \in 0 .. refreshBelow =>
        macTable[m] # NoSession /\ macTable[m].left + quiet[m] >= refreshBelow

HubIInv == HubTypeOK /\ load \in Loads /\ AllSound /\ FreshEnough

-------------------------------------------------------------------------------
\* Idle is a Forward that relies on nothing.
LEMMA IdleSound ==
  /\ Idle \in Forwarding
  /\ \A s \in Sessions : \A members : HubSound(s, Idle, members)
  <1>1. (CHOOSE m \in Macs : TRUE) \in Macs
    BY HubAssumption
  <1> QED
    BY <1>1 DEF Idle, Forwarding, HubSound

\* A table names sessions or nobody, and nobody for a group address.
LEMMA LookupType ==
  ASSUME NEW table \in [Macs -> Entry \cup {NoSession}], NEW dst \in Macs \cup {Group}
  PROVE  /\ Lookup(table, dst) \in Sessions \cup {NoSession}
         /\ dst = Group => Lookup(table, dst) = NoSession
  BY DEF Lookup, SessionOf, Entry

\* Next_pc goes to "route" with a session and to "flood" without one.
LEMMA NextPc ==
  ASSUME NEW e \in Sessions \cup {NoSession}
  PROVE  \/ Next_pc(e) = "route" /\ e \in Sessions
         \/ Next_pc(e) = "flood" /\ e = NoSession
  BY HubAssumption DEF Next_pc

\* What Watch makes of a Forward in progress.
LEMMA WatchShape ==
  ASSUME NEW f \in Forwarding, f.pc \notin {"idle", "sent"},
         NEW members, NEW table \in [Macs -> Entry \cup {NoSession}]
  PROVE  LET g == Watch(f, members, table)
         IN  /\ g \in Forwarding
             /\ g.pc = f.pc /\ g.src = f.src /\ g.dst = f.dst
             /\ g.dstEntry = f.dstEntry /\ g.to = f.to
             /\ g.steady = f.steady \cap members
             /\ g.named = f.named \cup {Lookup(table, f.dst)}
  <1> DEFINE h == [f EXCEPT !.steady = f.steady \cap members]
             g == [h EXCEPT !.named = h.named \cup {Lookup(table, f.dst)}]
  <1>1. Watch(f, members, table) = g
    BY Zenon DEF Watch, Forwarding
  <1>2. /\ h \in Forwarding
        /\ h.pc = f.pc /\ h.src = f.src /\ h.dst = f.dst
        /\ h.dstEntry = f.dstEntry /\ h.to = f.to
        /\ h.steady = f.steady \cap members /\ h.named = f.named
    BY DEF Forwarding
  <1>3. Lookup(table, f.dst) \in Sessions \cup {NoSession}
    BY LookupType DEF Forwarding
  <1> HIDE DEF h
  <1>4. /\ g \in Forwarding
        /\ g.pc = h.pc /\ g.src = h.src /\ g.dst = h.dst
        /\ g.dstEntry = h.dstEntry /\ g.to = h.to
        /\ g.steady = h.steady /\ g.named = h.named \cup {Lookup(table, f.dst)}
    BY <1>2, <1>3 DEF Forwarding
  <1> HIDE DEF g
  <1> QED
    BY <1>1, <1>2, <1>4

\* The history a change adds to a Forward preserves what it relies on.
LEMMA WatchSound ==
  ASSUME NEW s \in Sessions, NEW f \in Forwarding, NEW before, NEW members,
         HubSound(s, f, before), NEW table \in [Macs -> Entry \cup {NoSession}]
  PROVE  /\ Watch(f, members, table) \in Forwarding
         /\ HubSound(s, Watch(f, members, table), members)
  <1>1. CASE f.pc \in {"idle", "sent"}
    BY <1>1 DEF Watch, HubSound
  <1>2. CASE f.pc \notin {"idle", "sent"}
    <2> DEFINE g == Watch(f, members, table)
    <2>1. /\ g \in Forwarding /\ g.pc = f.pc /\ g.dst = f.dst /\ g.dstEntry = f.dstEntry
          /\ g.steady = f.steady \cap members /\ g.named = f.named \cup {Lookup(table, f.dst)}
      BY <1>2, WatchShape
    <2> HIDE DEF g
    <2>2. HubSound(s, g, members)
      BY <1>2, <2>1 DEF HubSound, Forwarding
    <2> QED
      BY <2>1, <2>2 DEF g
  <1> QED
    BY <1>1, <1>2

\* A change of membership or table: every Forward in progress is watched, and
\* nothing else happens to it.
LEMMA WatchAllSound ==
  ASSUME HubIInv, NEW members \in SUBSET Sessions,
         NEW table \in [Macs -> Entry \cup {NoSession}],
         fwd' = WatchAll(fwd, members, table), clients' = members
  PROVE  fwd' \in [Sessions -> Forwarding] /\ AllSound'
  <1>1. \A s \in Sessions : /\ Watch(fwd[s], members, table) \in Forwarding
                           /\ HubSound(s, Watch(fwd[s], members, table), members)
    BY WatchSound DEF HubIInv, HubTypeOK, AllSound
  <1> QED
    BY <1>1 DEF WatchAll, AllSound

\* A Forward takes a step of its own: the others rely on what they relied on.
LEMMA OwnStep ==
  ASSUME HubIInv, NEW s \in Sessions, NEW f \in Forwarding,
         HubSound(s, f, clients),
         fwd' = [fwd EXCEPT ![s] = f], UNCHANGED clients
  PROVE  fwd' \in [Sessions -> Forwarding] /\ AllSound'
  <1>1. \A t \in Sessions : fwd'[t] = IF t = s THEN f ELSE fwd[t]
    BY DEF HubIInv, HubTypeOK
  <1> QED
    BY <1>1 DEF HubIInv, HubTypeOK, AllSound

\* Initially no Forward is in progress and no address has been heard.
LEMMA InitHubIInv == HubInit => HubIInv
  <1> SUFFICES ASSUME HubInit PROVE HubIInv
    OBVIOUS
  <1>1. fwd \in [Sessions -> Forwarding] /\ AllSound
    BY IdleSound DEF HubInit, AllSound
  <1>2. clock \in 0 .. load.minutes
    BY HubAssumption DEF HubInit
  <1>3. FreshEnough
    BY HubAssumption DEF HubInit, FreshEnough
  <1> QED
    BY <1>1, <1>2, <1>3 DEF HubInit, HubIInv, HubTypeOK

\* Join and Leave.
LEMMA MembershipStep ==
  ASSUME HubIInv, NEW s \in Sessions, Join(s) \/ Leave(s)
  PROVE  HubIInv'
  <1>1. /\ clients' \in SUBSET Sessions /\ fwd' = WatchAll(fwd, clients', macTable)
        /\ UNCHANGED <<load, macTable, clock, quiet>>
    BY DEF Join, Leave, HubIInv, HubTypeOK
  <1>2. fwd' \in [Sessions -> Forwarding] /\ AllSound'
    BY <1>1, WatchAllSound DEF HubIInv, HubTypeOK
  <1>3. FreshEnough'
    BY <1>1 DEF HubIInv, FreshEnough
  <1> QED
    BY <1>1, <1>2, <1>3 DEF HubIInv, HubTypeOK

\* Forward reads the table: a source that needs no update has refreshBelow left.
LEMMA BeginStep ==
  ASSUME HubIInv, NEW s \in Sessions, NEW src \in Macs,
         NEW dst \in Macs \cup {Group},
         Begin(s, src, dst)
  PROVE  HubIInv'
  <1> DEFINE entry == Lookup(macTable, dst)
             f == [pc |-> IF NeedUpdate(s, src) THEN "learn" ELSE Next_pc(entry),
                   src |-> src, dst |-> dst, dstEntry |-> entry, to |-> {},
                   steady |-> clients, named |-> {entry}]
  <1>1. fwd' = [fwd EXCEPT ![s] = f] /\ UNCHANGED <<load, clients, macTable, clock>>
    BY DEF Begin
  <1>2. entry \in Sessions \cup {NoSession} /\ (dst = Group => entry = NoSession)
    BY LookupType DEF HubIInv, HubTypeOK
  <1> HIDE DEF entry
  <1>3. f.pc \in {"learn", "route", "flood"} /\ f \in Forwarding
    BY <1>2, NextPc DEF HubIInv, HubTypeOK, Forwarding
  <1>4. HubSound(s, f, clients)
    BY HubAssumption, <1>2, NextPc DEF HubSound, HubIInv, HubTypeOK
  <1> HIDE DEF f
  <1>5. fwd' \in [Sessions -> Forwarding] /\ AllSound'
    BY <1>1, <1>3, <1>4, OwnStep
  <1>6. quiet' \in [Macs -> (0 .. refreshBelow + 1) \cup {NoSession}] /\ FreshEnough'
    <2>1. CASE NeedUpdate(s, src)
      BY <1>1, <2>1 DEF Begin, HubIInv, HubTypeOK, FreshEnough
    <2>2. CASE ~ NeedUpdate(s, src)
      <3>1. macTable[src] # NoSession /\ macTable[src].left >= refreshBelow
        BY HubAssumption, <2>2 DEF NeedUpdate, HubIInv, HubTypeOK, Entry
      <3>2. quiet' = [quiet EXCEPT ![src] = 0]
        BY <2>2 DEF Begin
      <3> QED
        BY HubAssumption, <1>1, <3>1, <3>2 DEF HubIInv, HubTypeOK, FreshEnough, Entry
    <2> QED
      BY <2>1, <2>2
  <1> QED
    BY <1>1, <1>5, <1>6 DEF HubIInv, HubTypeOK

\* Forward learns its source: the entry is new, and the destination is read again.
LEMMA LearnStep ==
  ASSUME HubIInv, NEW s \in Sessions, Learn(s)
  PROVE  HubIInv'
  <1> DEFINE new == [sess |-> s, left |-> macTableTTL]
             src == fwd[s].src
             entry == Lookup(macTable', fwd[s].dst)
             f == [[fwd[s] EXCEPT !.pc = Next_pc(entry)] EXCEPT !.dstEntry = entry]
             g == Watch(f, clients, macTable')
  <1>1. /\ fwd \in [Sessions -> Forwarding] /\ fwd[s] \in Forwarding
        /\ fwd[s].pc = "learn" /\ src \in Macs /\ clients \in SUBSET Sessions
        /\ macTable' = [macTable EXCEPT ![src] = new]
        /\ quiet' = [quiet EXCEPT ![src] = 0]
        /\ UNCHANGED <<load, clients, clock>>
    BY DEF HubIInv, HubTypeOK, Forwarding, Learn
  <1>2. new \in Entry /\ new # NoSession /\ new.left = macTableTTL
    BY HubAssumption DEF Entry
  <1>3. macTable' \in [Macs -> Entry \cup {NoSession}]
    BY <1>1, <1>2 DEF HubIInv, HubTypeOK
  <1>4. quiet' \in [Macs -> (0 .. refreshBelow + 1) \cup {NoSession}] /\ FreshEnough'
    BY HubAssumption, <1>1, <1>2 DEF HubIInv, HubTypeOK, FreshEnough
  <1>5. entry \in Sessions \cup {NoSession} /\ (fwd[s].dst = Group => entry = NoSession)
    BY <1>1, <1>3, LookupType DEF Forwarding
  <1>6. fwd' = WatchAll([fwd EXCEPT ![s] = f], clients, macTable')
    BY <1>1, Zenon DEF Learn
  <1> HIDE DEF entry
  <1>7. /\ f \in Forwarding /\ f.pc = Next_pc(entry) /\ f.dst = fwd[s].dst
        /\ f.dstEntry = entry /\ f.steady = fwd[s].steady /\ f.named = fwd[s].named
    <2> DEFINE h == [fwd[s] EXCEPT !.pc = Next_pc(entry)]
    <2>1. /\ h \in Forwarding /\ h.pc = Next_pc(entry) /\ h.dst = fwd[s].dst
          /\ h.steady = fwd[s].steady /\ h.named = fwd[s].named
      BY <1>1, <1>5, NextPc DEF Forwarding
    <2> HIDE DEF h
    <2>2. LET k == [h EXCEPT !.dstEntry = entry]
          IN  /\ k \in Forwarding /\ k.pc = h.pc /\ k.dst = h.dst
              /\ k.dstEntry = entry /\ k.steady = h.steady /\ k.named = h.named
      BY <1>5, <2>1 DEF Forwarding
    <2> QED
      BY <2>1, <2>2 DEF h
  <1> HIDE DEF f
  <1>8. /\ g \in Forwarding /\ g.pc = f.pc /\ g.dst = f.dst /\ g.dstEntry = entry
        /\ g.steady = f.steady \cap clients /\ g.named = f.named \cup {entry}
    BY <1>3, <1>5, <1>7, NextPc, WatchShape DEF entry
  <1>9. HubSound(s, g, clients)
    BY HubAssumption, <1>5, <1>7, <1>8, NextPc DEF HubSound, Forwarding
  <1>10. \A t \in Sessions : /\ fwd'[t] \in Forwarding /\ HubSound(t, fwd'[t], clients)
    <2> SUFFICES ASSUME NEW t \in Sessions
                 PROVE  fwd'[t] \in Forwarding /\ HubSound(t, fwd'[t], clients)
      OBVIOUS
    <2>1. fwd'[t] = IF t = s THEN g ELSE Watch(fwd[t], clients, macTable')
      BY <1>1, <1>6 DEF WatchAll
    <2> HIDE DEF g
    <2>2. CASE t = s
      BY <1>8, <1>9, <2>1, <2>2
    <2>3. CASE t # s
      BY <1>3, <2>1, <2>3, WatchSound DEF HubIInv, HubTypeOK, AllSound
    <2> QED
      BY <2>2, <2>3
  <1>11. fwd' \in [Sessions -> Forwarding]
    BY <1>6, <1>10 DEF WatchAll
  <1> QED
    BY <1>1, <1>3, <1>4, <1>10, <1>11 DEF HubIInv, HubTypeOK, AllSound

\* Forward sends, or finds that the session it meant has left.
LEMMA RouteStep ==
  ASSUME HubIInv, NEW s \in Sessions, Route(s)
  PROVE  HubIInv'
  <1> DEFINE c == fwd[s].dstEntry
             h == [fwd[s] EXCEPT !.pc = IF c \in clients THEN "sent" ELSE "flood"]
             f == [h EXCEPT !.to = IF c \in clients /\ c # s THEN {c} ELSE {}]
  <1>1. /\ fwd[s] \in Forwarding /\ fwd[s].pc = "route" /\ HubSound(s, fwd[s], clients)
        /\ fwd' = [fwd EXCEPT ![s] = f]
        /\ UNCHANGED <<load, clients, macTable, clock, quiet>>
    BY Zenon DEF HubIInv, HubTypeOK, AllSound, Route
  <1>2. /\ h \in Forwarding /\ h.pc = IF c \in clients THEN "sent" ELSE "flood"
        /\ h.dst = fwd[s].dst /\ h.steady = fwd[s].steady /\ h.named = fwd[s].named
    BY <1>1 DEF Forwarding
  <1> HIDE DEF h
  <1>3. /\ f \in Forwarding /\ f.pc = h.pc /\ f.dst = h.dst /\ f.steady = h.steady
        /\ f.named = h.named /\ f.to = IF c \in clients /\ c # s THEN {c} ELSE {}
    BY <1>1, <1>2 DEF Forwarding, HubIInv, HubTypeOK
  <1> HIDE DEF f
  <1>4. HubSound(s, f, clients)
    BY <1>1, <1>2, <1>3 DEF HubSound, Forwarding
  <1> QED
    BY <1>1, <1>3, <1>4, OwnStep DEF HubIInv, HubTypeOK, FreshEnough

\* Forward floods: everyone who was a member throughout is a member now.
LEMMA FloodStep ==
  ASSUME HubIInv, NEW s \in Sessions, Flood(s)
  PROVE  HubIInv'
  <1> DEFINE h == [fwd[s] EXCEPT !.pc = "sent"]
             f == [h EXCEPT !.to = clients \ {s}]
  <1>1. /\ fwd[s] \in Forwarding /\ fwd[s].pc = "flood" /\ HubSound(s, fwd[s], clients)
        /\ fwd' = [fwd EXCEPT ![s] = f]
        /\ UNCHANGED <<load, clients, macTable, clock, quiet>>
    BY Zenon DEF HubIInv, HubTypeOK, AllSound, Flood
  <1>2. /\ h \in Forwarding /\ h.pc = "sent"
        /\ h.dst = fwd[s].dst /\ h.steady = fwd[s].steady /\ h.named = fwd[s].named
    BY <1>1 DEF Forwarding
  <1> HIDE DEF h
  <1>3. /\ f \in Forwarding /\ f.pc = "sent" /\ f.dst = h.dst /\ f.steady = h.steady
        /\ f.named = h.named /\ f.to = clients \ {s}
    BY <1>2 DEF Forwarding, HubIInv, HubTypeOK
  <1> HIDE DEF f
  <1>4. HubSound(s, f, clients)
    BY <1>1, <1>2, <1>3 DEF HubSound
  <1> QED
    BY <1>1, <1>3, <1>4, OwnStep DEF HubIInv, HubTypeOK, FreshEnough

\* Forward returns.
LEMMA ReturnStep ==
  ASSUME HubIInv, NEW s \in Sessions, Return(s)
  PROVE  HubIInv'
  BY IdleSound, OwnStep DEF Return, HubIInv, HubTypeOK, FreshEnough

\* The purge deletes only entries past their expiry, which no active station has.
LEMMA PurgeStep ==
  ASSUME HubIInv, purgeMACTable
  PROVE  HubIInv'
  <1>1. /\ macTable' = [m \in Macs |-> IF macTable[m] # NoSession /\ macTable[m].left < 0
                                      THEN NoSession ELSE macTable[m]]
        /\ fwd' = WatchAll(fwd, clients, macTable') /\ UNCHANGED <<load, clients, clock, quiet>>
    BY DEF purgeMACTable
  <1>2. macTable' \in [Macs -> Entry \cup {NoSession}]
    BY <1>1 DEF HubIInv, HubTypeOK
  <1>3. fwd' \in [Sessions -> Forwarding] /\ AllSound'
    BY <1>1, <1>2, WatchAllSound DEF HubIInv, HubTypeOK
  <1>4. FreshEnough'
    BY HubAssumption, <1>1 DEF HubIInv, HubTypeOK, FreshEnough, Entry
  <1> QED
    BY <1>1, <1>2, <1>3, <1>4 DEF HubIInv, HubTypeOK

\* A minute passes: what an entry loses, the silence of its address gains.
LEMMA TickStep ==
  ASSUME HubIInv, Minute
  PROVE  HubIInv'
  <1>1. /\ clock' \in 0 .. load.minutes /\ UNCHANGED <<load, clients, fwd>>
    BY HubAssumption DEF Minute, HubIInv, HubTypeOK
  <1>2. ASSUME NEW m \in Macs
        PROVE  /\ macTable'[m] \in Entry \cup {NoSession}
               /\ macTable[m] # NoSession =>
                    macTable'[m] # NoSession /\ macTable'[m].left >= macTable[m].left - 1
    <2>1. CASE macTable[m] # NoSession /\ macTable[m].left >= 0
      BY HubAssumption, <2>1 DEF Minute, HubIInv, HubTypeOK, Entry
    <2>2. CASE ~ (macTable[m] # NoSession /\ macTable[m].left >= 0)
      BY <2>2 DEF Minute, HubIInv, HubTypeOK, Entry
    <2> QED
      BY <2>1, <2>2
  <1>3. ASSUME NEW m \in Macs
        PROVE  /\ quiet'[m] \in (0 .. refreshBelow + 1) \cup {NoSession}
               /\ quiet'[m] \in 0 .. refreshBelow =>
                    quiet[m] \in 0 .. refreshBelow /\ quiet'[m] = quiet[m] + 1
    BY HubAssumption DEF Minute, HubIInv, HubTypeOK
  <1>4. macTable' \in [Macs -> Entry \cup {NoSession}]
    BY <1>2 DEF Minute
  <1>5. quiet' \in [Macs -> (0 .. refreshBelow + 1) \cup {NoSession}]
    BY <1>3 DEF Minute
  <1>6. FreshEnough'
    BY HubAssumption, <1>2, <1>3 DEF HubIInv, HubTypeOK, FreshEnough, Entry
  <1>7. AllSound'
    BY <1>1 DEF HubIInv, AllSound
  <1> QED
    BY <1>1, <1>4, <1>5, <1>6, <1>7 DEF HubIInv, HubTypeOK

LEMMA HubInvariant == HubSpec => []HubIInv
  <1>1. HubIInv /\ [HubNext]_hubVars => HubIInv'
    <2> SUFFICES ASSUME HubIInv, [HubNext]_hubVars PROVE HubIInv'
      OBVIOUS
    <2>1. load.forwarders \subseteq Sessions
      BY HubAssumption DEF HubIInv
    <2>2. CASE UNCHANGED hubVars
      BY <2>2 DEF hubVars, HubIInv, HubTypeOK, AllSound, FreshEnough
    <2>3. CASE HubNext
      BY <2>1, <2>3, MembershipStep, BeginStep, LearnStep, RouteStep, FloodStep, ReturnStep,
         PurgeStep, TickStep DEF HubNext
    <2> QED
      BY <2>2, <2>3
  <1> QED
    BY <1>1, InitHubIInv, PTL DEF HubSpec

-------------------------------------------------------------------------------
\* The hub's state is well typed: entries name sessions and have at most
\* macTableTTL left, a Forward is in a state of Forward (Hub, hub.go).
THEOREM HubTypeCorrect == HubSpec => []HubTypeOK
  BY HubInvariant, PTL DEF HubIInv

\* A Forward neither echoes a frame nor drops it silently, however Join, Leave,
\* learning and the purge come between its critical sections (Forward).
THEOREM FramesArrive == HubSpec => []ReachesDestination
  <1>1. HubIInv => ReachesDestination
    BY DEF HubIInv, AllSound, HubSound, ReachesDestination, Done
  <1> QED
    BY <1>1, HubInvariant, PTL

\* A unicast frame is shown to a session the table did not name only if the table
\* named nobody, or somebody who was not there throughout (Forward).
THEOREM NoLeak == HubSpec => []FloodsOnlyTheUnknown
  <1>1. HubIInv => FloodsOnlyTheUnknown
    BY DEF HubIInv, AllSound, HubSound, FloodsOnlyTheUnknown, Done
  <1> QED
    BY <1>1, HubInvariant, PTL

\* An address heard within the last refreshBelow minutes is in the table and not
\* expired, whenever the purge runs (needUpdate and purgeMACTable).
THEOREM ActiveAreKnown == HubSpec => []TalkersStayKnown
  <1>1. HubIInv => TalkersStayKnown
    BY HubAssumption DEF HubIInv, HubTypeOK, FreshEnough, TalkersStayKnown, Entry
  <1> QED
    BY <1>1, HubInvariant, PTL
===============================================================================
