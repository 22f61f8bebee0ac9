------------------------------- MODULE Fragment -------------------------------
(***************************************************************************)
(* fragment.Split and fragment.Reassembler: an oversized frame is cut into  *)
(* pieces that travel over the UDP paths and are put together again.  Frames*)
(* are numbered in the order they are sent and have a length; a piece is an *)
(* interval of its frame.  A path hands each piece over at most once, in    *)
(* any order, or loses it.  r.mu makes each Add one step.                   *)
(*                                                                          *)
(* Split yields at least two pieces for a frame that NeedsSplit, so Add's   *)
(* answers to count 0 or 1 and to idx >= count are not met here.            *)
(***************************************************************************)
EXTENDS Integers, Sequences, FiniteSets

CONSTANTS
    NFrames,         \* bound: the number of oversized frames
    Length,          \* the length of each
    maxPiece,        \* proto.MaxFramePlaintext
    IdSpace,         \* number of fragIDs before the counter wraps (2^32)
    reassemblyTTL,   \* ticks an entry is kept
    maxPending,      \* entries the map may hold (256)
    Paths,           \* receive loops with a replay window of their own
    SentOn,          \* the paths of each frame: both once sendRaw2 is registered
    None             \* no entry, no piece

ASSUME FragmentAssumption ==
    /\ NFrames \in Nat /\ maxPiece \in Nat \ {0} /\ IdSpace \in Nat \ {0}
    /\ Length \in [1..NFrames -> Nat]
    /\ \A n \in 1..NFrames : Length[n] > maxPiece      \* NeedsSplit
    /\ SentOn \in [1..NFrames -> SUBSET Paths]
    /\ reassemblyTTL \in Nat /\ maxPending \in Nat \ {0}

VARIABLES
    sent,      \* fragID counter: frames sent so far
    net,       \* per path, the pieces on their way
    pending,   \* r.pending
    out,       \* what Add returned, in order
    evicted,   \* history: how often the entry of an identifier was dropped
    since      \* history: whose entry was opened after that of an identifier that has
               \* not expired, or in the same tick

vars == <<sent, net, pending, out, evicted, since>>

Frame == 1..NFrames
Id    == 0 .. IdSpace - 1

fragID(n) == n % IdSpace

-------------------------------------------------------------------------------

Smaller(a, b) == IF a < b THEN a ELSE b

\* The number of pieces, rounded up, and the pieces of frame n.
Count(n) == (Length[n] + maxPiece - 1) \div maxPiece

Split(n) ==
    {[frame |-> n, idx |-> i, count |-> Count(n),
      from |-> i * maxPiece, to |-> Smaller((i + 1) * maxPiece, Length[n])]
       : i \in 0 .. Count(n) - 1}

Piece == UNION {Split(n) : n \in Frame}

\* An entry of the map: the pieces present by index, its age, and whether it is the
\* tombstone of a frame that was returned.
Partial == [pieces : UNION {[0 .. Count(n) - 1 -> Piece \cup {None}] : n \in Frame},
            age : 0 .. reassemblyTTL + 1, done : BOOLEAN]

ASSUME NoneAssumption == None \notin Piece \cup Partial

Init ==
    /\ sent = 0
    /\ net = [p \in Paths |-> {}]
    /\ pending = [id \in Id |-> None]
    /\ out = <<>>
    /\ evicted = [id \in Id |-> 0]
    /\ since = [id \in Id |-> {}]

\* sendFrag and the client's send function: every piece goes on every path there is.
sendFrag ==
    /\ sent < NFrames
    /\ sent' = sent + 1
    /\ net' = [p \in Paths |-> IF p \in SentOn[sent'] THEN net[p] \cup Split(sent')
                               ELSE net[p]]
    /\ UNCHANGED <<pending, out, evicted, since>>

\* The entry of a frame of which no piece has arrived.
Fresh(count) == [pieces |-> [i \in 0 .. count - 1 |-> None], age |-> 0, done |-> FALSE]

CountOf(part) == Cardinality(DOMAIN part.pieces)

Arrives(p, piece) ==
    /\ piece \in net[p]
    /\ net' = [net EXCEPT ![p] = @ \ {piece}]

\* Mutant of Kept: the entry of a finished frame is removed.
Kept_NoTombstone(id, part, complete) ==
    IF complete THEN None ELSE part

\* What is left of an entry once a piece was stored: a finished frame leaves a
\* tombstone without pieces.
Kept(id, part, complete) ==
    IF complete
    THEN [part EXCEPT !.done = TRUE, !.pieces = [i \in DOMAIN part.pieces |-> None]]
    ELSE part

\* Add stores a piece that is not there yet in part, the entry of its identifier,
\* and returns the frame when it was the last one missing.
Store(piece, part, entries) ==
    LET id     == fragID(piece.frame)
        filled == IF part.pieces[piece.idx] # None THEN part
                  ELSE [part EXCEPT !.pieces[piece.idx] = piece]
        complete == \A i \in DOMAIN filled.pieces : filled.pieces[i] # None
    IN /\ pending' = [entries EXCEPT ![id] = Kept(id, filled, complete)]
       /\ out' = IF complete
                 THEN Append(out, [pieces |-> filled.pieces, epoch |-> evicted'[id]])
                 ELSE out

\* History: an entry for id is opened beside entries.
Opened(id, entries) ==
    since' = [x \in Id |->
                IF x = id THEN {y \in Id \ {id} : entries[y] # None /\ entries[y].age = 0}
                ELSE IF entries[x] = None \/ entries[x].age > reassemblyTTL THEN {}
                ELSE since[x] \cup {id}]

\* A late piece of a frame that was already returned.
AddLate(p, piece) ==
    /\ pending[fragID(piece.frame)] # None
    /\ pending[fragID(piece.frame)].done
    /\ Arrives(p, piece)
    /\ UNCHANGED <<sent, pending, out, evicted, since>>

\* Mutant of AddMore: a left-over entry is kept when the index fits into it.
AddMore_IndexFits(p, piece) ==
    LET id == fragID(piece.frame)
    IN /\ pending[id] # None /\ ~ pending[id].done
       /\ Arrives(p, piece)
       /\ evicted' = evicted
       /\ \/ /\ piece.idx \in DOMAIN pending[id].pieces
             /\ Store(piece, pending[id], pending)
             /\ UNCHANGED since
          \/ /\ piece.idx \notin DOMAIN pending[id].pieces
             /\ Store(piece, Fresh(piece.count), pending)
             /\ Opened(id, pending)
       /\ UNCHANGED sent

\* A piece of a frame in progress.  An entry with another number of pieces is
\* left over from an earlier use of the identifier and replaced.
AddMore(p, piece) ==
    LET id == fragID(piece.frame)
    IN /\ pending[id] # None /\ ~ pending[id].done
       /\ Arrives(p, piece)
       /\ evicted' = evicted
       /\ \/ /\ CountOf(pending[id]) = piece.count
             /\ Store(piece, pending[id], pending)
             /\ UNCHANGED since
          \/ /\ CountOf(pending[id]) # piece.count
             /\ Store(piece, Fresh(piece.count), pending)
             /\ Opened(id, pending)
       /\ UNCHANGED sent

Held == {id \in Id : pending[id] # None}
Stale == {id \in Held : pending[id].age > reassemblyTTL}

\* Mutant of evictLocked: the youngest goes.
evictLocked_Youngest ==
    LET rest == Held \ Stale
    IN IF Cardinality(rest) < maxPending THEN {Stale}
       ELSE {Stale \cup {id} : id \in {i \in rest :
                \A j \in rest : pending[j].age >= pending[i].age}}

\* The sets of entries evictLocked may drop: the expired ones, and if the map is
\* still full, one of the oldest, finished or not.
evictLocked ==
    LET rest == Held \ Stale
    IN IF Cardinality(rest) < maxPending THEN {Stale}
       ELSE {Stale \cup {id} : id \in {i \in rest :
                \A j \in rest : pending[j].age <= pending[i].age}}

\* The first piece of a frame makes room and opens an entry.
AddNew(p, piece) ==
    /\ pending[fragID(piece.frame)] = None
    /\ Arrives(p, piece)
    /\ \E gone \in evictLocked :
         LET entries == [id \in Id |-> IF id \in gone THEN None ELSE pending[id]]
         IN /\ evicted' = [id \in Id |-> IF id \in gone THEN evicted[id] + 1 ELSE evicted[id]]
            /\ Store(piece, Fresh(piece.count), entries)
            /\ Opened(fragID(piece.frame), entries)
    /\ UNCHANGED sent

\* Time passes; ages beyond reassemblyTTL are not told apart.
Tick ==
    /\ Held \ Stale # {}
    /\ pending' = [id \in Id |->
                     IF id \in Held \ Stale THEN [pending[id] EXCEPT !.age = @ + 1]
                     ELSE pending[id]]
    /\ since' = [id \in Id |-> IF id \in Held /\ pending'[id].age > reassemblyTTL THEN {}
                               ELSE since[id]]
    /\ UNCHANGED <<sent, net, out, evicted>>

Next ==
    \/ sendFrag
    \/ \E p \in Paths : \E piece \in net[p] :
         AddLate(p, piece) \/ AddMore(p, piece) \/ AddNew(p, piece)
    \/ Tick

Spec == Init /\ [][Next]_vars

-------------------------------------------------------------------------------

\* The type invariant: entries hold pieces under their own index only.
TypeOK ==
    /\ sent \in 0..NFrames
    /\ net \in [Paths -> SUBSET Piece]
    /\ pending \in [Id -> Partial \cup {None}]
    /\ \A id \in Held : \A i \in DOMAIN pending[id].pieces :
          pending[id].pieces[i] \in {None} \cup {pc \in Piece : pc.idx = i}
    /\ out \in Seq([pieces : UNION {[0 .. Count(n) - 1 -> Piece] : n \in Frame}, epoch : Nat])
    /\ evicted \in [Id -> Nat]
    /\ since \in [Id -> SUBSET Id]

\* No two frames that share an identifier are cut into the same number of pieces.
TellApart ==
    \A m, n \in Frame : fragID(m) = fragID(n) /\ m # n => Count(m) # Count(n)

\* What Add returns is one whole frame: its pieces follow each other without gap
\* or overlap from its first byte to its last, whatever was duplicated,
\* reordered, lost or evicted on the way, and also when an identifier is used
\* again while the entry of its earlier use is left: the count tells them apart.
Intact ==
    TellApart =>
        \A k \in DOMAIN out :
            LET pcs == out[k].pieces
                last == Cardinality(DOMAIN pcs) - 1
            IN /\ pcs[0].from = 0 /\ pcs[last].to = Length[pcs[0].frame]
               /\ \A i \in 1..last : /\ pcs[i].frame = pcs[0].frame
                                     /\ pcs[i].from = pcs[i - 1].to

\* A frame is returned at most once as long as its entry is remembered, although
\* both paths bring all of its pieces.
OnceWhileRemembered ==
    \A j, k \in DOMAIN out :
        /\ out[j].pieces[0].frame = out[k].pieces[0].frame
        /\ out[j].epoch = out[k].epoch
        => j = k

\* Nobody is crowded out by others than newcomers: from the opening of its entry until
\* evictLocked drops it unexpired, at least maxPending - 1 other identifiers were opened.
\* A frame whose pieces arrive before that many others begin is therefore not lost to
\* a map full of older frames and tombstones.
NotCrowdedOut ==
    [][\A id \in Held : pending'[id] = None =>
         id \in Stale \/ Cardinality(since[id]) >= maxPending - 1]_vars
===============================================================================
