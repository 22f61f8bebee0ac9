-------------------------- MODULE ReplayWindowProofs --------------------------
(***************************************************************************)
(* Proofs that the bit array of ReplayWindow is the set of accepted counters *)
(* and that the window implements ReplaySpec, for every word width, number   *)
(* of words and sequence of calls.                                           *)
(***************************************************************************)
EXTENDS ReplayWindow, TLAPS

\* The word and bit arithmetic of Check: quotient and remainder of an offset.
LEMMA DivMod ==
    ASSUME NEW n \in Nat
    PROVE  /\ n \div WordBits \in Nat
           /\ n % WordBits \in Bit
           /\ n = WordBits * (n \div WordBits) + (n % WordBits)
BY ReplayAssumption, SMTT(20) DEF Bit

\* An offset has one word and one bit only.
LEMMA Unique ==
    ASSUME NEW i \in Int, NEW b \in Bit, NEW j \in Int, NEW d \in Bit,
           WordBits * i + b = WordBits * j + d
    PROVE  i = j /\ b = d
<1>1. WordBits * (i - j) = d - b
  BY ReplayAssumption DEF Bit
<1>2. -WordBits < d - b /\ d - b < WordBits
  BY ReplayAssumption DEF Bit
<1>3. i - j < 1
  <2> SUFFICES ASSUME i - j >= 1 PROVE FALSE
    OBVIOUS
  <2>1. WordBits * (i - j) >= WordBits
    BY ReplayAssumption, SMTT(20)
  <2> QED BY <2>1, <1>1, <1>2, ReplayAssumption DEF Bit
<1>4. i - j > -1
  <2> SUFFICES ASSUME i - j <= -1 PROVE FALSE
    OBVIOUS
  <2>1. WordBits * (i - j) <= -WordBits
    BY ReplayAssumption, SMTT(20)
  <2> QED BY <2>1, <1>1, <1>2, ReplayAssumption DEF Bit
<1> QED BY <1>1, <1>3, <1>4, ReplayAssumption DEF Bit

(***************************************************************************)
(* The shift loop of Check: bit b of word i holds, afterwards, what the    *)
(* position WordBits * i + b - shift held before, and positions below      *)
(* shift are clear.  Stated on the history: the array that described       *)
(* maxSeen describes maxSeen + shift.                                      *)
(***************************************************************************)
LEMMA ShiftedBits ==
    ASSUME TypeOK, WindowIsHistory,
           NEW shift \in Nat, shift > 0,
           NEW i \in Index, NEW b \in Bit
    PROVE  b \in Shifted(shift)[i]
             <=> (maxSeen + shift) - (WordBits * i + b) \in accepted
<1> DEFINE q == shift \div WordBits
           r == shift % WordBits
           src == i - q
           pos == WordBits * i + b - shift
<1>1. q \in Nat /\ r \in Bit /\ shift = WordBits * q + r
  BY DivMod
<1>2. /\ i \in Nat /\ i <= Words - 1 /\ b \in Nat /\ b <= WordBits - 1
      /\ r \in Nat /\ r <= WordBits - 1 /\ src \in Int
  BY <1>1, ReplayAssumption DEF Index, Bit
<1>3. pos \in Int /\ pos = WordBits * src + b - r
  BY <1>1, <1>2, ReplayAssumption
<1>4. (maxSeen + shift) - (WordBits * i + b) = maxSeen - pos
  BY <1>1, <1>2, ReplayAssumption DEF TypeOK
<1>5. pos < 0 => maxSeen - pos \notin accepted
  BY <1>3 DEF TypeOK, WindowIsHistory
<1>6. Shifted(shift)[i] =
        IF src < 0 THEN {}
        ELSE IF r = 0 THEN window[src]
        ELSE ShiftLeft(window[src], r)
             \cup (IF src > 0 THEN ShiftRight(window[src - 1], WordBits - r)
                              ELSE {})
  BY DEF Shifted
<1> HIDE DEF q, r, src, pos
<1>7. CASE src < 0
  <2>1. WordBits * src <= -WordBits
    BY <1>2, <1>7, ReplayAssumption, SMTT(20)
  <2>2. pos < 0
    BY <2>1, <1>2, <1>3, ReplayAssumption
  <2> QED BY <2>2, <1>4, <1>5, <1>6, <1>7
<1>8. CASE src >= 0
  <2>1. src \in Index
    BY <1>1, <1>2, <1>8, ReplayAssumption DEF src, Index
  <2>2. ASSUME NEW d \in Bit
        PROVE  d \in window[src] <=> maxSeen - (WordBits * src + d) \in accepted
    BY <2>1 DEF WindowIsHistory
  <2>3. CASE r = 0
    <3>1. pos = WordBits * src + b
      BY <1>2, <1>3, <2>3, ReplayAssumption
    <3> QED BY <3>1, <2>2, <2>3, <1>4, <1>6, <1>8, <1>2
  <2>4. CASE r > 0 /\ b >= r
    <3>1. b - r \in Bit /\ pos = WordBits * src + (b - r)
      BY <1>2, <1>3, <2>4, ReplayAssumption DEF Bit
    <3>2. b \in ShiftLeft(window[src], r) <=> maxSeen - pos \in accepted
      BY <3>1, <2>2 DEF ShiftLeft
    <3>3. b + (WordBits - r) \notin Bit
      BY <1>2, <2>4, ReplayAssumption DEF Bit
    <3>4. src > 0 => b \notin ShiftRight(window[src - 1], WordBits - r)
      <4> SUFFICES ASSUME src > 0
                   PROVE  b + (WordBits - r) \notin window[src - 1]
        BY DEF ShiftRight
      <4>1. src - 1 \in Index
        BY <2>1, ReplayAssumption DEF Index
      <4>2. window[src - 1] \subseteq Bit
        BY <4>1 DEF TypeOK
      <4> QED BY <4>2, <3>3
    <3> QED BY <3>2, <3>4, <1>4, <1>6, <1>8, <2>4, <1>2
  <2>5. CASE r > 0 /\ b < r
    <3>1. b - r \notin window[src]
      <4>1. b - r \notin Bit
        BY <1>2, <2>5, ReplayAssumption DEF Bit
      <4> QED BY <4>1, <2>1 DEF TypeOK
    <3>2. b \notin ShiftLeft(window[src], r)
      BY <3>1 DEF ShiftLeft
    <3>3. CASE src = 0
      <4>1. pos < 0
        BY <1>2, <1>3, <2>5, <3>3, ReplayAssumption
      <4> QED BY <4>1, <3>2, <3>3, <1>4, <1>5, <1>6, <1>8, <2>5, <1>2
    <3>4. CASE src > 0
      <4>1. src - 1 \in Index /\ b + (WordBits - r) \in Bit
        BY <1>2, <2>1, <2>5, <3>4, ReplayAssumption DEF Index, Bit
      <4>2. pos = WordBits * (src - 1) + (b + (WordBits - r))
        BY <1>2, <1>3, ReplayAssumption
      <4>3. b \in ShiftRight(window[src - 1], WordBits - r)
              <=> maxSeen - pos \in accepted
        BY <4>1, <4>2 DEF ShiftRight, WindowIsHistory
      <4> QED BY <4>3, <3>2, <3>4, <1>4, <1>6, <1>8, <2>5, <1>2
    <3> QED BY <3>3, <3>4, <1>2, <1>8
  <2> QED BY <2>3, <2>4, <2>5, <1>2
<1> QED BY <1>7, <1>8, <1>2

-------------------------------------------------------------------------------

\* Every reachable state of the window is well typed.
THEOREM TypeCorrect == Spec => []TypeOK
<1>1. Init => TypeOK
  BY DEF Init, TypeOK
<1>2. TypeOK /\ [Next]_vars => TypeOK'
  <2> SUFFICES ASSUME TypeOK, [Next]_vars PROVE TypeOK'
    OBVIOUS
  <2>1. ASSUME NEW c \in 0..MaxCounter, Reject(c) PROVE TypeOK'
    BY <2>1 DEF Reject, Answer, TypeOK
  <2>2. ASSUME NEW c \in 0..MaxCounter, Advance(c) PROVE TypeOK'
    <3>1. 0 \in Index /\ 0 \in Bit
      BY ReplayAssumption DEF Index, Bit
    <3>2. c - maxSeen \in Nat /\ c \in Nat
      BY <2>2, ReplayAssumption DEF Advance, TypeOK
    <3>3. Shifted(c - maxSeen) \in [Index -> SUBSET Bit]
      <4> DEFINE src(i) == i - ((c - maxSeen) \div WordBits)
      <4>1. \A i \in Index : src(i) >= 0 => src(i) \in Index
        BY <3>2, DivMod, ReplayAssumption DEF Index
      <4>2. \A i \in Index : src(i) >= 0 => window[src(i)] \subseteq Bit
        BY <4>1 DEF TypeOK
      <4>3. \A i \in Index : src(i) \in Int
        BY <3>2, DivMod, ReplayAssumption DEF Index
      <4> QED BY <4>2, <4>3 DEF Shifted, ShiftLeft, ShiftRight
    <3> QED BY <2>2, <3>1, <3>2, <3>3 DEF Advance, Answer, TypeOK
  <2>3. ASSUME NEW c \in 0..MaxCounter, Mark(c) PROVE TypeOK'
    <3>1. (maxSeen - c) \in Nat /\ c \in Nat
      BY <2>3, ReplayAssumption DEF Mark, TypeOK
    <3>2. (maxSeen - c) % WordBits \in Bit
      BY <3>1, DivMod
    <3> QED BY <2>3, <3>1, <3>2 DEF Mark, Answer, TypeOK
  <2>4. CASE UNCHANGED vars
    BY <2>4 DEF vars, TypeOK
  <2> QED BY <2>1, <2>2, <2>3, <2>4 DEF Next, Check
<1> QED BY <1>1, <1>2, PTL DEF Spec

\* The word and the bit that Check computes for a counter inside the window.
LEMMA Position ==
    ASSUME NEW n \in Nat, n < replayWindowSize
    PROVE  n \div WordBits \in Index
<1>1. n \div WordBits \in Nat /\ n >= WordBits * (n \div WordBits)
  BY DivMod, ReplayAssumption DEF Bit
<1>2. SUFFICES ASSUME n \div WordBits >= Words PROVE FALSE
  BY <1>1, ReplayAssumption DEF Index
<1>3. WordBits * (n \div WordBits) >= WordBits * Words
  <2> DEFINE q == n \div WordBits
  <2>1. q \in Nat /\ q >= Words
    BY <1>1, <1>2
  <2> HIDE DEF q
  <2>2. WordBits * (q - Words) >= 0
    BY <2>1, ReplayAssumption, SMTT(20)
  <2>3. WordBits * q >= WordBits * Words
    BY <2>1, <2>2, ReplayAssumption
  <2> QED BY <2>3 DEF q
<1> QED BY <1>1, <1>3, ReplayAssumption DEF replayWindowSize

\* The bit Check tests is set exactly when the counter was accepted before.
LEMMA BitIsMembership ==
    ASSUME TypeOK, WindowIsHistory, NEW c \in Nat,
           c <= maxSeen, maxSeen - c < replayWindowSize
    PROVE  /\ (maxSeen - c) \div WordBits \in Index
           /\ (maxSeen - c) % WordBits \in Bit
           /\ (maxSeen - c) % WordBits \in window[(maxSeen - c) \div WordBits]
                <=> c \in accepted
<1>1. maxSeen - c \in Nat
  BY DEF TypeOK
<1>2. /\ (maxSeen - c) \div WordBits \in Index
      /\ (maxSeen - c) % WordBits \in Bit
      /\ maxSeen - c = WordBits * ((maxSeen - c) \div WordBits)
                       + ((maxSeen - c) % WordBits)
  BY <1>1, DivMod, Position
<1>3. maxSeen - (maxSeen - c) = c
  BY DEF TypeOK
<1> QED BY <1>2, <1>3 DEF WindowIsHistory

-------------------------------------------------------------------------------
\* A step of the window, whichever branch of Check it takes, keeps the bit
\* array equal to the history.

\* The first branch of Check, which slides the array, keeps it the history.
LEMMA AdvanceKeepsHistory ==
    ASSUME TypeOK, WindowIsHistory, NEW c \in 0..MaxCounter, Advance(c)
    PROVE  WindowIsHistory'
<1>1. c \in Nat /\ maxSeen \in Nat /\ c > maxSeen /\ c - maxSeen \in Nat
  BY ReplayAssumption DEF Advance, TypeOK
<1>2. /\ maxSeen' = c
      /\ accepted' = accepted \cup {c}
  BY DEF Advance, Answer
<1>3. /\ maxSeen' \in accepted'
      /\ \A a \in accepted' : 0 < a /\ a <= maxSeen'
  BY <1>1, <1>2 DEF WindowIsHistory, TypeOK
<1>4. ASSUME NEW i \in Index, NEW b \in Bit
      PROVE  b \in window'[i] <=> maxSeen' - (WordBits * i + b) \in accepted'
  <2> DEFINE slid == IF c - maxSeen >= replayWindowSize
                     THEN [j \in Index |-> {}]
                     ELSE Shifted(c - maxSeen)
             pos == WordBits * i + b
  <2>1. pos \in Nat /\ i \in Nat /\ b \in Nat
    BY ReplayAssumption DEF Index, Bit
  <2>2. b \in window'[i] <=> b \in slid[i] \/ (i = 0 /\ b = 0)
    <3>1. 0 \in Index
      BY ReplayAssumption DEF Index
    <3>2. DOMAIN slid = Index
      BY DEF Shifted
    <3>3. window' = [slid EXCEPT ![0] = @ \cup {0}]
      BY DEF Advance
    <3> HIDE DEF slid
    <3> QED BY <3>1, <3>2, <3>3
  <2>3. (i = 0 /\ b = 0) <=> pos = 0
    <3>1. 0 \in Bit /\ WordBits * 0 + 0 = 0
      BY ReplayAssumption DEF Bit
    <3> QED BY <3>1, Unique, <2>1
  <2>4. b \in slid[i] <=> c - pos \in accepted
    <3>1. CASE c - maxSeen < replayWindowSize
      <4>1. (maxSeen + (c - maxSeen)) - pos = c - pos
        BY <1>1, <2>1
      <4>2. c - maxSeen > 0
        BY <1>1
      <4>3. slid[i] = Shifted(c - maxSeen)[i]
        BY <3>1, <1>1, ReplayAssumption DEF replayWindowSize
      <4> QED BY <4>1, <4>2, <4>3, <1>1, ShiftedBits
    <3>2. CASE c - maxSeen >= replayWindowSize
      <4>1. pos < replayWindowSize
        <5>1. WordBits * i <= WordBits * (Words - 1)
          <6>1. i \in Nat /\ Words - 1 - i \in Nat
            BY <2>1, ReplayAssumption DEF Index
          <6>2. WordBits * (Words - 1 - i) >= 0
            BY <6>1, ReplayAssumption, SMTT(20)
          <6> QED BY <6>1, <6>2, ReplayAssumption
        <5> QED BY <5>1, <2>1, ReplayAssumption DEF Bit, replayWindowSize
      <4>2. c - pos > maxSeen
        BY <4>1, <3>2, <1>1, <2>1, ReplayAssumption DEF replayWindowSize
      <4>3. c - pos \notin accepted
        BY <4>2, <1>1, <2>1 DEF WindowIsHistory, TypeOK
      <4>4. slid[i] = {}
        BY <3>2
      <4> QED BY <4>3, <4>4
    <3> QED BY <3>1, <3>2, <1>1, ReplayAssumption DEF replayWindowSize
  <2>5. c - pos \in accepted' <=> c - pos \in accepted \/ pos = 0
    BY <1>1, <1>2, <2>1
  <2> QED BY <1>2, <2>2, <2>3, <2>4, <2>5
<1> QED BY <1>3, <1>4 DEF WindowIsHistory

\* The second branch of Check, which sets a bit, keeps it the history.
LEMMA MarkKeepsHistory ==
    ASSUME TypeOK, WindowIsHistory, NEW c \in 0..MaxCounter, Mark(c)
    PROVE  WindowIsHistory'
<1> DEFINE n == maxSeen - c
           word == n \div WordBits
           bit == n % WordBits
<1>1. c \in Nat /\ n \in Nat /\ 0 < c /\ c <= maxSeen /\ n < replayWindowSize
  BY ReplayAssumption DEF Mark, TypeOK
<1>2. /\ maxSeen' = maxSeen
      /\ accepted' = accepted \cup {c}
      /\ window' = [window EXCEPT ![word] = @ \cup {bit}]
  BY DEF Mark, Answer
<1>3. word \in Index /\ bit \in Bit /\ n = WordBits * word + bit
  BY <1>1, DivMod, Position
<1> HIDE DEF word, bit
<1>4. ASSUME NEW i \in Index, NEW b \in Bit
      PROVE  b \in window'[i] <=> maxSeen' - (WordBits * i + b) \in accepted'
  <2>1. /\ i \in Int /\ b \in Int /\ word \in Int /\ bit \in Int
        /\ WordBits * i \in Int /\ WordBits * word \in Int
    BY <1>3, ReplayAssumption DEF Index, Bit
  <2>2. (i = word /\ b = bit) <=> WordBits * i + b = n
    BY <1>3, <2>1, Unique
  <2>3. WordBits * i + b = n <=> maxSeen - (WordBits * i + b) = c
    <3> DEFINE p == WordBits * i + b
    <3>1. p \in Int
      BY <2>1
    <3> HIDE DEF p
    <3>2. p = n <=> maxSeen - p = c
      BY <1>1, <3>1 DEF TypeOK
    <3> QED BY <3>2 DEF p
  <2>4. b \in window'[i] <=> b \in window[i] \/ (i = word /\ b = bit)
    BY <1>2, <1>3 DEF TypeOK
  <2> QED BY <1>2, <2>2, <2>3, <2>4 DEF WindowIsHistory
<1>5. /\ maxSeen' = 0 \/ maxSeen' \in accepted'
      /\ \A a \in accepted' : 0 < a /\ a <= maxSeen'
  BY <1>1, <1>2 DEF WindowIsHistory
<1> QED BY <1>4, <1>5 DEF WindowIsHistory

\* For every window width and every sequence of counters, the bit array of
\* ReplayWindow is the history of the accepted counters.
THEOREM WindowCorrect == Spec => []WindowIsHistory
<1>1. Init => WindowIsHistory
  BY DEF Init, WindowIsHistory
<1>2. TypeOK /\ WindowIsHistory /\ [Next]_vars => WindowIsHistory'
  <2> SUFFICES ASSUME TypeOK, WindowIsHistory, [Next]_vars
               PROVE  WindowIsHistory'
    OBVIOUS
  <2>1. ASSUME NEW c \in 0..MaxCounter, Reject(c) PROVE WindowIsHistory'
    BY <2>1 DEF Reject, Answer, WindowIsHistory
  <2>2. CASE UNCHANGED vars
    BY <2>2 DEF vars, WindowIsHistory
  <2> QED BY <2>1, <2>2, AdvanceKeepsHistory, MarkKeepsHistory DEF Next, Check
<1> QED BY <1>1, <1>2, TypeCorrect, PTL DEF Spec

\* ReplayWindow.Check implements the set specification ReplaySpec: a packet
\* counter passes if and only if it is fresh.
THEOREM Refinement == Spec => ImplementsReplaySpec
<1>1. Init => Abstract!Init
  BY DEF Init, Abstract!Init
<1>2. TypeOK /\ WindowIsHistory /\ [Next]_vars => [Abstract!Next]_(Abstract!vars)
  <2> SUFFICES ASSUME TypeOK, WindowIsHistory, [Next]_vars
               PROVE  [Abstract!Next]_(Abstract!vars)
    OBVIOUS
  <2>1. replayWindowSize \in Nat /\ replayWindowSize > 0
    BY ReplayAssumption, SMTT(20) DEF replayWindowSize
  <2>2. ASSUME NEW c \in 0..MaxCounter, Check(c) PROVE Abstract!Check(c)
    <3>1. c \in Nat /\ maxSeen \in Nat
      BY ReplayAssumption DEF TypeOK
    <3>2. CASE Reject(c)
      <4>1. ~ Abstract!Fresh(c)
        BY <2>1, <3>1, <3>2, BitIsMembership DEF Reject, Abstract!Fresh
      <4>2. Abstract!Fresh(c) = FALSE
        BY <4>1 DEF Abstract!Fresh
      <4> QED BY <3>2, <4>2 DEF Reject, Answer, Abstract!Check
    <3>3. CASE Advance(c)
      <4>1. c > maxSeen /\ Abstract!Fresh(c)
        BY <2>1, <3>1, <3>3 DEF Advance, Abstract!Fresh, WindowIsHistory
      <4> QED BY <3>3, <4>1 DEF Advance, Answer, Abstract!Check
    <3>4. CASE Mark(c)
      <4>1. ~(c > maxSeen) /\ Abstract!Fresh(c)
        BY <2>1, <3>1, <3>4, BitIsMembership DEF Mark, Abstract!Fresh
      <4> QED BY <3>4, <4>1 DEF Mark, Answer, Abstract!Check
    <3> QED BY <2>2, <3>2, <3>3, <3>4 DEF Check
  <2>3. CASE UNCHANGED vars
    BY <2>3 DEF vars, Abstract!vars
  <2> QED BY <2>2, <2>3 DEF Next, Abstract!Next
<1> QED BY <1>1, <1>2, TypeCorrect, WindowCorrect, PTL
        DEF Spec, ImplementsReplaySpec, Abstract!Spec
===============================================================================
