----------------------------- MODULE ReplayWindow -----------------------------
(***************************************************************************)
(* crypto.ReplayWindow: the anti-replay filter in front of every data,     *)
(* repair and fragment packet.  The last Words * WordBits counters are     *)
(* kept as an array of words, bit 0 of word 0 standing for maxSeen; a      *)
(* higher counter shifts the whole array.  A word is the set of its bits   *)
(* that are one.  The mutex makes each Check one step.                     *)
(***************************************************************************)
EXTENDS Integers

CONSTANTS WordBits,    \* 64 in the code
          Words,       \* 8 in the code
          MaxCounter   \* bound on the counters that are tried

ASSUME ReplayAssumption ==
    /\ WordBits \in Nat \ {0}
    /\ Words \in Nat \ {0}
    /\ MaxCounter \in Nat

VARIABLES maxSeen,     \* w.maxSeen
          window,      \* w.window
          verdict,     \* the last call: its argument and what it returned
          accepted     \* history: the counters Check returned true for

vars == <<maxSeen, window, verdict, accepted>>

replayWindowSize == WordBits * Words

Index == 0 .. Words - 1
Bit   == 0 .. WordBits - 1

-------------------------------------------------------------------------------

Init == /\ maxSeen = 0
        /\ window = [i \in Index |-> {}]
        /\ verdict = [counter |-> 0, ok |-> FALSE]
        /\ accepted = {}

\* word << s and word >> s on words of WordBits bits.
ShiftLeft(word, s)  == {b \in Bit : b - s \in word}
ShiftRight(word, s) == {b \in Bit : b + s \in word}

\* Mutant of Shifted: the bits that leave a word are lost.
Shifted_NoCarry(shift) ==
    LET wordShift == shift \div WordBits
        bitShift  == shift % WordBits
    IN [i \in Index |->
          IF i < wordShift THEN {} ELSE ShiftLeft(window[i - wordShift], bitShift)]

\* The array after every bit has moved up by `shift` places: whole words first,
\* then bits, the ones that leave a word entering the next.
Shifted(shift) ==
    LET wordShift == shift \div WordBits
        bitShift  == shift % WordBits
    IN [i \in Index |->
          LET src == i - wordShift
          IN IF src < 0 THEN {}
             ELSE IF bitShift = 0 THEN window[src]
             ELSE ShiftLeft(window[src], bitShift)
                  \cup (IF src > 0
                        THEN ShiftRight(window[src - 1], WordBits - bitShift)
                        ELSE {})]

Answer(c, ok) ==
    /\ verdict' = [counter |-> c, ok |-> ok]
    /\ accepted' = IF ok THEN accepted \cup {c} ELSE accepted

\* counter == 0, older than the window, or its bit already set: no change.
Reject(c) ==
    /\ \/ c = 0
       \/ maxSeen - c >= replayWindowSize
       \/ /\ 0 < c /\ c <= maxSeen /\ maxSeen - c < replayWindowSize
          /\ (maxSeen - c) % WordBits \in window[(maxSeen - c) \div WordBits]
    /\ Answer(c, FALSE)
    /\ UNCHANGED <<maxSeen, window>>

\* counter > w.maxSeen: slide the window so that bit 0 is the new counter.
Advance(c) ==
    /\ c > maxSeen
    /\ LET slid == IF c - maxSeen >= replayWindowSize
                   THEN [i \in Index |-> {}]
                   ELSE Shifted(c - maxSeen)
       IN window' = [slid EXCEPT ![0] = @ \cup {0}]
    /\ maxSeen' = c
    /\ Answer(c, TRUE)

\* Mutant of Mark: the bit is not tested first.
Mark_NoTest(c) ==
    /\ 0 < c /\ c <= maxSeen /\ maxSeen - c < replayWindowSize
    /\ window' = [window EXCEPT ![(maxSeen - c) \div WordBits] =
                                    @ \cup {(maxSeen - c) % WordBits}]
    /\ UNCHANGED maxSeen
    /\ Answer(c, TRUE)

\* A counter inside the window whose bit is clear.
Mark(c) ==
    /\ 0 < c /\ c <= maxSeen /\ maxSeen - c < replayWindowSize
    /\ LET word == (maxSeen - c) \div WordBits
           bit  == (maxSeen - c) % WordBits
       IN /\ bit \notin window[word]
          /\ window' = [window EXCEPT ![word] = @ \cup {bit}]
    /\ UNCHANGED maxSeen
    /\ Answer(c, TRUE)

Check(c) == Reject(c) \/ Advance(c) \/ Mark(c)

Next == \E c \in 0..MaxCounter : Check(c)

Spec == Init /\ [][Next]_vars

-------------------------------------------------------------------------------

\* The type invariant: every bit that is set is a bit of its word.
TypeOK == /\ maxSeen \in Nat
          /\ window \in [Index -> SUBSET Bit]
          /\ verdict \in [counter : Nat, ok : BOOLEAN]
          /\ accepted \subseteq Nat

\* The bit array says exactly which of the last replayWindowSize counters were
\* accepted: bit b of word i is one if and only if counter
\* maxSeen - (WordBits * i + b) went through.  It ties the shift arithmetic of
\* Check, across word borders and for any jump, to the history of calls.
WindowIsHistory ==
    /\ maxSeen = 0 \/ maxSeen \in accepted
    /\ \A c \in accepted : 0 < c /\ c <= maxSeen
    /\ \A i \in Index, b \in Bit :
          b \in window[i] <=> maxSeen - (WordBits * i + b) \in accepted

\* Check implements the set specification: the window neither lets a replayed
\* counter in nor turns a fresh one away.
Abstract == INSTANCE ReplaySpec WITH Size <- replayWindowSize
ImplementsReplaySpec == Abstract!Spec
===============================================================================
