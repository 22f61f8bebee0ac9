------------------------------ MODULE ReplaySpec ------------------------------
(***************************************************************************)
(* What a replay window promises, with no bit array: a packet counter is   *)
(* accepted exactly when it is non-zero, has not been accepted before and  *)
(* is less than Size behind the highest counter accepted so far.           *)
(***************************************************************************)
EXTENDS Naturals

CONSTANTS Size,        \* how far behind the highest counter is tolerated
          MaxCounter   \* bound on the counters that are tried

VARIABLES accepted,    \* every counter accepted so far
          maxSeen,     \* the highest of them, 0 at the start
          verdict      \* the last answer: [counter, ok]

vars == <<accepted, maxSeen, verdict>>

Init == /\ accepted = {}
        /\ maxSeen = 0
        /\ verdict = [counter |-> 0, ok |-> FALSE]

\* The counter is one the window must let through.
Fresh(c) == c > 0 /\ c \notin accepted /\ maxSeen < c + Size

Check(c) ==
    /\ verdict' = [counter |-> c, ok |-> Fresh(c)]
    /\ accepted' = IF Fresh(c) THEN accepted \cup {c} ELSE accepted
    /\ maxSeen' = IF Fresh(c) /\ c > maxSeen THEN c ELSE maxSeen

Next == \E c \in 0..MaxCounter : Check(c)

Spec == Init /\ [][Next]_vars
===============================================================================
