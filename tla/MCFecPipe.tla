------------------------------ MODULE MCFecPipe -------------------------------
(* Two receive loops: a path that brings everything, and a second one that     *)
(* brings the data of the first block once more, before or after it expired.   *)
EXTENDS FecPipe
CONSTANTS p1, p2
TwoPaths == {p1, p2}
MCCarried == [p \in TwoPaths |-> IF p = p1 THEN Packet ELSE {Data(0, i) : i \in Slot}]
===============================================================================
