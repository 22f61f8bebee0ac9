------------------------------ MODULE MCFragment ------------------------------
(* Pieces hold two bytes.  The secondary path carries the first frame only.    *)
EXTENDS Fragment
CONSTANTS p1, p2
TwoPaths == {p1, p2}
FourFrames == <<3, 4, 3, 5>>
FirstOnBoth == [n \in 1..NFrames |-> IF n = 1 THEN {p1, p2} ELSE {p1}]
===============================================================================
