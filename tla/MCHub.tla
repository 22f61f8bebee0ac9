------------------------------- MODULE MCHub ---------------------------------
(* Three sessions and two addresses: two sessions that send at the same time   *)
(* and are interchangeable, in one minute, or a third that sends for six.      *)
EXTENDS Hub, TLC
CONSTANTS s1, s2, s3, m1, m2
MCSessions == {s1, s2, s3}
MCMacs == {m1, m2}
MCLoads == {[forwarders |-> {s1, s2}, minutes |-> 0], [forwarders |-> {s3}, minutes |-> 6]}
Symmetry == Permutations({s1, s2})
===============================================================================
