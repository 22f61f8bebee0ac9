----------------------------- MODULE MCSelfUpdate -----------------------------
EXTENDS SelfUpdate, TLC

Symmetry == Permutations(Pids) \cup Permutations(Sessions)
===============================================================================
