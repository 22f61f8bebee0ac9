---------------------------- MODULE MCReplayWindow ----------------------------
(* A window of three two-bit words: jumps inside a word, across one border,  *)
(* across two and past the whole window all occur below counter 11.          *)
EXTENDS ReplayWindow
===============================================================================
