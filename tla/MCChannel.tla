----------------------------- MODULE MCChannel -----------------------------
(* Small instances of Channel: two image names and two or three commands.  *)
EXTENDS Channel, TLC

Symmetric == Permutations(Channels) \cup Permutations(Procs)
=============================================================================
