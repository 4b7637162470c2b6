----------------------------- MODULE MCDenyList -----------------------------
(* Instance of DenyList for TLC.  Threads are interchangeable.             *)
EXTENDS DenyList, TLC
ThreadSymmetry == Permutations(Threads)
=============================================================================
