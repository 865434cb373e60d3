----------------------------- MODULE MCMainLock -----------------------------
(* Three processes and one state file, for TLC.                            *)
EXTENDS MainLock, TLC

CONSTANTS a, b, c

SymProcs == Permutations(Procs)
=============================================================================
