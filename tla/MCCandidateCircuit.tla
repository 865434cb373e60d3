-------------------------- MODULE MCCandidateCircuit --------------------------
(* One candidate, two hops, or a hop and a query, for TLC. *)
EXTENDS CandidateCircuit, TLC

CONSTANTS h1, h2, q1, p1, p2

SymHops == Permutations(Hops)
=============================================================================
