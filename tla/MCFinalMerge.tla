---------------------------- MODULE MCFinalMerge ----------------------------
(* An ordinary and a high-assurance Mission of one project, for TLC. *)
EXTENDS FinalMergeHistory, TLC

CONSTANTS m1, m2, c1, c2

MCPaths == m1 :> {"direct", "verified"} @@ m2 :> {"ha"}
MCPathsOne == m1 :> {"verified"}

Symmetry == Permutations({c1, c2})

(* Bounds: only m2 is synchronised and sent back, m1 is at most cancelled, one *)
(* of them at a time; a call that holds a replaced object is of m1, which       *)
(* awaited review, and runs alone.                                              *)
Bounded ==
  /\ mission[m1].base = {} /\ mission[m1].status # "planning"
  /\ Cardinality({m \in Missions : mission[m].status \in {"planning", "blocked"}}) <= 1
  /\ \A c, d \in Calls : call[c].copy # "live" /\ d # c => call[d].pc = "idle"
  /\ \A c \in Calls : call[c].copy = "live"
       \/ (call[c].copy = "awaiting_review" /\ MissionOf(c) = m1)
=============================================================================
