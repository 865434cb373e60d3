--------------------------- MODULE MCMissionLane ---------------------------
(* Instances of MissionLane: the cfg files give the sets and the bounds.   *)
(* No symmetry, since Fragile and Pausable single out items and Missions.  *)
EXTENDS MissionLane
=============================================================================
