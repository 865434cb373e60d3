----------------------------- MODULE MCHopQueue -----------------------------
(* Two Missions of one or two projects, two runners, for TLC. *)
EXTENDS HopQueue, TLC

CONSTANTS r1, r2, m1, m2, s1, s2, p1, p2, j1, j2, t1, t2, l1, l2

SymRunners == Permutations(Runners)

(* A single executor hop. *)
MCMissionOfOne == s1 :> m1
MCRoleOfOne    == s1 :> "executor"
MCLaneOfOne    == s1 :> l1

(* The coordinator hop and the impact hop of one Mission share a lane. *)
MCMissionOfShared == s1 :> m1 @@ s2 :> m1
MCRoleOfShared    == s1 :> "coordinator" @@ s2 :> "coordinator"
MCLaneOfShared    == s1 :> l1 @@ s2 :> l1

MCProjectOf == [m \in Missions |-> IF m = m1 THEN j1 ELSE j2]
MCRuntimeOfOne == [p \in Profiles |-> t1]
MCBackoff == [n \in 1..MaxAttempts |-> n]

(* Bound: two rows are enqueued, of one contract or of two. *)
TwoRows == RowCount <= 2

LimitWide    == [global |-> 2, project |-> 2, role |-> 2, runtime |-> 2, profile |-> 2]
LimitRuntime == [global |-> 2, project |-> 2, role |-> 2, runtime |-> 1, profile |-> 2]
=============================================================================
