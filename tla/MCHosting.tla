----------------------------- MODULE MCHosting -----------------------------
(* Two Missions, none or both of them queued, and one caller, for TLC.    *)
EXTENDS Hosting, TLC

CONSTANTS m1, m2, h1, worker

MCDependsOn == [m \in Missions |-> IF m = m2 THEN {m1} ELSE {}]
MCLines == {<<>>, <<m1, m2>>}
=============================================================================
