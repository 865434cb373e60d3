------------------------------ MODULE HopLease ------------------------------
(***************************************************************************)
(* What the durable queue promises about one hop, without clocks, runners  *)
(* or capacity: at most one holder at a time, epochs that only grow, and   *)
(* an end that is decided once, by the latest epoch and nobody else.       *)
(***************************************************************************)
EXTENDS Naturals

CONSTANT Hops

VARIABLES
  epoch,   \* [Hops -> Nat], how often the hop was claimed
  held,    \* [Hops -> BOOLEAN], the latest epoch still owns the hop
  done     \* [Hops -> BOOLEAN], completed or dead

lvars == <<epoch, held, done>>

Init ==
  /\ epoch = [h \in Hops |-> 0]
  /\ held = [h \in Hops |-> FALSE]
  /\ done = [h \in Hops |-> FALSE]

(* A hop nobody holds is taken under a new epoch. *)
Take(h) ==
  /\ ~held[h] /\ ~done[h]
  /\ epoch' = [epoch EXCEPT ![h] = @ + 1]
  /\ held' = [held EXCEPT ![h] = TRUE]
  /\ UNCHANGED done

(* Leases run out, any number of them at once, or are handed back. *)
Lapse ==
  /\ held' \in [Hops -> BOOLEAN]
  /\ \A h \in Hops : held'[h] => held[h]
  /\ UNCHANGED <<epoch, done>>

(* The latest epoch ends the hop, even if its lease ran out meanwhile. *)
Decide(h) ==
  /\ ~done[h] /\ epoch[h] > 0
  /\ done' = [done EXCEPT ![h] = TRUE]
  /\ held' = [held EXCEPT ![h] = FALSE]
  /\ UNCHANGED epoch

Next == (\E h \in Hops : Take(h) \/ Decide(h)) \/ Lapse

Spec == Init /\ [][Next]_lvars
=============================================================================
