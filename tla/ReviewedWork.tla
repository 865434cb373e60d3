---------------------------- MODULE ReviewedWork ----------------------------
(***************************************************************************)
(* What the kernel promises to L3 about the Missions of a project, without *)
(* loops, hops, silent attempts or parked rounds: work is sent out only    *)
(* under a contract that was checked and by a Mission that has the lane    *)
(* for itself; what is put forward for review speaks of the contract in    *)
(* force, and as delivered only when nothing sent out is open; and what is *)
(* over stays over.                                                        *)
(***************************************************************************)
CONSTANTS Missions, Items

VARIABLES
  stage,    \* [Missions -> where the Mission is]
  cleared,  \* the Missions whose contract in force was checked
  open,     \* [Missions -> the items sent out and neither accepted nor retired]
  code,     \* the Missions that have sent out work
  lane      \* the Missions whose code may go on

rvars == <<stage, cleared, open, code, lane>>

(* "delivered" and "blocked" are what L3 is asked to accept.               *)
InReview == {"delivered", "blocked"}
Over     == {"accepted", "given up"}

Init ==
  /\ stage = [m \in Missions |-> "planning"]
  /\ open = [m \in Missions |-> {}]
  /\ cleared = {} /\ code = {} /\ lane = {}

SetAside(m) ==
  /\ lane' = lane \ {m}
  /\ UNCHANGED <<stage, cleared, open, code>>

TakeUp(m) ==
  /\ m \in code /\ stage[m] \notin Over
  /\ lane = {} /\ lane' = {m}
  /\ UNCHANGED <<stage, cleared, open, code>>

Settle(m, i) ==
  /\ open' = [open EXCEPT ![m] = @ \ {i}]
  /\ UNCHANGED <<stage, cleared, code, lane>>

Check(m) ==
  /\ cleared' = cleared \cup {m}
  /\ UNCHANGED <<stage, open, code, lane>>

(* The only way for an item to open.  Nobody else may be in the lane; a    *)
(* Mission that is set aside sends out without entering it.                *)
SendOut(m, S) ==
  /\ stage[m] \in {"planning", "executing"}
  /\ m \in cleared
  /\ lane \subseteq {m}
  /\ stage' = [stage EXCEPT ![m] = "executing"]
  /\ open' = [open EXCEPT ![m] = @ \cup S]
  /\ code' = code \cup {m}
  /\ lane' \in {lane, {m}}
  /\ UNCHANGED cleared

PutForward(m, outcome) ==
  /\ stage[m] \notin Over
  /\ outcome = "delivered" => open[m] = {}
  /\ stage' = [stage EXCEPT ![m] = outcome]
  /\ UNCHANGED <<cleared, open, code, lane>>

SendBack(m) ==
  /\ stage[m] \in InReview
  /\ stage' = [stage EXCEPT ![m] = "planning"]
  /\ UNCHANGED <<cleared, open, code, lane>>

(* A revision takes back what was put forward and stops what executes.     *)
Revise(m) ==
  /\ stage[m] \notin Over
  /\ stage' = [stage EXCEPT ![m] = "planning"]
  /\ cleared' = cleared \ {m}
  /\ UNCHANGED <<open, code, lane>>

End(m, over) ==
  /\ stage' = [stage EXCEPT ![m] = over]
  /\ lane' = lane \ {m}
  /\ UNCHANGED <<cleared, open, code>>

(* Nothing is accepted that was not put forward.                           *)
Accept(m) == stage[m] \in InReview /\ End(m, "accepted")

GiveUp(m) == stage[m] \notin Over /\ End(m, "given up")

Next ==
  \E m \in Missions :
    \/ SetAside(m) \/ TakeUp(m)
    \/ \E i \in Items : Settle(m, i)
    \/ Check(m)
    \/ \E S \in SUBSET Items : SendOut(m, S)
    \/ \E outcome \in InReview : PutForward(m, outcome)
    \/ SendBack(m) \/ Revise(m) \/ Accept(m) \/ GiveUp(m)

Spec == Init /\ [][Next]_rvars
=============================================================================
