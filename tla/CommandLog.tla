----------------------------- MODULE CommandLog -----------------------------
(***************************************************************************)
(* What the command transaction of the state file promises: a command      *)
(* takes effect as a whole, durably, and before its caller is told; one    *)
(* that fails has no effect, then or later; a crash leaves open commands   *)
(* without an effect and takes none away.                                  *)
(***************************************************************************)
CONSTANT Commands

VARIABLES
  kept,    \* commands whose effect is in the state file
  reply    \* [Commands -> what the caller was told]

Init ==
  /\ kept = {}
  /\ reply = [c \in Commands |-> "none"]

Commit(c) ==
  /\ reply[c] = "none"
  /\ kept' = kept \cup {c}
  /\ reply' = [reply EXCEPT ![c] = "ok"]

Refuse(c) ==
  /\ reply[c] = "none"
  /\ reply' = [reply EXCEPT ![c] = "failed"]
  /\ UNCHANGED kept

Crash ==
  /\ \E lost \in SUBSET {c \in Commands : reply[c] = "none"} :
       reply' = [c \in Commands |-> IF c \in lost THEN "lost" ELSE reply[c]]
  /\ UNCHANGED kept

Next == Crash \/ \E c \in Commands : Commit(c) \/ Refuse(c)

Spec == Init /\ [][Next]_<<kept, reply>>
=============================================================================
