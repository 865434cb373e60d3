------------------------------ MODULE Mailbox ------------------------------
(***************************************************************************)
(* What the inbox promises of every letter, whoever carries it and however *)
(* often the carrier dies: it waits until the receiver knows of it, or     *)
(* until nobody waits for it any more, and what is moot stays moot.        *)
(***************************************************************************)
CONSTANT Letters

VARIABLES
  place,   \* [Letters -> where the letter is]
  known,   \* what the receiver was told, or took without being told
  moot     \* posted letters that nobody waits for

mvars == <<place, known, moot>>

Posted == {l \in Letters : place[l] # "absent"}

Init ==
  /\ place \in [Letters -> {"absent", "waiting"}]
  /\ known = {}
  /\ moot \in SUBSET Posted

(* A letter is posted; it may make older ones moot, or be so itself. *)
Post(l) ==
  /\ place[l] = "absent"
  /\ place' = [place EXCEPT ![l] = "waiting"]
  /\ moot \subseteq moot' /\ moot' \subseteq Posted'
  /\ known' = known

(* The world goes on. *)
Expire ==
  /\ moot \subseteq moot' /\ moot' \subseteq Posted
  /\ UNCHANGED <<place, known>>

(* The receiver hears of it.  What was collected is told only if moot. *)
Tell(l) ==
  /\ place[l] = "waiting" \/ l \in moot
  /\ known' = known \cup {l}
  /\ UNCHANGED <<place, moot>>

(* The receiver comes for it himself. *)
TakeByHand(l) ==
  /\ place[l] = "waiting"
  /\ place' = [place EXCEPT ![l] = "gone"]
  /\ known' = known \cup {l}
  /\ moot' = moot

(* The carrier strikes it off. *)
Collect(l) ==
  /\ place[l] = "waiting"
  /\ l \in known \cup moot
  /\ place' = [place EXCEPT ![l] = "gone"]
  /\ UNCHANGED <<known, moot>>

Next ==
  \/ Expire
  \/ \E l \in Letters : Post(l) \/ Tell(l) \/ TakeByHand(l) \/ Collect(l)

Spec == Init /\ [][Next]_mvars
=============================================================================
