------------------------------ MODULE MCInbox ------------------------------
(***************************************************************************)
(* Two Missions of two chats, one of them dead, for TLC.  The first one    *)
(* was sent back, or is over with a question that is still open; the       *)
(* second one has asked.                                                   *)
(***************************************************************************)
EXTENDS Inbox, TLC

CONSTANTS m1, m2, n1, n2, s1, s2

Is(st, asked, attempt, last) ==
  [st |-> st, asked |-> asked, answered |-> 0, attempt |-> attempt, last |-> last]

MCOrigin == [m \in Missions |-> IF m = m1 THEN n1 ELSE n2]
MCOffers == {<<s1, n1>>, <<s2, All>>}
MCActs   == [m \in Missions |-> IF m = m1 THEN 2 ELSE 0]
MCStarts == {[m \in Missions |-> IF m = m1 THEN f ELSE Is("open", <<1>>, 1, 0)] :
              f \in {Is("open", <<>>, 1, 1), Is("over", <<1>>, 1, 1)}}
=============================================================================
