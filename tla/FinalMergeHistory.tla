------------------------- MODULE FinalMergeHistory --------------------------
(***************************************************************************)
(* FinalMerge with a history variable: which finalizations another one has *)
(* reset the target under.  No step reads it.  It is there to say what a   *)
(* signature is worth when finalizations overlap, which the code does not  *)
(* prevent.                                                                *)
(***************************************************************************)
EXTENDS FinalMerge

VARIABLE undercut   \* the calls that were reset under since their merge

hvars == <<vars, undercut>>

(* From its merge to its second look at the head a call relies on the target. *)
Relies(c) == call[c].pc \in {"merged", "verify", "recheck"}

HInit == Init /\ undercut = {}

HNext ==
  /\ Next
  /\ undercut' = {d \in Calls :
       /\ call'[d].pc # "idle"
       /\ d \in undercut \/ (Relies(d) /\ \E c \in Calls \ {d} : Reset(c))}

HSpec == HInit /\ [][HNext]_hvars

-----------------------------------------------------------------------------
Completes(m) == mission'[m].status = "completed" /\ mission[m].status # "completed"

\* The call that completes the Mission in this step.
CompletedBy(c, m) == call[c].pc = "complete" /\ MissionOf(c) = m /\ call'[c] = IdleCall

\* A completed Mission has landed, in the revision that is recorded, and what is
\* signed is the revision the verification saw - whoever commits, merges, dies,
\* sends back or aborts meanwhile, however many finalizations overlap.  The one
\* exception is a call under which another one has reset the target between its
\* merge and its second look: the head may be back where it was by then
\* (mergeToTarget, runIntegrationMergeVerify, complete).
SignsWhatItTested ==
  [][\A m \in Missions : Completes(m) =>
       \/ /\ HasCode(mission'[m].mergedInto, m)
          /\ mission'[m].tested \in {NoRevision, mission'[m].mergedInto}
       \/ \E c \in undercut : CompletedBy(c, m)]_hvars

=============================================================================
