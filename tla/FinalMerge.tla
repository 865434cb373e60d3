----------------------------- MODULE FinalMerge -----------------------------
(***************************************************************************)
(* The last step of a Mission: its branch is merged into the target        *)
(* branch, the result is verified there, a red result is reset, a green    *)
(* one completes the Mission.                                              *)
(*                                                                         *)
(* A finalization is a call that runs through many awaits, minutes long    *)
(* while it verifies, and outside any transaction.  Meanwhile other calls  *)
(* finalize, third parties commit to the target, Missions are cancelled,   *)
(* sent back, submitted again and synchronised with the target, and        *)
(* transactions of the project abort.                                      *)
(*                                                                         *)
(* Three ways lead here: "direct" (a person or reviewer merges),           *)
(* "verified" (a queued project or the machine merges and verifies) and    *)
(* "ha" (a reviewer with standing authority releases a high-assurance      *)
(* Mission).  Missions that changed no code have nothing to merge and are  *)
(* left out, and so are identities, policies and criteria: they decide     *)
(* whether a call begins.                                                  *)
(***************************************************************************)
EXTENDS Naturals, FiniteSets

CONSTANTS
  Missions,     \* Missions of one project, all merging into one branch
  Calls,        \* finalizations that may be in progress at once
  Paths,        \* the ways by which each Mission may be finalized
  Other,        \* whoever commits to the target besides the platform
  NoMission, NoRevision,
  MaxCommits,   \* bound on the commits made on the target
  MaxWork       \* bound on the versions of its work a Mission submits

ASSUME PathAssumption ==
  \A m \in Missions : Paths[m] \in {{"ha"}, {"verified"}, {"direct", "verified"}}

ASSUME BoundAssumption == MaxCommits \in Nat \ {0} /\ MaxWork \in Nat \ {0}

ASSUME NameAssumption == Other \notin Missions /\ NoMission \notin Missions

VARIABLES
  target,   \* the revision the target branch is at
  made,     \* commits made on the target so far, those reset included
  mission,  \* what the store holds of each Mission
  anchored, \* the Missions with a final_review.integration_anchor event that
            \* names a revision free of their code
  unsafe,   \* the Missions with a final_review.ha_unsafe event
  merged,   \* the Missions with a final_review.merged event
  call      \* the local state of each finalization

vars == <<target, made, mission, anchored, unsafe, merged, call>>

(* A commit is new for ever, so the set of commits identifies a revision. *)
Commits   == [by: Missions \cup {Other}, work: 0..MaxWork, n: 1..MaxCommits]
Revisions == SUBSET Commits

(* Any set with an element that is no commit will do for NoRevision. *)
ASSUME RevisionAssumption == NoRevision \notin Revisions

Statuses == {"planning", "awaiting_review", "completed", "blocked"}
Terminal == {"completed", "blocked"}

(* work: the version submitted last; tip: the version committed to the      *)
(* branch, 0 while the branch is still at its base.                         *)
Mission == [status: Statuses, base: Revisions, work: 1..MaxWork, tip: 0..MaxWork,
            mergedInto: Revisions \cup {NoRevision}, tested: Revisions \cup {NoRevision}]

Steps == {"idle", "unsafe", "head", "anchor", "base", "merge", "merged", "verify",
          "recheck", "red", "reset", "complete"}

(* copy: the status of the Mission object the call was left with when the   *)
(* store replaced it, "live" while it holds the one in the store.  base: the *)
(* base the call has read, or was left with.                                *)
Call == [pc: Steps, mission: Missions \cup {NoMission}, path: {"direct", "verified", "ha"},
         copy: Statuses \cup {"live"}, base: Revisions, anchor: Revisions, into: Revisions,
         tested: Revisions]

IdleCall == [pc |-> "idle", mission |-> NoMission, path |-> "direct", copy |-> "live",
             base |-> {}, anchor |-> {}, into |-> {}, tested |-> {}]

MissionOf(c) == call[c].mission

(* The status and base that a call sees through the object it holds. *)
SeenStatus(c) == IF call[c].copy = "live" THEN mission[MissionOf(c)].status ELSE call[c].copy
SeenBase(c)   == IF call[c].copy = "live" THEN mission[MissionOf(c)].base ELSE call[c].base

(* git merge-base --is-ancestor: the branch of the Mission is in the revision. *)
Contains(rev, m, version) == \E x \in rev : x.by = m /\ x.work = version

HasCode(rev, m) == \E x \in rev : x.by = m

(* haMissionAlreadyInHead: merged, and the branch does not just sit at its base. *)
AlreadyMerged(m, base) == /\ mission[m].tip # 0
                          /\ Contains(target, m, mission[m].tip)
                          /\ ~Contains(base, m, mission[m].tip)

-----------------------------------------------------------------------------
Goto(c, step) == call' = [call EXCEPT ![c].pc = step]
Leave(c)      == call' = [call EXCEPT ![c] = IdleCall]

Repository == <<target, made>>
Events     == <<anchored, unsafe, merged>>

NewCommit(who, version) == [by |-> who, work |-> version, n |-> made + 1]

(* A status set through a replaced object is lost. *)
SetStatus(c, status) ==
  mission' = IF call[c].copy = "live" THEN [mission EXCEPT ![MissionOf(c)].status = status]
                                    ELSE mission

(* markHaUnsafe *)
MarkUnsafe(c) == unsafe' = IF call[c].path = "ha" THEN unsafe \cup {MissionOf(c)} ELSE unsafe

(* The merge did not happen: a direct call blocks the Mission (and throws   *)
(* when it has ended), the others leave it to L3.                           *)
MergeFails(c) ==
  /\ Leave(c)
  /\ IF call[c].path = "direct" /\ SeenStatus(c) \notin Terminal
       THEN SetStatus(c, "blocked") ELSE UNCHANGED mission
  /\ UNCHANGED <<Repository, Events>>

-----------------------------------------------------------------------------
(* The call *)

FirstStep(path) == CASE path = "ha" -> "unsafe" [] path = "verified" -> "anchor" [] OTHER -> "base"

(* A direct call reads the base now, the others do later. *)
BaseRead(m, path) == IF path = "direct" THEN mission[m].base ELSE {}

(* The Mission is awaiting review: asked once. *)
Begin(c) ==
  /\ call[c].pc = "idle"
  /\ \E m \in Missions : \E path \in Paths[m] :
       /\ mission[m].status = "awaiting_review"
       /\ call' = [call EXCEPT ![c] = [IdleCall EXCEPT !.pc = FirstStep(path), !.mission = m,
                                        !.path = path, !.base = BaseRead(m, path)]]
  /\ UNCHANGED <<Repository, mission, Events>>

\* A high-assurance call does not ask for earlier unsafe outcomes.
ReadUnsafe_Skipped(c) ==
  /\ call[c].pc = "unsafe"
  /\ Goto(c, "head")
  /\ UNCHANGED <<Repository, mission, Events>>

(* haUnsafe: a Mission once marked is for people to look at. *)
ReadUnsafe(c) ==
  /\ call[c].pc = "unsafe"
  /\ IF MissionOf(c) \in unsafe THEN Leave(c) ELSE Goto(c, "head")
  /\ UNCHANGED <<Repository, mission, Events>>

(* HA compares the head with the base before it starts. *)
ReadHead(c) ==
  /\ call[c].pc = "head"
  /\ IF target = SeenBase(c)
       THEN Goto(c, "anchor") /\ UNCHANGED unsafe
       ELSE /\ Leave(c)
            /\ IF AlreadyMerged(MissionOf(c), SeenBase(c)) THEN MarkUnsafe(c) ELSE UNCHANGED unsafe
  /\ UNCHANGED <<Repository, mission, anchored, merged>>

\* The anchor is read but not kept in an event.
ReadAnchor_Unrecorded(c) ==
  /\ call[c].pc = "anchor"
  /\ call' = [call EXCEPT ![c].pc = "base", ![c].anchor = target, ![c].base = SeenBase(c)]
  /\ UNCHANGED <<Repository, mission, Events>>

(* The head is read and kept in an event before anything is merged. *)
ReadAnchor(c) ==
  /\ call[c].pc = "anchor"
  /\ anchored' = IF HasCode(target, MissionOf(c)) THEN anchored
                                                 ELSE anchored \cup {MissionOf(c)}
  /\ call' = [call EXCEPT ![c].pc = "base", ![c].anchor = target, ![c].base = SeenBase(c)]
  /\ UNCHANGED <<Repository, mission, unsafe, merged>>

(* mergeToTarget, first half: the head must be the base of the Mission and  *)
(* the checkout clean; what the executor left is committed to the branch.   *)
CheckBase(c) ==
  /\ call[c].pc = "base"
  /\ \/ /\ target = call[c].base
        /\ call' = [call EXCEPT ![c].pc = "merge", ![c].base = {}]
        /\ mission' = [mission EXCEPT ![MissionOf(c)].tip = mission[MissionOf(c)].work]
        /\ UNCHANGED <<Repository, Events>>
     \/ MergeFails(c)

\* Merge that takes a failed git merge for done.
Merge_Swallows(c) ==
  /\ call[c].pc = "merge"
  /\ Goto(c, "merged")
  /\ UNCHANGED <<mission, Events>>
  /\ \/ UNCHANGED Repository
     \/ /\ made < MaxCommits
        /\ target' = target \cup {NewCommit(MissionOf(c), mission[MissionOf(c)].tip)}
        /\ made' = made + 1

(* mergeToTarget, second half: git merge --no-ff.  What is in already makes *)
(* no new commit; a conflict is aborted.                                    *)
Merge(c) ==
  /\ call[c].pc = "merge"
  /\ LET m == MissionOf(c) IN
     \/ /\ Contains(target, m, mission[m].tip)
        /\ Goto(c, "merged")
        /\ UNCHANGED <<Repository, mission, Events>>
     \/ /\ ~Contains(target, m, mission[m].tip)
        /\ made < MaxCommits
        /\ target' = target \cup {NewCommit(m, mission[m].tip)}
        /\ made' = made + 1
        /\ Goto(c, "merged")
        /\ UNCHANGED <<mission, Events>>
     \/ MergeFails(c)

(* The head is read again: it is what the call takes for its merge. *)
ReadMerged(c) ==
  /\ call[c].pc = "merged"
  /\ call' = [call EXCEPT ![c].into = target,
                ![c].pc = IF call[c].path = "direct" THEN "complete" ELSE "verify"]
  /\ UNCHANGED <<Repository, mission, Events>>

(* The verification ends; tested is the revision it ended on. *)
Verify(c) ==
  /\ call[c].pc = "verify"
  /\ \E next \in {"recheck", "red"} :
       call' = [call EXCEPT ![c].pc = next, ![c].tested = target]
  /\ UNCHANGED <<Repository, mission, Events>>

\* A green result is signed without looking at the head again.
Recheck_Skipped(c) ==
  /\ call[c].pc = "recheck"
  /\ Goto(c, "complete")
  /\ UNCHANGED <<Repository, mission, Events>>

(* Green: the head must still be the merge. *)
Recheck(c) ==
  /\ call[c].pc = "recheck"
  /\ IF target = call[c].into THEN Goto(c, "complete") /\ UNCHANGED unsafe
                              ELSE Leave(c) /\ MarkUnsafe(c)
  /\ UNCHANGED <<Repository, mission, anchored, merged>>

\* The reset does not look whether others have committed since the merge.
CheckReset_Skipped(c) ==
  /\ call[c].pc = "red"
  /\ Goto(c, "reset")
  /\ UNCHANGED <<Repository, mission, Events>>

(* Red, resetTarget: the head must still be the merge ... *)
CheckReset(c) ==
  /\ call[c].pc = "red"
  /\ IF target = call[c].into THEN Goto(c, "reset") /\ UNCHANGED unsafe
                              ELSE Leave(c) /\ MarkUnsafe(c)
  /\ UNCHANGED <<Repository, mission, anchored, merged>>

(* ... and is reset to the anchor, unless git fails. *)
Reset(c) ==
  /\ call[c].pc = "reset"
  /\ Leave(c)
  /\ \/ target' = call[c].anchor /\ UNCHANGED unsafe
     \/ MarkUnsafe(c) /\ UNCHANGED target
  /\ UNCHANGED <<made, mission, anchored, merged>>

\* The Mission is completed without the revision it was merged into.
Complete_Unsigned(c) ==
  /\ call[c].pc = "complete"
  /\ Leave(c)
  /\ IF SeenStatus(c) = "awaiting_review"
       THEN SetStatus(c, "completed") /\ merged' = merged \cup {MissionOf(c)}
       ELSE UNCHANGED <<mission, merged>>
  /\ UNCHANGED <<Repository, anchored, unsafe>>

(* Mission.complete allows only awaiting_review and throws otherwise. *)
Complete(c) ==
  /\ call[c].pc = "complete"
  /\ Leave(c)
  /\ LET m == MissionOf(c) IN
     IF SeenStatus(c) = "awaiting_review"
       THEN /\ merged' = merged \cup {m}
            /\ mission' = IF call[c].copy # "live" THEN mission
                 ELSE [mission EXCEPT ![m].status = "completed", ![m].mergedInto = call[c].into,
                         ![m].tested = IF call[c].path = "direct" THEN NoRevision
                                                                  ELSE call[c].tested]
       ELSE UNCHANGED <<mission, merged>>
  /\ UNCHANGED <<Repository, anchored, unsafe>>

(* The process ends, or an await of the call throws. *)
Die(c) ==
  /\ call[c].pc # "idle"
  /\ Leave(c)
  /\ UNCHANGED <<Repository, mission, Events>>

CallStep(c) ==
  \/ Begin(c) \/ ReadUnsafe(c) \/ ReadHead(c) \/ ReadAnchor(c) \/ CheckBase(c) \/ Merge(c)
  \/ ReadMerged(c) \/ Verify(c) \/ Recheck(c) \/ CheckReset(c) \/ Reset(c) \/ Complete(c)
  \/ Die(c)

-----------------------------------------------------------------------------
(* Everything else *)

(* Somebody commits to the target. *)
Commit ==
  /\ made < MaxCommits
  /\ target' = target \cup {NewCommit(Other, 0)}
  /\ made' = made + 1
  /\ UNCHANGED <<mission, Events, call>>

SetMission(m, fields) ==
  /\ mission' = [mission EXCEPT ![m] = fields]
  /\ UNCHANGED <<Repository, Events, call>>

(* Sent back, revised, cancelled or abandoned. *)
TakeBack(m) ==
  \E status \in {"planning", "blocked"} :
    /\ mission[m].status \notin Terminal
    /\ SetMission(m, [mission[m] EXCEPT !.status = status])

(* Submitted, with the work it had or with more, committed or not. *)
Submit(m) ==
  \E version \in {mission[m].work, mission[m].work + 1} :
  \E tip \in {mission[m].tip, version} :
    /\ mission[m].status = "planning"
    /\ version <= MaxWork
    /\ SetMission(m, [mission[m] EXCEPT !.status = "awaiting_review", !.work = version, !.tip = tip])

(* resumeParkedMission: the clean branch takes in the target. *)
Synchronise(m) ==
  /\ mission[m].status \notin Terminal
  /\ mission[m].tip \in {0, mission[m].work}
  /\ SetMission(m, [mission[m] EXCEPT !.base = target])

(* A transaction that changed a Mission of the project aborts: the store    *)
(* replaces all Missions of the project, and calls are left with theirs.    *)
Abort ==
  /\ call' = [c \in Calls |->
       IF call[c].pc = "idle" \/ call[c].copy # "live" THEN call[c]
       ELSE [call[c] EXCEPT !.copy = mission[call[c].mission].status,
                            !.base = IF call[c].pc \in {"unsafe", "head", "anchor"}
                                       THEN mission[call[c].mission].base ELSE call[c].base]]
  /\ UNCHANGED <<Repository, mission, Events>>

-----------------------------------------------------------------------------
Init ==
  /\ target = {}
  /\ made = 0
  /\ mission \in [Missions -> [status: {"awaiting_review"}, base: {{}}, work: {1}, tip: {0, 1},
                               mergedInto: {NoRevision}, tested: {NoRevision}]]
  /\ anchored = {}
  /\ unsafe = {}
  /\ merged = {}
  /\ call = [c \in Calls |-> IdleCall]

Next ==
  \/ \E c \in Calls : CallStep(c)
  \/ \E m \in Missions : TakeBack(m) \/ Submit(m) \/ Synchronise(m)
  \/ Commit
  \/ Abort

Spec == Init /\ [][Next]_vars

-----------------------------------------------------------------------------
(* Properties. *)

\* Missions and calls keep their types, and a Mission knows what it was merged
\* into exactly when it is completed (FinalReview.mergedInto).
TypeOK ==
  /\ target \in Revisions
  /\ made \in 0..MaxCommits
  /\ mission \in [Missions -> Mission]
  /\ anchored \subseteq Missions
  /\ unsafe \subseteq Missions
  /\ merged \subseteq Missions
  /\ call \in [Calls -> Call]
  /\ \A m \in Missions : mission[m].status = "completed" <=> mission[m].mergedInto # NoRevision
  /\ \A c \in Calls : call[c].mission = NoMission <=> call[c].pc = "idle"

\* Wherever a call or the process dies, code of a Mission on the target can be
\* traced: an anchor event names a revision that was free of it.
AnchorRecorded ==
  \A m \in Missions : "direct" \notin Paths[m] /\ HasCode(target, m) => m \in anchored

\* Call c may still take commit x off the target: x came after the anchor, and
\* the call has passed its base check and not read the head yet, or has read x as
\* part of its own merge, or has done its last comparison.
MayErase(c, x) ==
  /\ call[c].path # "direct" /\ x \notin call[c].anchor
  /\ \/ call[c].pc \in {"merge", "merged", "reset"}
     \/ call[c].pc \in {"verify", "recheck", "red"} /\ x \in call[c].into
     \/ call[c].pc = "base" /\ x \in call[c].base

Kept(x) == x \in target /\ \A c \in Calls : ~MayErase(c, x)

\* A red result takes away its own merge only: a commit, somebody's or that of
\* another finalization, stays on the target for ever unless it came in one of the
\* two windows of a call in progress, between its base check and its look at the
\* head, or between the check of the reset and the reset (mergeToTarget, resetTarget).
CommitsStay == [][\A x \in target : Kept(x) => Kept(x)']_vars

\* "No automatic merge again": once a high-assurance Mission is marked unsafe and
\* the calls that had asked before have ended, no call merges or completes it, however
\* often it is synchronised, submitted again and released (haUnsafe).
Stopped(m) ==
  m \in unsafe /\ \A c \in Calls : MissionOf(c) = m => call[c].pc = "unsafe"

UnsafeStays ==
  [][\A m \in Missions : Stopped(m) =>
       /\ Stopped(m)'
       /\ made' # made => \A x \in target' \ target : x.by # m
       /\ mission'[m].status = "completed" => mission[m].status = "completed"]_vars

\* A Mission with a final_review.merged event is completed in the store: the
\* status is not a write into somebody else's transaction that is lost when it
\* aborts.
MergedIsRecorded == \A m \in merged : mission[m].status = "completed"

=============================================================================
