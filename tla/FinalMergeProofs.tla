------------------------- MODULE FinalMergeProofs ---------------------------
(***************************************************************************)
(* Theorems about FinalMerge, for every set of Missions and any number of  *)
(* finalizations at once: nothing in the code makes them wait for one      *)
(* another, and nothing here assumes it.                                   *)
(***************************************************************************)
EXTENDS FinalMergeHistory, TLAPS

RepositoryOK == target \in Revisions /\ made \in 0..MaxCommits

MissionOK ==
  /\ mission \in [Missions -> Mission]
  /\ \A m \in Missions : mission[m].status = "completed" <=> mission[m].mergedInto # NoRevision

EventsOK == anchored \subseteq Missions /\ unsafe \subseteq Missions /\ merged \subseteq Missions

CallOK ==
  /\ call \in [Calls -> Call]
  /\ \A c \in Calls : call[c].mission = NoMission <=> call[c].pc = "idle"

LEMMA Parts == TypeOK <=> RepositoryOK /\ MissionOK /\ EventsOK /\ CallOK
BY DEF TypeOK, RepositoryOK, MissionOK, EventsOK, CallOK

LEMMA IdleType == IdleCall \in Call
BY DEF IdleCall, Call, Steps, Statuses, Revisions

-----------------------------------------------------------------------------
(* Types: what happens to a call *)

\* Replacing the state of one call keeps CallOK.
LEMMA CallReplaced ==
  ASSUME CallOK, NEW c \in Calls, NEW v \in Call, v.mission = NoMission <=> v.pc = "idle",
         call' = [call EXCEPT ![c] = v]
  PROVE  CallOK'
BY DEF CallOK

LEMMA LeaveType == ASSUME CallOK, NEW c \in Calls, Leave(c) PROVE CallOK'
<1>1. IdleCall.mission = NoMission /\ IdleCall.pc = "idle" BY DEF IdleCall
<1>2. call' = [call EXCEPT ![c] = IdleCall] BY DEF Leave
<1> QED BY <1>1, <1>2, IdleType, CallReplaced

\* A call that has begun moves on, with whatever it has read.
LEMMA CallMoves ==
  ASSUME CallOK, NEW c \in Calls, call[c].pc # "idle", NEW step \in Steps \ {"idle"},
         NEW b \in Revisions, NEW a \in Revisions, NEW i \in Revisions, NEW t \in Revisions,
         call' = [call EXCEPT ![c] = [call[c] EXCEPT !.pc = step, !.base = b, !.anchor = a,
                                                   !.into = i, !.tested = t]]
  PROVE  CallOK'
<1> DEFINE v == [call[c] EXCEPT !.pc = step, !.base = b, !.anchor = a, !.into = i, !.tested = t]
<1>1. call[c] \in Call BY DEF CallOK
<1>2. v \in Call BY <1>1 DEF Call
<1>3. v.mission = call[c].mission /\ v.pc = step BY <1>1 DEF Call
<1>4. v.mission # NoMission /\ v.pc # "idle" BY <1>3 DEF CallOK
<1>5. call' = [call EXCEPT ![c] = v] OBVIOUS
<1> QED BY <1>2, <1>4, <1>5, CallReplaced

LEMMA GotoType ==
  ASSUME CallOK, NEW c \in Calls, call[c].pc # "idle", NEW step \in Steps \ {"idle"}, Goto(c, step)
  PROVE  CallOK'
<1>1. call[c] \in Call BY DEF CallOK
<1> DEFINE v == [call[c] EXCEPT !.pc = step]
<1>2. v \in Call BY <1>1 DEF Call
<1>3. v.mission = call[c].mission /\ v.pc = step BY <1>1 DEF Call
<1>4. v.mission # NoMission /\ v.pc # "idle" BY <1>3 DEF CallOK
<1>5. call' = [call EXCEPT ![c] = v] BY DEF Goto
<1> QED BY <1>2, <1>4, <1>5, CallReplaced

LEMMA Bound == ASSUME CallOK, NEW c \in Calls, call[c].pc # "idle" PROVE MissionOf(c) \in Missions
BY DEF CallOK, Call, MissionOf
-----------------------------------------------------------------------------
(* Types: what happens to a Mission *)

\* A Mission that is not completed, before or after, keeps its type under any
\* typed change of the fields that commands set.
LEMMA MissionChanged ==
  ASSUME MissionOK, NEW m \in Missions, mission[m].status # "completed",
         NEW s \in Statuses \ {"completed"}, NEW b \in Revisions, NEW w \in 1..MaxWork,
         NEW t \in 0..MaxWork,
         mission' = [mission EXCEPT ![m] = [mission[m] EXCEPT !.status = s, !.base = b,
                                                               !.work = w, !.tip = t]]
  PROVE  MissionOK'
<1> DEFINE v == [mission[m] EXCEPT !.status = s, !.base = b, !.work = w, !.tip = t]
<1>1. mission[m] \in Mission BY DEF MissionOK
<1>2. v \in Mission /\ v.status = s /\ v.mergedInto = mission[m].mergedInto BY <1>1 DEF Mission
<1>3. v.mergedInto = NoRevision /\ v.status # "completed" BY <1>2 DEF MissionOK
<1> QED BY <1>2, <1>3 DEF MissionOK

\* The branch of a Mission may be committed to in any status.
LEMMA TipChanged ==
  ASSUME MissionOK, NEW m \in Missions,
         mission' = [mission EXCEPT ![m].tip = mission[m].work]
  PROVE  MissionOK'
<1> DEFINE v == [mission[m] EXCEPT !.tip = mission[m].work]
<1>1. mission[m] \in Mission BY DEF MissionOK
<1>2. mission[m].work \in 0..MaxWork BY <1>1, BoundAssumption DEF Mission
<1>3. v \in Mission /\ v.status = mission[m].status /\ v.mergedInto = mission[m].mergedInto
  BY <1>1, <1>2 DEF Mission
<1>4. mission' = [mission EXCEPT ![m] = v] OBVIOUS
<1> QED BY <1>3, <1>4 DEF MissionOK

LEMMA MissionCompleted ==
  ASSUME MissionOK, NEW m \in Missions, NEW r \in Revisions,
         NEW t \in Revisions \cup {NoRevision},
         mission' = [mission EXCEPT ![m].status = "completed", ![m].mergedInto = r, ![m].tested = t]
  PROVE  MissionOK'
<1> DEFINE v == [mission[m] EXCEPT !.status = "completed", !.mergedInto = r, !.tested = t]
<1>1. mission[m] \in Mission BY DEF MissionOK
<1>2. v \in Mission /\ v.status = "completed" /\ v.mergedInto = r
  BY <1>1 DEF Mission, Statuses
<1>3. r # NoRevision BY RevisionAssumption
<1>4. mission' = [mission EXCEPT ![m] = v] BY <1>1 DEF Mission, MissionOK
<1> QED BY <1>2, <1>3, <1>4 DEF MissionOK

\* A direct call that fails blocks the Mission, unless it has ended.
LEMMA BlockedType ==
  ASSUME MissionOK, CallOK, NEW c \in Calls, call[c].pc # "idle", SeenStatus(c) \notin Terminal,
         SetStatus(c, "blocked")
  PROVE  MissionOK'
<1> DEFINE m == MissionOf(c)
<1>1. m \in Missions BY Bound
<1>2. CASE call[c].copy # "live" BY <1>2 DEF SetStatus, MissionOK
<1>3. CASE call[c].copy = "live"
  <2>1. mission[m].status # "completed" BY <1>3 DEF SeenStatus, Terminal
  <2>2. mission[m] \in Mission BY <1>1 DEF MissionOK
  <2> DEFINE v == [mission[m] EXCEPT !.status = "blocked"]
  <2>3. v \in Mission /\ v.status = "blocked" /\ v.mergedInto = mission[m].mergedInto
    BY <2>2 DEF Mission, Statuses
  <2>4. mission' = [mission EXCEPT ![m] = v] BY <1>3 DEF SetStatus
  <2>5. v.mergedInto = NoRevision BY <1>1, <2>1, <2>3 DEF MissionOK
  <2> QED BY <1>1, <2>3, <2>4, <2>5 DEF MissionOK
<1> QED BY <1>2, <1>3

LEMMA FailType ==
  ASSUME TypeOK, NEW c \in Calls, call[c].pc # "idle", MergeFails(c)
  PROVE  TypeOK'
<1>1. RepositoryOK /\ MissionOK /\ EventsOK /\ CallOK BY Parts
<1>2. CallOK' BY <1>1, LeaveType DEF MergeFails
<1>3. MissionOK'
  <2>1. CASE call[c].path = "direct" /\ SeenStatus(c) \notin Terminal
    BY <1>1, <2>1, BlockedType DEF MergeFails
  <2>2. CASE ~(call[c].path = "direct" /\ SeenStatus(c) \notin Terminal)
    BY <1>1, <2>2 DEF MergeFails, MissionOK
  <2> QED BY <2>1, <2>2
<1>4. RepositoryOK' /\ EventsOK' BY <1>1 DEF MergeFails, Repository, Events, RepositoryOK, EventsOK
<1> QED BY <1>2, <1>3, <1>4, Parts DEF TypeOK, RepositoryOK, MissionOK, EventsOK, CallOK

LEMMA CommitType ==
  ASSUME RepositoryOK, NEW who \in Missions \cup {Other}, NEW version \in 0..MaxWork,
         made < MaxCommits, target' = target \cup {NewCommit(who, version)}, made' = made + 1
  PROVE  RepositoryOK'
<1>1. made + 1 \in 1..MaxCommits BY BoundAssumption DEF RepositoryOK
<1>2. NewCommit(who, version) \in Commits BY <1>1 DEF NewCommit, Commits
<1>3. target' \in Revisions BY <1>2 DEF RepositoryOK, Revisions
<1> QED BY <1>1, <1>3, BoundAssumption DEF RepositoryOK

-----------------------------------------------------------------------------
(* Types: the steps of a call *)

\* Steps that only move the call on, leave, or mark the Mission unsafe.
LEMMA OnlyCallType ==
  ASSUME TypeOK, CallOK', EventsOK', UNCHANGED <<Repository, mission>>
  PROVE  TypeOK'
<1>1. RepositoryOK /\ MissionOK BY Parts
<1>2. RepositoryOK' /\ MissionOK' BY <1>1 DEF Repository, RepositoryOK, MissionOK
<1> QED BY <1>2 DEF TypeOK, RepositoryOK, MissionOK, EventsOK, CallOK

LEMMA MarkType ==
  ASSUME TypeOK, NEW c \in Calls, call[c].pc # "idle", MarkUnsafe(c) PROVE unsafe' \subseteq Missions
BY Bound, Parts DEF MarkUnsafe, EventsOK

LEMMA BeginType == ASSUME TypeOK, NEW c \in Calls, Begin(c) PROVE TypeOK'
<1>1. CallOK /\ MissionOK /\ EventsOK BY Parts
<1>0. PICK m \in Missions : \E path \in Paths[m] :
        call' = [call EXCEPT ![c] = [IdleCall EXCEPT !.pc = FirstStep(path), !.mission = m,
                                     !.path = path, !.base = BaseRead(m, path)]]
  BY DEF Begin
<1>2. PICK path \in Paths[m] :
        call' = [call EXCEPT ![c] = [IdleCall EXCEPT !.pc = FirstStep(path), !.mission = m,
                                     !.path = path, !.base = BaseRead(m, path)]]
  BY <1>0
<1> DEFINE v == [IdleCall EXCEPT !.pc = FirstStep(path), !.mission = m,
                                 !.path = path, !.base = BaseRead(m, path)]
<1>3. path \in {"direct", "verified", "ha"} BY PathAssumption
<1>4. FirstStep(path) \in Steps \ {"idle"} BY <1>3 DEF FirstStep, Steps
<1>5. BaseRead(m, path) \in Revisions BY <1>1 DEF BaseRead, MissionOK, Mission, Revisions
<1>6. v \in Call BY <1>3, <1>4, <1>5, IdleType DEF IdleCall, Call
<1>7. v.mission = m /\ v.pc = FirstStep(path) BY DEF IdleCall
<1>8. v.mission # NoMission /\ v.pc # "idle" BY <1>4, <1>7, NameAssumption
<1>9. CallOK' BY <1>1, <1>2, <1>6, <1>8, CallReplaced
<1> QED BY <1>1, <1>9, OnlyCallType DEF Begin, Events, EventsOK

LEMMA ReadUnsafeType == ASSUME TypeOK, NEW c \in Calls, ReadUnsafe(c) PROVE TypeOK'
<1>1. CallOK /\ EventsOK /\ call[c].pc # "idle" BY Parts DEF ReadUnsafe
<1>2. CallOK'
  <2>1. CASE MissionOf(c) \in unsafe BY <1>1, <2>1, LeaveType DEF ReadUnsafe
  <2>2. CASE MissionOf(c) \notin unsafe
    <3>1. Goto(c, "head") /\ "head" \in Steps \ {"idle"} BY <2>2 DEF ReadUnsafe, Steps
    <3> QED BY <1>1, <3>1, GotoType
  <2> QED BY <2>1, <2>2
<1> QED BY <1>1, <1>2, OnlyCallType DEF ReadUnsafe, Events, EventsOK

LEMMA ReadHeadType == ASSUME TypeOK, NEW c \in Calls, ReadHead(c) PROVE TypeOK'
<1>1. CallOK /\ EventsOK /\ call[c].pc # "idle" BY Parts DEF ReadHead
<1>2. CallOK' /\ unsafe' \subseteq Missions
  <2>1. CASE target = SeenBase(c)
    <3>1. Goto(c, "anchor") /\ "anchor" \in Steps \ {"idle"} BY <2>1 DEF ReadHead, Steps
    <3> QED BY <1>1, <2>1, <3>1, GotoType DEF ReadHead, EventsOK
  <2>2. CASE target # SeenBase(c)
    <3>1. Leave(c) /\ (MarkUnsafe(c) \/ UNCHANGED unsafe) BY <2>2 DEF ReadHead
    <3> QED BY <1>1, <3>1, LeaveType, MarkType DEF EventsOK
  <2> QED BY <2>1, <2>2
<1> QED BY <1>1, <1>2, OnlyCallType DEF ReadHead, EventsOK, Repository

\* A call sees a base that is a revision, whatever object it holds.
LEMMA SeenBaseType ==
  ASSUME TypeOK, NEW c \in Calls, call[c].pc # "idle" PROVE SeenBase(c) \in Revisions
<1>1. MissionOf(c) \in Missions BY Bound, Parts
<1> QED BY <1>1 DEF SeenBase, TypeOK, Mission, Call

LEMMA ReadAnchorType == ASSUME TypeOK, NEW c \in Calls, ReadAnchor(c) PROVE TypeOK'
<1>1. CallOK /\ EventsOK /\ call[c].pc # "idle" BY Parts DEF ReadAnchor
<1>2. call[c] \in Call BY <1>1 DEF CallOK
<1>3. SeenBase(c) \in Revisions /\ target \in Revisions BY <1>1, SeenBaseType DEF TypeOK
<1> DEFINE v == [call[c] EXCEPT !.pc = "base", !.anchor = target, !.base = SeenBase(c)]
<1>4. v \in Call BY <1>2, <1>3 DEF Call, Steps
<1>5. v.mission = call[c].mission /\ v.pc = "base" BY <1>2 DEF Call
<1>6. v.mission # NoMission /\ v.pc # "idle" BY <1>1, <1>5 DEF CallOK
<1>7. call' = [call EXCEPT ![c] = v] BY DEF ReadAnchor
<1>8. CallOK' BY <1>1, <1>4, <1>6, <1>7, CallReplaced
<1>9. anchored' \subseteq Missions BY <1>1, Bound DEF ReadAnchor, EventsOK
<1> QED BY <1>1, <1>8, <1>9, OnlyCallType DEF ReadAnchor, EventsOK, Repository

LEMMA CheckBaseType == ASSUME TypeOK, NEW c \in Calls, CheckBase(c) PROVE TypeOK'
<1>1. CallOK /\ MissionOK /\ EventsOK /\ RepositoryOK /\ call[c].pc # "idle"
  BY Parts DEF CheckBase
<1>2. CASE MergeFails(c) BY <1>1, <1>2, FailType
<1>3. CASE ~MergeFails(c)
  <2>1. call[c] \in Call BY <1>1 DEF CallOK
  <2> DEFINE v == [call[c] EXCEPT !.pc = "merge", !.base = {}]
  <2>2. v \in Call BY <2>1 DEF Call, Steps, Revisions
  <2>3. v.mission = call[c].mission /\ v.pc = "merge" BY <2>1 DEF Call
  <2>4. v.mission # NoMission /\ v.pc # "idle" BY <1>1, <2>3 DEF CallOK
  <2>5. call' = [call EXCEPT ![c] = v] BY <1>3 DEF CheckBase
  <2>6. CallOK' BY <1>1, <2>2, <2>4, <2>5, CallReplaced
  <2>7. MissionOf(c) \in Missions BY <1>1, Bound
  <2>8. mission' = [mission EXCEPT ![MissionOf(c)].tip = mission[MissionOf(c)].work]
    BY <1>3 DEF CheckBase
  <2>9. MissionOK' BY <1>1, <2>7, <2>8, TipChanged
  <2>10. RepositoryOK' /\ EventsOK'
    BY <1>1, <1>3 DEF CheckBase, Repository, Events, RepositoryOK, EventsOK
  <2> QED BY <2>6, <2>9, <2>10 DEF TypeOK, RepositoryOK, MissionOK, EventsOK, CallOK
<1> QED BY <1>2, <1>3

LEMMA MergeType == ASSUME TypeOK, NEW c \in Calls, Merge(c) PROVE TypeOK'
<1>1. CallOK /\ MissionOK /\ EventsOK /\ RepositoryOK /\ call[c].pc # "idle" BY Parts DEF Merge
<1>2. CASE MergeFails(c) BY <1>1, <1>2, FailType
<1>3. CASE ~MergeFails(c)
  <2>1. Goto(c, "merged") /\ "merged" \in Steps \ {"idle"} BY <1>3 DEF Merge, Steps
  <2>2. CallOK' BY <1>1, <2>1, GotoType
  <2>3. MissionOK' /\ EventsOK' BY <1>1, <1>3 DEF Merge, Events, MissionOK, EventsOK
  <2>4. RepositoryOK'
    <3> DEFINE m == MissionOf(c)
    <3>1. CASE UNCHANGED Repository BY <1>1, <3>1 DEF Repository, RepositoryOK
    <3>2. CASE ~UNCHANGED Repository
      <4>1. m \in Missions BY <1>1, Bound
      <4>2. mission[m].tip \in 0..MaxWork BY <1>1, <4>1 DEF MissionOK, Mission
      <4>3. /\ made < MaxCommits
            /\ target' = target \cup {NewCommit(m, mission[m].tip)}
            /\ made' = made + 1
        BY <1>3, <3>2 DEF Merge
      <4> QED BY <1>1, <4>1, <4>2, <4>3, CommitType
    <3> QED BY <3>1, <3>2
  <2> QED BY <2>2, <2>3, <2>4 DEF TypeOK, RepositoryOK, MissionOK, EventsOK, CallOK
<1> QED BY <1>2, <1>3

LEMMA ReadMergedType == ASSUME TypeOK, NEW c \in Calls, ReadMerged(c) PROVE TypeOK'
<1>1. CallOK /\ EventsOK /\ call[c].pc # "idle" BY Parts DEF ReadMerged
<1>2. call[c] \in Call /\ target \in Revisions BY <1>1 DEF CallOK, TypeOK
<1> DEFINE step == IF call[c].path = "direct" THEN "complete" ELSE "verify"
           v == [call[c] EXCEPT !.into = target, !.pc = step]
<1>3. step \in Steps \ {"idle"} BY DEF Steps
<1>4. v \in Call BY <1>2, <1>3 DEF Call
<1>5. v.mission = call[c].mission /\ v.pc = step BY <1>2 DEF Call
<1>6. v.mission # NoMission /\ v.pc # "idle" BY <1>1, <1>3, <1>5 DEF CallOK
<1>7. call' = [call EXCEPT ![c] = v] BY <1>2 DEF ReadMerged
<1>8. CallOK' BY <1>1, <1>4, <1>6, <1>7, CallReplaced
<1> QED BY <1>1, <1>8, OnlyCallType DEF ReadMerged, EventsOK, Events

LEMMA VerifyType == ASSUME TypeOK, NEW c \in Calls, Verify(c) PROVE TypeOK'
<1>1. CallOK /\ EventsOK /\ call[c].pc # "idle" BY Parts DEF Verify
<1>2. call[c] \in Call /\ target \in Revisions BY <1>1 DEF CallOK, TypeOK
<1>3. PICK step \in {"recheck", "red"} :
        call' = [call EXCEPT ![c].pc = step, ![c].tested = target] BY DEF Verify
<1> DEFINE v == [call[c] EXCEPT !.pc = step, !.tested = target]
<1>4. v \in Call BY <1>2 DEF Call, Steps
<1>5. v.mission = call[c].mission /\ v.pc = step BY <1>2 DEF Call
<1>6. v.mission # NoMission /\ v.pc # "idle" BY <1>1, <1>5 DEF CallOK
<1>7. call' = [call EXCEPT ![c] = v] BY <1>3
<1>8. CallOK' BY <1>1, <1>4, <1>6, <1>7, CallReplaced
<1> QED BY <1>1, <1>8, OnlyCallType DEF Verify, EventsOK, Events

\* The recheck of a green result and that of a red one have the same shape.
LEMMA RecheckedType ==
  ASSUME TypeOK, NEW c \in Calls, call[c].pc # "idle", NEW step \in Steps \ {"idle"},
         \/ Goto(c, step) /\ UNCHANGED unsafe
         \/ Leave(c) /\ MarkUnsafe(c),
         UNCHANGED <<Repository, mission, anchored, merged>>
  PROVE  TypeOK'
<1>1. CallOK /\ EventsOK BY Parts
<1>2. CASE Goto(c, step) /\ UNCHANGED unsafe
  BY <1>1, <1>2, GotoType, OnlyCallType DEF EventsOK, Repository
<1>3. CASE Leave(c) /\ MarkUnsafe(c)
  BY <1>1, <1>3, LeaveType, MarkType, OnlyCallType DEF EventsOK, Repository
<1> QED BY <1>2, <1>3

LEMMA RecheckType == ASSUME TypeOK, NEW c \in Calls, Recheck(c) PROVE TypeOK'
<1>1. call[c].pc # "idle" /\ "complete" \in Steps \ {"idle"} BY DEF Recheck, Steps
<1>2. \/ Goto(c, "complete") /\ UNCHANGED unsafe
      \/ Leave(c) /\ MarkUnsafe(c)
  BY DEF Recheck
<1> QED BY <1>1, <1>2, RecheckedType DEF Recheck

LEMMA CheckResetType == ASSUME TypeOK, NEW c \in Calls, CheckReset(c) PROVE TypeOK'
<1>1. call[c].pc # "idle" /\ "reset" \in Steps \ {"idle"} BY DEF CheckReset, Steps
<1>2. \/ Goto(c, "reset") /\ UNCHANGED unsafe
      \/ Leave(c) /\ MarkUnsafe(c)
  BY DEF CheckReset
<1> QED BY <1>1, <1>2, RecheckedType DEF CheckReset

LEMMA ResetType == ASSUME TypeOK, NEW c \in Calls, Reset(c) PROVE TypeOK'
<1>1. CallOK /\ EventsOK /\ MissionOK /\ RepositoryOK /\ call[c].pc # "idle" BY Parts DEF Reset
<1>2. CallOK' BY <1>1, LeaveType DEF Reset
<1>3. call[c].anchor \in Revisions BY <1>1 DEF CallOK, Call
<1>4. RepositoryOK' BY <1>1, <1>3 DEF Reset, RepositoryOK
<1>5. EventsOK' BY <1>1, MarkType DEF Reset, EventsOK
<1>6. MissionOK' BY <1>1 DEF Reset, MissionOK
<1> QED BY <1>2, <1>4, <1>5, <1>6 DEF TypeOK, RepositoryOK, MissionOK, EventsOK, CallOK

LEMMA CompleteType == ASSUME TypeOK, NEW c \in Calls, Complete(c) PROVE TypeOK'
<1> DEFINE m == MissionOf(c)
           r == call[c].into
           t == IF call[c].path = "direct" THEN NoRevision ELSE call[c].tested
<1>1. CallOK /\ EventsOK /\ MissionOK /\ RepositoryOK /\ call[c].pc # "idle"
  BY Parts DEF Complete
<1>2. CallOK' BY <1>1, LeaveType DEF Complete
<1>3. m \in Missions BY <1>1, Bound
<1>4. EventsOK' BY <1>1, <1>3 DEF Complete, EventsOK
<1>5. r \in Revisions /\ t \in Revisions \cup {NoRevision} BY <1>1 DEF CallOK, Call
<1>6. \/ UNCHANGED mission
      \/ mission' = [mission EXCEPT ![m].status = "completed", ![m].mergedInto = r, ![m].tested = t]
  BY DEF Complete
<1>7. MissionOK'
  <2>1. CASE UNCHANGED mission BY <1>1, <2>1 DEF MissionOK
  <2>2. CASE mission' = [mission EXCEPT ![m].status = "completed", ![m].mergedInto = r,
                                        ![m].tested = t]
    BY <1>1, <1>3, <1>5, <2>2, MissionCompleted
  <2> QED BY <1>6, <2>1, <2>2
<1>8. RepositoryOK' BY <1>1 DEF Complete, Repository, RepositoryOK
<1> QED BY <1>2, <1>4, <1>7, <1>8 DEF TypeOK, RepositoryOK, MissionOK, EventsOK, CallOK

LEMMA DieType == ASSUME TypeOK, NEW c \in Calls, Die(c) PROVE TypeOK'
<1>1. CallOK /\ EventsOK BY Parts
<1>2. CallOK' /\ EventsOK' BY <1>1, LeaveType DEF Die, Events, EventsOK
<1> QED BY <1>2, OnlyCallType DEF Die

LEMMA CallStepType == ASSUME TypeOK, NEW c \in Calls, CallStep(c) PROVE TypeOK'
BY BeginType, ReadUnsafeType, ReadHeadType, ReadAnchorType, CheckBaseType, MergeType,
   ReadMergedType, VerifyType, RecheckType, CheckResetType, ResetType, CompleteType, DieType
   DEF CallStep

-----------------------------------------------------------------------------
(* Types: everything else *)

LEMMA SetMissionType ==
  ASSUME TypeOK, NEW m \in Missions, mission[m].status # "completed",
         NEW s \in Statuses \ {"completed"}, NEW b \in Revisions, NEW w \in 1..MaxWork,
         NEW t \in 0..MaxWork, NEW v,
         v = [mission[m] EXCEPT !.status = s, !.base = b, !.work = w, !.tip = t],
         SetMission(m, v)
  PROVE  TypeOK'
<1>1. CallOK /\ EventsOK /\ MissionOK /\ RepositoryOK BY Parts
<1>2. mission' = [mission EXCEPT ![m] = [mission[m] EXCEPT !.status = s, !.base = b,
                                                           !.work = w, !.tip = t]]
  BY DEF SetMission
<1>3. MissionOK' BY <1>1, <1>2, MissionChanged
<1>4. CallOK' /\ EventsOK' /\ RepositoryOK'
  BY <1>1 DEF SetMission, Repository, Events, CallOK, EventsOK, RepositoryOK
<1> QED BY <1>3, <1>4 DEF TypeOK, RepositoryOK, MissionOK, EventsOK, CallOK

LEMMA TakeBackType == ASSUME TypeOK, NEW m \in Missions, TakeBack(m) PROVE TypeOK'
<1>1. PICK s \in {"planning", "blocked"} :
        mission[m].status \notin Terminal /\ SetMission(m, [mission[m] EXCEPT !.status = s])
  BY DEF TakeBack
<1> DEFINE r == mission[m]
           new == [r EXCEPT !.status = s]
<1>2. r \in Mission BY Parts DEF MissionOK
<1>3. r.base \in Revisions /\ r.work \in 1..MaxWork /\ r.tip \in 0..MaxWork BY <1>2 DEF Mission
<1>4. new = [r EXCEPT !.status = s, !.base = r.base, !.work = r.work, !.tip = r.tip]
  BY <1>2 DEF Mission
<1>5. s \in Statuses \ {"completed"} /\ r.status # "completed" BY <1>1 DEF Statuses, Terminal
<1>6. SetMission(m, new) BY <1>1
<1> HIDE DEF new, r
<1>7. mission[m].status # "completed" BY <1>5 DEF r
<1>8. new = [mission[m] EXCEPT !.status = s, !.base = r.base, !.work = r.work, !.tip = r.tip]
  BY <1>4 DEF r
<1> QED BY <1>3, <1>5, <1>6, <1>7, <1>8, SetMissionType

LEMMA SubmitType == ASSUME TypeOK, NEW m \in Missions, Submit(m) PROVE TypeOK'
<1> DEFINE r == mission[m]
<1>1. r \in Mission BY Parts DEF MissionOK
<1>2. r.base \in Revisions /\ r.work \in 1..MaxWork /\ r.tip \in 0..MaxWork BY <1>1 DEF Mission
<1>3. PICK version \in {r.work, r.work + 1} : \E tip \in {r.tip, version} :
        /\ r.status = "planning" /\ version <= MaxWork
        /\ SetMission(m, [r EXCEPT !.status = "awaiting_review", !.work = version, !.tip = tip])
  BY DEF Submit
<1>4. PICK tip \in {r.tip, version} :
        /\ r.status = "planning" /\ version <= MaxWork
        /\ SetMission(m, [r EXCEPT !.status = "awaiting_review", !.work = version, !.tip = tip])
  BY <1>3
<1> DEFINE new == [r EXCEPT !.status = "awaiting_review", !.work = version, !.tip = tip]
<1>5. version \in 1..MaxWork /\ tip \in 0..MaxWork BY <1>2, <1>4, BoundAssumption
<1>6. new = [r EXCEPT !.status = "awaiting_review", !.base = r.base, !.work = version, !.tip = tip]
  BY <1>1 DEF Mission
<1>7. "awaiting_review" \in Statuses \ {"completed"} /\ r.status # "completed"
  BY <1>4 DEF Statuses
<1> QED BY <1>2, <1>4, <1>5, <1>6, <1>7, SetMissionType

LEMMA SynchroniseType == ASSUME TypeOK, NEW m \in Missions, Synchronise(m) PROVE TypeOK'
<1> DEFINE r == mission[m]
           new == [r EXCEPT !.base = target]
<1>1. r \in Mission /\ target \in Revisions BY Parts DEF MissionOK, RepositoryOK
<1>2. r.status \in Statuses /\ r.work \in 1..MaxWork /\ r.tip \in 0..MaxWork BY <1>1 DEF Mission
<1>3. r.status \notin Terminal /\ SetMission(m, new) BY DEF Synchronise
<1>4. new = [r EXCEPT !.status = r.status, !.base = target, !.work = r.work, !.tip = r.tip]
  BY <1>1 DEF Mission
<1>5. r.status \in Statuses \ {"completed"} /\ r.status # "completed"
  BY <1>2, <1>3 DEF Terminal
<1> HIDE DEF new, r
<1>6. mission[m].status # "completed" BY <1>5 DEF r
<1>7. new = [mission[m] EXCEPT !.status = r.status, !.base = target, !.work = r.work, !.tip = r.tip]
  BY <1>4 DEF r
<1> QED BY <1>1, <1>2, <1>3, <1>5, <1>6, <1>7, SetMissionType

LEMMA CommitStepType == ASSUME TypeOK, Commit PROVE TypeOK'
<1>1. CallOK /\ EventsOK /\ MissionOK /\ RepositoryOK BY Parts
<1>2. RepositoryOK' BY <1>1, CommitType, BoundAssumption DEF Commit
<1>3. CallOK' /\ EventsOK' /\ MissionOK' BY <1>1 DEF Commit, Events, CallOK, EventsOK, MissionOK
<1> QED BY <1>2, <1>3 DEF TypeOK, RepositoryOK, MissionOK, EventsOK, CallOK

LEMMA AbortType == ASSUME TypeOK, Abort PROVE TypeOK'
<1>1. CallOK /\ EventsOK /\ MissionOK BY Parts
<1>2. ASSUME NEW c \in Calls
      PROVE  call'[c] \in Call /\ call'[c].mission = call[c].mission /\ call'[c].pc = call[c].pc
  <2>1. call[c] \in Call BY <1>1 DEF CallOK
  <2>2. CASE call[c].pc = "idle" \/ call[c].copy # "live"
    <3>1. call'[c] = call[c] BY <2>2 DEF Abort
    <3> QED BY <2>1, <3>1
  <2>3. CASE call[c].pc # "idle" /\ call[c].copy = "live"
    <3> DEFINE r == mission[call[c].mission]
               b == IF call[c].pc \in {"unsafe", "head", "anchor"} THEN r.base ELSE call[c].base
               v == [call[c] EXCEPT !.copy = r.status, !.base = b]
    <3>1. r \in Mission BY <1>1, <2>3, Bound DEF MissionOK, MissionOf
    <3>2. r.status \in Statuses /\ b \in Revisions BY <2>1, <3>1 DEF Mission, Call
    <3>3. call'[c] = v BY <2>3 DEF Abort
    <3>4. v \in Call /\ v.mission = call[c].mission /\ v.pc = call[c].pc BY <2>1, <3>2 DEF Call
    <3> QED BY <3>3, <3>4
  <2> QED BY <2>2, <2>3
<1>3. call' = [c \in Calls |-> call'[c]] BY DEF Abort
<1>4. call' \in [Calls -> Call] BY <1>2, <1>3
<1>5. CallOK' BY <1>1, <1>2, <1>4 DEF CallOK
<1> QED BY <1>1, <1>5, OnlyCallType DEF Abort, Events, EventsOK

-----------------------------------------------------------------------------

\* Missions, calls, events and the repository keep their types, and a Mission
\* names the revision it was merged into exactly when it is completed: only
\* Mission.complete sets the one, and it sets both (models.ts, FinalReview).
THEOREM TypeCorrect == Spec => []TypeOK
<1>1. ASSUME Init PROVE TypeOK
  <2>1. RepositoryOK /\ EventsOK
    BY <1>1, BoundAssumption DEF Init, RepositoryOK, EventsOK, Revisions
  <2>2. MissionOK
    <3>1. {} \in Revisions /\ 1 \in 1..MaxWork /\ {0, 1} \subseteq 0..MaxWork
      BY BoundAssumption DEF Revisions
    <3> QED BY <1>1, <3>1, SMTT(30) DEF Init, MissionOK, Mission, Statuses
  <2>3. CallOK BY <1>1, IdleType DEF Init, CallOK, IdleCall
  <2> QED BY <2>1, <2>2, <2>3, Parts
<1>2. ASSUME TypeOK, [Next]_vars PROVE TypeOK'
  <2>1. CASE Next
    BY <1>2, <2>1, CallStepType, TakeBackType, SubmitType, SynchroniseType, CommitStepType,
       AbortType DEF Next
  <2>2. CASE UNCHANGED vars
    BY <1>2, <2>2 DEF vars, TypeOK
  <2> QED BY <1>2, <2>1, <2>2
<1> QED BY <1>1, <1>2, PTL DEF Spec

-----------------------------------------------------------------------------
(* Anchors: why every merge can be traced.  A call that may merge has been   *)
(* through the anchor step, and what a reset may bring back was free of code *)
(* or had an anchor event already.                                           *)

Early == {"unsafe", "head", "anchor"}

\* The Missions with code in a revision, direct ones apart, have an anchor event.
Recorded(rev) == \A m \in Missions : "direct" \notin Paths[m] /\ HasCode(rev, m) => m \in anchored

CallTraced(c) ==
  /\ Recorded(call[c].anchor)
  /\ call[c].pc # "idle" => call[c].path \in Paths[call[c].mission]
  /\ call[c].pc \notin Early \cup {"idle"} /\ "direct" \notin Paths[call[c].mission]
       => call[c].mission \in anchored

AnchorInv == Recorded(target) /\ \A c \in Calls : CallTraced(c)

\* A call that goes on keeps its Mission, its way and its anchor.
Continues(c) ==
  \/ call'[c] = call[c]
  \/ call'[c] = IdleCall
  \/ /\ call[c].pc # "idle"
     /\ call[c].pc \in Early => call'[c].pc \in Early
     /\ call'[c].mission = call[c].mission
     /\ call'[c].path = call[c].path
     /\ call'[c].anchor = call[c].anchor

LEMMA ContinuesTraced ==
  ASSUME NEW c \in Calls, CallTraced(c), Continues(c), anchored \subseteq anchored'
  PROVE  CallTraced(c)'
<1>1. CASE call'[c] = call[c] BY <1>1 DEF CallTraced, Recorded, HasCode
<1>2. CASE call'[c] = IdleCall BY <1>2 DEF CallTraced, Recorded, HasCode, IdleCall
<1>3. CASE /\ call[c].pc # "idle"
           /\ call[c].pc \in Early => call'[c].pc \in Early
           /\ call'[c].mission = call[c].mission
           /\ call'[c].path = call[c].path
           /\ call'[c].anchor = call[c].anchor
  <2>1. Recorded(call[c].anchor)' BY <1>3 DEF CallTraced, Recorded, HasCode
  <2>2. call'[c].path \in Paths[call'[c].mission] BY <1>3 DEF CallTraced
  <2> QED BY <1>3, <2>1, <2>2 DEF CallTraced, Early
<1> QED BY <1>1, <1>2, <1>3 DEF Continues

LEMMA OthersContinue ==
  ASSUME CallOK, NEW c \in Calls, NEW v, call' = [call EXCEPT ![c] = v], NEW d \in Calls, d # c
  PROVE  Continues(d)
BY DEF CallOK, Continues

\* The steps of a call that neither start it nor read the anchor.
LEMMA MostStepsContinue ==
  ASSUME TypeOK, NEW c \in Calls, NEW d \in Calls,
         \/ ReadUnsafe(c) \/ ReadHead(c) \/ CheckBase(c) \/ Merge(c) \/ ReadMerged(c) \/ Verify(c)
         \/ Recheck(c) \/ CheckReset(c) \/ Reset(c) \/ Complete(c) \/ Die(c)
  PROVE  Continues(d)
<1>1. CallOK /\ call[c] \in Call BY Parts DEF CallOK
<1>2. ASSUME Leave(c) PROVE Continues(d)
  BY <1>1, <1>2 DEF Leave, Continues, CallOK
<1>3. ASSUME NEW step, Goto(c, step), call[c].pc # "idle", call[c].pc \in Early => step \in Early
      PROVE  Continues(d)
  BY <1>1, <1>3 DEF Goto, Continues, CallOK, Call
<1>4. CASE ReadUnsafe(c) BY <1>2, <1>3, <1>4 DEF ReadUnsafe, Early
<1>5. CASE ReadHead(c) BY <1>2, <1>3, <1>5 DEF ReadHead, Early
<1>6. CASE CheckBase(c)
  BY <1>1, <1>2, <1>6 DEF CheckBase, MergeFails, Continues, Early, CallOK, Call
<1>7. CASE Merge(c) BY <1>2, <1>3, <1>7 DEF Merge, MergeFails, Early
<1>8. CASE ReadMerged(c) BY <1>1, <1>8 DEF ReadMerged, Continues, Early, CallOK, Call
<1>9. CASE Verify(c) BY <1>1, <1>9 DEF Verify, Continues, Early, CallOK, Call
<1>10. CASE Recheck(c) BY <1>2, <1>3, <1>10 DEF Recheck, Early
<1>11. CASE CheckReset(c) BY <1>2, <1>3, <1>11 DEF CheckReset, Early
<1>12. CASE Reset(c) BY <1>2, <1>12 DEF Reset
<1>13. CASE Complete(c) BY <1>2, <1>13 DEF Complete
<1>14. CASE Die(c) BY <1>2, <1>14 DEF Die
<1> QED BY <1>4, <1>5, <1>6, <1>7, <1>8, <1>9, <1>10, <1>11, <1>12, <1>13, <1>14

LEMMA BeginTraced ==
  ASSUME TypeOK, AnchorInv, NEW c \in Calls, Begin(c), NEW d \in Calls PROVE CallTraced(d)'
<1>1. CallOK /\ UNCHANGED anchored BY Parts DEF Begin, Events
<1>2. PICK m \in Missions : \E path \in Paths[m] :
        call' = [call EXCEPT ![c] = [IdleCall EXCEPT !.pc = FirstStep(path), !.mission = m,
                                     !.path = path, !.base = BaseRead(m, path)]]
  BY DEF Begin
<1>3. PICK path \in Paths[m] :
        call' = [call EXCEPT ![c] = [IdleCall EXCEPT !.pc = FirstStep(path), !.mission = m,
                                     !.path = path, !.base = BaseRead(m, path)]]
  BY <1>2
<1>4. CASE d # c BY <1>1, <1>3, <1>4, OthersContinue, ContinuesTraced DEF AnchorInv
<1>5. CASE d = c
  <2>1. /\ call'[c].pc = FirstStep(path) /\ call'[c].mission = m /\ call'[c].path = path
        /\ call'[c].anchor = {}
    BY <1>1, <1>3 DEF CallOK, IdleCall
  <2>2. path \in {"direct", "verified", "ha"} BY PathAssumption
  <2>3. FirstStep(path) \in Early \/ path = "direct" BY <2>2 DEF FirstStep, Early
  <2>4. Recorded(call[c].anchor)' BY <2>1 DEF Recorded, HasCode
  <2> QED BY <1>5, <2>1, <2>3, <2>4 DEF CallTraced
<1> QED BY <1>4, <1>5

\* The anchor step records the Mission, unless its code is there already: then
\* it has an anchor event from the time it landed.
LEMMA ReadAnchorTraced ==
  ASSUME TypeOK, AnchorInv, NEW c \in Calls, ReadAnchor(c), NEW d \in Calls PROVE CallTraced(d)'
<1>1. CallOK /\ anchored \subseteq anchored' /\ call[c] \in Call BY Parts DEF ReadAnchor, CallOK
<1>2. call' = [call EXCEPT ![c] = [call[c] EXCEPT !.pc = "base", !.anchor = target,
                                                  !.base = SeenBase(c)]]
  BY DEF ReadAnchor
<1>3. CASE d # c BY <1>1, <1>2, <1>3, OthersContinue, ContinuesTraced DEF AnchorInv
<1>4. CASE d = c
  <2>1. /\ call'[c].mission = call[c].mission /\ call'[c].path = call[c].path
        /\ call'[c].anchor = target /\ call'[c].pc = "base"
    BY <1>1, <1>2 DEF CallOK, Call
  <2>2. MissionOf(c) \in Missions BY <1>1, Bound DEF ReadAnchor
  <2>3. "direct" \notin Paths[MissionOf(c)] => MissionOf(c) \in anchored'
    <3>1. CASE HasCode(target, MissionOf(c))
      BY <1>1, <2>2, <3>1 DEF AnchorInv, Recorded
    <3>2. CASE ~HasCode(target, MissionOf(c))
      BY <3>2 DEF ReadAnchor
    <3> QED BY <3>1, <3>2
  <2>4. call[c].path \in Paths[call[c].mission] BY DEF AnchorInv, CallTraced, ReadAnchor
  <2>5. Recorded(call[c].anchor)' BY <1>1, <2>1 DEF AnchorInv, Recorded, HasCode
  <2> QED BY <1>4, <2>1, <2>3, <2>4, <2>5 DEF CallTraced, MissionOf
<1> QED BY <1>3, <1>4

LEMMA AbortContinues == ASSUME TypeOK, Abort, NEW c \in Calls PROVE Continues(c)
<1>1. call[c] \in Call BY DEF TypeOK
<1>2. CASE call[c].pc = "idle" \/ call[c].copy # "live" BY <1>2 DEF Abort, Continues
<1>3. CASE ~(call[c].pc = "idle" \/ call[c].copy # "live")
  <2> DEFINE r == mission[call[c].mission]
             b == IF call[c].pc \in {"unsafe", "head", "anchor"} THEN r.base ELSE call[c].base
             v == [call[c] EXCEPT !.copy = r.status, !.base = b]
  <2>1. call'[c] = v BY <1>3 DEF Abort
  <2>2. /\ v.mission = call[c].mission /\ v.path = call[c].path /\ v.anchor = call[c].anchor
        /\ v.pc = call[c].pc
    BY <1>1 DEF Call
  <2> QED BY <1>3, <2>1, <2>2 DEF Continues
<1> QED BY <1>2, <1>3

LEMMA AnchoredGrows == ASSUME Next PROVE anchored \subseteq anchored'
BY DEF Next, CallStep, Begin, ReadUnsafe, ReadHead, ReadAnchor, CheckBase, Merge, MergeFails,
   ReadMerged, Verify, Recheck, CheckReset, Reset, Complete, Die, TakeBack, Submit, Synchronise,
   SetMission, Commit, Abort, Events

LEMMA CallsTraced == ASSUME TypeOK, AnchorInv, Next, NEW d \in Calls PROVE CallTraced(d)'
<1>1. anchored \subseteq anchored' BY AnchoredGrows
<1>2. CASE \E c \in Calls : CallStep(c)
  BY <1>1, <1>2, BeginTraced, ReadAnchorTraced, MostStepsContinue, ContinuesTraced
     DEF CallStep, AnchorInv
<1>3. CASE Abort BY <1>1, <1>3, AbortContinues, ContinuesTraced DEF AnchorInv
<1>4. CASE Commit \/ \E m \in Missions : TakeBack(m) \/ Submit(m) \/ Synchronise(m)
  <2>1. call' = call BY <1>4 DEF Commit, TakeBack, Submit, Synchronise, SetMission
  <2> QED BY <1>1, <2>1, ContinuesTraced DEF AnchorInv, Continues
<1> QED BY <1>1, <1>2, <1>3, <1>4 DEF Next

\* Every step leaves the target as it is, adds a commit, or resets it.
LEMMA TargetSteps ==
  ASSUME Next
  PROVE  \/ UNCHANGED target
         \/ target' = target \cup {NewCommit(Other, 0)}
         \/ \E c \in Calls : Reset(c) /\ target' = call[c].anchor
         \/ \E c \in Calls : \E version : /\ call[c].pc = "merge"
                                          /\ target' = target \cup {NewCommit(MissionOf(c), version)}
<1>1. CASE \E c \in Calls : CallStep(c)
  <2>1. PICK c \in Calls : CallStep(c) BY <1>1
  <2>2. CASE Reset(c) BY <2>2 DEF Reset
  <2>3. CASE Merge(c) BY <2>3 DEF Merge, MergeFails, Repository
  <2>4. CASE ~Reset(c) /\ ~Merge(c)
    BY <2>1, <2>4 DEF CallStep, Begin, ReadUnsafe, ReadHead, ReadAnchor, CheckBase, MergeFails,
       ReadMerged, Verify, Recheck, CheckReset, Complete, Die, Repository
  <2> QED BY <2>2, <2>3, <2>4
<1>2. CASE ~\E c \in Calls : CallStep(c)
  BY <1>2 DEF Next, TakeBack, Submit, Synchronise, SetMission, Commit, Abort, Repository
<1> QED BY <1>1, <1>2

LEMMA TargetRecorded == ASSUME TypeOK, AnchorInv, Next PROVE Recorded(target)'
<1>1. anchored \subseteq anchored' BY AnchoredGrows
<1> SUFFICES ASSUME NEW m \in Missions, "direct" \notin Paths[m], HasCode(target', m)
             PROVE  m \in anchored'
  BY DEF Recorded, HasCode
<1>2. CASE HasCode(target, m) BY <1>1, <1>2 DEF AnchorInv, Recorded
<1>3. CASE target' = target \cup {NewCommit(Other, 0)}
  <2>1. NewCommit(Other, 0).by # m BY NameAssumption DEF NewCommit
  <2>2. HasCode(target, m) BY <1>3, <2>1 DEF HasCode
  <2> QED BY <1>2, <2>2
<1>4. ASSUME NEW c \in Calls, Reset(c), target' = call[c].anchor PROVE m \in anchored'
  BY <1>1, <1>4 DEF AnchorInv, CallTraced, Recorded
<1>5. ASSUME NEW c \in Calls, NEW version, call[c].pc = "merge",
             target' = target \cup {NewCommit(MissionOf(c), version)}
      PROVE  m \in anchored'
  <2>1. CASE MissionOf(c) = m BY <1>1, <1>5, <2>1 DEF AnchorInv, CallTraced, Early, MissionOf
  <2>2. CASE MissionOf(c) # m
    <3>1. NewCommit(MissionOf(c), version).by # m BY <2>2 DEF NewCommit
    <3>2. HasCode(target, m) BY <1>5, <3>1 DEF HasCode
    <3> QED BY <1>2, <3>2
  <2> QED BY <2>1, <2>2
<1> QED BY <1>2, <1>3, <1>4, <1>5, TargetSteps

LEMMA AnchorInvariant == Spec => []AnchorInv
<1>1. ASSUME Init PROVE AnchorInv
  BY <1>1 DEF Init, AnchorInv, Recorded, HasCode, CallTraced, IdleCall
<1>2. ASSUME TypeOK, AnchorInv, [Next]_vars PROVE AnchorInv'
  <2>1. CASE Next
    <3>1. \A c \in Calls : CallTraced(c)' BY <1>2, <2>1, CallsTraced
    <3>2. Recorded(target)' BY <1>2, <2>1, TargetRecorded
    <3> QED BY <3>1, <3>2 DEF AnchorInv
  <2>2. CASE UNCHANGED vars
    BY <1>2, <2>2 DEF vars, AnchorInv, Recorded, HasCode, CallTraced
  <2> QED BY <1>2, <2>1, <2>2
<1> QED BY <1>1, <1>2, TypeCorrect, PTL DEF Spec

\* Wherever calls and the process die, however many finalizations run at once:
\* code on the target of a Mission that only the machine or a reviewer with
\* standing authority merges has an anchor event, which says what to go back to.
THEOREM AnchorsAreKept == Spec => []AnchorRecorded
<1>1. ASSUME AnchorInv PROVE AnchorRecorded BY <1>1 DEF AnchorInv, Recorded, AnchorRecorded
<1> QED BY <1>1, AnchorInvariant, PTL

-----------------------------------------------------------------------------
(* Commits: a red result takes away nothing but what came between the anchor  *)
(* of the call and its look at the head.                                      *)

\* Only calls that verify are ever about to reset.
Resetting(c) == call[c].pc \in {"verify", "recheck", "red", "reset"} => call[c].path # "direct"

ResetInv == \A c \in Calls : Resetting(c)

\* A call keeps its path as long as it runs, and verifies unless it is direct.
LEMMA OwnStepResetting ==
  ASSUME TypeOK, ResetInv, NEW c \in Calls, CallStep(c) PROVE Resetting(c)'
<1> DEFINE r == call[c]
           n == call'[c]
<1>1. CallOK /\ r \in Call /\ Resetting(c) BY Parts DEF CallOK, ResetInv
<1>2. CASE Begin(c)
  <2>1. PICK m \in Missions : \E path \in Paths[m] :
          call' = [call EXCEPT ![c] = [IdleCall EXCEPT !.pc = FirstStep(path), !.mission = m,
                                       !.path = path, !.base = BaseRead(m, path)]]
    BY <1>2 DEF Begin
  <2>2. PICK path \in Paths[m] :
          call' = [call EXCEPT ![c] = [IdleCall EXCEPT !.pc = FirstStep(path), !.mission = m,
                                       !.path = path, !.base = BaseRead(m, path)]]
    BY <2>1
  <2>3. n.pc = FirstStep(path) BY <1>1, <2>2 DEF CallOK, IdleCall
  <2> QED BY <2>3 DEF Resetting, FirstStep
<1>3. CASE ReadAnchor(c)
  <2>1. n.pc = "base" BY <1>1, <1>3 DEF ReadAnchor, CallOK, Call
  <2> QED BY <2>1 DEF Resetting
<1>4. CASE ReadMerged(c)
  <2>1. /\ n.pc = IF r.path = "direct" THEN "complete" ELSE "verify"
        /\ n.path = r.path
    BY <1>1, <1>4 DEF ReadMerged, CallOK, Call
  <2> QED BY <2>1 DEF Resetting
<1>5. CASE ~Begin(c) /\ ~ReadAnchor(c) /\ ~ReadMerged(c)
  <2>1. ASSUME Leave(c) PROVE Resetting(c)'
    BY <1>1, <2>1 DEF Leave, CallOK, IdleCall, Resetting
  <2>2. ASSUME NEW step, Goto(c, step) PROVE n.pc = step /\ n.path = r.path
    BY <1>1, <2>2 DEF Goto, CallOK, Call
  <2>3. CASE ReadUnsafe(c) \/ ReadHead(c)
    BY <2>1, <2>2, <2>3 DEF ReadUnsafe, ReadHead, Resetting
  <2>4. CASE CheckBase(c)
    <3>1. Leave(c) \/ n.pc = "merge"
      BY <1>1, <2>4 DEF CheckBase, MergeFails, CallOK, Call
    <3> QED BY <2>1, <3>1 DEF Resetting
  <2>5. CASE Merge(c)
    <3>1. Leave(c) \/ Goto(c, "merged") BY <2>5 DEF Merge, MergeFails
    <3> QED BY <2>1, <2>2, <3>1 DEF Resetting
  <2>6. CASE Verify(c)
    <3>1. n.path = r.path /\ r.pc = "verify" BY <1>1, <2>6 DEF Verify, CallOK, Call
    <3> QED BY <1>1, <3>1 DEF Resetting
  <2>7. CASE Recheck(c) \/ CheckReset(c)
    <3>1. Leave(c) \/ (n.path = r.path /\ r.pc \in {"recheck", "red"})
      BY <2>2, <2>7 DEF Recheck, CheckReset
    <3> QED BY <1>1, <2>1, <3>1 DEF Resetting
  <2>8. CASE Reset(c) \/ Complete(c) \/ Die(c) BY <2>1, <2>8 DEF Reset, Complete, Die
  <2> QED BY <1>5, <2>3, <2>4, <2>5, <2>6, <2>7, <2>8 DEF CallStep
<1> QED BY <1>2, <1>3, <1>4, <1>5

\* What happens to a call that does nothing itself.
Stands(c) ==
  /\ call'[c].pc = call[c].pc /\ call'[c].mission = call[c].mission
  /\ call'[c].path = call[c].path /\ call'[c].anchor = call[c].anchor
  /\ call'[c].into = call[c].into /\ call'[c].tested = call[c].tested
  /\ call[c].pc \notin Early => call'[c].base = call[c].base

LEMMA StepsOrStands == ASSUME TypeOK, Next, NEW c \in Calls PROVE CallStep(c) \/ Stands(c)
<1>1. CallOK /\ call[c] \in Call BY Parts DEF CallOK
<1>2. CASE \E d \in Calls : CallStep(d)
  <2>1. PICK d \in Calls : CallStep(d) BY <1>2
  <2>2. CASE d = c BY <2>1, <2>2
  <2>3. CASE d # c
    <3>1. \E v : call' = [call EXCEPT ![d] = v]
      <4>1. CASE Begin(d) BY <4>1 DEF Begin
      <4>2. CASE ReadAnchor(d) \/ ReadMerged(d) \/ Verify(d)
        BY <4>2 DEF ReadAnchor, ReadMerged, Verify
      <4>3. CASE CheckBase(d) BY <4>3 DEF CheckBase, MergeFails, Leave
      <4>4. CASE ReadUnsafe(d) \/ ReadHead(d) \/ Merge(d) \/ Recheck(d) \/ CheckReset(d)
        BY <4>4 DEF ReadUnsafe, ReadHead, Merge, MergeFails, Recheck, CheckReset, Goto, Leave
      <4>5. CASE Reset(d) \/ Complete(d) \/ Die(d) BY <4>5 DEF Reset, Complete, Die, Leave
      <4> QED BY <2>1, <4>1, <4>2, <4>3, <4>4, <4>5 DEF CallStep
    <3>2. call'[c] = call[c] BY <1>1, <2>3, <3>1 DEF CallOK
    <3> QED BY <3>2 DEF Stands
  <2> QED BY <2>2, <2>3
<1>3. CASE Abort
  <2>1. CASE call[c].pc = "idle" \/ call[c].copy # "live"
    <3>1. call'[c] = call[c] BY <1>3, <2>1 DEF Abort
    <3> QED BY <3>1 DEF Stands
  <2>2. CASE ~(call[c].pc = "idle" \/ call[c].copy # "live")
    <3> DEFINE m == mission[call[c].mission]
               b == IF call[c].pc \in {"unsafe", "head", "anchor"} THEN m.base ELSE call[c].base
               v == [call[c] EXCEPT !.copy = m.status, !.base = b]
    <3>1. call'[c] = v BY <1>3, <2>2 DEF Abort
    <3>2. /\ v.pc = call[c].pc /\ v.mission = call[c].mission /\ v.path = call[c].path
          /\ v.anchor = call[c].anchor /\ v.into = call[c].into /\ v.tested = call[c].tested
          /\ v.base = b
      BY <1>1 DEF Call
    <3> QED BY <3>1, <3>2 DEF Stands, Early
  <2> QED BY <2>1, <2>2
<1>4. CASE Commit \/ \E m \in Missions : TakeBack(m) \/ Submit(m) \/ Synchronise(m)
  <2>1. call' = call BY <1>4 DEF Commit, TakeBack, Submit, Synchronise, SetMission
  <2> QED BY <2>1 DEF Stands
<1> QED BY <1>2, <1>3, <1>4 DEF Next

LEMMA ResetInvariant == Spec => []ResetInv
<1>1. ASSUME Init PROVE ResetInv BY <1>1 DEF Init, IdleCall, ResetInv, Resetting
<1>2. ASSUME TypeOK, ResetInv, [Next]_vars PROVE ResetInv'
  <2>1. CASE Next
    BY <1>2, <2>1, StepsOrStands, OwnStepResetting DEF ResetInv, Stands, Resetting
  <2>2. CASE UNCHANGED vars BY <1>2, <2>2 DEF vars, ResetInv, Resetting
  <2> QED BY <1>2, <2>1, <2>2
<1> QED BY <1>1, <1>2, TypeCorrect, PTL DEF Spec

\* A call cannot come to threaten a commit it did not threaten before: it reads its
\* anchor, checks its base and checks its reset against the target that holds x.
LEMMA OwnStepSpares ==
  ASSUME TypeOK, NEW c \in Calls, CallStep(c), NEW x \in target, ~MayErase(c, x)
  PROVE  ~MayErase(c, x)'
<1> DEFINE r == call[c]
           n == call'[c]
<1>1. CallOK /\ r \in Call BY Parts DEF CallOK
<1>2. ASSUME Leave(c) PROVE ~MayErase(c, x)'
  BY <1>1, <1>2 DEF Leave, CallOK, IdleCall, MayErase
<1>3. ASSUME NEW step, Goto(c, step)
      PROVE  n.pc = step /\ n.path = r.path /\ n.anchor = r.anchor /\ n.into = r.into
  BY <1>1, <1>3 DEF Goto, CallOK, Call
<1>4. CASE Begin(c)
  <2>1. PICK m \in Missions : \E path \in Paths[m] :
          call' = [call EXCEPT ![c] = [IdleCall EXCEPT !.pc = FirstStep(path), !.mission = m,
                                       !.path = path, !.base = BaseRead(m, path)]]
    BY <1>4 DEF Begin
  <2>2. PICK path \in Paths[m] :
          call' = [call EXCEPT ![c] = [IdleCall EXCEPT !.pc = FirstStep(path), !.mission = m,
                                       !.path = path, !.base = BaseRead(m, path)]]
    BY <2>1
  <2>3. n.pc = FirstStep(path) /\ n.path = path BY <1>1, <2>2 DEF CallOK, IdleCall
  <2>4. path \in {"direct", "verified", "ha"} BY PathAssumption
  <2>5. n.path = "direct" \/ n.pc \in Early BY <2>3, <2>4 DEF FirstStep, Early
  <2> QED BY <2>5 DEF MayErase, Early
<1>5. CASE ReadUnsafe(c) \/ ReadHead(c)
  <2>1. Leave(c) \/ Goto(c, "head") \/ Goto(c, "anchor") BY <1>5 DEF ReadUnsafe, ReadHead
  <2> QED BY <1>2, <1>3, <2>1 DEF MayErase
<1>6. CASE ReadAnchor(c)
  <2>1. n.anchor = target BY <1>1, <1>6 DEF ReadAnchor, CallOK, Call
  <2> QED BY <2>1 DEF MayErase
<1>7. CASE CheckBase(c)
  <2>1. CASE MergeFails(c) BY <1>2, <2>1 DEF MergeFails
  <2>2. CASE ~MergeFails(c)
    <3>1. r.pc = "base" /\ target = r.base BY <1>7, <2>2 DEF CheckBase
    <3>2. n.path = r.path /\ n.anchor = r.anchor
      BY <1>1, <1>7, <2>2 DEF CheckBase, CallOK, Call
    <3>3. r.path = "direct" \/ x \in r.anchor BY <3>1 DEF MayErase
    <3> QED BY <3>2, <3>3 DEF MayErase
  <2> QED BY <2>1, <2>2
<1>8. CASE Merge(c)
  <2>1. Leave(c) \/ (Goto(c, "merged") /\ r.pc = "merge") BY <1>8 DEF Merge, MergeFails
  <2> QED BY <1>2, <1>3, <2>1 DEF MayErase
<1>9. CASE ReadMerged(c)
  <2>1. r.pc = "merged" /\ n.path = r.path /\ n.anchor = r.anchor
    BY <1>1, <1>9 DEF ReadMerged, CallOK, Call
  <2> QED BY <2>1 DEF MayErase
<1>10. CASE Verify(c)
  <2>1. /\ r.pc = "verify" /\ n.pc \in {"recheck", "red"}
        /\ n.path = r.path /\ n.anchor = r.anchor /\ n.into = r.into
    BY <1>1, <1>10 DEF Verify, CallOK, Call
  <2> QED BY <2>1 DEF MayErase
<1>11. CASE Recheck(c)
  <2>1. Leave(c) \/ Goto(c, "complete") BY <1>11 DEF Recheck
  <2> QED BY <1>2, <1>3, <2>1 DEF MayErase
<1>12. CASE CheckReset(c)
  <2>1. Leave(c) \/ (Goto(c, "reset") /\ r.pc = "red" /\ target = r.into)
    BY <1>12 DEF CheckReset
  <2> QED BY <1>2, <1>3, <2>1 DEF MayErase
<1>13. CASE Reset(c) \/ Complete(c) \/ Die(c) BY <1>2, <1>13 DEF Reset, Complete, Die
<1> QED BY <1>4, <1>5, <1>6, <1>7, <1>8, <1>9, <1>10, <1>11, <1>12, <1>13 DEF CallStep

LEMMA KeptStep == ASSUME TypeOK, ResetInv, Next, NEW x \in target, Kept(x) PROVE Kept(x)'
<1>1. x \in target'
  <2>1. ASSUME NEW c \in Calls, Reset(c), target' = call[c].anchor PROVE x \in target'
    <3>1. call[c].pc = "reset" /\ call[c].path # "direct"
      BY <2>1 DEF Reset, ResetInv, Resetting
    <3> QED BY <2>1, <3>1 DEF Kept, MayErase
  <2> QED BY <2>1, TargetSteps
<1>2. ASSUME NEW c \in Calls PROVE ~MayErase(c, x)'
  <2>1. ~MayErase(c, x) BY DEF Kept
  <2>2. CASE CallStep(c) BY <2>1, <2>2, OwnStepSpares
  <2>3. CASE Stands(c) BY <2>1, <2>3 DEF Stands, MayErase, Early
  <2> QED BY <2>2, <2>3, StepsOrStands
<1> QED BY <1>1, <1>2 DEF Kept

\* A red result takes away its own merge only, however many finalizations overlap:
\* a commit stays on the target for ever unless it came between the base check of a
\* call in progress and its look at the head, or between the check of a reset and
\* the reset (mergeToTarget, resetTarget).
THEOREM OthersAreKept == Spec => CommitsStay
<1>1. ASSUME TypeOK, ResetInv, [Next]_vars
      PROVE  [\A x \in target : Kept(x) => Kept(x)']_vars
  BY <1>1, KeptStep
<1> QED BY <1>1, TypeCorrect, ResetInvariant, PTL DEF Spec, CommitsStay

-----------------------------------------------------------------------------
(* Unsafe: a marked Mission that no call has passed the question for.         *)

SameResults == \A m \in Missions : /\ mission'[m].mergedInto = mission[m].mergedInto
                                   /\ mission'[m].tested = mission[m].tested

LEMMA SetMissionResults ==
  ASSUME MissionOK, NEW m \in Missions, NEW v,
         v.mergedInto = mission[m].mergedInto, v.tested = mission[m].tested,
         mission' = [mission EXCEPT ![m] = v]
  PROVE  SameResults
BY DEF MissionOK, SameResults

LEMMA SetStatusResults ==
  ASSUME TypeOK, NEW c \in Calls, call[c].pc # "idle", NEW status, SetStatus(c, status)
  PROVE  SameResults
<1> DEFINE m == MissionOf(c)
           v == [mission[m] EXCEPT !.status = status]
<1>1. MissionOK /\ m \in Missions BY Bound, Parts
<1>2. mission[m] \in Mission BY <1>1 DEF MissionOK
<1>3. v.mergedInto = mission[m].mergedInto /\ v.tested = mission[m].tested BY <1>2 DEF Mission
<1>4. mission' = mission \/ mission' = [mission EXCEPT ![m] = v] BY DEF SetStatus
<1>5. CASE mission' = mission BY <1>5 DEF SameResults
<1>6. CASE mission' = [mission EXCEPT ![m] = v] BY <1>1, <1>3, <1>6, SetMissionResults
<1> QED BY <1>4, <1>5, <1>6

LEMMA FailResults == ASSUME TypeOK, NEW c \in Calls, call[c].pc # "idle", MergeFails(c) PROVE SameResults
<1>1. mission' = mission \/ SetStatus(c, "blocked") BY DEF MergeFails
<1>2. CASE mission' = mission BY <1>2 DEF SameResults
<1>3. CASE SetStatus(c, "blocked") BY <1>3, SetStatusResults
<1> QED BY <1>1, <1>2, <1>3

\* Only the end of a finalization changes what a Mission was merged into.
LEMMA ResultsStay ==
  ASSUME TypeOK, Next, ~\E c \in Calls : Complete(c)
  PROVE  SameResults
<1>1. MissionOK BY Parts
<1>2. CASE \E c \in Calls : CallStep(c)
  <2>1. PICK c \in Calls : CallStep(c) BY <1>2
  <2>2. CASE CheckBase(c)
    <3>1. CASE MergeFails(c) BY <2>2, <3>1, FailResults DEF CheckBase
    <3>2. CASE ~MergeFails(c)
      <4> DEFINE m == MissionOf(c)
                 v == [mission[m] EXCEPT !.tip = mission[m].work]
      <4>1. m \in Missions BY <2>2, Bound, Parts DEF CheckBase
      <4>2. mission[m] \in Mission BY <1>1, <4>1 DEF MissionOK
      <4>3. v.mergedInto = mission[m].mergedInto /\ v.tested = mission[m].tested
        BY <4>2 DEF Mission
      <4>4. mission' = [mission EXCEPT ![m] = v] BY <2>2, <3>2 DEF CheckBase
      <4> QED BY <1>1, <4>1, <4>3, <4>4, SetMissionResults
    <3> QED BY <3>1, <3>2
  <2>3. CASE Merge(c)
    <3>1. MergeFails(c) \/ mission' = mission BY <2>3 DEF Merge
    <3> QED BY <2>3, <3>1, FailResults DEF SameResults, Merge
  <2>4. CASE ~CheckBase(c) /\ ~Merge(c)
    <3>1. mission' = mission
      BY <2>1, <2>4 DEF CallStep, Begin, ReadUnsafe, ReadHead, ReadAnchor, ReadMerged, Verify,
         Recheck, CheckReset, Reset, Die
    <3> QED BY <3>1 DEF SameResults
  <2> QED BY <2>2, <2>3, <2>4
<1>3. ASSUME NEW m \in Missions, TakeBack(m) \/ Submit(m) \/ Synchronise(m) PROVE SameResults
  <2>1. mission[m] \in Mission BY <1>1 DEF MissionOK
  <2>2. ASSUME NEW v, SetMission(m, v), v.mergedInto = mission[m].mergedInto,
               v.tested = mission[m].tested
        PROVE  SameResults
    BY <1>1, <2>2, SetMissionResults DEF SetMission
  <2>3. CASE TakeBack(m)
    <3>1. PICK s \in {"planning", "blocked"} : SetMission(m, [mission[m] EXCEPT !.status = s])
      BY <2>3 DEF TakeBack
    <3> DEFINE v == [mission[m] EXCEPT !.status = s]
    <3>2. v.mergedInto = mission[m].mergedInto /\ v.tested = mission[m].tested
      BY <2>1 DEF Mission
    <3> QED BY <2>2, <3>1, <3>2
  <2>4. CASE Submit(m)
    <3>1. PICK w \in {mission[m].work, mission[m].work + 1} : \E t \in {mission[m].tip, w} :
            SetMission(m, [mission[m] EXCEPT !.status = "awaiting_review", !.work = w, !.tip = t])
      BY <2>4 DEF Submit
    <3>2. PICK t \in {mission[m].tip, w} :
            SetMission(m, [mission[m] EXCEPT !.status = "awaiting_review", !.work = w, !.tip = t])
      BY <3>1
    <3> DEFINE v == [mission[m] EXCEPT !.status = "awaiting_review", !.work = w, !.tip = t]
    <3>3. v.mergedInto = mission[m].mergedInto /\ v.tested = mission[m].tested
      BY <2>1 DEF Mission
    <3> QED BY <2>2, <3>2, <3>3
  <2>5. CASE Synchronise(m)
    <3> DEFINE v == [mission[m] EXCEPT !.base = target]
    <3>1. v.mergedInto = mission[m].mergedInto /\ v.tested = mission[m].tested
      BY <2>1 DEF Mission
    <3>2. SetMission(m, v) BY <2>5 DEF Synchronise
    <3> QED BY <2>2, <3>1, <3>2
  <2> QED BY <1>3, <2>3, <2>4, <2>5
<1>4. CASE Commit \/ Abort BY <1>4 DEF Commit, Abort, SameResults
<1> QED BY <1>2, <1>3, <1>4 DEF Next

LEMMA StoppedHolds ==
  ASSUME TypeOK, AnchorInv, Next, NEW m \in Missions, Stopped(m), NEW c \in Calls,
         "direct" \notin Paths[m], "verified" \notin Paths[m]
  PROVE  MissionOf(c)' = m => call'[c].pc = "unsafe"
<1> DEFINE r == call[c]
           n == call'[c]
<1>1. CallOK /\ r \in Call BY Parts DEF CallOK
<1>2. CASE Stands(c) BY <1>2 DEF Stands, Stopped, MissionOf
<1>3. CASE CallStep(c) /\ Begin(c)
  <2>1. PICK k \in Missions : \E path \in Paths[k] :
          call' = [call EXCEPT ![c] = [IdleCall EXCEPT !.pc = FirstStep(path), !.mission = k,
                                       !.path = path, !.base = BaseRead(k, path)]]
    BY <1>3 DEF Begin
  <2>2. PICK path \in Paths[k] :
          call' = [call EXCEPT ![c] = [IdleCall EXCEPT !.pc = FirstStep(path), !.mission = k,
                                       !.path = path, !.base = BaseRead(k, path)]]
    BY <2>1
  <2>3. n.pc = FirstStep(path) /\ n.mission = k BY <1>1, <2>2 DEF CallOK, IdleCall
  <2>4. path \in {"direct", "verified", "ha"} BY PathAssumption
  <2>5. k = m => path = "ha" BY <2>4
  <2> QED BY <2>3, <2>5 DEF FirstStep, MissionOf
<1>4. CASE CallStep(c) /\ ~Begin(c)
  <2>1. n.mission = r.mission \/ n = IdleCall
    <3>1. ASSUME Leave(c) PROVE n = IdleCall BY <1>1, <3>1 DEF Leave, CallOK
    <3>2. CASE ReadAnchor(c) BY <1>1, <3>2 DEF ReadAnchor, CallOK, Call
    <3>3. CASE ~ReadAnchor(c)
      <4>1. Continues(c) BY <1>4, <3>3, MostStepsContinue DEF CallStep
      <4> QED BY <4>1 DEF Continues
    <3> QED BY <3>2, <3>3
  <2>2. m # NoMission BY NameAssumption
  <2>3. CASE r.mission = m
    <3>1. r.pc = "unsafe" /\ m \in unsafe BY <2>3 DEF Stopped, MissionOf
    <3>2. ReadUnsafe(c) \/ Die(c)
      BY <1>4, <3>1 DEF CallStep, ReadHead, ReadAnchor, CheckBase, Merge, ReadMerged, Verify,
         Recheck, CheckReset, Reset, Complete
    <3>3. Leave(c) BY <2>3, <3>1, <3>2 DEF ReadUnsafe, Die, MissionOf
    <3>4. n.mission = NoMission BY <1>1, <3>3 DEF Leave, CallOK, IdleCall
    <3> QED BY <2>2, <3>4 DEF MissionOf
  <2>4. CASE r.mission # m
    BY <2>1, <2>2, <2>4 DEF IdleCall, MissionOf
  <2> QED BY <2>3, <2>4
<1> QED BY <1>2, <1>3, <1>4, StepsOrStands

\* Only high-assurance Missions are marked.
MarkedHa == \A m \in unsafe : Paths[m] = {"ha"}

\* A call marks its Mission as it leaves.
LEMMA MarksAndLeaves ==
  ASSUME NEW c \in Calls, CallStep(c), unsafe' # unsafe
  PROVE  /\ call[c].pc # "idle" /\ call[c].path = "ha"
         /\ unsafe' = unsafe \cup {call[c].mission}
BY DEF CallStep, Begin, ReadUnsafe, ReadHead, ReadAnchor, CheckBase, Merge, MergeFails, ReadMerged,
   Verify, Recheck, CheckReset, Reset, Complete, Die, Events, MarkUnsafe, MissionOf

LEMMA OnlyCallsMark == ASSUME Next, ~\E c \in Calls : CallStep(c) PROVE unsafe' = unsafe
BY DEF Next, TakeBack, Submit, Synchronise, SetMission, Commit, Abort, Events

LEMMA UnsafeGrows == ASSUME Next PROVE unsafe \subseteq unsafe'
BY MarksAndLeaves, OnlyCallsMark

LEMMA OnlyHaMarked == ASSUME TypeOK, AnchorInv, MarkedHa, Next PROVE MarkedHa'
<1>1. CASE unsafe' = unsafe BY <1>1 DEF MarkedHa
<1>2. CASE unsafe' # unsafe
  <2>1. PICK c \in Calls : CallStep(c) BY <1>2, OnlyCallsMark
  <2>2. call[c].pc # "idle" /\ call[c].path = "ha" /\ unsafe' = unsafe \cup {call[c].mission}
    BY <1>2, <2>1, MarksAndLeaves
  <2>3. call[c].mission \in Missions BY <2>2, Bound, Parts DEF MissionOf
  <2>4. "ha" \in Paths[call[c].mission] BY <2>2 DEF AnchorInv, CallTraced
  <2>5. Paths[call[c].mission] = {"ha"} BY <2>3, <2>4, PathAssumption
  <2> QED BY <2>2, <2>5 DEF MarkedHa
<1> QED BY <1>1, <1>2

\* A new commit is made by a call that is merging, or by somebody else.
LEMMA NewCommits ==
  ASSUME Next, made' # made
  PROVE  \E who \in {Other} \cup {MissionOf(c) : c \in {d \in Calls : call[d].pc = "merge"}} :
           \E version : target' = target \cup {NewCommit(who, version)}
<1>1. CASE Commit BY <1>1 DEF Commit
<1>2. CASE ~Commit
  <2>1. PICK c \in Calls : Merge(c)
    BY <1>2 DEF Next, CallStep, Begin, ReadUnsafe, ReadHead, ReadAnchor, CheckBase, MergeFails,
       ReadMerged, Verify, Recheck, CheckReset, Reset, Complete, Die, TakeBack, Submit,
       Synchronise, SetMission, Abort, Repository
  <2>2. call[c].pc = "merge"
        /\ target' = target \cup {NewCommit(MissionOf(c), mission[MissionOf(c)].tip)}
    BY <2>1 DEF Merge, MergeFails, Repository
  <2> QED BY <2>2
<1> QED BY <1>1, <1>2

LEMMA UnsafeStep ==
  ASSUME TypeOK, TypeOK', AnchorInv, MarkedHa, Next, NEW m \in Missions, Stopped(m)
  PROVE  /\ Stopped(m)'
         /\ made' # made => \A x \in target' \ target : x.by # m
         /\ mission'[m].status = "completed" => mission[m].status = "completed"
<1>1. m \in unsafe /\ Paths[m] = {"ha"} BY DEF Stopped, MarkedHa
<1>2. Stopped(m)'
  <2>1. m \in unsafe' BY <1>1, UnsafeGrows
  <2>2. \A c \in Calls : MissionOf(c)' = m => call'[c].pc = "unsafe" BY <1>1, StoppedHolds
  <2> QED BY <2>1, <2>2 DEF Stopped, MissionOf
<1>3. ASSUME made' # made, NEW x \in target' \ target PROVE x.by # m
  <2>1. PICK who \in {Other} \cup {MissionOf(c) : c \in {d \in Calls : call[d].pc = "merge"}} :
          \E version : target' = target \cup {NewCommit(who, version)}
    BY <1>3, NewCommits
  <2>2. x.by = who BY <1>3, <2>1 DEF NewCommit
  <2>3. who # m BY NameAssumption DEF Stopped
  <2> QED BY <2>2, <2>3
<1>4. ASSUME mission'[m].status = "completed" PROVE mission[m].status = "completed"
  <2>1. CASE \E c \in Calls : Complete(c)
    <3>1. PICK c \in Calls : Complete(c) BY <2>1
    <3>2. MissionOf(c) # m BY <3>1 DEF Complete, Stopped
    <3>3. mission'[m] = mission[m] BY <3>1, <3>2 DEF Complete, TypeOK
    <3> QED BY <1>4, <3>3
  <2>2. CASE ~\E c \in Calls : Complete(c)
    BY <1>4, <2>2, ResultsStay DEF SameResults, TypeOK
  <2> QED BY <2>1, <2>2
<1> QED BY <1>2, <1>3, <1>4

\* "No automatic merge again": a high-assurance Mission that is marked unsafe, and
\* that no call has passed the question for, is never merged or completed by the
\* platform, whatever other finalizations do and however often it is synchronised,
\* sent back, submitted and released again (haUnsafe).
THEOREM UnsafeIsLeftAlone == Spec => UnsafeStays
<1>1. ASSUME Init PROVE MarkedHa BY <1>1 DEF Init, MarkedHa
<1>2. ASSUME TypeOK, AnchorInv, MarkedHa, [Next]_vars PROVE MarkedHa'
  <2>1. CASE Next BY <1>2, <2>1, OnlyHaMarked
  <2>2. CASE UNCHANGED vars BY <1>2, <2>2 DEF vars, MarkedHa
  <2> QED BY <1>2, <2>1, <2>2
<1>3. ASSUME TypeOK, TypeOK', AnchorInv, MarkedHa, [Next]_vars
      PROVE  [\A m \in Missions : Stopped(m) =>
                /\ Stopped(m)'
                /\ made' # made => \A x \in target' \ target : x.by # m
                /\ mission'[m].status = "completed" => mission[m].status = "completed"]_vars
  BY <1>3, UnsafeStep
<1> QED BY <1>1, <1>2, <1>3, TypeCorrect, AnchorInvariant, PTL DEF Spec, UnsafeStays

-----------------------------------------------------------------------------
(* Signatures: what a call relies on from its merge to its second look grows *)
(* only, unless another call resets under it.                                *)

CallLands(c) ==
  /\ call[c].pc = "merged" => HasCode(target, call[c].mission)
  /\ call[c].pc \in {"verify", "recheck"} =>
       HasCode(call[c].into, call[c].mission) /\ call[c].into \subseteq target
  /\ call[c].pc = "recheck" =>
       call[c].into \subseteq call[c].tested /\ call[c].tested \subseteq target
  /\ call[c].pc = "complete" =>
       /\ HasCode(call[c].into, call[c].mission)
       /\ call[c].path # "direct" => call[c].tested = call[c].into

LandInv == \A c \in Calls \ undercut : CallLands(c)

LEMMA GrowsUnderneath ==
  ASSUME TypeOK, HNext, NEW c \in Calls \ undercut', call'[c].pc # "idle", Relies(c)
  PROVE  target \subseteq target'
<1>1. ~\E d \in Calls \ {c} : Reset(d) BY DEF HNext
<1>2. ~Reset(c) BY DEF Reset, Relies
<1> QED BY <1>1, <1>2, TargetSteps DEF HNext

LEMMA StandingLands ==
  ASSUME TypeOK, HNext, NEW c \in Calls \ undercut', CallLands(c), Stands(c)
  PROVE  CallLands(c)'
<1>1. CASE Relies(c)
  <2>1. target \subseteq target' BY <1>1, GrowsUnderneath DEF Stands, Relies
  <2> QED BY <2>1 DEF CallLands, Stands, HasCode
<1>2. CASE ~Relies(c) BY <1>2 DEF CallLands, Stands, HasCode, Relies
<1> QED BY <1>1, <1>2

LEMMA OwnStepLands ==
  ASSUME TypeOK, NEW c \in Calls, CallStep(c), CallLands(c)
  PROVE  CallLands(c)'
<1> DEFINE r == call[c]
           n == call'[c]
<1>1. CallOK /\ r \in Call BY Parts DEF CallOK
<1>2. ASSUME n.pc \notin {"merged", "verify", "recheck", "complete"} PROVE CallLands(c)'
  BY <1>2 DEF CallLands
<1>3. ASSUME Leave(c) PROVE CallLands(c)'
  <2>1. n.pc = "idle" BY <1>1, <1>3 DEF Leave, CallOK, IdleCall
  <2> QED BY <1>2, <2>1
<1>4. ASSUME NEW step, Goto(c, step)
      PROVE  /\ n.pc = step /\ n.mission = r.mission /\ n.path = r.path
             /\ n.into = r.into /\ n.tested = r.tested
  BY <1>1, <1>4 DEF Goto, CallOK, Call
<1>5. CASE Begin(c)
  <2>1. PICK m \in Missions : \E path \in Paths[m] :
          call' = [call EXCEPT ![c] = [IdleCall EXCEPT !.pc = FirstStep(path), !.mission = m,
                                       !.path = path, !.base = BaseRead(m, path)]]
    BY <1>5 DEF Begin
  <2>2. PICK path \in Paths[m] :
          call' = [call EXCEPT ![c] = [IdleCall EXCEPT !.pc = FirstStep(path), !.mission = m,
                                       !.path = path, !.base = BaseRead(m, path)]]
    BY <2>1
  <2>3. n.pc = FirstStep(path) BY <1>1, <2>2 DEF CallOK, IdleCall
  <2> QED BY <1>2, <2>3 DEF FirstStep
<1>6. CASE ReadUnsafe(c) \/ ReadHead(c)
  <2>1. Leave(c) \/ Goto(c, "head") \/ Goto(c, "anchor") BY <1>6 DEF ReadUnsafe, ReadHead
  <2> QED BY <1>2, <1>3, <1>4, <2>1
<1>7. CASE ReadAnchor(c)
  <2>1. n.pc = "base" BY <1>1, <1>7 DEF ReadAnchor, CallOK, Call
  <2> QED BY <1>2, <2>1
<1>8. CASE CheckBase(c)
  <2>1. Leave(c) \/ n.pc = "merge" BY <1>1, <1>8 DEF CheckBase, MergeFails, CallOK, Call
  <2> QED BY <1>2, <1>3, <2>1
<1>9. CASE Merge(c)
  <2>1. CASE MergeFails(c) BY <1>3, <2>1 DEF MergeFails
  <2>2. CASE ~MergeFails(c)
    <3>1. Goto(c, "merged") BY <1>9, <2>2 DEF Merge
    <3>2. HasCode(target', r.mission)
      <4> DEFINE m == MissionOf(c)
      <4>1. CASE Contains(target, m, mission[m].tip)
        BY <1>9, <2>2, <4>1 DEF Merge, Contains, HasCode, MissionOf, Repository
      <4>2. CASE ~Contains(target, m, mission[m].tip)
        <5>1. target' = target \cup {NewCommit(m, mission[m].tip)} BY <1>9, <2>2, <4>2 DEF Merge
        <5>2. NewCommit(m, mission[m].tip).by = m BY DEF NewCommit
        <5> QED BY <5>1, <5>2 DEF HasCode, MissionOf
      <4> QED BY <4>1, <4>2
    <3>3. n.pc = "merged" /\ n.mission = r.mission BY <1>4, <3>1
    <3> QED BY <3>2, <3>3 DEF CallLands, HasCode
  <2> QED BY <2>1, <2>2
<1>10. CASE ReadMerged(c)
  <2>1. /\ n.pc = IF r.path = "direct" THEN "complete" ELSE "verify"
        /\ n.path = r.path /\ n.mission = r.mission /\ n.into = target
    BY <1>1, <1>10 DEF ReadMerged, CallOK, Call
  <2>2. r.pc = "merged" /\ target' = target BY <1>10 DEF ReadMerged, Repository
  <2>3. HasCode(target, r.mission) BY <2>2 DEF CallLands
  <2> QED BY <2>1, <2>2, <2>3 DEF CallLands, HasCode
<1>11. CASE Verify(c)
  <2>1. /\ n.pc \in {"recheck", "red"} /\ n.mission = r.mission /\ n.into = r.into
        /\ n.tested = target
    BY <1>1, <1>11 DEF Verify, CallOK, Call
  <2>2. r.pc = "verify" /\ target' = target BY <1>11 DEF Verify, Repository
  <2> QED BY <2>1, <2>2 DEF CallLands, HasCode
<1>12. CASE Recheck(c)
  <2>1. CASE Leave(c) BY <1>3, <2>1
  <2>2. CASE ~Leave(c)
    <3>1. target = r.into /\ Goto(c, "complete") /\ r.pc = "recheck" BY <1>12, <2>2 DEF Recheck
    <3>2. n.pc = "complete" /\ n.mission = r.mission /\ n.into = r.into /\ n.tested = r.tested
      BY <1>4, <3>1
    <3>3. r.tested = r.into BY <3>1 DEF CallLands
    <3> QED BY <3>1, <3>2, <3>3 DEF CallLands, HasCode
  <2> QED BY <2>1, <2>2
<1>13. CASE CheckReset(c)
  <2>1. Leave(c) \/ Goto(c, "reset") BY <1>13 DEF CheckReset
  <2> QED BY <1>2, <1>3, <1>4, <2>1
<1>14. CASE Reset(c) \/ Complete(c) \/ Die(c) BY <1>3, <1>14 DEF Reset, Complete, Die
<1> QED BY <1>5, <1>6, <1>7, <1>8, <1>9, <1>10, <1>11, <1>12, <1>13, <1>14 DEF CallStep

LEMMA LandStep == ASSUME TypeOK, LandInv, HNext PROVE LandInv'
<1> SUFFICES ASSUME NEW c \in Calls \ undercut' PROVE CallLands(c)'
  BY DEF LandInv
<1>1. CASE call'[c].pc = "idle" BY <1>1 DEF CallLands
<1>2. CASE call'[c].pc # "idle"
  <2>1. c \notin undercut BY <1>2 DEF HNext
  <2>2. CallLands(c) BY <2>1 DEF LandInv
  <2>3. CASE CallStep(c) BY <2>2, <2>3, OwnStepLands
  <2>4. CASE Stands(c) BY <2>2, <2>4, StandingLands
  <2> QED BY <2>3, <2>4, StepsOrStands DEF HNext
<1> QED BY <1>1, <1>2

LEMMA SignedStep ==
  ASSUME TypeOK, TypeOK', LandInv, HNext, NEW m \in Missions, Completes(m)
  PROVE  \/ /\ HasCode(mission'[m].mergedInto, m)
            /\ mission'[m].tested \in {NoRevision, mission'[m].mergedInto}
         \/ \E c \in undercut : CompletedBy(c, m)
<1>1. PICK c \in Calls : Complete(c)
  BY ResultsStay DEF HNext, Completes, SameResults, TypeOK
<1>2. mission[m] \in Mission BY DEF TypeOK
<1>3. MissionOf(c) = m /\ mission' # mission BY <1>1 DEF Completes, Complete, TypeOK
<1> DEFINE t == IF call[c].path = "direct" THEN NoRevision ELSE call[c].tested
           v == [mission[m] EXCEPT !.status = "completed", !.mergedInto = call[c].into, !.tested = t]
<1>4. mission' = [mission EXCEPT ![m] = v] BY <1>1, <1>3 DEF Complete
<1>5. mission'[m] = v BY <1>4 DEF TypeOK
<1>6. v.mergedInto = call[c].into /\ v.tested = t BY <1>2 DEF Mission
<1>7. call[c].pc = "complete" /\ call'[c] = IdleCall BY <1>1 DEF Complete, Leave, TypeOK
<1>8. CASE c \in undercut BY <1>3, <1>7, <1>8 DEF CompletedBy
<1>9. CASE c \notin undercut
  <2>1. HasCode(call[c].into, m) /\ t \in {NoRevision, call[c].into}
    BY <1>3, <1>7, <1>9 DEF LandInv, CallLands, MissionOf
  <2> QED BY <1>5, <1>6, <2>1
<1> QED BY <1>8, <1>9

\* However many finalizations overlap, and whatever commits, deaths, aborts and
\* changes of the Mission come between: what completes a Mission has landed in the
\* revision it records, and signs the revision that was verified, unless another
\* finalization has reset the target under it since its merge.
THEOREM SignaturesAreTested == HSpec => SignsWhatItTested
<1>1. ASSUME HInit PROVE Init /\ LandInv
  BY <1>1 DEF HInit, Init, IdleCall, LandInv, CallLands
<1>2. [HNext]_hvars => [Next]_vars BY DEF HNext, hvars
<1>3. ASSUME TypeOK, LandInv, [HNext]_hvars PROVE LandInv'
  <2>1. CASE HNext BY <1>3, <2>1, LandStep
  <2>2. CASE UNCHANGED hvars
    BY <1>3, <2>2 DEF hvars, vars, LandInv, CallLands, HasCode
  <2> QED BY <1>3, <2>1, <2>2
<1>4. ASSUME TypeOK, TypeOK', LandInv, [HNext]_hvars
      PROVE  [\A m \in Missions : Completes(m) =>
                \/ /\ HasCode(mission'[m].mergedInto, m)
                   /\ mission'[m].tested \in {NoRevision, mission'[m].mergedInto}
                \/ \E c \in undercut : CompletedBy(c, m)]_hvars
  BY <1>4, SignedStep
<1>5. HSpec => Spec BY <1>1, <1>2, PTL DEF HSpec, Spec
<1> QED BY <1>1, <1>3, <1>4, <1>5, TypeCorrect, PTL DEF HSpec, SignsWhatItTested

=============================================================================
