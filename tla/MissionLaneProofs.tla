------------------------- MODULE MissionLaneProofs -------------------------
(***************************************************************************)
(* Proofs about MissionLane, for any number of Missions and work items.    *)
(*                                                                         *)
(* Every step belongs to one Mission.  What a Mission keeps by itself is   *)
(* Local; what the Missions keep together is invariant C, which holds      *)
(* because a step that makes a Mission mutating finds no other one that is *)
(* (Claims).  A lemma per action shows both (Good), and StepKeeps puts     *)
(* them together.  The lemma of a step that leaves the Mission alone also  *)
(* says that it opens no item (Quiet), which is all that the refinement of *)
(* ReviewedWork has to know of it.                                         *)
(***************************************************************************)
EXTENDS MissionLane, TLAPS

Open == Finished \cup {"absent", "created"}

(* A Mission that executes has checked its contract, a result under review *)
(* was written for it, and no check is of a contract to come.              *)
ContractOk(s) ==
  /\ s.checked <= s.rev
  /\ s.status = "awaiting_review" => s.result.rev = s.rev /\ s.result.outcome # "none"
  /\ s.status = "executing" => s.checked = s.rev

(* A delivered result leaves no item open.                                 *)
DeliveredOk(s, f) ==
  s.status = "awaiting_review" /\ s.result.outcome = "delivered" =>
    \A i \in Items : f[i].status \in Open

(* The hop of an executor has an item, and an item is only run before its  *)
(* silent attempts reach the limit.                                        *)
HopOk(r, f) ==
  /\ r.pc \in {"start", "execute", "after", "fail"} => r.item \in Items
  /\ r.pc \in {"start", "execute"} => f[r.item].silent < NoResultLimit

Local(m) ==
  ContractOk(mission[m]) /\ DeliveredOk(mission[m], item[m]) /\ HopOk(run[m], item[m])

IInv == TypeOK /\ (\A m \in Missions : Local(m)) /\ OneMutatingMission

-----------------------------------------------------------------------------
(* What a step of one Mission has to show.                                 *)

Holds(s) == s.mutated /\ s.status \notin Terminal /\ ~s.parked

Changed(m) ==
  /\ mission'[m] \in MissionState /\ mission' = [mission EXCEPT ![m] = mission'[m]]
  /\ item'[m] \in [Items -> ItemState] /\ item' = [item EXCEPT ![m] = item'[m]]
  /\ run'[m] \in RunState /\ run' = [run EXCEPT ![m] = run'[m]]

LocalNext(m) ==
  ContractOk(mission'[m]) /\ DeliveredOk(mission'[m], item'[m]) /\ HopOk(run'[m], item'[m])

Claims(m) == Holds(mission'[m]) => Holds(mission[m]) \/ ~OtherMutates(m)

Good(m) == Changed(m) /\ LocalNext(m) /\ Claims(m)

(* The Mission is left alone, and its items are, or one of them is no      *)
(* longer open.                                                            *)
Settling(m) ==
  /\ UNCHANGED mission
  /\ \/ Opened(item'[m]) = Opened(item[m])
     \/ \E i \in Items : Opened(item'[m]) = Opened(item[m]) \ {i}

Quiet(m) == Good(m) /\ Settling(m)

LEMMA Parts ==
  ASSUME TypeOK, NEW m \in Missions
  PROVE  /\ mission[m] \in MissionState
         /\ item[m] \in [Items -> ItemState]
         /\ run[m] \in RunState
BY DEF TypeOK

LEMMA Kept ==
  ASSUME TypeOK, NEW m \in Missions
  PROVE  /\ mission = [mission EXCEPT ![m] = mission[m]]
         /\ item = [item EXCEPT ![m] = item[m]]
         /\ run = [run EXCEPT ![m] = run[m]]
BY DEF TypeOK

(* A step is described by the new values of its Mission.                   *)
LEMMA Described ==
  ASSUME TypeOK, NEW m \in Missions, NEW s \in MissionState, NEW f \in [Items -> ItemState],
         NEW r \in RunState,
         mission' = [mission EXCEPT ![m] = s], item' = [item EXCEPT ![m] = f],
         run' = [run EXCEPT ![m] = r],
         ContractOk(s), DeliveredOk(s, f), HopOk(r, f),
         Holds(s) => Holds(mission[m]) \/ ~OtherMutates(m)
  PROVE  Good(m)
<1>1. mission'[m] = s /\ item'[m] = f /\ run'[m] = r
  BY DEF TypeOK
<1>2. Changed(m)
  BY <1>1 DEF Changed
<1>3. LocalNext(m)
  BY <1>1 DEF LocalNext
<1>4. Claims(m)
  BY <1>1 DEF Claims
<1> QED
  BY <1>2, <1>3, <1>4 DEF Good

(* Only the loop moves.                                                    *)
LEMMA LoopMoves ==
  ASSUME TypeOK, NEW m \in Missions, Local(m), NEW r \in RunState,
         UNCHANGED <<mission, item>>, run' = [run EXCEPT ![m] = r], HopOk(r, item[m])
  PROVE  Quiet(m)
<1>1. /\ mission[m] \in MissionState /\ item[m] \in [Items -> ItemState]
  BY Parts
<1>2. mission' = [mission EXCEPT ![m] = mission[m]] /\ item' = [item EXCEPT ![m] = item[m]]
  BY Kept
<1>3. ContractOk(mission[m]) /\ DeliveredOk(mission[m], item[m])
  BY DEF Local
<1>4. Good(m)
  BY <1>1, <1>2, <1>3, Described
<1>5. Settling(m)
  BY DEF Settling
<1> QED
  BY <1>4, <1>5 DEF Quiet

(* Only the Mission moves.                                                 *)
LEMMA MissionMoves ==
  ASSUME TypeOK, NEW m \in Missions, Local(m), NEW s \in MissionState,
         mission' = [mission EXCEPT ![m] = s], UNCHANGED <<item, run>>,
         ContractOk(s), DeliveredOk(s, item[m]),
         Holds(s) => Holds(mission[m]) \/ ~OtherMutates(m)
  PROVE  Good(m)
<1>1. item[m] \in [Items -> ItemState] /\ run[m] \in RunState
  BY Parts
<1>2. item' = [item EXCEPT ![m] = item[m]] /\ run' = [run EXCEPT ![m] = run[m]]
  BY Kept
<1>3. HopOk(run[m], item[m])
  BY DEF Local
<1> QED
  BY <1>1, <1>2, <1>3, Described

(* One item moves, and the loop may: an item that is not open stays so, or *)
(* was open before; the silence of the item of the hop stays bounded.      *)
LEMMA ItemMoves ==
  ASSUME TypeOK, NEW m \in Missions, Local(m), NEW i \in Items, NEW x \in ItemState,
         NEW r \in RunState,
         UNCHANGED mission, item' = [item EXCEPT ![m] = [item[m] EXCEPT ![i] = x]],
         run' = [run EXCEPT ![m] = r],
         item[m][i].status \in Open => x.status \in Open,
         HopOk(r, [item[m] EXCEPT ![i] = x])
  PROVE  Quiet(m)
<1> DEFINE f == [item[m] EXCEPT ![i] = x]
<1>1. mission[m] \in MissionState /\ item[m] \in [Items -> ItemState]
  BY Parts
<1>2. f \in [Items -> ItemState]
  BY <1>1
<1>3. mission' = [mission EXCEPT ![m] = mission[m]]
  BY Kept
<1>4. ContractOk(mission[m])
  BY DEF Local
<1>5. \A j \in Items : f[j] = IF j = i THEN x ELSE item[m][j]
  BY <1>1
<1>6. DeliveredOk(mission[m], f)
  <2> SUFFICES ASSUME mission[m].status = "awaiting_review",
                      mission[m].result.outcome = "delivered", NEW j \in Items
               PROVE  f[j].status \in Open
    BY DEF DeliveredOk
  <2>1. item[m][j].status \in Open
    BY DEF Local, DeliveredOk
  <2> QED
    BY <1>5, <2>1
<1>7. Good(m)
  BY <1>1, <1>2, <1>3, <1>4, <1>6, Described
<1>8. item'[m] = f
  BY DEF TypeOK
<1>9. Opened(f) = Opened(item[m]) \/ Opened(f) = Opened(item[m]) \ {i}
  BY <1>5 DEF Opened, Open
<1> QED
  BY <1>7, <1>8, <1>9 DEF Quiet, Settling

(* A call changes one item and leaves the loop alone.                      *)
LEMMA CallMoves ==
  ASSUME TypeOK, NEW m \in Missions, Local(m), NEW i \in Items, NEW x \in ItemState,
         UNCHANGED <<mission, run>>,
         item' = [item EXCEPT ![m] = [item[m] EXCEPT ![i] = x]],
         item[m][i].status \in Open => x.status \in Open,
         x.silent = item[m][i].silent
  PROVE  Quiet(m)
<1>1. run[m] \in RunState /\ item[m] \in [Items -> ItemState]
  BY Parts
<1>2. run' = [run EXCEPT ![m] = run[m]]
  BY Kept
<1>3. HopOk(run[m], item[m])
  BY DEF Local
<1>4. \A j \in Items : [item[m] EXCEPT ![i] = x][j].silent = item[m][j].silent
  BY <1>1
<1>5. HopOk(run[m], [item[m] EXCEPT ![i] = x])
  BY <1>3, <1>4 DEF HopOk
<1> QED
  BY <1>1, <1>2, <1>5, ItemMoves

LEMMA ItemStatesKept ==
  ASSUME NEW s \in ItemState, NEW status \in ItemStatuses, NEW revise \in BOOLEAN
  PROVE  /\ Becomes(s, status) \in ItemState
         /\ Becomes(s, status).status = status
         /\ Becomes(s, status).silent = s.silent
         /\ Becomes(s, status).sentBack = s.sentBack
         /\ Blocked(s, revise) \in ItemState
         /\ Blocked(s, revise).status = "blocked"
         /\ Blocked(s, revise).silent = s.silent
BY DEF Becomes, Blocked, ItemState, ItemStatuses

(* What an end of an attempt does to an item and its row.                  *)
LEMMA EndsKept ==
  ASSUME NEW s \in ItemState, NEW n \in 0..HopLimit
  PROVE  /\ s.silent < NoResultLimit => Ends(s) \in ItemState
         /\ Ends(s).status = s.status
         /\ Fails(s) \in ItemState /\ Fails(s).status = s.status
         /\ [s EXCEPT !.failures = n] \in ItemState
         /\ [s EXCEPT !.failures = n].status = s.status
         /\ [s EXCEPT !.failures = n].silent = s.silent
<1>1. 0 \in 0..NoResultLimit
  BY BoundAssumption
<1>2. s.silent < NoResultLimit => CountSilence(s.silent) \in 0..NoResultLimit
  BY BoundAssumption DEF CountSilence, ItemState
<1>3. /\ s.silent < NoResultLimit => Ends(s) \in ItemState
      /\ Ends(s).status = s.status
  BY <1>1, <1>2 DEF Ends, ItemState
<1>4. Fails(s) \in ItemState /\ Fails(s).status = s.status
  BY <1>1 DEF Fails, ItemState
<1>5. /\ [s EXCEPT !.failures = n] \in ItemState
      /\ [s EXCEPT !.failures = n].status = s.status
      /\ [s EXCEPT !.failures = n].silent = s.silent
  BY DEF ItemState
<1> QED
  BY <1>3, <1>4, <1>5

(* A loop with nothing in hand.                                            *)
LEMMA FreeIsRun ==
  ASSUME NEW pc \in {"idle", "pick", "recover", "strand"}, NEW todo \in SUBSET Items,
         NEW died \in BOOLEAN, NEW resumeAt \in BOOLEAN
  PROVE  /\ Free(pc, todo, died) \in RunState /\ Off(died, resumeAt) \in RunState
         /\ \A f : HopOk(Free(pc, todo, died), f) /\ HopOk(Off(died, resumeAt), f)
<1>1. /\ Off(died, resumeAt) \in RunState /\ Off(died, FALSE) \in RunState
      /\ Off(died, resumeAt).pc = "off"
  BY BoundAssumption DEF Off, RunState, NoOne
<1>2. Free(pc, todo, died) \in RunState /\ Free(pc, todo, died).pc = pc
  BY <1>1 DEF Free, RunState
<1> QED
  BY <1>1, <1>2 DEF HopOk

-----------------------------------------------------------------------------
(* Starting and stopping, and the rounds of the loop.                      *)

LEMMA StopKeeps ==
  ASSUME TypeOK, NEW m \in Missions, Local(m), NEW died \in BOOLEAN, NEW resumeAt \in BOOLEAN,
         Stop(m, died, resumeAt), UNCHANGED <<mission, item>>
  PROVE  Quiet(m)
<1>1. Off(died, resumeAt) \in RunState /\ HopOk(Off(died, resumeAt), item[m])
  BY FreeIsRun
<1> QED
  BY <1>1, LoopMoves DEF Stop

LEMMA LeaveKeeps ==
  ASSUME TypeOK, NEW m \in Missions, Local(m), Leave(m), UNCHANGED <<mission, item>>
  PROVE  Quiet(m)
<1>1. run[m].died \in BOOLEAN
  BY Parts DEF RunState
<1> QED
  BY <1>1, StopKeeps DEF Leave

LEMMA FreeKeeps ==
  ASSUME TypeOK, NEW m \in Missions, Local(m), NEW pc \in {"idle", "pick", "recover", "strand"},
         NEW todo \in SUBSET Items, NEW died \in BOOLEAN,
         run' = [run EXCEPT ![m] = Free(pc, todo, died)], UNCHANGED <<mission, item>>
  PROVE  Quiet(m)
<1>1. Free(pc, todo, died) \in RunState /\ HopOk(Free(pc, todo, died), item[m])
  BY FreeIsRun
<1> QED
  BY <1>1, LoopMoves

LEMMA GotoKeeps ==
  ASSUME TypeOK, NEW m \in Missions, Local(m), UNCHANGED <<mission, item>>,
         NEW pc \in {"call", "begin", "coordinate", "settle"}, Goto(m, pc)
  PROVE  Quiet(m)
<1>1. run[m] \in RunState
  BY Parts
<1>2. [run[m] EXCEPT !.pc = pc] \in RunState
  BY <1>1 DEF RunState
<1>3. [run[m] EXCEPT !.pc = pc].pc = pc
  BY <1>1 DEF RunState
<1>4. HopOk([run[m] EXCEPT !.pc = pc], item[m])
  BY <1>3 DEF HopOk
<1>5. run' = [run EXCEPT ![m] = [run[m] EXCEPT !.pc = pc]]
  BY DEF Goto
<1> QED
  BY <1>2, <1>4, <1>5, LoopMoves

LEMMA RunMissionKeeps ==
  ASSUME TypeOK, NEW m \in Missions, Local(m), RunMission(m)
  PROVE  Quiet(m)
BY FreeKeeps DEF RunMission, StartRun

(* What died is blocked and stays open.                                    *)
LEMMA PrepareResumeKeeps ==
  ASSUME TypeOK, NEW m \in Missions, Local(m), PrepareResume(m)
  PROVE  Quiet(m)
<1> DEFINE f == [i \in Items |-> IF DiedOut(m, i) THEN Blocked(item[m][i], TRUE) ELSE item[m][i]]
           r == Free("idle", {}, FALSE)
<1>1. mission[m] \in MissionState /\ item[m] \in [Items -> ItemState]
  BY Parts
<1>2. \A i \in Items : /\ f[i] \in ItemState
                       /\ f[i].status \in Open <=> item[m][i].status \in Open
  <2> SUFFICES ASSUME NEW i \in Items
               PROVE  /\ f[i] \in ItemState
                      /\ f[i].status \in Open <=> item[m][i].status \in Open
    OBVIOUS
  <2>1. CASE DiedOut(m, i)
    <3>1. f[i] = Blocked(item[m][i], TRUE)
      BY <2>1
    <3>2. item[m][i] \in ItemState /\ "blocked" \in ItemStatuses
      BY <1>1 DEF ItemStatuses
    <3>3. /\ Blocked(item[m][i], TRUE) \in ItemState
          /\ Blocked(item[m][i], TRUE).status = "blocked"
      BY <3>2, ItemStatesKept
    <3> QED
      BY <2>1, <3>1, <3>3 DEF DiedOut, Open, Finished
  <2>2. CASE ~DiedOut(m, i)
    BY <1>1, <2>2
  <2> QED
    BY <2>1, <2>2
<1>3. f \in [Items -> ItemState]
  BY <1>2
<1>4. ContractOk(mission[m]) /\ DeliveredOk(mission[m], f)
  BY <1>2 DEF Local, DeliveredOk
<1>5. r \in RunState /\ HopOk(r, f)
  BY FreeIsRun
<1>6. /\ UNCHANGED mission /\ item' = [item EXCEPT ![m] = f]
      /\ run' = [run EXCEPT ![m] = r]
  BY DEF PrepareResume, StartRun
<1>7. mission' = [mission EXCEPT ![m] = mission[m]]
  BY <1>6, Kept
<1>8. Good(m)
  BY <1>1, <1>3, <1>4, <1>5, <1>6, <1>7, Described
<1>9. item'[m] = f
  BY <1>6 DEF TypeOK
<1>10. Opened(f) = Opened(item[m])
  BY <1>2 DEF Opened, Open
<1> QED
  BY <1>6, <1>8, <1>9, <1>10 DEF Quiet, Settling

LEMMA RoundKeeps ==
  ASSUME TypeOK, NEW m \in Missions, Local(m), Round(m)
  PROVE  Quiet(m)
<1>1. \A status : WithStatus(m, status) \in SUBSET Items
  BY DEF WithStatus
<1>2. run[m].died \in BOOLEAN
  BY Parts DEF RunState
<1>3. UNCHANGED <<mission, item>>
  BY DEF Round
<1>4. \/ Stop(m, FALSE, FALSE) \/ Leave(m)
      \/ GotoFree(m, "pick", WithStatus(m, "dispatched"))
      \/ GotoFree(m, "recover", WithStatus(m, "submitted"))
  BY DEF Round
<1> QED
  BY <1>1, <1>2, <1>3, <1>4, StopKeeps, LeaveKeeps, FreeKeeps DEF GotoFree

(* The runs that stop.                                                     *)
LEMMA HaltKeeps ==
  ASSUME TypeOK, NEW m \in Missions, Local(m),
         \/ Halt(m) \/ Unreachable(m) \/ CoordinatorFails(m) \/ \E i \in Items : NoHop(m, i)
  PROVE  Quiet(m)
<1>1. UNCHANGED <<mission, item>>
  BY DEF Halt, Unreachable, CoordinatorFails, NoHop
<1>2. Leave(m) \/ \E died, resumeAt \in BOOLEAN : Stop(m, died, resumeAt)
  BY DEF Halt, Unreachable, CoordinatorFails, NoHop
<1> QED
  BY <1>1, <1>2, StopKeeps, LeaveKeeps

LEMMA CoordinatorRoundKeeps ==
  ASSUME TypeOK, NEW m \in Missions, Local(m),
         \/ StrandDone(m) \/ PickCoordinator(m) \/ StartCoordinator(m)
         \/ EndCoordinator(m) \/ AfterCoordinator(m)
  PROVE  Quiet(m)
<1>1. UNCHANGED <<mission, item>>
  BY DEF StrandDone, PickCoordinator, StartCoordinator, EndCoordinator, AfterCoordinator
<1>2. \/ Leave(m) \/ Stop(m, FALSE, FALSE) \/ GotoFree(m, "idle", {})
      \/ \E pc \in {"call", "begin", "coordinate", "settle"} : Goto(m, pc)
  BY DEF StrandDone, PickCoordinator, StartCoordinator, EndCoordinator, AfterCoordinator
<1>3. run[m].died \in BOOLEAN
  BY Parts DEF RunState
<1> QED
  BY <1>1, <1>2, <1>3, LeaveKeeps, StopKeeps, FreeKeeps, GotoKeeps DEF GotoFree

LEMMA OnwardsKeeps ==
  ASSUME TypeOK, NEW m \in Missions, Local(m), Onwards(m)
  PROVE  \E pc \in {"idle", "recover"}, todo \in SUBSET Items, died \in BOOLEAN :
           run' = [run EXCEPT ![m] = Free(pc, todo, died)]
<1>1. WithStatus(m, "submitted") \in SUBSET Items /\ {} \in SUBSET Items
  BY DEF WithStatus
<1>2. run[m].died \in BOOLEAN
  BY Parts DEF RunState
<1>3. CASE run[m].handoff
  BY <1>1, <1>3 DEF Onwards
<1>4. CASE ~run[m].handoff
  BY <1>1, <1>2, <1>4 DEF Onwards, GotoFree
<1> QED
  BY <1>3, <1>4

LEMMA PickDoneKeeps ==
  ASSUME TypeOK, NEW m \in Missions, Local(m), PickDone(m) \/ RecoverDone(m)
  PROVE  Quiet(m)
<1>1. UNCHANGED <<mission, item>>
  BY DEF PickDone, RecoverDone
<1>2. WithStatus(m, "dispatched") \in SUBSET Items /\ run[m].died \in BOOLEAN
  BY Parts DEF WithStatus, RunState
<1>3. CASE PickDone(m)
  BY <1>1, <1>3, OnwardsKeeps, FreeKeeps DEF PickDone
<1>4. CASE RecoverDone(m)
  BY <1>1, <1>2, <1>4, FreeKeeps DEF RecoverDone, GotoFree
<1> QED
  BY <1>3, <1>4

LEMMA PickItemKeeps ==
  ASSUME TypeOK, NEW m \in Missions, Local(m), NEW i \in Items, PickItem(m, i)
  PROVE  Quiet(m)
<1> DEFINE r == [run[m] EXCEPT !.pc = "start", !.item = i, !.slot = mission[m].rev,
                               !.failed = item[m][i].failures, !.todo = Done(m, i)]
<1>1. run[m] \in RunState /\ mission[m].rev \in 0..MaxRev /\ item[m][i].failures \in 0..HopLimit
  BY Parts DEF MissionState, ItemState
<1>2. UNCHANGED <<mission, item>>
  BY DEF PickItem
<1>3. ASSUME Stop(m, TRUE, FALSE) \/ Stop(m, FALSE, FALSE) PROVE Quiet(m)
  BY <1>2, <1>3, StopKeeps
<1>4. ASSUME ~Stop(m, TRUE, FALSE), ~Stop(m, FALSE, FALSE) PROVE Quiet(m)
  <2>1. run' = [run EXCEPT ![m] = r]
    BY <1>4 DEF PickItem
  <2>2. Done(m, i) \in SUBSET Items
    BY <1>1 DEF Done, RunState
  <2>3. r \in RunState /\ r.pc = "start" /\ r.item = i
    BY <1>1, <2>2 DEF RunState
  <2>4. item[m][i].silent < NoResultLimit
    BY DEF PickItem, MayPick
  <2>5. HopOk(r, item[m])
    BY <2>3, <2>4 DEF HopOk
  <2> QED
    BY <1>2, <2>1, <2>3, <2>5, LoopMoves
<1> QED
  BY <1>3, <1>4

LEMMA StallItemKeeps ==
  ASSUME TypeOK, NEW m \in Missions, Local(m), NEW i \in Items, StallItem(m, i)
  PROVE  Quiet(m)
<1> DEFINE r == [run[m] EXCEPT !.todo = Done(m, i), !.handoff = TRUE]
           x == Blocked(item[m][i], TRUE)
<1>1. run[m] \in RunState /\ item[m] \in [Items -> ItemState] /\ item[m][i] \in ItemState
  BY Parts
<1>2. run' = [run EXCEPT ![m] = r]
  BY DEF StallItem
<1>3. Done(m, i) \in SUBSET Items
  BY <1>1 DEF Done, RunState
<1>4. r \in RunState /\ r.pc = run[m].pc
  BY <1>1, <1>3 DEF RunState
<1>5. r.pc = "pick"
  BY <1>4 DEF StallItem, At
<1>6. \A f : HopOk(r, f)
  BY <1>5 DEF HopOk
<1>7. UNCHANGED mission
  BY DEF StallItem
<1>8. CASE item[m][i].status = "dispatched"
  <2>1. item' = [item EXCEPT ![m] = [item[m] EXCEPT ![i] = x]]
    BY <1>8 DEF StallItem
  <2>2. x \in ItemState
    BY <1>1, ItemStatesKept DEF ItemStatuses
  <2>3. item[m][i].status \notin Open
    BY <1>8 DEF Open, Finished
  <2> QED
    BY <1>2, <1>4, <1>6, <1>7, <2>1, <2>2, <2>3, ItemMoves
<1>9. CASE item[m][i].status # "dispatched"
  <2>1. item' = item
    BY <1>9 DEF StallItem
  <2> QED
    BY <1>2, <1>4, <1>6, <1>7, <2>1, LoopMoves
<1> QED
  BY <1>8, <1>9

(* The item of a hop.                                                      *)
LEMMA HopItem ==
  ASSUME TypeOK, NEW m \in Missions, Local(m),
         run[m].pc \in {"start", "execute", "after", "fail"}
  PROVE  /\ run[m] \in RunState /\ item[m] \in [Items -> ItemState]
         /\ run[m].item \in Items /\ item[m][run[m].item] \in ItemState
         /\ run[m].pc \in {"start", "execute"} => item[m][run[m].item].silent < NoResultLimit
BY Parts DEF Local, HopOk

LEMMA StartExecutorKeeps ==
  ASSUME TypeOK, NEW m \in Missions, Local(m), StartExecutor(m)
  PROVE  Quiet(m)
<1> DEFINE i == run[m].item
           x == [item[m][i] EXCEPT !.tried = "now"]
           r == [run[m] EXCEPT !.pc = "execute"]
<1>1. run[m].pc = "start" /\ UNCHANGED mission
  BY DEF StartExecutor, At
<1>2. /\ run[m] \in RunState /\ item[m] \in [Items -> ItemState] /\ i \in Items
      /\ item[m][i] \in ItemState /\ item[m][i].silent < NoResultLimit
  BY <1>1, HopItem
<1>3. ASSUME Leave(m), UNCHANGED item PROVE Quiet(m)
  BY <1>1, <1>3, LeaveKeeps
<1>4. ASSUME Goto(m, "execute"), item' = [item EXCEPT ![m][i].tried = "now"] PROVE Quiet(m)
  <2>1. item' = [item EXCEPT ![m] = [item[m] EXCEPT ![i] = x]]
    BY <1>4
  <2>2. x \in ItemState /\ x.status = item[m][i].status /\ x.silent = item[m][i].silent
    BY <1>2 DEF ItemState
  <2>3. run' = [run EXCEPT ![m] = r] /\ r \in RunState /\ r.pc = "execute" /\ r.item = i
    BY <1>2, <1>4 DEF Goto, RunState
  <2>4. HopOk(r, [item[m] EXCEPT ![i] = x])
    BY <1>2, <2>2, <2>3 DEF HopOk
  <2> QED
    BY <1>1, <1>2, <2>1, <2>2, <2>3, <2>4, ItemMoves
<1> QED
  BY <1>3, <1>4 DEF StartExecutor

(* The hop of an executor is over, its item as open as it was.             *)
LEMMA HopEnds ==
  ASSUME TypeOK, NEW m \in Missions, Local(m), NEW i \in Items, NEW x \in ItemState,
         NEW died \in BOOLEAN, NEW resumeAt \in BOOLEAN,
         NEW pc \in {"idle", "pick", "recover", "strand"}, NEW todo \in SUBSET Items,
         UNCHANGED mission, item' = [item EXCEPT ![m][i] = x],
         \/ Stop(m, died, resumeAt)
         \/ run' = [run EXCEPT ![m] = Free(pc, todo, died)],
         item[m][i].status \in Open => x.status \in Open
  PROVE  Quiet(m)
<1>1. item' = [item EXCEPT ![m] = [item[m] EXCEPT ![i] = x]]
  OBVIOUS
<1>2. PICK r \in RunState : run' = [run EXCEPT ![m] = r] /\ \A f : HopOk(r, f)
  BY FreeIsRun DEF Stop
<1> QED
  BY <1>1, <1>2, ItemMoves

(* The attempt is over, the hop is not.                                    *)
LEMMA AttemptEnds ==
  ASSUME TypeOK, NEW m \in Missions, Local(m), At(m, "execute"), NEW x \in ItemState,
         NEW pc \in {"after", "fail"},
         UNCHANGED mission, item' = [item EXCEPT ![m][run[m].item] = x], Goto(m, pc),
         x.status = item[m][run[m].item].status
  PROVE  Quiet(m)
<1> DEFINE i == run[m].item
           r == [run[m] EXCEPT !.pc = pc]
<1>1. run[m] \in RunState /\ i \in Items
  BY HopItem DEF At
<1>2. item' = [item EXCEPT ![m] = [item[m] EXCEPT ![i] = x]]
  OBVIOUS
<1>3. r \in RunState /\ r.pc = pc /\ r.item = i
  BY <1>1 DEF RunState
<1>4. HopOk(r, [item[m] EXCEPT ![i] = x])
  BY <1>1, <1>3 DEF HopOk
<1>5. run' = [run EXCEPT ![m] = r]
  BY DEF Goto
<1> QED
  BY <1>1, <1>2, <1>3, <1>4, <1>5, ItemMoves

LEMMA EndExecutorKeeps ==
  ASSUME TypeOK, NEW m \in Missions, Local(m), EndExecutor(m) \/ FailExecutor(m)
  PROVE  Quiet(m)
<1> DEFINE old == item[m][run[m].item]
<1>1. At(m, "execute") /\ UNCHANGED mission
  BY DEF EndExecutor, FailExecutor
<1>2. old \in ItemState /\ old.silent < NoResultLimit /\ 0 \in 0..HopLimit
  BY <1>1, HopItem, BoundAssumption DEF At
<1>3. CASE EndExecutor(m)
  <2>1. Ends(old) \in ItemState /\ Ends(old).status = old.status
    BY <1>2, EndsKept
  <2>2. NoRow(Ends(old)) \in ItemState /\ NoRow(Ends(old)).status = old.status
    BY <1>2, <2>1, EndsKept DEF NoRow
  <2>3. item' = [item EXCEPT ![m][run[m].item] = NoRow(Ends(old))] /\ Goto(m, "after")
    BY <1>3 DEF EndExecutor
  <2> QED
    BY <1>1, <2>2, <2>3, AttemptEnds
<1>4. CASE FailExecutor(m)
  <2>1. Fails(old) \in ItemState /\ Fails(old).status = old.status
    BY <1>2, EndsKept
  <2>2. item' = [item EXCEPT ![m][run[m].item] = Fails(old)] /\ Goto(m, "fail")
    BY <1>4 DEF FailExecutor
  <2> QED
    BY <1>1, <2>1, <2>2, AttemptEnds
<1> QED
  BY <1>3, <1>4

LEMMA CheckpointKeeps ==
  ASSUME TypeOK, NEW m \in Missions, Local(m), CheckpointFails(m)
  PROVE  Quiet(m)
<1> DEFINE i == run[m].item
           old == item[m][i]
<1>1. run[m].pc = "execute" /\ UNCHANGED mission
  BY DEF CheckpointFails, At
<1>2. i \in Items /\ old \in ItemState /\ old.silent < NoResultLimit /\ 0 \in 0..HopLimit
  BY <1>1, HopItem, BoundAssumption
<1>3. Ends(old) \in ItemState /\ Ends(old).status = old.status
  BY <1>2, EndsKept
<1>4. item' = [item EXCEPT ![m][i] = Ends(old)] /\ Stop(m, FALSE, FALSE)
  BY DEF CheckpointFails
<1> QED
  BY <1>1, <1>2, <1>3, <1>4, HopEnds

(* An item that the wall clock blocks was open and stays so.               *)
LEMMA KillExecutorKeeps ==
  ASSUME TypeOK, NEW m \in Missions, Local(m), KillExecutor(m)
  PROVE  Quiet(m)
<1> DEFINE i == run[m].item
           old == item[m][i]
           left == IF old.status = "dispatched" THEN Blocked(old, TRUE) ELSE old
<1>1. run[m].pc = "execute" /\ UNCHANGED mission
  BY DEF KillExecutor, At
<1>2. i \in Items /\ old \in ItemState /\ 0 \in 0..HopLimit
  BY <1>1, HopItem, BoundAssumption
<1>3. left \in ItemState /\ (old.status \in Open => left.status \in Open)
  BY <1>2, ItemStatesKept DEF ItemStatuses, Open, Finished
<1>4. Fails(left) \in ItemState /\ Fails(left).status = left.status
  BY <1>2, <1>3, EndsKept
<1>5. item' = [item EXCEPT ![m][i] = Fails(left)] /\ Stop(m, TRUE, TRUE)
  BY DEF KillExecutor
<1> QED
  BY <1>1, <1>2, <1>3, <1>4, <1>5, HopEnds

LEMMA RowKept ==
  ASSUME NEW m \in Missions, NEW s \in ItemState, NEW n \in 0..HopLimit
  PROVE  Row(m, s, n) \in ItemState /\ Row(m, s, n).status = s.status
BY EndsKept DEF Row

(* A failure is counted on the row, or the row is given back.              *)
LEMMA FailureKeeps ==
  ASSUME TypeOK, NEW m \in Missions, Local(m), RetryHop(m) \/ DeadLetter(m) \/ GiveBack(m)
  PROVE  Quiet(m)
<1> DEFINE i == run[m].item
           old == item[m][i]
           n == run[m].failed + 1
<1>1. run[m].pc = "fail" /\ UNCHANGED mission
  BY DEF RetryHop, DeadLetter, GiveBack, At
<1>2. i \in Items /\ old \in ItemState /\ 0 \in 0..HopLimit /\ HopLimit \in 0..HopLimit
  BY <1>1, HopItem, BoundAssumption
<1>3. CASE RetryHop(m)
  <2>1. n \in 0..HopLimit
    BY <1>3, Parts, BoundAssumption DEF RetryHop, RunState
  <2>2. Row(m, old, n) \in ItemState /\ Row(m, old, n).status = old.status
    BY <1>2, <2>1, RowKept
  <2>3. item' = [item EXCEPT ![m][i] = Row(m, old, n)]
    BY <1>3 DEF RetryHop
  <2>4. CASE Onwards(m)
    BY <1>1, <1>2, <2>2, <2>3, <2>4, OnwardsKeeps, HopEnds
  <2>5. CASE Stop(m, FALSE, TRUE)
    BY <1>1, <1>2, <2>2, <2>3, <2>5, HopEnds
  <2> QED
    BY <1>3, <2>4, <2>5 DEF RetryHop
<1>4. CASE DeadLetter(m)
  <2>1. Row(m, old, HopLimit) \in ItemState /\ Row(m, old, HopLimit).status = old.status
    BY <1>2, RowKept
  <2>2. item' = [item EXCEPT ![m][i] = Row(m, old, HopLimit)] /\ Stop(m, TRUE, TRUE)
    BY <1>4 DEF DeadLetter
  <2> QED
    BY <1>1, <1>2, <2>1, <2>2, HopEnds
<1>5. CASE GiveBack(m)
  <2>1. NoRow(old) \in ItemState /\ NoRow(old).status = old.status
    BY <1>2, EndsKept DEF NoRow
  <2>2. /\ item' = [item EXCEPT ![m][i] = NoRow(old)]
        /\ Stop(m, FALSE, TRUE) \/ Stop(m, TRUE, FALSE)
    BY <1>5 DEF GiveBack
  <2> QED
    BY <1>1, <1>2, <2>1, <2>2, HopEnds
<1> QED
  BY <1>3, <1>4, <1>5

(* An item that is sent back was under review, and a reason is counted     *)
(* only below its limit.                                                   *)
LEMMA SentBackKept ==
  ASSUME TypeOK, NEW m \in Missions, NEW i \in Items, MaySendBack(m, i)
  PROVE  /\ SentBack(item[m][i]) \in ItemState
         /\ item[m][i].status \notin Open
<1> DEFINE s == item[m][i]
           b == Becomes(s, "dispatched")
           counts == [s.sentBack EXCEPT ![s.report] = @ + 1]
<1>1. s \in ItemState
  BY Parts
<1>2. s.report \in Reasons /\ s.sentBack[s.report] < RedispatchLimit
  BY DEF MaySendBack
<1>3. s.sentBack \in [Reasons -> 0..RedispatchLimit]
  BY <1>1 DEF ItemState
<1>4. s.sentBack[s.report] + 1 \in 0..RedispatchLimit
  BY <1>2, <1>3, BoundAssumption
<1>5. counts \in [Reasons -> 0..RedispatchLimit]
  BY <1>2, <1>3, <1>4
<1>6. b \in ItemState /\ b.sentBack = s.sentBack
  <2>1. "dispatched" \in ItemStatuses
    BY DEF ItemStatuses
  <2> QED
    BY <1>1, <2>1, ItemStatesKept
<1>7. SentBack(s) = [b EXCEPT !.byMachine = TRUE, !.sentBack = counts]
  BY Zenon DEF SentBack
<1>8. SentBack(s) \in ItemState
  BY <1>5, <1>6, <1>7 DEF ItemState
<1>9. s.status \notin Open
  BY DEF MaySendBack, Open, Finished
<1> QED
  BY <1>8, <1>9

LEMMA SendBackKeeps ==
  ASSUME TypeOK, NEW m \in Missions, Local(m), NEW i \in Items, NEW r \in RunState,
         SendBack(m, i), UNCHANGED mission, run' = [run EXCEPT ![m] = r],
         r.pc \notin {"start", "execute", "after", "fail"}
  PROVE  Quiet(m)
<1>1. \A f : HopOk(r, f)
  BY DEF HopOk
<1>2. CASE MaySendBack(m, i)
  <2>1. item' = [item EXCEPT ![m] = [item[m] EXCEPT ![i] = SentBack(item[m][i])]]
    BY <1>2 DEF SendBack
  <2> QED
    BY <1>1, <1>2, <2>1, SentBackKept, ItemMoves
<1>3. CASE ~MaySendBack(m, i)
  <2>1. item' = item
    BY <1>3 DEF SendBack
  <2> QED
    BY <1>1, <2>1, LoopMoves
<1> QED
  BY <1>2, <1>3

LEMMA AfterExecutorKeeps ==
  ASSUME TypeOK, NEW m \in Missions, Local(m), AfterExecutor(m)
  PROVE  Quiet(m)
<1> DEFINE r == [run[m] EXCEPT !.pc = "pick", !.item = NoOne, !.slot = 0, !.failed = 0]
<1>1. run[m] \in RunState
  BY Parts
<1>2. run[m].item \in Items
  BY DEF HopOk, Local, AfterExecutor, At
<1>3. r \in RunState /\ r.pc = "pick"
  <2>1. 0 \in 0..MaxRev /\ 0 \in 0..HopLimit
    BY BoundAssumption
  <2> QED
    BY <1>1, <2>1 DEF RunState
<1>4. SendBack(m, run[m].item) /\ UNCHANGED mission /\ run' = [run EXCEPT ![m] = r]
  BY DEF AfterExecutor
<1> QED
  BY <1>2, <1>3, <1>4, SendBackKeeps

LEMMA RecoverKeeps ==
  ASSUME TypeOK, NEW m \in Missions, Local(m), NEW i \in Items, Recover(m, i)
  PROVE  Quiet(m)
<1> DEFINE resent == run[m].resent \/ MaySendBack(m, i)
           r == [run[m] EXCEPT !.todo = Done(m, i), !.resent = resent]
<1>1. run[m] \in RunState
  BY Parts
<1>2. Done(m, i) \in SUBSET Items
  BY <1>1 DEF Done, RunState
<1>3. resent \in BOOLEAN
  BY <1>1 DEF RunState
<1>4. r \in RunState /\ r.pc = run[m].pc
  BY <1>1, <1>2, <1>3 DEF RunState
<1>5. r.pc = "recover"
  BY <1>4 DEF Recover, At
<1>6. SendBack(m, i) /\ UNCHANGED mission /\ run' = [run EXCEPT ![m] = r]
  BY DEF Recover
<1> QED
  BY <1>4, <1>5, <1>6, SendBackKeeps

LEMMA StrandKeeps ==
  ASSUME TypeOK, NEW m \in Missions, Local(m), NEW i \in Items, Strand(m, i)
  PROVE  Quiet(m)
<1> DEFINE r == [run[m] EXCEPT !.todo = Done(m, i)]
           x == Blocked(item[m][i], FALSE)
<1>1. run[m] \in RunState /\ item[m][i] \in ItemState
  BY Parts
<1>2. Done(m, i) \in SUBSET Items
  BY <1>1 DEF Done, RunState
<1>3. r \in RunState /\ r.pc = run[m].pc
  BY <1>1, <1>2 DEF RunState
<1>4. r.pc = "strand"
  BY <1>3 DEF Strand, At
<1>5. \A f : HopOk(r, f)
  BY <1>4 DEF HopOk
<1>6. UNCHANGED mission /\ run' = [run EXCEPT ![m] = r]
  BY DEF Strand
<1>7. CASE item' = item
  BY <1>3, <1>5, <1>6, <1>7, LoopMoves
<1>8. CASE item' # item
  <2>1. /\ item' = [item EXCEPT ![m] = [item[m] EXCEPT ![i] = x]]
        /\ item[m][i].status = "dispatched"
    BY <1>8 DEF Strand
  <2>2. x \in ItemState
    BY <1>1, ItemStatesKept DEF ItemStatuses
  <2>3. item[m][i].status \notin Open
    BY <2>1 DEF Open, Finished
  <2> QED
    BY <1>3, <1>5, <1>6, <2>1, <2>2, <2>3, ItemMoves
<1> QED
  BY <1>7, <1>8

-----------------------------------------------------------------------------
(* Calls about one work item.                                              *)

LEMMA CreateWorkItemKeeps ==
  ASSUME TypeOK, NEW m \in Missions, Local(m), NEW i \in Items, CreateWorkItem(m, i)
  PROVE  Quiet(m)
<1> DEFINE x == [item[m][i] EXCEPT !.status = "created"]
<1>1. item[m][i] \in ItemState
  BY Parts
<1>2. x \in ItemState /\ x.status \in Open /\ x.silent = item[m][i].silent
  BY <1>1 DEF ItemState, ItemStatuses, Open
<1>3. item' = [item EXCEPT ![m] = [item[m] EXCEPT ![i] = x]] /\ UNCHANGED <<mission, run>>
  BY DEF CreateWorkItem
<1> QED
  BY <1>2, <1>3, CallMoves

LEMMA ReviseWorkOrderKeeps ==
  ASSUME TypeOK, NEW m \in Missions, Local(m), NEW i \in Items, ReviseWorkOrder(m, i)
  PROVE  Quiet(m)
<1> DEFINE x == [item[m][i] EXCEPT !.revise = FALSE]
<1>1. item[m][i] \in ItemState
  BY Parts
<1>2. /\ x \in ItemState
      /\ x.status = item[m][i].status /\ x.silent = item[m][i].silent
  BY <1>1 DEF ItemState
<1>3. item' = [item EXCEPT ![m] = [item[m] EXCEPT ![i] = x]] /\ UNCHANGED <<mission, run>>
  BY DEF ReviseWorkOrder
<1> QED
  BY <1>2, <1>3, CallMoves

(* A review, a retirement and the calls of an executor find the item in a  *)
(* status that is not open, or leave it in one that is.                    *)
LEMMA StatusMovesKeep ==
  ASSUME TypeOK, NEW m \in Missions, Local(m), NEW i \in Items,
         NEW x \in ItemState, x.silent = item[m][i].silent,
         item[m][i].status \notin Open \/ x.status \in Open,
         item' = [item EXCEPT ![m][i] = x], UNCHANGED <<mission, run>>
  PROVE  Quiet(m)
<1>1. item' = [item EXCEPT ![m] = [item[m] EXCEPT ![i] = x]]
  OBVIOUS
<1> QED
  BY <1>1, CallMoves

LEMMA ReviewKeeps ==
  ASSUME TypeOK, NEW m \in Missions, Local(m), NEW i \in Items,
         NEW verdict \in {"accepted", "rejected"}, ReviewExecutionResult(m, i, verdict)
  PROVE  Quiet(m)
<1> DEFINE x == Becomes(item[m][i], verdict)
<1>1. item[m][i] \in ItemState /\ verdict \in ItemStatuses
  BY Parts DEF ItemStatuses
<1>2. x \in ItemState /\ x.silent = item[m][i].silent
  BY <1>1, ItemStatesKept
<1>3. item[m][i].status \notin Open
  BY DEF ReviewExecutionResult, Open, Finished
<1>4. item' = [item EXCEPT ![m][i] = x] /\ UNCHANGED <<mission, run>>
  BY DEF ReviewExecutionResult
<1> QED
  BY <1>2, <1>3, <1>4, StatusMovesKeep

LEMMA RetireKeeps ==
  ASSUME TypeOK, NEW m \in Missions, Local(m), NEW i \in Items, RetireWorkItem(m, i)
  PROVE  Quiet(m)
<1> DEFINE x == Becomes(item[m][i], "retired")
<1>1. item[m][i] \in ItemState /\ "retired" \in ItemStatuses
  BY Parts DEF ItemStatuses
<1>2. x \in ItemState /\ x.silent = item[m][i].silent /\ x.status = "retired"
  BY <1>1, ItemStatesKept
<1>3. x.status \in Open
  BY <1>2 DEF Open, Finished
<1>4. item' = [item EXCEPT ![m][i] = x] /\ UNCHANGED <<mission, run>>
  BY DEF RetireWorkItem
<1> QED
  BY <1>2, <1>3, <1>4, StatusMovesKeep

LEMMA ExecutorCallKeeps ==
  ASSUME TypeOK, NEW m \in Missions, Local(m), ExecutorCall(m)
  PROVE  Quiet(m)
<1> DEFINE i == run[m].item
           old == item[m][i]
<1>1. At(m, "execute") /\ old.status = "dispatched" /\ UNCHANGED <<mission, run>>
  BY DEF ExecutorCall, SubmitExecutionResult, ReportBlocked
<1>2. i \in Items
  BY <1>1 DEF HopOk, Local, At
<1>3. old \in ItemState
  BY <1>2, Parts
<1>4. old.status \notin Open
  BY <1>1 DEF Open, Finished
<1>5. ASSUME ReportBlocked(m) PROVE Quiet(m)
  <2>1. item' = [item EXCEPT ![m][i] = Blocked(old, TRUE)]
    BY <1>5 DEF ReportBlocked
  <2>2. "blocked" \in ItemStatuses
    BY DEF ItemStatuses
  <2> QED
    BY <1>1, <1>2, <1>3, <1>4, <2>1, <2>2, ItemStatesKept, StatusMovesKeep
<1>6. ASSUME NEW report \in Reports, SubmitExecutionResult(m, report) PROVE Quiet(m)
  <2> DEFINE b == Becomes(old, "submitted")
             revise == old.revise \/ report \in {"partial", "blocked"}
             x == [b EXCEPT !.report = report, !.revise = revise]
  <2>1. "submitted" \in ItemStatuses
    BY DEF ItemStatuses
  <2>2. b \in ItemState /\ b.silent = old.silent
    BY <1>3, <2>1, ItemStatesKept
  <2>3. revise \in BOOLEAN
    BY <1>3 DEF ItemState
  <2>4. x \in ItemState /\ x.silent = old.silent
    BY <2>2, <2>3 DEF ItemState
  <2>5. x = Submitted(old, report)
    BY Zenon DEF Submitted
  <2>6. item' = [item EXCEPT ![m][i] = x]
    BY <1>6, <2>5 DEF SubmitExecutionResult
  <2> QED
    BY <1>1, <1>2, <1>4, <2>4, <2>6, StatusMovesKeep
<1> QED
  BY <1>5, <1>6 DEF ExecutorCall

-----------------------------------------------------------------------------
(* Calls about the Mission.                                                *)

(* A Mission that keeps its status, its contract and its result, and holds *)
(* the slot no more than before.                                           *)
LEMMA FlagsMove ==
  ASSUME TypeOK, NEW m \in Missions, Local(m), NEW s \in MissionState,
         s.status = mission[m].status, s.rev = mission[m].rev, s.result = mission[m].result,
         s.checked \in {mission[m].checked, s.rev},
         mission' = [mission EXCEPT ![m] = s], UNCHANGED <<item, run>>,
         Holds(s) => Holds(mission[m]) \/ ~OtherMutates(m)
  PROVE  Good(m)
<1>1. s.rev <= s.rev
  BY BoundAssumption DEF MissionState
<1>2. ContractOk(s)
  BY <1>1 DEF Local, ContractOk
<1>3. DeliveredOk(s, item[m])
  BY DEF Local, DeliveredOk
<1> QED
  BY <1>2, <1>3, MissionMoves

LEMMA FlagCallsKeep ==
  ASSUME TypeOK, NEW m \in Missions, Local(m),
         SubmitContractCheck(m) \/ PauseMission(m) \/ ParkMission(m)
  PROVE  Good(m)
<1> DEFINE old == mission[m]
<1>1. old \in MissionState
  BY Parts
<1>2. UNCHANGED <<item, run>>
  BY DEF SubmitContractCheck, PauseMission, ParkMission
<1>3. ASSUME SubmitContractCheck(m) PROVE Good(m)
  <2> DEFINE s == [old EXCEPT !.checked = old.rev]
  <2>1. old.rev \in 0..MaxRev
    BY <1>1 DEF MissionState
  <2>2. /\ s \in MissionState /\ s.status = old.status /\ s.rev = old.rev
        /\ s.result = old.result /\ s.checked = s.rev /\ (Holds(s) => Holds(old))
    BY <1>1, <2>1 DEF MissionState, Holds
  <2>3. mission' = [mission EXCEPT ![m] = s]
    BY <1>3 DEF SubmitContractCheck
  <2> QED
    BY <1>2, <2>2, <2>3, FlagsMove
<1>4. ASSUME PauseMission(m) PROVE Good(m)
  <2> DEFINE s == [old EXCEPT !.paused = TRUE]
  <2>1. /\ s \in MissionState /\ s.status = old.status /\ s.rev = old.rev
        /\ s.result = old.result /\ s.checked = old.checked /\ (Holds(s) => Holds(old))
    BY <1>1 DEF MissionState, Holds
  <2>2. mission' = [mission EXCEPT ![m] = s]
    BY <1>4 DEF PauseMission
  <2> QED
    BY <1>2, <2>1, <2>2, FlagsMove
<1>5. ASSUME ParkMission(m) PROVE Good(m)
  <2> DEFINE s == [old EXCEPT !.parked = TRUE]
  <2>1. /\ s \in MissionState /\ s.status = old.status /\ s.rev = old.rev
        /\ s.result = old.result /\ s.checked = old.checked /\ ~Holds(s)
    BY <1>1 DEF MissionState, Holds
  <2>2. mission' = [mission EXCEPT ![m] = s]
    BY <1>5 DEF ParkMission
  <2> QED
    BY <1>2, <2>1, <2>2, FlagsMove
<1> QED
  BY <1>3, <1>4, <1>4, <1>5

(* Resuming a parked Mission claims the slot again.                        *)
LEMMA ResumeKeeps ==
  ASSUME TypeOK, NEW m \in Missions, Local(m), ResumeMission(m) \/ ResumeParkedMission(m)
  PROVE  Good(m)
<1> DEFINE old == mission[m]
           s(paused) == [old EXCEPT !.paused = paused, !.parked = FALSE]
<1>1. old \in MissionState /\ old.paused \in BOOLEAN
  BY Parts DEF MissionState
<1>2. old.parked => ~OtherMutates(m)
  BY DEF ResumeMission, ResumeParkedMission, MayUnpark
<1>3. \A p \in BOOLEAN :
        /\ s(p) \in MissionState /\ s(p).status = old.status /\ s(p).rev = old.rev
        /\ s(p).result = old.result /\ s(p).checked = old.checked
        /\ s(p).mutated = old.mutated
  BY <1>1 DEF MissionState
<1>4. \A p \in BOOLEAN : Holds(s(p)) => Holds(old) \/ ~OtherMutates(m)
  BY <1>2, <1>3 DEF Holds
<1>5. ASSUME ResumeMission(m) PROVE mission' = [mission EXCEPT ![m] = s(FALSE)]
  BY <1>5 DEF ResumeMission
<1>6. ASSUME ResumeParkedMission(m) PROVE mission' = [mission EXCEPT ![m] = s(old.paused)]
  <2>1. s(old.paused) = [old EXCEPT !.parked = FALSE]
    BY <1>1 DEF MissionState
  <2>2. mission' = [mission EXCEPT ![m] = [old EXCEPT !.parked = FALSE]]
    BY <1>6 DEF ResumeParkedMission
  <2> QED
    BY <2>1, <2>2
<1>7. PICK p \in BOOLEAN : mission' = [mission EXCEPT ![m] = s(p)]
  BY <1>1, <1>5, <1>6
<1>8. UNCHANGED <<item, run>>
  BY DEF ResumeMission, ResumeParkedMission
<1> QED
  BY <1>3, <1>4, <1>7, <1>8, FlagsMove

(* A dispatch leaves a Mission that executes the contract it checked; it   *)
(* holds the slot already, or finds it free.                               *)
LEMMA DispatchKeeps ==
  ASSUME TypeOK, NEW m \in Missions, Local(m), NEW S \in SUBSET Items, DispatchWorkItems(m, S)
  PROVE  Good(m)
<1> DEFINE old == mission[m]
           s == [old EXCEPT !.status = "executing", !.mutated = TRUE]
           f == [i \in Items |-> IF i \in S THEN Becomes(item[m][i], "dispatched") ELSE item[m][i]]
<1>1. old \in MissionState /\ item[m] \in [Items -> ItemState] /\ run[m] \in RunState
  BY Parts
<1>2. /\ s \in MissionState /\ s.status = "executing"
      /\ s.checked = old.checked /\ s.rev = old.rev /\ s.parked = old.parked
  BY <1>1 DEF MissionState, Statuses
<1>3. "dispatched" \in ItemStatuses
  BY DEF ItemStatuses
<1>4. \A i \in Items : f[i] \in ItemState /\ f[i].silent = item[m][i].silent
  BY <1>1, <1>3, ItemStatesKept
<1>5. f \in [Items -> ItemState]
  BY <1>4
<1>6. old.checked = old.rev /\ old.rev <= old.rev
  BY <1>1, BoundAssumption DEF DispatchWorkItems, ReadyToDispatch, MissionState
<1>7. ContractOk(s) /\ DeliveredOk(s, f)
  BY <1>2, <1>6 DEF ContractOk, DeliveredOk
<1>8. HopOk(run[m], f)
  BY <1>4 DEF HopOk, Local
<1>9. Mutating(m) \/ ~OtherMutates(m)
  BY DEF DispatchWorkItems
<1>10. Holds(s) => Holds(old) \/ ~OtherMutates(m)
  BY <1>9 DEF Mutating, Holds, Ended
<1>11. mission' = [mission EXCEPT ![m] = s] /\ item' = [item EXCEPT ![m] = f] /\ UNCHANGED run
  BY DEF DispatchWorkItems
<1>12. run' = [run EXCEPT ![m] = run[m]]
  BY <1>11, Kept
<1> QED
  BY <1>1, <1>2, <1>5, <1>7, <1>8, <1>10, <1>11, <1>12, Described

(* A delivered result is written when no item is open.                     *)
LEMMA ResultIsFinished ==
  ASSUME NEW m \in Missions, NEW outcome, outcome = "delivered" => MayDeliver(m),
         NEW s, s.result.outcome = outcome
  PROVE  DeliveredOk(s, item[m])
BY DEF DeliveredOk, MayDeliver, Open

LEMMA SubmitResultKeeps ==
  ASSUME TypeOK, NEW m \in Missions, Local(m), NEW outcome \in {"delivered", "blocked"},
         SubmitMissionResult(m, outcome)
  PROVE  Good(m)
<1> DEFINE old == mission[m]
           result == [outcome |-> outcome, rev |-> old.rev]
           s == [old EXCEPT !.status = "awaiting_review", !.result = result]
<1>1. old \in MissionState
  BY Parts
<1>2. result \in Results
  BY <1>1 DEF Results, MissionState
<1>3. /\ s \in MissionState /\ s.status = "awaiting_review" /\ s.result = result
      /\ s.rev = old.rev /\ s.checked = old.checked
      /\ s.mutated = old.mutated /\ s.parked = old.parked
  BY <1>1, <1>2 DEF MissionState, Statuses
<1>4. ContractOk(s)
  BY <1>3 DEF ContractOk, Local
<1>5. s.result.outcome = outcome
  BY <1>3
<1>6. DeliveredOk(s, item[m])
  BY <1>5, ResultIsFinished DEF SubmitMissionResult
<1>7. old.status \notin Terminal
  BY DEF SubmitMissionResult, CanGoTo, MayGoTo, Terminal
<1>8. Holds(s) => Holds(old)
  BY <1>3, <1>7 DEF Holds
<1>9. mission' = [mission EXCEPT ![m] = s] /\ UNCHANGED <<item, run>>
  BY DEF SubmitMissionResult
<1> QED
  BY <1>3, <1>4, <1>6, <1>8, <1>9, MissionMoves

(* Leaving the review, or giving up: no claim and nothing to check.        *)
LEMMA EntersKeeps ==
  ASSUME TypeOK, NEW m \in Missions, Local(m), NEW s \in MissionState,
         s.status \in {"completed", "planning", "blocked"},
         s.mutated = mission[m].mutated, s.parked = mission[m].parked,
         s.rev = mission[m].rev, s.checked = mission[m].checked,
         ~Ended(m), mission' = [mission EXCEPT ![m] = s], UNCHANGED <<item, run>>
  PROVE  Good(m)
<1>1. ContractOk(s) /\ DeliveredOk(s, item[m])
  BY DEF ContractOk, DeliveredOk, Local
<1>2. Holds(s) => Holds(mission[m])
  BY DEF Holds, Ended
<1> QED
  BY <1>1, <1>2, MissionMoves

LEMMA EntersIsState ==
  ASSUME NEW s \in MissionState, NEW status \in Statuses
  PROVE  /\ Enters(s, status) \in MissionState /\ Enters(s, status).status = status
         /\ Enters(s, status).mutated = s.mutated /\ Enters(s, status).parked = s.parked
         /\ Enters(s, status).rev = s.rev /\ Enters(s, status).checked = s.checked
<1>1. NoResult \in Results
  BY BoundAssumption DEF NoResult, Results
<1> QED
  BY <1>1 DEF Enters, MissionState

LEMMA ReviseContractKeeps ==
  ASSUME TypeOK, NEW m \in Missions, Local(m), ReviseContract(m)
  PROVE  Good(m)
<1> DEFINE old == mission[m]
           back == IF old.status \in StaleStatuses THEN Enters(old, "planning") ELSE old
           s == [back EXCEPT !.rev = old.rev + 1]
           f == [i \in Items |-> NoRow(item[m][i])]
<1>1. old \in MissionState /\ item[m] \in [Items -> ItemState] /\ run[m] \in RunState
  BY Parts
<1>2. "planning" \in Statuses
  BY DEF Statuses
<1>3. /\ back \in MissionState /\ back.mutated = old.mutated /\ back.parked = old.parked
      /\ back.checked = old.checked
  BY <1>1, <1>2, EntersIsState
<1>4. back.status \notin StaleStatuses \cup Terminal
  <2>1. old.status \notin Terminal
    BY DEF ReviseContract, Ended
  <2>2. Enters(old, "planning").status = "planning"
    BY <1>1, <1>2, EntersIsState
  <2> QED
    BY <2>1, <2>2 DEF StaleStatuses, Terminal
<1>5. old.rev + 1 \in 1..MaxRev
  BY <1>1, BoundAssumption DEF ReviseContract, MissionState
<1>6. /\ s \in MissionState /\ s.status = back.status
      /\ s.mutated = back.mutated /\ s.parked = back.parked
      /\ s.rev = old.rev + 1 /\ s.checked = old.checked
  BY <1>3, <1>5 DEF MissionState
<1>7. ContractOk(s) /\ DeliveredOk(s, f)
  <2>1. old.checked <= old.rev + 1
    BY <1>1, BoundAssumption DEF Local, ContractOk, MissionState
  <2>2. QED
    BY <1>3, <1>4, <1>6, <2>1 DEF ContractOk, DeliveredOk, StaleStatuses
<1>8. Holds(s) => Holds(old)
  BY <1>3, <1>6 DEF Holds, ReviseContract, Ended
<1>9. \A i \in Items : f[i] \in ItemState /\ f[i].silent = item[m][i].silent
  <2>1. 0 \in 0..HopLimit
    BY BoundAssumption
  <2> QED
    BY <1>1, <2>1, EndsKept DEF NoRow
<1>10. f \in [Items -> ItemState] /\ HopOk(run[m], f)
  BY <1>9 DEF HopOk, Local
<1>11. mission' = [mission EXCEPT ![m] = s] /\ item' = [item EXCEPT ![m] = f] /\ UNCHANGED run
  BY Zenon DEF ReviseContract, Revised
<1>12. run' = [run EXCEPT ![m] = run[m]]
  BY <1>11, Kept
<1> QED
  BY <1>1, <1>6, <1>7, <1>8, <1>10, <1>11, <1>12, Described

LEMMA FinalReviewKeeps ==
  ASSUME TypeOK, NEW m \in Missions, Local(m), NEW status \in {"completed", "planning", "blocked"},
         FinalReview(m, status)
  PROVE  Good(m)
<1> DEFINE s == Enters(mission[m], status)
<1>1. mission[m] \in MissionState /\ status \in Statuses
  BY Parts DEF Statuses, Terminal
<1>2. /\ s \in MissionState /\ s.status = status
      /\ s.mutated = mission[m].mutated /\ s.parked = mission[m].parked
      /\ s.rev = mission[m].rev /\ s.checked = mission[m].checked
  BY <1>1, EntersIsState
<1>3. ~Ended(m)
  BY DEF FinalReview, Ended, Terminal
<1>4. mission' = [mission EXCEPT ![m] = s] /\ UNCHANGED <<item, run>>
  BY DEF FinalReview
<1> QED
  BY <1>2, <1>3, <1>4, EntersKeeps

LEMMA CancelKeeps ==
  ASSUME TypeOK, NEW m \in Missions, Local(m), CancelMission(m)
  PROVE  Good(m)
<1> DEFINE s == Enters(mission[m], "blocked")
<1>1. mission[m] \in MissionState /\ "blocked" \in Statuses
  BY Parts DEF Statuses, Terminal
<1>2. /\ s \in MissionState /\ s.status = "blocked"
      /\ s.mutated = mission[m].mutated /\ s.parked = mission[m].parked
      /\ s.rev = mission[m].rev /\ s.checked = mission[m].checked
  BY <1>1, EntersIsState
<1>3. ~Ended(m)
  BY DEF CancelMission, CanGoTo, MayGoTo, Ended, Terminal
<1>4. mission' = [mission EXCEPT ![m] = s] /\ UNCHANGED <<item, run>>
  BY DEF CancelMission
<1> QED
  BY <1>2, <1>3, <1>4, EntersKeeps

-----------------------------------------------------------------------------
(* Every step of a Mission is one of these.                                *)
LEMMA QuietStepKeeps ==
  ASSUME TypeOK, NEW m \in Missions, Local(m),
         \/ LoopStep(m) \/ ExecutorCall(m) \/ RunMission(m) \/ PrepareResume(m) \/ Halt(m)
         \/ KillExecutor(m)
         \/ \E i \in Items :
              \/ CreateWorkItem(m, i) \/ ReviseWorkOrder(m, i) \/ RetireWorkItem(m, i)
              \/ \E verdict \in {"accepted", "rejected"} : ReviewExecutionResult(m, i, verdict)
  PROVE  Quiet(m)
<1>1. ASSUME LoopStep(m) PROVE Quiet(m)
  BY <1>1, RoundKeeps, StallItemKeeps, PickItemKeeps, HaltKeeps, StartExecutorKeeps,
     EndExecutorKeeps, CheckpointKeeps, FailureKeeps, AfterExecutorKeeps, PickDoneKeeps,
     RecoverKeeps, StrandKeeps, CoordinatorRoundKeeps
     DEF LoopStep
<1>2. CASE \/ RunMission(m) \/ PrepareResume(m) \/ Halt(m) \/ KillExecutor(m)
           \/ ExecutorCall(m)
  BY <1>2, RunMissionKeeps, PrepareResumeKeeps, HaltKeeps, KillExecutorKeeps, ExecutorCallKeeps
<1> QED
  BY <1>1, <1>2, CreateWorkItemKeeps, ReviseWorkOrderKeeps, RetireKeeps, ReviewKeeps

LEMMA MissionStepKeeps ==
  ASSUME TypeOK, NEW m \in Missions, Local(m),
         LoopStep(m) \/ CoordinatorCall(m) \/ ExecutorCall(m) \/ Control(m)
  PROVE  Good(m)
<1>1. CASE LoopStep(m) \/ ExecutorCall(m)
  BY <1>1, QuietStepKeeps DEF Quiet
<1>2. CASE CoordinatorCall(m)
  BY <1>2, QuietStepKeeps, FlagCallsKeep, DispatchKeeps, SubmitResultKeeps
     DEF CoordinatorCall, Quiet
<1>3. CASE Control(m)
  BY <1>3, QuietStepKeeps, FlagCallsKeep, ReviseContractKeeps, FinalReviewKeeps, CancelKeeps,
     ResumeKeeps
     DEF Control, Quiet
<1> QED
  BY <1>1, <1>2, <1>3

(* A step of one Mission keeps what all of them keep.                      *)
LEMMA GoodKeeps ==
  ASSUME IInv, NEW m \in Missions, Good(m)
  PROVE  IInv'
<1>1. TypeOK'
  BY DEF Good, Changed, IInv, TypeOK
<1>2. ASSUME NEW n \in Missions, n # m
      PROVE  mission'[n] = mission[n] /\ item'[n] = item[n] /\ run'[n] = run[n]
  BY <1>2 DEF Good, Changed, IInv, TypeOK
<1>3. ASSUME NEW n \in Missions PROVE Local(n)'
  <2>1. CASE n = m
    BY <2>1 DEF Good, LocalNext, Local
  <2>2. CASE n # m
    BY <1>2, <2>2 DEF Local, IInv, ContractOk, DeliveredOk, HopOk
  <2> QED
    BY <2>1, <2>2
<1>4. OneMutatingMission'
  <2>1. \A n \in Missions : Mutating(n) <=> Holds(mission[n])
    BY DEF Mutating, Holds, Ended
  <2>2. \A n \in Missions : Mutating(n)' <=> Holds(mission'[n])
    BY DEF Mutating, Holds, Ended
  <2>3. ASSUME NEW n \in Missions, n # m, Holds(mission'[n])
        PROVE  ~Holds(mission'[m])
    <3>1. Mutating(n)
      BY <1>2, <2>1, <2>3
    <3>2. OtherMutates(m)
      BY <2>3, <3>1 DEF OtherMutates
    <3>3. ~Mutating(m)
      BY <2>3, <3>1 DEF IInv, OneMutatingMission
    <3> QED
      BY <2>1, <3>2, <3>3 DEF Good, Claims
  <2>4. ASSUME NEW k \in Missions, NEW n \in Missions, k # m, n # m,
               Holds(mission'[k]), Holds(mission'[n])
        PROVE  k = n
    BY <1>2, <2>1, <2>4 DEF IInv, OneMutatingMission
  <2> QED
    BY <2>2, <2>3, <2>4 DEF OneMutatingMission
<1> QED
  BY <1>1, <1>3, <1>4 DEF IInv

LEMMA InitIsGood == Init => IInv
<1> SUFFICES ASSUME Init PROVE IInv
  OBVIOUS
<1>1. NoItem \in ItemState
  <2>1. 0 \in 0..NoResultLimit /\ 0 \in 0..RedispatchLimit /\ 0 \in 0..HopLimit
    BY BoundAssumption
  <2>2. [r \in Reasons |-> 0] \in [Reasons -> 0..RedispatchLimit]
    BY <2>1
  <2> QED
    BY <2>1, <2>2 DEF NoItem, ItemState, ItemStatuses
<1>2. [status |-> "investigating", mutated |-> FALSE, parked |-> FALSE, paused |-> FALSE,
       rev |-> 1, checked |-> 0, result |-> NoResult] \in MissionState
  BY BoundAssumption DEF MissionState, Statuses, NoResult, Results
<1>3. TypeOK
  <2>1. Off(FALSE, FALSE) \in RunState
    BY FreeIsRun
  <2> QED
    BY <1>1, <1>2, <2>1 DEF Init, TypeOK
<1>4. \A m \in Missions : /\ mission[m].status = "investigating" /\ ~mission[m].mutated
                             /\ mission[m].checked = 0 /\ mission[m].rev = 1
  BY DEF Init
<1>5. \A m \in Missions : run[m].pc = "off"
  BY DEF Init, Off
<1>6. \A m \in Missions : Local(m)
  BY <1>4, <1>5 DEF Local, ContractOk, DeliveredOk, HopOk
<1>7. OneMutatingMission
  BY <1>4 DEF OneMutatingMission, Mutating
<1> QED
  BY <1>3, <1>6, <1>7 DEF IInv

LEMMA StepKeeps == IInv /\ [Next]_vars => IInv'
<1> SUFFICES ASSUME IInv, [Next]_vars PROVE IInv'
  OBVIOUS
<1>1. CASE Next
  <2>1. PICK m \in Missions :
          LoopStep(m) \/ CoordinatorCall(m) \/ ExecutorCall(m) \/ Control(m)
    BY <1>1 DEF Next
  <2>2. TypeOK /\ Local(m)
    BY DEF IInv
  <2>3. Good(m)
    BY <2>1, <2>2, MissionStepKeeps
  <2> QED
    BY <2>3, GoodKeeps
<1>2. CASE UNCHANGED vars
  <2>1. mission' = mission /\ item' = item /\ run' = run
    BY <1>2 DEF vars
  <2> QED
    BY <2>1 DEF IInv, TypeOK, Local, ContractOk, DeliveredOk, HopOk, OneMutatingMission,
                Mutating, Ended
<1> QED
  BY <1>1, <1>2

LEMMA AlwaysGood == Spec => []IInv
BY InitIsGood, StepKeeps, PTL DEF Spec

-----------------------------------------------------------------------------
(* The types the code gives its Missions, items and loops.                 *)
THEOREM TypeCorrect == Spec => []TypeOK
BY AlwaysGood, PTL DEF IInv

(* Invariant C: whatever the number of Missions, at most one of them holds *)
(* code that has not landed.  The guard of a dispatch and the claim of a   *)
(* resumed Mission are enough, because each is one transaction.            *)
THEOREM OneLane == Spec => []OneMutatingMission
BY AlwaysGood, PTL DEF IInv

(* No call of L3, an operator or an agent opens an item behind a delivered *)
(* result that awaits its review.                                          *)
THEOREM DeliveredFinished == Spec => []DeliveredIsFinished
<1>1. IInv => DeliveredIsFinished
  BY DEF IInv, Local, DeliveredOk, Open, DeliveredIsFinished
<1> QED
  BY <1>1, AlwaysGood, PTL

(* A result under review belongs to the contract in force: a revision      *)
(* sends the Mission back, and no call records an older result again.      *)
THEOREM CurrentContract == Spec => []ReviewedUnderCurrentContract
<1>1. IInv => ReviewedUnderCurrentContract
  BY DEF IInv, Local, ContractOk, ReviewedUnderCurrentContract
<1> QED
  BY <1>1, AlwaysGood, PTL

(* A Mission executes only under a contract its coordinator has checked.   *)
THEOREM CheckedContract == Spec => []ExecutesCheckedContract
<1>1. IInv => ExecutesCheckedContract
  BY DEF IInv, Local, ContractOk, ExecutesCheckedContract
<1> QED
  BY <1>1, AlwaysGood, PTL

-----------------------------------------------------------------------------
(* The Missions implement ReviewedWork.  A step of one Mission changes what *)
(* L3 sees of that Mission, and nothing of the others.                     *)

LEMMA SeenAs ==
  ASSUME TypeOK, NEW m \in Missions, Changed(m)
  PROVE  /\ Stages' = [Stages EXCEPT ![m] = Stage(mission'[m])]
         /\ OpenItems' = [OpenItems EXCEPT ![m] = Opened(item'[m])]
         /\ Cleared' = IF mission'[m].checked = mission'[m].rev
                       THEN Cleared \cup {m} ELSE Cleared \ {m}
         /\ Coded' = IF mission'[m].mutated THEN Coded \cup {m} ELSE Coded \ {m}
         /\ Holds(mission'[m]) => Lane' = Lane \cup {m}
         /\ ~Holds(mission'[m]) => Lane' = Lane \ {m}
<1>1. \A n \in Missions \ {m} : mission'[n] = mission[n] /\ item'[n] = item[n]
  BY DEF Changed, TypeOK
<1>2. Stages' = [Stages EXCEPT ![m] = Stage(mission'[m])]
  BY <1>1 DEF Stages
<1>3. OpenItems' = [OpenItems EXCEPT ![m] = Opened(item'[m])]
  BY <1>1 DEF OpenItems
<1>4. Cleared' = IF mission'[m].checked = mission'[m].rev THEN Cleared \cup {m} ELSE Cleared \ {m}
  BY <1>1 DEF Cleared
<1>5. Coded' = IF mission'[m].mutated THEN Coded \cup {m} ELSE Coded \ {m}
  BY <1>1 DEF Coded
<1>6. /\ Holds(mission'[m]) => Lane' = Lane \cup {m}
      /\ ~Holds(mission'[m]) => Lane' = Lane \ {m}
  <2>1. /\ \A n \in Missions : n \in Lane <=> Holds(mission[n])
        /\ \A n \in Missions : n \in Lane' <=> Holds(mission'[n])
    BY DEF Lane, Mutating, Ended, Holds
  <2>2. Lane \in SUBSET Missions /\ Lane' \in SUBSET Missions
    BY DEF Lane
  <2>3. QED
    BY <1>1, <2>1, <2>2
<1>7. QED
  BY <1>2, <1>3, <1>4, <1>5, <1>6

(* What a step leaves alone of its Mission, it leaves alone.               *)
LEMMA NotSeen ==
  ASSUME TypeOK, NEW m \in Missions, Changed(m)
  PROVE  /\ Stage(mission'[m]) = Stage(mission[m]) => UNCHANGED Stages
         /\ Opened(item'[m]) = Opened(item[m]) => UNCHANGED OpenItems
         /\ (/\ mission'[m].checked = mission[m].checked
             /\ mission'[m].rev = mission[m].rev) => UNCHANGED Cleared
         /\ mission'[m].mutated = mission[m].mutated => UNCHANGED Coded
         /\ (Holds(mission'[m]) <=> Holds(mission[m])) => UNCHANGED Lane
<1>1. Stage(mission'[m]) = Stage(mission[m]) => UNCHANGED Stages
  BY SeenAs DEF Stages
<1>2. Opened(item'[m]) = Opened(item[m]) => UNCHANGED OpenItems
  BY SeenAs DEF OpenItems
<1>3. (mission'[m].checked = mission[m].checked /\ mission'[m].rev = mission[m].rev)
        => UNCHANGED Cleared
  BY SeenAs DEF Cleared
<1>4. mission'[m].mutated = mission[m].mutated => UNCHANGED Coded
  BY SeenAs DEF Coded
<1>5. (Holds(mission'[m]) <=> Holds(mission[m])) => UNCHANGED Lane
  <2>1. m \in Lane <=> Holds(mission[m])
    BY DEF Lane, Mutating, Ended, Holds
  <2>2. QED
    BY <2>1, SeenAs
<1>6. QED
  BY <1>1, <1>2, <1>3, <1>4, <1>5

Seen == <<Stages, Cleared, OpenItems, Coded, Lane>>

(* A step that leaves the Mission alone settles an item, or is nothing to  *)
(* L3.                                                                     *)
LEMMA SettlingSeen ==
  ASSUME TypeOK, NEW m \in Missions, Changed(m), Settling(m)
  PROVE  Review!Next \/ UNCHANGED Seen
<1>1. UNCHANGED <<Stages, Cleared, Coded, Lane>>
  <2>1. mission'[m] = mission[m]
    BY DEF Settling
  <2>2. QED
    BY <2>1, NotSeen
<1>2. CASE Opened(item'[m]) = Opened(item[m])
  BY <1>1, <1>2, NotSeen DEF Seen
<1>3. ASSUME NEW i \in Items, Opened(item'[m]) = Opened(item[m]) \ {i}
      PROVE  Review!Next \/ UNCHANGED Seen
  <2>1. OpenItems' = [OpenItems EXCEPT ![m] = OpenItems[m] \ {i}]
    BY <1>3, SeenAs DEF OpenItems
  <2>2. Review!Settle(m, i)
    BY <1>1, <2>1 DEF Review!Settle
  <2>3. QED
    BY <2>2 DEF Review!Next
<1>4. QED
  BY <1>2, <1>3 DEF Settling

-----------------------------------------------------------------------------
(* The calls about a Mission, one by one.                                  *)

LEMMA OnlyMissionSeen ==
  ASSUME TypeOK, NEW m \in Missions, Changed(m), UNCHANGED item
  PROVE  UNCHANGED OpenItems
BY NotSeen

(* What the abstract Mission shows of the parts of a concrete one.         *)
LEMMA SameStage ==
  ASSUME NEW s, NEW t, s.status = t.status, s.rev = t.rev, s.result = t.result
  PROVE  Stage(s) = Stage(t)
BY Zenon DEF Stage

LEMMA SameSeen ==
  ASSUME TypeOK, NEW m \in Missions, Changed(m), UNCHANGED item,
         mission'[m].status = mission[m].status, mission'[m].rev = mission[m].rev,
         mission'[m].result = mission[m].result, mission'[m].checked = mission[m].checked,
         mission'[m].mutated = mission[m].mutated
  PROVE  /\ UNCHANGED <<Stages, Cleared, OpenItems, Coded>>
         /\ mission'[m].parked = mission[m].parked => UNCHANGED Lane
<1>1. Stage(mission'[m]) = Stage(mission[m])
  BY SameStage
<1>2. UNCHANGED <<Stages, Cleared, OpenItems, Coded>>
  BY <1>1, NotSeen
<1>3. ASSUME mission'[m].parked = mission[m].parked PROVE UNCHANGED Lane
  BY <1>3, NotSeen DEF Holds
<1>4. QED
  BY <1>2, <1>3

(* A Mission over, and one that is not.                                    *)
LEMMA StageOver ==
  ASSUME TypeOK, NEW m \in Missions, ContractOk(mission[m])
  PROVE  /\ Stages[m] = Stage(mission[m])
         /\ Ended(m) <=> Stage(mission[m]) \in Review!Over
         /\ mission[m].status = "awaiting_review" =>
              /\ Stage(mission[m]) = mission[m].result.outcome
              /\ Stage(mission[m]) \in Review!InReview
<1>1. Stages[m] = Stage(mission[m])
  BY DEF Stages
<1>2. mission[m].status \in Statuses /\ mission[m].result.outcome \in {"none", "delivered", "blocked"}
  BY DEF TypeOK, MissionState, Results
<1>3. mission[m].status = "awaiting_review" =>
        /\ Stage(mission[m]) = mission[m].result.outcome
        /\ Stage(mission[m]) \in Review!InReview
  BY <1>2 DEF Stage, ContractOk, Review!InReview
<1>4. Ended(m) <=> Stage(mission[m]) \in Review!Over
  <2>1. CASE mission[m].status = "awaiting_review"
    BY <1>2, <1>3, <2>1 DEF Ended, Terminal, Review!Over
  <2>2. CASE mission[m].status # "awaiting_review"
    BY <1>2, <2>2 DEF Statuses, Stage, Ended, Terminal, Review!Over
  <2>3. QED
    BY <2>1, <2>2
<1>5. QED
  BY <1>1, <1>3, <1>4

LEMMA CheckSeen ==
  ASSUME TypeOK, NEW m \in Missions, Changed(m), SubmitContractCheck(m)
  PROVE  Review!Check(m)
<1> DEFINE s == [mission[m] EXCEPT !.checked = mission[m].rev]
<1>1. mission'[m] = s /\ mission[m] \in MissionState /\ UNCHANGED item
  BY DEF SubmitContractCheck, TypeOK
<1>2. /\ s.status = mission[m].status /\ s.rev = mission[m].rev /\ s.result = mission[m].result
      /\ s.mutated = mission[m].mutated /\ s.parked = mission[m].parked /\ s.checked = s.rev
  BY <1>1 DEF MissionState
<1>3. UNCHANGED <<Stages, OpenItems, Coded, Lane>>
  <2>1. Stage(mission'[m]) = Stage(mission[m])
    BY <1>1, <1>2, SameStage
  <2>2. QED
    BY <1>1, <1>2, <2>1, NotSeen DEF Holds
<1>4. Cleared' = Cleared \cup {m}
  BY <1>1, <1>2, SeenAs
<1>5. QED
  BY <1>3, <1>4 DEF Review!Check

(* A pause is nothing to L3.                                               *)
LEMMA PauseSeen ==
  ASSUME TypeOK, NEW m \in Missions, Changed(m), PauseMission(m)
  PROVE  UNCHANGED Seen
<1>1. mission[m] \in MissionState /\ UNCHANGED item
  BY Parts DEF PauseMission
<1>2. mission'[m] = [mission[m] EXCEPT !.paused = TRUE]
  BY DEF PauseMission, TypeOK
<1>3. /\ mission'[m].status = mission[m].status /\ mission'[m].rev = mission[m].rev
      /\ mission'[m].result = mission[m].result /\ mission'[m].checked = mission[m].checked
      /\ mission'[m].mutated = mission[m].mutated /\ mission'[m].parked = mission[m].parked
  BY <1>1, <1>2 DEF MissionState
<1>4. QED
  BY <1>1, <1>3, SameSeen DEF Seen

LEMMA ParkSeen ==
  ASSUME TypeOK, NEW m \in Missions, Changed(m), ParkMission(m)
  PROVE  Review!SetAside(m)
<1> DEFINE s == [mission[m] EXCEPT !.parked = TRUE]
<1>1. mission'[m] = s /\ mission[m] \in MissionState /\ UNCHANGED item
  BY DEF ParkMission, TypeOK
<1>2. /\ s.status = mission[m].status /\ s.rev = mission[m].rev /\ s.result = mission[m].result
      /\ s.checked = mission[m].checked /\ s.mutated = mission[m].mutated /\ s.parked
  BY <1>1 DEF MissionState
<1>3. UNCHANGED <<Stages, Cleared, OpenItems, Coded>>
  BY <1>1, <1>2, SameSeen
<1>4. Lane' = Lane \ {m}
  BY <1>1, <1>2, SeenAs DEF Holds
<1>5. QED
  BY <1>3, <1>4 DEF Review!SetAside

LEMMA ResumeSeen ==
  ASSUME TypeOK, NEW m \in Missions, ContractOk(mission[m]), Changed(m),
         ResumeMission(m) \/ ResumeParkedMission(m)
  PROVE  Review!TakeUp(m) \/ UNCHANGED Seen
<1> DEFINE old == mission[m]
<1>1. old \in MissionState /\ UNCHANGED item
  BY Parts DEF ResumeMission, ResumeParkedMission
<1>2. \/ mission'[m] = [old EXCEPT !.paused = FALSE, !.parked = FALSE]
      \/ mission'[m] = [old EXCEPT !.parked = FALSE]
  BY DEF ResumeMission, ResumeParkedMission, TypeOK
<1>3. /\ mission'[m].status = old.status /\ mission'[m].rev = old.rev
      /\ mission'[m].result = old.result /\ mission'[m].checked = old.checked
      /\ mission'[m].mutated = old.mutated /\ ~mission'[m].parked
  BY <1>1, <1>2 DEF MissionState
<1>4. UNCHANGED <<Stages, Cleared, OpenItems, Coded>>
  BY <1>1, <1>3, SameSeen
<1>5. CASE Holds(mission'[m]) <=> Holds(old)
  BY <1>4, <1>5, NotSeen DEF Seen
<1>6. CASE ~(Holds(mission'[m]) <=> Holds(old))
  <2>1. old.parked /\ old.mutated /\ ~Ended(m)
    BY <1>3, <1>6 DEF Holds, Ended
  <2>2. ~OtherMutates(m) /\ ~Mutating(m)
    BY <2>1 DEF ResumeMission, ResumeParkedMission, MayUnpark, Mutating
  <2>3. Lane = {}
    BY <2>2 DEF Lane, OtherMutates
  <2>4. Lane' = {m}
    BY <1>3, <2>1, <2>3, SeenAs DEF Holds, Ended
  <2>5. m \in Coded /\ Stages[m] \notin Review!Over
    BY <2>1, StageOver DEF Coded
  <2>6. QED
    BY <1>4, <2>3, <2>4, <2>5 DEF Review!TakeUp
<1>7. QED
  BY <1>5, <1>6

LEMMA DispatchSeen ==
  ASSUME TypeOK, NEW m \in Missions, Changed(m), OneMutatingMission,
         NEW S \in SUBSET Items, DispatchWorkItems(m, S)
  PROVE  Review!SendOut(m, S)
<1> DEFINE old == mission[m]
           s == [old EXCEPT !.status = "executing", !.mutated = TRUE]
<1>1. old \in MissionState /\ item[m] \in [Items -> ItemState]
  BY Parts
<1>2. mission'[m] = s
  BY DEF DispatchWorkItems, TypeOK
<1>3. /\ s.status = "executing" /\ s.rev = old.rev /\ s.checked = old.checked /\ s.mutated
      /\ s.parked = old.parked
  BY <1>1 DEF MissionState
<1>4. Stages[m] \in {"planning", "executing"}
  <2>1. old.status \in {"investigating", "planning", "executing"}
    BY <1>1 DEF DispatchWorkItems, CanGoTo, MayGoTo, Terminal, MissionState, Statuses
  <2>2. QED
    BY <2>1 DEF Stages, Stage
<1>5. m \in Cleared
  BY DEF DispatchWorkItems, ReadyToDispatch, Cleared
<1>6. Lane \subseteq {m}
  BY DEF DispatchWorkItems, Lane, OtherMutates, OneMutatingMission
<1>7. Stages' = [Stages EXCEPT ![m] = "executing"]
  <2>1. Stage(s) = "executing"
    BY <1>3 DEF Stage
  <2>2. QED
    BY <1>2, <2>1, SeenAs
<1>8. OpenItems' = [OpenItems EXCEPT ![m] = OpenItems[m] \cup S]
  <2>1. item'[m] = [i \in Items |->
                      IF i \in S THEN Becomes(item[m][i], "dispatched") ELSE item[m][i]]
    BY DEF DispatchWorkItems, TypeOK
  <2>2. \A i \in Items : item'[m][i] = IF i \in S THEN Becomes(item[m][i], "dispatched")
                                       ELSE item[m][i]
    BY <2>1
  <2>3. \A i \in S : item'[m][i].status = "dispatched"
    <3>1. "dispatched" \in ItemStatuses /\ \A i \in S : item[m][i] \in ItemState
      BY <1>1 DEF ItemStatuses
    <3>2. \A i \in S : Becomes(item[m][i], "dispatched").status = "dispatched"
      BY <3>1, ItemStatesKept
    <3>3. QED
      BY <2>2, <3>2
  <2>4. Opened(item'[m]) = Opened(item[m]) \cup S
    BY <2>2, <2>3 DEF Opened, Finished
  <2>5. QED
    BY <2>4, SeenAs DEF OpenItems
<1>9. Coded' = Coded \cup {m} /\ UNCHANGED Cleared
  BY <1>2, <1>3, SeenAs, NotSeen
<1>10. Lane' \in {Lane, {m}}
  <2>1. CASE Holds(s)
    BY <1>2, <1>6, <2>1, SeenAs
  <2>2. CASE ~Holds(s)
    <3>1. ~Mutating(m)
      BY <1>3, <2>2 DEF Holds, Mutating, Terminal
    <3>2. Lane' = Lane \ {m} /\ m \notin Lane
      BY <1>2, <2>2, <3>1, SeenAs DEF Lane
    <3>3. QED
      BY <3>2
  <2>3. QED
    BY <2>1, <2>2
<1>11. QED
  BY <1>4, <1>5, <1>6, <1>7, <1>8, <1>9, <1>10 DEF Review!SendOut

(* A Mission that enters another stage and keeps its items and its code.   *)
LEMMA EntersSeen ==
  ASSUME TypeOK, NEW m \in Missions, Changed(m), Opened(item'[m]) = Opened(item[m]),
         mission'[m].mutated = mission[m].mutated,
         mission'[m].parked = mission[m].parked,
         ~Ended(m)
  PROVE  /\ UNCHANGED <<OpenItems, Coded>>
         /\ Stages' = [Stages EXCEPT ![m] = Stage(mission'[m])]
         /\ mission'[m].status \notin Terminal => UNCHANGED Lane
         /\ mission'[m].status \in Terminal => Lane' = Lane \ {m}
<1>1. UNCHANGED <<OpenItems, Coded>>
  BY NotSeen
<1>2. mission'[m].status \notin Terminal => (Holds(mission'[m]) <=> Holds(mission[m]))
  BY DEF Holds, Ended
<1>3. mission'[m].status \in Terminal => ~Holds(mission'[m])
  BY DEF Holds
<1>4. QED
  BY <1>1, <1>2, <1>3, SeenAs, NotSeen

LEMMA PutForwardSeen ==
  ASSUME TypeOK, NEW m \in Missions, ContractOk(mission[m]), Changed(m),
         NEW outcome \in {"delivered", "blocked"}, SubmitMissionResult(m, outcome)
  PROVE  Review!PutForward(m, outcome)
<1> DEFINE old == mission[m]
           result == [outcome |-> outcome, rev |-> old.rev]
           s == [old EXCEPT !.status = "awaiting_review", !.result = result]
<1>1. old \in MissionState /\ UNCHANGED item
  BY Parts DEF SubmitMissionResult
<1>2. mission'[m] = s
  BY DEF SubmitMissionResult, TypeOK
<1>3. /\ s.status = "awaiting_review" /\ s.result = result /\ s.rev = old.rev
      /\ s.checked = old.checked /\ s.mutated = old.mutated /\ s.parked = old.parked
  BY <1>1 DEF MissionState
<1>4. Stage(s) = outcome
  <2>1. s.result.rev = s.rev /\ s.result.outcome = outcome
    BY <1>3
  <2>2. QED
    BY <1>3, <2>1, Zenon DEF Stage
<1>5. ~Ended(m)
  BY <1>1 DEF SubmitMissionResult, CanGoTo, MayGoTo, Ended, Terminal
<1>6. "awaiting_review" \notin Terminal
  BY DEF Terminal
<1>7. /\ UNCHANGED <<OpenItems, Coded, Lane>>
      /\ Stages' = [Stages EXCEPT ![m] = outcome]
  BY <1>1, <1>2, <1>3, <1>4, <1>5, <1>6, EntersSeen, ZenonT(40)
<1>8. UNCHANGED Cleared
  BY <1>2, <1>3, NotSeen
<1>9. Stages[m] \notin Review!Over
  BY <1>5, StageOver
<1>10. outcome = "delivered" => OpenItems[m] = {}
  BY DEF SubmitMissionResult, MayDeliver, OpenItems, Opened
<1>11. QED
  BY <1>7, <1>8, <1>9, <1>10 DEF Review!PutForward

LEMMA ReviseSeen ==
  ASSUME TypeOK, NEW m \in Missions, ContractOk(mission[m]), Changed(m), ReviseContract(m)
  PROVE  Review!Revise(m)
<1> DEFINE old == mission[m]
           back == IF old.status \in StaleStatuses THEN Enters(old, "planning") ELSE old
           s == [back EXCEPT !.rev = old.rev + 1]
<1>1. /\ old \in MissionState /\ item[m] \in [Items -> ItemState] /\ ~Ended(m)
      /\ Opened(item'[m]) = Opened(item[m])
  <2>1. old \in MissionState /\ item[m] \in [Items -> ItemState] /\ ~Ended(m)
    BY Parts DEF ReviseContract
  <2>2. item'[m] = [i \in Items |-> NoRow(item[m][i])]
    BY DEF ReviseContract, TypeOK
  <2>3. \A i \in Items : item'[m][i].status = item[m][i].status
    BY <2>1, <2>2 DEF NoRow, ItemState
  <2>4. QED
    BY <2>1, <2>3 DEF Opened
<1>2. mission'[m] = s
  <2>1. mission' = [mission EXCEPT ![m] = s]
    BY Zenon DEF ReviseContract, Revised
  <2>2. QED
    BY <2>1 DEF TypeOK
<1>3. "planning" \in Statuses /\ "planning" \notin StaleStatuses
  BY DEF Statuses, StaleStatuses
<1>4. /\ back \in MissionState /\ back.mutated = old.mutated /\ back.parked = old.parked
      /\ back.checked = old.checked /\ back.status \in {"investigating", "planning"}
  <2>1. CASE old.status \in StaleStatuses
    BY <1>1, <1>3, <2>1, EntersIsState
  <2>2. CASE old.status \notin StaleStatuses
    BY <1>1, <2>2 DEF StaleStatuses, MissionState, Statuses, Ended
  <2>3. QED
    BY <2>1, <2>2
<1>5. /\ s.status = back.status /\ s.mutated = old.mutated /\ s.parked = old.parked
      /\ s.checked = old.checked /\ s.rev = old.rev + 1
  BY <1>4 DEF MissionState
<1>6. Stage(s) = "planning" /\ s.status \notin Terminal
  BY <1>4, <1>5 DEF Stage, Terminal
<1>7. UNCHANGED <<OpenItems, Coded, Lane>> /\ Stages' = [Stages EXCEPT ![m] = "planning"]
  BY <1>1, <1>2, <1>5, <1>6, EntersSeen
<1>8. Cleared' = Cleared \ {m}
  <2>1. s.checked # s.rev
    BY <1>1, <1>5, BoundAssumption DEF ContractOk, MissionState
  <2>2. QED
    BY <1>2, <2>1, SeenAs
<1>9. Stages[m] \notin Review!Over
  BY <1>1, StageOver
<1>10. QED
  BY <1>7, <1>8, <1>9 DEF Review!Revise

LEMMA FinalReviewSeen ==
  ASSUME TypeOK, NEW m \in Missions, ContractOk(mission[m]), Changed(m),
         NEW status \in {"completed", "planning", "blocked"}, FinalReview(m, status)
  PROVE  Review!SendBack(m) \/ Review!Accept(m) \/ Review!GiveUp(m)
<1> DEFINE old == mission[m]
           s == Enters(old, status)
<1>1. old \in MissionState /\ UNCHANGED item /\ old.status = "awaiting_review" /\ ~Ended(m)
  BY Parts DEF FinalReview, Ended, Terminal
<1>2. mission'[m] = s /\ status \in Statuses
  BY DEF FinalReview, TypeOK, Statuses, Terminal
<1>3. /\ s.status = status /\ s.mutated = old.mutated /\ s.parked = old.parked
      /\ s.rev = old.rev /\ s.checked = old.checked
  BY <1>1, <1>2, EntersIsState
<1>4. UNCHANGED Cleared
  BY <1>2, <1>3, NotSeen
<1>5. Stages[m] \in Review!InReview /\ Stages[m] \notin Review!Over
  BY <1>1, StageOver
<1>6. CASE status = "planning"
  <2>1. Stage(s) = "planning" /\ s.status \notin Terminal
    BY <1>3, <1>6 DEF Stage, Terminal
  <2>2. UNCHANGED <<OpenItems, Coded, Lane>> /\ Stages' = [Stages EXCEPT ![m] = "planning"]
    BY <1>1, <1>2, <1>3, <2>1, EntersSeen
  <2>3. QED
    BY <1>4, <1>5, <2>2 DEF Review!SendBack
<1>7. CASE status \in Terminal
  <2>1. Stage(s) = IF status = "completed" THEN "accepted" ELSE "given up"
    BY <1>3, <1>7 DEF Stage, Terminal
  <2>2. /\ UNCHANGED <<OpenItems, Coded>> /\ Lane' = Lane \ {m}
        /\ Stages' = [Stages EXCEPT ![m] = Stage(s)]
    BY <1>1, <1>2, <1>3, <1>7, EntersSeen
  <2>3. QED
    BY <1>4, <1>5, <2>1, <2>2 DEF Review!Accept, Review!GiveUp, Review!End
<1>8. QED
  BY <1>6, <1>7 DEF Terminal

LEMMA CancelSeen ==
  ASSUME TypeOK, NEW m \in Missions, ContractOk(mission[m]), Changed(m), CancelMission(m)
  PROVE  Review!GiveUp(m)
<1> DEFINE old == mission[m]
           s == Enters(old, "blocked")
<1>1. old \in MissionState /\ UNCHANGED item /\ ~Ended(m)
  BY Parts DEF CancelMission, CanGoTo, MayGoTo, Ended, Terminal
<1>2. mission'[m] = s /\ "blocked" \in Statuses
  BY DEF CancelMission, TypeOK, Statuses, Terminal
<1>3. /\ s.status = "blocked" /\ s.mutated = old.mutated /\ s.parked = old.parked
      /\ s.rev = old.rev /\ s.checked = old.checked
  BY <1>1, <1>2, EntersIsState
<1>4. Stage(s) = "given up" /\ s.status \in Terminal
  BY <1>3 DEF Stage, Terminal
<1>5. /\ UNCHANGED <<OpenItems, Coded>> /\ Lane' = Lane \ {m}
      /\ Stages' = [Stages EXCEPT ![m] = "given up"]
  BY <1>1, <1>2, <1>3, <1>4, EntersSeen
<1>6. UNCHANGED Cleared
  BY <1>2, <1>3, NotSeen
<1>7. Stages[m] \notin Review!Over
  BY <1>1, StageOver
<1>8. QED
  BY <1>5, <1>6, <1>7 DEF Review!GiveUp, Review!End

LEMMA StepSeen ==
  ASSUME IInv, NEW m \in Missions,
         LoopStep(m) \/ CoordinatorCall(m) \/ ExecutorCall(m) \/ Control(m)
  PROVE  Review!Next \/ UNCHANGED Seen
<1>1. TypeOK /\ Local(m) /\ ContractOk(mission[m]) /\ OneMutatingMission
  BY DEF IInv, Local
<1>2. Changed(m)
  BY <1>1, MissionStepKeeps DEF Good
<1>3. ASSUME Quiet(m) PROVE Review!Next \/ UNCHANGED Seen
  BY <1>1, <1>2, <1>3, SettlingSeen DEF Quiet
<1>4. CASE LoopStep(m) \/ ExecutorCall(m)
  BY <1>1, <1>3, <1>4, QuietStepKeeps
<1>5. CASE CoordinatorCall(m)
  <2>1. CASE SubmitContractCheck(m)
    BY <1>1, <1>2, <2>1, CheckSeen DEF Review!Next
  <2>2. ASSUME NEW i \in Items,
               \/ CreateWorkItem(m, i) \/ ReviseWorkOrder(m, i)
               \/ \E verdict \in {"accepted", "rejected"} : ReviewExecutionResult(m, i, verdict)
        PROVE  Review!Next \/ UNCHANGED Seen
    BY <1>1, <1>3, <2>2, QuietStepKeeps
  <2>3. ASSUME NEW S \in SUBSET Items, DispatchWorkItems(m, S)
        PROVE  Review!Next \/ UNCHANGED Seen
    BY <1>1, <1>2, <2>3, DispatchSeen DEF Review!Next
  <2>4. ASSUME NEW outcome \in {"delivered", "blocked"}, SubmitMissionResult(m, outcome)
        PROVE  Review!Next \/ UNCHANGED Seen
    BY <1>1, <1>2, <2>4, PutForwardSeen DEF Review!Next, Review!InReview
  <2>5. QED
    BY <1>5, <2>1, <2>2, <2>3, <2>4 DEF CoordinatorCall
<1>6. CASE Control(m)
  <2>1. CASE PauseMission(m)
    BY <1>1, <1>2, <2>1, PauseSeen
  <2>2. CASE \/ RunMission(m) \/ PrepareResume(m) \/ Halt(m) \/ KillExecutor(m)
             \/ \E i \in Items : RetireWorkItem(m, i)
    BY <1>1, <1>3, <2>2, QuietStepKeeps
  <2>3. CASE ParkMission(m)
    BY <1>1, <1>2, <2>3, ParkSeen DEF Review!Next
  <2>4. CASE ResumeMission(m) \/ ResumeParkedMission(m)
    BY <1>1, <1>2, <2>4, ResumeSeen DEF Review!Next
  <2>5. CASE ReviseContract(m) \/ CancelMission(m)
    BY <1>1, <1>2, <2>5, ReviseSeen, CancelSeen DEF Review!Next
  <2>6. ASSUME NEW status \in {"completed", "planning", "blocked"}, FinalReview(m, status)
        PROVE  Review!Next \/ UNCHANGED Seen
    BY <1>1, <1>2, <2>6, FinalReviewSeen DEF Review!Next
  <2>7. QED
    BY <1>6, <2>1, <2>2, <2>3, <2>4, <2>5, <2>6 DEF Control
<1>7. QED
  BY <1>4, <1>5, <1>6

(* What L3 sees of the Missions is the protocol of ReviewedWork, whatever  *)
(* their loops, agents and operators do (mission-contract.ts, lane.ts,     *)
(* mission-lifecycle.ts).                                                  *)
THEOREM Refinement == Spec => ImplementsReview
<1>1. Init => Review!Init
  <2> SUFFICES ASSUME Init PROVE Review!Init
    OBVIOUS
  <2>1. \A m \in Missions : /\ Stage(mission[m]) = "planning" /\ Opened(item[m]) = {}
                            /\ mission[m].checked # mission[m].rev /\ ~mission[m].mutated
    BY DEF Init, Stage, Opened, NoItem
  <2>2. QED
    BY <2>1 DEF Review!Init, Stages, Cleared, OpenItems, Coded, Lane, Mutating
<1>2. IInv /\ [Next]_vars => [Review!Next]_(Review!rvars)
  <2> SUFFICES ASSUME IInv, [Next]_vars PROVE Review!Next \/ UNCHANGED Seen
    BY DEF Review!rvars, Seen
  <2>1. CASE Next
    BY <2>1, StepSeen DEF Next
  <2>2. CASE UNCHANGED vars
    BY <2>2 DEF vars, Seen, Stages, Cleared, OpenItems, Coded, Lane, Mutating, Ended
  <2>3. QED
    BY <2>1, <2>2
<1>3. QED
  BY <1>1, <1>2, AlwaysGood, PTL DEF Spec, Review!Spec, ImplementsReview

=============================================================================
