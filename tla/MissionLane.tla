---------------------------- MODULE MissionLane ----------------------------
(***************************************************************************)
(* The Missions of one project, their work items and the loop that runs    *)
(* each Mission (Orchestrator.runMission).                                 *)
(*                                                                         *)
(* A Mission that has changed code holds the one modification slot of its  *)
(* project until it ends or is parked.  Its loop looks at the Mission and  *)
(* then, several awaits later, runs an executor for every dispatched item  *)
(* or a coordinator.  Agents call the platform while their attempt is in   *)
(* progress; L3 and operators call it at any time.  Every platform call is *)
(* one transaction of FileStateStore, hence one action; a call that throws *)
(* is rolled back and leaves nothing.                                      *)
(*                                                                         *)
(* A run stops with a reason and, if the platform is to go on by itself,   *)
(* a time to resume; the auto-resume then settles what died and runs the   *)
(* Mission again.  The module describes Missions in standard mode with a   *)
(* coordinator, run by this scheduler.  The text of contracts, plans,      *)
(* orders and reviews is left out, and of the gates (tickets, budgets,     *)
(* escalations, rounds) only that they may stop a run (Halt).              *)
(***************************************************************************)
EXTENDS Integers, FiniteSets

CONSTANTS
  Missions,         \* the Missions of the project
  Items,            \* names for the work items of a Mission
  Pausable,         \* the Missions that operators pause in an instance
  Fragile,          \* the items that run into trouble in an instance: that fail, are
                    \* killed, come back or are retired; "none" is the coordinator
  MaxRev,           \* bound on contract revisions
  NoResultLimit,    \* WORK_ITEM_NO_RESULT_LIMIT, per item
  CandidateLimit,   \* CANDIDATE_NO_RESULT_LIMIT, per candidate
  HopLimit,         \* maxAttempts of an executor's queued hop
  Reasons,          \* StandardAutoRedispatchReason: partial work, a red validation
  RedispatchLimit   \* STANDARD_AUTO_REDISPATCH_LIMIT, per reason

ASSUME BoundAssumption ==
  /\ MaxRev \in Nat \ {0} /\ RedispatchLimit \in Nat /\ HopLimit \in Nat \ {0}
  /\ NoResultLimit \in Nat \ {0} /\ CandidateLimit \in 1..NoResultLimit
ASSUME ReasonAssumption == Reasons \subseteq {"partial", "validation_failed"}
ASSUME InstanceAssumption == Pausable \subseteq Missions /\ Fragile \subseteq Items \cup {"none"}

VARIABLES
  mission,   \* [Missions -> MissionState]
  item,      \* [Missions -> [Items -> ItemState]]
  run        \* [Missions -> local state of runMission and its hop, why it stopped]

vars == <<mission, item, run>>

-----------------------------------------------------------------------------
(* Missions.                                                               *)

Terminal == {"completed", "blocked"}
Statuses == {"investigating", "planning", "executing", "awaiting_review"} \cup Terminal

MayGoTo(status) ==
  CASE status = "investigating"   -> {"planning", "executing", "awaiting_review", "blocked"}
    [] status = "planning"        -> {"executing", "awaiting_review", "blocked"}
    [] status = "executing"       -> {"planning", "awaiting_review", "blocked"}
    [] status = "awaiting_review" -> {"completed", "planning", "blocked"}
    [] OTHER                      -> {}

NoResult == [outcome |-> "none", rev |-> 0]
Results  == [outcome: {"none", "delivered", "blocked"}, rev: 0..MaxRev]

(* `checked' is the last revision with a contract check that clears         *)
(* dispatch, `result' the result under review: no one reads it in another   *)
(* status, so it ends with its review.                                      *)
MissionState ==
  [status: Statuses, mutated: BOOLEAN, parked: BOOLEAN, paused: BOOLEAN,
   rev: 1..MaxRev, checked: 0..MaxRev, result: Results]

Ended(m) == mission[m].status \in Terminal
CanGoTo(m, status) == status \in MayGoTo(mission[m].status)

Enters(s, status) == [s EXCEPT !.status = status, !.result = NoResult]

(* Mission.isMutating: it has changed code and has neither ended nor been  *)
(* parked.                                                                 *)
Mutating(m) == mission[m].mutated /\ ~Ended(m) /\ ~mission[m].parked

\* Mutation: a Mission that waits for its review does not count.
OtherMutates_Executing(m) ==
  \E n \in Missions \ {m} : Mutating(n) /\ mission[n].status = "executing"

OtherMutates(m) == \E n \in Missions \ {m} : Mutating(n)

-----------------------------------------------------------------------------
(* Work items.  `report' is what a submission under review says, `revise'  *)
(* that the order must be revised before the next dispatch, `silent' how   *)
(* many attempts at the tail ended without a result and by themselves,     *)
(* `byMachine' that the platform dispatched the item, and `tried' whether  *)
(* it has had an attempt, now or under an earlier dispatch.  Its row in    *)
(* the queue for the contract in force has counted `failures'; at HopLimit *)
(* it is a dead letter.                                                    *)

ItemStatuses ==
  {"absent", "created", "dispatched", "submitted", "accepted", "rejected", "blocked", "retired"}

(* What a submission reports; "green" stands for a complete one that passed *)
(* its validation, "blocked" for one that asks for another order.          *)
Reports == Reasons \cup {"green", "blocked"}

ItemState ==
  [status: ItemStatuses, report: Reports \cup {"none"}, revise: BOOLEAN,
   byMachine: BOOLEAN, silent: 0..NoResultLimit, sentBack: [Reasons -> 0..RedispatchLimit],
   tried: {"never", "earlier", "now"}, failures: 0..HopLimit]

NoItem ==
  [status |-> "absent", report |-> "none", revise |-> FALSE, byMachine |-> FALSE,
   silent |-> 0, sentBack |-> [r \in Reasons |-> 0], tried |-> "never", failures |-> 0]

Dispatchable == {"created", "rejected", "blocked", "accepted"}
Revisable    == {"created", "rejected", "blocked"}
Finished     == {"accepted", "retired"}

\* Submissions and dispatches end with the status; the attempts stay.
Becomes(s, status) ==
  [s EXCEPT !.status = status, !.report = "none", !.byMachine = FALSE,
            !.tried = IF s.tried = "now" THEN "earlier" ELSE s.tried]

Blocked(s, revise) == [Becomes(s, "blocked") EXCEPT !.revise = revise]

WithStatus(m, status) == {i \in Items : item[m][i].status = status}

-----------------------------------------------------------------------------
(* The loop.  pc is where runMission is:                                   *)
(*   off         not running                                               *)
(*   idle        between rounds                                            *)
(*   pick        the executor branch, `todo' the pending items of the view *)
(*   start       a lease is held for `item', the attempt not yet started:  *)
(*               its row is of contract revision `slot' and has counted    *)
(*               `failed'                                                  *)
(*   execute     the executor of `item' works                              *)
(*   after       its attempt has ended by itself                           *)
(*   fail        its attempt has failed                                    *)
(*   recover     submitted items of the view that may be sent back         *)
(*   strand      dispatched items of a Mission that is not executing       *)
(*   call        the coordinator branch                                    *)
(*   begin       a lease is held for the coordinator                       *)
(*   coordinate  the coordinator works                                     *)
(*   settle      its attempt has ended                                     *)
(* `died' is what the wait reason tells prepareAutoResume: that it is      *)
(* attempt_limit_reached or runaway_suspected.  `resumeAt' is whether a    *)
(* run that has stopped is to be resumed at some time.                     *)

NoOne == "none"

RunState ==
  [pc: {"off", "idle", "pick", "start", "execute", "after", "fail", "recover",
        "strand", "call", "begin", "coordinate", "settle"},
   item: Items \cup {NoOne}, slot: 0..MaxRev, failed: 0..HopLimit,
   todo: SUBSET Items, handoff: BOOLEAN, resent: BOOLEAN, died: BOOLEAN, resumeAt: BOOLEAN]

Off(died, resumeAt) ==
  [pc |-> "off", item |-> NoOne, slot |-> 0, failed |-> 0, todo |-> {},
   handoff |-> FALSE, resent |-> FALSE, died |-> died, resumeAt |-> resumeAt]

\* Where the loop stands with nothing in hand.
Free(pc, todo, died) == [Off(died, FALSE) EXCEPT !.pc = pc, !.todo = todo]

At(m, pc) == run[m].pc = pc

Init ==
  /\ mission = [m \in Missions |->
       [status |-> "investigating", mutated |-> FALSE, parked |-> FALSE, paused |-> FALSE,
        rev |-> 1, checked |-> 0, result |-> NoResult]]
  /\ item = [m \in Missions |-> [i \in Items |-> NoItem]]
  /\ run = [m \in Missions |-> Off(FALSE, FALSE)]

Goto(m, pc) == run' = [run EXCEPT ![m].pc = pc]
GotoFree(m, pc, todo) == run' = [run EXCEPT ![m] = Free(pc, todo, run[m].died)]
Stop(m, died, resumeAt) == run' = [run EXCEPT ![m] = Off(died, resumeAt)]

\* The run throws: no reason is written.
Leave(m) == Stop(m, run[m].died, FALSE)
Done(m, i) == run[m].todo \ {i}

-----------------------------------------------------------------------------
(* Starting and stopping.                                                  *)

Running == {"investigating", "planning", "executing"}

\* A new run clears the reason of the last stop.
StartRun(m) == run' = [run EXCEPT ![m] = Free("idle", {}, FALSE)]

\* A person or the queue worker runs the Mission.
RunMission(m) ==
  /\ At(m, "off")
  /\ mission[m].status \in Running
  /\ StartRun(m)
  /\ UNCHANGED <<mission, item>>

(* A dispatched item that has had an attempt has lost its executor to a    *)
(* dead letter or to the wall clock, if that is why the run stopped.  Any  *)
(* attempt of the past will do.                                            *)
DiedOut(m, i) ==
  run[m].died /\ item[m][i].status = "dispatched" /\ item[m][i].tried # "never"

(* prepareAutoResume gives those items to the coordinator, and the Mission *)
(* is run again: when its time has come, or because L3 asked for it.       *)
PrepareResume(m) ==
  /\ At(m, "off")
  /\ mission[m].status \in Running /\ ~mission[m].paused /\ ~mission[m].parked
  /\ item' = [item EXCEPT ![m] =
       [i \in Items |-> IF DiedOut(m, i) THEN Blocked(item[m][i], TRUE) ELSE item[m][i]]]
  /\ StartRun(m)
  /\ UNCHANGED mission

AutoResume(m) == run[m].resumeAt /\ PrepareResume(m)

(* A gate, an open escalation or the limit of rounds stops the run; the    *)
(* gate of tickets is passed again before every item.                      *)
Halt(m) ==
  /\ At(m, "idle") \/ (At(m, "pick") /\ run[m].todo # {})
  /\ Leave(m) \/ Stop(m, FALSE, FALSE)
  /\ UNCHANGED <<mission, item>>

-----------------------------------------------------------------------------
(* Rounds of the loop.                                                     *)

(* The view of the round decides its branch.  Pausing, an ended Mission    *)
(* and one that waits for review stop the run.                             *)
Round(m) ==
  /\ At(m, "idle")
  /\ LET pending == WithStatus(m, "dispatched") IN
     CASE mission[m].paused -> Stop(m, FALSE, FALSE)
       [] ~mission[m].paused /\ mission[m].status \notin Running -> Leave(m)
       [] ~mission[m].paused /\ mission[m].status = "executing" /\ pending # {} ->
            GotoFree(m, "pick", pending)
       [] OTHER -> GotoFree(m, "recover", WithStatus(m, "submitted"))
  /\ UNCHANGED <<mission, item>>

(* blockStalledWorkItem: an item whose last attempts all ended without a   *)
(* result is given up and handed to the coordinator.  Below the limit of   *)
(* the item it is given up when every candidate that is left has reached   *)
(* its own limit on the item; which candidates ran is left out.            *)
StallItem(m, i) ==
  /\ At(m, "pick") /\ i \in run[m].todo
  /\ item[m][i].silent >= CandidateLimit
  /\ item' = IF item[m][i].status = "dispatched"
             THEN [item EXCEPT ![m][i] = Blocked(@, TRUE)]
             ELSE item
  /\ run' = [run EXCEPT ![m].todo = Done(m, i), ![m].handoff = TRUE]
  /\ UNCHANGED mission

MayPick(m, i) ==
  /\ At(m, "pick") /\ i \in run[m].todo
  /\ item[m][i].silent < NoResultLimit

(* A dead letter keeps its slot and turns every later hop away.  The look  *)
(* at the Mission in acquireHopForStart asks for pause and end, nothing    *)
(* else.                                                                   *)
PickItem(m, i) ==
  /\ MayPick(m, i)
  /\ IF item[m][i].failures = HopLimit
     THEN Stop(m, TRUE, FALSE)
     ELSE IF mission[m].paused \/ Ended(m)
     THEN Stop(m, FALSE, FALSE)
     ELSE run' = [run EXCEPT ![m].pc = "start", ![m].item = i, ![m].slot = mission[m].rev,
                             ![m].failed = item[m][i].failures, ![m].todo = Done(m, i)]
  /\ UNCHANGED <<mission, item>>

\* No candidate or capacity is free, or a failed row has to wait.
NoHop(m, i) ==
  /\ MayPick(m, i)
  /\ item[m][i].failures < HopLimit
  /\ \E resumeAt \in BOOLEAN : Stop(m, FALSE, resumeAt)
  /\ UNCHANGED <<mission, item>>

(* startExecutorAttempt refuses an item that is no longer dispatched, and  *)
(* the run of the Mission fails with it.                                   *)
StartExecutor(m) ==
  LET i == run[m].item IN
  /\ At(m, "start")
  /\ \/ /\ item[m][i].status = "dispatched"
        /\ item' = [item EXCEPT ![m][i].tried = "now"]
        /\ Goto(m, "execute")
     \/ /\ item[m][i].status # "dispatched"
        /\ Leave(m)
        /\ UNCHANGED item
  /\ UNCHANGED mission

-----------------------------------------------------------------------------
(* How an executor ends.                                                   *)

\* Mutation: a silent attempt is not counted.
CountSilence_Forgets(n) == 0

(* #noResultRotation counts the silent attempts at the tail of the item's  *)
(* attempts, all of them, whatever order they were started for.  Every     *)
(* other end breaks the tail.                                              *)
CountSilence(n) == n + 1

Ends(s) ==
  [s EXCEPT !.silent = IF s.status = "dispatched" THEN CountSilence(s.silent) ELSE 0]

Fails(s) == [s EXCEPT !.silent = 0]

(* The row of the hop counts n failures.  Of a contract that has been      *)
(* revised no hop will look at the row again.                              *)
NoRow(s)     == [s EXCEPT !.failures = 0]
Row(m, s, n) == IF run[m].slot = mission[m].rev THEN [s EXCEPT !.failures = n] ELSE s

\* The agent stops by itself, its row is completed.
EndExecutor(m) ==
  /\ At(m, "execute")
  /\ item' = [item EXCEPT ![m][run[m].item] = NoRow(Ends(@))]
  /\ Goto(m, "after")
  /\ UNCHANGED mission

\* What it submitted cannot be checkpointed: for a person to look at.
CheckpointFails(m) ==
  LET i == run[m].item IN
  /\ At(m, "execute") /\ run[m].item \in Fragile
  /\ item[m][i].status = "submitted"
  /\ item' = [item EXCEPT ![m][i] = Ends(@)]
  /\ Stop(m, FALSE, FALSE)
  /\ UNCHANGED mission

(* The wall clock kills the executor: the platform blocks an item that has *)
(* no result, and the run stops.                                           *)
KillExecutor(m) ==
  LET i == run[m].item IN
  /\ At(m, "execute") /\ run[m].item \in Fragile
  /\ item' = [item EXCEPT ![m][i] =
       Fails(IF @.status = "dispatched" THEN Blocked(@, TRUE) ELSE @)]
  /\ Stop(m, TRUE, TRUE)
  /\ UNCHANGED mission

\* upstream_failure, killed_idle, platform_unreachable, an error of the adapter.
FailExecutor(m) ==
  /\ At(m, "execute") /\ run[m].item \in Fragile
  /\ item' = [item EXCEPT ![m][run[m].item] = Fails(@)]
  /\ Goto(m, "fail")
  /\ UNCHANGED mission

\* The next round, or with an item given up in this one the coordinator.
Onwards(m) ==
  IF run[m].handoff
  THEN run' = [run EXCEPT ![m] =
         Free("recover", WithStatus(m, "submitted"), TRUE)]
  ELSE GotoFree(m, "idle", {})

(* The failure is counted on the row.  The run waits for the end of the    *)
(* back-off and goes on, or stops with it.                                 *)
RetryHop(m) ==
  LET i == run[m].item
      n == run[m].failed + 1
  IN  /\ At(m, "fail")
      /\ n < HopLimit
      /\ item' = [item EXCEPT ![m][i] = Row(m, @, n)]
      /\ Onwards(m) \/ Stop(m, FALSE, TRUE)
      /\ UNCHANGED mission

(* The last failure, or one not to be retried, makes a dead letter.  The   *)
(* item stays dispatched until the Mission is resumed.                     *)
DeadLetter(m) ==
  /\ At(m, "fail")
  /\ item' = [item EXCEPT ![m][run[m].item] = Row(m, @, HopLimit)]
  /\ Stop(m, TRUE, TRUE)
  /\ UNCHANGED mission

\* An upstream outage or a spent quota is nobody's failure: the row is completed.
GiveBack(m) ==
  /\ At(m, "fail")
  /\ item' = [item EXCEPT ![m][run[m].item] = NoRow(@)]
  /\ Stop(m, FALSE, TRUE) \/ Stop(m, TRUE, FALSE)
  /\ UNCHANGED mission

\* Nor is a platform that could not be reached: the row keeps its count.
Unreachable(m) ==
  /\ At(m, "fail")
  /\ \E resumeAt \in BOOLEAN : Stop(m, FALSE, resumeAt)
  /\ UNCHANGED <<mission, item>>

\* Mutation: earlier returns are not counted.
MaySendBack_Unlimited(m, i) ==
  /\ item[m][i].status = "submitted"
  /\ mission[m].status = "executing"
  /\ item[m][i].report \in Reasons

(* autoRedispatchStandardWorkItem: reject and dispatch in one transaction, *)
(* without a review record, a bounded number of times per reason.          *)
MaySendBack(m, i) ==
  /\ item[m][i].status = "submitted"
  /\ mission[m].status = "executing"
  /\ item[m][i].report \in Reasons
  /\ item[m][i].sentBack[item[m][i].report] < RedispatchLimit

SentBack(s) ==
  [Becomes(s, "dispatched") EXCEPT !.byMachine = TRUE,
                                   !.sentBack = [s.sentBack EXCEPT ![s.report] = @ + 1]]

SendBack(m, i) ==
  item' = IF MaySendBack(m, i) THEN [item EXCEPT ![m][i] = SentBack(@)] ELSE item

AfterExecutor(m) ==
  /\ At(m, "after")
  /\ SendBack(m, run[m].item)
  /\ run' = [run EXCEPT ![m].pc = "pick", ![m].item = NoOne, ![m].slot = 0, ![m].failed = 0]
  /\ UNCHANGED mission

(* The pending items are through.  An item that was given up takes the     *)
(* round on to the coordinator.                                            *)
PickDone(m) ==
  /\ At(m, "pick") /\ run[m].todo = {}
  /\ Onwards(m)
  /\ UNCHANGED <<mission, item>>

Recover(m, i) ==
  /\ At(m, "recover") /\ i \in run[m].todo
  /\ SendBack(m, i)
  /\ run' = [run EXCEPT ![m].todo = Done(m, i),
                        ![m].resent = @ \/ MaySendBack(m, i)]
  /\ UNCHANGED mission

RecoverDone(m) ==
  /\ At(m, "recover") /\ run[m].todo = {}
  /\ IF run[m].resent
     THEN GotoFree(m, "idle", {})
     ELSE GotoFree(m, "strand", WithStatus(m, "dispatched"))
  /\ UNCHANGED <<mission, item>>

(* recoverStrandedWorkItem: an item that the platform sent back and no     *)
(* executor will run is blocked, with an event that asks for no revision.  *)
Strand(m, i) ==
  /\ At(m, "strand") /\ i \in run[m].todo
  /\ item' = IF item[m][i].status = "dispatched" /\ item[m][i].byMachine
                /\ mission[m].status # "executing"
             THEN [item EXCEPT ![m][i] = Blocked(@, FALSE)]
             ELSE item
  /\ run' = [run EXCEPT ![m].todo = Done(m, i)]
  /\ UNCHANGED mission

StrandDone(m) ==
  /\ At(m, "strand") /\ run[m].todo = {}
  /\ Goto(m, "call")
  /\ UNCHANGED <<mission, item>>

PickCoordinator(m) ==
  /\ At(m, "call")
  /\ IF mission[m].paused \/ Ended(m) THEN Stop(m, FALSE, FALSE) ELSE Goto(m, "begin")
  /\ UNCHANGED <<mission, item>>

StartCoordinator(m) ==
  /\ At(m, "begin")
  /\ IF Ended(m) THEN Leave(m) ELSE Goto(m, "coordinate")
  /\ UNCHANGED <<mission, item>>

EndCoordinator(m) ==
  /\ At(m, "coordinate")
  /\ Goto(m, "settle")
  /\ UNCHANGED <<mission, item>>

AfterCoordinator(m) ==
  /\ At(m, "settle")
  /\ GotoFree(m, "idle", {})
  /\ UNCHANGED <<mission, item>>

(* There is no hop for the coordinator, or its attempt has failed.  Its    *)
(* own dead letter and a second runaway wait for a person.                 *)
CoordinatorFails(m) ==
  /\ NoOne \in Fragile
  /\ At(m, "call") \/ At(m, "settle")
  /\ \E died, resumeAt \in BOOLEAN : Stop(m, died, resumeAt)
  /\ UNCHANGED <<mission, item>>

-----------------------------------------------------------------------------
(* Calls of a coordinator.                                                 *)

SubmitContractCheck(m) ==
  /\ At(m, "coordinate")
  /\ mission' = [mission EXCEPT ![m].checked = mission[m].rev]
  /\ UNCHANGED <<item, run>>

CreateWorkItem(m, i) ==
  /\ At(m, "coordinate")
  /\ ~Ended(m)
  /\ item[m][i].status = "absent"
  /\ item' = [item EXCEPT ![m][i].status = "created"]
  /\ UNCHANGED <<mission, run>>

ReviseWorkOrder(m, i) ==
  /\ At(m, "coordinate")
  /\ item[m][i].status \in Revisable
  /\ item' = [item EXCEPT ![m][i].revise = FALSE]
  /\ UNCHANGED <<mission, run>>

\* Mutation: any contract check will do.
ReadyToDispatch_OldCheck(m, S) ==
  /\ \A i \in S : item[m][i].status \in Dispatchable /\ ~item[m][i].revise
  /\ mission[m].checked # 0

(* The gates of dispatchWorkItems that come before the slot.               *)
ReadyToDispatch(m, S) ==
  /\ \A i \in S : item[m][i].status \in Dispatchable /\ ~item[m][i].revise
  /\ mission[m].checked = mission[m].rev

(* acquireMutationSlotForDispatch and dispatch.  startExecuting refuses a  *)
(* transition the table does not have and a slot that is taken; only a     *)
(* Mission that both holds the slot and executes skips it.                 *)
DispatchWorkItems(m, S) ==
  /\ At(m, "coordinate")
  /\ ReadyToDispatch(m, S)
  /\ \/ Mutating(m) /\ mission[m].status = "executing"
     \/ CanGoTo(m, "executing") /\ ~OtherMutates(m)
  /\ mission' = [mission EXCEPT ![m].status = "executing", ![m].mutated = TRUE]
  /\ item' = [item EXCEPT ![m] =
       [i \in Items |-> IF i \in S THEN Becomes(item[m][i], "dispatched") ELSE item[m][i]]]
  /\ UNCHANGED run

ReviewExecutionResult(m, i, verdict) ==
  /\ At(m, "coordinate")
  /\ item[m][i].status = "submitted"
  /\ item' = [item EXCEPT ![m][i] = Becomes(@, verdict)]
  /\ UNCHANGED <<mission, run>>

\* Mutation: work items are not looked at.
MayDeliver_Any(m) == TRUE

(* delivered needs every item accepted or retired.                         *)
MayDeliver(m) == \A i \in Items : item[m][i].status \in Finished \cup {"absent"}

SubmitMissionResult(m, outcome) ==
  /\ At(m, "coordinate")
  /\ outcome = "delivered" => MayDeliver(m)
  /\ CanGoTo(m, "awaiting_review")
  /\ mission' = [mission EXCEPT
       ![m].status = "awaiting_review",
       ![m].result = [outcome |-> outcome, rev |-> mission[m].rev]]
  /\ UNCHANGED <<item, run>>

-----------------------------------------------------------------------------
(* Calls of an executor.  None of them looks at the Mission's status.      *)

Submitted(s, report) ==
  [Becomes(s, "submitted") EXCEPT !.report = report,
                                  !.revise = s.revise \/ report \in {"partial", "blocked"}]

SubmitExecutionResult(m, report) ==
  LET i == run[m].item IN
  /\ At(m, "execute")
  /\ report # "green" => i \in Fragile
  /\ item[m][i].status = "dispatched"
  /\ item' = [item EXCEPT ![m][i] = Submitted(@, report)]
  /\ UNCHANGED <<mission, run>>

ReportBlocked(m) ==
  LET i == run[m].item IN
  /\ At(m, "execute") /\ i \in Fragile
  /\ item[m][i].status = "dispatched"
  /\ item' = [item EXCEPT ![m][i] = Blocked(@, TRUE)]
  /\ UNCHANGED <<mission, run>>

-----------------------------------------------------------------------------
(* Calls of L3 and of operators.                                           *)

\* Mutation: a Mission that waits for its review stays there.
StaleStatuses_Executing == {"executing"}

StaleStatuses == {"executing", "awaiting_review"}

Revised(s) ==
  LET back == IF s.status \in StaleStatuses THEN Enters(s, "planning") ELSE s
  IN  [back EXCEPT !.rev = s.rev + 1]

ReviseContract(m) ==
  /\ ~Ended(m)
  /\ mission[m].rev < MaxRev
  /\ mission' = [mission EXCEPT ![m] = Revised(@)]
  /\ item' = [item EXCEPT ![m] = [i \in Items |-> NoRow(item[m][i])]]
  /\ UNCHANGED run

(* applyFinalReview and machine finalization, the merge left out.          *)
FinalReview(m, status) ==
  /\ mission[m].status = "awaiting_review"
  /\ mission' = [mission EXCEPT ![m] = Enters(@, status)]
  /\ UNCHANGED <<item, run>>

\* Cancelled by a person, or given up by the plan that it belongs to.
CancelMission(m) ==
  /\ CanGoTo(m, "blocked")
  /\ mission' = [mission EXCEPT ![m] = Enters(@, "blocked")]
  /\ UNCHANGED <<item, run>>

PauseMission(m) ==
  /\ m \in Pausable
  /\ ~Ended(m) /\ ~mission[m].paused
  /\ mission' = [mission EXCEPT ![m].paused = TRUE]
  /\ UNCHANGED <<item, run>>

ParkMission(m) ==
  /\ ~Ended(m) /\ ~mission[m].parked
  /\ mission' = [mission EXCEPT ![m].parked = TRUE]
  /\ UNCHANGED <<item, run>>

\* Mutation: the slot is not claimed again.
MayUnpark_Always(m) == TRUE

MayUnpark(m) == mission[m].parked => ~OtherMutates(m)

\* resumeMission: parked or not, it also ends a pause.
ResumeMission(m) ==
  /\ mission[m].paused \/ mission[m].parked
  /\ MayUnpark(m)
  /\ mission' = [mission EXCEPT ![m].paused = FALSE, ![m].parked = FALSE]
  /\ UNCHANGED <<item, run>>

(* resumeParkedMission: the Git synchronisation comes before this          *)
(* transaction, which claims the slot again.                               *)
ResumeParkedMission(m) ==
  /\ mission[m].parked
  /\ MayUnpark(m)
  /\ mission' = [mission EXCEPT ![m].parked = FALSE]
  /\ UNCHANGED <<item, run>>

RetireWorkItem(m, i) ==
  /\ i \in Fragile
  /\ item[m][i].status \notin Finished \cup {"absent"}
  /\ item' = [item EXCEPT ![m][i] = Becomes(@, "retired")]
  /\ UNCHANGED <<mission, run>>

-----------------------------------------------------------------------------
LoopStep(m) ==
  \/ Round(m)
  \/ \E i \in Items : StallItem(m, i) \/ PickItem(m, i) \/ NoHop(m, i)
  \/ StartExecutor(m)
  \/ EndExecutor(m) \/ CheckpointFails(m) \/ FailExecutor(m)
  \/ RetryHop(m) \/ DeadLetter(m) \/ GiveBack(m) \/ Unreachable(m)
  \/ AfterExecutor(m)
  \/ PickDone(m)
  \/ \E i \in Items : Recover(m, i) \/ Strand(m, i)
  \/ RecoverDone(m)
  \/ StrandDone(m)
  \/ PickCoordinator(m)
  \/ StartCoordinator(m)
  \/ EndCoordinator(m)
  \/ AfterCoordinator(m)
  \/ CoordinatorFails(m)

CoordinatorCall(m) ==
  \/ SubmitContractCheck(m)
  \/ \E i \in Items : CreateWorkItem(m, i) \/ ReviseWorkOrder(m, i)
  \/ \E S \in SUBSET Items \ {{}} : DispatchWorkItems(m, S)
  \/ \E i \in Items, verdict \in {"accepted", "rejected"} : ReviewExecutionResult(m, i, verdict)
  \/ \E outcome \in {"delivered", "blocked"} : SubmitMissionResult(m, outcome)

ExecutorCall(m) ==
  \/ \E report \in Reports : SubmitExecutionResult(m, report)
  \/ ReportBlocked(m)

Control(m) ==
  \/ RunMission(m)
  \/ PrepareResume(m)
  \/ Halt(m)
  \/ KillExecutor(m)
  \/ ReviseContract(m)
  \/ \E status \in {"completed", "planning", "blocked"} : FinalReview(m, status)
  \/ CancelMission(m)
  \/ PauseMission(m)
  \/ ParkMission(m)
  \/ ResumeMission(m)
  \/ ResumeParkedMission(m)
  \/ \E i \in Items : RetireWorkItem(m, i)

Next ==
  \E m \in Missions : LoopStep(m) \/ CoordinatorCall(m) \/ ExecutorCall(m) \/ Control(m)

Spec == Init /\ [][Next]_vars

(* The loop of a Mission goes on and its agents end, since a hop is        *)
(* bounded by the wall clock; a Mission whose time has come is resumed;    *)
(* and a hop that is asked for again and again is given one at last:       *)
(* candidates and capacity return, back-offs run out.                      *)
FairSpec ==
  /\ Spec
  /\ \A m \in Missions :
       /\ WF_vars(LoopStep(m)) /\ WF_vars(AutoResume(m))
       /\ SF_vars(\E i \in Items : PickItem(m, i))

-----------------------------------------------------------------------------
(* Properties.                                                             *)

\* Missions, items and loops have the types the code gives them.
TypeOK ==
  /\ mission \in [Missions -> MissionState]
  /\ item \in [Missions -> [Items -> ItemState]]
  /\ run \in [Missions -> RunState]

(* Invariant C of the kernel: at most one Mission of the project holds     *)
(* code that has neither landed nor been given up or parked.               *)
OneMutatingMission == \A m, n \in Missions : Mutating(m) /\ Mutating(n) => m = n

(* What L3 is asked to accept as delivered contains no work that is open:  *)
(* whatever happened since the result was written, an item is accepted,    *)
(* retired, or was created afterwards.                                     *)
DeliveredIsFinished ==
  \A m \in Missions :
    mission[m].status = "awaiting_review" /\ mission[m].result.outcome = "delivered" =>
      \A i \in Items : item[m][i].status \in Finished \cup {"absent", "created"}

(* A result that awaits its review was written under the contract that is  *)
(* now in force.                                                           *)
ReviewedUnderCurrentContract ==
  \A m \in Missions :
    mission[m].status = "awaiting_review" => mission[m].result.rev = mission[m].rev

(* A Mission executes only under a contract that its coordinator has       *)
(* checked: a revision sends it back, and only a new check lets it go on.  *)
ExecutesCheckedContract ==
  \A m \in Missions : mission[m].status = "executing" => mission[m].checked = mission[m].rev

(* Loops, hops, returns, pauses and parking taken away, L3 sees the        *)
(* protocol of ReviewedWork: work goes out only under a checked contract   *)
(* and with the lane free, and what is put forward speaks of the contract  *)
(* in force and of nothing that is open (mission-contract.ts, lane.ts).    *)
Stage(s) ==
  CASE s.status = "completed" -> "accepted"
    [] s.status = "blocked" -> "given up"
    [] s.status = "executing" -> "executing"
    [] s.status \in {"investigating", "planning"} -> "planning"
    [] OTHER -> IF s.result.rev = s.rev THEN s.result.outcome ELSE "of another contract"

Opened(f) == {i \in Items : f[i].status \notin Finished \cup {"absent", "created"}}

Stages    == [m \in Missions |-> Stage(mission[m])]
Cleared   == {m \in Missions : mission[m].checked = mission[m].rev}
OpenItems == [m \in Missions |-> Opened(item[m])]
Coded     == {m \in Missions : mission[m].mutated}
Lane      == {m \in Missions : Mutating(m)}

Review == INSTANCE ReviewedWork WITH
  stage <- Stages, cleared <- Cleared, open <- OpenItems, code <- Coded, lane <- Lane

ImplementsReview == Review!Spec

(* Nothing but a person or L3 moves a Mission that has stopped without a   *)
(* time to resume, or is paused or parked.                                 *)
WaitsForPerson(m) ==
  At(m, "off") /\ (~run[m].resumeAt \/ mission[m].paused \/ mission[m].parked)

(* Unless attempts fail for ever, a dispatched item of an executing        *)
(* Mission does not stay so for ever, with the platform starting, killing, *)
(* resuming and retrying: its executors produce a result, or it is given   *)
(* up and goes back to the coordinator, or the Mission stops and asks for  *)
(* a person.                                                               *)
DispatchedSettles ==
  \A m \in Missions :
    <>[]~At(m, "fail") =>
      \A i \in Items :
        item[m][i].status = "dispatched" /\ mission[m].status = "executing" ~>
          \/ item[m][i].status # "dispatched" \/ mission[m].status # "executing"
          \/ WaitsForPerson(m)

(* work-order-handoff.md: a revised order may be dispatched again.  So the *)
(* platform gives up on an item only after an attempt at its last order.   *)
GivenUpAfterAttempt ==
  [][\A m \in Missions, i \in Items :
       At(m, "pick") /\ item[m][i].status = "dispatched" /\ item'[m][i].status = "blocked"
         => item[m][i].tried = "now"]_vars
=============================================================================
