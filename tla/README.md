# CoAgentHub, verified

TLA+ models of CoAgentHub, the runs of TLC that check them, and proofs that
TLAPS checks. Paths are relative to the repository; `A/` stands for
`src/application/` and `P/` for `src/application/platform/`.

Contents: 1 The system. 2 Modules. 3 MainLock. 4 FileStore. 5 HopQueue.
6 CandidateCircuit. 7 MissionLane. 8 FinalMerge. 9 Hosting. 10 Inbox. 11 Runs,
bounds and fairness. 12 Proofs. 13 Divergences. 14 What is not modelled. 15 Plan.

## 1 The system

CoAgentHub is one Node process per state file (guarded by a main lock) that
drives coding agents through a *Mission*: a person or an agent session in the
role of reviewer (L3) writes a contract, a coordinator (L2) splits it into work
items with frozen orders, executors (L1) carry the orders out, the platform runs
the validations and keeps the evidence, L3 signs the result and the code is
merged. State is a set of in-memory repositories that are written to one file;
`FileStateStore.run` is a transaction over them. Everything else is promises,
timers, child processes and git.

### Components

| component | state it keeps | operations | what makes it correct | module |
|---|---|---|---|---|
| Durable hop queue (`A/durable-scheduler.ts`, `A/file-store.ts`) | rows: status, owner, generation, lease, back-off, attempts, candidate | enqueue, claim, renew, complete, report failure, expiry | five capacity limits over live leases; one open row per logical hop; a live lease is never taken over; a decided hop stays decided | HopQueue, HopLease |
| Hop runs (`A/orchestrator.ts` `#runHop`) | pending promises, heartbeat timer, in-progress Attempts, run tokens | look, claim, look again, start, beat, finish, settle | one agent per lane; capacity comes back; the token ends with its run | HopQueue |
| Candidate circuits (`A/candidate-circuit.ts`) and probe reclaim (`P/probe-reclaim.ts`) | a circuit per candidate; watches of half-open ones | open, claim probe, resolve, return, reset; observe, decide, reset | one probe at a time; a leaked probe returns; a working probe is spared | CandidateCircuit |
| Mission kernel (`src/kernel/mission.ts`, `work-item.ts`, `project.ts`) | status, mutation flag, parking, pause, contract revision, check, result | the transition tables | invariant C: one mutating Mission per project; a Mission executes and is reviewed under its current contract | MissionLane |
| Mission loop (`A/orchestrator.ts` `runMission`) | the view a round began with | executors, machine redispatch, recovery, coordinator | dispatched work comes back unless attempts fail for ever; nothing is given up untried | MissionLane |
| Platform commands (`A/platform.ts`, `P/*.ts`) | none of their own; each is a transaction over the repositories | dispatch, review, submit, revise, park, resume, finalize, ... | the gates between them hold in every order | MissionLane, Inbox |
| Finalization (`P/final-review.ts`, `P/machine-finalization.ts`, `P/ha-finalization.ts`, `P/integration-verification.ts`, `A/workspace.ts`) | the target branch, events with anchors | merge, verify, reset, complete | a red result takes away its own merge only, two windows apart; what completes had landed and the signed revision was verified | FinalMerge |
| File store transactions (`A/file-store.ts`) | memory, snapshot, put off write, queue of commands, id counters, archive packages | run, begin, abort, commit, settle, flush, archive, reload | a command is atomic, durable and acknowledged afterwards; ids are not issued twice; an archive loses nothing | FileStore, CommandLog |
| Main writer lock (`A/lock.ts`) | lock directory, holder record with heartbeat and port, takeover gate, quarantine, audit | acquire, take over, beat, publish, release | at most one writer; a live lock stays; nobody writes over what it has not read | MainLock |
| Startup reconciliation (`A/reconcile.ts`, `P/heartbeat-continuation.ts`) | none | close Attempts without a fresh heartbeat, ask for continuations, repair | nothing waits for an agent that is gone | `Restart` of HopQueue and Hosting, `Repair` of Inbox |
| Queue worker (`A/mission-queue-worker.ts`, `P/mission-queue.ts`), hosted-run guard, mission runner | queue of Missions, reservations, run registry | enqueue, pick, record, start, hold, finalize by machine | one run per Mission; the queue in its order | Hosting |
| Retry wake and auto-resume (`A/retry-wake.ts`, `P/auto-resume.ts`), ticket gates (`P/ticket-budget.ts`) | wake-up times, requests, the two gates and their cards | tick, look, launch, record, run, stop; raise, approve, answer | whatever need not wait for a person is woken, also across a restart; nothing runs on after a close that reports no error | Hosting |
| Delivery inbox (`A/delivery.ts`, `P/delivery-status.ts`) and L3 bridge (`l3-mcp-server/`) | rows per key and their acknowledgements; registry of chats, ledger of what was queued, the daemon | ask, submit, repair, acknowledge; register, take over; poll, fetch, queue, remember | nothing is lost between platform and chat, nothing told twice without need, what is due is heard | Inbox |
| Change requests, impacts, receipts (`A/change-*.ts`) | a change and who has to answer it | request, analyse, receipt | a change is closed only when covered | not modelled (its hop is a role of HopQueue) |
| Plan runs (`A/plan-run.ts`), query runs (`A/query-run.ts`), document queue (`P/document-queue.ts`) | their own rows | run, hold, promote, write | see PROJECT.json | not modelled (a query's probe is in CandidateCircuit) |
| Policy, model selection, validation engine, context builder, reports, HTTP and web | configuration and logs | pure functions, routing, formatting | - | not modelled |

### How they interact

A *round* of `runMission` reads a view of the Mission and then awaits its way
through hops. Every hop is a row of the durable queue; it is claimed with the
candidate that will run it, whose circuit was read before. The agent of the hop
calls platform commands through HTTP with a run token; its commands, those of
L3 and of operators, and the loop itself all meet in transactions of one store.
Retry wake ticks reclaim probes and restart Missions. So there is one process
and no shared-memory race; what is hard is that *every await is a place where
the world changes*:

- a Mission is read, found runnable, and paused, revised, parked or ended
  before the agent starts;
- leases run out under agents that still work (a machine that sleeps, a blocked
  event loop) and their late reports meet the next claim;
- a process dies, and rows, Attempts, tokens and watches are restored from
  different places;
- a transaction aborts and takes back what a handler meant to keep, and leaves
  handlers that hold a Mission over an await with an object nobody reads again;
- git and the verification commands run for minutes outside any transaction while
  the branch and the Mission move on;
- gates are derived from the whole history of an item.

The `hazards` of PROJECT.json list these places by line, with the properties
that would catch each.

## 2 Modules

| module | what it is |
|---|---|
| `SoleWriter` | abstract specification: what the lock promises to whoever works on the state file |
| `MainLock` | the processes that want to be the writer of a state file; refines SoleWriter |
| `CommandLog` | abstract specification: what a command of the store promises |
| `FileStore` | transactions, other writes, archive and crash of the one writer; refines CommandLog |
| `HopLease` | abstract specification: what the queue promises about one hop |
| `HopQueue` | the queue and the runs over it; refines HopLease |
| `CandidateCircuit` | circuits, the runs that use them, the reclaimer |
| `ReviewedWork` | abstract specification: what the kernel promises to L3 |
| `MissionLane` | Missions of a project, their items, the loop, agents, L3 and operators; refines ReviewedWork |
| `FinalMerge` | finalizations of the Missions of a project on one target branch |
| `FinalMergeHistory` | FinalMerge with a history variable: which calls another one has reset under |
| `Hosting` | who starts the loop of a Mission in the resident service, and how the service ends and starts again |
| `Mailbox` | abstract specification: what the inbox promises of every letter |
| `Inbox` | the rows for L3, from the command that writes one to the chat that is told, and the bridge between; refines Mailbox |
| `MC...` | instances for TLC, one per specification |
| `...Proofs` | theorems about it |

The modules are layers. MainLock gives the state file one writer. FileStore is
that writer: its promise (CommandLog) is why a command is one action in the
modules above it, and its abort is what FinalMerge models on the objects callers
still hold. Above it, the modules cut the system along awaits: HopQueue opens up what one hop
does and sees of a Mission only pause, end and contract revision; MissionLane
opens up the Mission and sees a hop only as *picked, started, ended*;
CandidateCircuit opens up the candidate and sees the queue only as a lease that
runs out; FinalMerge opens up what MissionLane has as the one step from review to
completed, and sees the rest of a Mission only as sent back and submitted; Hosting
opens up what the fairness of MissionLane takes for granted, that a loop which
stopped is run again, and sees the loop only as a run that opens Attempts and
stops with a reason; Inbox follows what MissionLane calls an escalation or a
submission to the person it is for, and sees of a Mission only what L3 has to look
at. Each is complete in its own detail, and each treats what the
others do as something that may happen at any of its awaits.

Conventions. One action per transaction, handler or stretch between two awaits.
Names follow the source where TLA+ allows. `map` in PROJECT.json gives the
lines behind every definition. An operator with an underscore in its name
(`FailedRow_OffByOne`) is a mutation: the definition it is named after as a
plausible bug would have it; no specification uses it, and replacing the
original by it makes a run fail.

## 3 MainLock

**State.** `lock` is the lock directory and its `holder.json`: who made it, whom
the record names (nobody, when it is missing or unreadable), what is left until the
heartbeat is stale, whether a port is published. `gate` is the takeover gate,
`aside` the quarantine of each process, `audit` the trail of takeovers. `pc` and
`seen` are the local state of each process, `file` the version of the state file,
`base` the version a process last read or wrote.

**Steps.** One action per call of the file system; other processes come between
any two of them, and any process may die at any of them. `Ask`, `MarkGate`,
`Mkdir`, `SignIn`, `LeaveGate` are `acquireLock`; `Knock`, `Assess`, `Recheck`,
`MoveAside`, `CheckMoved`, `Remake`, `Resign`, `Audit`, `LeaveTakeover` the
takeover; `BeatRead`, `BeatWrite`, `PublishPort`, `ReleaseRead`, `ReleaseRemove`
what a holder does. Markers and records whose write is allowed to fail in the code
may fail here. A silent holder (its heartbeat stops while it lives) is every
behaviour without `BeatRead`. A person removes a leftover only while no process
that has, or is taking, the lock is alive, as the message of `LockBusyError` says. Publishing the port is read and
rename at once; a pid is not used twice, which stands for the `since` of the record.

**Properties.** `OneWriter`; `LiveLockStays`: what a live process holds leaves the
path only by its own release. `ImplementsSoleWriter`: the state file sees processes
that own it one after the other. The owners are the processes between the check that
the lock is theirs and its release or their death, the abstract copy is what they have
in memory. Taking the lock or taking it over is Take, also when the former
owner went silent or was cleaned away by hand; heartbeats, gate, audit and time are
stutters. `LastWriterKnows`, proved only: whoever replaces the whole state
file has read or written the version it replaces, which is why the store is opened
after the lock is taken. `TakeoverLeavesTrace`, proved only: whoever works under a lock
it took from another has left a record of it.

## 4 FileStore

**State.** `mem` and `disk` are the rows, the archive index and the id counter in
memory and in the file, `pack` the package of an archived Mission, `tx` the open
transaction with its snapshot, `queue` the commands that wait, `deferred` the write
that was put off, `pc` and `id` where each call is and the id it was given.

**Steps.** A command asks, begins, writes a row, awaits, writes another, and
commits or throws (`Ask`, `Begin`, `FirstRow`, `SecondRow`, `Commit`,
`CommitFails`, `Abort`). A write outside waits in `settle`, is given one turn of
the event loop later - a transaction may have begun in between - and flushes or
has its flush put off. `ArchivePackage` and `ArchiveIndex` are the two files of an
archive, with a failing write and a crash between them. `Crash` reloads from the files.

**Properties.** `FailedLeavesNothing`: a command that failed is nowhere, although
another writer's put off write, a failing rename or an archive came in between.
`IdsNotReissued`: no id is given to two rows although aborts restore rows.
`DurableStays`: what a reader of the two files finds stays, across archive and
crash. `CallsReturn`: settle and queue never wait for one another; its safety half,
`SomebodyGoes`, proved: whenever a call is under way, some call or the archive goes on
by itself, so there is no circle of turns for fairness to hide. `ImplementsLog`:
for commands, all of it is the abstract log - a step that is the whole effect and
the acknowledgement at once. The log says nothing of writes outside: one that falls
into an open transaction shares its fate although its caller was told otherwise
(section 13).

## 5 HopQueue

**State.** `rows` are the queued hops, addressed by what the idempotency key is
made of: slot (Mission, role, work item, change), contract revision, cycle.
`mission` is what the orchestrator reads of a Mission. `runner` holds the local
state of concurrent `#runHop` calls, `attempt` the in-progress Attempt of each
lane, `tokens` what the in-memory registry accepts, `proc` the incarnation of
the process. Time is kept in countdowns (`lease`, `wait`, `beat`), so it needs
no bound; `Tick` takes one off each.

**Steps.** `Look` (Mission read, cycle derived) - `Enqueue` - `TurnedAway`,
`CheckRefused` or `CheckPassed` (fairness and capacity, from a snapshot) -
`ClaimAvailable` or `ClaimRefused` (the same decision again, in the transaction)
- `Recheck` (Mission read again) - `Start` or `StartRefused` - `Heartbeat` -
`Finish` or `FinishFenced` - `Complete`, `ReportFailure` or `Abandon`. Between
any two of them Missions are paused, ended, revised, time passes, the process
restarts, and other runners move.

**Properties.** `CapacityRespected`: the five limits of `HopCapacityLimits`
hold at every instant, although the free place was seen several awaits before
it is taken. `OneOpenRowPerSlot`: the cycle is derived from a queue listed
earlier, yet no logical hop is opened twice. `LiveLeaseKept`: a lease that has
not run out keeps its generation, and only its holder ends it.
`FailuresCounted` and `SettledIsFinal`, proved only: one failure per claim at most, the
limit is a dead letter, late reports change nothing. `OneAgentPerLane`: two agents
never share a work item or a coordinator's lane, also when a lease was lost and
taken over. `LeaseReturns`: every lease ends. `ImplementsLease`: all of it is
the fenced lease of HopLease - one holder, growing epochs, one final decision.
`OneFirst` and `NotOvertaken`, proved only: of the hops in the queue exactly one ranks
first, so they never all yield to one another; and what is ahead of a waiting hop
at its own priority only gets less. A hop of a higher priority may pass it
at any time, and nothing in the code ages that away.

## 6 CandidateCircuit

**State.** `circuit` per candidate (closed, open with what is left of its
deadline, open until an operator acts, half-open); `lease` of each hop's row;
`run`, the local state of each hop and query; `watch`, how long a half-open
candidate without a lease has been seen; `reclaim`, the tick in progress.

**Steps.** A run looks, claims a due probe, is turned back or away, takes a
lease, ends with one of four outcomes and settles the circuit; every way the
code leaves without settling is an action (`TurnAway`, `FinishFenced`,
`CheckpointFailed`, the leaving half of `Take`). A query holds no lease. The
reclaimer reads circuits one by one, then the queue, decides, and resets one by
one. `Tick` happens between chains of promises; a heartbeat comes before the
lease it renews ends, unless the machine sleeps (`Suspend`), which ends every
countdown at once.

**Properties.** `ReclaimSparesLeased`: the reclaimer never takes the probe of a
hop that works under its lease, however its reads interleave with the claims and
a waking machine. The property speaks of a hop that was running when time last
passed: one that claimed a moment ago can meet a reset decided from the
snapshot before, which the code accepts. `ProbeReturns`: a claimed probe is
released in the end, by its run or by the reclaimer, across a restart.

## 7 MissionLane

**State.** `mission`: status, mutation flag, parked, paused, contract revision,
revision of the last contract check that clears dispatch, result under review.
`item`: status, what its submission says, whether its order has to be revised,
whether the machine dispatched it, how many silent attempts are at the tail of its
history, how often the machine sent it back per reason, whether it was tried,
and how many failures its row in the queue has counted for the contract in force. `run`:
where the loop of the Mission is, what it remembers of the view it started from, and of a
run that has stopped whether the wait reason is that of a death (`died`) and whether there is a
time to resume (`resumeAt`).

**Steps.** The loop (`LoopStep`) with one action per await; the calls of the
coordinator and of the executor while their attempt is in progress; `Control`,
what L3, operators and the wall clock may do at any time. Every platform call is one
transaction, hence one action, with all its gates; a refused call is rolled back and left
out (`main.ts` always builds the platform with transactions).

An executor ends in one of four ways. By itself (`EndExecutor`): without a result it is one more
silent attempt, with one the tail is empty, and the row of its hop is completed. Its submission
cannot be checkpointed (`CheckpointFails`): for a person. Killed by the wall clock
(`KillExecutor`): the platform blocks the item there and then, or if the
submission came first leaves it. Or it fails (`FailExecutor`): upstream failure, idle kill, unreachable
platform, error of the adapter. A failure breaks the tail of silent attempts, leaves
the item dispatched, and counts on the row: the hop is tried again (`RetryHop`), becomes a
dead letter (`DeadLetter`), is given back uncounted (`GiveBack`, an outage or a spent quota), or
keeps its count (`Unreachable`). What the run has left dispatched,
`prepareAutoResume` (`PrepareResume`, `DiedOut`) blocks before the Mission goes on if the wait
reason says that something died - any dispatched item that has ever had an attempt, which includes one
that was revised and dispatched again and has not been tried since.

**Properties.** `OneMutatingMission`: invariant C of the kernel, held by a flag,
a status and a parking mark that five different calls write.
`DeliveredIsFinished`: what L3 is asked to accept as delivered has no open item,
whatever happens between submission and review. `ReviewedUnderCurrentContract`
and `ExecutesCheckedContract` (the latter proved only): no revision is overtaken by work
done for the one before. `ImplementsReview`: with loops, hops, silent and failed attempts,
machine redispatch, pausing and parking taken away, what L3 sees of the Missions of a
project is ReviewedWork. Its `stage` is the status as L3 reads it (a result
under review counts as *delivered* or *blocked* only if it was written for the contract in
force), `cleared` the Missions whose check is of the present revision, `open` the items
sent out and neither accepted nor retired, `lane` the Missions that hold
changed code. An item opens only by SendOut, which asks for a checked contract and a free lane;
what is put forward as delivered leaves nothing open; nothing is accepted that was not put
forward.

`DispatchedSettles`: a dispatched item of an executing Mission does not stay so. It gets a
result, is given up and goes back to the coordinator, or the Mission stops without a time to resume, or
paused or parked, and waits for a person (`WaitsForPerson`) - whether its executors are silent,
partial, killed or dead-lettered, in one run or over many that were resumed. The
property speaks of executions in which attempts do not fail for ever (`<>[]~At(m, "fail")`). It has to:
two limits stop a Mission that makes no progress, the tail of silent attempts and
the failures of the row, and each event that counts for one resets the other, so silent and failed
attempts that take turns reach neither (section 13).

## 8 FinalMerge

**State.** `target` is the revision the target branch is at, as the set of commits
in it: a commit is new for ever, so the set identifies the revision, `\subseteq`
is "is an ancestor of" and going back to a revision is a reset. `mission` is what
the store holds: status, base revision, the version of its work submitted last
and the one committed to its branch, what it was merged into and what was tested.
`anchored`, `unsafe` and `merged` are the Missions with the three kinds of event
that later calls or people read. `call` is the local state of each finalization.
A call holds a Mission *object*: `copy` is "live" while it is the one in the
store, and the status it was left with once an abort has replaced it.

**Steps.** `Begin` (the Mission is awaiting review: asked once) - `ReadUnsafe` and
`ReadHead` (standing authority only) - `ReadAnchor` (the head becomes the anchor
and an event) - `CheckBase` and `Merge` (`mergeToTarget`, two stretches of git) -
`ReadMerged` - `Verify` - `Recheck` if green, `CheckReset` and `Reset` if red -
`Complete`. The direct path goes from `Begin` to `CheckBase` and from `ReadMerged`
to `Complete`. `Die` may end a call anywhere. Meanwhile `Commit` moves the target,
`TakeBack`, `Submit` and `Synchronise` the Mission, `Abort` the objects.

**Properties**, all for any number of overlapping finalizations, which nothing in the code
serialises. `AnchorRecorded`: wherever a call dies between merge and verdict, an event names a
revision free of the code. `CommitsStay`: a red result takes away its own merge only. A commit - of
a third party or of another finalization - that no call in progress may erase is
never erased. `MayErase` is what the code leaves open, and not more: what came between the base
check of a call and its look at the head, which the call takes for part of its own
merge, and what came between the comparison of the reset and the reset. The property says
that these two windows are all: a commit made before the base check, during the minutes of verification or after
the call is safe, whatever the other calls do.
`UnsafeStays`: once a high-assurance Mission is marked for people to look at and the calls that had asked
before have ended, no call merges or completes it, whatever is synchronised and
tried again. (A call that asked before the mark goes on: `haUnsafe` is read once.)
`SignsWhatItTested`, of FinalMergeHistory: what completes a Mission has landed in the revision
that is recorded, and a signature stands for a verification of that very revision, unless another
call has reset the target under the one that signs (`undercut`): then the head may have
gone away and come back, and the two looks of the call see the same revision
although the verification saw another. `MergedIsRecorded` is what the
documents say and the code does not keep (section 13).

The verification takes minutes outside any transaction and `Complete` looks again at the
status only, so a Mission that was sent back and has submitted again in
between is completed with the merge of its earlier work; no property claims otherwise (section 13).

## 9 Hosting

**State.** `mission` keeps of each Mission what the drivers tell apart: status,
the reason it waits for, what holds it (paused, open cards), whether it has
changed code, the Attempt in progress, whether a resumption was asked for after the
last one (`asked`) and whether it was ever run by hand (`known`). `line` is the
queue. `job` is where each call of the guarded `runMission` is: HTTP callers, the
queue worker, and one per Mission for its entry in the map of the retry wake.
`active` are the reservations of the guard, `scan` the tick of the retry wake,
`server` the life of the process, `waits` what `stop()` waits for.

**Steps.** A run is `Enter` (test and reserve), `Started`, `Prepare`,
`OpenAttempt`/`CloseAttempt`, `OpenReview`, `EndRun` with the reasons the loop may
leave, `Leave`; each may throw where the code may. The worker picks, records,
looks at the result (`After`), holds (`Hold`). The retry wake scans, looks,
launches, records. L3 enqueues, pauses, resumes, answers, revises, raises the
cap, approves a checkpoint, judges, cancels.

`Close`, `AwaitTick` and `Closed` are the ordered end of the process: `stop()` of the resumption
waits for its tick and then for the runs there are (`waits`), the close awaits in this order the HTTP calls
(`Drained`), the queue worker (`QueueDrained`) and the resumption, closes HTTP and frees the
lock, and reports no error (`down`) or one (`failed`: the last repair or the last
write has failed). A tick in flight may reject, because a read of the store throws
(`QueueReadFails`, `WakeReadFails`), and `stop()` with it, before it has waited for
any run. If the close awaits it by then, it skips the waits that are left, closes HTTP, frees the lock
and reports the error, while runs go on (`failed`). If the close still waits for a caller or the worker,
nobody has taken the rejection and Node ends the process, which keeps its lock (`dead`). A process
that has failed its close lives until its runs have ended, or is killed after it has
freed the lock (`gone`). `Die` is the other end of a process, `Restart` the next start with
its reconciliation and requests, when the process before has ended. A restart after a death with the
lock is a takeover of the lock, which takes longer than the
tolerance of heartbeats; a lock removed by hand within that time is left out
(section 13).

**Properties.** `OneRunAtATime`: worker, resumption and callers never run one
Mission twice, although each looks at a registry that is some awaits older.
`QueueInOrder`: what the worker runs has had its turn, although queue and Missions
change between pick, record and start. `ClosedIsQuiet`: a close that reports no error has left
nothing running, neither what `stop()` waited for nor what the last tick launched; and no close, failed
or not, cuts a caller off. After a failed one the runs of worker and resumption may go on
without the lock (section 13). `DueIsTaken`: whatever waits for time, for
its turn, for a request or for a service that died under its Attempt is run, unless
something that needs a person comes in between. `WakeIsKept`, its safety half, proved:
no step - of L3, of a close, a death or a restart - makes a Mission stop waiting except one
that takes it up or needs a person, and a driver that took it up runs it, finds
it run by another, or dies with the process.

## 10 Inbox

**State.** `mission` keeps of each Mission what L3 has to do with: whether it is
worked on, waits for its review or is over, who asked which question and how many are
answered, the coordinator's Attempt and the one that submitted last. `row` are the
Deliveries by idempotency key: absent, pending, acknowledged. `binding` and `active`
are the files of the registry of chats, `ledger` the file of what was queued,
`bridge` where the daemon is in `pollOnce`. `heard` is not in the code: what the chats
were told of each key, and "known" where the bridge cannot know it (the message of a
killed process, a row a person took, an entry that has left the ledger). `reused` marks the keys
under which an Attempt has submitted again.

**Steps.** Each command of the platform is one transaction (`Escalate`, `Answer`,
`Submit`, `SendBack`, `End`, `NextAttempt`, `AckByHand`), and so is each row the periodic repair
adds (`Repair`). `Register`, `RegisterRecipient` and `TakeOver` are the three ways into
the registry. The daemon is started by `EnsureBridge` and goes through its routes
(`PollBegin`, `FetchOk`, `FetchFails`), the rows of an answer in any order (`Send`), and for each the message
(`QueueOk`, `QueueFails`), the ledger (`Remember`) and the acknowledgement (`Ack`). It
dies at any of them (`Die`). A message or a write of the ledger that fails (`QueueFails`,
`RememberFails`) ends this Delivery only; the next one has its turn and this one is told at the next
poll, for the second time if it was the ledger that failed. Which of two equal chats is taken is a
free choice: the code takes the one that came last.

**Properties.** `ImplementsMailbox`: rows are the letters of a Mailbox, which wait until the
receiver knows of them or nobody waits for them any more, and what is moot stays moot.
`AckedWasHeard`, proved only: a row leaves the inbox only when somebody has it or
its matter is over for good. The answer the bridge acts on may be many messages
old; it is safe because only "over" is acted on without a message, and what is over
stays so. `ToldOnce`: a message is repeated only for a reason the ledger cannot know;
a failed acknowledgement is retried alone. `DueIsHeard`: an open question or the
last result reaches the living chat it is for, although daemons die, rows are missing
and another chat is dead and fails at every poll. `DueIsNotDropped`, its safety half, proved:
whatever L3 has to look at has its row in the inbox or is one the repair adds, was told, or its key was
taken again; neither the number an Attempt submits under nor the rows other Attempts left
make it look superseded.

## 11 Runs, bounds and fairness

| run | question | instance | states |
|---|---|---|---|
| `lock_writers` | types, mutual exclusion, refinement | 3 processes, stale after 1 tick, 2 writes | 15 k |
| `store_commands` | types, atomicity, ids, archive, refinement, liveness | 2 commands and 2 outside writes, one of each about the archived Mission; 1 crash, 1 failing write | 40 k |
| `hop_capacity` | types, capacity, two hops in one lane | 2 runners, coordinator and impact hop of one Mission in one lane, a runtime with limit 1, 2 contract revisions, 2 generations, lease 1, at most 2 rows | 389 k |
| `hop_slot` | one slot's life, refinement, liveness | 2 runners, 1 slot, 2 cycles, 2 generations, 2 attempts, 1 restart | 90 k |
| `circuit_reclaim` | types, reclaimer, liveness | a hop and a query on a candidate, 1 restart, sleep | 73 k |
| `lane_review` | types, review gates, refinement, liveness of dispatched items | 1 Mission, 2 items of which one (and the coordinator) runs into trouble, 2 revisions, partial results, 1 machine redispatch, silence limit 1, dead letter after 2 failures | 446 k |
| `lane_queues` | invariant C | 2 Missions of which one is paused and parked, 1 item each, an undisturbed coordinator and executor | 2.16 M |
| `final_landing` | types, what a red result takes away, signatures, anchors, unsafe outcomes | 2 Missions (ordinary: direct or verified; high assurance), 2 overlapping calls, 2 commits | 1.02 M |
| `hosting_drivers` | types, one run, order, close, liveness | 2 Missions of which one depends on the other, queued or not; 1 caller, 1 act of L3, 1 close that fails or not, or death | 191 k |
| `inbox_delivery` | types, repetition, refinement, liveness | 2 Missions of 2 chats (one dead, and bound to the whole inbox), 2 commands on one of them, rows present or missing at the start, ledger of 1, 1 death | 73 k |
| `lane_givenup` | divergence | 1 Mission, 1 item | - |
| `final_recorded` | divergence | 1 Mission, 1 commit | - |

**Why these bounds are enough to be interesting.** Three processes are a dead
holder and two that race for its lock; one tick separates fresh from stale; two
writes let a stale reader replace something. Two commands and two outside writes
let one of each be in a transaction, in the settle gap or in the archive of the
other. Two runners race on every
check and claim; two generations allow a lost lease, a takeover and a late
report of the first claim; two cycles allow a completed hop to be followed by
the next; two attempts separate retry from dead letter; a lease of one or two
ticks can run out at each await; two revisions make every stored revision stale
once; two Missions are what invariant C and an order of a queue are about; two items make a batch
dispatch and a round over several items; two failures of a row separate retry from dead letter, one
silent attempt that is counted from one that is wiped out by a failure. Two overlapping calls of
FinalMerge are all the windows of one against the merge, the reset or the mark of the other, of the
same Mission or of two; two commits let both merge, or a third party commit before, between or
after a merge, and a reset be followed by another merge; who wrote a commit makes no difference to a call. Two drivers of each kind meet on one Mission in Hosting: caller,
worker and resumption all run at once; one act of L3 can fall into any of their
awaits, one stop into any of the states they are in. In Inbox one Mission has been sent
back or is over with its question open, the other one waits in the same inbox; a
ledger of one forgets at the second message, one death can fall between any two writes. `MaxWork` 1 leaves out revised work in the landing run: versions
only decide whether a branch is in the target already. Its constraint `Bounded` lets only the
high-assurance Mission be synchronised and sent back (the mark is about that one), the other one be cancelled,
one of them at a time, and replaces the object of a call only while that call runs alone, for the
ordinary Mission, which awaits its review; the theorems have none of these restrictions. The bounds (`MaxRev`, `MaxCycle`,
`MaxGen`, `MaxCrash`, `MaxFail`, `MaxWrites`, `MaxCommits`, `MaxWork`, `MaxActs`, `MaxStops`, `MaxQuestions`, `MaxDeaths`, the constraint
`TwoRows` of `hop_capacity`) only cut counters off: an action at its bound is disabled
or refused, and no property mentions them. What they hide - more processes, calls, runners, hops,
Missions, generations - the theorems cover. `Pausable` and `Fragile` of MissionLane choose who is
paused and parked in an instance, and whose attempts fail, are killed, come back partial or are retired; the
code asks neither. A small `Pausable` or `Fragile` saves states; the theorems hold for all of them.
`HopLimit` and `CandidateLimit` are constants of the code. Symmetry is used over processes, runners
or calls, never together with a liveness property.

`CHECK_DEADLOCK FALSE` where a system may be done: all Missions have
ended and their loops are idle, all calls have returned, all processes are dead
and cleaned up, or nothing is queued and asked for.

**Fairness** is stated per component and comes from the code:

- FileStore: promises resolve and the function of a command ends (`CommandStep`,
  `OutsideStep` per call), an archive that has begun goes on (`ArchiveIndex`). New calls,
  crashes and failures are not assumed.
- HopQueue: a pending promise resolves (`Acquire`, `Settle`); an agent ends,
  because the wall clock of `#runHop` kills it (`EndRun`); time passes (`Tick`).
  Nothing is assumed about new hops, operators or restarts.
- CandidateCircuit: promises resolve and agents end (`HopStep`, `QueryStep`),
  the heartbeat timer fires while its hop runs, the retry-wake tick runs
  (`Reclaim`), and time passes. Time is disabled while promises are pending, so
  it needs strong fairness; the pending chains themselves are finite.
- MissionLane: the loop goes on (`LoopStep`): its promises resolve and hops are
  bounded by the wall clock. A run that stopped with a time to resume is taken up by the retry
  wake (`AutoResume`, for the Missions it drives: it skips those in the queue); one without
  waits for a person, which the property says. And, strongly, an executor's hop that is asked for again
  and again is given at last (`PickItem`): back-offs run out, candidates and capacity return. Agents
  are never assumed to call anything; that they may stay silent is the point of `DispatchedSettles`.
  That attempts do not fail for ever is a premise of the property, not fairness.
- Hosting: timers tick and promises resolve (the queue worker with its run, the
  tick of the retry wake, the process that closes or starts again, each caller,
  each resumption), back-off times are reached (`Ripen`), and, strongly, among the
  runs some end (`EndRun`: agents have a wall clock), and a look at a Mission (`Launch`) or a
  record of a resumption (`Record`) that is tried again and again succeeds once. A read of the
  queue or of the due list may fail for ever. Nothing is assumed about L3 and operators.
- Inbox: the repair is periodic (`Repair`), a timer of every MCP server calls
  `ensureBridge`, the loop of the daemon goes on (`Poll`), and strongly, per inbox, a query that is
  repeated for ever is answered at last, and living chats cannot refuse for ever
  what they were not told (`FirstTold`). Nothing is assumed about who registers,
  answers or acknowledges, and an acknowledgement may fail for ever.
- FinalMerge has no liveness property: any call may die. Neither has MainLock:
  who asks is refused, not queued.

Every property of a passing run has a mutant in PROJECT.json that breaks it.

## 12 Proofs

All theorems hold for every value of the constants that satisfies the named
assumptions (`FiniteAssumption`, `AttributeAssumption`, `LimitAssumption`,
`TimeAssumption`, `RunAssumption`, `BoundAssumption`, `ReasonAssumption`,
`InstanceAssumption`, `PathAssumption`, `NameAssumption`,
`RevisionAssumption`, `ProcAssumption`, `CallAssumption`, `JobAssumption`,
`ModeAssumption`, `LineAssumption`, `OfferAssumption`, `StartAssumption`). They only say what the constants are: limits, times and
attempts positive, attributes functions of the right type, finitely many slots and
commands, which ways of finalizing a Mission may have, names distinct. Every safety property
that a passing run checks is proved, the five refinements (`ImplementsLog`,
`ImplementsLease`, `ImplementsSoleWriter`, `ImplementsReview`, `ImplementsMailbox`) included.

Some properties are proved without a run that lists them. `LastWriterKnows`,
`ExecutesCheckedContract` and `AckedWasHeard` are consequences of a refinement or
of the invariant behind it; `FailuresCounted`, `SettledIsFinal`, `TakeoverLeavesTrace`,
`SomebodyGoes`, `OneFirst`, `NotOvertaken`, `WakeIsKept` and `DueIsNotDropped`
were model-checked on the constants of the runs before they were proved. Three of them are the safety
halves of liveness properties: that nothing is ever stuck or dropped is proved, that
what is not stuck gets there under fairness stays with TLC.

**MainLockProofs.** `Typed`, `SingleWriter`, `LiveLocksStay`, `NoLostUpdate`,
`TakeoversAudited`, `Refinement`, for any number of processes. The invariant says who is where:
whoever is inside the gate made it (`GateOwner`), whoever has taken the lock made the directory
(`LockOwner`), and what a takeover has assessed is dead, with the directory still
that of the dead or gone (`Proven`). The last is the heart: it stays true while others move because
a dead process makes no directory again and everyone else who could
make one is outside the gate. `Opened` says that an open store has the version of
the file; it is kept because writers are alone. `Traced` follows the audit. `Refinement`
follows who joins or leaves the owners: `AcquireOwners` and `TakeOverOwners` show that a process
that becomes one finds none, which is `LockOwner` and `Proven` again, `HoldOwners` and
`CrashOwners` that reads and writes are those of the one owner.

**FileStoreProofs.** `Typed`, `FailedIsGone`, `IdsAreNew`, `NothingDurableGoes`,
`LogImplemented`, `TurnsAreGiven`. The invariant: commands queue once (`QueuedOnce`), one
transaction is open at most and is that of the call in its turn (`OneTx`), file,
snapshot and memory are ordered (`Backed`), the package agrees with memory between
the two files of an archive (`Archiving`), every row is accounted for by the state of its call
(`Accounted`), and what a command has written is there (`Kept`). `Numbered` ties
ids to the counter next to the row, in memory and in the file, which is what makes
them new after a reload. The refinement maps `Commit` to the log's Commit and everything before to
a stutter; a crash may lose only calls that were not answered. `TurnsAreGiven` adds
where those who wait are (`InPlace`): a queued command is in the queue, and an outside write
waits only while a transaction is open.

**HopQueueProofs.** `TypeCorrect`, `FailuresAreCounted`, `DecisionsAreFinal`,
`LiveLeasesAreKept`, `Refinement`, `CapacityIsRespected`, `AgentsAlone`,
`SlotsOpenOnce`, `OneHopFirst`, `PeersDoNotOvertake`. The proof first reduces
the actions to what a step can do to the queue (`QueueSteps`: claim, enqueue,
renew, complete, report, time), so each property is argued about six kinds of
step. The inductive invariant is `IInv == TypeOK /\ FailuresCounted /\
ClaimedRows`. `TypeOK` alone is not inductive: a report adds one to the count of
a row, which stays in its type only because a claimed row has not reached the
limit; and failures are bounded by generations only because a claimed row has
not yet counted a failure for its generation, which `ClaimedRows` adds.
`LiveLeasesAreKept` and `DecisionsAreFinal` follow from it step by step.
`Refinement` maps generation to epoch, live lease to holder, completed or dead
to done: a claim is Take, a completion or dead letter Decide, everything else
- expiry of several leases in one tick included - Lapse or a stutter.
`CapacityIsRespected` needs cardinalities: a claim adds one hop to the sets
`Sharing` it found below their limit, and every other step only shrinks them
(`ClaimFits`, `FewerLeases`). `AgentsAlone` adds that a run with an agent is the
one its lane's Attempt belongs to (`LaneInv`); only `Start` makes one, and it finds
the lane without an Attempt in progress. `SlotsOpenOnce` adds that cycles are opened in order
(`CyclesInOrder`) and that a run which has looked, however long ago, saw all earlier
cycles completed (`LookedInOrder`), which stays so because decisions are final; the
last cycle of a slot exists by well-foundedness of finite sets (`LastCycle`).
`AgeInv` says that no two rows are of one age and none is older than the count of rows. Then rank is a
total order (`RankOrder`, `RankTotal`), a finite queue has a first hop (`SomeRowFirst`,
again by well-foundedness), and a row that is new or queued again is behind
its peers (`PeersStay`), because no step renews an age (`AgeStays`).

**CandidateCircuitProofs.** `TypeCorrect` and `LeasedProbesAreSpared`. The
property is not inductive: between reading the queue and resetting, a hop must
not *become* a leased, long-running holder of a probe on the reset list. The
invariant (`HopSafe` per hop, `NoResets` outside the resetting phase) says that
a hop which was running when time last passed cannot be on the list: time does
not pass while the reclaimer works, so such a hop held its lease when the queue
was read.

**MissionLaneProofs.** `TypeCorrect`, `OneLane`, `DeliveredFinished`,
`CurrentContract`, `CheckedContract`, `Refinement`. Invariant: `TypeOK`, a conjunct `Local(m)` per Mission
(contract and result revisions, delivered items finished, an item that runs is
below its silence limit) and invariant C itself. Each action has a lemma that
it changes one Mission only, keeps `Local`, and makes it mutating only if no
other Mission is (`Good`); `GoodKeeps` and `StepKeeps` add them up. The bound on
silent attempts is what makes `TypeOK` need `Local`. The many steps of loop, hop and resumption that
leave the Mission alone prove one thing more, that they open no item (`Settling`;
both together are `Quiet`), and that is all `Refinement` has to know of them
(`SettlingSeen`). What is left are the commands: each maps to one step of
ReviewedWork or to a stutter, and what it leaves alone of a Mission it leaves
alone of its abstract state. `Local` supplies what the abstract guards ask for
(checked contract, finished items), `OneMutatingMission` the free lane.

**FinalMergeProofs.** `TypeCorrect`, `AnchorsAreKept`, `OthersAreKept`, `UnsafeIsLeftAlone`,
`SignaturesAreTested`, all for any number of overlapping calls and any number of Missions, with
no assumption on who calls when. `AnchorInv` says that a call past the anchor step has its
Mission anchored and that every anchor a reset may go back to holds only code that
is anchored itself; without the second half a reset could bring back code without
an event. For `OthersAreKept` two facts are enough: only calls that are not direct reset (`ResetInv`),
and a step of one call leaves the others what they know (`StepsOrStands`). A commit that no
call may erase is not what is reset by the next step (`OwnStepSpares`), and no step opens a window on it
(`KeptStep`): a look at the head takes in what is erasable already, and a base check that
succeeds has the commit in its anchor. `UnsafeIsLeftAlone` follows from who is marked
(`MarkedHa`: high-assurance Missions only) and from what a Mission is left with once it is marked and
all its calls are at the question (`Stopped`, `StoppedHolds`): the question is answered
with no. `LandInv` follows each call that is not `undercut`: what it merged is in the target, what
it tested is between its merge and the target, and at the end merge and test are one
revision; a reset by another call that takes this away is what makes it undercut, by definition of
the history variable. `Continues` (what most steps leave alone in a
call), `SameResults` and `TargetSteps` (what a step can do to the target) keep the
case analyses short.

**HostingProofs.** `Typed`, `RunsAlone`, `TurnsAreKept`, `QuietWhenClosed`, `WakesAreKept`,
for any number of Missions and callers. `TypeOK` says that the reservations are exactly the
runs inside, `One` that no two are inside for one Mission; each is inductive only with the
other. `Turn` holds because a queue only grows at its end and what is completed stays
so. `Quiet` is what the close may count on, and where a `stop()` that rejects breaks in: while the
process drains there is no tick and every resumption at work is one it waits for, so a close that ends without an error
leaves nothing at work; one that ends with an error skipped some of these waits, and
keeps only that the callers were waited for (`Drained`), which is why no close
cuts off a caller. The retry wake launches only what is not in its map. `Working` ties an
Attempt to a run until the process dies. `WakesAreKept` looks at every step
with `Steady` (what a step may do to a Mission that waits outside the queue: it stays due,
is taken up or is stopped by a gate), with `QueuedStays` for those in the queue, and with one invariant more, `Own`: the call
that resumes a Mission is that Mission's own.

**InboxProofs.** `Typed`, `NothingIsLost`, `NothingIsRepeated`, `Refinement`,
`NothingDueIsDropped`, for any number of Missions, chats and rows. `InHand` is the heart: what the daemon holds with the answer
"over" is over, now (`OverKept`: no command makes it open again but a submission, whose
key then is in `reused`), what it will acknowledge has been told or is over, and
what it will send has not been told. `Ledgered` ties the ledger to what was heard; for
`Remember` it needs what the ledger holds after the oldest were forgotten
(`NewerHolds`, over sequences without repetition). `Numbered` keeps rows of
results behind the Attempt that submitted last, so that the newest row is that one's.
The refinement needs that what is moot stays moot, which is `OverKept` for each command;
a row that is added twice, a message told twice and the life of the daemon are stutters.
`RowsSubmitted` sharpens `Numbered` for `NothingDueIsDropped`: no row of a result is ahead of
the last submission.

**Only model-checked.** The liveness properties `LeaseReturns`, `ProbeReturns`,
`DispatchedSettles`, `CallsReturn`, `DueIsTaken`, `DueIsHeard`:
liveness under fairness and ENABLED are beyond the proof system used, as is
induction over data and anything with RECURSIVE operators, of which there is
none here.

## 13 Divergences

Runs that TLC is expected to find violated; each is a statement of a document
or comment that the code does not keep. Details and quotes are in `findings`.

- `lane_givenup` (a bug): silent attempts are counted over all attempts of an
  item, so an item that was given up, revised and dispatched again is given up
  again at once.
- `final_recorded` (a bug): a refused command of another Mission of the project
  aborts its transaction and thereby replaces every Mission object of the project.
  A verification in progress completes the object it still holds: merge and event
  are there, the Mission still awaits review.

Seen while modelling, contained in the models, without a run of their own:

- `A/reconcile.ts:100`: the reconciliation of a restart closes the Attempts of
  coordinators and executors, not those of independent reviewers (`Reconciled` of
  Hosting). One that a death has left in progress refuses every later review
  (`kernel/mission.ts:590`) and keeps its Mission out of the queue
  (`P/mission-queue.ts:77`); `main.ts:309` says that no Attempt can be alive then.
- `P/mission-control.ts:100`: the key of a submission is its Attempt. One that is still
  there when L3 sends the Mission back, and submits again, finds the key taken: no row,
  nobody is woken (`Submit` of Inbox), although `A/delivery.ts:10` promises a Delivery for each.
- `P/mutation-lane.ts:19`: `acquireMutationSlotForDispatch` records `project_busy`
  and throws inside a transaction, which always rolls the reason back (`main.ts:280`); the loop does not
  rest but calls the coordinator again, round after round.
- `A/orchestrator.ts:2019`: a failed attempt ends the tail of silent attempts, a completed row
  resets the count of failures. An executor that is silent and fails in turn reaches neither
  `WORK_ITEM_NO_RESULT_LIMIT` nor the dead letter and is run for ever: the premise of
  `DispatchedSettles`.
- `A/durable-scheduler.ts:662`: a dead letter keeps its slot, Mission, item and contract revision. An item
  that is revised and dispatched again under the same contract (`P/stalled-work-item.ts:104` tells
  its reader to do so) is parked on the old dead letter, without a time to
  resume (`A/orchestrator.ts:3429`).
- `P/auto-resume.ts:536`: after a death, every dispatched item that has ever had an attempt is blocked,
  including one that was revised since and has not been tried.
- `A/workspace.ts:541`, `:800`: head and base, or head and merge, are compared in one
  git process and acted upon in a later one; a commit that lands between them is on
  the branch when the red verification resets it, and is gone. Nothing serialises
  finalizations either: of two that both pass the base check, one that turns red resets the target to its
  anchor and takes away the merge by which the other has been completed (`MayErase`).
- `P/final-review.ts`, A-B-A: a call compares the head before and after its verification. If
  another one merges and is reset in between, both looks see the same revision, and
  the signature is for one the verification did not run on (`undercut`).
- `src/main.ts:706`: a tick in flight that rejects makes `stop()` reject (`A/mission-queue-worker.ts:58`,
  `A/retry-wake.ts:178`) before it has waited for the runs; HTTP is closed and the lock freed all the same,
  while runs go on, may launch one resumption more and write the state file without the
  lock. A service started next to it may run the same Mission: "One Mission never has two hosted
  runs at once" of auto-resume.md holds per process only.
- `src/main.ts:686`: the comment says that HTTP is closed and the lock freed whether stop succeeds or fails.
  If `stop()` rejects while the close still awaits the callers (1140-1144), nobody handles the
  rejection: Node ends the process, with its lock.
- `A/file-store.ts:612`: the comment at 609 says that writes outside wait for the
  open transaction; settle returns a turn of the event loop before its caller
  writes, and a transaction that begins there takes the row away when it aborts.
- `P/mission-queue.ts`, `Heads`: a cancelled Mission is `blocked`, not completed, and keeps
  the head of the queue for good.
- `A/retry-wake.ts`, `Record`: the request is consumed by the record of the resumption, before
  the run has started; a service that dies in between restarts without it unless the
  Mission has no reason to wait (hence the excuse in `DueIsTaken`).
- `P/ticket-budget.ts:204`: raising the cap asks for the continuation before the card
  of the gate is closed at 205; `P/auto-resume.ts:456` drops the request because the card
  is open (auto-resume.md:7). Approving a checkpoint leaves its card open altogether.
- `A/orchestrator.ts:3233`: between the second look at a Mission and the start of
  its agent nothing asks for pause or revision again (durable-scheduler.md:9).
- `A/orchestrator.ts:3322`: a hop waits behind queued rows that can never run
  (comment at 3317).
- `A/orchestrator.ts:2857`: a late failure replaces "until an operator acts" by a
  deadline (candidate-circuit.md, quota failure without reset time).
- `A/candidate-circuit.ts:152`: a half-open circuit does not know who claimed its
  probe: after a late failure of an ordinary run two probes may be on their way.
- `A/orchestrator.ts:802`: the items of a round are still run after a revision
  sent the Mission back to planning (comment at 800).
- `P/work-item-dispatch.ts:59`: an item that was partial, then completed and
  accepted, can be neither dispatched again nor revised (work-order-handoff.md:11).
- `P/mission-lifecycle.ts:135`: a Mission can be parked while its executor works;
  another one takes the slot and two executors change code (mission-parking.md:5).
- `A/orchestrator.ts:2780`: a run that lost its lease throws in its `finally` block
  before the token is revoked (run-token-lifecycle.md:16).
- `P/probe-reclaim.ts:131`: the reclaimer resets what it saw half-open several
  awaits ago, whatever the circuit is by now (candidate-circuit.md:9).
- `P/final-review.ts:145`: a Mission that is cancelled or sent back while its merge
  is verified has landed all the same; if it is submitted again meanwhile, the
  call completes it with the earlier work.
- `P/final-review.ts:49`: after a death between merge and completion the direct
  retry finds another head than the base and blocks the Mission; one that was
  synchronised first merges nothing and, when red, reports a reset that removes
  nothing.
- `P/stranded-work-item.ts:125`: only items that the machine dispatched are
  recovered; others stay dispatched in planning (`P/work-order-helpers.ts:19`).

Seen while reading, outside what the models contain:

- `A/orchestrator.ts:689`: a queued Mission that is paused while it runs stops with
  `cancelled_by_user`, which `resumeMission` (`P/mission-lifecycle.ts:191`) does not
  clear and the queue does not take: it stays at the head. In Hosting it is the reason `manual`.
- A queued Mission that stops at `attempt_limit_reached`, `runaway` or
  `platform_unreachable` with a time to resume is left alone by both drivers: the
  queue does not take the reason, the retry wake skips what is queued.
- `A/reconcile.ts:104`: an Attempt whose heartbeat is still fresh when a service is
  restarted within seconds after its lock was removed by hand is judged alive and
  looked at by nobody until the next restart.
- `l3-mcp-server/src/l3-daemon.ts:66`: two daemons that find the pid file of a dead one can
  both remove it, the slower one that of the faster; both then poll and send.
- `P/delivery-status.ts:28`: the newest result is the one with the latest `createdAt`; a clock that
  was set back makes the older row the newest, and the newer one is acknowledged unheard.
- `A/reconcile.ts:565`: the repair finds the identity of a lightweight submission in conflict,
  since its event has a report and an Attempt; such a row is never added.
- A lightweight Mission whose service died after delivery and before the machine
  finalized it waits at the head of the queue; the worker takes open Missions only.
- `requestSafeShutdown` pauses the runs that are registered, not those that are
  reserved and still prepare.

## 14 What is not modelled

In MainLock: instance ids and `since`, the clock, the read-only probe. In FileStore:
`refreshIfChanged` of read-only processes, snapshots and their migration, rows by kind.
In HopQueue: the choice of the candidate (CandidateCircuit), the single-row claim
used without a capacity repository, the reviewer's variant of the run. In
CandidateCircuit: which text means which failure. In MissionLane: direct,
lightweight and high-assurance modes, plans, escalations, tickets and budgets,
which delay or forbid a round; criteria of the result; crashes of the process
during a round; waiting for capacity (HopQueue); the preflight of a workspace, which always answers
that it is in order. In FinalMerge: who may sign (identities, policies, criteria),
the checked-out branch and uncommitted files of the target, Missions without code,
the work a worktree loses when it is released. In Hosting: several projects,
parking and `project_busy`, safe shutdown and its second signal, the throttle of a driver that failed, the limits a
resumption is skipped for (`prepareAutoResume` after dead letters and runaways), what
the budget has used up (a gate may close at any round), a second process that is started
next to one whose close has failed. In Inbox: the claim of the pid file,
a fixed recipient in the environment, chats registered without a recipient, the health
file and the back-off of a failed poll, formats older than the keys and the registry,
archived Missions, what an answer decides. Contract, order and report texts are nowhere looked at.

Whole components are left out, and with them most lines of the repository. HTTP
routing (`api/server.ts`), the web consoles under `web/`, report formatting,
context building, policy tables and model selection are pure functions or input and
output without a protocol: a model of them would be their text again. The adapters
under `adapters/` and the agent runtimes are external programs that the modules see
as agents that end. Git is seen as the sets of commits of FinalMerge, the file
system as the calls of MainLock and the two files of FileStore. Change
requests, plan runs, query runs and the document queue do have
protocols of their own and are open (section 15); PROJECT.json says of each what it is.
The modules cover the parts every Mission passes through; the lines `map` names
are a small share of the repository and the larger part of its concurrency.

## 15 Plan

1. `ChangeRequests`: request, impact, receipt, coverage, with the hops they queue in HopQueue.
2. `PlanRun`, `QueryRun` with promotion, `DocumentQueue`; the checkpoint protocol of
   `A/workspace.ts`; agent processes and their idle timeouts.
3. `HopBackoff` and budget accounting as pure modules against reference
   definitions.
4. Proofs: an abstract specification of the candidate's probe (one holder, released
   or reclaimed) that CandidateCircuit implements; the same for the guard of Hosting;
   what of `LeaseReturns` and `DispatchedSettles` is safety, as was done for
   the other liveness properties.
