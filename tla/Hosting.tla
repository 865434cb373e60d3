------------------------------ MODULE Hosting ------------------------------
(***************************************************************************)
(* Who runs a Mission in the resident service: callers of POST run-mission *)
(* (api/server.ts), the queue worker (mission-queue-worker.ts) and the     *)
(* automatic resumption (retry-wake.ts), which all go through one guarded  *)
(* runMission (main.ts), together with the acts of L3, the close of the    *)
(* service, its death, and the reconciliation of the next start.           *)
(*                                                                         *)
(* One project.  A step is what happens between two awaits.  Clock time is *)
(* left to the steps Ripen and Next; the loop of the orchestrator is seen  *)
(* from outside only (module MissionLane has it).                          *)
(***************************************************************************)
EXTENDS Integers, Sequences, FiniteSets, SequencesExt

CONSTANTS
  Missions,
  Lines,          \* queues the service may find
  Known,          \* Missions with a run_requested from before
  Callers,        \* HTTP clients
  Called,         \* Missions they call for
  Worker,         \* the queue worker; its one slot for the project
  Lightweight,    \* Missions the worker has finalized by machine
  HighAssurance,  \* Missions with an independent review
  DependsOn,      \* [Missions -> SUBSET Missions], frozen when queued
  MaxWaking,      \* maxConcurrent of RetryWakeScheduler
  MaxActs,        \* bound: calls of POST run-mission and acts of L3
  MaxStops        \* bound: closes and deaths of the service

ASSUME JobAssumption == Missions \cap Callers = {} /\ Worker \notin Missions \cup Callers
ASSUME ModeAssumption ==
  /\ Called \subseteq Missions
  /\ Lightweight \subseteq Missions /\ HighAssurance \subseteq Missions
  /\ DependsOn \in [Missions -> SUBSET Missions]
ASSUME LineAssumption == Lines \subseteq Seq(Missions)
ASSUME BoundAssumption == MaxWaking \in Nat /\ MaxActs \in Nat /\ MaxStops \in Nat

(* A Mission as a job is its entry in the running map of RetryWakeScheduler. *)
Jobs == Callers \cup {Worker} \cup Missions

VARIABLES
  mission,  \* the stored Missions and their events
  line,     \* mission.queued in the order of position
  job,      \* [Jobs -> where the call is, about which Mission]
  active,   \* reservations of HostedMissionGuard
  scan,     \* the tick of RetryWakeScheduler: what listDue gave, what it looks at
  server,   \* the process: up, its close (closing, draining), its end
  waits,    \* the resumptions stop() waits for
  cut,      \* Missions with an event right before the process died
  acts, stops

vars == <<mission, line, job, active, scan, server, waits, cut, acts, stops>>

-----------------------------------------------------------------------------
(* Types.  wait stands for the reasons the drivers tell apart: backoff     *)
(* (retry_backoff, no_available_agent) until waitResumeAt and ripe after   *)
(* it, l3, hold (holdQueuedMission), the two gates of the ticket budget    *)
(* and manual (the other hard gates).  held: paused, and open escalations: *)
(* the cards of the gates and those of agents (asking).  asked: the last   *)
(* resume_requested is later than the last auto_resumed.  known: there is  *)
(* a run_requested.  mutating: Mission.isMutating.                         *)
Gates == {"cap", "point"}   \* cost cap, work item checkpoint
Cards == Gates \cup {"asking"}

States == [st: {"open", "review", "completed", "blocked"},
           wait: {"none", "backoff", "ripe", "l3", "hold", "manual"} \cup Gates,
           held: SUBSET (Cards \cup {"paused"}),
           mutating: BOOLEAN,
           attempt: {"none", "work", "review"},
           asked: BOOLEAN, known: BOOLEAN]

Fresh(known) ==
  [st |-> "open", wait |-> "none", held |-> {}, mutating |-> FALSE, attempt |-> "none",
   asked |-> FALSE, known |-> known]

Inside  == {"begun", "preparing", "running", "leaving", "throwing"}
Tracked == Inside \ {"begun"}
PCs     == {"idle", "picked", "record", "call", "after", "holding"} \cup Inside

Idle == [pc |-> "idle", m |-> "none"]
At(pc, m) == [pc |-> pc, m |-> m]
NoScan == [on |-> FALSE, due |-> {}, look |-> {}]

On(j, pc) == job[j].pc = pc
Goto(j, pc) == job' = [job EXCEPT ![j].pc = pc]
Back(j) == job' = [job EXCEPT ![j] = Idle]
Set(m, r) == mission' = [mission EXCEPT ![m] = r]

(* closing: stop() of the resumption waits for its tick; draining: for the *)
(* resumptions there are.  down and failed: HTTP is closed and the lock    *)
(* freed, without and with an error of stop().  dead: the process ended    *)
(* with its lock; gone: after it had freed it.                             *)
Servers == {"up", "closing", "draining", "down", "failed", "dead", "gone"}

Stopped == server # "up"
Alive == server \in {"up", "closing", "draining"}
Dead == server \in {"dead", "gone"}

Terminal(m) == mission[m].st \in {"completed", "blocked"}
OtherMutating(m) == \E n \in Missions \ {m} : mission[n].mutating
Queued(m) == Contains(line, m)

(* A Mission that ends gives the slot of the project back. *)
Ends(r, st) == [r EXCEPT !.st = st, !.mutating = FALSE]

Waking == {m \in Missions : job[m] # Idle}
RunningNow == {job[j].m : j \in {k \in Jobs : job[k].pc \in Tracked}}

-----------------------------------------------------------------------------
(* hostedContinuationDue and listAutoResumeDue. *)
Hard == Gates \cup {"manual"}

MayContinue(r) == r.held = {} /\ r.st = "open" /\ r.wait \notin Hard

(* requestHostedContinuation, in the state the act has brought about. *)
Requested(m, r) ==
  IF MayContinue(r) /\ r.known /\ ~Queued(m) THEN [r EXCEPT !.asked = TRUE] ELSE r

Ripe(r) == r.held = {} /\ r.st = "open" /\ r.wait = "ripe"

Due(m) ==
  LET r == mission[m] IN
  \/ Ripe(r)
  \/ r.asked /\ MayContinue(r) /\ r.known /\ ~Queued(m)

\* Mutation: a delivered Mission lets the next one in.
Settled_Delivered(m) == mission[m].st \in {"completed", "review"}

(* readMissionQueue. *)
Settled(m) == mission[m].st = "completed"

Earlier(m) == {line[k] : k \in {i \in 1..Len(line) : \E n \in (i + 1)..Len(line) : line[n] = m}}

(* The entry whose turn it is.  No Mission has the status cancelled: a     *)
(* cancelled one is blocked and keeps its turn.                            *)
Heads == {m \in Missions : Queued(m) /\ ~Settled(m) /\ \A n \in Earlier(m) : Settled(n)}

Eligible(m) ==
  LET r == mission[m] IN
  /\ m \in Heads
  /\ \A n \in DependsOn[m] : Settled(n)
  /\ r.held = {} /\ r.attempt = "none"
  /\ r.st = "open"
  /\ r.wait \in {"none", "backoff", "ripe"}
  /\ ~OtherMutating(m)

Init ==
  /\ mission = [m \in Missions |-> Fresh(m \in Known)]
  /\ line \in Lines
  /\ job = [j \in Jobs |-> Idle]
  /\ active = {}
  /\ scan = NoScan
  /\ server = "up" /\ waits = {} /\ cut = {}
  /\ acts = 0 /\ stops = 0

-----------------------------------------------------------------------------
(* runMission: the guard, then runHostedMission.                           *)

Act == acts < MaxActs /\ acts' = acts + 1

\* Mutation: the reservation is made with the registration, awaits later.
Free_Tracked(m) == m \notin RunningNow

(* Test and reservation have no await between them. *)
Free(m) == m \notin active

(* A caller is accepted unless the service drains (startHostedRun). *)
Accept(j, m) ==
  /\ j \in Callers /\ On(j, "idle") /\ server = "up" /\ Act
  /\ job' = [job EXCEPT ![j] = At("call", m)]
  /\ UNCHANGED <<mission, line, active, scan, server, waits, cut, stops>>

(* What a call does when it has returned: the worker looks at the Mission, *)
(* a resumption leaves the running map, a caller gets its exit code.       *)
Returned(j) == IF j = Worker THEN Goto(j, "after") ELSE Back(j)
Thrown(j)   == IF j = Worker THEN Goto(j, "holding") ELSE Back(j)

Enter(j) ==
  LET m == job[j].m IN
  /\ On(j, "call")
  /\ \/ Free(m) /\ active' = active \cup {m} /\ Goto(j, "begun")
     \/ ~Free(m) /\ active' = active /\ Returned(j)
  /\ UNCHANGED <<mission, line, scan, server, waits, cut, acts, stops>>

(* onStarted and recordHostedRunRequest, whose failure is swallowed; or a  *)
(* body or a list of candidates that is refused before.                    *)
Started(j) ==
  LET m == job[j].m IN
  /\ On(j, "begun")
  /\ \/ /\ Goto(j, "preparing")
        /\ Set(m, [mission[m] EXCEPT !.known = TRUE]) \/ mission' = mission
     \/ Goto(j, "throwing") /\ mission' = mission
  /\ UNCHANGED <<line, active, scan, server, waits, cut, acts, stops>>

(* The orchestrator prepares the worktree, or fails to, and clears the     *)
(* reason of the last stop unless it is a ticket gate.                     *)
Prepare(j) ==
  LET m == job[j].m IN
  /\ On(j, "preparing")
  /\ \/ /\ Goto(j, "running")
        /\ Set(m, IF mission[m].wait \in Gates THEN mission[m]
                  ELSE [mission[m] EXCEPT !.wait = "none"])
     \/ Goto(j, "throwing") /\ mission' = mission
  /\ UNCHANGED <<line, active, scan, server, waits, cut, acts, stops>>

(* An Attempt of coordinator or executor, under the gates of the loop. *)
OpenAttempt(j) ==
  LET m == job[j].m  r == mission[m] IN
  /\ On(j, "running")
  /\ r.st = "open" /\ r.attempt = "none"
  /\ r.held = {} /\ r.wait \notin Gates
  /\ Set(m, [r EXCEPT !.attempt = "work"])
  /\ UNCHANGED <<line, job, active, scan, server, waits, cut, acts, stops>>

(* It ends; meanwhile the agent dispatched, delivered or escalated, as     *)
(* long as there is an API to do it.                                       *)
CloseAttempt(j) ==
  LET m == job[j].m  r == mission[m] IN
  /\ On(j, "running") /\ r.attempt # "none"
  /\ mission' \in
       {[mission EXCEPT ![m] = q] :
          q \in {[r EXCEPT !.attempt = "none"]}
            \cup IF r.attempt = "work" /\ r.st = "open" /\ Alive
                 THEN {[r EXCEPT !.attempt = "none", !.held = @ \cup {"asking"}],
                       [r EXCEPT !.attempt = "none", !.st = "review"]}
                      \cup (IF OtherMutating(m) THEN {}
                            ELSE {[r EXCEPT !.attempt = "none", !.mutating = TRUE]})
                 ELSE {}}
  /\ UNCHANGED <<line, job, active, scan, server, waits, cut, acts, stops>>

(* #runHaIndependentReview. *)
OpenReview(j) ==
  LET m == job[j].m  r == mission[m] IN
  /\ On(j, "running") /\ m \in HighAssurance
  /\ r.st = "review" /\ r.attempt = "none" /\ "paused" \notin r.held
  /\ Set(m, [r EXCEPT !.attempt = "review", !.wait = "l3"])
  /\ UNCHANGED <<line, job, active, scan, server, waits, cut, acts, stops>>

(* enforceMissionTicketGates, in the loop: the reason and its card. *)
AtGate(r, g) == [r EXCEPT !.wait = g, !.held = @ \cup {g}]

(* The loop stops, with the reasons it may leave.  A stalled one leaves    *)
(* none.                                                                   *)
Stops(m) ==
  LET r == mission[m]
      With(W) == {[r EXCEPT !.wait = w] : w \in W}
  IN IF "paused" \in r.held \/ r.st = "blocked" THEN With({"manual"})
     ELSE IF r.st = "completed" THEN {r}
     ELSE IF r.st = "review"
          THEN With({r.wait, "l3"} \cup (IF m \in HighAssurance THEN {"backoff"} ELSE {}))
     ELSE IF r.wait \in Gates THEN {AtGate(r, r.wait)}
     ELSE {AtGate(r, g) : g \in Gates}
            \cup IF r.held # {} THEN {r} ELSE With({"none", "backoff", "l3", "manual"})

(* A loop that throws changes nothing. *)
EndRun(j) ==
  LET m == job[j].m IN
  /\ On(j, "running") /\ mission[m].attempt = "none"
  /\ \/ (\E r \in Stops(m) : Set(m, r)) /\ Goto(j, "leaving")
     \/ mission' = mission /\ Goto(j, "throwing")
  /\ UNCHANGED <<line, active, scan, server, waits, cut, acts, stops>>

\* Mutation: a run that throws keeps its reservation.
Released_Return(j) == IF On(j, "throwing") THEN active ELSE active \ {job[j].m}

Released(j) == active \ {job[j].m}

(* The finally blocks: hostedRuns.finish and the release of the guard. *)
Leave(j) ==
  /\ job[j].pc \in {"leaving", "throwing"}
  /\ active' = Released(j)
  /\ IF On(j, "leaving") THEN Returned(j) ELSE Thrown(j)
  /\ UNCHANGED <<mission, line, scan, server, waits, cut, acts, stops>>

-----------------------------------------------------------------------------
(* The queue worker.                                                       *)

Pick(m) ==
  /\ On(Worker, "idle") /\ server = "up"
  /\ Eligible(m)
  /\ job' = [job EXCEPT ![Worker] = At("picked", m)]
  /\ UNCHANGED <<mission, line, active, scan, server, waits, cut, acts, stops>>

(* recordQueuedMissionStart reads the queue again; QUEUE_NOT_ELIGIBLE is   *)
(* forgotten, a wrong directory or branch holds the Mission.               *)
RecordStart ==
  LET m == job[Worker].m IN
  /\ On(Worker, "picked")
  /\ IF Eligible(m) THEN Goto(Worker, "call") \/ Goto(Worker, "holding") ELSE Back(Worker)
  /\ UNCHANGED <<mission, line, active, scan, server, waits, cut, acts, stops>>

(* A delivered Mission is finalized by machine if it is lightweight: it    *)
(* completes, waits for L3, or the call throws.                            *)
After ==
  LET m == job[Worker].m  r == mission[m] IN
  /\ On(Worker, "after")
  /\ IF r.st = "review" /\ m \in Lightweight
     THEN \/ Set(m, Ends(r, "completed")) /\ Back(Worker)
          \/ Set(m, [r EXCEPT !.wait = "l3"]) /\ Back(Worker)
          \/ Goto(Worker, "holding") /\ mission' = mission
     ELSE Back(Worker) /\ mission' = mission
  /\ UNCHANGED <<line, active, scan, server, waits, cut, acts, stops>>

(* holdQueuedMission: pause throws when the Mission is blocked. *)
Hold ==
  LET m == job[Worker].m  r == mission[m] IN
  /\ On(Worker, "holding")
  /\ Back(Worker)
  /\ Set(m, IF Terminal(m) THEN r
            ELSE [r EXCEPT !.held = @ \cup {"paused"}, !.wait = "hold"])
  /\ UNCHANGED <<line, active, scan, server, waits, cut, acts, stops>>

-----------------------------------------------------------------------------
(* RetryWakeScheduler.                                                     *)

Scan ==
  /\ server = "up" /\ ~scan.on
  /\ {m \in Missions : Due(m)} # {}
  /\ scan' = [on |-> TRUE, due |-> {m \in Missions : Due(m)}, look |-> {}]
  /\ UNCHANGED <<mission, line, job, active, server, waits, cut, acts, stops>>

Looking == scan.on /\ scan.look = {}

(* One round of the loop, up to the await of runDriver. *)
Look(m) ==
  /\ Looking /\ m \in scan.due
  /\ ~Stopped /\ Cardinality(Waking) < MaxWaking
  /\ scan' = [scan EXCEPT !.due = @ \ {m},
                          !.look = IF job[m] # Idle \/ m \in RunningNow THEN {} ELSE {m}]
  /\ UNCHANGED <<mission, line, job, active, server, waits, cut, acts, stops>>

(* runDriver and prepareAutoResume have answered; #launch.  Nothing asks   *)
(* again whether the scheduler was stopped.                                *)
Launch(m) ==
  /\ scan.on /\ scan.look = {m}
  /\ scan' = [scan EXCEPT !.look = {}]
  /\ job' = IF ~Queued(m) /\ mission[m].known
            THEN [job EXCEPT ![m] = At("record", m)] ELSE job
  /\ UNCHANGED <<mission, line, active, server, waits, cut, acts, stops>>

(* runDriver throws, and the tick with it, while the service is up: the    *)
(* rest waits for the next one.                                            *)
LookFails ==
  /\ scan.look # {} /\ server = "up"
  /\ scan' = NoScan
  /\ UNCHANGED <<mission, line, job, active, server, waits, cut, acts, stops>>

EndScan ==
  /\ Looking
  /\ scan.due = {} \/ Stopped \/ Cardinality(Waking) >= MaxWaking
  /\ scan' = NoScan
  /\ UNCHANGED <<mission, line, job, active, server, waits, cut, acts, stops>>

(* recordAutoResume consumes the request; if it fails nothing is started. *)
Record(m) ==
  /\ On(m, "record")
  /\ Set(m, [mission[m] EXCEPT !.asked = FALSE])
  /\ Goto(m, "call")
  /\ UNCHANGED <<line, active, scan, server, waits, cut, acts, stops>>

RecordFails(m) ==
  /\ On(m, "record")
  /\ Back(m)
  /\ UNCHANGED <<mission, line, active, scan, server, waits, cut, acts, stops>>

-----------------------------------------------------------------------------
(* Acts of L3 and time.                                                    *)

L3(m, r) == Set(m, r) /\ UNCHANGED <<job, active, scan, server, waits, cut, stops>>

Enqueue(m) ==
  /\ Alive /\ ~Queued(m) /\ Act
  /\ line' = Append(line, m)
  /\ UNCHANGED <<mission, job, active, scan, server, waits, cut, stops>>

Pause(m) == ~Terminal(m) /\ L3(m, [mission[m] EXCEPT !.held = @ \cup {"paused"}])

(* The reason stays, unless it is the one holdQueuedMission has left. *)
Resume(m) ==
  LET r == mission[m] IN
  /\ "paused" \in r.held
  /\ L3(m, [r EXCEPT !.held = @ \ {"paused"}, !.wait = IF @ = "hold" THEN "none" ELSE @])

(* answerEscalation closes one card; an answer that lets a gate go on      *)
(* lifts it before the request.                                            *)
Answer(m) ==
  LET r == mission[m] IN
  \E c \in r.held \cap Cards :
    \E w \in {r.wait} \cup (IF r.wait = c THEN {"none"} ELSE {}) :
      L3(m, Requested(m, [r EXCEPT !.held = @ \ {c}, !.wait = w]))

Revise(m) ==
  LET r == mission[m] IN
  /\ ~Terminal(m)
  /\ L3(m, Requested(m, [r EXCEPT !.st = "open"]))

Lifted(r, g) == [r EXCEPT !.wait = IF @ = g THEN "none" ELSE @]

(* raiseMissionCostCap: the request comes before the card of the gate is   *)
(* closed, which is done when no other card is before it.                  *)
Raise(m) ==
  LET r == Requested(m, Lifted(mission[m], "cap")) IN
  \/ L3(m, [r EXCEPT !.held = @ \ {"cap"}])
  \/ r.held \cap Cards # {"cap"} /\ L3(m, r)

(* approveWorkItemCheckpoint: the card stays. *)
Approve(m) ==
  /\ "point" \in mission[m].held \/ mission[m].wait = "point"
  /\ L3(m, Requested(m, Lifted(mission[m], "point")))

Judge(m) ==
  LET r == mission[m] IN
  /\ r.st = "review"
  /\ \/ r.attempt = "none" /\ L3(m, Ends(r, "completed"))
     \/ L3(m, [r EXCEPT !.st = "open"])

Cancel(m) ==
  /\ ~Terminal(m)
  /\ L3(m, [Ends(mission[m], "blocked") EXCEPT !.wait = "manual"])

ActOfL3(m) ==
  /\ Alive /\ Act /\ UNCHANGED line
  /\ \/ Pause(m) \/ Resume(m) \/ Answer(m) \/ Revise(m)
     \/ Raise(m) \/ Approve(m) \/ Judge(m) \/ Cancel(m)

Ripen(m) ==
  /\ mission[m].wait = "backoff"
  /\ Set(m, [mission[m] EXCEPT !.wait = "ripe"])
  /\ UNCHANGED <<line, job, active, scan, server, waits, cut, acts, stops>>

-----------------------------------------------------------------------------
(* Close, death and the next start.                                        *)

Stop == stops < MaxStops /\ stops' = stops + 1

(* bindServerCloseToPeriodicStop: both schedulers are stopped, new callers *)
(* refused.                                                                *)
Close ==
  /\ server = "up" /\ Stop
  /\ server' = "closing"
  /\ UNCHANGED <<mission, line, job, active, scan, waits, cut, acts>>

\* Mutation: stop does not wait for the tick.
TickDone_Skipped == TRUE

TickDone == ~scan.on

(* stop() of the resumption: the tick, then the resumptions there are. *)
AwaitTick ==
  /\ server = "closing" /\ TickDone
  /\ server' = "draining" /\ waits' = Waking
  /\ UNCHANGED <<mission, line, job, active, scan, cut, acts, stops>>

(* The close awaits drainApi, the queue worker, the resumption, in this    *)
(* order; what it awaits last may still fail (the repair, persist).        *)
Drained == \A j \in Callers : job[j] = Idle
QueueDrained == Drained /\ job[Worker] = Idle

(* HTTP is closed and the lock freed whether stop has succeeded or not. *)
Closed ==
  /\ server = "draining"
  /\ QueueDrained /\ \A m \in waits : job[m] = Idle
  /\ server' \in {"down", "failed"} /\ waits' = {}
  /\ UNCHANGED <<mission, line, job, active, scan, cut, acts, stops>>

Perish(s) ==
  /\ server' = s
  /\ job' = [j \in Jobs |-> Idle] /\ active' = {} /\ scan' = NoScan /\ waits' = {}
  /\ cut' = {m \in Missions : On(m, "call") \/ \E j \in Jobs : job[j].m = m
                                  /\ job[j].pc \in {"preparing", "running", "leaving"}}
  /\ UNCHANGED <<mission, line, acts>>

Die ==
  \/ Alive /\ Stop /\ Perish("dead")
  \/ server = "failed" /\ UNCHANGED stops /\ Perish("gone")

(* A tick that was in flight at the close rejects, and stop() with it,     *)
(* which then waits for no run: if the close awaits it by then, it goes    *)
(* on to HTTP and lock.  A rejection that nobody awaits ends the process,  *)
(* after the lock is freed too (Die).                                      *)
StopFails(awaited) ==
  IF awaited
  THEN /\ server' = "failed" /\ waits' = {}
       /\ UNCHANGED <<mission, line, job, active, cut, acts, stops>>
  ELSE UNCHANGED stops /\ Perish("dead")

(* The queue worker reads its queues; nothing is started in such a tick. *)
QueueReadFails ==
  /\ server \in {"closing", "draining"}
  /\ StopFails(Drained)
  /\ Drained => scan' = scan

(* The resumption asks what is due, or who drives a Mission. *)
WakeReadFails ==
  /\ server = "closing" /\ (~scan.on \/ scan.look # {})
  /\ StopFails(QueueDrained)
  /\ scan' = NoScan

\* Mutation: the interrupted Attempts are closed and nobody is asked.
Asks_Nobody(m, W, r) == r

(* service_interrupted, for an Attempt that was closed now, or because the *)
(* lock was taken over and the last event (W) is not old.                  *)
Asks(m, W, r) ==
  IF mission[m].attempt = "work" \/ (m \in W /\ r.wait = "none")
  THEN Requested(m, r) ELSE r

(* Startup: reconcileInterruptedAttempts closes the Attempts of            *)
(* coordinators and executors; a lock that can be taken over is older than *)
(* their tolerance.  Then the requests.  A service is started when the     *)
(* process of the one before has ended.                                    *)
Reconciled(r) == IF r.attempt = "work" THEN [r EXCEPT !.attempt = "none"] ELSE r

Ended == server \in {"down", "failed"} /\ ~scan.on /\ \A j \in Jobs : job[j] = Idle

Restart ==
  /\ Dead \/ Ended
  /\ \E W \in IF server = "dead" THEN {V \in SUBSET Missions : cut \subseteq V} ELSE {{}} :
       mission' = [m \in Missions |-> Asks(m, W, Reconciled(mission[m]))]
  /\ server' = "up" /\ cut' = {}
  /\ UNCHANGED <<line, job, active, scan, waits, acts, stops>>

-----------------------------------------------------------------------------
Run(j) ==
  \/ Enter(j) \/ Started(j) \/ Prepare(j)
  \/ CloseAttempt(j) \/ EndRun(j) \/ Leave(j)

QueueTick == (\E m \in Missions : Pick(m)) \/ RecordStart \/ After \/ Hold
WakeTick  == Scan \/ EndScan \/ \E m \in Missions : Look(m) \/ Launch(m)
Resumes(m) == Record(m) \/ RecordFails(m)
Process   == AwaitTick \/ Closed \/ Restart
Failures  == LookFails \/ QueueReadFails \/ WakeReadFails

Next ==
  \/ \E j \in Callers, m \in Called : Accept(j, m)
  \/ \E j \in Jobs : Run(j) \/ OpenAttempt(j) \/ OpenReview(j)
  \/ QueueTick \/ WakeTick
  \/ \E m \in Missions : Resumes(m) \/ Enqueue(m) \/ ActOfL3(m) \/ Ripen(m)
  \/ Process \/ Close \/ Die \/ Failures

Spec == Init /\ [][Next]_vars

(* Promises resolve, timers tick, and every agent has a wall clock: runs   *)
(* do not go on without one of them ending.  A read or a record that is    *)
(* tried again and again succeeds, and somebody starts the service again.  *)
FairSpec ==
  /\ Spec
  /\ WF_vars(QueueTick \/ Run(Worker)) /\ WF_vars(WakeTick) /\ WF_vars(Process)
  /\ \A j \in Callers : WF_vars(Run(j))
  /\ \A m \in Missions : WF_vars(Resumes(m) \/ Run(m)) /\ WF_vars(Ripen(m))
  /\ SF_vars(\E j \in Jobs : EndRun(j))
  /\ SF_vars(\E m \in Missions : Launch(m)) /\ SF_vars(\E m \in Missions : Record(m))

-----------------------------------------------------------------------------
(* Properties.                                                             *)

InsideOf(m) == {j \in Jobs : job[j].pc \in Inside /\ job[j].m = m}

\* Everything keeps its type, and the reservations of the guard are those
\* of the runs that are inside, whichever way a run has ended.
TypeOK ==
  /\ mission \in [Missions -> States]
  /\ line \in Seq(Missions)
  /\ job \in [Jobs -> [pc: PCs, m: Missions \cup {"none"}]]
  /\ \A j \in Jobs : job[j].pc # "idle" => job[j].m \in Missions
  /\ active = {m \in Missions : InsideOf(m) # {}}
  /\ scan \in [on: BOOLEAN, due: SUBSET Missions, look: SUBSET Missions]
  /\ server \in Servers
  /\ waits \subseteq Missions /\ cut \subseteq Missions
  /\ acts \in 0..MaxActs /\ stops \in 0..MaxStops

(* "One Mission never has two hosted runs at once" (auto-resume.md),       *)
(* whatever callers, worker and resumption do at the same time.            *)
OneRunAtATime == \A m \in Missions : Cardinality(InsideOf(m)) <= 1

(* What the worker runs has had its turn: the entries before it and its    *)
(* dependencies are completed, however old the view was it picked it from, *)
(* and whoever else runs Missions of the queue.                            *)
QueueInOrder ==
  LET m == job[Worker].m IN
  job[Worker].pc \in {"call"} \cup Inside =>
    \A n \in Earlier(m) \cup DependsOn[m] : mission[n].st = "completed"

(* A close that reports no error has left nothing running, although stop() *)
(* waits for the runs of the worker, the callers and the resumption in     *)
(* different places and the last tick may launch one more; and with an     *)
(* error or without, no caller is cut off by it.                           *)
ClosedIsQuiet ==
  /\ server = "down" => /\ \A j \in Jobs : job[j] = Idle
                        /\ \A m \in Missions : mission[m].attempt # "work"
                        /\ ~scan.on
  /\ server \in {"down", "failed"} => Drained

Taken(m) == InsideOf(m) # {}
MayRun(m) == IF Queued(m) THEN Eligible(m) ELSE mission[m].known /\ MayContinue(mission[m])

\* Cut off by the death of the service, in the middle of an Attempt.
CutOff(m) == Dead /\ mission[m].attempt = "work"

Waits(m) ==
  /\ MayRun(m)
  /\ Queued(m) \/ mission[m].wait = "ripe" \/ mission[m].asked \/ CutOff(m)

(* No stop that ends by itself waits for a person: it is a Mission's turn  *)
(* in the queue, its backoff is over, somebody has asked for it, or the    *)
(* service died under its Attempt, and it is run again, across restarts.   *)
(* Only what was merely waiting when the service dies may have to be asked *)
(* for again.                                                              *)
DueIsTaken ==
  \A m \in Missions :
    Waits(m) ~> Taken(m) \/ ~MayRun(m) \/ (Dead /\ ~CutOff(m))

\* A driver has taken it up and is on its way to the guard.
Heading(m) == \E j \in Jobs : On(j, "call") /\ job[j].m = m

(* The safety half of DueIsTaken: whatever calls, acts of L3, closes,      *)
(* deaths and restarts come between, a Mission that waits to be run waits  *)
(* on until a driver takes it up, it is run or it may not run any more;    *)
(* and a driver that has taken it up runs it, finds it run by another, or  *)
(* dies with the process.                                                  *)
WakeIsKept ==
  [][\A m \in Missions :
       /\ Waits(m) => (Waits(m) \/ Heading(m) \/ Taken(m) \/ ~MayRun(m))'
       /\ Heading(m) => (Heading(m) \/ Taken(m))' \/ Dead']_vars

=============================================================================
