------------------------------ MODULE HopQueue ------------------------------
(***************************************************************************)
(* The durable queue of hops and the protocol by which an Orchestrator     *)
(* runs one: look at the Mission, enqueue the logical hop, claim it under  *)
(* the five capacity limits, look at the Mission again, open the Attempt,  *)
(* renew the lease while the agent runs, close the Attempt, settle the     *)
(* row.  Every await of #runHop and #acquireHopForStart is a step          *)
(* boundary; every FileStateStore.run transaction is one step.             *)
(*                                                                         *)
(* A row is addressed by what its idempotency key is made of: the slot     *)
(* (Mission, role, work item, change), the contract revision and the cycle.*)
(* Time is kept as countdowns, so it is not bounded: `lease' and `wait'    *)
(* are what is left until leaseUntil and availableAt.                      *)
(***************************************************************************)
EXTENDS Integers, FiniteSets

CONSTANTS
  Runners,      \* concurrent #runHop invocations of the one writer process
  Missions,
  Slots,        \* logical hops: (Mission, role, work item, changeId)
  Lanes,        \* what invariant B guards: a Mission's coordinator, a work item
  Profiles,     \* candidates of the agent pool
  Projects, Runtimes,
  MissionOf, RoleOf, LaneOf,     \* [Slots -> ...]
  ProjectOf,                     \* [Missions -> Projects]
  RuntimeOf,                     \* [Profiles -> Runtimes]
  ImpactSlots,                   \* slots whose hop analyses one change
  Limit,                         \* HopCapacityLimits
  Lease,                         \* DEFAULT_HOP_LEASE_MS in ticks
  Tolerance,                     \* DEFAULT_LEASE_TOLERANCE_MS in ticks
  MaxAttempts,
  Backoff,                       \* [1..MaxAttempts -> ticks], hopFailureBackoffMs
  MaxRev, MaxCycle, MaxGen, MaxCrash   \* bounds of the counters

Keys == Slots \X (1..MaxRev) \X (0..MaxCycle)

Pos == Nat \ {0}

Roles == {"coordinator", "executor", "independent_reviewer"}
Priority == [coordinator |-> 0, executor |-> 10, independent_reviewer |-> 20]

ASSUME FiniteAssumption == IsFiniteSet(Slots) /\ MaxRev \in Pos /\ MaxCycle \in Nat
                           /\ MaxGen \in Pos /\ MaxCrash \in Nat
ASSUME AttributeAssumption ==
  /\ MissionOf \in [Slots -> Missions]
  /\ RoleOf \in [Slots -> Roles]
  /\ LaneOf \in [Slots -> Lanes]
  /\ ProjectOf \in [Missions -> Projects]
  /\ RuntimeOf \in [Profiles -> Runtimes]
  /\ ImpactSlots \subseteq Slots
ASSUME LimitAssumption ==
  Limit \in [global: Pos, project: Pos, role: Pos, runtime: Pos, profile: Pos]
ASSUME TimeAssumption ==
  /\ Lease \in Pos /\ Tolerance \in Pos /\ MaxAttempts \in Pos
  /\ Backoff \in [1..MaxAttempts -> Pos]

VARIABLES
  rows,      \* [Keys -> row]: state.queuedHops, rows are never deleted
  mission,   \* [Missions -> [paused, ended, rev]]
  runner,    \* [Runners -> local state of one #runHop]
  attempt,   \* [Lanes -> the in_progress Attempt of that lane]
  tokens,    \* run tokens the in-memory registry still accepts
  proc       \* the writer process: its pid is the owner of the leases it takes

vars == <<rows, mission, runner, attempt, tokens, proc>>

-----------------------------------------------------------------------------
(* Rows.                                                                   *)

NoProfile == "none"
Statuses  == {"absent", "queued", "claimed", "retry_wait", "completed", "dead_letter"}

Row == [status: Statuses, owner: 0..MaxCrash, gen: 0..MaxGen, lease: 0..Lease,
        wait: Nat, count: 0..MaxAttempts, failed: 0..MaxGen,
        profile: Profiles \cup {NoProfile}, born: Nat]

AbsentRow == [status |-> "absent", owner |-> 0, gen |-> 0, lease |-> 0, wait |-> 0,
              count |-> 0, failed |-> 0, profile |-> NoProfile, born |-> 0]

SlotOf(k)  == k[1]
RevOf(k)   == k[2]
CycleOf(k) == k[3]
MissionOfKey(k) == MissionOf[SlotOf(k)]
ProjectOfKey(k) == ProjectOf[MissionOfKey(k)]
RoleOfKey(k)    == RoleOf[SlotOf(k)]

Present(k)  == rows[k].status # "absent"
Settled(k)  == rows[k].status \in {"completed", "dead_letter"}
RowCount    == Cardinality({k \in Keys : Present(k)})

(* isActiveHopLease: only such rows occupy capacity. *)
ActiveLease(k) == rows[k].status = "claimed" /\ rows[k].lease > 0

\* Mutation: a claimed row may be claimed before its lease has run out.
CanClaim_AnyLease(k) ==
  rows[k].wait = 0 /\ rows[k].status \in {"queued", "retry_wait", "claimed"}

(* canClaimHop *)
CanClaim(k) ==
  /\ rows[k].wait = 0
  /\ \/ rows[k].status \in {"queued", "retry_wait"}
     \/ rows[k].status = "claimed" /\ rows[k].lease = 0

(* holdsCurrentClaim: the fence of every write done in the name of a hop. *)
HoldsClaim(k, owner, gen) ==
  ActiveLease(k) /\ rows[k].owner = owner /\ rows[k].gen = gen

(* compareHopFairness: priority, then age; row ids follow insertion. *)
Before(j, k) ==
  \/ Priority[RoleOfKey(j)] > Priority[RoleOfKey(k)]
  \/ /\ Priority[RoleOfKey(j)] = Priority[RoleOfKey(k)]
     /\ rows[j].born < rows[k].born

(* Hop j, as it is leased, counts in dimension d for hop k run by profile p. *)
Dimensions == {"global", "project", "role", "runtime", "profile"}

Shares(d, j, k, p) ==
  \/ d = "global"
  \/ d = "project" /\ ProjectOfKey(j) = ProjectOfKey(k)
  \/ d = "role" /\ RoleOfKey(j) = RoleOfKey(k)
  \/ d = "runtime" /\ rows[j].profile \in Profiles /\ RuntimeOf[rows[j].profile] = RuntimeOf[p]
  \/ d = "profile" /\ rows[j].profile = p

Sharing(d, k, p) == {j \in Keys : ActiveLease(j) /\ Shares(d, j, k, p)}

(* occupancyWouldExceed: the row itself does not stand in its own way. *)
WouldExceed(k, p) ==
  \E d \in Dimensions : Cardinality(Sharing(d, k, p) \ {k}) >= Limit[d]

(* nextLogicalHopCycle: an open row keeps its slot, dead letters included. *)
OpenCycles(s, rev) ==
  {c \in 0..MaxCycle : rows[<<s, rev, c>>].status \notin {"absent", "completed"}}
DoneCycles(s, rev) ==
  {c \in 0..MaxCycle : rows[<<s, rev, c>>].status = "completed"}

\* Mutation: only a row that is queued keeps its slot.
NextCycle_QueuedOnly(s, rev) ==
  LET open == {c \in 0..MaxCycle : rows[<<s, rev, c>>].status = "queued"}
      used == {c \in 0..MaxCycle : rows[<<s, rev, c>>].status # "absent"}
  IN IF open # {} THEN CHOOSE c \in open : TRUE ELSE Cardinality(used)

NextCycle(s, rev) ==
  IF OpenCycles(s, rev) # {}
  THEN CHOOSE c \in OpenCycles(s, rev) : TRUE
  ELSE IF DoneCycles(s, rev) = {} THEN 0
       ELSE 1 + (CHOOSE c \in DoneCycles(s, rev) : \A d \in DoneCycles(s, rev) : d <= c)

-----------------------------------------------------------------------------
(* Missions, Attempts and runners.                                         *)

Runnable(m) == ~mission[m].paused /\ ~mission[m].ended

(* The Mission still asks for the hop this row was enqueued for. *)
Wanted(k) == Runnable(MissionOfKey(k)) /\ mission[MissionOfKey(k)].rev = RevOf(k)

NoKey     == <<>>
NoAttempt == [key |-> NoKey, gen |-> 0, beat |-> 0]
Claims    == Keys \X (0..MaxGen)

Idle == [pc |-> "idle", key |-> NoKey, profile |-> NoProfile, gen |-> 0, lost |-> FALSE]

RunnerStates ==
  {Idle} \cup
  [pc: {"looked", "enqueued", "checked", "claimed", "ready", "running", "ended"}, key: Keys,
   profile: Profiles, gen: 0..MaxGen, lost: BOOLEAN]

Claim(r)      == <<runner[r].key, runner[r].gen>>
HoldsOwn(r)   == HoldsClaim(runner[r].key, proc, runner[r].gen)
LaneOfRun(r)  == LaneOf[SlotOf(runner[r].key)]
OwnAttempt(r) == attempt[LaneOfRun(r)].key = runner[r].key
                 /\ attempt[LaneOfRun(r)].gen = runner[r].gen

Goto(r, pc) == runner' = [runner EXCEPT ![r].pc = pc]
Leave(r)    == runner' = [runner EXCEPT ![r] = Idle]

Init ==
  /\ rows = [k \in Keys |-> AbsentRow]
  /\ mission = [m \in Missions |-> [paused |-> FALSE, ended |-> FALSE, rev |-> 1]]
  /\ runner = [r \in Runners |-> Idle]
  /\ attempt = [l \in Lanes |-> NoAttempt]
  /\ tokens = {}
  /\ proc = 0

-----------------------------------------------------------------------------
(* Acquiring a hop: #acquireHopForStart and #claimEnqueuedHopWithCapacity. *)

(* The Mission is read and the cycle of the slot derived from the queue.   *)
(* A candidate was chosen before: the lease is pinned to it.               *)
Look(r, s, p) ==
  LET m == MissionOf[s]
      c == NextCycle(s, mission[m].rev)
  IN /\ runner[r].pc = "idle"
     /\ Runnable(m)
     /\ c \in 0..MaxCycle
     /\ runner' = [runner EXCEPT ![r] =
          [pc |-> "looked", key |-> <<s, mission[m].rev, c>>, profile |-> p,
           gen |-> 0, lost |-> FALSE]]
     /\ UNCHANGED <<rows, mission, attempt, tokens, proc>>

(* enqueue is idempotent on the key: an existing row is returned as it is, *)
(* and a completed, dead or backing off one ends the attempt to start.     *)
Enqueued(k) ==
  IF Present(k) THEN rows
  ELSE [rows EXCEPT ![k] = [AbsentRow EXCEPT !.status = "queued", !.born = RowCount + 1]]

Parked(k) == Settled(k) \/ rows[k].wait > 0

Enqueue(r) ==
  /\ runner[r].pc = "looked"
  /\ rows' = Enqueued(runner[r].key)
  /\ IF Parked(runner[r].key) THEN Leave(r) ELSE Goto(r, "enqueued")
  /\ UNCHANGED <<mission, attempt, tokens, proc>>

(* The fairness check over the whole queue: any unclaimed row that ranks   *)
(* before this one makes it wait; no capacity or a live lease does too.    *)
Ahead(k) == {j \in Keys \ {k} : rows[j].status = "queued" /\ Before(j, k)}

TurnedAway(r) ==
  /\ runner[r].pc = "enqueued"
  /\ Ahead(runner[r].key) # {}
  /\ Leave(r)
  /\ UNCHANGED <<rows, mission, attempt, tokens, proc>>

CheckRefused(r) ==
  LET k == runner[r].key IN
  /\ runner[r].pc = "enqueued"
  /\ Ahead(k) = {}
  /\ WouldExceed(k, runner[r].profile) \/ ~CanClaim(k)
  /\ Leave(r)
  /\ UNCHANGED <<rows, mission, attempt, tokens, proc>>

CheckPassed(r) ==
  LET k == runner[r].key IN
  /\ runner[r].pc = "enqueued"
  /\ Ahead(k) = {}
  /\ ~WouldExceed(k, runner[r].profile) /\ CanClaim(k)
  /\ Goto(r, "checked")
  /\ UNCHANGED <<rows, mission, attempt, tokens, proc>>

(* claimAvailable: the decision is taken again inside the transaction that *)
(* writes the claim.                                                       *)
ClaimedRow(k, p) ==
  [rows[k] EXCEPT !.status = "claimed", !.owner = proc, !.gen = @ + 1,
                  !.lease = Lease, !.profile = p]

\* Mutation: the capacity found free before is not looked at again.
ClaimAvailable_StaleCapacity(r) ==
  LET k == runner[r].key IN
  /\ runner[r].pc = "checked"
  /\ CanClaim(k)
  /\ rows[k].gen < MaxGen
  /\ rows' = [rows EXCEPT ![k] = ClaimedRow(k, runner[r].profile)]
  /\ runner' = [runner EXCEPT ![r].pc = "claimed", ![r].gen = rows[k].gen + 1]
  /\ UNCHANGED <<mission, attempt, tokens, proc>>

ClaimAvailable(r) ==
  LET k == runner[r].key
      p == runner[r].profile
  IN /\ runner[r].pc = "checked"
     /\ CanClaim(k) /\ ~WouldExceed(k, p)
     /\ rows[k].gen < MaxGen
     /\ rows' = [rows EXCEPT ![k] = ClaimedRow(k, p)]
     /\ runner' = [runner EXCEPT ![r].pc = "claimed", ![r].gen = rows[k].gen + 1]
     /\ UNCHANGED <<mission, attempt, tokens, proc>>

ClaimRefused(r) ==
  LET k == runner[r].key IN
  /\ runner[r].pc = "checked"
  /\ ~CanClaim(k) \/ WouldExceed(k, runner[r].profile) \/ rows[k].gen >= MaxGen
  /\ Leave(r)
  /\ UNCHANGED <<rows, mission, attempt, tokens, proc>>

(* The Mission is read again after the claim.  A hop nobody wants any more *)
(* is left as it is: claimed, until its lease runs out.                    *)
Recheck(r) ==
  /\ runner[r].pc = "claimed"
  /\ IF Wanted(runner[r].key) THEN Goto(r, "ready") ELSE Leave(r)
  /\ UNCHANGED <<rows, mission, attempt, tokens, proc>>

-----------------------------------------------------------------------------
(* Running it.                                                             *)

(* tokens.startExecutor / startCoordinator: fenced by the claim, refused   *)
(* while the lane has an Attempt in progress; only the coordinator's start *)
(* also asks whether the Mission has ended.                                *)
\* Mutation: the lane is not asked for an Attempt in progress.
StartAllowed_AnyLane(r) ==
  HoldsOwn(r)

StartAllowed(r) ==
  /\ HoldsOwn(r)
  /\ attempt[LaneOfRun(r)] = NoAttempt
  /\ RoleOfKey(runner[r].key) = "executor" \/ ~mission[MissionOfKey(runner[r].key)].ended

Start(r) ==
  LET k == runner[r].key IN
  /\ runner[r].pc = "ready"
  /\ StartAllowed(r)
  /\ attempt' = [attempt EXCEPT ![LaneOfRun(r)] =
                   [key |-> k, gen |-> runner[r].gen, beat |-> 0]]
  /\ tokens' = tokens \cup {Claim(r)}
  /\ Goto(r, "running")
  /\ UNCHANGED <<rows, mission, proc>>

StartRefused(r) ==
  /\ runner[r].pc = "ready"
  /\ ~StartAllowed(r)
  /\ Leave(r)
  /\ UNCHANGED <<rows, mission, attempt, tokens, proc>>

(* The heartbeat timer: beatAttempt, then #renewHopLease.  A renewal in    *)
(* the same instant is refused and is not a lost lease.                    *)
Heartbeat(r) ==
  LET k == runner[r].key IN
  /\ runner[r].pc = "running"
  /\ attempt' = IF OwnAttempt(r)
                THEN [attempt EXCEPT ![LaneOfRun(r)].beat = Tolerance] ELSE attempt
  /\ rows' = IF HoldsOwn(r) THEN [rows EXCEPT ![k].lease = Lease] ELSE rows
  /\ runner' = [runner EXCEPT ![r].lost = @ \/ ~HoldsOwn(r)]
  /\ UNCHANGED <<mission, tokens, proc>>

(* The agent is done and the finally block closes the Attempt, fenced by   *)
(* the claim, and then revokes the token.                                  *)
Finish(r) ==
  /\ runner[r].pc = "running"
  /\ HoldsOwn(r) \/ SlotOf(runner[r].key) \in ImpactSlots
  /\ attempt' = IF OwnAttempt(r)
                THEN [attempt EXCEPT ![LaneOfRun(r)] = NoAttempt] ELSE attempt
  /\ tokens' = tokens \ {Claim(r)}
  /\ Goto(r, "ended")
  /\ UNCHANGED <<rows, mission, proc>>

(* The fence refuses the close: the exception leaves the finally block     *)
(* before the token is revoked, and #runHop with it.                       *)
FinishFenced(r) ==
  /\ runner[r].pc = "running"
  /\ ~HoldsOwn(r) /\ SlotOf(runner[r].key) \notin ImpactSlots
  /\ Leave(r)
  /\ UNCHANGED <<rows, mission, attempt, tokens, proc>>

-----------------------------------------------------------------------------
(* Settling the row.                                                       *)

(* #completeHopLease: a refusal is swallowed.  Nothing reads the lease of  *)
(* a completed row.                                                        *)
Complete(r) ==
  LET k == runner[r].key IN
  /\ runner[r].pc = "ended"
  /\ rows' = IF HoldsOwn(r) THEN [rows EXCEPT ![k].status = "completed", ![k].lease = 0] ELSE rows
  /\ Leave(r)
  /\ UNCHANGED <<mission, attempt, tokens, proc>>

(* reportHopFailure: fenced by status and generation, not by the lease.    *)

\* Mutation: one failure too many is retried.
FailedRow_OffByOne(k, retryable) ==
  LET n == rows[k].count + 1
      r == [rows[k] EXCEPT !.count = n, !.failed = rows[k].gen,
                           !.owner = 0, !.lease = 0]
  IN IF ~retryable \/ n > MaxAttempts
     THEN [r EXCEPT !.status = "dead_letter"]
     ELSE [r EXCEPT !.status = "retry_wait", !.wait = Backoff[n]]

FailedRow(k, retryable) ==
  LET n == rows[k].count + 1
      r == [rows[k] EXCEPT !.count = n, !.failed = rows[k].gen,
                           !.owner = 0, !.lease = 0]
  IN IF ~retryable \/ n >= MaxAttempts
     THEN [r EXCEPT !.status = "dead_letter"]
     ELSE [r EXCEPT !.status = "retry_wait", !.wait = Backoff[n]]

\* Mutation: a late report is fenced by the status alone.
ReportFailure_AnyGeneration(r, retryable) ==
  LET k == runner[r].key IN
  /\ runner[r].pc = "ended" /\ ~runner[r].lost
  /\ rows' = IF rows[k].status = "claimed"
             THEN [rows EXCEPT ![k] = FailedRow(k, retryable)] ELSE rows
  /\ Leave(r)
  /\ UNCHANGED <<mission, attempt, tokens, proc>>

ReportFailure(r, retryable) ==
  LET k == runner[r].key IN
  /\ runner[r].pc = "ended"
  /\ ~runner[r].lost
  /\ rows' = IF rows[k].status = "claimed" /\ rows[k].gen = runner[r].gen
             THEN [rows EXCEPT ![k] = FailedRow(k, retryable)] ELSE rows
  /\ Leave(r)
  /\ UNCHANGED <<mission, attempt, tokens, proc>>

(* Wall clock, platform unreachable, failed checkpoint or lost lease: the  *)
(* row is neither completed nor reported.                                  *)
Abandon(r) ==
  /\ runner[r].pc = "ended"
  /\ Leave(r)
  /\ UNCHANGED <<rows, mission, attempt, tokens, proc>>

-----------------------------------------------------------------------------
(* The environment.                                                        *)

Pause(m) ==
  /\ ~mission[m].ended
  /\ mission' = [mission EXCEPT ![m].paused = ~@]
  /\ UNCHANGED <<rows, runner, attempt, tokens, proc>>

End(m) ==
  /\ ~mission[m].ended
  /\ mission' = [mission EXCEPT ![m].ended = TRUE]
  /\ UNCHANGED <<rows, runner, attempt, tokens, proc>>

Revise(m) ==
  /\ ~mission[m].ended /\ mission[m].rev < MaxRev
  /\ mission' = [mission EXCEPT ![m].rev = @ + 1]
  /\ UNCHANGED <<rows, runner, attempt, tokens, proc>>

Less(n) == IF n > 0 THEN n - 1 ELSE 0

Tick ==
  /\ rows' = [k \in Keys |-> [rows[k] EXCEPT !.lease = Less(@), !.wait = Less(@)]]
  /\ attempt' = [l \in Lanes |-> [attempt[l] EXCEPT !.beat = Less(@)]]
  /\ UNCHANGED <<mission, runner, tokens, proc>>

(* The process dies and another takes over: runners and tokens were in     *)
(* memory; reconcileInterruptedAttempts closes the Attempts without a      *)
(* fresh heartbeat.                                                        *)
Restart ==
  /\ proc < MaxCrash
  /\ proc' = proc + 1
  /\ runner' = [r \in Runners |-> Idle]
  /\ tokens' = {}
  /\ attempt' = [l \in Lanes |-> IF attempt[l].beat = 0 THEN NoAttempt ELSE attempt[l]]
  /\ UNCHANGED <<rows, mission>>

-----------------------------------------------------------------------------
Acquire(r) ==
  \/ Enqueue(r) \/ TurnedAway(r) \/ CheckRefused(r) \/ CheckPassed(r)
  \/ ClaimAvailable(r) \/ ClaimRefused(r) \/ Recheck(r)
  \/ Start(r) \/ StartRefused(r)

Settle(r) ==
  \/ Complete(r) \/ (\E b \in BOOLEAN : ReportFailure(r, b)) \/ Abandon(r)

\* Mutation: no wall clock, an agent whose lease is renewed may run for ever.
EndRun_NoWallClock(r) == FinishFenced(r)

EndRun(r) == Finish(r) \/ FinishFenced(r)

Next ==
  \/ \E r \in Runners, s \in Slots, p \in Profiles : Look(r, s, p)
  \/ \E r \in Runners : Acquire(r) \/ Heartbeat(r) \/ EndRun(r) \/ Settle(r)
  \/ \E m \in Missions : Pause(m) \/ End(m) \/ Revise(m)
  \/ Tick
  \/ Restart

Spec == Init /\ [][Next]_vars

(* Fairness of the process: pending promises resolve, an agent's process   *)
(* ends (the wall clock of #runHop kills it), time passes.                 *)
Fairness ==
  /\ \A r \in Runners : WF_vars(Acquire(r)) /\ WF_vars(EndRun(r)) /\ WF_vars(Settle(r))
  /\ WF_vars(Tick)

FairSpec == Spec /\ Fairness

-----------------------------------------------------------------------------
(* Properties.                                                             *)

\* Rows, runners and attempts keep their types: a row never counts more
\* failures than MaxAttempts, and no lease or heartbeat outlives its limit.
TypeOK ==
  /\ rows \in [Keys -> Row]
  /\ mission \in [Missions -> [paused: BOOLEAN, ended: BOOLEAN, rev: 1..MaxRev]]
  /\ runner \in [Runners -> RunnerStates]
  /\ attempt \in [Lanes -> [key: Keys, gen: 0..MaxGen, beat: 0..Tolerance] \cup {NoAttempt}]
  /\ tokens \subseteq Claims
  /\ proc \in 0..MaxCrash

(* The five limits of HopCapacityLimits hold over the durable leases at    *)
(* every instant, whatever the interleaving of look, enqueue, claim, renew *)
(* and expiry (decideCapacityClaim inside FileStateStore.run).             *)
CapacityRespected ==
  \A k \in Keys, p \in Profiles, d \in Dimensions :
    (ActiveLease(k) /\ rows[k].profile = p) =>
       Cardinality(Sharing(d, k, p)) <= Limit[d]

(* One logical hop has one open row, so it cannot be queued, claimed or    *)
(* backing off twice (nextLogicalHopCycle and the idempotency key).        *)
OneOpenRowPerSlot ==
  \A s \in Slots, rev \in 1..MaxRev : Cardinality(OpenCycles(s, rev)) <= 1

(* Two live runs never work in one lane, although leases are lost and      *)
(* taken over and the Mission is driven by several runners.                *)
OneAgentPerLane ==
  \A q, r \in Runners :
    (q # r /\ runner[q].pc = "running" /\ runner[r].pc = "running")
       => LaneOfRun(q) # LaneOfRun(r)

(* A lease that has not run out is never taken over: its generation stays, *)
(* and only its own holder may settle it.                                  *)
LiveLeaseKept ==
  [][\A k \in Keys : ActiveLease(k) =>
       /\ rows'[k].gen = rows[k].gen
       /\ rows'[k].status # "claimed" =>
            \E r \in Runners :
              /\ runner[r].pc = "ended" /\ runner'[r] = Idle
              /\ runner[r].key = k /\ runner[r].gen = rows[k].gen]_vars

(* A completed or dead-lettered hop is never claimed, retried or counted   *)
(* again, by late reports of an earlier claim in particular.               *)
SettledIsFinal ==
  [][\A k \in Keys : Settled(k) =>
       /\ rows'[k].status = rows[k].status
       /\ rows'[k].gen = rows[k].gen
       /\ rows'[k].count = rows[k].count]_vars

(* A failure is counted at most once per claim and never beyond the limit; *)
(* a row that reached the limit is a dead letter.                          *)
FailuresCounted ==
  \A k \in Keys :
    /\ rows[k].count <= rows[k].gen
    /\ rows[k].failed <= rows[k].gen
    /\ (rows[k].count = MaxAttempts => rows[k].status = "dead_letter")
    /\ (rows[k].status = "retry_wait" => rows[k].failed = rows[k].gen /\ rows[k].count > 0)

(* Among the hops in the queue exactly one ranks first: they never wait    *)
(* all for one another, nor do two of them take themselves for the first   *)
(* (compareHopFairness, over rows of any roles and ages).                  *)
Queued == {k \in Keys : rows[k].status = "queued"}

OneFirst ==
  Queued # {} => \E k \in Queued : Ahead(k) = {} /\ \A j \in Queued \ {k} : k \in Ahead(j)

(* A hop in the queue is not overtaken by a peer that is enqueued, retried *)
(* or taken over later: what is ahead of it at its own priority only gets  *)
(* less (enqueue never renews the age of a row).                           *)
Peers(k) == {j \in Keys : Priority[RoleOfKey(j)] = Priority[RoleOfKey(k)]}

NotOvertaken ==
  [][\A k \in Queued : k \in Queued' => Ahead(k)' \cap Peers(k) \subseteq Ahead(k)]_vars

(* The queue implements the fenced lease of module HopLease.               *)
Promise == INSTANCE HopLease WITH
  Hops  <- Keys,
  epoch <- [k \in Keys |-> rows[k].gen],
  held  <- [k \in Keys |-> ActiveLease(k)],
  done  <- [k \in Keys |-> Settled(k)]

(* Refinement: one holder at a time, growing epochs, one final decision,   *)
(* for claim, renew, complete and reportFailure of the queue repository.   *)
ImplementsLease == Promise!Spec

(* Capacity is always given back: no lease stays active for ever, whether  *)
(* its run completes, fails, is abandoned or dies with the process.        *)
LeaseReturns == \A k \in Keys : ActiveLease(k) ~> ~ActiveLease(k)
=============================================================================
