-------------------------- MODULE CandidateCircuit --------------------------
(***************************************************************************)
(* The circuit breaker of each agent candidate, the runs that consult and  *)
(* settle it, and the reclaimer of orphaned probes.                        *)
(*                                                                         *)
(* A hop (the candidate loop of #runHop) and a query (#runCandidate of the *)
(* QueryRunner) read the circuit of a candidate, may claim its one probe,  *)
(* run the agent and settle the circuit with the outcome, every step after *)
(* an await.  A hop holds a lease of the durable queue while it runs, a    *)
(* query holds none.  ProbeReclaim runs on the tick of RetryWakeScheduler  *)
(* and resets a half-open circuit it has seen without a lease for long     *)
(* enough.  Time is kept as countdowns.                                    *)
(***************************************************************************)
EXTENDS Integers, FiniteSets

CONSTANTS
  Profiles,    \* candidates
  Hops,        \* concurrent #runHop invocations, each with a slot of its own
  Queries,     \* concurrent QueryRunner.runQuery invocations
  Cooldown,    \* pool.cooldownMs in ticks
  Lease,       \* DEFAULT_HOP_LEASE_MS in ticks
  Orphan,      \* PROBE_ORPHAN_MS in ticks
  EvalGap,     \* PROBE_RECLAIM_EVAL_MS in ticks
  MaxCrash     \* bound on restarts

ASSUME TimeAssumption ==
  /\ Cooldown \in Nat \ {0} /\ Lease \in Nat \ {0}
  /\ Orphan \in Nat \ {0} /\ EvalGap \in Nat \ {0}
ASSUME RunAssumption == Hops \cap Queries = {} /\ MaxCrash \in Nat

VARIABLES
  circuit,   \* [Profiles -> Circuit]: state.candidateCircuits
  lease,     \* [Hops -> [profile, left]]: the queue row of the hop's slot
  run,       \* [Runs -> local state of one invocation]
  watch,     \* [Profiles -> age of the ProbeWatch, or Unwatched]
  reclaim,   \* local state of ProbeReclaim.tick
  crashes

vars == <<circuit, lease, run, watch, reclaim, crashes>>

Runs == Hops \cup Queries

-----------------------------------------------------------------------------
(* Circuits.  `left' is what remains until openUntil; an open circuit at 0 *)
(* is due for a probe, one at Manual (openUntil = null) never is.          *)

Manual   == -1
Closed   == [state |-> "closed", left |-> 0]
Open(n)  == [state |-> "open", left |-> n]
HalfOpen == [state |-> "half_open", left |-> 0]

Circuit == {Closed, HalfOpen} \cup {Open(n) : n \in {Manual} \cup (0..Cooldown)}

Outcomes == {"submit", "failure", "quota", "other"}

(* A quota failure without a reset time is never due by itself. *)
OpenAfter(outcome) == Open(IF outcome = "quota" THEN Manual ELSE Cooldown)

(* resolveCandidateProbe with the outcome of the run. *)
Resolved(outcome) == IF outcome = "submit" THEN Closed ELSE OpenAfter(outcome)

-----------------------------------------------------------------------------
(* Runs.                                                                   *)

NoProfile == "none"
Idle == [pc |-> "idle", profile |-> NoProfile, probe |-> FALSE, old |-> FALSE, outcome |-> "none"]
NoLease == [profile |-> NoProfile, left |-> 0]

(* Steps that follow one another without a timer or an agent in between.   *)
Prompt == {"depleted", "due", "taking", "returning"}

RunState ==
  [pc: {"idle", "running", "ended"} \cup Prompt, profile: Profiles \cup {NoProfile},
   probe: BOOLEAN, old: BOOLEAN, outcome: Outcomes \cup {"none"}]

At(r, pc) == run[r].pc = pc
Leave(r)  == run' = [run EXCEPT ![r] = Idle]
Goto(r, pc) == run' = [run EXCEPT ![r].pc = pc]

Leased(p) == \E h \in Hops : lease[h].left > 0 /\ lease[h].profile = p

Init ==
  /\ circuit = [p \in Profiles |-> Closed]
  /\ lease = [h \in Hops |-> NoLease]
  /\ run = [r \in Runs |-> Idle]
  /\ watch = [p \in Profiles |-> -1]
  /\ reclaim = [pc |-> "idle", gap |-> 0, todo |-> {}, seen |-> {}, resets |-> {}]
  /\ crashes = 0

(* candidateCircuits.get in the candidate loop: a half-open candidate is   *)
(* skipped, an open one leads to tryClaimProbe.                            *)
Look(r, p) ==
  /\ At(r, "idle")
  /\ circuit[p].state # "half_open"
  /\ run' = [run EXCEPT ![r] =
       [Idle EXCEPT !.pc = IF circuit[p].state = "open" THEN "due" ELSE "taking",
                    !.profile = p]]
  /\ UNCHANGED <<circuit, lease, watch, reclaim, crashes>>

(* #availableCandidates: a closed candidate whose usage row says the quota *)
(* is exhausted is opened, two awaits after its circuit was read.          *)
LookDepleted(h, p) ==
  /\ At(h, "idle")
  /\ circuit[p].state = "closed"
  /\ run' = [run EXCEPT ![h] = [Idle EXCEPT !.pc = "depleted", !.profile = p]]
  /\ UNCHANGED <<circuit, lease, watch, reclaim, crashes>>

OpenDepleted(h) ==
  /\ At(h, "depleted")
  /\ circuit' = [circuit EXCEPT ![run[h].profile] = Open(Cooldown)]
  /\ Leave(h)
  /\ UNCHANGED <<lease, watch, reclaim, crashes>>

\* Mutation: the deadline of an open circuit is not looked at.
ClaimProbe_BeforeDue(r) ==
  LET p == run[r].profile IN
  /\ At(r, "due")
  /\ IF circuit[p].state = "open"
     THEN /\ circuit' = [circuit EXCEPT ![p].state = "half_open"]
          /\ run' = [run EXCEPT ![r].pc = "taking", ![r].probe = TRUE]
     ELSE Leave(r) /\ UNCHANGED circuit
  /\ UNCHANGED <<lease, watch, reclaim, crashes>>

(* claimCandidateProbe: due and open, else the candidate is skipped. *)
ClaimProbe(r) ==
  LET p == run[r].profile IN
  /\ At(r, "due")
  /\ IF circuit[p] = Open(0)
     THEN /\ circuit' = [circuit EXCEPT ![p] = HalfOpen]
          /\ run' = [run EXCEPT ![r].pc = "taking", ![r].probe = TRUE]
     ELSE Leave(r) /\ UNCHANGED circuit
  /\ UNCHANGED <<lease, watch, reclaim, crashes>>

(* The attempt limit or a full pool stops the hop before it starts: a probe*)
(* is given back, after another look at the circuit.                       *)
TurnBack(h) ==
  /\ At(h, "taking")
  /\ IF run[h].probe /\ circuit[run[h].profile].state = "half_open"
     THEN Goto(h, "returning") ELSE Leave(h)
  /\ UNCHANGED <<circuit, lease, watch, reclaim, crashes>>

(* Any other reason to wait, a completed row, a lease pinned to another    *)
(* candidate: the loop is left or goes on, and a probe stays claimed.      *)
TurnAway(h) ==
  /\ At(h, "taking")
  /\ Leave(h)
  /\ UNCHANGED <<circuit, lease, watch, reclaim, crashes>>

(* The row is claimed for the candidate; the Attempt starts, or its start  *)
(* is refused, which leaves the lease and a probe behind.                  *)
Take(h) ==
  /\ At(h, "taking")
  /\ lease[h].left = 0
  /\ lease' = [lease EXCEPT ![h] = [profile |-> run[h].profile, left |-> Lease]]
  /\ Goto(h, "running") \/ Leave(h)
  /\ UNCHANGED <<circuit, watch, reclaim, crashes>>

(* A query starts its agent at once, without a row of the queue. *)
StartQuery(q) ==
  /\ At(q, "taking")
  /\ Goto(q, "running")
  /\ UNCHANGED <<circuit, lease, watch, reclaim, crashes>>

Heartbeat(h) ==
  /\ At(h, "running") /\ lease[h].left > 0
  /\ lease' = [lease EXCEPT ![h].left = Lease]
  /\ UNCHANGED <<circuit, run, watch, reclaim, crashes>>

(* The agent ends.  The Attempt of a hop is closed under its lease: a hop  *)
(* that lost it is thrown out, and a probe stays claimed.                  *)
Finish(r, outcome) ==
  /\ At(r, "running")
  /\ r \in Hops => lease[r].left > 0
  /\ run' = [run EXCEPT ![r].pc = "ended", ![r].outcome = outcome, ![r].old = FALSE]
  /\ UNCHANGED <<circuit, lease, watch, reclaim, crashes>>

FinishFenced(h) ==
  /\ At(h, "running") /\ lease[h].left = 0
  /\ Leave(h)
  /\ UNCHANGED <<circuit, lease, watch, reclaim, crashes>>

(* The checkpoint of an accepted submission fails: #runHop returns before  *)
(* it settles the circuit.                                                 *)
CheckpointFailed(h) ==
  /\ At(h, "ended") /\ run[h].outcome = "submit"
  /\ Leave(h)
  /\ UNCHANGED <<circuit, lease, watch, reclaim, crashes>>

(* The row of a hop is settled after its circuit, or left to its lease. *)
RowLeft(r) ==
  IF r \in Hops THEN lease' = lease \/ lease' = [lease EXCEPT ![r].left = 0]
  ELSE UNCHANGED lease

(* A probe that says nothing about the candidate (platform unreachable, no *)
(* structured result) is given back; a query resolves with every outcome.  *)
Returns(r) == run[r].probe /\ r \in Hops /\ run[r].outcome = "other"

ReturnProbe(h) ==
  /\ At(h, "ended") /\ Returns(h)
  /\ IF circuit[run[h].profile].state = "half_open" THEN Goto(h, "returning") ELSE Leave(h)
  /\ UNCHANGED <<circuit, lease, watch, reclaim, crashes>>

(* resolveProbe with the failure class and openUntil read before: a due    *)
(* circuit again.  It throws unless the circuit is half-open.              *)
Return(h) ==
  LET p == run[h].profile IN
  /\ At(h, "returning")
  /\ circuit' = IF circuit[p] = HalfOpen THEN [circuit EXCEPT ![p] = Open(0)] ELSE circuit
  /\ RowLeft(h)
  /\ Leave(h)
  /\ UNCHANGED <<watch, reclaim, crashes>>

ResolveProbe(r) ==
  LET p == run[r].profile IN
  /\ At(r, "ended") /\ run[r].probe /\ ~Returns(r)
  /\ circuit' = IF circuit[p] = HalfOpen
                THEN [circuit EXCEPT ![p] = Resolved(run[r].outcome)] ELSE circuit
  /\ RowLeft(r)
  /\ Leave(r)
  /\ UNCHANGED <<watch, reclaim, crashes>>

(* Without a probe a failure of the candidate opens the circuit, whatever  *)
(* state it is in by now.                                                  *)
Settle(r) ==
  /\ At(r, "ended") /\ ~run[r].probe
  /\ circuit' = IF run[r].outcome \in {"failure", "quota"}
                THEN [circuit EXCEPT ![run[r].profile] = OpenAfter(run[r].outcome)]
                ELSE circuit
  /\ RowLeft(r)
  /\ Leave(r)
  /\ UNCHANGED <<watch, reclaim, crashes>>

-----------------------------------------------------------------------------
(* ProbeReclaim.tick: one evaluation at a time, EvalGap apart.             *)

Evaluate ==
  /\ reclaim.pc = "idle" /\ reclaim.gap = 0
  /\ reclaim' = [pc |-> "reading", gap |-> EvalGap, todo |-> Profiles,
                 seen |-> {}, resets |-> {}]
  /\ UNCHANGED <<circuit, lease, run, watch, crashes>>

ReadCircuit(p) ==
  /\ reclaim.pc = "reading" /\ p \in reclaim.todo
  /\ reclaim' = [reclaim EXCEPT !.todo = @ \ {p},
                   !.seen = IF circuit[p].state = "half_open" THEN @ \cup {p} ELSE @]
  /\ UNCHANGED <<circuit, lease, run, watch, crashes>>

(* decideProbeReclaim over the circuits read before and the queue read now.*)
\* Mutation: a lease does not keep a profile from being eligible.
Eligible_IgnoresLeases == reclaim.seen

Eligible == {p \in reclaim.seen : ~Leased(p)}

Expired == {p \in Eligible : watch[p] >= Orphan}

\* Mutation: a profile seen again is timed from now.
NextWatch_Restarted == [p \in Profiles |-> IF p \in Eligible \ Expired THEN 0 ELSE -1]

NextWatch ==
  [p \in Profiles |->
     IF p \notin Eligible \ Expired THEN -1 ELSE IF watch[p] = -1 THEN 0 ELSE watch[p]]

Decide ==
  /\ reclaim.pc = "reading" /\ reclaim.todo = {}
  /\ reclaim' = [reclaim EXCEPT !.pc = "resetting", !.seen = {}, !.resets = Expired]
  /\ watch' = NextWatch
  /\ UNCHANGED <<circuit, lease, run, crashes>>

(* candidateCircuits.reset: refuses only a closed circuit. *)
Reset(p) ==
  /\ reclaim.pc = "resetting" /\ p \in reclaim.resets
  /\ circuit' = [circuit EXCEPT ![p] = Closed]
  /\ reclaim' = [reclaim EXCEPT !.resets = @ \ {p}]
  /\ UNCHANGED <<lease, run, watch, crashes>>

EvaluationDone ==
  /\ reclaim.pc = "resetting" /\ reclaim.resets = {}
  /\ reclaim' = [reclaim EXCEPT !.pc = "idle"]
  /\ UNCHANGED <<circuit, lease, run, watch, crashes>>

-----------------------------------------------------------------------------
(* The environment.                                                        *)

OperatorReset(p) ==
  /\ circuit[p].state # "closed"
  /\ circuit' = [circuit EXCEPT ![p] = Closed]
  /\ UNCHANGED <<lease, run, watch, reclaim, crashes>>

(* Time passes between, not within, chains of promises. *)
Quiet == reclaim.pc = "idle" /\ \A r \in Runs : run[r].pc \notin Prompt

Less(n) == IF n > 0 THEN n - 1 ELSE n

Aged(n) == IF n = -1 \/ n = Orphan THEN n ELSE n + 1

(* The heartbeat timer renews the lease of a running hop before it ends. *)
Tick ==
  /\ Quiet
  /\ \A h \in Hops : At(h, "running") => lease[h].left # 1
  /\ circuit' = [p \in Profiles |-> [circuit[p] EXCEPT !.left = Less(@)]]
  /\ lease' = [h \in Hops |-> [lease[h] EXCEPT !.left = Less(@)]]
  /\ run' = [r \in Runs |-> [run[r] EXCEPT !.old = @ \/ At(r, "running")]]
  /\ watch' = [p \in Profiles |-> Aged(watch[p])]
  /\ reclaim' = [reclaim EXCEPT !.gap = Less(@)]
  /\ UNCHANGED crashes

(* The machine sleeps: every countdown is over when it wakes up. *)
Suspend ==
  /\ Quiet
  /\ circuit' = [p \in Profiles |->
                   [circuit[p] EXCEPT !.left = IF @ = Manual THEN @ ELSE 0]]
  /\ lease' = [h \in Hops |-> [lease[h] EXCEPT !.left = 0]]
  /\ watch' = [p \in Profiles |-> IF watch[p] = -1 THEN -1 ELSE Orphan]
  /\ reclaim' = [reclaim EXCEPT !.gap = 0]
  /\ UNCHANGED <<run, crashes>>

(* Circuits and leases are durable, runs and watches are not. *)
Crash ==
  /\ crashes < MaxCrash
  /\ crashes' = crashes + 1
  /\ run' = [r \in Runs |-> Idle]
  /\ watch' = [p \in Profiles |-> -1]
  /\ reclaim' = [pc |-> "idle", gap |-> 0, todo |-> {}, seen |-> {}, resets |-> {}]
  /\ UNCHANGED <<circuit, lease>>

-----------------------------------------------------------------------------
(* What a run that has begun does by itself. *)
HopStep(h) ==
  \/ OpenDepleted(h) \/ ClaimProbe(h) \/ TurnBack(h) \/ TurnAway(h) \/ Take(h)
  \/ FinishFenced(h) \/ CheckpointFailed(h)
  \/ (\E o \in Outcomes : Finish(h, o))
  \/ ReturnProbe(h) \/ Return(h) \/ ResolveProbe(h) \/ Settle(h)

QueryStep(q) ==
  \/ ClaimProbe(q) \/ StartQuery(q) \/ (\E o \in Outcomes : Finish(q, o))
  \/ ResolveProbe(q) \/ Settle(q)

Reclaim ==
  \/ Evaluate \/ Decide \/ EvaluationDone
  \/ \E p \in Profiles : ReadCircuit(p) \/ Reset(p)

Next ==
  \/ \E r \in Runs, p \in Profiles : Look(r, p)
  \/ \E h \in Hops, p \in Profiles : LookDepleted(h, p)
  \/ \E h \in Hops : HopStep(h) \/ Heartbeat(h)
  \/ \E q \in Queries : QueryStep(q)
  \/ Reclaim
  \/ \E p \in Profiles : OperatorReset(p)
  \/ Tick \/ Suspend \/ Crash

Spec == Init /\ [][Next]_vars

(* Promises resolve, agents end (wall clock, idle kill), timers fire, time *)
(* passes.                                                                 *)
Fairness ==
  /\ \A h \in Hops : WF_vars(HopStep(h)) /\ WF_vars(Heartbeat(h))
  /\ \A q \in Queries : WF_vars(QueryStep(q))
  /\ WF_vars(Reclaim)
  /\ SF_vars(Tick)

FairSpec == Spec /\ Fairness

-----------------------------------------------------------------------------
(* Properties.                                                             *)

\* Circuits, leases and runs keep their types: a circuit has a deadline exactly
\* when it is open, and no countdown leaves its range.
TypeOK ==
  /\ circuit \in [Profiles -> Circuit]
  /\ lease \in [Hops -> [profile: Profiles \cup {NoProfile}, left: 0..Lease]]
  /\ run \in [Runs -> RunState]
  /\ watch \in [Profiles -> {-1} \cup (0..Orphan)]
  /\ reclaim \in [pc: {"idle", "reading", "resetting"}, gap: 0..EvalGap,
                  todo: SUBSET Profiles, seen: SUBSET Profiles, resets: SUBSET Profiles]
  /\ crashes \in 0..MaxCrash

(* The reclaimer never takes the probe of a hop that has been running under*)
(* a live lease, however its reads interleave with claims, renewals,       *)
(* settlements and a machine that sleeps (decideProbeReclaim).             *)
ReclaimSparesLeased ==
  [][\A p \in Profiles : Reset(p) =>
        ~\E h \in Hops : /\ At(h, "running") /\ run[h].old /\ run[h].probe
                         /\ run[h].profile = p /\ lease[h].left > 0]_vars

(* A claimed probe is always released, although exceptions, failed         *)
(* checkpoints, refused starts, lost leases and restarts leave it claimed  *)
(* (probe-reclaim.ts: a candidate is not isolated for ever).               *)
ProbeReturns ==
  \A p \in Profiles : (circuit[p].state = "half_open") ~> (circuit[p].state # "half_open")
=============================================================================
