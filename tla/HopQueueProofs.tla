--------------------------- MODULE HopQueueProofs ---------------------------
(***************************************************************************)
(* Theorems about module HopQueue, for every number of runners, Missions,  *)
(* slots, candidates and every value of the limits and bounds.             *)
(***************************************************************************)
EXTENDS HopQueue, Sequences, FiniteSetTheorems, TLAPS

LEMMA Constants ==
  /\ MaxRev \in Nat /\ MaxCycle \in Nat /\ MaxGen \in Nat /\ MaxCrash \in Nat
  /\ Lease \in Nat /\ Lease > 0 /\ Tolerance \in Nat
  /\ MaxAttempts \in Nat /\ MaxAttempts > 0 /\ MaxRev > 0
  /\ Backoff \in [1..MaxAttempts -> Nat]
  /\ IsFiniteSet(Slots)
<1>1. \A n \in 1..MaxAttempts : Backoff[n] \in Nat
  BY TimeAssumption DEF Pos
<1>2. QED
  BY <1>1, FiniteAssumption, TimeAssumption DEF Pos

-----------------------------------------------------------------------------
(* How one step changes the queue.                                         *)

ClaimStep(r) ==
  LET k == runner[r].key IN
  /\ CanClaim(k) /\ ~WouldExceed(k, runner[r].profile)
  /\ rows[k].gen < MaxGen
  /\ rows' = [rows EXCEPT ![k] = ClaimedRow(k, runner[r].profile)]

EnqueueStep(k) ==
  /\ ~Present(k)
  /\ rows' = [rows EXCEPT ![k] = [AbsentRow EXCEPT !.status = "queued", !.born = RowCount + 1]]

RenewStep(k) ==
  /\ ActiveLease(k)
  /\ rows' = [rows EXCEPT ![k].lease = Lease]

(* A hop is settled or sent back by a run that ended, under its own claim. *)
Reporter(r, k) ==
  /\ runner[r].pc = "ended" /\ runner'[r] = Idle
  /\ runner[r].key = k /\ runner[r].gen = rows[k].gen

CompleteStep(r, k) ==
  /\ Reporter(r, k) /\ ActiveLease(k)
  /\ rows' = [rows EXCEPT ![k].status = "completed", ![k].lease = 0]

FailStep(r, k, b) ==
  /\ Reporter(r, k) /\ rows[k].status = "claimed"
  /\ rows' = [rows EXCEPT ![k] = FailedRow(k, b)]

TickStep ==
  rows' = [k \in Keys |-> [rows[k] EXCEPT !.lease = Less(@), !.wait = Less(@)]]

RowStep ==
  \/ UNCHANGED rows
  \/ \E k \in Keys : EnqueueStep(k) \/ RenewStep(k)
  \/ \E r \in Runners : runner[r].key \in Keys /\ runner[r].profile \in Profiles /\ ClaimStep(r)
  \/ \E r \in Runners, k \in Keys : CompleteStep(r, k) \/ \E b \in BOOLEAN : FailStep(r, k, b)
  \/ TickStep

LEMMA Working ==
  ASSUME TypeOK, NEW r \in Runners, runner[r].pc # "idle"
  PROVE  /\ runner[r].key \in Keys /\ runner[r].profile \in Profiles
         /\ runner[r].gen \in 0..MaxGen /\ runner[r].lost \in BOOLEAN
BY DEF TypeOK, RunnerStates, Idle

(* Every step of the specification changes the queue in one of these ways. *)
LEMMA QueueSteps ==
  ASSUME TypeOK, [Next]_vars
  PROVE  RowStep
<1>1. CASE UNCHANGED vars
  BY <1>1 DEF vars, RowStep
<1>2. ASSUME NEW r \in Runners, NEW s \in Slots, NEW p \in Profiles, Look(r, s, p)
      PROVE  RowStep
  BY <1>2 DEF Look, RowStep
<1>3. ASSUME NEW r \in Runners, Acquire(r)
      PROVE  RowStep
  <2>1. CASE Enqueue(r)
    <3>1. runner[r].key \in Keys
      BY <2>1, Working DEF Enqueue
    <3>2. QED
      BY <2>1, <3>1 DEF Enqueue, Enqueued, RowStep, EnqueueStep
  <2>2. CASE ClaimAvailable(r)
    <3>1. runner[r].key \in Keys /\ runner[r].profile \in Profiles
      BY <2>2, Working DEF ClaimAvailable
    <3>2. ClaimStep(r)
      BY <2>2 DEF ClaimAvailable, ClaimStep
    <3>3. QED
      BY <3>1, <3>2 DEF RowStep
  <2>3. QED
    BY <1>3, <2>1, <2>2 DEF Acquire, RowStep, TurnedAway, CheckRefused, CheckPassed,
       ClaimRefused, Recheck, Start, StartRefused
<1>4. ASSUME NEW r \in Runners, Heartbeat(r)
      PROVE  RowStep
  <2>1. runner[r].key \in Keys
    BY <1>4, Working DEF Heartbeat
  <2>2. QED
    BY <1>4, <2>1 DEF Heartbeat, RowStep, RenewStep, HoldsOwn, HoldsClaim
<1>5. ASSUME NEW r \in Runners, EndRun(r)
      PROVE  RowStep
  BY <1>5 DEF EndRun, Finish, FinishFenced, RowStep
<1>6. ASSUME NEW r \in Runners, Settle(r)
      PROVE  RowStep
  <2>1. /\ runner[r].key \in Keys /\ runner[r].pc = "ended"
        /\ r \in DOMAIN runner /\ runner'[r] = Idle
    BY <1>6, Working DEF Settle, Complete, ReportFailure, Abandon, Leave, TypeOK
  <2>2. CASE Complete(r)
    BY <2>1, <2>2 DEF Complete, RowStep, CompleteStep, Reporter, HoldsOwn, HoldsClaim
  <2>3. ASSUME NEW b \in BOOLEAN, ReportFailure(r, b)
        PROVE  RowStep
    BY <2>1, <2>3 DEF ReportFailure, RowStep, FailStep, Reporter
  <2>4. QED
    BY <1>6, <2>2, <2>3 DEF Settle, Abandon, RowStep
<1>7. ASSUME NEW m \in Missions, Pause(m) \/ End(m) \/ Revise(m)
      PROVE  RowStep
  BY <1>7 DEF Pause, End, Revise, RowStep
<1>8. CASE Tick
  BY <1>8 DEF Tick, TickStep, RowStep
<1>9. CASE Restart
  BY <1>9 DEF Restart, RowStep
<1>10. QED
  BY <1>1, <1>2, <1>3, <1>4, <1>5, <1>6, <1>7, <1>8, <1>9 DEF Next

-----------------------------------------------------------------------------
(* Types, and how often a row has failed.  TypeOK is not inductive: the    *)
(* count of a claimed row stays below MaxAttempts only because a row that  *)
(* reached it is a dead letter, and each claim reports one failure at most. *)

ClaimedRows ==
  \A k \in Keys :
    /\ rows[k].status = "claimed" => rows[k].count < rows[k].gen /\ rows[k].profile \in Profiles
    /\ rows[k].status = "absent" => rows[k].gen = 0

IInv == TypeOK /\ FailuresCounted /\ ClaimedRows

LEMMA KeysFinite == IsFiniteSet(Keys)
<1>. DEFINE pairs == (1..MaxRev) \X (0..MaxCycle)
            f == [x \in Slots \X pairs |-> <<x[1], x[2][1], x[2][2]>>]
<1>0. 0 \in Int /\ 1 \in Int /\ MaxRev \in Int /\ MaxCycle \in Int
  BY Constants
<1>1. IsFiniteSet(1..MaxRev) /\ IsFiniteSet(0..MaxCycle)
  BY <1>0, FS_Interval
<1>2. IsFiniteSet(Slots \X pairs)
  BY <1>1, FS_Product, Constants
<1>3. f \in Surjection(Slots \X pairs, Keys)
  <2>1. f \in [Slots \X pairs -> Keys]
    BY DEF Keys
  <2>2. ASSUME NEW k \in Keys
        PROVE  \E x \in Slots \X pairs : f[x] = k
    <3>1. <<k[1], <<k[2], k[3]>>>> \in Slots \X pairs
      BY DEF Keys
    <3>2. f[<<k[1], <<k[2], k[3]>>>>] = k
      BY <3>1 DEF Keys
    <3>3. QED
      BY <3>1, <3>2
  <2>3. QED
    BY <2>1, <2>2 DEF Surjection
<1>4. QED
  BY <1>2, <1>3, FS_Surjection

LEMMA RowCountType == RowCount \in Nat
  BY KeysFinite, FS_Subset, FS_CardinalityType DEF RowCount

(* What the inductive invariant says of one row beyond its type.           *)
RowFacts(row) ==
  /\ row.count <= row.gen /\ row.failed <= row.gen
  /\ row.count = MaxAttempts => row.status = "dead_letter"
  /\ row.status = "retry_wait" => row.failed = row.gen /\ row.count > 0
  /\ row.status = "claimed" => row.count < row.gen /\ row.profile \in Profiles
  /\ row.status = "absent" => row.gen = 0

RowInv(row) == row \in Row /\ RowFacts(row)

LEMMA NewRow ==
  ASSUME NEW n \in Nat
  PROVE  RowInv([AbsentRow EXCEPT !.status = "queued", !.born = n])
<1>1. AbsentRow \in Row
  BY Constants DEF Row, AbsentRow, Statuses, NoProfile
<1>2. [AbsentRow EXCEPT !.status = "queued", !.born = n] \in Row
  BY <1>1 DEF Row, Statuses
<1>3. QED
  BY <1>2, Constants DEF RowInv, RowFacts, AbsentRow

LEMMA LeasedRow ==
  ASSUME NEW row, RowInv(row), NEW l \in 0..Lease
  PROVE  RowInv([row EXCEPT !.lease = l])
  BY DEF RowInv, RowFacts, Row

LEMMA OlderRow ==
  ASSUME NEW row, RowInv(row), NEW l \in 0..Lease, NEW w \in Nat
  PROVE  RowInv([row EXCEPT !.lease = l, !.wait = w])
  BY DEF RowInv, RowFacts, Row

LEMMA TakenRow ==
  ASSUME NEW row, RowInv(row), row.status \in {"queued", "retry_wait", "claimed"},
         NEW o \in 0..MaxCrash, NEW p \in Profiles, row.gen < MaxGen
  PROVE  RowInv([row EXCEPT !.status = "claimed", !.owner = o, !.gen = @ + 1,
                            !.lease = Lease, !.profile = p])
<1>1. ASSUME NEW g \in 0..MaxGen, NEW l \in 0..Lease
      PROVE  [row EXCEPT !.status = "claimed", !.owner = o, !.gen = g,
                         !.lease = l, !.profile = p] \in Row
  BY DEF RowInv, Row, Statuses
<1>2. row.gen + 1 \in 0..MaxGen /\ Lease \in 0..Lease
  BY Constants, SMTT(30) DEF RowInv, Row
<1>3. [row EXCEPT !.status = "claimed", !.owner = o, !.gen = @ + 1,
                  !.lease = Lease, !.profile = p] \in Row
  BY <1>1, <1>2
<1>4. row.count <= row.gen /\ row.failed <= row.gen /\ row.count # MaxAttempts
      /\ row.count \in Nat /\ row.gen \in Nat /\ row.failed \in Nat /\ row \in Row
  BY DEF RowInv, RowFacts, Row
<1>5. QED
  BY <1>3, <1>4 DEF RowInv, RowFacts, Row

LEMMA CompletedRow ==
  ASSUME NEW row, RowInv(row), row.status = "claimed"
  PROVE  RowInv([row EXCEPT !.status = "completed", !.lease = 0])
<1>1. ASSUME NEW l \in 0..Lease
      PROVE  [row EXCEPT !.status = "completed", !.lease = l] \in Row
  BY DEF RowInv, Row, Statuses
<1>2. 0 \in 0..Lease
  BY Constants
<1>3. [row EXCEPT !.status = "completed", !.lease = 0] \in Row
  BY <1>1, <1>2
<1>4. QED
  BY <1>3 DEF RowInv, RowFacts, Row

LEMMA FailedRowInv ==
  ASSUME NEW k \in Keys, RowInv(rows[k]), rows[k].status = "claimed", NEW b \in BOOLEAN
  PROVE  RowInv(FailedRow(k, b))
<1>. DEFINE n == rows[k].count + 1
<1>0. /\ rows[k] \in Row /\ rows[k].gen \in 0..MaxGen /\ rows[k].count \in 0..MaxAttempts
      /\ rows[k].count # MaxAttempts /\ rows[k].count < rows[k].gen
  BY DEF RowInv, RowFacts, Row
<1>1. /\ n \in 0..MaxAttempts /\ n > 0 /\ n <= rows[k].gen
      /\ 0 \in 0..MaxCrash /\ 0 \in 0..Lease
  BY <1>0, Constants
<1>2. CASE ~b \/ n >= MaxAttempts
  <2>1. FailedRow(k, b) =
          [rows[k] EXCEPT !.count = n, !.failed = rows[k].gen,
                          !.owner = 0, !.lease = 0, !.status = "dead_letter"]
    BY <1>2 DEF FailedRow
  <2>2. ASSUME NEW c \in 0..MaxAttempts, NEW g \in 0..MaxGen, NEW o \in 0..MaxCrash,
               NEW l \in 0..Lease
        PROVE  [rows[k] EXCEPT !.count = c, !.failed = g, !.owner = o, !.lease = l,
                               !.status = "dead_letter"] \in Row
    BY <1>0 DEF Row, Statuses
  <2>3. FailedRow(k, b) \in Row
    <3>1. [rows[k] EXCEPT !.count = n, !.failed = rows[k].gen,
                          !.owner = 0, !.lease = 0, !.status = "dead_letter"] \in Row
      BY <1>0, <1>1, <2>2
    <3>2. QED
      BY <2>1, <3>1
  <2>4. RowFacts(FailedRow(k, b))
    BY <1>0, <1>1, <2>1 DEF RowFacts, Row
  <2>5. QED
    BY <2>3, <2>4 DEF RowInv
<1>3. CASE ~(~b \/ n >= MaxAttempts)
  <2>1. FailedRow(k, b) =
          [rows[k] EXCEPT !.count = n, !.failed = rows[k].gen,
                          !.owner = 0, !.lease = 0, !.status = "retry_wait",
                          !.wait = Backoff[n]]
    BY <1>3 DEF FailedRow
  <2>2. ASSUME NEW c \in 0..MaxAttempts, NEW g \in 0..MaxGen, NEW o \in 0..MaxCrash,
               NEW l \in 0..Lease, NEW w \in Nat
        PROVE  [rows[k] EXCEPT !.count = c, !.failed = g, !.owner = o, !.lease = l,
                               !.status = "retry_wait", !.wait = w] \in Row
    BY <1>0 DEF Row, Statuses
  <2>3. Backoff[n] \in Nat
    BY <1>1, Constants
  <2>4. FailedRow(k, b) \in Row
    <3>1. [rows[k] EXCEPT !.count = n, !.failed = rows[k].gen,
                          !.owner = 0, !.lease = 0, !.status = "retry_wait",
                          !.wait = Backoff[n]] \in Row
      BY <1>0, <1>1, <2>2, <2>3
    <3>2. QED
      BY <2>1, <3>1
  <2>5. RowFacts(FailedRow(k, b))
    BY <1>0, <1>1, <1>3, <2>1 DEF RowFacts, Row
  <2>6. QED
    BY <2>4, <2>5 DEF RowInv
<1>4. QED
  BY <1>2, <1>3

LEMMA RowInvStep ==
  ASSUME TypeOK, RowStep, \A k \in Keys : RowInv(rows[k])
  PROVE  rows' \in [Keys -> Row] /\ \A k \in Keys : RowInv(rows'[k])
<1>0. rows \in [Keys -> Row] /\ proc \in 0..MaxCrash
  BY DEF TypeOK
<1>. SUFFICES /\ rows' = [k \in Keys |-> rows'[k]]
              /\ \A k \in Keys : RowInv(rows'[k])
  BY DEF RowInv
<1>r. ASSUME NEW k \in Keys, NEW row, RowInv(row), rows' = [rows EXCEPT ![k] = row]
      PROVE  /\ rows' = [j \in Keys |-> rows'[j]]
             /\ \A j \in Keys : RowInv(rows'[j])
  BY <1>0, <1>r
<1>1. CASE UNCHANGED rows
  BY <1>0, <1>1
<1>2. ASSUME NEW k \in Keys, EnqueueStep(k)
      PROVE  /\ rows' = [j \in Keys |-> rows'[j]]
             /\ \A j \in Keys : RowInv(rows'[j])
  <2>1. RowCount + 1 \in Nat
    BY RowCountType
  <2>2. QED
    BY <1>r, <1>2, <2>1, NewRow DEF EnqueueStep
<1>3. ASSUME NEW k \in Keys, RenewStep(k)
      PROVE  /\ rows' = [j \in Keys |-> rows'[j]]
             /\ \A j \in Keys : RowInv(rows'[j])
  <2>1. RowInv([rows[k] EXCEPT !.lease = Lease])
    BY LeasedRow, Constants, SMTT(30)
  <2>2. QED
    BY <1>r, <1>3, <2>1 DEF RenewStep
<1>4. ASSUME NEW r \in Runners, runner[r].key \in Keys, runner[r].profile \in Profiles,
             ClaimStep(r)
      PROVE  /\ rows' = [j \in Keys |-> rows'[j]]
             /\ \A j \in Keys : RowInv(rows'[j])
  <2>1. RowInv(ClaimedRow(runner[r].key, runner[r].profile))
    BY <1>0, <1>4, TakenRow DEF ClaimStep, ClaimedRow, CanClaim
  <2>2. QED
    BY <1>r, <1>4, <2>1 DEF ClaimStep
<1>5. ASSUME NEW r \in Runners, NEW k \in Keys, CompleteStep(r, k)
      PROVE  /\ rows' = [j \in Keys |-> rows'[j]]
             /\ \A j \in Keys : RowInv(rows'[j])
  <2>1. RowInv([rows[k] EXCEPT !.status = "completed", !.lease = 0])
    BY <1>5, CompletedRow DEF CompleteStep, ActiveLease
  <2>2. rows' = [rows EXCEPT ![k] = [rows[k] EXCEPT !.status = "completed", !.lease = 0]]
    BY <1>0, <1>5 DEF CompleteStep
  <2>3. QED
    BY <1>r, <2>1, <2>2
<1>6. ASSUME NEW r \in Runners, NEW k \in Keys, NEW b \in BOOLEAN, FailStep(r, k, b)
      PROVE  /\ rows' = [j \in Keys |-> rows'[j]]
             /\ \A j \in Keys : RowInv(rows'[j])
  BY <1>r, <1>6, FailedRowInv DEF FailStep
<1>7. CASE TickStep
  <2>1. ASSUME NEW k \in Keys
        PROVE  RowInv(rows'[k])
    <3>0. RowInv(rows[k]) /\ rows[k].lease \in 0..Lease /\ rows[k].wait \in Nat
      BY <1>0 DEF Row
    <3>1. Less(rows[k].lease) \in 0..Lease /\ Less(rows[k].wait) \in Nat
      BY <3>0, Constants DEF Less
    <3>2. rows'[k] = [rows[k] EXCEPT !.lease = Less(rows[k].lease), !.wait = Less(rows[k].wait)]
      BY <1>7 DEF TickStep
    <3>3. QED
      <4>1. RowInv([rows[k] EXCEPT !.lease = Less(rows[k].lease), !.wait = Less(rows[k].wait)])
        BY <3>0, <3>1, OlderRow
      <4>2. QED
        BY <3>2, <4>1
  <2>2. QED
    BY <1>7, <2>1 DEF TickStep
<1>8. QED
  BY <1>1, <1>2, <1>3, <1>4, <1>5, <1>6, <1>7 DEF RowStep

TypeRest ==
  /\ mission \in [Missions -> [paused: BOOLEAN, ended: BOOLEAN, rev: 1..MaxRev]]
  /\ runner \in [Runners -> RunnerStates]
  /\ attempt \in [Lanes -> [key: Keys, gen: 0..MaxGen, beat: 0..Tolerance] \cup {NoAttempt}]
  /\ tokens \subseteq Claims
  /\ proc \in 0..MaxCrash

LEMMA Moved ==
  ASSUME TypeOK, NEW r \in Runners, runner[r].pc # "idle",
         NEW pc \in {"looked", "enqueued", "checked", "claimed", "ready", "running", "ended"}
  PROVE  [runner EXCEPT ![r].pc = pc] \in [Runners -> RunnerStates]
<1>1. [runner[r] EXCEPT !.pc = pc] \in RunnerStates
  BY DEF TypeOK, RunnerStates, Idle
<1>2. QED
  BY <1>1 DEF TypeOK

LEMMA Left ==
  ASSUME TypeOK, NEW r \in Runners
  PROVE  [runner EXCEPT ![r] = Idle] \in [Runners -> RunnerStates]
  BY DEF TypeOK, RunnerStates

LEMMA NoKeyIsNoKey == NoKey \notin Keys
<1>1. ASSUME NEW k \in Keys
      PROVE  k # <<>>
  <2>1. k = <<k[1], k[2], k[3]>>
    BY DEF Keys
  <2>2. Len(k) = 3
    BY <2>1
  <2>3. QED
    BY <2>2
<1>2. QED
  BY <1>1 DEF NoKey

LEMMA LaneTyped ==
  ASSUME TypeOK, NEW r \in Runners, runner[r].pc # "idle"
  PROVE  LaneOfRun(r) \in Lanes
  BY Working, AttributeAssumption DEF LaneOfRun, SlotOf, Keys

LEMMA TypeRestStep ==
  ASSUME TypeOK, [Next]_vars
  PROVE  TypeRest'
<1>0. TypeRest
  BY DEF TypeOK, TypeRest
<1>. USE DEF TypeRest
<1>1. CASE UNCHANGED vars
  BY <1>0, <1>1 DEF vars
<1>2. ASSUME NEW r \in Runners, NEW s \in Slots, NEW p \in Profiles, Look(r, s, p)
      PROVE  TypeRest'
  <2>. DEFINE m == MissionOf[s]
              c == NextCycle(s, mission[m].rev)
  <2>1. <<s, mission[m].rev, c>> \in Keys
    BY <1>0, <1>2, AttributeAssumption DEF Look, Keys
  <2>2. [pc |-> "looked", key |-> <<s, mission[m].rev, c>>, profile |-> p, gen |-> 0,
         lost |-> FALSE] \in RunnerStates
    BY <2>1, Constants DEF RunnerStates
  <2>3. QED
    BY <1>0, <1>2, <2>2 DEF Look
<1>3. ASSUME NEW r \in Runners, Acquire(r)
      PROVE  TypeRest'
  <2>1. CASE Enqueue(r) \/ TurnedAway(r) \/ CheckRefused(r) \/ CheckPassed(r)
             \/ ClaimRefused(r) \/ Recheck(r) \/ StartRefused(r)
    <3>1. /\ runner[r].pc # "idle" /\ UNCHANGED <<mission, attempt, tokens, proc>>
          /\ \/ runner' = [runner EXCEPT ![r] = Idle]
             \/ runner' = [runner EXCEPT ![r].pc = "enqueued"]
             \/ runner' = [runner EXCEPT ![r].pc = "checked"]
             \/ runner' = [runner EXCEPT ![r].pc = "ready"]
      BY <2>1 DEF Enqueue, TurnedAway, CheckRefused, CheckPassed, ClaimRefused, Recheck,
         StartRefused, Leave, Goto
    <3>2. runner' \in [Runners -> RunnerStates]
      <4>1. CASE runner' = [runner EXCEPT ![r] = Idle]
        BY <4>1, Left
      <4>2. ASSUME NEW pc \in {"enqueued", "checked", "ready"},
                   runner' = [runner EXCEPT ![r].pc = pc]
            PROVE  runner' \in [Runners -> RunnerStates]
        BY <3>1, <4>2, Moved
      <4>3. QED
        BY <3>1, <4>1, <4>2
    <3>3. QED
      BY <1>0, <3>1, <3>2
  <2>2. CASE ClaimAvailable(r)
    <3>0. /\ runner[r].key \in Keys /\ runner[r].pc = "checked"
          /\ rows[runner[r].key] \in Row /\ rows[runner[r].key].gen < MaxGen
      BY <2>2, Working DEF ClaimAvailable, TypeOK
    <3>1. rows[runner[r].key].gen + 1 \in 0..MaxGen
      <4>1. rows[runner[r].key].gen \in 0..MaxGen
        BY <3>0 DEF Row
      <4>2. MaxGen \in Nat
        BY Constants
      <4>3. QED
        BY <3>0, <4>1, <4>2
    <3>2. [runner[r] EXCEPT !.pc = "claimed", !.gen = rows[runner[r].key].gen + 1] \in RunnerStates
      <4>1. ASSUME NEW g \in 0..MaxGen
            PROVE  [runner[r] EXCEPT !.pc = "claimed", !.gen = g] \in RunnerStates
        <5>1. runner[r] \in
                [pc: {"looked", "enqueued", "checked", "claimed", "ready", "running", "ended"},
                 key: Keys, profile: Profiles, gen: 0..MaxGen, lost: BOOLEAN]
          BY <3>0 DEF TypeOK, RunnerStates, Idle
        <5>2. QED
          BY <5>1 DEF RunnerStates
      <4>2. QED
        BY <3>1, <4>1
    <3>3. QED
      BY <1>0, <2>2, <3>2 DEF ClaimAvailable
  <2>3. CASE Start(r)
    <3>1. runner[r].pc = "ready" /\ runner[r].key \in Keys /\ runner[r].gen \in 0..MaxGen
      BY <2>3, Working DEF Start
    <3>2. /\ [key |-> runner[r].key, gen |-> runner[r].gen, beat |-> 0]
               \in [key: Keys, gen: 0..MaxGen, beat: 0..Tolerance]
          /\ Claim(r) \in Claims
      BY <3>1, Constants DEF Claim, Claims
    <3>3. attempt' \in [Lanes -> [key: Keys, gen: 0..MaxGen, beat: 0..Tolerance] \cup {NoAttempt}]
      BY <1>0, <2>3, <3>2 DEF Start
    <3>4. QED
      BY <1>0, <2>3, <3>1, <3>2, <3>3, Moved DEF Start, Goto
  <2>4. QED
    BY <1>3, <2>1, <2>2, <2>3 DEF Acquire
<1>4. ASSUME NEW r \in Runners, Heartbeat(r)
      PROVE  TypeRest'
  <2>1. [runner[r] EXCEPT !.lost = @ \/ ~HoldsOwn(r)] \in RunnerStates
    <3>1. ASSUME NEW b \in BOOLEAN
          PROVE  [runner[r] EXCEPT !.lost = b] \in RunnerStates
      <4>1. runner[r] \in
              [pc: {"looked", "enqueued", "checked", "claimed", "ready", "running", "ended"},
               key: Keys, profile: Profiles, gen: 0..MaxGen, lost: BOOLEAN]
        <5>1. runner[r] \in RunnerStates /\ runner[r].pc = "running"
          BY <1>0, <1>4 DEF Heartbeat
        <5>2. QED
          BY <5>1 DEF RunnerStates, Idle
      <4>2. QED
        BY <4>1 DEF RunnerStates
    <3>2. (runner[r].lost \/ ~HoldsOwn(r)) \in BOOLEAN
      BY ZenonT(30)
    <3>3. QED
      BY <3>1, <3>2
  <2>2. runner' \in [Runners -> RunnerStates]
    BY <1>0, <1>4, <2>1 DEF Heartbeat
  <2>3. attempt' \in [Lanes -> [key: Keys, gen: 0..MaxGen, beat: 0..Tolerance] \cup {NoAttempt}]
    <3>1. CASE OwnAttempt(r)
      <4>1. LaneOfRun(r) \in Lanes /\ runner[r].key \in Keys
        BY <1>4, LaneTyped, Working DEF Heartbeat
      <4>2. attempt[LaneOfRun(r)] \in [key: Keys, gen: 0..MaxGen, beat: 0..Tolerance]
        BY <1>0, <3>1, <4>1, NoKeyIsNoKey DEF OwnAttempt, NoAttempt
      <4>3. [attempt[LaneOfRun(r)] EXCEPT !.beat = Tolerance]
              \in [key: Keys, gen: 0..MaxGen, beat: 0..Tolerance]
        BY <4>2, Constants
      <4>4. QED
        BY <1>0, <1>4, <3>1, <4>3 DEF Heartbeat
    <3>2. CASE ~OwnAttempt(r)
      BY <1>0, <1>4, <3>2 DEF Heartbeat
    <3>3. QED
      BY <3>1, <3>2
  <2>4. QED
    BY <1>0, <1>4, <2>2, <2>3 DEF Heartbeat
<1>5. ASSUME NEW r \in Runners, EndRun(r)
      PROVE  TypeRest'
  <2>1. CASE Finish(r)
    <3>1. attempt' \in [Lanes -> [key: Keys, gen: 0..MaxGen, beat: 0..Tolerance] \cup {NoAttempt}]
      BY <1>0, <2>1 DEF Finish
    <3>2. QED
      BY <1>0, <2>1, <3>1, Moved DEF Finish, Goto
  <2>2. CASE FinishFenced(r)
    BY <1>0, <2>2, Left DEF FinishFenced, Leave
  <2>3. QED
    BY <1>5, <2>1, <2>2 DEF EndRun
<1>6. ASSUME NEW r \in Runners, Settle(r)
      PROVE  TypeRest'
  BY <1>0, <1>6, Left DEF Settle, Complete, ReportFailure, Abandon, Leave
<1>7. ASSUME NEW m \in Missions, Pause(m) \/ End(m) \/ Revise(m)
      PROVE  TypeRest'
  <2>1. mission[m] \in [paused: BOOLEAN, ended: BOOLEAN, rev: 1..MaxRev]
    BY <1>0
  <2>2. CASE Pause(m)
    <3>1. [mission[m] EXCEPT !.paused = ~@] \in [paused: BOOLEAN, ended: BOOLEAN, rev: 1..MaxRev]
      BY <2>1
    <3>2. QED
      BY <1>0, <2>2, <3>1 DEF Pause
  <2>3. CASE End(m)
    <3>1. [mission[m] EXCEPT !.ended = TRUE] \in [paused: BOOLEAN, ended: BOOLEAN, rev: 1..MaxRev]
      BY <2>1
    <3>2. QED
      BY <1>0, <2>3, <3>1 DEF End
  <2>4. CASE Revise(m)
    <3>1. mission[m].rev + 1 \in 1..MaxRev
      BY <2>1, <2>4, Constants DEF Revise
    <3>2. [mission[m] EXCEPT !.rev = @ + 1] \in [paused: BOOLEAN, ended: BOOLEAN, rev: 1..MaxRev]
      BY <2>1, <3>1
    <3>3. QED
      BY <1>0, <2>4, <3>2 DEF Revise
  <2>5. QED
    BY <1>7, <2>2, <2>3, <2>4
<1>8. CASE Tick
  <2>1. ASSUME NEW l \in Lanes
        PROVE  [attempt[l] EXCEPT !.beat = Less(@)]
                 \in [key: Keys, gen: 0..MaxGen, beat: 0..Tolerance] \cup {NoAttempt}
    <3>1. CASE attempt[l] = NoAttempt
      BY <3>1 DEF NoAttempt, Less
    <3>2. CASE attempt[l] \in [key: Keys, gen: 0..MaxGen, beat: 0..Tolerance]
      <4>1. Less(attempt[l].beat) \in 0..Tolerance
        BY <3>2, Constants DEF Less
      <4>2. QED
        BY <3>2, <4>1
    <3>3. QED
      BY <1>0, <3>1, <3>2
  <2>2. QED
    BY <1>0, <1>8, <2>1 DEF Tick
<1>9. CASE Restart
  <2>1. proc' \in 0..MaxCrash
    BY <1>0, <1>9, Constants DEF Restart
  <2>2. runner' \in [Runners -> RunnerStates]
    BY <1>9 DEF Restart, RunnerStates
  <2>3. attempt' \in [Lanes -> [key: Keys, gen: 0..MaxGen, beat: 0..Tolerance] \cup {NoAttempt}]
    BY <1>0, <1>9 DEF Restart
  <2>4. QED
    BY <1>0, <1>9, <2>1, <2>2, <2>3 DEF Restart
<1>10. QED
  BY <1>1, <1>2, <1>3, <1>4, <1>5, <1>6, <1>7, <1>8, <1>9 DEF Next

LEMMA InitInv == Init => IInv
<1>. SUFFICES ASSUME Init PROVE IInv
  OBVIOUS
<1>1. AbsentRow \in Row
  BY Constants DEF Row, AbsentRow, Statuses, NoProfile
<1>2. TypeOK
  BY <1>1, Constants DEF Init, TypeOK, RunnerStates
<1>3. \A k \in Keys : rows[k] = AbsentRow
  BY DEF Init
<1>4. QED
  BY <1>2, <1>3, Constants DEF IInv, FailuresCounted, ClaimedRows, AbsentRow

LEMMA InvRows == IInv => TypeOK /\ \A k \in Keys : RowInv(rows[k])
  BY DEF IInv, FailuresCounted, ClaimedRows, RowInv, RowFacts, TypeOK

LEMMA InvStep ==
  ASSUME IInv, [Next]_vars
  PROVE  IInv'
<1>1. TypeOK /\ \A k \in Keys : RowInv(rows[k])
  BY InvRows
<1>2. RowStep
  BY <1>1, QueueSteps
<1>3. rows' \in [Keys -> Row] /\ \A k \in Keys : RowInv(rows'[k])
  BY <1>1, <1>2, RowInvStep
<1>4. TypeRest'
  BY <1>1, TypeRestStep
<1>5. QED
  BY <1>3, <1>4 DEF IInv, TypeOK, TypeRest, FailuresCounted, ClaimedRows, RowInv, RowFacts

THEOREM Invariance == Spec => []IInv
  BY InitInv, InvStep, PTL DEF Spec

(* Type correctness of the queue, the runners and the lanes: what          *)
(* FileQueuedHopRepository stores and #runHop keeps is always well formed. *)
THEOREM TypeCorrect == Spec => []TypeOK
<1>1. IInv => TypeOK
  BY DEF IInv
<1>2. QED
  BY <1>1, Invariance, PTL

(* reportHopFailure counts a failure at most once per claim, never passes  *)
(* maxAttempts, and a row that reached it is a dead letter.                *)
THEOREM FailuresAreCounted == Spec => []FailuresCounted
<1>1. IInv => FailuresCounted
  BY DEF IInv
<1>2. QED
  BY <1>1, Invariance, PTL

-----------------------------------------------------------------------------
(* What a step may never do to a row.                                      *)

LEMMA SettledStays ==
  ASSUME TypeOK, RowStep, NEW k \in Keys, Settled(k)
  PROVE  /\ rows'[k].status = rows[k].status
         /\ rows'[k].gen = rows[k].gen
         /\ rows'[k].count = rows[k].count
<1>0. rows \in [Keys -> Row] /\ rows[k] \in Row /\ rows[k].status \in {"completed", "dead_letter"}
  BY DEF TypeOK, Settled
<1>r. ASSUME NEW j \in Keys, j # k, NEW row, rows' = [rows EXCEPT ![j] = row]
      PROVE  rows'[k] = rows[k]
  BY <1>0, <1>r
<1>2. ASSUME NEW j \in Keys, EnqueueStep(j)
      PROVE  rows'[k] = rows[k]
  BY <1>0, <1>r, <1>2 DEF EnqueueStep, Present
<1>3. ASSUME NEW j \in Keys, RenewStep(j)
      PROVE  rows'[k] = rows[k]
  BY <1>0, <1>r, <1>3 DEF RenewStep, ActiveLease
<1>4. ASSUME NEW r \in Runners, runner[r].key \in Keys, ClaimStep(r)
      PROVE  rows'[k] = rows[k]
  BY <1>0, <1>r, <1>4 DEF ClaimStep, CanClaim
<1>5. ASSUME NEW r \in Runners, NEW j \in Keys, CompleteStep(r, j)
      PROVE  rows'[k] = rows[k]
  BY <1>0, <1>5 DEF CompleteStep, ActiveLease
<1>6. ASSUME NEW r \in Runners, NEW j \in Keys, NEW b \in BOOLEAN, FailStep(r, j, b)
      PROVE  rows'[k] = rows[k]
  BY <1>0, <1>r, <1>6 DEF FailStep
<1>7. CASE TickStep
  <2>1. rows'[k] = [rows[k] EXCEPT !.lease = Less(rows[k].lease), !.wait = Less(rows[k].wait)]
    BY <1>7 DEF TickStep
  <2>2. QED
    BY <1>0, <2>1 DEF Row
<1>8. QED
  BY <1>2, <1>3, <1>4, <1>5, <1>6, <1>7 DEF RowStep

(* A completed hop or a dead letter is never claimed, retried or counted   *)
(* again (claimHop, renewHop, completeHop, reportHopFailure).              *)
THEOREM DecisionsAreFinal == Spec => SettledIsFinal
<1>1. IInv /\ [Next]_vars =>
        [\A k \in Keys : Settled(k) =>
           /\ rows'[k].status = rows[k].status
           /\ rows'[k].gen = rows[k].gen
           /\ rows'[k].count = rows[k].count]_vars
  BY InvRows, QueueSteps, SettledStays
<1>2. QED
  BY <1>1, Invariance, PTL DEF Spec, SettledIsFinal

LEMMA LiveStays ==
  ASSUME TypeOK, RowStep, NEW k \in Keys, ActiveLease(k)
  PROVE  /\ rows'[k].gen = rows[k].gen
         /\ rows'[k].status # "claimed" => \E r \in Runners : Reporter(r, k)
<1>0. rows \in [Keys -> Row] /\ rows[k] \in Row /\ rows[k].status = "claimed" /\ rows[k].lease > 0
  BY DEF TypeOK, ActiveLease
<1>r. ASSUME NEW j \in Keys, j # k, NEW row, rows' = [rows EXCEPT ![j] = row]
      PROVE  rows'[k] = rows[k]
  BY <1>0, <1>r
<1>2. ASSUME NEW j \in Keys, EnqueueStep(j)
      PROVE  rows'[k] = rows[k]
  BY <1>0, <1>r, <1>2 DEF EnqueueStep, Present
<1>3. ASSUME NEW j \in Keys, RenewStep(j)
      PROVE  rows'[k].gen = rows[k].gen /\ rows'[k].status = "claimed"
  BY <1>0, <1>3 DEF RenewStep, Row
<1>4. ASSUME NEW r \in Runners, runner[r].key \in Keys, ClaimStep(r)
      PROVE  rows'[k] = rows[k]
  BY <1>0, <1>r, <1>4 DEF ClaimStep, CanClaim, Row
<1>5. ASSUME NEW r \in Runners, NEW j \in Keys, CompleteStep(r, j)
      PROVE  rows'[k] = rows[k] \/ (Reporter(r, k) /\ rows'[k].gen = rows[k].gen)
  BY <1>0, <1>5 DEF CompleteStep, Row
<1>6. ASSUME NEW r \in Runners, NEW j \in Keys, NEW b \in BOOLEAN, FailStep(r, j, b)
      PROVE  rows'[k] = rows[k] \/ (Reporter(r, k) /\ rows'[k].gen = rows[k].gen)
  <2>1. CASE j # k
    BY <1>r, <1>6, <2>1 DEF FailStep
  <2>2. CASE j = k
    <3>1. rows'[k] = FailedRow(k, b)
      BY <1>0, <1>6, <2>2 DEF FailStep
    <3>2. FailedRow(k, b).gen = rows[k].gen
      BY <1>0 DEF FailedRow, Row
    <3>3. QED
      BY <1>6, <2>2, <3>1, <3>2 DEF FailStep
  <2>3. QED
    BY <2>1, <2>2
<1>7. CASE TickStep
  <2>1. rows'[k] = [rows[k] EXCEPT !.lease = Less(rows[k].lease), !.wait = Less(rows[k].wait)]
    BY <1>7 DEF TickStep
  <2>2. QED
    BY <1>0, <2>1 DEF Row
<1>8. QED
  BY <1>0, <1>2, <1>3, <1>4, <1>5, <1>6, <1>7 DEF RowStep

(* A lease that has not run out is not taken over, and only the run that   *)
(* holds it ends it: the fence of holdsCurrentClaim and of the generation. *)
THEOREM LiveLeasesAreKept == Spec => LiveLeaseKept
<1>1. IInv /\ [Next]_vars =>
        [\A k \in Keys : ActiveLease(k) =>
           /\ rows'[k].gen = rows[k].gen
           /\ rows'[k].status # "claimed" =>
                \E r \in Runners :
                  /\ runner[r].pc = "ended" /\ runner'[r] = Idle
                  /\ runner[r].key = k /\ runner[r].gen = rows[k].gen]_vars
  BY InvRows, QueueSteps, LiveStays DEF Reporter
<1>2. QED
  BY <1>1, Invariance, PTL DEF Spec, LiveLeaseKept

-----------------------------------------------------------------------------
(* The queue implements the abstract lease of module HopLease.             *)

Epoch == [k \in Keys |-> rows[k].gen]
Held  == [k \in Keys |-> ActiveLease(k)]
Done  == [k \in Keys |-> Settled(k)]

LEMMA OtherKeys ==
  ASSUME TypeOK, NEW k \in Keys, NEW row, rows' = [rows EXCEPT ![k] = row]
  PROVE  /\ rows'[k] = row
         /\ \A j \in Keys \ {k} : rows'[j] = rows[j]
  BY DEF TypeOK

(* The three ways the abstract lease may move, told of single rows.        *)
LEMMA TakeRefines ==
  ASSUME NEW k \in Keys, ~ActiveLease(k), ~Settled(k),
         \A j \in Keys \ {k} : rows'[j] = rows[j],
         rows[k].gen \in Nat, rows'[k].gen = rows[k].gen + 1,
         ActiveLease(k)', ~Settled(k)'
  PROVE  Promise!Take(k)
<1>1. Epoch' = [Epoch EXCEPT ![k] = @ + 1]
  BY DEF Epoch
<1>2. ASSUME NEW j \in Keys \ {k}
      PROVE  (ActiveLease(j)' <=> ActiveLease(j)) /\ (Settled(j)' <=> Settled(j))
  BY <1>2 DEF ActiveLease, Settled
<1>3. Held' = [Held EXCEPT ![k] = TRUE]
  <2>1. ASSUME NEW j \in Keys
        PROVE  ActiveLease(j)' = [Held EXCEPT ![k] = TRUE][j]
    BY <1>2, <2>1 DEF Held, ActiveLease
  <2>2. QED
    BY <2>1 DEF Held
<1>4. Done' = Done
  <2>1. ASSUME NEW j \in Keys
        PROVE  Settled(j)' = Settled(j)
    BY <1>2, <2>1 DEF Settled
  <2>2. QED
    BY <2>1 DEF Done
<1>5. ~Held[k] /\ ~Done[k]
  BY DEF Held, Done
<1>6. QED
  BY <1>1, <1>3, <1>4, <1>5 DEF Promise!Take, Epoch, Held, Done

LEMMA DecideRefines ==
  ASSUME NEW k \in Keys, ~Settled(k), rows[k].gen > 0,
         \A j \in Keys \ {k} : rows'[j] = rows[j],
         rows'[k].gen = rows[k].gen, Settled(k)', ~ActiveLease(k)'
  PROVE  Promise!Decide(k)
<1>1. Epoch' = Epoch
  BY DEF Epoch
<1>2. ASSUME NEW j \in Keys \ {k}
      PROVE  (ActiveLease(j)' <=> ActiveLease(j)) /\ (Settled(j)' <=> Settled(j))
  BY <1>2 DEF ActiveLease, Settled
<1>3. Held' = [Held EXCEPT ![k] = FALSE]
  <2>1. ASSUME NEW j \in Keys
        PROVE  ActiveLease(j)' = [Held EXCEPT ![k] = FALSE][j]
    BY <1>2, <2>1 DEF Held, ActiveLease
  <2>2. QED
    BY <2>1 DEF Held
<1>4. Done' = [Done EXCEPT ![k] = TRUE]
  <2>1. ASSUME NEW j \in Keys
        PROVE  Settled(j)' = [Done EXCEPT ![k] = TRUE][j]
    BY <1>2, <2>1 DEF Done, Settled
  <2>2. QED
    BY <2>1 DEF Done
<1>5. ~Done[k] /\ Epoch[k] > 0
  BY DEF Done, Epoch
<1>6. QED
  BY <1>1, <1>3, <1>4, <1>5 DEF Promise!Decide, Epoch, Held, Done

LEMMA LapseRefines ==
  ASSUME \A j \in Keys : /\ rows'[j].gen = rows[j].gen
                         /\ Settled(j)' <=> Settled(j)
                         /\ ActiveLease(j)' => ActiveLease(j)
  PROVE  Promise!Lapse
<1>1. Epoch' = Epoch
  BY DEF Epoch
<1>2. Done' = Done
  <2>1. ASSUME NEW j \in Keys
        PROVE  Settled(j)' = Settled(j)
    BY <2>1 DEF Settled
  <2>2. QED
    BY <2>1 DEF Done
<1>3. Held' \in [Keys -> BOOLEAN] /\ \A j \in Keys : Held'[j] => Held[j]
  BY DEF Held, ActiveLease
<1>4. QED
  BY <1>1, <1>2, <1>3 DEF Promise!Lapse, Epoch, Held, Done

LEMMA StepRefines ==
  ASSUME TypeOK, \A k \in Keys : RowInv(rows[k]), RowStep
  PROVE  Promise!Next \/ (Epoch' = Epoch /\ Held' = Held /\ Done' = Done)
<1>0. /\ rows \in [Keys -> Row]
      /\ \A k \in Keys : /\ rows[k] \in Row /\ rows[k].gen \in Nat
                         /\ rows[k].status = "absent" => rows[k].gen = 0
                         /\ rows[k].status = "claimed" => rows[k].gen > 0
  BY Constants DEF TypeOK, Row, RowInv, RowFacts
<1>1. CASE UNCHANGED rows
  BY <1>1 DEF Epoch, Held, Done, ActiveLease, Settled
<1>2. ASSUME NEW k \in Keys, EnqueueStep(k)
      PROVE  Promise!Next
  <2>1. /\ rows[k].status = "absent" /\ rows'[k].status = "queued" /\ rows'[k].gen = 0
        /\ \A j \in Keys \ {k} : rows'[j] = rows[j]
    BY <1>0, <1>2, OtherKeys DEF EnqueueStep, AbsentRow, Present
  <2>2. QED
    BY <1>0, <2>1, LapseRefines DEF ActiveLease, Settled, Promise!Next
<1>3. ASSUME NEW k \in Keys, RenewStep(k)
      PROVE  Promise!Next
  <2>1. /\ rows'[k].status = rows[k].status /\ rows'[k].gen = rows[k].gen /\ ActiveLease(k)
        /\ \A j \in Keys \ {k} : rows'[j] = rows[j]
    BY <1>0, <1>3, OtherKeys DEF RenewStep, Row
  <2>2. QED
    BY <2>1, LapseRefines DEF ActiveLease, Settled, Promise!Next
<1>4. ASSUME NEW r \in Runners, runner[r].key \in Keys, runner[r].profile \in Profiles,
             ClaimStep(r)
      PROVE  Promise!Next
  <2>0. PICK k \in Keys : k = runner[r].key
    BY <1>4
  <2>1. /\ rows'[k].status = "claimed" /\ rows'[k].gen = rows[k].gen + 1 /\ rows'[k].lease = Lease
        /\ \A j \in Keys \ {k} : rows'[j] = rows[j]
    <3>1. rows' = [rows EXCEPT ![k] = ClaimedRow(k, runner[r].profile)]
      BY <1>4, <2>0 DEF ClaimStep
    <3>2. rows'[k] = ClaimedRow(k, runner[r].profile) /\ \A j \in Keys \ {k} : rows'[j] = rows[j]
      BY <3>1, OtherKeys
    <3>3. QED
      BY <1>0, <1>4, <3>2 DEF ClaimedRow, Row
  <2>2. ~ActiveLease(k) /\ ~Settled(k)
    BY <1>0, <1>4, <2>0 DEF ClaimStep, CanClaim, ActiveLease, Settled, Row
  <2>3. ActiveLease(k)' /\ ~Settled(k)'
    BY <2>1, Constants DEF ActiveLease, Settled
  <2>4. Promise!Take(k)
    BY <1>0, <2>1, <2>2, <2>3, TakeRefines
  <2>5. QED
    BY <2>4 DEF Promise!Next
<1>5. ASSUME NEW r \in Runners, NEW k \in Keys, CompleteStep(r, k)
      PROVE  Promise!Next
  <2>1. /\ rows[k].status = "claimed" /\ rows'[k].status = "completed"
        /\ rows'[k].gen = rows[k].gen
        /\ \A j \in Keys \ {k} : rows'[j] = rows[j]
    BY <1>0, <1>5 DEF CompleteStep, ActiveLease, Row
  <2>2. Promise!Decide(k)
    BY <1>0, <2>1, DecideRefines DEF ActiveLease, Settled
  <2>3. QED
    BY <2>2 DEF Promise!Next
<1>6. ASSUME NEW r \in Runners, NEW k \in Keys, NEW b \in BOOLEAN, FailStep(r, k, b)
      PROVE  Promise!Next
  <2>1. /\ rows[k].status = "claimed" /\ rows'[k] = FailedRow(k, b)
        /\ \A j \in Keys \ {k} : rows'[j] = rows[j]
    BY <1>6, OtherKeys DEF FailStep
  <2>2. FailedRow(k, b).gen = rows[k].gen
        /\ FailedRow(k, b).status \in {"dead_letter", "retry_wait"}
    BY <1>0 DEF FailedRow, Row
  <2>3. CASE rows'[k].status = "dead_letter"
    <3>1. Promise!Decide(k)
      BY <1>0, <2>1, <2>2, <2>3, DecideRefines DEF ActiveLease, Settled
    <3>2. QED
      BY <3>1 DEF Promise!Next
  <2>4. CASE rows'[k].status = "retry_wait"
    BY <2>1, <2>2, <2>4, LapseRefines DEF ActiveLease, Settled, Promise!Next
  <2>5. QED
    BY <2>1, <2>2, <2>3, <2>4
<1>7. CASE TickStep
  <2>1. ASSUME NEW j \in Keys
        PROVE  /\ rows'[j].gen = rows[j].gen /\ rows'[j].status = rows[j].status
               /\ rows'[j].lease > 0 => rows[j].lease > 0
    <3>1. rows'[j] = [rows[j] EXCEPT !.lease = Less(rows[j].lease), !.wait = Less(rows[j].wait)]
      BY <1>7 DEF TickStep
    <3>2. Less(rows[j].lease) > 0 => rows[j].lease > 0
      BY <1>0 DEF Less, Row
    <3>3. QED
      BY <1>0, <3>1, <3>2 DEF Row
  <2>2. QED
    BY <2>1, LapseRefines DEF ActiveLease, Settled, Promise!Next
<1>8. QED
  BY <1>1, <1>2, <1>3, <1>4, <1>5, <1>6, <1>7 DEF RowStep

LEMMA InitRefines == Init => Promise!Init
<1>. SUFFICES ASSUME Init PROVE Promise!Init
  OBVIOUS
<1>1. ASSUME NEW k \in Keys
      PROVE  rows[k].gen = 0 /\ ~ActiveLease(k) /\ ~Settled(k)
  BY DEF Init, ActiveLease, Settled, AbsentRow
<1>2. Epoch = [k \in Keys |-> 0]
  BY <1>1 DEF Epoch
<1>3. Held = [k \in Keys |-> FALSE] /\ Done = [k \in Keys |-> FALSE]
  <2>1. ASSUME NEW k \in Keys
        PROVE  ActiveLease(k) = FALSE /\ Settled(k) = FALSE
    BY <1>1 DEF ActiveLease, Settled
  <2>2. QED
    BY <2>1 DEF Held, Done
<1>4. QED
  BY <1>2, <1>3 DEF Promise!Init, Epoch, Held, Done

(* The durable queue, with its clocks, capacity and crashes, implements    *)
(* the fenced lease: one holder per epoch, one decision per hop.           *)
THEOREM Refinement == Spec => ImplementsLease
<1>1. IInv /\ [Next]_vars => [Promise!Next]_(Promise!lvars)
  BY InvRows, QueueSteps, StepRefines DEF Promise!lvars, Epoch, Held, Done
<1>2. QED
  BY <1>1, InitRefines, Invariance, PTL DEF Spec, Promise!Spec, ImplementsLease

-----------------------------------------------------------------------------
(* The five capacity limits.                                               *)

LEMMA LimitNat ==
  ASSUME NEW d \in Dimensions
  PROVE  Limit[d] \in Nat
  BY LimitAssumption DEF Dimensions, Pos

LEMMA SharingFinite ==
  ASSUME NEW S \in SUBSET Keys
  PROVE  IsFiniteSet(S) /\ Cardinality(S) \in Nat
  BY KeysFinite, FS_Subset, FS_CardinalityType

(* Steps by which no lease becomes active keep within the limits.          *)
LEMMA FewerLeases ==
  ASSUME CapacityRespected,
         \A j \in Keys : ActiveLease(j)' => ActiveLease(j) /\ rows'[j].profile = rows[j].profile
  PROVE  CapacityRespected'
<1>. SUFFICES ASSUME NEW k \in Keys, NEW p \in Profiles, NEW d \in Dimensions,
                     ActiveLease(k)', rows'[k].profile = p
              PROVE  Cardinality(Sharing(d, k, p)') <= Limit[d]
  BY DEF CapacityRespected
<1>1. Sharing(d, k, p)' \subseteq Sharing(d, k, p)
  <2>. SUFFICES ASSUME NEW j \in Keys, ActiveLease(j)', Shares(d, j, k, p)'
                PROVE  ActiveLease(j) /\ Shares(d, j, k, p)
    BY DEF Sharing
  <2>1. ActiveLease(j) /\ rows'[j].profile = rows[j].profile
    OBVIOUS
  <2>2. QED
    BY <2>1 DEF Shares
<1>2. Sharing(d, k, p) \in SUBSET Keys /\ Sharing(d, k, p)' \in SUBSET Keys
  BY DEF Sharing
<1>3. Cardinality(Sharing(d, k, p)') <= Cardinality(Sharing(d, k, p))
  BY <1>1, <1>2, SharingFinite, FS_Subset
<1>4. Cardinality(Sharing(d, k, p)) <= Limit[d]
  BY DEF CapacityRespected
<1>5. QED
  BY <1>2, <1>3, <1>4, SharingFinite, LimitNat

(* A claim is made only where the other leases leave room.                 *)
LEMMA ClaimFits ==
  ASSUME TypeOK, CapacityRespected, NEW k \in Keys, NEW p \in Profiles,
         ~WouldExceed(k, p), rows' = [rows EXCEPT ![k] = ClaimedRow(k, p)]
  PROVE  CapacityRespected'
<1>0. /\ rows'[k].profile = p /\ rows[k] \in Row
      /\ \A j \in Keys \ {k} : rows'[j] = rows[j]
  BY OtherKeys DEF TypeOK, ClaimedRow, Row
<1>1. ASSUME NEW d \in Dimensions
      PROVE  Cardinality(Sharing(d, k, p)') <= Limit[d]
  <2>. DEFINE others == Sharing(d, k, p) \ {k}
  <2>1. Cardinality(others) < Limit[d] /\ others \in SUBSET Keys
    <3>1. others \in SUBSET Keys
      BY DEF Sharing
    <3>2. ~(Cardinality(others) >= Limit[d])
      BY DEF WouldExceed
    <3>3. QED
      BY <3>1, <3>2, SharingFinite, LimitNat
  <2>2. Sharing(d, k, p)' \subseteq others \cup {k}
    <3>. SUFFICES ASSUME NEW j \in Keys, j # k, ActiveLease(j)', Shares(d, j, k, p)'
                  PROVE  ActiveLease(j) /\ Shares(d, j, k, p)
      BY DEF Sharing
    <3>1. rows'[j] = rows[j]
      BY <1>0
    <3>2. QED
      BY <3>1 DEF ActiveLease, Shares
  <2>3. /\ IsFiniteSet(others \cup {k})
        /\ Cardinality(others \cup {k}) <= Cardinality(others) + 1
    <3>1. IsFiniteSet(others) /\ Cardinality(others) \in Nat
      BY <2>1, SharingFinite
    <3>. HIDE DEF others
    <3>2. /\ IsFiniteSet(others \cup {k})
          /\ Cardinality(others \cup {k}) =
               IF k \in others THEN Cardinality(others) ELSE Cardinality(others) + 1
      BY <3>1, FS_AddElement
    <3>3. QED
      BY <3>1, <3>2
  <2>4. Cardinality(Sharing(d, k, p)') <= Cardinality(others \cup {k})
    BY <2>2, <2>3, FS_Subset
  <2>5. QED
    <3>1. /\ Cardinality(others) \in Nat /\ Cardinality(others \cup {k}) \in Nat
          /\ Cardinality(Sharing(d, k, p)') \in Nat
      <4>1. others \cup {k} \in SUBSET Keys /\ Sharing(d, k, p)' \in SUBSET Keys
        BY <2>1 DEF Sharing
      <4>2. QED
        BY <2>1, <4>1, SharingFinite
    <3>2. QED
      BY <2>1, <2>3, <2>4, <3>1, LimitNat
<1>. SUFFICES ASSUME NEW j \in Keys, NEW q \in Profiles, NEW d \in Dimensions,
                     ActiveLease(j)', rows'[j].profile = q
              PROVE  Cardinality(Sharing(d, j, q)') <= Limit[d]
  BY DEF CapacityRespected
<1>2. CASE j = k
  BY <1>0, <1>1, <1>2
<1>3. CASE j # k /\ k \in Sharing(d, j, q)'
  <2>1. Shares(d, k, j, q)'
    BY <1>3 DEF Sharing
  <2>2. ASSUME NEW i \in Keys
        PROVE  Shares(d, i, j, q)' <=> Shares(d, i, k, p)'
    BY <1>0, <2>1 DEF Shares
  <2>3. Sharing(d, j, q)' = Sharing(d, k, p)'
    BY <2>2 DEF Sharing
  <2>4. QED
    BY <1>1, <2>3
<1>4. CASE j # k /\ k \notin Sharing(d, j, q)'
  <2>1. Sharing(d, j, q)' \subseteq Sharing(d, j, q)
    <3>. SUFFICES ASSUME NEW i \in Keys, i # k, ActiveLease(i)', Shares(d, i, j, q)'
                  PROVE  ActiveLease(i) /\ Shares(d, i, j, q)
      BY <1>4 DEF Sharing
    <3>1. rows'[i] = rows[i]
      BY <1>0
    <3>2. QED
      BY <3>1 DEF ActiveLease, Shares
  <2>2. Sharing(d, j, q) \in SUBSET Keys /\ Sharing(d, j, q)' \in SUBSET Keys
    BY DEF Sharing
  <2>3. Cardinality(Sharing(d, j, q)') <= Cardinality(Sharing(d, j, q))
    BY <2>1, <2>2, SharingFinite, FS_Subset
  <2>4. ActiveLease(j) /\ rows[j].profile = q
    <3>1. rows'[j] = rows[j]
      BY <1>0, <1>4
    <3>2. QED
      BY <3>1 DEF ActiveLease
  <2>5. Cardinality(Sharing(d, j, q)) <= Limit[d]
    BY <2>4 DEF CapacityRespected
  <2>6. QED
    BY <2>2, <2>3, <2>5, SharingFinite, LimitNat
<1>5. QED
  BY <1>2, <1>3, <1>4

LEMMA CapacityStep ==
  ASSUME TypeOK, CapacityRespected, RowStep
  PROVE  CapacityRespected'
<1>0. rows \in [Keys -> Row]
  BY DEF TypeOK
<1>1. CASE UNCHANGED rows
  BY <1>1, FewerLeases DEF ActiveLease
<1>2. ASSUME NEW k \in Keys, EnqueueStep(k)
      PROVE  CapacityRespected'
  BY <1>0, <1>2, OtherKeys, FewerLeases DEF EnqueueStep, AbsentRow, ActiveLease
<1>3. ASSUME NEW k \in Keys, RenewStep(k)
      PROVE  CapacityRespected'
  <2>1. ActiveLease(k) /\ rows'[k].profile = rows[k].profile
        /\ \A j \in Keys \ {k} : rows'[j] = rows[j]
    BY <1>0, <1>3 DEF RenewStep, Row
  <2>2. QED
    BY <2>1, FewerLeases DEF ActiveLease
<1>4. ASSUME NEW r \in Runners, runner[r].key \in Keys, runner[r].profile \in Profiles,
             ClaimStep(r)
      PROVE  CapacityRespected'
  BY <1>4, ClaimFits DEF ClaimStep
<1>5. ASSUME NEW r \in Runners, NEW k \in Keys, CompleteStep(r, k)
      PROVE  CapacityRespected'
  <2>1. rows'[k].status = "completed" /\ \A j \in Keys \ {k} : rows'[j] = rows[j]
    BY <1>0, <1>5 DEF CompleteStep, Row
  <2>2. QED
    BY <2>1, FewerLeases DEF ActiveLease
<1>6. ASSUME NEW r \in Runners, NEW k \in Keys, NEW b \in BOOLEAN, FailStep(r, k, b)
      PROVE  CapacityRespected'
  <2>1. FailedRow(k, b).status # "claimed"
    BY <1>0 DEF FailedRow, Row
  <2>2. rows'[k].status # "claimed" /\ \A j \in Keys \ {k} : rows'[j] = rows[j]
    BY <1>6, <2>1, OtherKeys DEF FailStep
  <2>3. QED
    BY <2>2, FewerLeases DEF ActiveLease
<1>7. CASE TickStep
  <2>1. ASSUME NEW j \in Keys
        PROVE  /\ rows'[j].profile = rows[j].profile /\ rows'[j].status = rows[j].status
               /\ rows'[j].lease > 0 => rows[j].lease > 0
    <3>1. rows'[j] = [rows[j] EXCEPT !.lease = Less(rows[j].lease), !.wait = Less(rows[j].wait)]
      BY <1>7 DEF TickStep
    <3>2. Less(rows[j].lease) > 0 => rows[j].lease > 0
      BY <1>0 DEF Less, Row
    <3>3. QED
      BY <1>0, <3>1, <3>2 DEF Row
  <2>2. QED
    BY <2>1, FewerLeases DEF ActiveLease
<1>8. QED
  BY <1>1, <1>2, <1>3, <1>4, <1>5, <1>6, <1>7 DEF RowStep

(* The five limits of HopCapacityLimits hold at every instant over the     *)
(* durable leases, for any limits and any number of runners: the decision  *)
(* of decideCapacityClaim inside the claim's transaction is enough.        *)
THEOREM CapacityIsRespected == Spec => []CapacityRespected
<1>1. Init => CapacityRespected
  BY DEF Init, CapacityRespected, ActiveLease, AbsentRow
<1>2. IInv /\ CapacityRespected /\ [Next]_vars => CapacityRespected'
  BY InvRows, QueueSteps, CapacityStep
<1>3. QED
  BY <1>1, <1>2, Invariance, PTL DEF Spec

-----------------------------------------------------------------------------
(* One agent per lane.  The property is not inductive: a start is refused  *)
(* in a lane with an Attempt in progress, so every run must keep its own   *)
(* Attempt there until it closes it.                                       *)

AtWork(r) == runner[r].pc = "running"

LaneInv == OneAgentPerLane /\ \A r \in Runners : AtWork(r) => OwnAttempt(r)

(* Runs at work that were at work before, in lanes whose Attempts are as   *)
(* they were, keep the invariant.                                          *)
LEMMA FewerAgents ==
  ASSUME LaneInv,
         \A r \in Runners : AtWork(r)' => /\ AtWork(r)
                                          /\ runner'[r].key = runner[r].key
                                          /\ runner'[r].gen = runner[r].gen
                                          /\ attempt'[LaneOfRun(r)].key = attempt[LaneOfRun(r)].key
                                          /\ attempt'[LaneOfRun(r)].gen = attempt[LaneOfRun(r)].gen
  PROVE  LaneInv'
<1>1. ASSUME NEW r \in Runners, AtWork(r)'
      PROVE  AtWork(r) /\ LaneOfRun(r)' = LaneOfRun(r)
  BY <1>1 DEF LaneOfRun
<1>2. ASSUME NEW r \in Runners, AtWork(r)'
      PROVE  OwnAttempt(r)'
  <2>1. OwnAttempt(r)
    BY <1>1, <1>2 DEF LaneInv
  <2>2. QED
    BY <1>1, <1>2, <2>1 DEF OwnAttempt
<1>3. OneAgentPerLane'
  BY <1>1 DEF LaneInv, OneAgentPerLane, AtWork
<1>4. QED
  BY <1>2, <1>3 DEF LaneInv

LEMMA StartAlone ==
  ASSUME TypeOK, LaneInv, NEW r \in Runners, Start(r)
  PROVE  LaneInv'
<1>. DEFINE k == runner[r].key
            l == LaneOfRun(r)
<1>0. /\ k \in Keys /\ l \in Lanes /\ runner \in [Runners -> RunnerStates]
      /\ DOMAIN attempt = Lanes
  BY Working, LaneTyped DEF Start, TypeOK
<1>1. /\ runner' = [runner EXCEPT ![r].pc = "running"]
      /\ attempt' = [attempt EXCEPT ![l] = [key |-> k, gen |-> runner[r].gen, beat |-> 0]]
      /\ attempt[l] = NoAttempt /\ ~AtWork(r)
  BY DEF Start, Goto, StartAllowed, AtWork
<1>2. /\ \A q \in Runners : runner'[q].key = runner[q].key /\ runner'[q].gen = runner[q].gen
      /\ \A q \in Runners \ {r} : runner'[q] = runner[q]
  BY <1>0, <1>1, Working DEF Start
<1>3. ASSUME NEW q \in Runners \ {r}, AtWork(q)
      PROVE  LaneOfRun(q) # l /\ OwnAttempt(q)
  <2>1. OwnAttempt(q)
    BY <1>3 DEF LaneInv
  <2>2. runner[q].key \in Keys
    BY <1>3, Working DEF AtWork
  <2>3. runner[q].key # NoKey
    BY <2>2, NoKeyIsNoKey
  <2>4. QED
    BY <1>1, <2>1, <2>3 DEF OwnAttempt, NoAttempt
<1>4. ASSUME NEW q \in Runners
      PROVE  LaneOfRun(q)' = LaneOfRun(q)
  BY <1>2 DEF LaneOfRun
<1>5. OneAgentPerLane'
  <2>. SUFFICES ASSUME NEW p \in Runners, NEW q \in Runners, p # q, AtWork(p)', AtWork(q)'
                PROVE  LaneOfRun(p) # LaneOfRun(q)
    BY <1>4 DEF OneAgentPerLane, AtWork
  <2>1. CASE p = r
    BY <1>2, <1>3, <2>1 DEF AtWork
  <2>2. CASE q = r
    BY <1>2, <1>3, <2>2 DEF AtWork
  <2>3. CASE p # r /\ q # r
    BY <1>2, <2>3 DEF AtWork, LaneInv, OneAgentPerLane
  <2>4. QED
    BY <2>1, <2>2, <2>3
<1>6. ASSUME NEW q \in Runners, AtWork(q)'
      PROVE  OwnAttempt(q)'
  <2>1. CASE q = r
    BY <1>0, <1>1, <1>2, <1>4, <2>1 DEF OwnAttempt
  <2>2. CASE q # r
    <3>1. AtWork(q)
      BY <1>2, <1>6, <2>2 DEF AtWork
    <3>2. attempt'[LaneOfRun(q)] = attempt[LaneOfRun(q)]
      BY <1>0, <1>1, <1>3, <2>2, <3>1
    <3>3. QED
      BY <1>2, <1>3, <1>4, <2>2, <3>1, <3>2 DEF OwnAttempt
  <2>3. QED
    BY <2>1, <2>2
<1>7. QED
  BY <1>5, <1>6 DEF LaneInv

(* Where a run that leaves or moves on no longer works, the others are     *)
(* untouched.                                                              *)
LEMMA OneMoves ==
  ASSUME TypeOK, LaneInv, NEW r \in Runners, UNCHANGED attempt, NEW s, s.pc # "running",
         runner' = [runner EXCEPT ![r] = s]
  PROVE  LaneInv'
<1>1. ASSUME NEW q \in Runners, AtWork(q)'
      PROVE  runner'[q] = runner[q]
  BY <1>1 DEF AtWork, TypeOK
<1>2. QED
  BY <1>1, FewerAgents DEF AtWork

LEMMA BeatOnly ==
  ASSUME TypeOK, NEW l \in Lanes, NEW b
  PROVE  /\ [attempt[l] EXCEPT !.beat = b].key = attempt[l].key
         /\ [attempt[l] EXCEPT !.beat = b].gen = attempt[l].gen
<1>1. CASE attempt[l] = NoAttempt
  BY <1>1 DEF NoAttempt
<1>2. CASE attempt[l] \in [key: Keys, gen: 0..MaxGen, beat: 0..Tolerance]
  BY <1>2
<1>3. QED
  BY <1>1, <1>2 DEF TypeOK

LEMMA LaneStep ==
  ASSUME TypeOK, LaneInv, [Next]_vars
  PROVE  LaneInv'
<1>0. runner \in [Runners -> RunnerStates] /\ DOMAIN attempt = Lanes /\ Idle.pc = "idle"
  BY DEF TypeOK, Idle
<1>m. ASSUME NEW r \in Runners, UNCHANGED attempt, runner[r].pc # "idle",
             NEW pc, pc # "running", runner' = [runner EXCEPT ![r].pc = pc]
      PROVE  LaneInv'
  <2>1. runner' = [runner EXCEPT ![r] = [runner[r] EXCEPT !.pc = pc]]
    BY <1>m
  <2>2. [runner[r] EXCEPT !.pc = pc].pc = pc
    BY <1>0, <1>m DEF RunnerStates, Idle
  <2>3. QED
    BY <1>m, <2>1, <2>2, OneMoves
<1>1. CASE UNCHANGED <<runner, attempt>>
  BY <1>1, FewerAgents DEF AtWork
<1>2. ASSUME NEW r \in Runners, NEW s \in Slots, NEW p \in Profiles, Look(r, s, p)
      PROVE  LaneInv'
  BY <1>2, OneMoves DEF Look
<1>3. ASSUME NEW r \in Runners, Acquire(r)
      PROVE  LaneInv'
  <2>1. CASE Start(r)
    BY <2>1, StartAlone
  <2>2. CASE ClaimAvailable(r)
    <3>1. runner[r].pc = "checked" /\ UNCHANGED attempt
      BY <2>2 DEF ClaimAvailable
    <3>2. ASSUME NEW q \in Runners, AtWork(q)'
          PROVE  runner'[q] = runner[q]
      <4>1. runner'[r].pc = "claimed"
        BY <1>0, <2>2, <3>1, Working DEF ClaimAvailable, RunnerStates, Idle
      <4>2. QED
        BY <1>0, <2>2, <3>2, <4>1 DEF ClaimAvailable, AtWork
    <3>3. QED
      BY <3>1, <3>2, FewerAgents DEF AtWork
  <2>3. CASE Enqueue(r) \/ TurnedAway(r) \/ CheckRefused(r) \/ CheckPassed(r)
             \/ ClaimRefused(r) \/ Recheck(r) \/ StartRefused(r)
    <3>1. /\ runner[r].pc # "idle" /\ UNCHANGED attempt
          /\ \/ runner' = [runner EXCEPT ![r] = Idle]
             \/ runner' = [runner EXCEPT ![r].pc = "enqueued"]
             \/ runner' = [runner EXCEPT ![r].pc = "checked"]
             \/ runner' = [runner EXCEPT ![r].pc = "ready"]
      BY <2>3 DEF Enqueue, TurnedAway, CheckRefused, CheckPassed, ClaimRefused, Recheck,
         StartRefused, Leave, Goto
    <3>2. QED
      BY <1>0, <1>m, <3>1, OneMoves
  <2>4. QED
    BY <1>3, <2>1, <2>2, <2>3 DEF Acquire
<1>4. ASSUME NEW r \in Runners, Heartbeat(r)
      PROVE  LaneInv'
  <2>1. runner' = [runner EXCEPT ![r].lost = runner'[r].lost]
    BY <1>0, <1>4 DEF Heartbeat
  <2>2. ASSUME NEW q \in Runners
        PROVE  runner'[q].pc = runner[q].pc /\ runner'[q].key = runner[q].key
               /\ runner'[q].gen = runner[q].gen
    BY <1>0, <2>1, <1>4, Working DEF Heartbeat
  <2>3. \/ attempt' = attempt
        \/ attempt' = [attempt EXCEPT ![LaneOfRun(r)].beat = Tolerance]
    BY <1>4 DEF Heartbeat
  <2>4. ASSUME NEW l \in Lanes
        PROVE  attempt'[l].key = attempt[l].key /\ attempt'[l].gen = attempt[l].gen
    <3>1. \/ attempt'[l] = attempt[l]
          \/ attempt'[l] = [attempt[l] EXCEPT !.beat = Tolerance]
      BY <1>0, <2>3
    <3>2. QED
      BY <3>1, BeatOnly
  <2>5. ASSUME NEW q \in Runners, AtWork(q)
        PROVE  LaneOfRun(q) \in Lanes
    BY <2>5, LaneTyped DEF AtWork
  <2>6. QED
    BY <2>2, <2>4, <2>5, FewerAgents DEF AtWork
<1>5. ASSUME NEW r \in Runners, EndRun(r)
      PROVE  LaneInv'
  <2>1. CASE FinishFenced(r)
    BY <1>0, <2>1, OneMoves DEF FinishFenced, Leave
  <2>2. CASE Finish(r)
    <3>1. /\ runner' = [runner EXCEPT ![r].pc = "ended"] /\ AtWork(r)
          /\ \/ attempt' = attempt
             \/ attempt' = [attempt EXCEPT ![LaneOfRun(r)] = NoAttempt]
      BY <2>2 DEF Finish, Goto, AtWork
    <3>2. ASSUME NEW q \in Runners, AtWork(q)'
          PROVE  q # r /\ runner'[q] = runner[q]
      BY <1>0, <3>1, <3>2, Working DEF AtWork
    <3>3. ASSUME NEW q \in Runners, AtWork(q)'
          PROVE  attempt'[LaneOfRun(q)] = attempt[LaneOfRun(q)]
      <4>1. AtWork(q) /\ q # r
        BY <3>2, <3>3 DEF AtWork
      <4>2. LaneOfRun(q) # LaneOfRun(r) /\ LaneOfRun(q) \in Lanes
        BY <3>1, <4>1, LaneTyped DEF LaneInv, OneAgentPerLane, AtWork
      <4>3. QED
        BY <1>0, <3>1, <4>2
    <3>4. QED
      BY <3>2, <3>3, FewerAgents DEF AtWork
  <2>3. QED
    BY <1>5, <2>1, <2>2 DEF EndRun
<1>6. ASSUME NEW r \in Runners, Settle(r)
      PROVE  LaneInv'
  BY <1>0, <1>6, OneMoves DEF Settle, Complete, ReportFailure, Abandon, Leave
<1>7. CASE Tick
  <2>1. ASSUME NEW l \in Lanes
        PROVE  attempt'[l].key = attempt[l].key /\ attempt'[l].gen = attempt[l].gen
    <3>1. attempt'[l] = [attempt[l] EXCEPT !.beat = Less(attempt[l].beat)]
      BY <1>7 DEF Tick
    <3>2. QED
      BY <3>1, BeatOnly
  <2>2. ASSUME NEW q \in Runners, AtWork(q)
        PROVE  LaneOfRun(q) \in Lanes
    BY <2>2, LaneTyped DEF AtWork
  <2>3. QED
    BY <1>7, <2>1, <2>2, FewerAgents DEF Tick, AtWork
<1>8. CASE Restart
  <2>1. \A q \in Runners : ~AtWork(q)'
    BY <1>0, <1>8 DEF Restart, AtWork
  <2>2. QED
    BY <2>1, FewerAgents
<1>9. QED
  BY <1>1, <1>2, <1>3, <1>4, <1>5, <1>6, <1>7, <1>8 DEF Next, Pause, End, Revise, vars

(* Two live runs never work in one lane, for any number of runners and     *)
(* lanes: Attempts opened by startExecutor and startCoordinator stay until *)
(* the finally block of the run that opened them.                          *)
THEOREM AgentsAlone == Spec => []OneAgentPerLane
<1>1. Init => LaneInv
  BY DEF Init, LaneInv, OneAgentPerLane, AtWork, Idle
<1>2. IInv /\ LaneInv /\ [Next]_vars => LaneInv'
  BY InvRows, LaneStep
<1>3. LaneInv => OneAgentPerLane
  BY DEF LaneInv
<1>4. QED
  BY <1>1, <1>2, <1>3, Invariance, PTL DEF Spec

-----------------------------------------------------------------------------
(* One open row per slot.  A cycle is derived from a queue that may be old *)
(* when the row is written, so the invariant speaks of the runs that have  *)
(* looked as well: whatever precedes the cycle they go for is completed.   *)

CompletedAt(s, v, c) == rows[<<s, v, c>>].status = "completed"

CyclesInOrder ==
  \A s \in Slots, v \in 1..MaxRev, c, d \in 0..MaxCycle :
    c < d /\ Present(<<s, v, d>>) => CompletedAt(s, v, c)

LookedInOrder ==
  \A r \in Runners, c \in 0..MaxCycle :
    runner[r].pc = "looked" /\ c < CycleOf(runner[r].key)
      => CompletedAt(SlotOf(runner[r].key), RevOf(runner[r].key), c)

SlotInv == CyclesInOrder /\ LookedInOrder

LEMMA KeyParts ==
  ASSUME NEW k \in Keys
  PROVE  /\ SlotOf(k) \in Slots /\ RevOf(k) \in 1..MaxRev /\ CycleOf(k) \in 0..MaxCycle
         /\ k = <<SlotOf(k), RevOf(k), CycleOf(k)>>
  BY DEF Keys, SlotOf, RevOf, CycleOf

LEMMA KeyOf ==
  ASSUME NEW s \in Slots, NEW v \in 1..MaxRev, NEW c \in 0..MaxCycle
  PROVE  /\ <<s, v, c>> \in Keys /\ SlotOf(<<s, v, c>>) = s
         /\ RevOf(<<s, v, c>>) = v /\ CycleOf(<<s, v, c>>) = c
  BY DEF Keys, SlotOf, RevOf, CycleOf

(* A set of cycles that is not empty has a last one.                       *)
LEMMA LastCycle ==
  ASSUME NEW S \in SUBSET (0..MaxCycle), S # {}
  PROVE  \E c \in S : \A d \in S : d <= c
<1>. DEFINE U == 0..MaxCycle
            Above(c) == {d \in S : d > c}
            T == {Above(c) : c \in S}
<1>1. IsFiniteSet(U)
  <2>1. 0 \in Int /\ MaxCycle \in Int
    BY Constants
  <2>2. QED
    BY <2>1, FS_Interval
<1>2. IsWellFoundedOn(StrictSubsetOrdering(U), SUBSET U)
  BY <1>1, FS_FiniteSubsetsOfFinite, FS_StrictSubsetOrderingWellFounded
<1>3. T \subseteq SUBSET U /\ T # {}
  OBVIOUS
<1>4. PICK t \in T : \A y \in T : <<y, t>> \notin StrictSubsetOrdering(U)
  BY <1>2, <1>3, WFMin
<1>5. PICK c \in S : t = Above(c)
  OBVIOUS
<1>6. ASSUME NEW d \in S, d > c
      PROVE  FALSE
  <2>1. d \in Above(c) /\ d \notin Above(d)
    BY <1>6, Constants
  <2>2. Above(d) \subseteq Above(c)
    <3>1. ASSUME NEW x \in S, x > d
          PROVE  x > c
      <4>1. x \in Int /\ d \in Int /\ c \in Int
        BY Constants
      <4>2. QED
        BY <1>6, <3>1, <4>1
    <3>2. QED
      BY <3>1
  <2>3. Above(d) \in SUBSET U /\ Above(c) \in SUBSET U /\ Above(d) \in T
    OBVIOUS
  <2>4. Above(d) # Above(c)
    BY <2>1
  <2>5. <<Above(d), Above(c)>> \in StrictSubsetOrdering(U)
    BY <2>2, <2>3, <2>4 DEF StrictSubsetOrdering
  <2>6. QED
    BY <1>4, <1>5, <2>3, <2>5
<1>7. \A d \in S : d <= c
  BY <1>6, Constants
<1>8. QED
  BY <1>7

(* nextLogicalHopCycle: what precedes the cycle it gives is completed.     *)
LEMMA NextInOrder ==
  ASSUME CyclesInOrder, NEW s \in Slots, NEW v \in 1..MaxRev,
         NEW c \in 0..MaxCycle, NextCycle(s, v) \in 0..MaxCycle, c < NextCycle(s, v)
  PROVE  CompletedAt(s, v, c)
<1>. DEFINE n == NextCycle(s, v)
            last == CHOOSE x \in DoneCycles(s, v) : \A d \in DoneCycles(s, v) : d <= x
<1>0. MaxCycle \in Nat
  BY Constants
<1>1. CASE OpenCycles(s, v) # {}
  <2>1. n \in OpenCycles(s, v)
    BY <1>1 DEF NextCycle
  <2>2. Present(<<s, v, n>>)
    BY <2>1 DEF OpenCycles, Present
  <2>3. QED
    BY <2>2 DEF CyclesInOrder
<1>2. CASE OpenCycles(s, v) = {} /\ DoneCycles(s, v) = {}
  BY <1>0, <1>2 DEF NextCycle
<1>3. CASE OpenCycles(s, v) = {} /\ DoneCycles(s, v) # {}
  <2>1. \E x \in DoneCycles(s, v) : \A d \in DoneCycles(s, v) : d <= x
    BY <1>3, LastCycle DEF DoneCycles
  <2>2. last \in DoneCycles(s, v)
    BY <2>1
  <2>3. n = 1 + last
    BY <1>3 DEF NextCycle
  <2>4. last \in 0..MaxCycle /\ CompletedAt(s, v, last)
    BY <2>2 DEF DoneCycles, CompletedAt
  <2>5. c = last \/ c < last
    BY <1>0, <2>3, <2>4
  <2>6. Present(<<s, v, last>>)
    BY <2>4 DEF CompletedAt, Present
  <2>7. QED
    BY <2>4, <2>5, <2>6 DEF CyclesInOrder
<1>4. QED
  BY <1>1, <1>2, <1>3

(* Only an enqueue brings a row into being.                                *)
LEMMA BornByEnqueue ==
  ASSUME TypeOK, [Next]_vars, NEW k \in Keys, ~Present(k), Present(k)'
  PROVE  \E r \in Runners : Enqueue(r) /\ runner[r].key = k
<1>0. rows \in [Keys -> Row] /\ rows[k] \in Row /\ rows[k].status = "absent"
      /\ rows'[k].status # "absent"
  BY DEF TypeOK, Present
<1>1. CASE rows' = rows
  BY <1>0, <1>1
<1>2. ASSUME NEW r \in Runners, Enqueue(r)
      PROVE  runner[r].key = k
  BY <1>0, <1>2, Working DEF Enqueue, Enqueued
<1>3. ASSUME NEW r \in Runners, ClaimAvailable(r)
      PROVE  FALSE
  <2>1. runner[r].key # k
    BY <1>0, <1>3 DEF ClaimAvailable, CanClaim
  <2>2. QED
    BY <1>0, <1>3, <2>1, Working DEF ClaimAvailable
<1>4. ASSUME NEW r \in Runners, NEW row, HoldsOwn(r) \/ rows[runner[r].key].status = "claimed",
             rows' = [rows EXCEPT ![runner[r].key] = row]
      PROVE  FALSE
  BY <1>0, <1>4 DEF HoldsOwn, HoldsClaim, ActiveLease
<1>5. ASSUME NEW r \in Runners, Heartbeat(r)
      PROVE  FALSE
  BY <1>0, <1>1, <1>4, <1>5 DEF Heartbeat
<1>6. ASSUME NEW r \in Runners, Settle(r)
      PROVE  FALSE
  <2>1. CASE Complete(r)
    <3>1. CASE HoldsOwn(r)
      <4>1. rows' = [rows EXCEPT ![runner[r].key] =
                       [rows[runner[r].key] EXCEPT !.status = "completed", !.lease = 0]]
        BY <1>0, <2>1, <3>1 DEF Complete
      <4>2. QED
        BY <1>4, <3>1, <4>1
    <3>2. QED
      BY <1>0, <2>1, <3>1 DEF Complete
  <2>2. ASSUME NEW b \in BOOLEAN, ReportFailure(r, b)
        PROVE  FALSE
    BY <1>0, <1>4, <2>2 DEF ReportFailure
  <2>3. QED
    BY <1>0, <1>6, <2>1, <2>2 DEF Settle, Abandon
<1>7. CASE Tick
  <2>1. rows'[k] = [rows[k] EXCEPT !.lease = Less(rows[k].lease), !.wait = Less(rows[k].wait)]
    BY <1>7 DEF Tick
  <2>2. QED
    BY <1>0, <2>1 DEF Row
<1>8. QED
  BY <1>1, <1>2, <1>3, <1>5, <1>6, <1>7
  DEF Next, Acquire, EndRun, Look, TurnedAway, CheckRefused, CheckPassed, ClaimRefused, Recheck,
      Start, StartRefused, Finish, FinishFenced, Pause, End, Revise, Restart, vars

(* A run that has looked looked just now, or has looked before.            *)
LEMMA LookedNow ==
  ASSUME TypeOK, [Next]_vars, NEW r \in Runners, runner'[r].pc = "looked"
  PROVE  \/ runner[r].pc = "looked" /\ runner'[r].key = runner[r].key
         \/ \E s \in Slots, p \in Profiles : Look(r, s, p)
<1>0. runner \in [Runners -> RunnerStates] /\ Idle.pc = "idle"
  BY DEF TypeOK, Idle
<1>1. ASSUME NEW q \in Runners, NEW s, s.pc # "looked", runner' = [runner EXCEPT ![q] = s]
      PROVE  runner'[r] = runner[r]
  BY <1>0, <1>1
<1>m. ASSUME NEW q \in Runners, runner[q].pc # "idle", NEW pc, pc # "looked",
             runner' = [runner EXCEPT ![q].pc = pc]
      PROVE  runner'[r] = runner[r]
  <2>. DEFINE s == [runner[q] EXCEPT !.pc = pc]
  <2>1. runner' = [runner EXCEPT ![q] = s]
    BY <1>m
  <2>2. s.pc # "looked"
    BY <1>0, <1>m DEF RunnerStates, Idle
  <2>. HIDE DEF s
  <2>3. QED
    BY <1>1, <2>1, <2>2
<1>2. ASSUME NEW q \in Runners, NEW s \in Slots, NEW p \in Profiles, Look(q, s, p)
      PROVE  q = r \/ runner'[r] = runner[r]
  BY <1>0, <1>2 DEF Look
<1>3. ASSUME NEW q \in Runners, ClaimAvailable(q)
      PROVE  runner'[r] = runner[r]
  <2>1. runner'[q].pc = "claimed"
    BY <1>0, <1>3, Working DEF ClaimAvailable, RunnerStates, Idle
  <2>2. QED
    BY <1>0, <1>3, <2>1 DEF ClaimAvailable
<1>4. ASSUME NEW q \in Runners,
             Enqueue(q) \/ TurnedAway(q) \/ CheckRefused(q) \/ CheckPassed(q) \/ ClaimRefused(q)
               \/ Recheck(q) \/ StartRefused(q) \/ Start(q) \/ EndRun(q) \/ Settle(q)
      PROVE  runner'[r] = runner[r]
  <2>1. /\ runner[q].pc # "idle"
        /\ \/ runner' = [runner EXCEPT ![q] = Idle]
           \/ \E pc \in {"enqueued", "checked", "ready", "running", "ended"} :
                runner' = [runner EXCEPT ![q].pc = pc]
    BY <1>4 DEF Enqueue, TurnedAway, CheckRefused, CheckPassed, ClaimRefused, Recheck,
       StartRefused, Start, EndRun, Finish, FinishFenced, Settle, Complete, ReportFailure,
       Abandon, Leave, Goto
  <2>2. QED
    BY <1>0, <1>1, <1>m, <2>1
<1>5. ASSUME NEW q \in Runners, Heartbeat(q)
      PROVE  runner'[r].pc = runner[r].pc /\ runner'[r].key = runner[r].key
  <2>1. runner' = [runner EXCEPT ![q].lost = runner'[q].lost]
    BY <1>0, <1>5 DEF Heartbeat
  <2>2. QED
    BY <1>0, <2>1, <1>5, Working DEF Heartbeat
<1>6. CASE Restart
  BY <1>0, <1>6 DEF Restart
<1>7. QED
  BY <1>0, <1>2, <1>3, <1>4, <1>5, <1>6 DEF Next, Acquire, Pause, End, Revise, Tick, vars

LEMMA SlotStep ==
  ASSUME TypeOK, SlotInv, [Next]_vars
  PROVE  SlotInv'
<1>0. RowStep /\ rows \in [Keys -> Row]
  BY QueueSteps DEF TypeOK
<1>1. ASSUME NEW s \in Slots, NEW v \in 1..MaxRev, NEW c \in 0..MaxCycle, CompletedAt(s, v, c)
      PROVE  rows'[<<s, v, c>>].status = "completed"
  <2>1. <<s, v, c>> \in Keys /\ Settled(<<s, v, c>>)
    BY <1>1, KeyOf DEF CompletedAt, Settled
  <2>2. rows'[<<s, v, c>>].status = rows[<<s, v, c>>].status
    BY <1>0, <2>1, SettledStays
  <2>3. QED
    BY <1>1, <2>2 DEF CompletedAt
<1>2. CyclesInOrder'
  <2>. SUFFICES ASSUME NEW s \in Slots, NEW v \in 1..MaxRev, NEW c \in 0..MaxCycle,
                       NEW d \in 0..MaxCycle, c < d, Present(<<s, v, d>>)'
                PROVE  CompletedAt(s, v, c)'
    BY DEF CyclesInOrder
  <2>1. CASE Present(<<s, v, d>>)
    BY <1>1, <2>1 DEF SlotInv, CyclesInOrder, CompletedAt
  <2>2. CASE ~Present(<<s, v, d>>)
    <3>1. <<s, v, d>> \in Keys
      BY KeyOf
    <3>2. PICK r \in Runners : Enqueue(r) /\ runner[r].key = <<s, v, d>>
      BY <2>2, <3>1, BornByEnqueue
    <3>3. runner[r].pc = "looked" /\ c < CycleOf(runner[r].key)
      BY <3>2, KeyOf DEF Enqueue
    <3>4. CompletedAt(SlotOf(runner[r].key), RevOf(runner[r].key), c)
      BY <3>3 DEF SlotInv, LookedInOrder
    <3>5. QED
      BY <1>1, <3>2, <3>4, KeyOf DEF CompletedAt
  <2>3. QED
    BY <2>1, <2>2
<1>3. LookedInOrder'
  <2>. SUFFICES ASSUME NEW r \in Runners, NEW c \in 0..MaxCycle, runner'[r].pc = "looked",
                       c < CycleOf(runner'[r].key)
                PROVE  rows'[<<SlotOf(runner'[r].key), RevOf(runner'[r].key), c>>].status
                         = "completed"
    BY DEF LookedInOrder, CompletedAt
  <2>1. CASE runner[r].pc = "looked" /\ runner'[r].key = runner[r].key
    <3>1. runner[r].key \in Keys
      BY <2>1, Working
    <3>2. CompletedAt(SlotOf(runner[r].key), RevOf(runner[r].key), c)
      BY <2>1 DEF SlotInv, LookedInOrder
    <3>3. QED
      BY <1>1, <2>1, <3>1, <3>2, KeyParts
  <2>2. ASSUME NEW s \in Slots, NEW p \in Profiles, Look(r, s, p)
        PROVE  rows'[<<SlotOf(runner'[r].key), RevOf(runner'[r].key), c>>].status = "completed"
    <3>. DEFINE v == mission[MissionOf[s]].rev
                n == NextCycle(s, v)
    <3>1. runner'[r].key = <<s, v, n>> /\ n \in 0..MaxCycle
      BY <2>2 DEF Look, TypeOK
    <3>2. v \in 1..MaxRev
      BY AttributeAssumption DEF TypeOK
    <3>3. c < n
      BY <3>1, <3>2, KeyOf
    <3>4. CompletedAt(s, v, c)
      BY <3>1, <3>2, <3>3, NextInOrder DEF SlotInv
    <3>5. rows'[<<s, v, c>>].status = "completed"
      BY <1>1, <3>2, <3>4
    <3>6. QED
      BY <3>1, <3>2, <3>5, KeyOf
  <2>3. QED
    BY <2>1, <2>2, LookedNow
<1>4. QED
  BY <1>2, <1>3 DEF SlotInv

(* One logical hop has one open row (nextLogicalHopCycle and the           *)
(* idempotency key), for any number of runners that look at old queues.    *)
THEOREM SlotsOpenOnce == Spec => []OneOpenRowPerSlot
<1>1. Init => SlotInv
  <2>1. ASSUME Init, NEW s \in Slots, NEW v \in 1..MaxRev, NEW c \in 0..MaxCycle
        PROVE  ~Present(<<s, v, c>>)
    BY <2>1, KeyOf DEF Init, Present, AbsentRow
  <2>2. Init => \A r \in Runners : runner[r].pc # "looked"
    BY DEF Init, Idle
  <2>3. QED
    BY <2>1, <2>2 DEF SlotInv, CyclesInOrder, LookedInOrder
<1>2. IInv /\ SlotInv /\ [Next]_vars => SlotInv'
  BY InvRows, SlotStep
<1>3. SlotInv => OneOpenRowPerSlot
  <2>. SUFFICES ASSUME SlotInv, NEW s \in Slots, NEW v \in 1..MaxRev
                PROVE  Cardinality(OpenCycles(s, v)) <= 1
    BY DEF OneOpenRowPerSlot
  <2>1. ASSUME NEW c \in OpenCycles(s, v), NEW d \in OpenCycles(s, v), c < d
        PROVE  FALSE
    <3>1. Present(<<s, v, d>>) /\ ~CompletedAt(s, v, c) /\ c \in 0..MaxCycle /\ d \in 0..MaxCycle
      BY DEF OpenCycles, Present, CompletedAt
    <3>2. QED
      BY <2>1, <3>1 DEF SlotInv, CyclesInOrder
  <2>2. ASSUME NEW c \in OpenCycles(s, v), NEW d \in OpenCycles(s, v)
        PROVE  c = d
    <3>1. c \in Int /\ d \in Int
      BY DEF OpenCycles
    <3>2. QED
      BY <2>1, <3>1
  <2>3. CASE OpenCycles(s, v) = {}
    BY <2>3, FS_EmptySet
  <2>4. CASE OpenCycles(s, v) # {}
    <3>1. PICK c : OpenCycles(s, v) = {c}
      BY <2>2, <2>4
    <3>2. Cardinality({c}) = 1
      BY FS_Singleton
    <3>3. QED
      BY <3>1, <3>2
  <2>5. QED
    BY <2>3, <2>4
<1>4. QED
  BY <1>1, <1>2, <1>3, Invariance, PTL DEF Spec
-----------------------------------------------------------------------------
(* The order of the queue.  A row is as old as the queue was long when it   *)
(* came in, and rows are never deleted: no two have the same age.           *)

PresentKeys == {k \in Keys : Present(k)}

AgeInv ==
  \A k \in PresentKeys :
    /\ rows[k].born \in 1..RowCount
    /\ \A j \in PresentKeys : rows[j].born = rows[k].born => j = k

(* A row that is in the queue stays, and keeps its age.                     *)
LEMMA AgeStays ==
  ASSUME TypeOK, RowStep, NEW k \in Keys, Present(k)
  PROVE  Present(k)' /\ rows'[k].born = rows[k].born
<1>0. rows \in [Keys -> Row] /\ rows[k] \in Row /\ rows[k].status # "absent"
  BY DEF TypeOK, Present
<1>1. ASSUME NEW j \in Keys, j # k, NEW row, rows' = [rows EXCEPT ![j] = row]
      PROVE  rows'[k] = rows[k]
  BY <1>0, <1>1
<1>2. ASSUME NEW j \in Keys, EnqueueStep(j)
      PROVE  rows'[k] = rows[k]
  BY <1>0, <1>1, <1>2 DEF EnqueueStep, Present
<1>3. ASSUME NEW j \in Keys, RenewStep(j)
      PROVE  rows'[k].status = rows[k].status /\ rows'[k].born = rows[k].born
  BY <1>0, <1>3 DEF RenewStep, Row
<1>4. ASSUME NEW r \in Runners, runner[r].key \in Keys, ClaimStep(r)
      PROVE  rows'[k].status # "absent" /\ rows'[k].born = rows[k].born
  <2>1. CASE runner[r].key # k
    BY <1>0, <1>1, <1>4, <2>1 DEF ClaimStep
  <2>2. CASE runner[r].key = k
    <3>1. rows'[k] = ClaimedRow(k, runner[r].profile)
      BY <1>0, <1>4, <2>2 DEF ClaimStep
    <3>2. QED
      BY <1>0, <3>1 DEF ClaimedRow, Row
  <2>3. QED
    BY <2>1, <2>2
<1>5. ASSUME NEW r \in Runners, NEW j \in Keys, CompleteStep(r, j)
      PROVE  rows'[k].status # "absent" /\ rows'[k].born = rows[k].born
  BY <1>0, <1>5 DEF CompleteStep, Row
<1>6. ASSUME NEW r \in Runners, NEW j \in Keys, NEW b \in BOOLEAN, FailStep(r, j, b)
      PROVE  rows'[k].status # "absent" /\ rows'[k].born = rows[k].born
  <2>1. CASE j # k
    BY <1>0, <1>1, <1>6, <2>1 DEF FailStep
  <2>2. CASE j = k
    <3>1. rows'[k] = FailedRow(k, b)
      BY <1>0, <1>6, <2>2 DEF FailStep
    <3>2. FailedRow(k, b).born = rows[k].born /\ FailedRow(k, b).status # "absent"
      BY <1>0 DEF FailedRow, Row
    <3>3. QED
      BY <3>1, <3>2
  <2>3. QED
    BY <2>1, <2>2
<1>7. CASE TickStep
  <2>1. rows'[k] = [rows[k] EXCEPT !.lease = Less(rows[k].lease), !.wait = Less(rows[k].wait)]
    BY <1>7 DEF TickStep
  <2>2. rows'[k].status = rows[k].status /\ rows'[k].born = rows[k].born
    BY <1>0, <2>1 DEF Row
  <2>3. QED
    BY <1>0, <2>2 DEF Present
<1>8. QED
  BY <1>0, <1>2, <1>3, <1>4, <1>5, <1>6, <1>7 DEF RowStep, Present

(* What is in the queue was there before, or came with this step.           *)
LEMMA QueuedOnce ==
  ASSUME TypeOK, RowStep, NEW k \in Keys, Present(k), rows'[k].status = "queued"
  PROVE  rows[k].status = "queued"
<1>0. rows \in [Keys -> Row] /\ rows[k] \in Row
  BY DEF TypeOK
<1>1. ASSUME NEW j \in Keys, j # k, NEW row, rows' = [rows EXCEPT ![j] = row]
      PROVE  rows'[k] = rows[k]
  BY <1>0, <1>1
<1>2. ASSUME NEW j \in Keys, EnqueueStep(j)
      PROVE  rows'[k] = rows[k]
  BY <1>0, <1>1, <1>2 DEF EnqueueStep
<1>3. ASSUME NEW j \in Keys, RenewStep(j)
      PROVE  rows'[k].status = rows[k].status
  BY <1>0, <1>3 DEF RenewStep, Row
<1>4. ASSUME NEW r \in Runners, runner[r].key \in Keys, ClaimStep(r)
      PROVE  rows[k].status = "queued"
  <2>1. CASE runner[r].key # k
    BY <1>0, <1>1, <1>4, <2>1 DEF ClaimStep
  <2>2. CASE runner[r].key = k
    <3>1. rows'[k] = ClaimedRow(k, runner[r].profile)
      BY <1>0, <1>4, <2>2 DEF ClaimStep
    <3>2. QED
      BY <1>0, <3>1 DEF ClaimedRow, Row
  <2>3. QED
    BY <2>1, <2>2
<1>5. ASSUME NEW r \in Runners, NEW j \in Keys, CompleteStep(r, j)
      PROVE  rows[k].status = "queued"
  BY <1>0, <1>5 DEF CompleteStep, Row
<1>6. ASSUME NEW r \in Runners, NEW j \in Keys, NEW b \in BOOLEAN, FailStep(r, j, b)
      PROVE  rows[k].status = "queued"
  <2>1. CASE j # k
    BY <1>0, <1>1, <1>6, <2>1 DEF FailStep
  <2>2. CASE j = k
    <3>1. rows'[k] = FailedRow(k, b)
      BY <1>0, <1>6, <2>2 DEF FailStep
    <3>2. FailedRow(k, b).status # "queued"
      BY <1>0 DEF FailedRow, Row
    <3>3. QED
      BY <3>1, <3>2
  <2>3. QED
    BY <2>1, <2>2
<1>7. CASE TickStep
  <2>1. rows'[k] = [rows[k] EXCEPT !.lease = Less(rows[k].lease), !.wait = Less(rows[k].wait)]
    BY <1>7 DEF TickStep
  <2>2. QED
    BY <1>0, <2>1 DEF Row
<1>8. QED
  BY <1>2, <1>3, <1>4, <1>5, <1>6, <1>7 DEF RowStep, Present

(* Only an enqueue makes the queue longer, by the row it adds.              *)
LEMMA RowsGrow ==
  ASSUME TypeOK, RowStep
  PROVE  \/ PresentKeys' = PresentKeys
         \/ \E k \in Keys : EnqueueStep(k) /\ ~Present(k) /\ PresentKeys' = PresentKeys \cup {k}
<1>0. rows \in [Keys -> Row]
  BY DEF TypeOK
<1>1. ASSUME NEW k \in Keys, EnqueueStep(k)
      PROVE  ~Present(k) /\ PresentKeys' = PresentKeys \cup {k}
  <2>1. rows'[k].status = "queued"
    BY <1>0, <1>1 DEF EnqueueStep, AbsentRow
  <2>2. ASSUME NEW j \in Keys, j # k
        PROVE  rows'[j] = rows[j]
    BY <1>0, <1>1, <2>2 DEF EnqueueStep
  <2>3. QED
    BY <1>1, <2>1, <2>2 DEF EnqueueStep, PresentKeys, Present
<1>2. ASSUME ~\E k \in Keys : EnqueueStep(k), NEW k \in Keys, ~Present(k)
      PROVE  rows'[k].status = "absent"
  <2>1. rows[k] \in Row /\ rows[k].status = "absent"
    BY <1>0, <1>2 DEF Present
  <2>2. ASSUME NEW j \in Keys, rows[j].status # "absent", NEW row, rows' = [rows EXCEPT ![j] = row]
        PROVE  rows'[k].status = "absent"
    BY <1>0, <2>1, <2>2
  <2>3. ASSUME NEW j \in Keys, RenewStep(j)
        PROVE  rows'[k].status = "absent"
    BY <1>0, <2>1, <2>3 DEF RenewStep, ActiveLease
  <2>4. ASSUME NEW r \in Runners, runner[r].key \in Keys, ClaimStep(r)
        PROVE  rows'[k].status = "absent"
    BY <2>2, <2>4 DEF ClaimStep, CanClaim
  <2>5. ASSUME NEW r \in Runners, NEW j \in Keys, CompleteStep(r, j)
        PROVE  rows'[k].status = "absent"
    BY <1>0, <2>1, <2>5 DEF CompleteStep, ActiveLease
  <2>6. ASSUME NEW r \in Runners, NEW j \in Keys, NEW b \in BOOLEAN, FailStep(r, j, b)
        PROVE  rows'[k].status = "absent"
    BY <2>2, <2>6 DEF FailStep
  <2>7. CASE TickStep
    <3>1. rows'[k] = [rows[k] EXCEPT !.lease = Less(rows[k].lease), !.wait = Less(rows[k].wait)]
      BY <2>7 DEF TickStep
    <3>2. QED
      BY <2>1, <3>1 DEF Row
  <2>8. QED
    BY <1>2, <2>1, <2>3, <2>4, <2>5, <2>6, <2>7 DEF RowStep
<1>3. ASSUME ~\E k \in Keys : EnqueueStep(k)
      PROVE  PresentKeys' = PresentKeys
  BY <1>2, <1>3, AgeStays DEF PresentKeys, Present
<1>4. QED
  BY <1>1, <1>3

LEMMA AgeStep ==
  ASSUME TypeOK, AgeInv, RowStep
  PROVE  AgeInv'
<1>0. rows \in [Keys -> Row] /\ RowCount = Cardinality(PresentKeys) /\ RowCount \in Nat
  BY RowCountType DEF TypeOK, RowCount, PresentKeys
<1>1. RowCount' = Cardinality(PresentKeys')
  BY DEF RowCount, PresentKeys
<1>2. \A k \in PresentKeys : rows'[k].born = rows[k].born
  BY AgeStays DEF PresentKeys
<1>3. CASE PresentKeys' = PresentKeys
  BY <1>0, <1>1, <1>2, <1>3 DEF AgeInv
<1>4. ASSUME NEW k \in Keys, EnqueueStep(k), ~Present(k), PresentKeys' = PresentKeys \cup {k}
      PROVE  AgeInv'
  <2>1. IsFiniteSet(PresentKeys)
    BY KeysFinite, FS_Subset DEF PresentKeys
  <2>2. k \notin PresentKeys
    BY <1>4 DEF PresentKeys
  <2>3. RowCount' = RowCount + 1
    BY <1>0, <1>1, <1>4, <2>1, <2>2, FS_AddElement
  <2>4. rows'[k].born = RowCount + 1
    BY <1>0, <1>4 DEF EnqueueStep, AbsentRow
  <2>5. \A j \in PresentKeys : rows'[j].born \in 1..RowCount
    BY <1>2 DEF AgeInv
  <2>6. QED
    BY <1>0, <1>2, <1>4, <2>2, <2>3, <2>4, <2>5 DEF AgeInv
<1>5. QED
  BY <1>3, <1>4, RowsGrow

LEMMA AgeInvariant == Spec => []AgeInv
<1>1. Init => AgeInv
  BY DEF Init, AgeInv, PresentKeys, Present, AbsentRow
<1>2. IInv /\ AgeInv /\ [Next]_vars => AgeInv'
  BY InvRows, QueueSteps, AgeStep
<1>3. QED
  BY <1>1, <1>2, Invariance, PTL DEF Spec

(* The order of rows: irreflexive and transitive whatever their ages, total *)
(* because no two have the same.                                            *)
LEMMA PriorityType == ASSUME NEW k \in Keys PROVE Priority[RoleOfKey(k)] \in Nat
<1>1. RoleOfKey(k) \in Roles
  BY KeyParts, AttributeAssumption DEF RoleOfKey
<1>2. QED
  BY <1>1 DEF Roles, Priority

LEMMA RankOrder ==
  ASSUME TypeOK, NEW i \in Keys, NEW j \in Keys, NEW k \in Keys
  PROVE  ~Before(k, k) /\ (Before(i, j) /\ Before(j, k) => Before(i, k))
<1>1. rows[i].born \in Nat /\ rows[j].born \in Nat /\ rows[k].born \in Nat
  BY DEF TypeOK, Row
<1>2. QED
  BY <1>1, PriorityType DEF Before

LEMMA RankTotal ==
  ASSUME TypeOK, AgeInv, NEW j \in Queued, NEW k \in Queued, j # k
  PROVE  Before(j, k) \/ Before(k, j)
<1>1. j \in PresentKeys /\ k \in PresentKeys /\ j \in Keys /\ k \in Keys
  BY DEF Queued, PresentKeys, Present
<1>2. rows[j].born \in Nat /\ rows[k].born \in Nat /\ rows[j].born # rows[k].born
  BY <1>1 DEF AgeInv, TypeOK, Row
<1>3. Priority[RoleOfKey(j)] \in Nat /\ Priority[RoleOfKey(k)] \in Nat
  BY <1>1, PriorityType
<1>4. QED
  BY <1>2, <1>3 DEF Before

(* A queue that is not empty has a row with nothing ahead of it.            *)
LEMMA SomeRowFirst ==
  ASSUME TypeOK, Queued # {}
  PROVE  \E k \in Queued : Ahead(k) = {}
<1>. DEFINE T == {Ahead(k) : k \in Queued}
<1>1. IsWellFoundedOn(StrictSubsetOrdering(Keys), SUBSET Keys)
  BY KeysFinite, FS_FiniteSubsetsOfFinite, FS_StrictSubsetOrderingWellFounded
<1>2. T \subseteq SUBSET Keys /\ T # {}
  BY DEF Ahead
<1>3. PICK t \in T : \A y \in T : <<y, t>> \notin StrictSubsetOrdering(Keys)
  BY <1>1, <1>2, WFMin
<1>4. PICK k \in Queued : t = Ahead(k)
  OBVIOUS
<1>5. ASSUME NEW j \in Ahead(k)
      PROVE  FALSE
  <2>1. j \in Queued /\ k \in Keys /\ j \in Keys /\ Before(j, k)
    BY DEF Ahead, Queued
  <2>2. Ahead(j) \subseteq Ahead(k)
    <3>1. ASSUME NEW i \in Ahead(j)
          PROVE  i \in Ahead(k)
      <4>1. i \in Keys /\ rows[i].status = "queued" /\ Before(i, j)
        BY DEF Ahead
      <4>2. Before(i, k)
        BY <2>1, <4>1, RankOrder
      <4>3. i # k
        BY <2>1, <4>2, RankOrder
      <4>4. QED
        BY <4>1, <4>2, <4>3 DEF Ahead
    <3>2. QED
      BY <3>1
  <2>3. j \notin Ahead(j)
    BY DEF Ahead
  <2>4. Ahead(j) \in T /\ Ahead(j) \in SUBSET Keys /\ Ahead(k) \in SUBSET Keys
    BY <2>1 DEF Ahead
  <2>5. Ahead(j) # Ahead(k)
    BY <2>3
  <2>6. <<Ahead(j), Ahead(k)>> \in StrictSubsetOrdering(Keys)
    BY <2>2, <2>4, <2>5 DEF StrictSubsetOrdering
  <2>7. QED
    BY <1>3, <1>4, <2>4, <2>6
<1>6. Ahead(k) = {}
  BY <1>5
<1>7. QED
  BY <1>6

(* Of the hops in the queue exactly one ranks first (compareHopFairness):   *)
(* the fairness check never lets all of them wait for one another.          *)
THEOREM OneHopFirst == Spec => []OneFirst
<1>1. ASSUME TypeOK, AgeInv
      PROVE  OneFirst
  <2>. SUFFICES ASSUME Queued # {}
                PROVE  \E k \in Queued : Ahead(k) = {} /\ \A j \in Queued \ {k} : k \in Ahead(j)
    BY DEF OneFirst
  <2>1. PICK k \in Queued : Ahead(k) = {}
    BY <1>1, SomeRowFirst
  <2>2. ASSUME NEW j \in Queued, j # k
        PROVE  k \in Ahead(j)
    <3>1. Before(j, k) \/ Before(k, j)
      BY <1>1, <2>2, RankTotal
    <3>2. j \in Keys /\ k \in Keys /\ rows[j].status = "queued" /\ rows[k].status = "queued"
      BY DEF Queued
    <3>3. ~Before(j, k)
      BY <2>1, <2>2, <3>2 DEF Ahead
    <3>4. QED
      BY <2>2, <3>1, <3>2, <3>3 DEF Ahead
  <2>3. QED
    BY <2>1, <2>2
<1>2. QED
  BY <1>1, TypeCorrect, AgeInvariant, PTL

LEMMA PeersStay ==
  ASSUME TypeOK, AgeInv, AgeInv', RowStep, NEW k \in Queued, k \in Queued',
         NEW j \in Ahead(k)', j \in Peers(k)
  PROVE  j \in Ahead(k)
<1>1. /\ j \in Keys /\ k \in Keys /\ j # k /\ rows'[j].status = "queued"
      /\ rows[k].status = "queued" /\ Before(j, k)'
  BY DEF Ahead, Queued
<1>2. Priority[RoleOfKey(j)] = Priority[RoleOfKey(k)] /\ Priority[RoleOfKey(k)] \in Nat
  BY <1>1, PriorityType DEF Peers
<1>3. rows'[j].born < rows'[k].born
  BY <1>1, <1>2 DEF Before
<1>4. Present(k) /\ rows'[k].born = rows[k].born /\ rows[k].born \in 1..RowCount
  BY <1>1, AgeStays DEF Present, AgeInv, PresentKeys
<1>5. CASE Present(j)
  <2>1. rows'[j].born = rows[j].born
    BY <1>1, <1>5, AgeStays
  <2>2. Before(j, k)
    BY <1>2, <1>3, <1>4, <2>1 DEF Before
  <2>3. rows[j].status = "queued"
    BY <1>1, <1>5, QueuedOnce
  <2>4. QED
    BY <1>1, <2>2, <2>3 DEF Ahead
<1>6. CASE ~Present(j)
  <2>1. PICK i \in Keys : EnqueueStep(i) /\ PresentKeys' = PresentKeys \cup {i}
    BY <1>1, <1>6, RowsGrow DEF PresentKeys, Present
  <2>2. i = j
    BY <1>1, <1>6, <2>1 DEF PresentKeys, Present
  <2>3. rows'[j].born = RowCount + 1
    BY <2>1, <2>2 DEF EnqueueStep, AbsentRow, TypeOK
  <2>4. RowCount \in Nat
    BY RowCountType
  <2>5. QED
    BY <1>3, <1>4, <2>3, <2>4
<1>7. QED
  BY <1>5, <1>6

(* A hop in the queue is not overtaken by a peer enqueued, retried or taken *)
(* over later: enqueue never renews the age of a row, and nothing goes back *)
(* to the queue once it was claimed.                                        *)
THEOREM PeersDoNotOvertake == Spec => NotOvertaken
<1>1. ASSUME IInv, AgeInv, AgeInv', [Next]_vars
      PROVE  [\A k \in Queued : k \in Queued' => Ahead(k)' \cap Peers(k) \subseteq Ahead(k)]_vars
  <2>1. TypeOK /\ RowStep
    BY <1>1, InvRows, QueueSteps
  <2>2. QED
    BY <1>1, <2>1, PeersStay
<1>2. QED
  BY <1>1, Invariance, AgeInvariant, PTL DEF Spec, NotOvertaken
=============================================================================
