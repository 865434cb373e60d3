----------------------- MODULE CandidateCircuitProofs -----------------------
(***************************************************************************)
(* Theorems about module CandidateCircuit, for every set of candidates,    *)
(* hops and queries and every value of the time constants.                 *)
(***************************************************************************)
EXTENDS CandidateCircuit, TLAPS

(* Only the run of one invocation changes, to a state of the right type.   *)
RunChanges(r) ==
  \E v \in RunState : run' = [run EXCEPT ![r] = v]

LEMMA IdleTyped == Idle \in RunState /\ NoLease \in [profile: Profiles \cup {NoProfile}, left: 0..Lease]
BY TimeAssumption DEF Idle, RunState, Prompt, NoLease

LEMMA CircuitsTyped ==
  /\ Closed \in Circuit /\ HalfOpen \in Circuit
  /\ Open(0) \in Circuit /\ Open(Cooldown) \in Circuit /\ Open(Manual) \in Circuit
  /\ \A o \in Outcomes : OpenAfter(o) \in Circuit /\ Resolved(o) \in Circuit
<1>1. 0 \in 0..Cooldown /\ Cooldown \in 0..Cooldown
  BY TimeAssumption
<1>2. Open(0) \in Circuit /\ Open(Cooldown) \in Circuit /\ Open(Manual) \in Circuit
  BY <1>1 DEF Circuit
<1>3. QED
  BY <1>2 DEF Circuit, OpenAfter, Resolved

LEMMA Moves ==
  ASSUME TypeOK, NEW r \in Runs,
         NEW pc \in {"idle", "running", "ended"} \cup Prompt
  PROVE  /\ [run[r] EXCEPT !.pc = pc] \in RunState
         /\ [run[r] EXCEPT !.pc = pc, !.probe = TRUE] \in RunState
         /\ \A o \in Outcomes :
              [run[r] EXCEPT !.pc = pc, !.outcome = o, !.old = FALSE] \in RunState
         /\ \A p \in Profiles : [Idle EXCEPT !.pc = pc, !.profile = p] \in RunState
<1>1. run[r] \in RunState /\ Idle \in RunState
  BY IdleTyped DEF TypeOK
<1>2. QED
  BY <1>1 DEF RunState

LEMMA Changes ==
  ASSUME TypeOK, NEW r \in Runs
  PROVE  /\ Leave(r) => RunChanges(r)
         /\ \A pc \in {"running", "returning"} : Goto(r, pc) => RunChanges(r)
<1>1. \A pc \in {"running", "returning"} : [run[r] EXCEPT !.pc = pc] \in RunState
  BY Moves DEF Prompt
<1>2. \A pc : [run EXCEPT ![r].pc = pc] = [run EXCEPT ![r] = [run[r] EXCEPT !.pc = pc]]
  BY DEF TypeOK
<1>3. QED
  BY <1>1, <1>2, IdleTyped DEF Leave, Goto, RunChanges

-----------------------------------------------------------------------------
(* The type of the reclaimer's local state. *)
ReclaimOK == reclaim \in [pc: {"idle", "reading", "resetting"}, gap: 0..EvalGap,
                          todo: SUBSET Profiles, seen: SUBSET Profiles, resets: SUBSET Profiles]

LEMMA RunStep ==
  ASSUME TypeOK, NEW r \in Runs, HopStep(r) \/ QueryStep(r)
  PROVE  RunChanges(r)
<1>1. CASE \/ OpenDepleted(r) \/ TurnAway(r) \/ FinishFenced(r) \/ CheckpointFailed(r)
           \/ Return(r) \/ ResolveProbe(r) \/ Settle(r)
  <2>1. Leave(r)
    BY <1>1 DEF OpenDepleted, TurnAway, FinishFenced, CheckpointFailed, Return,
                ResolveProbe, Settle
  <2>2. QED
    BY <2>1, Changes
<1>2. CASE TurnBack(r) \/ Take(r) \/ StartQuery(r) \/ ReturnProbe(r)
  <2>1. Leave(r) \/ \E pc \in {"running", "returning"} : Goto(r, pc)
    BY <1>2 DEF TurnBack, Take, StartQuery, ReturnProbe
  <2>2. QED
    BY <2>1, Changes
<1>3. CASE ClaimProbe(r)
  <2>1. CASE run' = [run EXCEPT ![r].pc = "taking", ![r].probe = TRUE]
    <3>1. [run[r] EXCEPT !.pc = "taking", !.probe = TRUE] \in RunState
      BY Moves DEF Prompt
    <3>2. run' = [run EXCEPT ![r] = [run[r] EXCEPT !.pc = "taking", !.probe = TRUE]]
      BY <2>1 DEF TypeOK
    <3>3. QED
      BY <3>1, <3>2 DEF RunChanges
  <2>2. CASE Leave(r)
    BY <2>2, Changes
  <2>3. QED
    BY <1>3, <2>1, <2>2 DEF ClaimProbe
<1>4. ASSUME NEW o \in Outcomes, Finish(r, o)
      PROVE  RunChanges(r)
  <2>1. [run[r] EXCEPT !.pc = "ended", !.outcome = o, !.old = FALSE] \in RunState
    BY Moves DEF Prompt
  <2>2. run' = [run EXCEPT ![r] = [run[r] EXCEPT !.pc = "ended", !.outcome = o, !.old = FALSE]]
    BY <1>4 DEF Finish, TypeOK
  <2>3. QED
    BY <2>1, <2>2 DEF RunChanges
<1>5. QED
  BY <1>1, <1>2, <1>3, <1>4 DEF HopStep, QueryStep

LEMMA LookStep ==
  ASSUME TypeOK, NEW r \in Runs, NEW p \in Profiles,
         Look(r, p) \/ LookDepleted(r, p)
  PROVE  RunChanges(r)
<1>1. PICK pc \in Prompt : run' = [run EXCEPT ![r] = [Idle EXCEPT !.pc = pc, !.profile = p]]
  BY DEF Look, LookDepleted, Prompt
<1>2. [Idle EXCEPT !.pc = pc, !.profile = p] \in RunState
  BY Moves
<1>3. QED
  BY <1>1, <1>2 DEF RunChanges

(* The circuit of one candidate may change, the lease of one hop, and      *)
(* nothing of the reclaimer: what every step of a run does.                *)
RunFrame(r) ==
  /\ RunChanges(r)
  /\ \/ UNCHANGED circuit
     \/ \E p \in Profiles \cup {NoProfile}, c \in Circuit :
               circuit' = [circuit EXCEPT ![p] = c]
  /\ \/ UNCHANGED lease
     \/ /\ r \in Hops
        /\ \/ lease' = [lease EXCEPT ![r].left = 0]
           \/ lease' = [lease EXCEPT ![r] = [profile |-> run[r].profile, left |-> Lease]]
  /\ UNCHANGED <<watch, reclaim, crashes>>

LEMMA FrameTyped ==
  ASSUME TypeOK, NEW r \in Runs, RunFrame(r)
  PROVE  TypeOK'
<1>1. run' \in [Runs -> RunState]
  BY DEF RunFrame, RunChanges, TypeOK
<1>2. circuit' \in [Profiles -> Circuit]
  BY DEF RunFrame, TypeOK
<1>3. lease' \in [Hops -> [profile: Profiles \cup {NoProfile}, left: 0..Lease]]
  <2>1. CASE UNCHANGED lease
    BY <2>1 DEF TypeOK
  <2>2. CASE r \in Hops /\ lease' = [lease EXCEPT ![r].left = 0]
    BY <2>2, TimeAssumption DEF TypeOK
  <2>3. CASE /\ r \in Hops
             /\ lease' = [lease EXCEPT ![r] = [profile |-> run[r].profile, left |-> Lease]]
    <3>1. run[r].profile \in Profiles \cup {NoProfile}
      BY DEF TypeOK, RunState
    <3>2. [profile |-> run[r].profile, left |-> Lease]
            \in [profile: Profiles \cup {NoProfile}, left: 0..Lease]
      BY <3>1, TimeAssumption
    <3>3. QED
      BY <2>3, <3>2 DEF TypeOK
  <2>4. QED
    BY <2>1, <2>2, <2>3 DEF RunFrame
<1>4. UNCHANGED <<watch, reclaim, crashes>>
  BY DEF RunFrame
<1>5. QED
  BY <1>1, <1>2, <1>3, <1>4 DEF TypeOK

LEMMA HopFrame ==
  ASSUME TypeOK, NEW h \in Hops, HopStep(h)
  PROVE  RunFrame(h)
<1>0. h \in Runs /\ RunChanges(h)
  BY RunStep DEF Runs
<1>1. run[h].profile \in Profiles \cup {NoProfile} /\ run[h].outcome \in Outcomes \cup {"none"}
  BY <1>0 DEF TypeOK, RunState
<1>2. CASE TurnBack(h) \/ TurnAway(h) \/ FinishFenced(h) \/ CheckpointFailed(h) \/ ReturnProbe(h)
           \/ \E o \in Outcomes : Finish(h, o)
  BY <1>0, <1>2 DEF TurnBack, TurnAway, FinishFenced, CheckpointFailed, ReturnProbe, Finish, RunFrame
<1>3. CASE OpenDepleted(h)
  BY <1>0, <1>1, <1>3, CircuitsTyped DEF OpenDepleted, RunFrame
<1>4. CASE ClaimProbe(h)
  BY <1>0, <1>1, <1>4, CircuitsTyped DEF ClaimProbe, RunFrame
<1>5. CASE Take(h)
  BY <1>0, <1>5 DEF Take, RunFrame
<1>6. CASE Return(h)
  BY <1>0, <1>1, <1>6, CircuitsTyped DEF Return, RowLeft, RunFrame
<1>7. CASE ResolveProbe(h)
  <2>1. \A o : Resolved(o) \in Circuit
    BY CircuitsTyped DEF Resolved, OpenAfter
  <2>2. QED
    BY <1>0, <1>1, <1>7, <2>1 DEF ResolveProbe, RowLeft, RunFrame
<1>8. CASE Settle(h)
  <2>1. \A o : OpenAfter(o) \in Circuit
    BY CircuitsTyped DEF OpenAfter
  <2>2. QED
    BY <1>0, <1>1, <1>8, <2>1 DEF Settle, RowLeft, RunFrame
<1>9. QED
  BY <1>2, <1>3, <1>4, <1>5, <1>6, <1>7, <1>8 DEF HopStep

LEMMA QueryFrame ==
  ASSUME TypeOK, NEW q \in Queries, QueryStep(q)
  PROVE  RunFrame(q) /\ UNCHANGED lease
<1>0. q \in Runs /\ q \notin Hops /\ RunChanges(q)
  BY RunStep, RunAssumption DEF Runs
<1>1. run[q].profile \in Profiles \cup {NoProfile}
  BY <1>0 DEF TypeOK, RunState
<1>2. CASE StartQuery(q) \/ \E o \in Outcomes : Finish(q, o)
  BY <1>0, <1>2 DEF StartQuery, Finish, RunFrame
<1>3. CASE ClaimProbe(q)
  BY <1>0, <1>1, <1>3, CircuitsTyped DEF ClaimProbe, RunFrame
<1>4. CASE ResolveProbe(q)
  <2>1. \A o : Resolved(o) \in Circuit
    BY CircuitsTyped DEF Resolved, OpenAfter
  <2>2. QED
    BY <1>0, <1>1, <1>4, <2>1 DEF ResolveProbe, RowLeft, RunFrame
<1>5. CASE Settle(q)
  <2>1. \A o : OpenAfter(o) \in Circuit
    BY CircuitsTyped DEF OpenAfter
  <2>2. QED
    BY <1>0, <1>1, <1>5, <2>1 DEF Settle, RowLeft, RunFrame
<1>6. QED
  BY <1>2, <1>3, <1>4, <1>5 DEF QueryStep

LEMMA LookFrame ==
  ASSUME TypeOK, NEW r \in Runs, NEW p \in Profiles, Look(r, p) \/ LookDepleted(r, p)
  PROVE  RunFrame(r) /\ UNCHANGED lease
BY LookStep DEF Look, LookDepleted, RunFrame

LEMMA ReclaimTyped ==
  ASSUME TypeOK, Reclaim
  PROVE  TypeOK'
<1>1. CASE Evaluate
  BY <1>1, TimeAssumption DEF Evaluate, TypeOK
<1>2. ASSUME NEW p \in Profiles, ReadCircuit(p)
      PROVE  TypeOK'
  BY <1>2 DEF ReadCircuit, TypeOK
<1>3. CASE Decide
  <2>1. Expired \subseteq Profiles
    BY DEF Expired, Eligible, TypeOK
  <2>2. watch' \in [Profiles -> {-1} \cup (0..Orphan)]
    BY <1>3, TimeAssumption DEF Decide, NextWatch, TypeOK
  <2>3. reclaim' \in [pc: {"idle", "reading", "resetting"}, gap: 0..EvalGap,
                      todo: SUBSET Profiles, seen: SUBSET Profiles, resets: SUBSET Profiles]
    BY <1>3, <2>1 DEF Decide, TypeOK
  <2>4. QED
    BY <1>3, <2>2, <2>3 DEF Decide, TypeOK
<1>4. ASSUME NEW p \in Profiles, Reset(p)
      PROVE  TypeOK'
  BY <1>4, CircuitsTyped DEF Reset, TypeOK
<1>5. CASE EvaluationDone
  BY <1>5 DEF EvaluationDone, TypeOK
<1>6. QED
  BY <1>1, <1>2, <1>3, <1>4, <1>5 DEF Reclaim

LEMMA TickTyped ==
  ASSUME TypeOK, Tick \/ Suspend
  PROVE  TypeOK'
<1>1. \A c \in Circuit : [c EXCEPT !.left = Less(@)] \in Circuit
                         /\ [c EXCEPT !.left = IF @ = Manual THEN @ ELSE 0] \in Circuit
  <2>1. ASSUME NEW n \in {Manual} \cup (0..Cooldown)
        PROVE  /\ Less(n) \in {Manual} \cup (0..Cooldown)
               /\ 0 \in {Manual} \cup (0..Cooldown)
    BY TimeAssumption DEF Less, Manual
  <2>2. ASSUME NEW n, NEW l
        PROVE  [Open(n) EXCEPT !.left = l] = Open(l) /\ Open(n).left = n
    BY DEF Open
  <2>3. /\ [Closed EXCEPT !.left = Less(@)] = Closed
        /\ [Closed EXCEPT !.left = IF @ = Manual THEN @ ELSE 0] = Closed
        /\ [HalfOpen EXCEPT !.left = Less(@)] = HalfOpen
        /\ [HalfOpen EXCEPT !.left = IF @ = Manual THEN @ ELSE 0] = HalfOpen
    BY DEF Closed, HalfOpen, Less, Manual
  <2>4. ASSUME NEW n \in {Manual} \cup (0..Cooldown)
        PROVE  /\ [Open(n) EXCEPT !.left = Less(@)] \in Circuit
               /\ [Open(n) EXCEPT !.left = IF @ = Manual THEN @ ELSE 0] \in Circuit
    <3>1. /\ [Open(n) EXCEPT !.left = Less(@)] = Open(Less(n))
          /\ [Open(n) EXCEPT !.left = IF @ = Manual THEN @ ELSE 0]
               = Open(IF n = Manual THEN n ELSE 0)
      BY <2>2
    <3>2. Open(Less(n)) \in Circuit /\ Open(IF n = Manual THEN n ELSE 0) \in Circuit
      BY <2>1 DEF Circuit
    <3>3. QED
      BY <3>1, <3>2
  <2>5. Closed \in Circuit /\ HalfOpen \in Circuit
    BY CircuitsTyped
  <2>6. QED
    BY <2>3, <2>4, <2>5 DEF Circuit
<1>2. circuit' \in [Profiles -> Circuit]
  <2>1. \A p \in Profiles : circuit[p] \in Circuit
    BY DEF TypeOK
  <2>2. CASE Tick
    BY <1>1, <2>1, <2>2 DEF Tick
  <2>3. CASE Suspend
    BY <1>1, <2>1, <2>3 DEF Suspend
  <2>4. QED
    BY <2>2, <2>3
<1>3. lease' \in [Hops -> [profile: Profiles \cup {NoProfile}, left: 0..Lease]]
  <2>1. ASSUME NEW n \in 0..Lease
        PROVE  Less(n) \in 0..Lease /\ 0 \in 0..Lease
    BY TimeAssumption DEF Less
  <2>2. ASSUME NEW h \in Hops, NEW n \in 0..Lease
        PROVE  [lease[h] EXCEPT !.left = n]
                 \in [profile: Profiles \cup {NoProfile}, left: 0..Lease]
    BY DEF TypeOK
  <2>3. \A h \in Hops : lease[h].left \in 0..Lease
    BY DEF TypeOK
  <2>4. CASE Tick
    BY <2>1, <2>2, <2>3, <2>4 DEF Tick
  <2>5. CASE Suspend
    BY <2>1, <2>2, <2>3, <2>5 DEF Suspend
  <2>6. QED
    BY <2>4, <2>5
<1>4. run' \in [Runs -> RunState]
  <2>1. ASSUME NEW r \in Runs
        PROVE  [run[r] EXCEPT !.old = @ \/ At(r, "running")] \in RunState
    <3>1. ASSUME NEW b \in BOOLEAN
          PROVE  [run[r] EXCEPT !.old = b] \in RunState
      BY DEF TypeOK, RunState
    <3>2. (run[r].old \/ At(r, "running")) \in BOOLEAN
      BY ZenonT(30)
    <3>3. QED
      BY <3>1, <3>2
  <2>2. QED
    BY <2>1 DEF Tick, Suspend, TypeOK
<1>5. watch' \in [Profiles -> {-1} \cup (0..Orphan)]
  <2>1. ASSUME NEW n \in {-1} \cup (0..Orphan)
        PROVE  Aged(n) \in {-1} \cup (0..Orphan) /\ Orphan \in 0..Orphan
    BY TimeAssumption DEF Aged
  <2>2. \A p \in Profiles : watch[p] \in {-1} \cup (0..Orphan)
    BY DEF TypeOK
  <2>3. Orphan \in 0..Orphan
    BY TimeAssumption
  <2>4. CASE Tick
    BY <2>1, <2>2, <2>4 DEF Tick
  <2>5. CASE Suspend
    BY <2>3, <2>5 DEF Suspend
  <2>6. QED
    BY <2>4, <2>5
<1>6. reclaim' \in [pc: {"idle", "reading", "resetting"}, gap: 0..EvalGap,
                    todo: SUBSET Profiles, seen: SUBSET Profiles, resets: SUBSET Profiles]
  <2>1. ASSUME NEW n \in 0..EvalGap
        PROVE  Less(n) \in 0..EvalGap /\ 0 \in 0..EvalGap
    BY TimeAssumption DEF Less
  <2>2. reclaim.gap \in 0..EvalGap
    BY DEF TypeOK
  <2>3. ASSUME NEW n \in 0..EvalGap, reclaim' = [reclaim EXCEPT !.gap = n]
        PROVE  ReclaimOK'
    BY <2>3 DEF TypeOK, ReclaimOK
  <2>4. CASE Tick
    <3>1. Less(reclaim.gap) \in 0..EvalGap /\ reclaim' = [reclaim EXCEPT !.gap = Less(reclaim.gap)]
      BY <2>1, <2>2, <2>4 DEF Tick
    <3>2. QED
      BY <2>3, <3>1 DEF ReclaimOK
  <2>5. CASE Suspend
    <3>1. 0 \in 0..EvalGap /\ reclaim' = [reclaim EXCEPT !.gap = 0]
      BY <2>5, TimeAssumption DEF Suspend
    <3>2. QED
      BY <2>3, <3>1 DEF ReclaimOK
  <2>6. QED
    BY <2>4, <2>5
<1>7. crashes' \in 0..MaxCrash
  BY DEF Tick, Suspend, TypeOK
<1>8. QED
  BY <1>2, <1>3, <1>4, <1>5, <1>6, <1>7 DEF TypeOK

LEMMA TypeInit == Init => TypeOK
<1>1. 0 \in 0..EvalGap /\ 0 \in 0..MaxCrash
  BY TimeAssumption, RunAssumption
<1>2. QED
  BY <1>1, CircuitsTyped, IdleTyped DEF Init, TypeOK

LEMMA TypeStep ==
  ASSUME TypeOK, [Next]_vars
  PROVE  TypeOK'
<1>1. ASSUME NEW r \in Runs, RunFrame(r)
      PROVE  TypeOK'
  BY <1>1, FrameTyped
<1>2. ASSUME NEW h \in Hops, Heartbeat(h)
      PROVE  TypeOK'
  <2>1. Lease \in 0..Lease
    BY TimeAssumption
  <2>2. QED
    BY <1>2, <2>1 DEF Heartbeat, TypeOK
<1>3. ASSUME NEW p \in Profiles, OperatorReset(p)
      PROVE  TypeOK'
  BY <1>3, CircuitsTyped DEF OperatorReset, TypeOK
<1>4. CASE Crash
  <2>1. crashes' \in 0..MaxCrash /\ 0 \in 0..EvalGap
    BY <1>4, TimeAssumption, RunAssumption DEF Crash, TypeOK
  <2>2. QED
    BY <1>4, <2>1, IdleTyped DEF Crash, TypeOK
<1>5. CASE UNCHANGED vars
  BY <1>5 DEF vars, TypeOK
<1>6. Hops \subseteq Runs /\ Queries \subseteq Runs
  BY DEF Runs
<1>7. ASSUME NEW r \in Runs, NEW p \in Profiles, Look(r, p) \/ LookDepleted(r, p)
      PROVE  TypeOK'
  BY <1>1, <1>7, LookFrame
<1>8. ASSUME NEW h \in Hops, HopStep(h)
      PROVE  TypeOK'
  BY <1>1, <1>6, <1>8, HopFrame
<1>9. ASSUME NEW q \in Queries, QueryStep(q)
      PROVE  TypeOK'
  BY <1>1, <1>6, <1>9, QueryFrame
<1>10. QED
  BY <1>2, <1>3, <1>4, <1>5, <1>6, <1>7, <1>8, <1>9, ReclaimTyped, TickTyped DEF Next

(* Circuits, leases, runs, watches and the reclaimer keep their types,     *)
(* whatever the number of candidates, hops and queries.                    *)
THEOREM TypeCorrect == Spec => []TypeOK
BY TypeInit, TypeStep, PTL DEF Spec

-----------------------------------------------------------------------------
(* What keeps the reclaimer away from a hop that works.                    *)

(* Of one hop: `old' belongs to a running agent, a live lease of a running *)
(* hop names the candidate that runs, and a hop that was running under its *)
(* lease when time last passed is not about to lose its probe.             *)
Working(h) == At(h, "running") /\ lease[h].left > 0

HopSafe(h) ==
  /\ run[h].old => At(h, "running")
  /\ Working(h) => lease[h].profile = run[h].profile
  /\ Working(h) /\ run[h].old => run[h].profile \notin reclaim.resets

NoResets == reclaim.pc # "resetting" => reclaim.resets = {}

Safe == (\A h \in Hops : HopSafe(h)) /\ NoResets

IInv == TypeOK /\ Safe

(* A step of one run leaves the other hops as they were. *)
LEMMA OthersSafe ==
  ASSUME IInv, NEW r \in Runs, RunFrame(r), NEW h \in Hops, h # r
  PROVE  HopSafe(h)'
<1>1. run'[h] = run[h] /\ lease'[h] = lease[h] /\ reclaim' = reclaim
  BY DEF RunFrame, RunChanges, IInv, TypeOK, Runs
<1>2. HopSafe(h)
  BY DEF IInv, Safe
<1>3. QED
  BY <1>1, <1>2 DEF HopSafe, Working, At

LEMMA IdleSafe ==
  ASSUME IInv, NEW h \in Hops, run'[h].pc # "running", ~run'[h].old
  PROVE  HopSafe(h)'
BY DEF HopSafe, Working, At

LEMMA OwnStepSafe ==
  ASSUME IInv, NEW h \in Hops, HopStep(h)
  PROVE  HopSafe(h)'
<1>a. h \in Runs /\ run \in [Runs -> RunState] /\ run[h] \in RunState
  BY DEF Runs, IInv, TypeOK
<1>b. ~At(h, "running") => ~run[h].old
  BY DEF IInv, Safe, HopSafe
<1>c. h \in DOMAIN run
  BY <1>a
<1>1. CASE Leave(h)
  <2>1. run'[h] = Idle
    BY <1>1, <1>c DEF Leave
  <2>2. QED
    BY <2>1, IdleSafe DEF Idle
<1>2. CASE Take(h) /\ ~Leave(h)
  <2>1. run' = [run EXCEPT ![h].pc = "running"]
    BY <1>2 DEF Take, Goto
  <2>2. ~run[h].old
    BY <1>b, <1>2 DEF Take, At
  <2>3. run'[h].old = run[h].old /\ run'[h].profile = run[h].profile /\ run'[h].pc = "running"
    BY <1>a, <2>1 DEF RunState
  <2>4. lease'[h].profile = run[h].profile
    BY <1>2 DEF Take, IInv, TypeOK
  <2>5. QED
    BY <2>2, <2>3, <2>4 DEF HopSafe, Working, At
<1>3. CASE ~Leave(h) /\ (TurnBack(h) \/ ReturnProbe(h))
  <2>1. run' = [run EXCEPT ![h].pc = "returning"]
    BY <1>3 DEF TurnBack, ReturnProbe, Goto
  <2>2. ~run[h].old
    BY <1>b, <1>3 DEF TurnBack, ReturnProbe, At
  <2>3. run'[h].old = run[h].old /\ run'[h].pc = "returning"
    BY <1>a, <2>1 DEF RunState
  <2>4. QED
    BY <2>2, <2>3, IdleSafe
<1>4. CASE ~Leave(h) /\ ClaimProbe(h)
  <2>1. run' = [run EXCEPT ![h].pc = "taking", ![h].probe = TRUE]
    BY <1>4 DEF ClaimProbe
  <2>2. ~run[h].old
    BY <1>b, <1>4 DEF ClaimProbe, At
  <2>3. run'[h].pc = "taking" /\ run'[h].old = run[h].old
    BY <1>a, <2>1 DEF RunState
  <2>4. QED
    BY <2>2, <2>3, IdleSafe
<1>5. ASSUME NEW o \in Outcomes, Finish(h, o)
      PROVE  HopSafe(h)'
  <2>1. run'[h].pc = "ended" /\ ~run'[h].old
    BY <1>a, <1>5 DEF Finish, RunState
  <2>2. QED
    BY <2>1, IdleSafe
<1>6. QED
  BY <1>1, <1>2, <1>3, <1>4, <1>5
  DEF HopStep, OpenDepleted, TurnAway, FinishFenced, CheckpointFailed, Return, ResolveProbe, Settle

(* A step that leaves runs and leases alone needs only to justify resets.  *)
LEMMA StillSafe ==
  ASSUME IInv, UNCHANGED <<lease, run>>, reclaim'.resets \subseteq reclaim.resets,
         NEW h \in Hops
  PROVE  HopSafe(h)'
BY DEF IInv, Safe, HopSafe, Working, At

LEMMA ReclaimSafe ==
  ASSUME IInv, Reclaim
  PROVE  Safe'
<1>1. CASE Evaluate
  <2>1. reclaim'.resets = {} /\ UNCHANGED <<lease, run>>
    BY <1>1 DEF Evaluate
  <2>2. QED
    BY <2>1, StillSafe DEF Safe, NoResets
<1>2. ASSUME NEW p \in Profiles, ReadCircuit(p)
      PROVE  Safe'
  <2>1. reclaim'.resets = reclaim.resets /\ reclaim'.pc = reclaim.pc /\ UNCHANGED <<lease, run>>
    BY <1>2 DEF ReadCircuit, IInv, TypeOK
  <2>2. QED
    BY <2>1, StillSafe DEF IInv, Safe, NoResets
<1>3. CASE Decide
  <2>1. reclaim'.resets = Expired /\ reclaim'.pc = "resetting" /\ UNCHANGED <<lease, run>>
    BY <1>3 DEF Decide, IInv, TypeOK
  <2>2. ASSUME NEW h \in Hops
        PROVE  HopSafe(h)'
    <3>1. HopSafe(h)
      BY DEF IInv, Safe
    <3>2. ASSUME Working(h)
          PROVE  run[h].profile \notin Expired
      <4>1. Leased(run[h].profile)
        BY <3>1, <3>2 DEF HopSafe, Working, Leased
      <4>2. QED
        BY <4>1 DEF Expired, Eligible
    <3>3. QED
      BY <2>1, <3>1, <3>2 DEF HopSafe, Working, At
  <2>3. QED
    BY <2>1, <2>2 DEF Safe, NoResets
<1>4. ASSUME NEW p \in Profiles, Reset(p)
      PROVE  Safe'
  <2>1. /\ reclaim'.resets \subseteq reclaim.resets /\ reclaim'.pc = "resetting"
        /\ UNCHANGED <<lease, run>>
    BY <1>4 DEF Reset, IInv, TypeOK
  <2>2. QED
    BY <2>1, StillSafe DEF Safe, NoResets
<1>5. CASE EvaluationDone
  <2>1. reclaim'.resets = {} /\ UNCHANGED <<lease, run>>
    BY <1>5 DEF EvaluationDone, IInv, TypeOK
  <2>2. QED
    BY <2>1, StillSafe DEF Safe, NoResets
<1>6. QED
  BY <1>1, <1>2, <1>3, <1>4, <1>5 DEF Reclaim

LEMMA TickSafe ==
  ASSUME IInv, Tick \/ Suspend
  PROVE  Safe'
<1>1. reclaim'.resets = {} /\ reclaim.resets = {}
  <2>1. reclaim.resets = {}
    BY DEF Tick, Suspend, Quiet, IInv, Safe, NoResets
  <2>2. reclaim'.resets = reclaim.resets
    BY DEF Tick, Suspend, IInv, TypeOK
  <2>3. QED
    BY <2>1, <2>2
<1>2. ASSUME NEW h \in Hops
      PROVE  HopSafe(h)'
  <2>1. h \in Runs /\ HopSafe(h) /\ run[h] \in RunState /\ lease[h].left \in 0..Lease
    BY DEF IInv, TypeOK, Safe, Runs
  <2>2. run'[h].pc = run[h].pc /\ run'[h].profile = run[h].profile
    BY <2>1 DEF Tick, Suspend, RunState
  <2>3. lease'[h].profile = lease[h].profile
    BY DEF Tick, Suspend, IInv, TypeOK
  <2>4. lease'[h].left > 0 => lease[h].left > 0
    <3>1. CASE Tick
      <4>1. lease'[h].left = Less(lease[h].left)
        BY <3>1 DEF Tick, IInv, TypeOK
      <4>2. QED
        BY <2>1, <4>1, TimeAssumption DEF Less
    <3>2. CASE Suspend
      <4>1. lease'[h].left = 0
        BY <3>2 DEF Suspend, IInv, TypeOK
      <4>2. QED
        BY <4>1
    <3>3. QED
      BY <3>1, <3>2
  <2>5. run'[h].old => At(h, "running")
    <3>1. CASE Tick
      <4>1. run'[h].old = (run[h].old \/ At(h, "running"))
        BY <2>1, <3>1 DEF Tick, RunState
      <4>2. QED
        BY <2>1, <4>1 DEF HopSafe
    <3>2. CASE Suspend
      <4>1. run' = run
        BY <3>2 DEF Suspend
      <4>2. QED
        BY <2>1, <4>1 DEF HopSafe
    <3>3. QED
      BY <3>1, <3>2
  <2>6. QED
    BY <1>1, <2>1, <2>2, <2>3, <2>4, <2>5 DEF HopSafe, Working, At
<1>3. QED
  BY <1>1, <1>2 DEF Safe, NoResets

LEMMA InvStep ==
  ASSUME IInv, [Next]_vars
  PROVE  IInv'
<1>0. TypeOK'
  BY TypeStep DEF IInv
<1>1. ASSUME NEW r \in Runs, RunFrame(r), r \in Hops => HopSafe(r)'
      PROVE  Safe'
  <2>1. \A h \in Hops : HopSafe(h)'
    BY <1>1, OthersSafe
  <2>2. NoResets'
    BY <1>1 DEF RunFrame, IInv, Safe, NoResets
  <2>3. QED
    BY <2>1, <2>2 DEF Safe
<1>2. ASSUME NEW h \in Hops, HopStep(h)
      PROVE  Safe'
  BY <1>1, <1>2, HopFrame, OwnStepSafe DEF IInv, Runs
<1>3. ASSUME NEW q \in Queries, QueryStep(q)
      PROVE  Safe'
  <2>1. q \in Runs /\ q \notin Hops
    BY RunAssumption DEF Runs
  <2>2. QED
    BY <1>1, <1>3, <2>1, QueryFrame DEF IInv
<1>4. ASSUME NEW r \in Runs, NEW p \in Profiles, Look(r, p) \/ LookDepleted(r, p)
      PROVE  Safe'
  <2>1. PICK pc \in Prompt : run' = [run EXCEPT ![r] = [Idle EXCEPT !.pc = pc, !.profile = p]]
    BY <1>4 DEF Look, LookDepleted, Prompt
  <2>2. run'[r] = [Idle EXCEPT !.pc = pc, !.profile = p]
    BY <2>1 DEF IInv, TypeOK
  <2>3. run'[r].pc # "running" /\ ~run'[r].old
    BY <2>2 DEF Idle, Prompt
  <2>4. QED
    BY <1>1, <1>4, <2>3, LookFrame, IdleSafe DEF IInv
<1>5. ASSUME NEW h \in Hops, Heartbeat(h)
      PROVE  Safe'
  <2>1. ASSUME NEW g \in Hops
        PROVE  HopSafe(g)'
    <3>1. /\ HopSafe(g) /\ run' = run /\ reclaim' = reclaim
          /\ lease'[g].profile = lease[g].profile
          /\ lease'[g].left > 0 => lease[g].left > 0
      BY <1>5 DEF Heartbeat, IInv, Safe, TypeOK
    <3>2. QED
      BY <3>1 DEF HopSafe, Working, At
  <2>2. QED
    BY <1>5, <2>1 DEF Heartbeat, IInv, Safe, NoResets
<1>6. ASSUME NEW p \in Profiles, OperatorReset(p)
      PROVE  Safe'
  BY <1>6, StillSafe DEF OperatorReset, IInv, Safe, NoResets
<1>7. ASSUME Crash
      PROVE  Safe'
  <2>1. \A h \in Hops : run'[h].pc # "running" /\ ~run'[h].old
    BY <1>7 DEF Crash, Runs, Idle
  <2>2. NoResets'
    BY <1>7 DEF Crash, NoResets
  <2>3. QED
    BY <2>1, <2>2, IdleSafe DEF Safe
<1>8. ASSUME UNCHANGED vars
      PROVE  Safe'
  BY <1>8, StillSafe DEF vars, IInv, Safe, NoResets
<1>9. Safe'
  <2>1. Hops \subseteq Runs
    BY DEF Runs
  <2>2. QED
    BY <1>2, <1>3, <1>4, <1>5, <1>6, <1>7, <1>8, <2>1, ReclaimSafe, TickSafe DEF Next
<1>10. QED
  BY <1>0, <1>9 DEF IInv

LEMMA InvInit == Init => IInv
<1>1. ASSUME Init
      PROVE  Safe
  BY <1>1 DEF Init, Safe, HopSafe, Working, At, NoResets, Idle, Runs, NoLease
<1>2. QED
  BY <1>1, TypeInit DEF IInv

LEMMA Invariance == Spec => []IInv
BY InvInit, InvStep, PTL DEF Spec

(* The reclaimer never takes the probe of a hop whose agent was running    *)
(* under a live lease when time last passed, whatever the number of        *)
(* candidates, hops and queries.                                           *)
THEOREM LeasedProbesAreSpared == Spec => ReclaimSparesLeased
<1>1. ASSUME IInv, [Next]_vars, NEW p \in Profiles, Reset(p), NEW h \in Hops,
             At(h, "running"), run[h].old, run[h].profile = p, lease[h].left > 0
      PROVE  FALSE
  <2>1. p \in reclaim.resets
    BY <1>1 DEF Reset
  <2>2. QED
    BY <1>1, <2>1 DEF IInv, Safe, HopSafe, Working
<1>2. IInv /\ [Next]_vars =>
        [\A p \in Profiles : Reset(p) =>
           ~\E h \in Hops : /\ At(h, "running") /\ run[h].old /\ run[h].probe
                            /\ run[h].profile = p /\ lease[h].left > 0]_vars
  BY <1>1
<1>3. QED
  BY <1>2, Invariance, PTL DEF Spec, ReclaimSparesLeased
=============================================================================
