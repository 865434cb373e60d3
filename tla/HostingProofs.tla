--------------------------- MODULE HostingProofs ---------------------------
(***************************************************************************)
(* Proofs about Hosting.  A run of a Mission is inside the guard of one    *)
(* reservation (One, and the reservations in TypeOK); an Attempt of the    *)
(* loop belongs to a run that is there (Working); what stop() waits for    *)
(* covers whatever may still start (Quiet); and what the worker runs was   *)
(* at the head of the queue, which completed entries never leave (Turn).   *)
(* That no wake is lost is argued for every step (Steady, QueuedStays);    *)
(* it needs to know whose entry a resumption has (Own).                    *)
(***************************************************************************)
EXTENDS Hosting, FiniteSetTheorems, TLAPS

JobRec == [pc: PCs, m: Missions \cup {"none"}]

(* The guard holds one reservation for one run.                            *)
One ==
  \A j, k \in Jobs :
    (job[j].pc \in Inside /\ job[k].pc \in Inside /\ job[j].m = job[k].m) => j = k

(* An Attempt of the loop belongs to a run, until the process dies.        *)
Working ==
  \A m \in Missions :
    mission[m].attempt = "work"
      => Dead \/ \E j \in Jobs : job[j].pc = "running" /\ job[j].m = m

(* What close and stop() may count on, and what Launch does.               *)
Quiet ==
  /\ server \in {"draining", "down"} => ~scan.on
  /\ server = "draining" => Waking \subseteq waits
  /\ server = "down" => \A j \in Jobs : job[j] = Idle
  /\ server \in {"down", "failed"} => Drained
  /\ \A m \in Missions : m \in scan.look => job[m] = Idle

(* What the worker is about to run, or runs, has had its turn.             *)
Turn ==
  job[Worker].pc \in {"call"} \cup Inside =>
    /\ Queued(job[Worker].m)
    /\ \A n \in Earlier(job[Worker].m) \cup DependsOn[job[Worker].m] : mission[n].st = "completed"

IInv == TypeOK /\ One /\ Working /\ Quiet /\ Turn

-----------------------------------------------------------------------------
(* What steps do to calls and Missions.                                    *)

Moved(j) == job' \in [Jobs -> JobRec] /\ \A k \in Jobs : k # j => job'[k] = job[k]

LEMMA Places ==
  /\ Callers \subseteq Jobs /\ Worker \in Jobs /\ Missions \subseteq Jobs
  /\ Worker \notin Callers /\ Worker \notin Missions /\ Missions \cap Callers = {}
BY JobAssumption, SMT DEF Jobs

LEMMA Names ==
  /\ {"idle", "picked", "record", "call", "after", "holding", "begun", "preparing", "running",
      "leaving", "throwing"} = PCs
  /\ Inside \subseteq PCs /\ Idle \in JobRec /\ Idle.pc = "idle"
BY SMT DEF PCs, Inside, Idle, JobRec

LEMMA GotoFacts ==
  ASSUME TypeOK, NEW j \in Jobs, NEW l \in PCs, Goto(j, l)
  PROVE  Moved(j) /\ job'[j].pc = l /\ job'[j].m = job[j].m
BY SMT DEF TypeOK, Goto, Moved, JobRec

LEMMA AtFacts ==
  ASSUME TypeOK, NEW j \in Jobs, NEW l \in PCs, NEW m \in Missions,
         job' = [job EXCEPT ![j] = At(l, m)]
  PROVE  Moved(j) /\ job'[j].pc = l /\ job'[j].m = m
<1>1. At(l, m) \in JobRec /\ At(l, m).pc = l /\ At(l, m).m = m
  BY SMT DEF At, JobRec
<1>2. QED
  BY <1>1, SMT DEF TypeOK, Moved, JobRec

LEMMA BackFacts ==
  ASSUME TypeOK, NEW j \in Jobs, Back(j)
  PROVE  Moved(j) /\ job'[j] = Idle /\ job'[j].pc = "idle"
BY Names, SMT DEF TypeOK, Moved, JobRec, Back

LEMMA EndFacts ==
  ASSUME TypeOK, NEW j \in Jobs, Returned(j) \/ Thrown(j)
  PROVE  /\ Moved(j) /\ job'[j].pc \in {"idle", "after", "holding"}
         /\ job'[j].pc # "idle" => job'[j].m = job[j].m
<1>1. CASE Back(j)
  BY <1>1, BackFacts, SMT
<1>2. CASE Goto(j, "after") \/ Goto(j, "holding")
  BY <1>2, GotoFacts, Names, SMT
<1>3. QED
  BY <1>1, <1>2, Zenon DEF Returned, Thrown

(* The types that records, lines and counters have. *)
Rest ==
  /\ mission \in [Missions -> States] /\ line \in Seq(Missions)
  /\ scan \in [on: BOOLEAN, due: SUBSET Missions, look: SUBSET Missions]
  /\ server \in Servers
  /\ waits \subseteq Missions /\ cut \subseteq Missions
  /\ acts \in 0..MaxActs /\ stops \in 0..MaxStops

Reserved == active = {m \in Missions : InsideOf(m) # {}}

Placed == job \in [Jobs -> JobRec] /\ \A j \in Jobs : job[j].pc # "idle" => job[j].m \in Missions

LEMMA TypeParts ==
  (TypeOK <=> Rest /\ Reserved /\ Placed) /\ (TypeOK' <=> Rest' /\ Reserved' /\ Placed')
<1>1. TypeOK <=> Rest /\ Reserved /\ Placed
  BY Zenon DEF TypeOK, Rest, Reserved, Placed, JobRec
<1>2. (TypeOK <=> Rest /\ Reserved /\ Placed)'
  BY <1>1, PTL
<1>3. QED
  BY <1>1, <1>2

(* What no step does to the Missions. *)
Kept == \A n \in Missions : mission[n].st = "completed" => mission'[n].st = "completed"
Calm == \A n \in Missions : mission'[n].attempt = "work" => mission[n].attempt = "work"

-----------------------------------------------------------------------------
(* A step of one call.                                                     *)

LEMMA SameReserved ==
  ASSUME IInv, NEW j \in Jobs, Moved(j), active' = active,
         job[j].pc \in Inside <=> job'[j].pc \in Inside,
         job'[j].pc \in Inside => job'[j].m = job[j].m
  PROVE  Reserved' /\ One'
<1>1. \A k \in Jobs : /\ job'[k].pc \in Inside <=> job[k].pc \in Inside
                      /\ job'[k].pc \in Inside => job'[k].m = job[k].m
  BY SMT DEF Moved
<1>2. One'
  BY <1>1, Zenon DEF IInv, One
<1>3. \A m \in Missions : InsideOf(m)' = InsideOf(m)
  BY <1>1, Zenon DEF InsideOf
<1>4. active = {m \in Missions : InsideOf(m) # {}}
  BY TypeParts DEF IInv, Reserved
<1>5. QED
  BY <1>2, <1>3, <1>4, Zenon DEF Reserved

LEMMA MoreReserved ==
  ASSUME IInv, NEW j \in Jobs, NEW m \in Missions, Moved(j), m \notin active,
         active' = active \cup {m}, job[j].pc \notin Inside, job'[j].pc \in Inside, job'[j].m = m
  PROVE  Reserved' /\ One'
<1>1. active = {n \in Missions : InsideOf(n) # {}}
  BY TypeParts DEF IInv, Reserved
<1>2. \A k \in Jobs : job[k].pc \in Inside => job[k].m # m
  BY <1>1, Zenon DEF InsideOf
<1>3. One'
  <2> SUFFICES ASSUME NEW k \in Jobs, NEW l \in Jobs, job'[k].pc \in Inside, job'[l].pc \in Inside,
                      job'[k].m = job'[l].m
               PROVE  k = l
    BY DEF One
  <2>1. (job[k].pc \in Inside /\ job[l].pc \in Inside /\ job[k].m = job[l].m) => k = l
    BY Zenon DEF IInv, One
  <2>2. QED
    BY <1>2, <2>1, SMT DEF Moved
<1>4. \A n \in Missions : InsideOf(n)' = IF n = m THEN InsideOf(n) \cup {j} ELSE InsideOf(n)
  BY SMT DEF InsideOf, Moved
<1>5. \A n \in Missions : n \in active' <=> InsideOf(n)' # {}
  BY <1>1, <1>4, SMT
<1>6. active' \subseteq Missions
  BY <1>1, SMT
<1>7. QED
  BY <1>3, <1>5, <1>6, Zenon DEF Reserved

LEMMA LessReserved ==
  ASSUME IInv, NEW j \in Jobs, Moved(j), active' = active \ {job[j].m},
         job[j].pc \in Inside, job'[j].pc \notin Inside
  PROVE  Reserved' /\ One'
<1>1. active = {n \in Missions : InsideOf(n) # {}}
  BY TypeParts DEF IInv, Reserved
<1>2. \A k \in Jobs : /\ job'[k].pc \in Inside => k # j /\ job[k].pc \in Inside /\ job'[k].m = job[k].m
                      /\ k # j => job'[k] = job[k]
  BY SMT DEF Moved
<1>3. One'
  BY <1>2, Zenon DEF IInv, One
<1>4. \A k \in Jobs : (job[k].pc \in Inside /\ job[k].m = job[j].m) => k = j
  BY Zenon DEF IInv, One
<1>5. \A n \in Missions : InsideOf(n)' # {} <=> (InsideOf(n) # {} /\ n # job[j].m)
  BY <1>2, <1>4, SMT DEF InsideOf
<1>6. QED
  BY <1>1, <1>3, <1>5, SMT DEF Reserved

(* Only j moves, and line, server and waits are what they were.            *)
JobMove(j) ==
  /\ Moved(j) /\ Rest' /\ Reserved' /\ One' /\ Kept /\ Calm
  /\ job'[j].pc # "idle" => job'[j].m \in Missions
  /\ job[j].pc = "running" =>
       \/ job'[j].pc = "running" /\ job'[j].m = job[j].m
       \/ mission'[job[j].m].attempt # "work"
  /\ (j = Worker /\ job'[j].pc \in {"call"} \cup Inside) =>
       \/ job[j].pc \in {"call"} \cup Inside /\ job'[j].m = job[j].m
       \/ Eligible(job'[j].m)
  /\ job[j] = Idle => server \notin {"draining", "down"} /\ (j \in Callers => server # "failed")
  /\ scan'.on = TRUE => scan.on = TRUE
  /\ \/ scan'.look = {}
     \/ scan'.look = scan.look /\ (job[j] # Idle \/ j \notin Missions)
  /\ line' = line /\ server' = server /\ waits' = waits

LEMMA JobStep ==
  ASSUME IInv, NEW j \in Jobs, JobMove(j)
  PROVE  IInv'
<1> USE DEF JobMove
<1>0. job' \in [Jobs -> JobRec] /\ \A k \in Jobs : k # j => job'[k] = job[k]
  BY DEF Moved
<1>1. Placed'
  BY <1>0, TypeParts, SMT DEF IInv, Placed
<1>2. Working'
  <2> SUFFICES ASSUME NEW m \in Missions, mission'[m].attempt = "work", ~Dead
               PROVE  \E k \in Jobs : job'[k].pc = "running" /\ job'[k].m = m
    BY Zenon DEF Working, Dead
  <2>1. mission[m].attempt = "work"
    BY DEF Calm
  <2>2. PICK k \in Jobs : job[k].pc = "running" /\ job[k].m = m
    BY <2>1, Zenon DEF IInv, Working
  <2>3. QED
    BY <1>0, <2>2, SMT
<1>3. Quiet'
  <2>1. server \in {"draining", "down"} => scan'.on # TRUE
    <3>1. server \in {"draining", "down"} => ~scan.on
      BY Zenon DEF IInv, Quiet
    <3>2. server \in {"draining", "down"} => server # "up"
      BY SMT
    <3>3. QED
      BY <3>1, <3>2, Zenon
  <2>2. scan'.on \in BOOLEAN
    BY SMT DEF Rest
  <2>3. server = "draining" => Waking' \subseteq waits
    <3> SUFFICES ASSUME server = "draining", NEW m \in Missions, job'[m] # Idle
                 PROVE  m \in waits
      BY Zenon DEF Waking
    <3>1. job[m] # Idle
      BY <1>0, Places, SMT
    <3>2. QED
      BY <3>1, Zenon DEF IInv, Quiet, Waking
  <2>4. server # "down"
    BY SMT DEF IInv, Quiet
  <2>5. ASSUME NEW m \in Missions, m \in scan'.look
        PROVE  job'[m] = Idle
    <3>1. m \in scan.look /\ (job[j] # Idle \/ j \notin Missions)
      BY <2>5
    <3>2. job[m] = Idle
      BY <3>1, Zenon DEF IInv, Quiet
    <3>3. QED
      BY <1>0, <3>1, <3>2, Places, SMT
  <2>6. server = "failed" => Drained'
    <3> SUFFICES ASSUME server = "failed", NEW k \in Callers PROVE job'[k] = Idle
      BY DEF Drained
    <3>1. job[k] = Idle
      BY Zenon DEF IInv, Quiet, Drained
    <3>2. QED
      BY <1>0, <3>1, Places, SMT
  <2>7. server' = server /\ waits' = waits
    OBVIOUS
  <2>8. server' \in {"draining", "down"} => ~scan'.on
    BY <2>1, <2>2, <2>7, Zenon
  <2>9. server' = "draining" => Waking' \subseteq waits'
    BY <2>3, <2>7, Zenon
  <2>10. server' # "down" /\ (server' \in {"down", "failed"} => Drained')
    BY <2>4, <2>6, <2>7, Zenon
  <2>11. QED
    BY <2>5, <2>8, <2>9, <2>10, Zenon DEF Quiet
<1>4. Turn'
  <2>0. \A m : Queued(m)' = Queued(m) /\ Earlier(m)' = Earlier(m)
    <3>1. line' = line
      OBVIOUS
    <3>2. QED
      BY <3>1 DEF Queued, Earlier, Contains
  <2> SUFFICES ASSUME job'[Worker].pc \in {"call"} \cup Inside
               PROVE  /\ Queued(job'[Worker].m)
                      /\ \A n \in Earlier(job'[Worker].m) \cup DependsOn[job'[Worker].m] :
                           mission'[n].st = "completed"
    BY <2>0, Zenon DEF Turn
  <2>1. CASE job[Worker].pc \in {"call"} \cup Inside /\ job'[Worker].m = job[Worker].m
    <3> DEFINE w == job[Worker].m
    <3>1. Queued(w) /\ \A n \in Earlier(w) \cup DependsOn[w] : mission[n].st = "completed"
      BY <2>1, Zenon DEF IInv, Turn
    <3>2. w \in Missions
      BY <2>1, Places, TypeParts, SMT DEF IInv, Placed, Inside
    <3>3. Earlier(w) \subseteq Missions /\ DependsOn[w] \subseteq Missions
      BY <3>2, ModeAssumption, TypeParts, SMT DEF IInv, Rest, Earlier
    <3>4. QED
      BY <2>1, <3>1, <3>3, Zenon DEF Kept
  <2>2. CASE j = Worker /\ Eligible(job'[Worker].m)
    <3> DEFINE w == job'[Worker].m
    <3>1. w \in Missions
      BY <2>2, SMT DEF Inside
    <3>2. Queued(w) /\ \A n \in Earlier(w) \cup DependsOn[w] : mission[n].st = "completed"
      BY <2>2, Zenon DEF Eligible, Heads, Settled
    <3>3. Earlier(w) \subseteq Missions /\ DependsOn[w] \subseteq Missions
      BY <3>1, ModeAssumption, TypeParts, SMT DEF IInv, Rest, Earlier
    <3>4. QED
      BY <2>2, <3>2, <3>3, Zenon DEF Kept
  <2>3. QED
    BY <1>0, <2>1, <2>2, Places, SMT
<1>5. QED
  BY <1>1, <1>2, <1>3, <1>4, TypeParts DEF IInv

(* Steps of no call: calls and reservations stay.                          *)
LEMMA Frame ==
  ASSUME IInv, UNCHANGED <<job, active>>
  PROVE  Placed' /\ Reserved' /\ One'
<1>1. job' = job /\ active' = active
  OBVIOUS
<1>2. Placed /\ Reserved
  BY TypeParts DEF IInv
<1>3. \A m : InsideOf(m)' = InsideOf(m)
  BY <1>1, Zenon DEF InsideOf
<1>4. QED
  BY <1>1, <1>2, <1>3, Zenon DEF IInv, Placed, Reserved, One

LEMMA OldTurn ==
  ASSUME IInv, job'[Worker] = job[Worker], UNCHANGED line, Kept
  PROVE  Turn'
<1>0. \A m : Queued(m)' = Queued(m) /\ Earlier(m)' = Earlier(m)
  <2>1. line' = line
    OBVIOUS
  <2>2. QED
    BY <2>1 DEF Queued, Earlier, Contains
<1> SUFFICES ASSUME job[Worker].pc \in {"call"} \cup Inside
             PROVE  /\ Queued(job[Worker].m)
                    /\ \A n \in Earlier(job[Worker].m) \cup DependsOn[job[Worker].m] :
                         mission'[n].st = "completed"
  BY <1>0, Zenon DEF Turn
<1> DEFINE w == job[Worker].m
<1>1. Queued(w) /\ \A n \in Earlier(w) \cup DependsOn[w] : mission[n].st = "completed"
  BY Zenon DEF IInv, Turn
<1>2. w \in Missions
  BY Places, TypeParts, SMT DEF IInv, Placed, Inside
<1>3. Earlier(w) \subseteq Missions /\ DependsOn[w] \subseteq Missions
  BY <1>2, ModeAssumption, TypeParts, SMT DEF IInv, Rest, Earlier
<1>4. QED
  BY <1>1, <1>3, Zenon DEF Kept

(* Missions alone have changed. *)
LEMMA MissionStep ==
  ASSUME IInv, Rest', Kept, UNCHANGED <<line, job, active, scan, server, waits>>,
         \A n \in Missions : mission'[n].attempt = "work" =>
           \/ mission[n].attempt = "work"
           \/ \E j \in Jobs : job[j].pc = "running" /\ job[j].m = n
  PROVE  IInv'
<1>1. TypeOK' /\ One'
  BY Frame, TypeParts
<1>2. Working'
  <2> SUFFICES ASSUME NEW m \in Missions, mission'[m].attempt = "work", ~Dead
               PROVE  \E k \in Jobs : job[k].pc = "running" /\ job[k].m = m
    BY Zenon DEF Working, Dead
  <2>1. QED
    BY Zenon DEF IInv, Working
<1>3. Quiet'
  BY Zenon DEF IInv, Quiet, Waking, Drained
<1>4. Turn'
  <2>1. job'[Worker] = job[Worker]
    OBVIOUS
  <2>2. QED
    BY <2>1, OldTurn
<1>5. QED
  BY <1>1, <1>2, <1>3, <1>4 DEF IInv

-----------------------------------------------------------------------------
(* Mission records.                                                        *)

WaitSet == {"none", "backoff", "ripe", "l3", "hold", "manual"} \cup Gates
HeldSet == SUBSET (Cards \cup {"paused"})

(* A record the steps below may put for the Mission. *)
Fits(m, q) ==
  /\ q \in States
  /\ mission[m].st = "completed" => q.st = "completed"
  /\ q.attempt = "work" => mission[m].attempt = "work"

LEMMA WaitField ==
  ASSUME NEW r \in States, NEW w \in WaitSet
  PROVE  /\ [r EXCEPT !.wait = w] \in States
         /\ [r EXCEPT !.wait = w].st = r.st /\ [r EXCEPT !.wait = w].attempt = r.attempt
BY SMT DEF States, WaitSet, HeldSet

LEMMA AskedField ==
  ASSUME NEW r \in States, NEW b \in BOOLEAN
  PROVE  /\ [r EXCEPT !.asked = b] \in States
         /\ [r EXCEPT !.asked = b].st = r.st /\ [r EXCEPT !.asked = b].attempt = r.attempt
BY SMT DEF States, WaitSet, HeldSet

LEMMA KnownField ==
  ASSUME NEW r \in States, NEW b \in BOOLEAN
  PROVE  /\ [r EXCEPT !.known = b] \in States
         /\ [r EXCEPT !.known = b].st = r.st /\ [r EXCEPT !.known = b].attempt = r.attempt
BY SMT DEF States, WaitSet, HeldSet

LEMMA HeldField ==
  ASSUME NEW r \in States, NEW h \in HeldSet
  PROVE  /\ [r EXCEPT !.held = h] \in States
         /\ [r EXCEPT !.held = h].st = r.st /\ [r EXCEPT !.held = h].attempt = r.attempt
BY SMT DEF States, WaitSet, HeldSet

LEMMA StField ==
  ASSUME NEW r \in States, NEW s \in {"open", "review", "completed", "blocked"}
  PROVE  /\ [r EXCEPT !.st = s] \in States
         /\ [r EXCEPT !.st = s].st = s /\ [r EXCEPT !.st = s].attempt = r.attempt
BY SMT DEF States, WaitSet, HeldSet

LEMMA AttemptField ==
  ASSUME NEW r \in States, NEW a \in {"none", "work", "review"}
  PROVE  /\ [r EXCEPT !.attempt = a] \in States
         /\ [r EXCEPT !.attempt = a].st = r.st /\ [r EXCEPT !.attempt = a].attempt = a
BY SMT DEF States, WaitSet, HeldSet

LEMMA MutatingField ==
  ASSUME NEW r \in States, NEW b \in BOOLEAN
  PROVE  /\ [r EXCEPT !.mutating = b] \in States
         /\ [r EXCEPT !.mutating = b].st = r.st /\ [r EXCEPT !.mutating = b].attempt = r.attempt
BY SMT DEF States, WaitSet, HeldSet

LEMMA HeldWait ==
  ASSUME NEW r \in States, NEW h \in HeldSet, NEW w \in WaitSet
  PROVE  /\ [r EXCEPT !.held = h, !.wait = w] \in States
         /\ [r EXCEPT !.held = h, !.wait = w].st = r.st
         /\ [r EXCEPT !.held = h, !.wait = w].attempt = r.attempt
<1> DEFINE p == [r EXCEPT !.held = h]
<1>1. p \in States /\ p.st = r.st /\ p.attempt = r.attempt
  BY HeldField
<1>2. [r EXCEPT !.held = h, !.wait = w] = [p EXCEPT !.wait = w]
  OBVIOUS
<1> HIDE DEF p
<1>3. [p EXCEPT !.wait = w] \in States /\ [p EXCEPT !.wait = w].st = p.st
      /\ [p EXCEPT !.wait = w].attempt = p.attempt
  BY <1>1, WaitField
<1>4. QED
  BY <1>1, <1>2, <1>3

LEMMA WaitHeld ==
  ASSUME NEW r \in States, NEW w \in WaitSet, NEW h \in HeldSet
  PROVE  /\ [r EXCEPT !.wait = w, !.held = h] \in States
         /\ [r EXCEPT !.wait = w, !.held = h].st = r.st
         /\ [r EXCEPT !.wait = w, !.held = h].attempt = r.attempt
<1> DEFINE p == [r EXCEPT !.wait = w]
<1>1. p \in States /\ p.st = r.st /\ p.attempt = r.attempt
  BY WaitField
<1>2. [r EXCEPT !.wait = w, !.held = h] = [p EXCEPT !.held = h]
  OBVIOUS
<1> HIDE DEF p
<1>3. [p EXCEPT !.held = h] \in States /\ [p EXCEPT !.held = h].st = p.st
      /\ [p EXCEPT !.held = h].attempt = p.attempt
  BY <1>1, HeldField
<1>4. QED
  BY <1>1, <1>2, <1>3

LEMMA StMutating ==
  ASSUME NEW r \in States, NEW s \in {"open", "review", "completed", "blocked"}
  PROVE  /\ [r EXCEPT !.st = s, !.mutating = FALSE] \in States
         /\ [r EXCEPT !.st = s, !.mutating = FALSE].st = s
         /\ [r EXCEPT !.st = s, !.mutating = FALSE].attempt = r.attempt
<1> DEFINE p == [r EXCEPT !.st = s]
<1>1. p \in States /\ p.st = s /\ p.attempt = r.attempt
  BY StField
<1>2. [r EXCEPT !.st = s, !.mutating = FALSE] = [p EXCEPT !.mutating = FALSE]
  OBVIOUS
<1> HIDE DEF p
<1>3. [p EXCEPT !.mutating = FALSE] \in States /\ [p EXCEPT !.mutating = FALSE].st = p.st
      /\ [p EXCEPT !.mutating = FALSE].attempt = p.attempt
  BY <1>1, MutatingField
<1>4. QED
  BY <1>1, <1>2, <1>3

LEMMA AttemptHeld ==
  ASSUME NEW r \in States, NEW a \in {"none", "work", "review"}, NEW h \in HeldSet
  PROVE  /\ [r EXCEPT !.attempt = a, !.held = h] \in States
         /\ [r EXCEPT !.attempt = a, !.held = h].st = r.st
         /\ [r EXCEPT !.attempt = a, !.held = h].attempt = a
<1> DEFINE p == [r EXCEPT !.attempt = a]
<1>1. p \in States /\ p.st = r.st /\ p.attempt = a
  BY AttemptField
<1>2. [r EXCEPT !.attempt = a, !.held = h] = [p EXCEPT !.held = h]
  OBVIOUS
<1> HIDE DEF p
<1>3. [p EXCEPT !.held = h] \in States /\ [p EXCEPT !.held = h].st = p.st
      /\ [p EXCEPT !.held = h].attempt = p.attempt
  BY <1>1, HeldField
<1>4. QED
  BY <1>1, <1>2, <1>3

LEMMA AttemptWait ==
  ASSUME NEW r \in States, NEW a \in {"none", "work", "review"}, NEW w \in WaitSet
  PROVE  /\ [r EXCEPT !.attempt = a, !.wait = w] \in States
         /\ [r EXCEPT !.attempt = a, !.wait = w].st = r.st
         /\ [r EXCEPT !.attempt = a, !.wait = w].attempt = a
<1> DEFINE p == [r EXCEPT !.attempt = a]
<1>1. p \in States /\ p.st = r.st /\ p.attempt = a
  BY AttemptField
<1>2. [r EXCEPT !.attempt = a, !.wait = w] = [p EXCEPT !.wait = w]
  OBVIOUS
<1> HIDE DEF p
<1>3. [p EXCEPT !.wait = w] \in States /\ [p EXCEPT !.wait = w].st = p.st
      /\ [p EXCEPT !.wait = w].attempt = p.attempt
  BY <1>1, WaitField
<1>4. QED
  BY <1>1, <1>2, <1>3

LEMMA AttemptMutating ==
  ASSUME NEW r \in States, NEW a \in {"none", "work", "review"}, NEW b \in BOOLEAN
  PROVE  /\ [r EXCEPT !.attempt = a, !.mutating = b] \in States
         /\ [r EXCEPT !.attempt = a, !.mutating = b].st = r.st
         /\ [r EXCEPT !.attempt = a, !.mutating = b].attempt = a
<1> DEFINE p == [r EXCEPT !.attempt = a]
<1>1. p \in States /\ p.st = r.st /\ p.attempt = a
  BY AttemptField
<1>2. [r EXCEPT !.attempt = a, !.mutating = b] = [p EXCEPT !.mutating = b]
  OBVIOUS
<1> HIDE DEF p
<1>3. [p EXCEPT !.mutating = b] \in States /\ [p EXCEPT !.mutating = b].st = p.st
      /\ [p EXCEPT !.mutating = b].attempt = p.attempt
  BY <1>1, MutatingField
<1>4. QED
  BY <1>1, <1>2, <1>3

LEMMA AttemptSt ==
  ASSUME NEW r \in States, NEW a \in {"none", "work", "review"}, NEW s \in {"open", "review", "completed", "blocked"}
  PROVE  /\ [r EXCEPT !.attempt = a, !.st = s] \in States
         /\ [r EXCEPT !.attempt = a, !.st = s].st = s
         /\ [r EXCEPT !.attempt = a, !.st = s].attempt = a
<1> DEFINE p == [r EXCEPT !.attempt = a]
<1>1. p \in States /\ p.st = r.st /\ p.attempt = a
  BY AttemptField
<1>2. [r EXCEPT !.attempt = a, !.st = s] = [p EXCEPT !.st = s]
  OBVIOUS
<1> HIDE DEF p
<1>3. [p EXCEPT !.st = s] \in States /\ [p EXCEPT !.st = s].st = s
      /\ [p EXCEPT !.st = s].attempt = p.attempt
  BY <1>1, StField
<1>4. QED
  BY <1>1, <1>2, <1>3

LEMMA RequestedFits ==
  ASSUME NEW r \in States, NEW m
  PROVE  /\ Requested(m, r) \in States
         /\ Requested(m, r).st = r.st /\ Requested(m, r).attempt = r.attempt
<1>1. Requested(m, r) = r \/ Requested(m, r) = [r EXCEPT !.asked = TRUE]
  BY Zenon DEF Requested
<1>2. QED
  BY <1>1, AskedField

LEMMA LiftedFits ==
  ASSUME NEW r \in States, NEW g
  PROVE  /\ Lifted(r, g) \in States
         /\ Lifted(r, g).st = r.st /\ Lifted(r, g).attempt = r.attempt
<1>1. r.wait \in WaitSet /\ "none" \in WaitSet
  BY SMT DEF States, WaitSet
<1>2. (IF r.wait = g THEN "none" ELSE r.wait) \in WaitSet
  BY <1>1
<1>3. QED
  BY <1>2, WaitField, Zenon DEF Lifted

LEMMA StopsFit ==
  ASSUME mission \in [Missions -> States], NEW m \in Missions, NEW q \in Stops(m)
  PROVE  q \in States /\ q.st = mission[m].st /\ q.attempt = mission[m].attempt
<1> DEFINE r == mission[m]
<1>1. r \in States /\ r.wait \in WaitSet /\ r.held \in HeldSet
  BY SMT DEF States, WaitSet, HeldSet
<1>2. \/ q = r
      \/ \E w \in WaitSet : q = [r EXCEPT !.wait = w]
      \/ \E g \in Gates : q = AtGate(r, g)
  BY <1>1, SMT DEF Stops, WaitSet
<1>3. \A g \in Gates : g \in WaitSet /\ r.held \cup {g} \in HeldSet
  BY <1>1, SMT DEF WaitSet, HeldSet, Cards
<1>4. ASSUME NEW g \in Gates
      PROVE  LET p == AtGate(r, g) IN p \in States /\ p.st = r.st /\ p.attempt = r.attempt
  <2>1. AtGate(r, g) = [r EXCEPT !.wait = g, !.held = r.held \cup {g}]
    BY <1>1, SMT DEF AtGate, States
  <2>2. QED
    <3>1. g \in WaitSet /\ r.held \cup {g} \in HeldSet
      BY <1>1, <1>3
    <3> HIDE DEF r
    <3>2. LET p == [r EXCEPT !.wait = g, !.held = r.held \cup {g}]
          IN  p \in States /\ p.st = r.st /\ p.attempt = r.attempt
      BY <1>1, <3>1, WaitHeld
    <3>3. QED
      BY <2>1, <3>2
<1>5. ASSUME NEW w \in WaitSet
      PROVE  LET p == [r EXCEPT !.wait = w] IN p \in States /\ p.st = r.st /\ p.attempt = r.attempt
  BY <1>1, WaitField
<1> HIDE DEF r
<1>6. QED
  BY <1>1, <1>2, <1>4, <1>5, Zenon DEF r

LEMMA SetFacts ==
  ASSUME Rest, NEW m \in Missions, NEW q, Fits(m, q), Set(m, q)
  PROVE  mission' \in [Missions -> States] /\ Kept /\ Calm /\ mission'[m] = q
         /\ \A n \in Missions : n # m => mission'[n] = mission[n]
BY SMT DEF Rest, Set, Kept, Calm, Fits

LEMMA SameFacts ==
  ASSUME Rest, mission' = mission
  PROVE  mission' \in [Missions -> States] /\ Kept /\ Calm
BY Zenon DEF Rest, Kept, Calm

(* The rest of the variables that a step leaves alone.                     *)
LEMMA RestStays ==
  ASSUME Rest, mission' \in [Missions -> States],
         UNCHANGED <<line, scan, server, waits, cut, acts, stops>>
  PROVE  Rest'
BY Zenon DEF Rest

-----------------------------------------------------------------------------
(* The steps of a run.                                                     *)

LEMMA EnterStep ==
  ASSUME IInv, NEW j \in Jobs, Enter(j)
  PROVE  IInv'
<1>1. /\ Rest /\ Placed /\ job[j].pc = "call" /\ job[j].m \in Missions /\ job[j] # Idle
      /\ job[j].pc # "running" /\ job[j].pc \in {"call"} \cup Inside
  BY TypeParts, Names, SMT DEF IInv, Placed, Enter, On
<1>2. /\ mission' = mission /\ UNCHANGED <<line, scan, server, waits, cut, acts, stops>>
      /\ Kept /\ Calm /\ Rest'
  BY <1>1, SameFacts, RestStays, Zenon DEF Enter
<1>3. ASSUME Free(job[j].m), active' = active \cup {job[j].m}, Goto(j, "begun")
      PROVE  IInv'
  <2>1. Moved(j) /\ job'[j].pc = "begun" /\ job'[j].m = job[j].m
    BY <1>3, GotoFacts, Names, SMT DEF IInv
  <2>2. Reserved' /\ One'
    BY <1>1, <1>3, <2>1, MoreReserved, SMT DEF Free, Inside
  <2>3. QED
    <3>1. JobMove(j)
      BY <1>1, <1>2, <2>1, <2>2, Zenon DEF JobMove
    <3>2. QED
      BY <3>1, JobStep
<1>4. ASSUME active' = active, Returned(j)
      PROVE  IInv'
  <2>1. /\ Moved(j) /\ job'[j].pc \in {"idle", "after", "holding"}
        /\ job'[j].pc # "idle" => job'[j].m = job[j].m
    BY <1>4, EndFacts DEF IInv
  <2>2. Reserved' /\ One'
    BY <1>1, <1>4, <2>1, SameReserved, SMT DEF Inside
  <2>3. job'[j].pc \notin {"call"} \cup Inside /\ (job'[j].pc # "idle" => job'[j].m \in Missions)
    BY <1>1, <2>1, SMT DEF Inside
  <2>4. QED
    <3>1. JobMove(j)
      BY <1>1, <1>2, <2>1, <2>2, <2>3, Zenon DEF JobMove
    <3>2. QED
      BY <3>1, JobStep
<1>5. QED
  BY <1>3, <1>4, Zenon DEF Enter

(* A run that stays inside. *)
LEMMA InsideStep ==
  ASSUME IInv, NEW j \in Jobs, NEW l \in Inside, job[j].pc \in Inside, Goto(j, l), Kept, Calm,
         mission' \in [Missions -> States],
         job[j].pc = "running" => mission'[job[j].m].attempt # "work",
         UNCHANGED <<line, active, scan, server, waits, cut, acts, stops>>
  PROVE  IInv'
<1>1. /\ Rest /\ Placed /\ job[j].m \in Missions /\ job[j] # Idle
  BY TypeParts, Names, SMT DEF IInv, Placed, Inside
<1>2. Moved(j) /\ job'[j].pc = l /\ job'[j].m = job[j].m
  BY GotoFacts, Names, SMT DEF IInv
<1>3. Reserved' /\ One'
  BY <1>2, SameReserved, SMT
<1>4. Rest'
  BY <1>1, RestStays
<1>5. job'[j].pc # "idle" /\ l # "idle"
  BY <1>2, SMT DEF Inside
<1>6. QED
  <2>1. JobMove(j)
    BY <1>1, <1>2, <1>3, <1>4, <1>5, Zenon DEF JobMove
  <2>2. QED
    BY <2>1, JobStep

LEMMA StartedStep ==
  ASSUME IInv, NEW j \in Jobs, Started(j)
  PROVE  IInv'
<1> DEFINE m == job[j].m
<1>1. /\ Rest /\ job[j].pc = "begun" /\ m \in Missions /\ mission[m] \in States
  BY TypeParts, SMT DEF IInv, Placed, Started, On, Rest
<1>2. Fits(m, [mission[m] EXCEPT !.known = TRUE])
  BY <1>1, KnownField, Zenon DEF Fits
<1>3. mission' = mission \/ Set(m, [mission[m] EXCEPT !.known = TRUE])
  BY Zenon DEF Started
<1>4. mission' \in [Missions -> States] /\ Kept /\ Calm
  BY <1>1, <1>2, <1>3, SetFacts, SameFacts, Zenon
<1>5. PICK l \in Inside : Goto(j, l)
  BY Zenon DEF Started, Inside
<1>6. UNCHANGED <<line, active, scan, server, waits, cut, acts, stops>>
  BY DEF Started
<1>7. job[j].pc \in Inside /\ job[j].pc # "running"
  BY <1>1, SMT DEF Inside
<1>8. QED
  BY <1>4, <1>5, <1>6, <1>7, InsideStep, Zenon

LEMMA PrepareStep ==
  ASSUME IInv, NEW j \in Jobs, Prepare(j)
  PROVE  IInv'
<1> DEFINE m == job[j].m
<1>1. /\ Rest /\ job[j].pc = "preparing" /\ m \in Missions /\ mission[m] \in States
  BY TypeParts, SMT DEF IInv, Placed, Prepare, On, Rest
<1>2. "none" \in WaitSet
  BY DEF WaitSet
<1>3. Fits(m, [mission[m] EXCEPT !.wait = "none"]) /\ Fits(m, mission[m])
  BY <1>1, <1>2, WaitField, Zenon DEF Fits
<1>4. mission' = mission \/ Set(m, mission[m]) \/ Set(m, [mission[m] EXCEPT !.wait = "none"])
  BY Zenon DEF Prepare
<1>5. mission' \in [Missions -> States] /\ Kept /\ Calm
  BY <1>1, <1>3, <1>4, SetFacts, SameFacts, Zenon
<1>6. PICK l \in Inside : Goto(j, l)
  BY Zenon DEF Prepare, Inside
<1>7. UNCHANGED <<line, active, scan, server, waits, cut, acts, stops>>
  BY DEF Prepare
<1>8. job[j].pc \in Inside /\ job[j].pc # "running"
  BY <1>1, SMT DEF Inside
<1>9. QED
  BY <1>5, <1>6, <1>7, <1>8, InsideStep, Zenon

LEMMA EndRunStep ==
  ASSUME IInv, NEW j \in Jobs, EndRun(j)
  PROVE  IInv'
<1> DEFINE m == job[j].m
<1>1. /\ Rest /\ job[j].pc = "running" /\ m \in Missions /\ mission[m] \in States
      /\ mission \in [Missions -> States] /\ mission[m].attempt = "none"
  BY TypeParts, SMT DEF IInv, Placed, EndRun, On, Rest
<1>2. mission' = mission \/ \E q \in Stops(m) : Set(m, q)
  BY Zenon DEF EndRun
<1>3. mission' \in [Missions -> States] /\ Kept /\ Calm /\ mission'[m].attempt # "work"
  <2>1. CASE mission' = mission
    BY <1>1, <2>1, SameFacts, SMT
  <2>2. ASSUME NEW q \in Stops(m), Set(m, q)
        PROVE  mission' \in [Missions -> States] /\ Kept /\ Calm /\ mission'[m].attempt # "work"
    <3>1. q \in States /\ q.st = mission[m].st /\ q.attempt = "none"
      BY <1>1, StopsFit
    <3>2. Fits(m, q)
      BY <1>1, <3>1, SMT DEF Fits
    <3>3. mission' \in [Missions -> States] /\ Kept /\ Calm /\ mission'[m] = q
      BY <1>1, <2>2, <3>2, SetFacts, Zenon
    <3>4. QED
      BY <3>1, <3>3, SMT
  <2>3. QED
    BY <1>2, <2>1, <2>2
<1>4. PICK l \in Inside : Goto(j, l)
  BY Zenon DEF EndRun, Inside
<1>5. UNCHANGED <<line, active, scan, server, waits, cut, acts, stops>>
  BY DEF EndRun
<1>6. job[j].pc \in Inside
  BY <1>1, SMT DEF Inside
<1>7. QED
  BY <1>3, <1>4, <1>5, <1>6, InsideStep, Zenon

LEMMA LeaveStep ==
  ASSUME IInv, NEW j \in Jobs, Leave(j)
  PROVE  IInv'
<1>1. /\ Rest /\ Placed /\ job[j].pc \in {"leaving", "throwing"} /\ job[j].m \in Missions
      /\ job[j] # Idle /\ job[j].pc # "running"
  BY TypeParts, Names, SMT DEF IInv, Placed, Leave
<1>2. /\ mission' = mission /\ UNCHANGED <<line, scan, server, waits, cut, acts, stops>>
      /\ Kept /\ Calm /\ Rest' /\ active' = active \ {job[j].m}
  BY <1>1, SameFacts, RestStays, Zenon DEF Leave, Released
<1>3. /\ Moved(j) /\ job'[j].pc \in {"idle", "after", "holding"}
      /\ job'[j].pc # "idle" => job'[j].m = job[j].m
  BY EndFacts, Zenon DEF IInv, Leave
<1>4. Reserved' /\ One'
  BY <1>1, <1>2, <1>3, LessReserved, SMT DEF Inside
<1>5. job'[j].pc \notin {"call"} \cup Inside /\ (job'[j].pc # "idle" => job'[j].m \in Missions)
  BY <1>1, <1>3, SMT DEF Inside
<1>6. QED
  <2>1. JobMove(j)
    BY <1>1, <1>2, <1>3, <1>4, <1>5, Zenon DEF JobMove
  <2>2. QED
    BY <2>1, JobStep

LEMMA Acting ==
  ASSUME Rest, Act
  PROVE  acts' \in 0..MaxActs
BY BoundAssumption, SMT DEF Rest, Act

(* A call moves, but not into or out of the guard. *)
LEMMA OutsideJob ==
  ASSUME IInv, NEW j \in Jobs, Moved(j), Rest', Kept, Calm, active' = active,
         job[j].pc \notin Inside, job'[j].pc \notin Inside,
         job'[j].pc # "idle" => job'[j].m \in Missions,
         (j = Worker /\ job'[j].pc = "call") => Eligible(job'[j].m),
         job[j] = Idle => server \notin {"draining", "down"} /\ (j \in Callers => server # "failed"),
         scan'.on = TRUE => scan.on = TRUE,
         scan'.look = {} \/ (scan'.look = scan.look /\ (job[j] # Idle \/ j \notin Missions)),
         line' = line, server' = server, waits' = waits
  PROVE  IInv'
<1>1. Reserved' /\ One'
  BY SameReserved, Zenon
<1>2. job[j].pc # "running"
  BY SMT DEF Inside
<1>3. job'[j].pc \in {"call"} \cup Inside => job'[j].pc = "call"
  OBVIOUS
<1>4. JobMove(j)
  BY <1>1, <1>2, <1>3, Zenon DEF JobMove
<1>5. QED
  BY <1>4, JobStep

LEMMA OpenAttemptStep ==
  ASSUME IInv, NEW j \in Jobs, OpenAttempt(j)
  PROVE  IInv'
<1> DEFINE m == job[j].m
           q == [mission[m] EXCEPT !.attempt = "work"]
<1>1. /\ Rest /\ job[j].pc = "running" /\ m \in Missions /\ mission[m] \in States
      /\ mission[m].st = "open"
  BY TypeParts, SMT DEF IInv, Placed, OpenAttempt, On, Rest
<1>2. q \in States
  BY <1>1, AttemptField
<1>3. mission' = [mission EXCEPT ![m] = q]
  BY Zenon DEF OpenAttempt, Set
<1> HIDE DEF q
<1>4. /\ mission' \in [Missions -> States] /\ \A n \in Missions : n # m => mission'[n] = mission[n]
      /\ Kept
  BY <1>1, <1>2, <1>3, SMT DEF Rest, Kept
<1>5. UNCHANGED <<line, job, active, scan, server, waits, cut, acts, stops>>
  BY DEF OpenAttempt
<1>6. Rest'
  BY <1>1, <1>4, <1>5, RestStays
<1>7. \A n \in Missions : mission'[n].attempt = "work" =>
        mission[n].attempt = "work" \/ \E k \in Jobs : job[k].pc = "running" /\ job[k].m = n
  BY <1>1, <1>4, Zenon
<1>8. QED
  BY <1>4, <1>5, <1>6, <1>7, MissionStep, Zenon

(* A Mission is changed, and no Attempt opened. *)
LEMMA MissionSet ==
  ASSUME IInv, NEW m \in Missions, NEW q, Fits(m, q), Set(m, q), acts' \in 0..MaxActs,
         UNCHANGED <<line, job, active, scan, server, waits, cut, stops>>
  PROVE  IInv'
<1>1. Rest
  BY TypeParts DEF IInv
<1>2. mission' \in [Missions -> States] /\ Kept /\ Calm
  BY <1>1, SetFacts, Zenon
<1>3. Rest'
  BY <1>1, <1>2, Zenon DEF Rest
<1>4. QED
  BY <1>2, <1>3, MissionStep, Zenon DEF Calm

LEMMA AskingField ==
  ASSUME NEW r \in States, NEW q, q = [r EXCEPT !.attempt = "none", !.held = @ \cup {"asking"}]
  PROVE  q \in States /\ q.st = r.st /\ q.attempt = "none"
<1> DEFINE p == [r EXCEPT !.attempt = "none"]
<1>1. p \in States /\ p.st = r.st /\ p.attempt = "none"
  BY AttemptField
<1>2. q = [p EXCEPT !.held = @ \cup {"asking"}]
  OBVIOUS
<1> HIDE DEF p
<1>3. p.held \cup {"asking"} \in HeldSet
  BY <1>1, SMT DEF States, HeldSet, Cards
<1>4. /\ [p EXCEPT !.held = p.held \cup {"asking"}] \in States
      /\ [p EXCEPT !.held = p.held \cup {"asking"}].st = p.st
      /\ [p EXCEPT !.held = p.held \cup {"asking"}].attempt = p.attempt
  BY <1>1, <1>3, HeldField
<1>5. QED
  BY <1>1, <1>2, <1>4

LEMMA CloseAttemptStep ==
  ASSUME IInv, NEW j \in Jobs, CloseAttempt(j)
  PROVE  IInv'
<1> DEFINE m == job[j].m
           r == mission[m]
<1>1. /\ Rest /\ m \in Missions /\ r \in States /\ acts \in 0..MaxActs
  BY TypeParts, SMT DEF IInv, Placed, CloseAttempt, On, Rest
<1>2. \E q : /\ Set(m, q)
             /\ \/ q = [r EXCEPT !.attempt = "none"]
                \/ q = [r EXCEPT !.attempt = "none", !.held = @ \cup {"asking"}]
                \/ q = [r EXCEPT !.attempt = "none", !.st = "review"] /\ r.st = "open"
                \/ q = [r EXCEPT !.attempt = "none", !.mutating = TRUE]
  BY SMT DEF CloseAttempt, Set
<1>3. PICK q : /\ Set(m, q)
               /\ \/ q = [r EXCEPT !.attempt = "none"]
                  \/ q = [r EXCEPT !.attempt = "none", !.held = @ \cup {"asking"}]
                  \/ q = [r EXCEPT !.attempt = "none", !.st = "review"] /\ r.st = "open"
                  \/ q = [r EXCEPT !.attempt = "none", !.mutating = TRUE]
  BY <1>2
<1>4. Fits(m, q)
  <2> HIDE DEF r
  <2>1. CASE q = [r EXCEPT !.attempt = "none"]
    <3>1. q \in States /\ q.st = r.st /\ q.attempt = "none"
      BY <1>1, <2>1, AttemptField
    <3>2. QED
      BY <3>1, SMT DEF Fits, r
  <2>2. CASE q = [r EXCEPT !.attempt = "none", !.held = @ \cup {"asking"}]
    <3>1. q \in States /\ q.st = r.st /\ q.attempt = "none"
      BY <1>1, <2>2, AskingField
    <3>2. QED
      BY <3>1, SMT DEF Fits, r
  <2>3. CASE q = [r EXCEPT !.attempt = "none", !.st = "review"] /\ r.st = "open"
    <3>1. q \in States /\ q.st = "review" /\ q.attempt = "none"
      BY <1>1, <2>3, AttemptSt
    <3>2. QED
      BY <2>3, <3>1, SMT DEF Fits, r
  <2>4. CASE q = [r EXCEPT !.attempt = "none", !.mutating = TRUE]
    <3>1. q \in States /\ q.st = r.st /\ q.attempt = "none"
      BY <1>1, <2>4, AttemptMutating
    <3>2. QED
      BY <3>1, SMT DEF Fits, r
  <2>5. QED
    BY <1>3, <2>1, <2>2, <2>3, <2>4
<1>5. UNCHANGED <<line, job, active, scan, server, waits, cut, acts, stops>>
  BY DEF CloseAttempt
<1>6. QED
  BY <1>1, <1>3, <1>4, <1>5, MissionSet, Zenon

LEMMA OpenReviewStep ==
  ASSUME IInv, NEW j \in Jobs, OpenReview(j)
  PROVE  IInv'
<1> DEFINE m == job[j].m
<1>1. /\ Rest /\ m \in Missions /\ mission[m] \in States /\ acts \in 0..MaxActs
  BY TypeParts, SMT DEF IInv, Placed, OpenReview, On, Rest
<1>2. Fits(m, [mission[m] EXCEPT !.attempt = "review", !.wait = "l3"])
  <2>1. "l3" \in WaitSet
    BY DEF WaitSet
  <2>2. QED
    <3>1. "review" \in {"none", "work", "review"}
      OBVIOUS
    <3>2. /\ [mission[m] EXCEPT !.attempt = "review", !.wait = "l3"] \in States
          /\ [mission[m] EXCEPT !.attempt = "review", !.wait = "l3"].st = mission[m].st
          /\ [mission[m] EXCEPT !.attempt = "review", !.wait = "l3"].attempt = "review"
      BY <1>1, <2>1, <3>1, AttemptWait, Zenon
    <3>3. QED
      BY <3>2, SMT DEF Fits
<1>3. /\ Set(m, [mission[m] EXCEPT !.attempt = "review", !.wait = "l3"])
      /\ UNCHANGED <<line, job, active, scan, server, waits, cut, acts, stops>>
  BY Zenon DEF OpenReview
<1>4. QED
  BY <1>1, <1>2, <1>3, MissionSet, Zenon

LEMMA RipenStep ==
  ASSUME IInv, NEW m \in Missions, Ripen(m)
  PROVE  IInv'
<1>1. Rest /\ mission[m] \in States /\ acts \in 0..MaxActs
  BY TypeParts, SMT DEF IInv, Rest
<1>2. Fits(m, [mission[m] EXCEPT !.wait = "ripe"])
  <2>1. "ripe" \in WaitSet
    BY DEF WaitSet
  <2>2. QED
    BY <1>1, <2>1, WaitField, SMT DEF Fits
<1>3. /\ Set(m, [mission[m] EXCEPT !.wait = "ripe"])
      /\ UNCHANGED <<line, job, active, scan, server, waits, cut, acts, stops>>
  BY Zenon DEF Ripen
<1>4. QED
  BY <1>1, <1>2, <1>3, MissionSet, Zenon

-----------------------------------------------------------------------------
(* Acts of L3.                                                             *)

Put(r, h, w) == [r EXCEPT !.held = h, !.wait = w]

LEMMA HeldChange ==
  ASSUME NEW r \in States, NEW h \in HeldSet, NEW w \in WaitSet
  PROVE  Put(r, h, w) \in States /\ Put(r, h, w).st = r.st /\ Put(r, h, w).attempt = r.attempt
BY HeldWait DEF Put

(* An act that keeps the Attempt, and the status of a Mission that ended.  *)
LEMMA ActStep ==
  ASSUME IInv, NEW m \in Missions, NEW q, L3(m, q), acts' \in 0..MaxActs, UNCHANGED line,
         q \in States, q.attempt = mission[m].attempt,
         mission[m].st = "completed" => q.st = "completed"
  PROVE  IInv'
<1>1. Fits(m, q)
  BY Zenon DEF Fits
<1>2. Set(m, q) /\ UNCHANGED <<line, job, active, scan, server, waits, cut, stops>>
  BY DEF L3
<1>3. QED
  BY <1>1, <1>2, MissionSet

LEMMA PauseStep ==
  ASSUME IInv, NEW m \in Missions, acts' \in 0..MaxActs, UNCHANGED line, Pause(m)
  PROVE  IInv'
<1> DEFINE r == mission[m]
           h == r.held \cup {"paused"}
           q == [r EXCEPT !.held = h]
<1>1. r \in States /\ h \in HeldSet
  BY TypeParts, SMT DEF IInv, Rest, States, HeldSet
<1>2. L3(m, q)
  BY Zenon DEF Pause
<1>3. q \in States /\ q.st = r.st /\ q.attempt = r.attempt
  BY <1>1, HeldField
<1> HIDE DEF q
<1>4. QED
  BY <1>2, <1>3, ActStep

LEMMA ResumeStep ==
  ASSUME IInv, NEW m \in Missions, acts' \in 0..MaxActs, UNCHANGED line, Resume(m)
  PROVE  IInv'
<1> DEFINE r == mission[m]
           h == r.held \ {"paused"}
           w == IF r.wait = "hold" THEN "none" ELSE r.wait
<1>1. r \in States /\ h \in HeldSet /\ w \in WaitSet
  BY TypeParts, SMT DEF IInv, Rest, States, HeldSet, WaitSet
<1>2. L3(m, Put(r, h, w))
  BY DEF Resume, Put
<1>3. Put(r, h, w) \in States /\ Put(r, h, w).st = r.st /\ Put(r, h, w).attempt = r.attempt
  BY <1>1, HeldChange
<1>4. QED
  BY <1>2, <1>3, ActStep

LEMMA AnswerStep ==
  ASSUME IInv, NEW m \in Missions, acts' \in 0..MaxActs, UNCHANGED line, Answer(m)
  PROVE  IInv'
<1> DEFINE r == mission[m]
<1>1. PICK c \in r.held \cap Cards :
        \E w \in {r.wait} \cup (IF r.wait = c THEN {"none"} ELSE {}) :
          L3(m, Requested(m, [r EXCEPT !.held = @ \ {c}, !.wait = w]))
  BY Zenon DEF Answer
<1>2. PICK w \in {r.wait} \cup (IF r.wait = c THEN {"none"} ELSE {}) :
        L3(m, Requested(m, [r EXCEPT !.held = @ \ {c}, !.wait = w]))
  BY <1>1
<1> DEFINE h == r.held \ {c}
<1>3. L3(m, Requested(m, Put(r, h, w)))
  BY <1>2 DEF Put
<1>4. r \in States /\ h \in HeldSet /\ w \in WaitSet
  BY TypeParts, SMT DEF IInv, Rest, States, HeldSet, WaitSet
<1>5. Put(r, h, w) \in States /\ Put(r, h, w).st = r.st /\ Put(r, h, w).attempt = r.attempt
  BY <1>4, HeldChange
<1>6. /\ Requested(m, Put(r, h, w)) \in States
      /\ Requested(m, Put(r, h, w)).st = r.st /\ Requested(m, Put(r, h, w)).attempt = r.attempt
  BY <1>5, RequestedFits
<1>7. QED
  BY <1>3, <1>6, ActStep

LEMMA ReviseStep ==
  ASSUME IInv, NEW m \in Missions, acts' \in 0..MaxActs, UNCHANGED line, Revise(m)
  PROVE  IInv'
<1> DEFINE r == mission[m]
           p == [r EXCEPT !.st = "open"]
<1>1. r \in States
  BY TypeParts, SMT DEF IInv, Rest
<1>2. r.st # "completed" /\ L3(m, Requested(m, p))
  BY Zenon DEF Revise, Terminal
<1>3. p \in States /\ p.attempt = r.attempt
  BY <1>1, StField
<1> HIDE DEF p
<1>4. Requested(m, p) \in States /\ Requested(m, p).attempt = r.attempt
  BY <1>3, RequestedFits
<1>5. QED
  BY <1>2, <1>4, ActStep

LEMMA RaiseStep ==
  ASSUME IInv, NEW m \in Missions, acts' \in 0..MaxActs, UNCHANGED line, Raise(m)
  PROVE  IInv'
<1> DEFINE r == Requested(m, Lifted(mission[m], "cap"))
           h == r.held \ {"cap"}
           q == [r EXCEPT !.held = h]
<1>1. mission[m] \in States
  BY TypeParts, SMT DEF IInv, Rest
<1>2. r \in States /\ r.st = mission[m].st /\ r.attempt = mission[m].attempt
  BY <1>1, LiftedFits, RequestedFits
<1>3. L3(m, r) \/ L3(m, q)
  BY Zenon DEF Raise
<1> HIDE DEF r
<1>4. q \in States /\ q.st = r.st /\ q.attempt = r.attempt
  <2>1. h \in HeldSet
    BY <1>2, SMT DEF States, HeldSet
  <2> HIDE DEF h
  <2>2. QED
    BY <1>2, <2>1, HeldField
<1> HIDE DEF q
<1>5. QED
  BY <1>2, <1>3, <1>4, ActStep

LEMMA ApproveStep ==
  ASSUME IInv, NEW m \in Missions, acts' \in 0..MaxActs, UNCHANGED line, Approve(m)
  PROVE  IInv'
<1> DEFINE r == Requested(m, Lifted(mission[m], "point"))
<1>1. mission[m] \in States
  BY TypeParts, SMT DEF IInv, Rest
<1>2. r \in States /\ r.st = mission[m].st /\ r.attempt = mission[m].attempt
  BY <1>1, LiftedFits, RequestedFits
<1>3. L3(m, r)
  BY Zenon DEF Approve
<1>4. QED
  BY <1>2, <1>3, ActStep

LEMMA EndsFits ==
  ASSUME NEW r \in States, NEW s \in {"completed", "blocked"}
  PROVE  Ends(r, s) \in States /\ Ends(r, s).st = s /\ Ends(r, s).attempt = r.attempt
<1>1. s \in {"open", "review", "completed", "blocked"}
  OBVIOUS
<1>2. Ends(r, s) = [r EXCEPT !.st = s, !.mutating = FALSE]
  BY DEF Ends
<1>3. LET p == [r EXCEPT !.st = s, !.mutating = FALSE]
      IN  p \in States /\ p.st = s /\ p.attempt = r.attempt
  BY <1>1, StMutating
<1>4. QED
  BY <1>2, <1>3

LEMMA JudgeStep ==
  ASSUME IInv, NEW m \in Missions, acts' \in 0..MaxActs, UNCHANGED line, Judge(m)
  PROVE  IInv'
<1> DEFINE r == mission[m]
           q == Ends(r, "completed")
           p == [r EXCEPT !.st = "open"]
<1>1. r \in States
  BY TypeParts, SMT DEF IInv, Rest
<1>2. r.st = "review" /\ (L3(m, q) \/ L3(m, p))
  BY Zenon DEF Judge
<1>3. q \in States /\ q.st = "completed" /\ q.attempt = r.attempt
  BY <1>1, EndsFits
<1>4. p \in States /\ p.attempt = r.attempt
  BY <1>1, StField
<1>5. r.st # "completed"
  BY <1>2
<1> HIDE DEF p, q
<1>6. QED
  BY <1>2, <1>3, <1>4, <1>5, ActStep

LEMMA CancelStep ==
  ASSUME IInv, NEW m \in Missions, acts' \in 0..MaxActs, UNCHANGED line, Cancel(m)
  PROVE  IInv'
<1> DEFINE r == mission[m]
           p == Ends(r, "blocked")
           q == [p EXCEPT !.wait = "manual"]
<1>1. r \in States
  BY TypeParts, SMT DEF IInv, Rest
<1>2. r.st # "completed" /\ L3(m, q)
  BY Zenon DEF Cancel, Terminal
<1>3. p \in States /\ p.attempt = r.attempt
  BY <1>1, EndsFits
<1> HIDE DEF p
<1>4. q \in States /\ q.attempt = p.attempt
  <2>1. "manual" \in WaitSet
    BY DEF WaitSet
  <2>2. QED
    BY <1>3, <2>1, WaitField
<1> HIDE DEF q
<1>5. QED
  BY <1>2, <1>3, <1>4, ActStep

LEMMA ActOfL3Step ==
  ASSUME IInv, NEW m \in Missions, ActOfL3(m)
  PROVE  IInv'
<1>1. acts' \in 0..MaxActs /\ UNCHANGED line
  BY TypeParts, Acting DEF IInv, ActOfL3
<1>2. QED
  BY <1>1, PauseStep, ResumeStep, AnswerStep, ReviseStep, RaiseStep, ApproveStep, JudgeStep,
     CancelStep, Zenon DEF ActOfL3

LEMMA EnqueueStep ==
  ASSUME IInv, NEW m \in Missions, Enqueue(m)
  PROVE  IInv'
<1>1. /\ UNCHANGED <<mission, job, active, scan, server, waits, cut, stops>>
      /\ line' = Append(line, m) /\ ~Queued(m) /\ acts' \in 0..MaxActs
      /\ Rest /\ line \in Seq(Missions)
  BY TypeParts, Acting DEF IInv, Enqueue, Rest
<1>2. Rest'
  <2>1. line' \in Seq(Missions)
    BY <1>1, SMT
  <2>2. QED
    BY <1>1, <2>1, Zenon DEF Rest
<1>3. TypeOK' /\ One'
  BY <1>1, <1>2, Frame, TypeParts
<1>4. Working' /\ Quiet'
  BY <1>1, Zenon DEF IInv, Working, Dead, Quiet, Waking, Drained
<1>5. Turn'
  <2> SUFFICES ASSUME job[Worker].pc \in {"call"} \cup Inside
               PROVE  /\ Queued(job[Worker].m)'
                      /\ \A n \in Earlier(job[Worker].m)' \cup DependsOn[job[Worker].m] :
                           mission[n].st = "completed"
    BY <1>1, Zenon DEF Turn
  <2>1. /\ Queued(job[Worker].m)
        /\ \A n \in Earlier(job[Worker].m) \cup DependsOn[job[Worker].m] :
             mission[n].st = "completed"
    BY Zenon DEF IInv, Turn
  <2>2. /\ Len(line') = Len(line) + 1 /\ line'[Len(line) + 1] = m
        /\ \A i \in 1..Len(line) : line'[i] = line[i] /\ i \in 1..Len(line')
    BY <1>1, SMT
  <2>3. PICK i \in 1..Len(line) : line[i] = job[Worker].m
    BY <2>1 DEF Queued, Contains
  <2>4. job'[Worker] = job[Worker]
    BY <1>1
  <2>5. Queued(job[Worker].m)'
    BY <2>2, <2>3, <2>4, SMT DEF Queued, Contains
  <2>6. job[Worker].m # m
    BY <1>1, <2>1
  <2>7. Earlier(job[Worker].m)' \subseteq Earlier(job[Worker].m)
    BY <1>1, <2>2, <2>4, <2>6, SMT DEF Earlier
  <2>8. QED
    BY <2>1, <2>5, <2>7
<1>6. QED
  BY <1>3, <1>4, <1>5 DEF IInv

-----------------------------------------------------------------------------
(* Callers, the queue worker and the resumption.                           *)

LEMMA AcceptStep ==
  ASSUME IInv, NEW j \in Callers, NEW m \in Called, Accept(j, m)
  PROVE  IInv'
<1>1. /\ Rest /\ j \in Jobs /\ m \in Missions /\ j # Worker /\ j \notin Missions /\ job[j].pc = "idle" /\ server = "up"
      /\ acts' \in 0..MaxActs
  BY TypeParts, Acting, Places, ModeAssumption, SMT DEF IInv, Accept, On
<1>2. /\ UNCHANGED <<mission, line, active, scan, server, waits, cut, stops>>
      /\ job' = [job EXCEPT ![j] = At("call", m)]
  BY DEF Accept
<1>3. Moved(j) /\ job'[j].pc = "call" /\ job'[j].m = m
  BY <1>1, <1>2, AtFacts, Names, Zenon DEF IInv
<1>4. mission' \in [Missions -> States] /\ Kept /\ Calm
  BY <1>1, <1>2, SameFacts
<1>5. Rest'
  BY <1>1, <1>2, Zenon DEF Rest
<1>6. job[j].pc \notin Inside /\ job'[j].pc \notin Inside /\ server \notin {"draining", "down", "failed"}
  BY <1>1, <1>3, SMT DEF Inside
<1>7. QED
  BY <1>1, <1>2, <1>3, <1>4, <1>5, <1>6, OutsideJob, Zenon

LEMMA PickStep ==
  ASSUME IInv, NEW m \in Missions, Pick(m)
  PROVE  IInv'
<1>1. /\ Rest /\ Worker \in Jobs /\ Worker \notin Missions /\ job[Worker].pc = "idle"
      /\ server = "up"
  BY TypeParts, Places, SMT DEF IInv, Pick, On
<1>2. /\ UNCHANGED <<mission, line, active, scan, server, waits, cut, acts, stops>>
      /\ job' = [job EXCEPT ![Worker] = At("picked", m)]
  BY DEF Pick
<1>3. Moved(Worker) /\ job'[Worker].pc = "picked" /\ job'[Worker].m = m
  BY <1>1, <1>2, AtFacts, Names, Zenon DEF IInv
<1>4. mission' \in [Missions -> States] /\ Kept /\ Calm
  BY <1>1, <1>2, SameFacts
<1>5. Rest'
  BY <1>1, <1>2, <1>4, RestStays
<1>6. /\ job[Worker].pc \notin Inside /\ job'[Worker].pc \notin Inside \cup {"call"}
      /\ server \notin {"draining", "down", "failed"}
  BY <1>1, <1>3, SMT DEF Inside
<1>7. QED
  BY <1>1, <1>2, <1>3, <1>4, <1>5, <1>6, OutsideJob, Zenon

(* A call that is outside, but not idle, moves on outside. *)
LEMMA OutsideMove ==
  ASSUME IInv, NEW j \in Jobs, job[j].pc \in {"picked", "record", "after", "holding"},
         \/ Back(j)
         \/ Goto(j, "holding")
         \/ Goto(j, "call") /\ (j = Worker => Eligible(job[j].m)),
         mission' \in [Missions -> States], Kept, Calm,
         UNCHANGED <<line, active, scan, server, waits, cut, acts, stops>>
  PROVE  IInv'
<1>1. /\ Rest /\ job[j].m \in Missions /\ job[j] # Idle
  BY TypeParts, Names, SMT DEF IInv, Placed
<1>2. Rest'
  BY <1>1, RestStays
<1>3. Moved(j) /\ job'[j].pc \in {"idle", "holding", "call"}
      /\ (job'[j].pc # "idle" => job'[j].m = job[j].m)
      /\ (job'[j].pc = "call" /\ j = Worker => Eligible(job[j].m))
  <2>1. CASE Back(j)
    BY <2>1, BackFacts, SMT DEF IInv
  <2>2. CASE Goto(j, "holding")
    BY <2>2, GotoFacts, Names, SMT DEF IInv
  <2>3. CASE Goto(j, "call") /\ (j = Worker => Eligible(job[j].m))
    BY <2>3, GotoFacts, Names, SMT DEF IInv
  <2>4. QED
    BY <2>1, <2>2, <2>3, Zenon
<1>4. job[j].pc \notin Inside /\ job'[j].pc \notin Inside
  BY <1>3, SMT DEF Inside
<1>5. job'[j].pc = "call" => job'[j].m = job[j].m
  BY <1>3, SMT
<1>6. (j = Worker /\ job'[j].pc = "call") => Eligible(job'[j].m)
  BY <1>3, <1>5, Zenon
<1>7. line' = line /\ server' = server /\ waits' = waits /\ active' = active /\ scan' = scan
  OBVIOUS
<1>8. QED
  BY <1>1, <1>2, <1>3, <1>4, <1>6, <1>7, OutsideJob, Zenon

LEMMA RecordStartStep ==
  ASSUME IInv, RecordStart
  PROVE  IInv'
<1>1. Rest /\ Worker \in Jobs /\ job[Worker].pc \in {"picked", "record", "after", "holding"}
  BY TypeParts, Places, SMT DEF IInv, RecordStart, On
<1>2. UNCHANGED <<mission, line, active, scan, server, waits, cut, acts, stops>>
  BY DEF RecordStart
<1>3. mission' \in [Missions -> States] /\ Kept /\ Calm
  BY <1>1, <1>2, SameFacts
<1>4. \/ Back(Worker) \/ Goto(Worker, "holding")
      \/ Goto(Worker, "call") /\ Eligible(job[Worker].m)
  BY Zenon DEF RecordStart
<1>5. QED
  BY <1>1, <1>2, <1>3, <1>4, OutsideMove, Zenon

LEMMA AfterStep ==
  ASSUME IInv, After
  PROVE  IInv'
<1> DEFINE m == job[Worker].m
           r == mission[m]
<1>1. /\ Rest /\ Worker \in Jobs /\ job[Worker].pc \in {"picked", "record", "after", "holding"}
      /\ m \in Missions /\ r \in States
  BY TypeParts, Places, SMT DEF IInv, After, On, Placed, Rest
<1>2. UNCHANGED <<line, active, scan, server, waits, cut, acts, stops>>
  BY DEF After
<1>3. Back(Worker) \/ Goto(Worker, "holding")
  BY Zenon DEF After
<1>4. mission' = mission \/ Set(m, Ends(r, "completed")) \/ Set(m, [r EXCEPT !.wait = "l3"])
  BY Zenon DEF After
<1>5. Fits(m, Ends(r, "completed"))
  BY <1>1, EndsFits, SMT DEF Fits
<1>6. Fits(m, [r EXCEPT !.wait = "l3"])
  <2>1. "l3" \in WaitSet
    BY DEF WaitSet
  <2>2. QED
    BY <1>1, <2>1, WaitField, SMT DEF Fits
<1>7. mission' \in [Missions -> States] /\ Kept /\ Calm
  BY <1>1, <1>4, <1>5, <1>6, SetFacts, SameFacts, Zenon
<1>8. QED
  BY <1>1, <1>2, <1>3, <1>7, OutsideMove, Zenon

LEMMA HoldStep ==
  ASSUME IInv, Hold
  PROVE  IInv'
<1> DEFINE m == job[Worker].m
           r == mission[m]
           h == r.held \cup {"paused"}
<1>1. /\ Rest /\ Worker \in Jobs /\ job[Worker].pc \in {"picked", "record", "after", "holding"}
      /\ m \in Missions /\ r \in States
  BY TypeParts, Places, SMT DEF IInv, Hold, On, Placed, Rest
<1>2. UNCHANGED <<line, active, scan, server, waits, cut, acts, stops>> /\ Back(Worker)
  BY DEF Hold
<1>3. Set(m, r) \/ Set(m, Put(r, h, "hold"))
  BY DEF Hold, Put
<1>4. h \in HeldSet /\ "hold" \in WaitSet
  BY <1>1, SMT DEF States, HeldSet, WaitSet
<1>5. Put(r, h, "hold") \in States /\ Put(r, h, "hold").st = r.st /\ Put(r, h, "hold").attempt = r.attempt
  BY <1>1, <1>4, HeldChange
<1>6. Fits(m, r) /\ Fits(m, Put(r, h, "hold"))
  BY <1>1, <1>5, SMT DEF Fits
<1>7. mission' \in [Missions -> States] /\ Kept /\ Calm
  BY <1>1, <1>3, <1>6, SetFacts, Zenon
<1>8. QED
  BY <1>1, <1>2, <1>7, OutsideMove, Zenon

(* The tick of the resumption: nothing but scan changes. *)
LEMMA ScanStays ==
  ASSUME IInv, scan' \in [on: BOOLEAN, due: SUBSET Missions, look: SUBSET Missions],
         scan'.on = TRUE => server = "up" \/ scan.on = TRUE,
         \A m \in Missions : m \in scan'.look => m \in scan.look \/ job[m] = Idle,
         UNCHANGED <<mission, line, job, active, server, waits, cut, acts, stops>>
  PROVE  IInv'
<1>1. Rest
  BY TypeParts DEF IInv
<1>2. Rest'
  BY <1>1, Zenon DEF Rest
<1>3. TypeOK' /\ One'
  BY <1>2, Frame, TypeParts
<1>4. Working'
  BY Zenon DEF IInv, Working, Dead
<1>5. Quiet'
  <2>1. scan'.on \in BOOLEAN /\ (server \in {"draining", "down"} => server # "up")
    BY SMT
  <2>2. server \in {"draining", "down"} => ~scan.on
    BY Zenon DEF IInv, Quiet
  <2>3. server \in {"draining", "down"} => ~scan'.on
    BY <2>1, <2>2, Zenon
  <2>4. QED
    BY <2>3, Zenon DEF IInv, Quiet, Waking, Drained
<1>6. Turn'
  <2>1. job'[Worker] = job[Worker] /\ UNCHANGED line /\ Kept
    BY <1>1, SameFacts
  <2>2. QED
    BY <2>1, OldTurn
<1>7. QED
  BY <1>3, <1>4, <1>5, <1>6 DEF IInv

LEMMA ScanFields ==
  ASSUME scan \in [on: BOOLEAN, due: SUBSET Missions, look: SUBSET Missions],
         NEW d \in SUBSET Missions, NEW l \in SUBSET Missions,
         scan' = [scan EXCEPT !.due = d, !.look = l]
  PROVE  /\ scan' \in [on: BOOLEAN, due: SUBSET Missions, look: SUBSET Missions]
         /\ scan'.on = scan.on /\ scan'.look = l
<1>1. scan' \in [on: BOOLEAN, due: SUBSET Missions, look: SUBSET Missions]
  BY Zenon
<1>2. scan'.on = scan.on /\ scan'.look = l
  BY Zenon
<1>3. QED
  BY <1>1, <1>2

LEMMA ScanSteps ==
  ASSUME IInv, Scan \/ EndScan \/ LookFails \/ \E m \in Missions : Look(m)
  PROVE  IInv'
<1>1. Rest /\ scan \in [on: BOOLEAN, due: SUBSET Missions, look: SUBSET Missions]
  BY TypeParts DEF IInv, Rest
<1>2. CASE Scan
  <2>1. scan' = [on |-> TRUE, due |-> {m \in Missions : Due(m)}, look |-> {}] /\ server = "up"
    BY <1>2 DEF Scan
  <2>2. scan' \in [on: BOOLEAN, due: SUBSET Missions, look: SUBSET Missions] /\ scan'.look = {}
    BY <2>1, SMT
  <2>3. QED
    BY <1>2, <2>1, <2>2, ScanStays, Zenon DEF Scan
<1>3. CASE EndScan \/ LookFails
  <2>1. scan' = NoScan
    BY <1>3 DEF EndScan, LookFails
  <2>2. scan' \in [on: BOOLEAN, due: SUBSET Missions, look: SUBSET Missions] /\ scan'.on = FALSE
        /\ scan'.look = {}
    BY <2>1, SMT DEF NoScan
  <2>3. scan'.on # TRUE
    BY <2>2
  <2>4. QED
    BY <1>3, <2>2, <2>3, ScanStays, Zenon DEF EndScan, LookFails
<1>4. ASSUME NEW m \in Missions, Look(m)
      PROVE  IInv'
  <2> DEFINE l == IF job[m] # Idle \/ m \in RunningNow THEN {} ELSE {m}
             d == scan.due \ {m}
  <2>1. scan' = [scan EXCEPT !.due = d, !.look = l]
    BY <1>4 DEF Look
  <2>2. d \in SUBSET Missions /\ l \in SUBSET Missions /\ (m \in l => job[m] = Idle)
    BY <1>1
  <2>3. \A n \in l : job[n] = Idle
    BY <2>2
  <2> HIDE DEF l, d
  <2>4. /\ scan' \in [on: BOOLEAN, due: SUBSET Missions, look: SUBSET Missions]
        /\ scan'.on = scan.on /\ scan'.look = l
    BY <1>1, <2>1, <2>2, ScanFields, Zenon
  <2>5. QED
    BY <1>4, <2>3, <2>4, ScanStays, Zenon DEF Look
<1>5. QED
  BY <1>2, <1>3, <1>4

LEMMA LaunchStep ==
  ASSUME IInv, NEW m \in Missions, Launch(m)
  PROVE  IInv'
<1>1. Rest /\ m \in Jobs /\ m # Worker
      /\ scan \in [on: BOOLEAN, due: SUBSET Missions, look: SUBSET Missions]
  BY TypeParts, Places DEF IInv, Rest
<1>2. /\ scan' = [scan EXCEPT !.look = {}] /\ scan.on
      /\ UNCHANGED <<mission, line, active, server, waits, cut, acts, stops>>
  BY DEF Launch
<1>3. scan' \in [on: BOOLEAN, due: SUBSET Missions, look: SUBSET Missions] /\ scan'.on = scan.on
      /\ scan'.look = {}
  <2>1. scan' \in [on: BOOLEAN, due: SUBSET Missions, look: SUBSET Missions]
    BY <1>1, <1>2, Zenon
  <2>2. scan'.on = scan.on /\ scan'.look = {}
    BY <1>1, <1>2, Zenon
  <2>3. QED
    BY <2>1, <2>2
<1>4. CASE job' = job
  BY <1>2, <1>3, <1>4, ScanStays, Zenon
<1>5. CASE job' = [job EXCEPT ![m] = At("record", m)]
  <2>1. Moved(m) /\ job'[m].pc = "record" /\ job'[m].m = m
    BY <1>1, <1>5, AtFacts, Names, Zenon DEF IInv
  <2>2. mission' \in [Missions -> States] /\ Kept /\ Calm
    BY <1>1, <1>2, SameFacts
  <2>3. Rest'
    BY <1>1, <1>2, <1>3, Zenon DEF Rest
  <2>4. server \notin {"draining", "down"} /\ m \notin Callers
    BY <1>2, Places, Zenon DEF IInv, Quiet
  <2>5. job'[m].pc \notin Inside
    BY <2>1, SMT DEF Inside
  <2>6. job[m].pc \notin Inside
    <3>1. m \in scan.look
      BY DEF Launch
    <3>2. job[m] = Idle
      BY <3>1, Zenon DEF IInv, Quiet
    <3>3. QED
      BY <3>2, Names, SMT DEF Inside
  <2>7. QED
    BY <1>1, <1>2, <1>3, <2>1, <2>2, <2>3, <2>4, <2>5, <2>6, OutsideJob, Zenon
<1>6. QED
  BY <1>4, <1>5, Zenon DEF Launch

LEMMA ResumesStep ==
  ASSUME IInv, NEW m \in Missions, Resumes(m)
  PROVE  IInv'
<1>1. /\ Rest /\ m \in Jobs /\ m # Worker /\ mission[m] \in States
      /\ job[m].pc \in {"picked", "record", "after", "holding"}
  BY TypeParts, Places, SMT DEF IInv, Resumes, Record, RecordFails, On, Rest
<1>2. UNCHANGED <<line, active, scan, server, waits, cut, acts, stops>>
  BY DEF Resumes, Record, RecordFails
<1>3. mission' = mission \/ Set(m, [mission[m] EXCEPT !.asked = FALSE])
  BY Zenon DEF Resumes, Record, RecordFails
<1>4. Fits(m, [mission[m] EXCEPT !.asked = FALSE])
  <2>1. FALSE \in BOOLEAN
    OBVIOUS
  <2>2. QED
    BY <1>1, <2>1, AskedField, Zenon DEF Fits
<1>5. mission' \in [Missions -> States] /\ Kept /\ Calm
  BY <1>1, <1>3, <1>4, SetFacts, SameFacts, Zenon
<1>6. Back(m) \/ Goto(m, "call")
  BY Zenon DEF Resumes, Record, RecordFails
<1>7. QED
  BY <1>1, <1>2, <1>5, <1>6, OutsideMove, Zenon

-----------------------------------------------------------------------------
(* Close, death and the next start.                                        *)

LEMMA Stopping ==
  ASSUME Rest, Stop
  PROVE  stops' \in 0..MaxStops
BY BoundAssumption, SMT DEF Rest, Stop

LEMMA CloseStep ==
  ASSUME IInv, Close
  PROVE  IInv'
<1>1. /\ Rest /\ server' = "closing" /\ stops' \in 0..MaxStops /\ ~Dead
      /\ UNCHANGED <<mission, line, job, active, scan, waits, cut, acts>>
  BY TypeParts, Stopping DEF IInv, Close, Dead
<1>2. Rest'
  <2>1. server' \in Servers
    BY <1>1 DEF Servers
  <2>2. QED
    BY <1>1, <2>1, Zenon DEF Rest
<1>3. TypeOK' /\ One'
  BY <1>1, <1>2, Frame, TypeParts
<1>4. Working'
  BY <1>1, Zenon DEF IInv, Working
<1>5. Quiet'
  <2>1. server' \notin {"draining", "down", "failed"} /\ server' # "draining" /\ server' # "down"
        /\ server' # "failed"
    BY <1>1
  <2>2. QED
    BY <1>1, <2>1, Zenon DEF IInv, Quiet
<1>6. Turn'
  <2>1. job'[Worker] = job[Worker] /\ UNCHANGED line /\ Kept
    BY <1>1, SameFacts
  <2>2. QED
    BY <2>1, OldTurn
<1>7. QED
  BY <1>3, <1>4, <1>5, <1>6 DEF IInv

LEMMA AwaitTickStep ==
  ASSUME IInv, AwaitTick
  PROVE  IInv'
<1>1. /\ Rest /\ server = "closing" /\ server' = "draining" /\ ~scan.on /\ waits' = Waking
      /\ UNCHANGED <<mission, line, job, active, scan, cut, acts, stops>>
  BY TypeParts, Zenon DEF IInv, AwaitTick, TickDone
<1>2. Rest'
  <2>1. server' \in Servers /\ waits' \subseteq Missions
    BY <1>1 DEF Waking, Servers
  <2>2. QED
    BY <1>1, <2>1, Zenon DEF Rest
<1>3. TypeOK' /\ One'
  BY <1>1, <1>2, Frame, TypeParts
<1>4. Working'
  <2>1. ~Dead
    BY <1>1 DEF Dead
  <2>2. QED
    BY <1>1, <2>1, Zenon DEF IInv, Working
<1>5. Quiet'
  <2>1. server' \notin {"down", "failed"} /\ server' # "down" /\ Waking' = Waking
    BY <1>1 DEF Waking
  <2>2. QED
    BY <1>1, <2>1, Zenon DEF IInv, Quiet
<1>6. Turn'
  <2>1. job'[Worker] = job[Worker] /\ UNCHANGED line /\ Kept
    BY <1>1, SameFacts
  <2>2. QED
    BY <2>1, OldTurn
<1>7. QED
  BY <1>3, <1>4, <1>5, <1>6 DEF IInv

LEMMA ClosedStep ==
  ASSUME IInv, Closed
  PROVE  IInv'
<1>1. /\ Rest /\ server = "draining" /\ server' \in {"down", "failed"} /\ waits' = {}
      /\ Drained /\ job[Worker] = Idle /\ \A m \in waits : job[m] = Idle
      /\ UNCHANGED <<mission, line, job, active, scan, cut, acts, stops>>
  BY TypeParts, Zenon DEF IInv, Closed, QueueDrained
<1>2. Rest'
  <2>1. server' \in Servers /\ waits' \subseteq Missions
    BY <1>1 DEF Servers
  <2>2. QED
    BY <1>1, <2>1, Zenon DEF Rest
<1>3. TypeOK' /\ One'
  BY <1>1, <1>2, Frame, TypeParts
<1>4. Working'
  <2>1. ~Dead
    BY <1>1 DEF Dead
  <2>2. QED
    BY <1>1, <2>1, Zenon DEF IInv, Working
<1>5. Quiet'
  <2>1. ~scan.on /\ Waking \subseteq waits
    BY <1>1, Zenon DEF IInv, Quiet
  <2>2. \A j \in Jobs : job[j] = Idle
    <3> SUFFICES ASSUME NEW j \in Jobs, job[j] # Idle PROVE FALSE
      OBVIOUS
    <3>1. j \in Missions
      BY <1>1 DEF Jobs, Drained
    <3>2. j \in waits
      BY <2>1, <3>1 DEF Waking
    <3>3. QED
      BY <1>1, <3>2
  <2>3. server' # "draining"
    BY <1>1
  <2>4. Drained'
    BY <1>1 DEF Drained
  <2>5. QED
    BY <1>1, <2>1, <2>2, <2>3, <2>4, Zenon DEF IInv, Quiet
<1>6. Turn'
  <2>1. job'[Worker] = job[Worker] /\ UNCHANGED line /\ Kept
    BY <1>1, SameFacts
  <2>2. QED
    BY <2>1, OldTurn
<1>7. QED
  BY <1>3, <1>4, <1>5, <1>6 DEF IInv

(* The process ends, with its lock or after it has freed it. *)
LEMMA PerishStep ==
  ASSUME IInv, NEW s \in {"dead", "gone"}, Perish(s), stops' \in 0..MaxStops
  PROVE  IInv'
<1>1. /\ Rest /\ server' = s
      /\ job' = [j \in Jobs |-> Idle] /\ active' = {} /\ scan' = NoScan /\ waits' = {}
      /\ cut' \subseteq Missions /\ UNCHANGED <<mission, line, acts>>
  BY TypeParts DEF IInv, Perish
<1>2. \A j \in Jobs : job'[j] = Idle /\ job'[j].pc = "idle" /\ job'[j].pc \notin Inside
  BY <1>1, Names, SMT DEF Inside
<1>3. Rest'
  <2>1. /\ server' \in Servers
        /\ scan' \in [on: BOOLEAN, due: SUBSET Missions, look: SUBSET Missions]
        /\ waits' \subseteq Missions
    BY <1>1, SMT DEF NoScan, Servers
  <2>2. QED
    BY <1>1, <2>1, Zenon DEF Rest
<1>4. Placed'
  BY <1>1, <1>2, Names DEF Placed
<1>5. Reserved'
  <2>1. \A m \in Missions : InsideOf(m)' = {}
    BY <1>2, Zenon DEF InsideOf
  <2>2. QED
    BY <1>1, <2>1 DEF Reserved
<1>6. One' /\ Working'
  <2>1. Dead'
    BY <1>1 DEF Dead
  <2>2. QED
    BY <1>1, <1>2, <2>1, Zenon DEF One, Working
<1>7. Quiet'
  <2>1. server' \notin {"draining", "down", "failed"} /\ scan'.look = {}
    BY <1>1, SMT DEF NoScan
  <2>2. QED
    BY <2>1, SMT DEF Quiet
<1>8. Turn'
  <2>1. job'[Worker].pc \notin {"call"} \cup Inside
    BY <1>2, Places, SMT
  <2>2. QED
    BY <2>1 DEF Turn
<1>9. QED
  BY <1>3, <1>4, <1>5, <1>6, <1>7, <1>8, TypeParts DEF IInv

LEMMA DieStep ==
  ASSUME IInv, Die
  PROVE  IInv'
<1>1. CASE Stop /\ Perish("dead")
  <2>1. stops' \in 0..MaxStops
    BY <1>1, Stopping, TypeParts DEF IInv
  <2>2. QED
    BY <1>1, <2>1, PerishStep
<1>2. CASE UNCHANGED stops /\ Perish("gone")
  <2>1. stops' \in 0..MaxStops
    BY <1>2, TypeParts DEF IInv, Rest
  <2>2. QED
    BY <1>2, <2>1, PerishStep
<1>3. QED
  BY <1>1, <1>2, Zenon DEF Die

(* A tick in flight at the close has failed, after the callers returned.   *)
LEMMA StopFailsStep ==
  ASSUME IInv, NEW b \in BOOLEAN, StopFails(b), b => Drained,
         ~b \/ scan' = scan \/ scan' = NoScan, server \in {"closing", "draining"}
  PROVE  IInv'
<1>1. CASE ~b
  <2>1. UNCHANGED stops /\ Perish("dead")
    BY <1>1, Zenon DEF StopFails
  <2>2. stops' \in 0..MaxStops
    BY <2>1, TypeParts DEF IInv, Rest
  <2>3. QED
    BY <2>1, <2>2, PerishStep
<1>2. CASE b
  <2>1. /\ Rest /\ server' = "failed" /\ waits' = {} /\ ~Dead
        /\ UNCHANGED <<mission, line, job, active, cut, acts, stops>>
    BY <1>2, TypeParts, SMT DEF IInv, StopFails, Dead
  <2>2. /\ scan' \in [on: BOOLEAN, due: SUBSET Missions, look: SUBSET Missions]
        /\ scan'.look = {} \/ scan'.look = scan.look
    <3>1. CASE scan' = scan
      BY <2>1, <3>1, Zenon DEF Rest
    <3>2. CASE scan' = NoScan
      BY <3>2, SMT DEF NoScan
    <3>3. QED
      BY <1>2, <3>1, <3>2, Zenon
  <2>3. Rest'
    <3>1. server' \in Servers /\ waits' \subseteq Missions
      BY <2>1 DEF Servers
    <3>2. QED
      BY <2>1, <2>2, <3>1, Zenon DEF Rest
  <2>4. TypeOK' /\ One'
    BY <2>1, <2>3, Frame, TypeParts
  <2>5. Working'
    BY <2>1, Zenon DEF IInv, Working
  <2>6. Quiet'
    <3>1. server' \notin {"draining", "down"} /\ server' # "draining" /\ server' # "down"
      BY <2>1
    <3>2. Drained'
      BY <1>2, <2>1 DEF Drained
    <3>3. \A m \in Missions : m \in scan'.look => job'[m] = Idle
      BY <2>1, <2>2, Zenon DEF IInv, Quiet
    <3>4. QED
      BY <3>1, <3>2, <3>3, Zenon DEF Quiet
  <2>7. Turn'
    <3>1. job'[Worker] = job[Worker] /\ UNCHANGED line /\ Kept
      BY <2>1, SameFacts
    <3>2. QED
      BY <3>1, OldTurn
  <2>8. QED
    BY <2>4, <2>5, <2>6, <2>7 DEF IInv
<1>3. QED
  BY <1>1, <1>2

LEMMA FailuresStep ==
  ASSUME IInv, QueueReadFails \/ WakeReadFails
  PROVE  IInv'
<1>1. CASE QueueReadFails
  <2>1. Drained \in BOOLEAN
    BY DEF Drained
  <2>2. QED
    BY <1>1, <2>1, StopFailsStep, Zenon DEF QueueReadFails
<1>2. CASE WakeReadFails
  <2>1. QueueDrained \in BOOLEAN /\ (QueueDrained => Drained)
    BY DEF QueueDrained, Drained
  <2>2. server \in {"closing", "draining"} /\ StopFails(QueueDrained) /\ scan' = NoScan
    BY <1>2, SMT DEF WakeReadFails
  <2>3. QED
    BY <2>1, <2>2, StopFailsStep, Zenon
<1>3. QED
  BY <1>1, <1>2

LEMMA AskedFits ==
  ASSUME NEW m \in Missions, mission[m] \in States, NEW W
  PROVE  LET q == Asks(m, W, Reconciled(mission[m])) IN
         q \in States /\ q.st = mission[m].st /\ q.attempt # "work"
<1> DEFINE p == Reconciled(mission[m])
<1>1. p \in States /\ p.st = mission[m].st /\ p.attempt # "work"
  <2>1. CASE mission[m].attempt = "work"
    <3>1. p = [mission[m] EXCEPT !.attempt = "none"]
      BY <2>1 DEF Reconciled
    <3> HIDE DEF p
    <3>2. "none" \in {"none", "work", "review"}
      OBVIOUS
    <3>3. p \in States /\ p.st = mission[m].st /\ p.attempt = "none"
      BY <3>1, <3>2, AttemptField
    <3>4. QED
      BY <3>3
  <2>2. CASE mission[m].attempt # "work"
    BY <2>2 DEF Reconciled
  <2>3. QED
    BY <2>1, <2>2
<1> HIDE DEF p
<1>2. Asks(m, W, p) = p \/ Asks(m, W, p) = Requested(m, p)
  BY Zenon DEF Asks
<1>3. Requested(m, p) \in States /\ Requested(m, p).st = p.st /\ Requested(m, p).attempt = p.attempt
  BY <1>1, RequestedFits
<1>4. Asks(m, W, p) \in States /\ Asks(m, W, p).st = mission[m].st /\ Asks(m, W, p).attempt # "work"
  BY <1>1, <1>2, <1>3
<1>5. QED
  BY <1>4 DEF p

LEMMA RestartStep ==
  ASSUME IInv, Restart
  PROVE  IInv'
<1>1. /\ Rest /\ server' = "up" /\ cut' = {}
      /\ UNCHANGED <<line, job, active, scan, waits, acts, stops>>
  BY TypeParts DEF IInv, Restart
<1>2. PICK W : mission' = [m \in Missions |-> Asks(m, W, Reconciled(mission[m]))]
  BY Zenon DEF Restart
<1>3. \A m \in Missions : mission'[m] \in States /\ mission'[m].st = mission[m].st
                          /\ mission'[m].attempt # "work"
  <2> SUFFICES ASSUME NEW m \in Missions
               PROVE  mission'[m] \in States /\ mission'[m].st = mission[m].st
                      /\ mission'[m].attempt # "work"
    OBVIOUS
  <2>1. mission[m] \in States
    BY <1>1 DEF Rest
  <2>2. mission'[m] = Asks(m, W, Reconciled(mission[m]))
    BY <1>2
  <2>3. QED
    BY <2>1, <2>2, AskedFits
<1>4. mission' \in [Missions -> States]
  BY <1>2, <1>3
<1>5. Rest'
  <2>1. server' \in Servers /\ cut' \subseteq Missions
    BY <1>1 DEF Servers
  <2>2. QED
    BY <1>1, <1>4, <2>1, Zenon DEF Rest
<1>6. TypeOK' /\ One'
  BY <1>1, <1>5, Frame, TypeParts
<1>7. Working' /\ Kept
  BY <1>3, Zenon DEF Working, Kept
<1>8. Quiet'
  <2>1. server' \notin {"draining", "down", "failed"} /\ server' # "draining" /\ server' # "down"
        /\ server' # "failed"
    BY <1>1
  <2>2. QED
    BY <1>1, <2>1, Zenon DEF IInv, Quiet
<1>9. Turn'
  <2>1. job'[Worker] = job[Worker] /\ UNCHANGED line
    BY <1>1
  <2>2. QED
    BY <1>7, <2>1, OldTurn
<1>10. QED
  BY <1>6, <1>7, <1>8, <1>9 DEF IInv

-----------------------------------------------------------------------------
(* The invariant.                                                          *)

LEMMA InitIInv == Init => IInv
<1> SUFFICES ASSUME Init PROVE IInv
  OBVIOUS
<1>1. \A j \in Jobs : job[j] = Idle /\ job[j].pc = "idle" /\ job[j].pc \notin Inside
  BY Names, SMT DEF Init, Inside
<1>2. \A m \in Missions : Fresh(m \in Known) \in States /\ Fresh(m \in Known).attempt = "none"
  <2> SUFFICES ASSUME NEW m \in Missions
               PROVE  Fresh(m \in Known) \in States /\ Fresh(m \in Known).attempt = "none"
    OBVIOUS
  <2>1. (m \in Known) \in BOOLEAN
    OBVIOUS
  <2>2. Fresh(m \in Known) \in States
    BY <2>1, Zenon DEF Fresh, States, Cards, Gates
  <2>3. Fresh(m \in Known).attempt = "none"
    BY DEF Fresh
  <2>4. QED
    BY <2>2, <2>3
<1>3. Rest
  <2>1. mission \in [Missions -> States]
    BY <1>2, Zenon DEF Init
  <2>2. scan \in [on: BOOLEAN, due: SUBSET Missions, look: SUBSET Missions]
    BY Zenon DEF Init, NoScan
  <2>3. line \in Seq(Missions)
    BY LineAssumption DEF Init
  <2>4. acts \in 0..MaxActs /\ stops \in 0..MaxStops
    BY BoundAssumption, SMT DEF Init
  <2>5. server \in Servers /\ waits \subseteq Missions
        /\ cut \subseteq Missions
    BY SMT DEF Init, Servers
  <2>6. QED
    BY <2>1, <2>2, <2>3, <2>4, <2>5, Zenon DEF Rest
<1>4. Placed
  BY <1>1, Names, Zenon DEF Init, Placed
<1>5. Reserved
  <2>1. \A m \in Missions : InsideOf(m) = {}
    BY <1>1, Zenon DEF InsideOf
  <2>2. QED
    BY <2>1 DEF Init, Reserved
<1>6. One
  BY <1>1, Zenon DEF One
<1>7. Working
  <2> SUFFICES ASSUME NEW m \in Missions PROVE mission[m].attempt # "work"
    BY DEF Working
  <2>1. mission[m] = Fresh(m \in Known)
    BY Zenon DEF Init
  <2>2. QED
    BY <1>2, <2>1, SMT
<1>8. Quiet
  BY SMT DEF Init, Quiet, NoScan
<1>9. Turn
  <2>1. job[Worker].pc \notin {"call"} \cup Inside
    BY <1>1, Places, SMT
  <2>2. QED
    BY <2>1 DEF Turn
<1>10. QED
  BY <1>3, <1>4, <1>5, <1>6, <1>7, <1>8, <1>9, TypeParts DEF IInv

LEMMA StutterKeeps ==
  ASSUME IInv, UNCHANGED vars
  PROVE  IInv'
<1>1. UNCHANGED <<mission, line, job, active, scan, server, waits, cut, acts, stops>>
  BY DEF vars
<1>2. /\ scan' \in [on: BOOLEAN, due: SUBSET Missions, look: SUBSET Missions]
      /\ (scan'.on = TRUE => scan.on = TRUE)
      /\ \A m \in Missions : m \in scan'.look => m \in scan.look
  BY <1>1, TypeParts, Zenon DEF IInv, Rest
<1>3. QED
  BY <1>1, <1>2, ScanStays, Zenon

LEMMA RunKeeps ==
  ASSUME IInv, NEW j \in Jobs, Run(j) \/ OpenAttempt(j) \/ OpenReview(j)
  PROVE  IInv'
BY EnterStep, StartedStep, PrepareStep, CloseAttemptStep, EndRunStep, LeaveStep, OpenAttemptStep,
   OpenReviewStep, Zenon DEF Run

LEMMA NextKeeps ==
  ASSUME IInv, [Next]_vars
  PROVE  IInv'
<1>1. CASE \E j \in Callers, m \in Called : Accept(j, m)
  BY <1>1, AcceptStep, Zenon
<1>2. CASE QueueTick
  BY <1>2, PickStep, RecordStartStep, AfterStep, HoldStep, Zenon DEF QueueTick
<1>3. CASE WakeTick
  BY <1>3, ScanSteps, LaunchStep, Zenon DEF WakeTick
<1>4. CASE \E m \in Missions : Resumes(m) \/ Enqueue(m) \/ ActOfL3(m) \/ Ripen(m)
  BY <1>4, ResumesStep, EnqueueStep, ActOfL3Step, RipenStep, Zenon
<1>5. CASE Process \/ Close \/ Die \/ Failures
  BY <1>5, AwaitTickStep, ClosedStep, RestartStep, CloseStep, DieStep, ScanSteps, FailuresStep, Zenon
     DEF Process, Failures
<1>6. QED
  BY <1>1, <1>2, <1>3, <1>4, <1>5, RunKeeps, StutterKeeps, Zenon DEF Next

LEMMA Inductive == Spec => []IInv
<1>1. IInv /\ [Next]_vars => IInv'
  BY NextKeeps
<1>2. QED
  BY InitIInv, <1>1, PTL DEF Spec

(* Everything keeps its type, and the reservations of the guard are those  *)
(* of the runs that are inside, whichever way a run has ended.             *)
THEOREM Typed == Spec => []TypeOK
BY Inductive, PTL DEF IInv

(* One Mission never has two hosted runs at once, for any number of        *)
(* callers and Missions: test and reservation of the guard are one step.   *)
THEOREM RunsAlone == Spec => []OneRunAtATime
<1>1. IInv => OneRunAtATime
  <2> SUFFICES ASSUME IInv, NEW m \in Missions
               PROVE  Cardinality(InsideOf(m)) <= 1
    BY DEF OneRunAtATime
  <2>1. CASE InsideOf(m) = {}
    BY <2>1, FS_EmptySet, SMT
  <2>2. ASSUME NEW j \in InsideOf(m)
        PROVE  Cardinality(InsideOf(m)) <= 1
    <3>1. \A k \in InsideOf(m) : k = j
      BY Zenon DEF InsideOf, IInv, One
    <3>2. InsideOf(m) = {j}
      BY <3>1
    <3>3. Cardinality({j}) = 1
      BY FS_Singleton
    <3>4. QED
      BY <3>2, <3>3, SMT
  <2>3. QED
    BY <2>1, <2>2
<1>2. QED
  BY Inductive, <1>1, PTL

(* What the queue worker runs has had its turn, although it was picked     *)
(* from an older view: it is read again, and completed stays completed.    *)
THEOREM TurnsAreKept == Spec => []QueueInOrder
<1>1. IInv => QueueInOrder
  BY Zenon DEF IInv, Turn, QueueInOrder
<1>2. QED
  BY Inductive, <1>1, PTL

(* After a close that reports no error no call, no Attempt of the loop and *)
(* no tick goes on: stop() waits for the tick before it lists the          *)
(* resumptions.  After one that does, runs may go on without the lock, but *)
(* no caller's: the close awaits a stop() that fails after the callers.    *)
THEOREM QuietWhenClosed == Spec => []ClosedIsQuiet
<1>1. IInv => ClosedIsQuiet
  <2> SUFFICES ASSUME IInv PROVE ClosedIsQuiet
    OBVIOUS
  <2>1. server \in {"down", "failed"} => Drained
    BY Zenon DEF IInv, Quiet
  <2>2. ASSUME server = "down"
        PROVE  /\ \A j \in Jobs : job[j] = Idle
               /\ \A m \in Missions : mission[m].attempt # "work"
               /\ ~scan.on
    <3>1. (\A j \in Jobs : job[j] = Idle) /\ ~scan.on
      BY <2>2, Zenon DEF IInv, Quiet
    <3>2. \A m \in Missions : mission[m].attempt # "work"
      <4> SUFFICES ASSUME NEW m \in Missions, mission[m].attempt = "work" PROVE FALSE
        OBVIOUS
      <4>1. ~Dead
        BY <2>2 DEF Dead
      <4>2. PICK j \in Jobs : job[j].pc = "running"
        BY <4>1, Zenon DEF IInv, Working
      <4>3. job[j].pc = "idle"
        BY <3>1, Names, Zenon
      <4>4. QED
        BY <4>2, <4>3
    <3>3. QED
      BY <3>1, <3>2
  <2>3. QED
    BY <2>1, <2>2, Zenon DEF ClosedIsQuiet
<1>2. QED
  BY Inductive, <1>1, PTL
-----------------------------------------------------------------------------
(* No wake is lost.  A resumption in the running map is about the Mission  *)
(* whose entry it is, so the one that consumes a request goes to the guard *)
(* for that very Mission.                                                  *)

Own == \A m \in Missions : job[m].pc = "record" => job[m].m = m

LEMMA OwnStep ==
  ASSUME IInv, Own, [Next]_vars
  PROVE  Own'
<1>1. Placed /\ Idle.pc = "idle"
  BY TypeParts, Names DEF IInv
<1> SUFFICES ASSUME NEW m \in Missions, job'[m].pc = "record" PROVE job'[m].m = m
  BY DEF Own
<1>2. m \in Jobs /\ m # Worker /\ m \notin Callers
  BY Places
<1>3. ASSUME job'[m] = job[m] PROVE job'[m].m = m
  BY <1>3 DEF Own
<1>4. ASSUME NEW j \in Jobs, NEW l, Goto(j, l), l # "record" PROVE job'[m] = job[m]
  BY <1>1, <1>2, <1>4, SMT DEF Goto, Placed, JobRec
<1>5. ASSUME NEW j \in Jobs, Back(j) PROVE job'[m] = job[m]
  BY <1>1, <1>2, <1>5, SMT DEF Back, Placed
<1>6. ASSUME NEW j \in Jobs, Returned(j) \/ Thrown(j) PROVE job'[m] = job[m]
  BY <1>4, <1>5, <1>6, Zenon DEF Returned, Thrown
<1>7. CASE \E j \in Callers, k \in Called : Accept(j, k)
  <2>1. PICK j \in Callers, k \in Called : Accept(j, k)
    BY <1>7
  <2>2. job'[m] = job[m]
    BY <1>1, <1>2, <2>1, SMT DEF Accept, Placed
  <2>3. QED
    BY <1>3, <2>2
<1>8. CASE \E j \in Jobs : Run(j) \/ OpenAttempt(j) \/ OpenReview(j)
  BY <1>3, <1>4, <1>6, <1>8, Zenon
     DEF Run, Enter, Started, Prepare, CloseAttempt, EndRun, Leave, OpenAttempt, OpenReview
<1>9. CASE QueueTick
  <2>1. ASSUME NEW k \in Missions, Pick(k) PROVE job'[m] = job[m]
    BY <1>1, <1>2, <2>1, SMT DEF Pick, Placed
  <2>2. QED
    BY <1>3, <1>4, <1>5, <1>9, <2>1, Places, Zenon DEF QueueTick, RecordStart, After, Hold
<1>10. ASSUME NEW k \in Missions, Launch(k) PROVE job'[m].m = m
  <2>1. job' = job \/ job' = [job EXCEPT ![k] = At("record", k)]
    BY <1>10, Zenon DEF Launch
  <2>2. CASE job' = [job EXCEPT ![k] = At("record", k)] /\ k = m
    BY <1>1, <1>2, <2>2, SMT DEF Placed, At
  <2>3. CASE job' = job \/ k # m
    <3>1. job'[m] = job[m]
      BY <1>1, <1>2, <2>1, <2>3, SMT DEF Placed
    <3>2. QED
      BY <1>3, <3>1
  <2>4. QED
    BY <2>1, <2>2, <2>3
<1>11. CASE \E k \in Missions : Resumes(k)
  BY <1>3, <1>4, <1>5, <1>11, Places, Zenon DEF Resumes, Record, RecordFails
<1>12. CASE \E s : Perish(s)
  <2>1. job'[m] = Idle
    BY <1>2, <1>12 DEF Perish
  <2>2. QED
    BY <1>1, <2>1
<1>13. CASE job' = job
  BY <1>3, <1>13
<1>14. QED
  BY <1>7, <1>8, <1>9, <1>10, <1>11, <1>12, <1>13, Zenon
     DEF Next, WakeTick, Scan, EndScan, Look, Enqueue, ActOfL3, Pause, Resume, Answer, Revise, Raise,
         Approve, Judge, Cancel, L3, Ripen, Process, AwaitTick, Closed, Restart, Close, Die,
         Failures, LookFails, QueueReadFails, WakeReadFails, StopFails, vars

LEMMA OwnInvariant == Spec => []Own
<1>1. Init => Own
  BY Places, Names, SMT DEF Init, Own
<1>2. IInv /\ Own /\ [Next]_vars => Own'
  BY OwnStep
<1>3. QED
  BY <1>1, <1>2, Inductive, PTL DEF Spec

-----------------------------------------------------------------------------
(* A driver on its way to the guard.                                       *)

LEMMA EnterTakes ==
  ASSUME IInv, NEW j \in Jobs, Enter(j), NEW m, job[j].m = m
  PROVE  Taken(m)'
<1>1. TypeOK /\ Reserved /\ Placed /\ job[j].pc = "call" /\ m \in Missions
  BY TypeParts, Names, SMT DEF IInv, Placed, Enter, On
<1>2. CASE Free(m)
  <2>1. Goto(j, "begun")
    BY <1>2, Zenon DEF Enter
  <2>2. job'[j].pc = "begun" /\ job'[j].m = m
    BY <1>1, <2>1, GotoFacts, Names, SMT
  <2>3. QED
    BY <2>2 DEF Taken, InsideOf, Inside
<1>3. CASE ~Free(m)
  <2>1. Returned(j)
    BY <1>3, Zenon DEF Enter
  <2>2. Moved(j)
    BY <1>1, <2>1, EndFacts
  <2>3. PICK k \in Jobs : job[k].pc \in Inside /\ job[k].m = m
    BY <1>1, <1>3 DEF Free, Reserved, InsideOf
  <2>4. k # j
    BY <1>1, <2>3, SMT DEF Inside
  <2>5. job'[k] = job[k]
    BY <2>2, <2>4 DEF Moved
  <2>6. QED
    BY <2>3, <2>5 DEF Taken, InsideOf
<1>4. QED
  BY <1>2, <1>3

(* Nothing but the guard and the death of the process stops it.            *)
LEMMA CallStands ==
  ASSUME IInv, [Next]_vars, ~Dead', NEW j \in Jobs, job[j].pc = "call", ~Enter(j)
  PROVE  job'[j] = job[j]
<1>1. Placed /\ Idle.pc = "idle" /\ Quiet
  BY TypeParts, Names DEF IInv
<1>2. ASSUME NEW k \in Jobs, job[k].pc # "call", NEW v, job' = [job EXCEPT ![k] = v]
      PROVE  job'[j] = job[j]
  BY <1>1, <1>2, SMT DEF Placed
<1>3. ASSUME NEW k \in Jobs, job[k].pc # "call", NEW l, Goto(k, l)
      PROVE  job'[j] = job[j]
  BY <1>1, <1>3, SMT DEF Placed, Goto
<1>4. ASSUME NEW k \in Jobs, job[k].pc # "call", Back(k)
      PROVE  job'[j] = job[j]
  BY <1>1, <1>4, SMT DEF Placed, Back
<1>5. ASSUME NEW k \in Jobs, job[k].pc # "call", Returned(k) \/ Thrown(k)
      PROVE  job'[j] = job[j]
  BY <1>3, <1>4, <1>5, Zenon DEF Returned, Thrown
<1>6. CASE \E k \in Callers, m \in Called : Accept(k, m)
  <2>1. PICK k \in Callers, m \in Called : Accept(k, m)
    BY <1>6
  <2>2. k \in Jobs /\ job[k].pc # "call" /\ job' = [job EXCEPT ![k] = At("call", m)]
    BY <2>1, Places, SMT DEF Accept, On
  <2>3. QED
    BY <1>2, <2>2
<1>7. CASE \E k \in Jobs : Run(k) \/ OpenAttempt(k) \/ OpenReview(k)
  <2>1. PICK k \in Jobs : Run(k) \/ OpenAttempt(k) \/ OpenReview(k)
    BY <1>7
  <2>2. CASE Enter(k)
    <3>1. k # j
      BY <2>2
    <3>2. Moved(k)
      <4>1. Goto(k, "begun") \/ Returned(k)
        BY <2>2, Zenon DEF Enter
      <4>2. QED
        BY <4>1, GotoFacts, EndFacts, Names DEF IInv
    <3>3. QED
      BY <3>1, <3>2 DEF Moved
  <2>3. CASE Started(k) \/ Prepare(k)
    <3>1. job[k].pc # "call" /\ \E l : Goto(k, l)
      BY <2>3, SMT DEF Started, Prepare, On
    <3>2. QED
      BY <1>3, <3>1
  <2>4. CASE EndRun(k)
    <3>1. job[k].pc # "call" /\ \E l : Goto(k, l)
      BY <2>4, SMT DEF EndRun, On
    <3>2. QED
      BY <1>3, <3>1
  <2>5. CASE Leave(k)
    <3>1. job[k].pc # "call"
      BY <2>5, SMT DEF Leave
    <3>2. Returned(k) \/ Thrown(k)
      BY <2>5, Zenon DEF Leave
    <3>3. QED
      BY <1>5, <3>1, <3>2
  <2>6. CASE CloseAttempt(k) \/ OpenAttempt(k) \/ OpenReview(k)
    BY <2>6, Zenon DEF CloseAttempt, OpenAttempt, OpenReview
  <2>7. QED
    BY <2>1, <2>2, <2>3, <2>4, <2>5, <2>6, Zenon DEF Run
<1>8. CASE QueueTick
  <2>1. ASSUME NEW m \in Missions, Pick(m) PROVE job'[j] = job[j]
    <3>1. job[Worker].pc # "call" /\ job' = [job EXCEPT ![Worker] = At("picked", m)]
      BY <2>1, SMT DEF Pick, On
    <3>2. QED
      BY <1>2, <3>1, Places
  <2>2. CASE RecordStart
    <3>1. job[Worker].pc # "call"
      BY <2>2, SMT DEF RecordStart, On
    <3>2. Goto(Worker, "call") \/ Goto(Worker, "holding") \/ Back(Worker)
      BY <2>2, Zenon DEF RecordStart
    <3>3. QED
      BY <1>3, <1>4, <3>1, <3>2, Places
  <2>3. CASE After
    <3>1. job[Worker].pc # "call"
      BY <2>3, SMT DEF After, On
    <3>2. Goto(Worker, "holding") \/ Back(Worker)
      BY <2>3, Zenon DEF After
    <3>3. QED
      BY <1>3, <1>4, <3>1, <3>2, Places
  <2>4. CASE Hold
    <3>1. job[Worker].pc # "call" /\ Back(Worker)
      BY <2>4, SMT DEF Hold, On
    <3>2. QED
      BY <1>4, <3>1, Places
  <2>5. QED
    BY <1>8, <2>1, <2>2, <2>3, <2>4, Zenon DEF QueueTick
<1>9. ASSUME NEW k \in Missions, Launch(k) PROVE job'[j] = job[j]
  <2>1. job' = job \/ job' = [job EXCEPT ![k] = At("record", k)]
    BY <1>9, Zenon DEF Launch
  <2>2. k \in Jobs /\ job[k].pc # "call"
    <3>1. k \in scan.look
      BY <1>9 DEF Launch
    <3>2. job[k] = Idle
      BY <1>1, <3>1, Zenon DEF Quiet
    <3>3. QED
      BY <1>1, <3>2, Places
  <2>3. QED
    BY <1>2, <2>1, <2>2
<1>10. ASSUME NEW k \in Missions, Resumes(k) PROVE job'[j] = job[j]
  <2>1. k \in Jobs /\ job[k].pc # "call"
    BY <1>10, Places, SMT DEF Resumes, Record, RecordFails, On
  <2>2. Goto(k, "call") \/ Back(k)
    BY <1>10, Zenon DEF Resumes, Record, RecordFails
  <2>3. QED
    BY <1>3, <1>4, <2>1, <2>2
<1>11. ~Perish("dead") /\ ~Perish("gone")
  BY DEF Perish, Dead
<1>12. QED
  BY <1>6, <1>7, <1>8, <1>9, <1>10, <1>11, Zenon
     DEF Next, WakeTick, Scan, EndScan, Look, Enqueue, ActOfL3, Pause, Resume, Answer, Revise, Raise,
         Approve, Judge, Cancel, L3, Ripen, Process, AwaitTick, Closed, Restart, Close, Die,
         Failures, LookFails, QueueReadFails, WakeReadFails, StopFails, vars

LEMMA HeadingStep ==
  ASSUME IInv, [Next]_vars, NEW m \in Missions, Heading(m)
  PROVE  (Heading(m) \/ Taken(m))' \/ Dead'
<1>1. PICK j \in Jobs : job[j].pc = "call" /\ job[j].m = m
  BY DEF Heading, On
<1>2. CASE Enter(j)
  BY <1>1, <1>2, EnterTakes
<1>3. CASE ~Enter(j) /\ ~Dead'
  <2>1. job'[j] = job[j]
    BY <1>1, <1>3, CallStands
  <2>2. QED
    BY <1>1, <2>1 DEF Heading, On
<1>4. QED
  BY <1>2, <1>3

-----------------------------------------------------------------------------
(* A Mission that waits.  Its record goes on asking for a run.             *)

StillDue(m) ==
  /\ mission[m].wait = "ripe" => mission'[m].wait = "ripe"
  /\ mission[m].asked => mission'[m].asked
  /\ CutOff(m) => mission'[m].asked \/ CutOff(m)'

Steady(m) ==
  StillDue(m) \/ ~MayContinue(mission'[m]) \/ Taken(m)' \/ Heading(m)'

LEMMA SameSteady ==
  ASSUME NEW m, mission'[m] = mission[m], server' = server \/ ~Dead
  PROVE  Steady(m)
BY DEF Steady, StillDue, CutOff, Dead

(* A run changes its own Mission only, and is inside when it does.         *)
LEMMA RunSteady ==
  ASSUME IInv, NEW j \in Jobs, Run(j) \/ OpenAttempt(j) \/ OpenReview(j), NEW m \in Missions
  PROVE  Steady(m)
<1> DEFINE k == job[j].m
<1>1. TypeOK /\ Rest /\ Placed
  BY TypeParts DEF IInv
<1>2. server' = server
  BY Zenon DEF Run, Enter, Started, Prepare, CloseAttempt, EndRun, Leave, OpenAttempt, OpenReview
<1>3. CASE Enter(j) \/ Leave(j)
  BY <1>2, <1>3, SameSteady, Zenon DEF Enter, Leave
<1>4. CASE Started(j) \/ Prepare(j) \/ EndRun(j)
  <2>1. PICK l \in {"preparing", "throwing", "running", "leaving"} : Goto(j, l)
    BY <1>4, Zenon DEF Started, Prepare, EndRun
  <2>2. l \in Inside /\ l \in PCs
    BY <2>1, SMT DEF Inside, PCs
  <2>3. job'[j].pc \in Inside /\ job'[j].m = k
    BY <1>1, <2>1, <2>2, GotoFacts, SMT
  <2>4. k = m => Taken(m)'
    BY <2>3 DEF Taken, InsideOf
  <2>5. mission' = mission \/ \E q : Set(k, q)
    BY <1>4, Zenon DEF Started, Prepare, EndRun
  <2>6. k # m => mission'[m] = mission[m]
    BY <1>1, <2>5, SMT DEF Set, Rest
  <2>7. QED
    BY <1>2, <2>4, <2>6, SameSteady DEF Steady
<1>5. CASE CloseAttempt(j) \/ OpenAttempt(j) \/ OpenReview(j)
  <2>1. job' = job /\ job[j].pc = "running"
    BY <1>5, Zenon DEF CloseAttempt, OpenAttempt, OpenReview, On
  <2>2. k = m => Taken(m)'
    BY <2>1, SMT DEF Taken, InsideOf, Inside
  <2>3. \E q : mission' = [mission EXCEPT ![k] = q]
    BY <1>5, Zenon DEF CloseAttempt, OpenAttempt, OpenReview, Set
  <2>4. k # m => mission'[m] = mission[m]
    BY <1>1, <2>3, SMT DEF Rest
  <2>5. QED
    BY <1>2, <2>2, <2>4, SameSteady DEF Steady
<1>6. QED
  BY <1>3, <1>4, <1>5, Zenon DEF Run

(* The worker holds a Mission, or finalizes one that is no longer open.    *)
LEMMA QueueSteady ==
  ASSUME IInv, QueueTick, NEW m \in Missions, MayContinue(mission[m])
  PROVE  Steady(m)
<1> DEFINE k == job[Worker].m
           r == mission[k]
<1>1. Rest /\ Placed
  BY TypeParts DEF IInv
<1>2. server' = server
  BY Zenon DEF QueueTick, Pick, RecordStart, After, Hold
<1>3. mission' = mission \/ \E q : Set(k, q)
  BY Zenon DEF QueueTick, Pick, RecordStart, After, Hold
<1>4. CASE k # m
  <2>1. mission'[m] = mission[m]
    BY <1>1, <1>3, <1>4, SMT DEF Set, Rest
  <2>2. QED
    BY <1>2, <2>1, SameSteady
<1>5. CASE k = m /\ Hold
  <2>1. ~Terminal(m)
    BY SMT DEF Terminal, MayContinue
  <2>2. Set(m, [mission[m] EXCEPT !.held = mission[m].held \cup {"paused"}, !.wait = "hold"])
    BY <1>5, <2>1, Zenon DEF Hold
  <2>3. mission'[m].held = mission[m].held \cup {"paused"}
    BY <1>1, <2>2, SMT DEF Set, Rest, States
  <2>4. QED
    BY <2>3, SMT DEF Steady, MayContinue
<1>6. CASE k = m /\ ~Hold
  <2>1. mission[m].st # "review"
    BY SMT DEF MayContinue
  <2>2. mission' = mission
    BY <1>6, <2>1, Zenon DEF QueueTick, Pick, RecordStart, After
  <2>3. QED
    BY <1>2, <2>2, SameSteady
<1>7. QED
  BY <1>4, <1>5, <1>6

(* The driver that consumes a request goes to the guard with it.           *)
LEMMA ResumesSteady ==
  ASSUME IInv, Own, NEW k \in Missions, Resumes(k), NEW m \in Missions
  PROVE  Steady(m)
<1>1. TypeOK /\ Rest /\ k \in Jobs
  BY TypeParts, Places DEF IInv
<1>2. server' = server
  BY Zenon DEF Resumes, Record, RecordFails
<1>3. CASE RecordFails(k)
  BY <1>2, <1>3, SameSteady, Zenon DEF RecordFails
<1>4. CASE Record(k) /\ k # m
  <2>1. mission'[m] = mission[m]
    BY <1>1, <1>4, SMT DEF Record, Set, Rest
  <2>2. QED
    BY <1>2, <2>1, SameSteady
<1>5. CASE Record(k) /\ k = m
  <2>1. job[m].m = m /\ Goto(m, "call")
    BY <1>5, Zenon DEF Record, On, Own
  <2>2. job'[m].pc = "call" /\ job'[m].m = m
    BY <1>1, <1>5, <2>1, GotoFacts, Names, SMT
  <2>3. QED
    BY <1>1, <1>5, <2>2 DEF Steady, Heading, On
<1>6. QED
  BY <1>3, <1>4, <1>5, Zenon DEF Resumes

(* A request is added, never taken away, and leaves the reason alone.      *)
LEMMA RequestedDue ==
  ASSUME NEW r \in States, NEW m
  PROVE  /\ Requested(m, r).wait = r.wait /\ Requested(m, r).held = r.held
         /\ Requested(m, r).attempt = r.attempt
         /\ r.asked => Requested(m, r).asked
         /\ MayContinue(r) /\ r.known /\ ~Queued(m) => Requested(m, r).asked
<1>1. [r EXCEPT !.asked = TRUE].wait = r.wait /\ [r EXCEPT !.asked = TRUE].held = r.held
      /\ [r EXCEPT !.asked = TRUE].asked /\ [r EXCEPT !.asked = TRUE].attempt = r.attempt
  BY SMT DEF States
<1>2. CASE MayContinue(r) /\ r.known /\ ~Queued(m)
  <2>1. Requested(m, r) = [r EXCEPT !.asked = TRUE]
    BY <1>2, Zenon DEF Requested
  <2>2. QED
    BY <1>1, <2>1, Zenon
<1>3. CASE ~(MayContinue(r) /\ r.known /\ ~Queued(m))
  <2>1. Requested(m, r) = r
    BY <1>3, Zenon DEF Requested
  <2>2. QED
    BY <1>3, <2>1, Zenon
<1>4. QED
  BY <1>2, <1>3, Zenon

LEMMA LiftedDue ==
  ASSUME NEW r \in States, NEW g \in Gates
  PROVE  /\ Lifted(r, g) \in States /\ Lifted(r, g).asked = r.asked /\ Lifted(r, g).held = r.held
         /\ r.wait = "ripe" => Lifted(r, g).wait = "ripe"
<1>1. Lifted(r, g) \in States
  BY LiftedFits
<1>2. g # "ripe"
  BY SMT DEF Gates
<1>3. QED
  BY <1>1, <1>2, SMT DEF Lifted, States

LEMMA ActSteady ==
  ASSUME IInv, NEW k \in Missions, ActOfL3(k), NEW m \in Missions, MayContinue(mission[m])
  PROVE  Steady(m)
<1> DEFINE r == mission[m]
<1>1. Rest /\ r \in States /\ server' = server /\ ~Dead
  <2>1. Rest
    BY TypeParts, Zenon DEF IInv
  <2>2. r \in States
    BY <2>1, Zenon DEF Rest
  <2>3. server' = server
    BY Zenon DEF ActOfL3, Pause, Resume, Answer, Revise, Raise, Approve, Judge, Cancel, L3
  <2>4. Alive
    BY Zenon DEF ActOfL3
  <2>5. ~Dead
    BY <2>4, SMT DEF Alive, Dead
  <2>6. QED
    BY <2>1, <2>2, <2>3, <2>5
<1>2. CASE k # m
  <2>1. \E q : Set(k, q)
    BY Zenon DEF ActOfL3, Pause, Resume, Answer, Revise, Raise, Approve, Judge, Cancel, L3
  <2>2. mission'[m] = mission[m]
    BY <1>1, <1>2, <2>1, SMT DEF Set, Rest
  <2>3. QED
    BY <1>1, <2>2, SameSteady
<1>3. CASE k = m
  <2>1. r.held = {} /\ r.st = "open" /\ r.wait \notin Hard
    BY SMT DEF MayContinue
  <2>2. ASSUME NEW q, L3(m, q), ~MayContinue(q) \/ /\ r.wait = "ripe" => q.wait = "ripe"
                                                   /\ r.asked => q.asked
        PROVE  Steady(m)
    <3>1. mission'[m] = q
      BY <1>1, <2>2, SMT DEF L3, Set, Rest
    <3>2. ~CutOff(m)
      BY <1>1 DEF CutOff
    <3>3. QED
      BY <2>2, <3>1, <3>2, Zenon DEF Steady, StillDue
  <2>3. CASE Pause(m)
    <3> DEFINE q == [r EXCEPT !.held = r.held \cup {"paused"}]
    <3>1. L3(m, q)
      BY <2>3, Zenon DEF Pause
    <3>2. q.held # {}
      BY <1>1, SMT DEF States
    <3> HIDE DEF q
    <3>3. QED
      BY <2>2, <3>1, <3>2, Zenon DEF MayContinue
  <2>4. CASE Resume(m) \/ Answer(m) \/ Judge(m)
    BY <2>1, <2>4, SMT DEF Resume, Answer, Judge
  <2>5. CASE Revise(m)
    <3> DEFINE p == [r EXCEPT !.st = "open"]
    <3>1. L3(m, Requested(m, p))
      BY <2>5, Zenon DEF Revise
    <3>2. p \in States /\ p.wait = r.wait /\ p.asked = r.asked
      BY <1>1, SMT DEF States
    <3> HIDE DEF p
    <3>3. /\ r.wait = "ripe" => Requested(m, p).wait = "ripe"
          /\ r.asked => Requested(m, p).asked
      BY <3>2, RequestedDue, Zenon
    <3>4. QED
      BY <2>2, <3>1, <3>3
  <2>6. CASE Raise(m)
    <3> DEFINE l == Lifted(r, "cap")
               p == Requested(m, l)
               q == [p EXCEPT !.held = p.held \ {"cap"}]
    <3>1. l \in States /\ l.asked = r.asked /\ (r.wait = "ripe" => l.wait = "ripe")
      BY <1>1, LiftedDue, SMT DEF Gates
    <3> HIDE DEF l
    <3>2. p \in States /\ (r.wait = "ripe" => p.wait = "ripe") /\ (r.asked => p.asked)
      BY <3>1, RequestedFits, RequestedDue, Zenon
    <3> HIDE DEF p
    <3>3. q.wait = p.wait /\ q.asked = p.asked
      BY <3>2, SMT DEF States
    <3>4. L3(m, p) \/ L3(m, q)
      BY <2>6, Zenon DEF Raise, p, l
    <3> HIDE DEF q
    <3>5. QED
      BY <2>2, <3>2, <3>3, <3>4, Zenon
  <2>7. CASE Approve(m)
    <3> DEFINE l == Lifted(r, "point")
    <3>1. l \in States /\ l.asked = r.asked /\ (r.wait = "ripe" => l.wait = "ripe")
      BY <1>1, LiftedDue, SMT DEF Gates
    <3>2. L3(m, Requested(m, l))
      BY <2>7, Zenon DEF Approve
    <3> HIDE DEF l
    <3>3. /\ r.wait = "ripe" => Requested(m, l).wait = "ripe"
          /\ r.asked => Requested(m, l).asked
      BY <3>1, RequestedDue, Zenon
    <3>4. QED
      BY <2>2, <3>2, <3>3
  <2>8. CASE Cancel(m)
    <3> DEFINE p == Ends(r, "blocked")
               q == [p EXCEPT !.wait = "manual"]
    <3>1. L3(m, q)
      BY <2>8, Zenon DEF Cancel
    <3>2. p \in States /\ p.st = "blocked"
      BY <1>1, EndsFits
    <3> HIDE DEF p
    <3>3. q.st = "blocked"
      BY <3>2, SMT DEF States
    <3> HIDE DEF q
    <3>4. QED
      BY <2>2, <3>1, <3>3, SMT DEF MayContinue
  <2>9. QED
    BY <1>3, <2>3, <2>4, <2>5, <2>6, <2>7, <2>8, Zenon DEF ActOfL3
<1>4. QED
  BY <1>2, <1>3

LEMMA RipenSteady ==
  ASSUME IInv, NEW k \in Missions, Ripen(k), NEW m \in Missions
  PROVE  Steady(m)
<1>1. Rest /\ mission[m] \in States /\ server' = server
  BY TypeParts, SMT DEF IInv, Rest, Ripen
<1>2. mission' = [mission EXCEPT ![k] = [mission[k] EXCEPT !.wait = "ripe"]]
  BY Zenon DEF Ripen, Set
<1>3. CASE k # m
  <2>1. mission'[m] = mission[m]
    BY <1>1, <1>2, <1>3, SMT DEF Rest
  <2>2. QED
    BY <1>1, <2>1, SameSteady
<1>4. CASE k = m
  <2>1. mission'[m] = [mission[m] EXCEPT !.wait = "ripe"]
    BY <1>1, <1>2, <1>4, SMT DEF Rest
  <2>2. mission'[m].wait = "ripe" /\ mission'[m].asked = mission[m].asked
        /\ mission'[m].attempt = mission[m].attempt
    BY <1>1, <2>1, SMT DEF States
  <2>3. QED
    BY <1>1, <2>2, Zenon DEF Steady, StillDue, CutOff, Dead
<1>5. QED
  BY <1>3, <1>4

(* The next start asks for what was cut off, and forgets no request.       *)
LEMMA RestartSteady ==
  ASSUME IInv, Restart, NEW m \in Missions, ~Queued(m), mission[m].known, MayContinue(mission[m])
  PROVE  Steady(m)
<1> DEFINE r == mission[m]
           p == Reconciled(r)
<1>1. r \in States
  BY TypeParts, SMT DEF IInv, Rest
<1>2. PICK W : mission' = [n \in Missions |-> Asks(n, W, Reconciled(mission[n]))]
  BY Zenon DEF Restart
<1>3. mission'[m] = Asks(m, W, p)
  BY <1>2
<1>4. /\ p \in States /\ p.wait = r.wait /\ p.asked = r.asked /\ p.known = r.known
      /\ p.held = r.held /\ p.st = r.st
  <2>1. p = r \/ p = [r EXCEPT !.attempt = "none"]
    BY Zenon DEF Reconciled
  <2>2. CASE p = r
    BY <1>1, <2>2, Zenon
  <2>3. CASE p = [r EXCEPT !.attempt = "none"]
    <3> HIDE DEF p, r
    <3>1. QED
      BY <1>1, <2>3, SMT DEF States
  <2>4. QED
    BY <2>1, <2>2, <2>3, Zenon
<1>5. MayContinue(p)
  BY <1>4, Zenon DEF MayContinue
<1> HIDE DEF p
<1>6. Asks(m, W, p) = p \/ Asks(m, W, p) = Requested(m, p)
  BY Zenon DEF Asks
<1>7. /\ Requested(m, p).wait = p.wait /\ (p.asked => Requested(m, p).asked)
      /\ Requested(m, p).asked
  BY <1>4, <1>5, RequestedDue, Zenon
<1>8. CutOff(m) => Asks(m, W, p) = Requested(m, p)
  BY Zenon DEF CutOff, Asks
<1>9. QED
  BY <1>3, <1>4, <1>6, <1>7, <1>8, Zenon DEF Steady, StillDue

LEMMA NextSteady ==
  ASSUME IInv, Own, [Next]_vars, NEW m \in Missions, ~Queued(m), mission[m].known,
         MayContinue(mission[m])
  PROVE  Steady(m)
<1>1. CASE \E j \in Callers, k \in Called : Accept(j, k)
  BY <1>1, SameSteady, Zenon DEF Accept
<1>2. CASE \E j \in Jobs : Run(j) \/ OpenAttempt(j) \/ OpenReview(j)
  BY <1>2, RunSteady, Zenon
<1>3. CASE QueueTick
  BY <1>3, QueueSteady
<1>4. CASE WakeTick
  BY <1>4, SameSteady, Zenon DEF WakeTick, Scan, EndScan, Look, Launch
<1>5. CASE \E k \in Missions : Resumes(k) \/ Enqueue(k) \/ ActOfL3(k) \/ Ripen(k)
  <2>1. ASSUME NEW k \in Missions, Enqueue(k) PROVE Steady(m)
    BY <2>1, SameSteady, Zenon DEF Enqueue
  <2>2. QED
    BY <1>5, <2>1, ResumesSteady, ActSteady, RipenSteady, Zenon
<1>6. CASE Process \/ Close \/ Die \/ Failures
  <2>1. CASE Restart
    BY <2>1, RestartSteady
  <2>2. CASE AwaitTick \/ Closed \/ Close \/ Die \/ Failures
    <3>1. mission' = mission
      BY <2>2, Zenon DEF AwaitTick, Closed, Close, Die, Perish, Failures, LookFails, QueueReadFails,
                         WakeReadFails, StopFails
    <3>2. ~Dead
      BY <2>2, SMT DEF AwaitTick, Closed, Close, Die, Alive, Dead, Failures, LookFails,
                       QueueReadFails, WakeReadFails
    <3>3. QED
      BY <3>1, <3>2, SameSteady
  <2>3. QED
    BY <1>6, <2>1, <2>2, Zenon DEF Process
<1>7. CASE UNCHANGED vars
  BY <1>7, SameSteady, Zenon DEF vars
<1>8. QED
  BY <1>1, <1>2, <1>3, <1>4, <1>5, <1>6, <1>7, Zenon DEF Next

(* Nothing leaves the queue.                                               *)
LEMMA QueuedStays ==
  ASSUME IInv, [Next]_vars, NEW m \in Missions, Queued(m)
  PROVE  Queued(m)'
<1>1. line \in Seq(Missions)
  BY TypeParts DEF IInv, Rest
<1>2. CASE line' = line
  BY <1>2 DEF Queued, Contains
<1>3. ASSUME NEW k \in Missions, line' = Append(line, k) PROVE Queued(m)'
  <2>1. PICK i \in 1..Len(line) : line[i] = m
    BY DEF Queued, Contains
  <2>2. Len(line') = Len(line) + 1 /\ \A n \in 1..Len(line) : line'[n] = line[n]
    BY <1>1, <1>3, SMT
  <2>3. i \in 1..Len(line') /\ line'[i] = m
    BY <1>1, <2>1, <2>2, SMT
  <2>4. QED
    BY <2>3 DEF Queued, Contains
<1>4. QED
  BY <1>2, <1>3, Zenon
     DEF Next, Accept, Run, Enter, Started, Prepare, CloseAttempt, EndRun, Leave, OpenAttempt,
         OpenReview, QueueTick, Pick, RecordStart, After, Hold, WakeTick, Scan, EndScan, Look, Launch,
         Resumes, Record, RecordFails, Enqueue, ActOfL3, Ripen, Process, AwaitTick, Closed, Restart,
         Close, Die, Perish, Failures, LookFails, QueueReadFails, WakeReadFails, StopFails, vars

LEMMA WaitsStep ==
  ASSUME IInv, Own, [Next]_vars, NEW m \in Missions, Waits(m)
  PROVE  (Waits(m) \/ Heading(m) \/ Taken(m) \/ ~MayRun(m))'
<1> SUFFICES ASSUME MayRun(m)', ~Taken(m)', ~Heading(m)' PROVE Waits(m)'
  OBVIOUS
<1>1. CASE Queued(m)'
  BY <1>1 DEF Waits
<1>2. CASE ~Queued(m)'
  <2>1. ~Queued(m) /\ mission[m].known /\ MayContinue(mission[m])
    BY <1>2, QueuedStays DEF Waits, MayRun
  <2>2. MayContinue(mission'[m])
    BY <1>2 DEF MayRun, MayContinue
  <2>3. StillDue(m)
    BY <2>1, <2>2, NextSteady DEF Steady
  <2>4. mission[m].wait = "ripe" \/ mission[m].asked \/ CutOff(m)
    BY <2>1 DEF Waits
  <2>5. QED
    BY <2>3, <2>4 DEF Waits, StillDue
<1>3. QED
  BY <1>1, <1>2

(* No wake is lost, for any number of callers, Missions and queues: what   *)
(* waits to be run waits on through every act, close, death and restart    *)
(* until a driver takes it up, and the driver runs it, finds it run by     *)
(* another or dies with the process.                                       *)
THEOREM WakesAreKept == Spec => WakeIsKept
<1>1. ASSUME IInv, Own, [Next]_vars
      PROVE  [\A m \in Missions :
                /\ Waits(m) => (Waits(m) \/ Heading(m) \/ Taken(m) \/ ~MayRun(m))'
                /\ Heading(m) => (Heading(m) \/ Taken(m))' \/ Dead']_vars
  BY <1>1, WaitsStep, HeadingStep, Zenon
<1>2. QED
  BY <1>1, Inductive, OwnInvariant, PTL DEF Spec, WakeIsKept

=============================================================================
