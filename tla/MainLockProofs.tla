--------------------------- MODULE MainLockProofs ---------------------------
(***************************************************************************)
(* Proofs about module MainLock, for any set of processes.                 *)
(*                                                                         *)
(* The inductive invariant says whose the gate and the lock are.  A        *)
(* process between the mkdir of the gate and its release has made the      *)
(* gate, so there is one of them (GateOwner).  A process that takes the    *)
(* lock for its own has made the directory at the path (LockOwner): a      *)
(* takeover, which removes a directory of another, does so only in the     *)
(* gate and only when the holder it has assessed is dead, and the lock at  *)
(* the path is still that one's or gone (Proven).  Traced and Opened carry *)
(* what the audit trail and the versions of the state file need.           *)
(***************************************************************************)
EXTENDS MainLock, TLAPS

GateOwner == \A p \in Procs : pc[p] \in InGate => gate.by = p

LockOwner == \A p \in Procs : pc[p] \in Owning => lock.by = p

Proven ==
  \A p \in Procs : pc[p] \in {"assessed", "rechecked"}
                     => Dead(seen[p]) /\ lock.by \in {seen[p], NoProc}

Traced ==
  \A p \in Procs :
    /\ pc[p] \in {"idle", "refused", "gated", "marked", "made", "written", "busy", "knocked"}
         => seen[p] = NoProc
    /\ pc[p] \in {"assessed", "rechecked", "moved", "cleared", "remade", "rewritten"}
         => seen[p] \in Procs
    /\ (pc[p] \in {"audited", "holding", "beating", "leaving"} /\ seen[p] # NoProc)
         => <<seen[p], p>> \in audit

Opened ==
  \A p \in Procs : base[p] # Unopened => pc[p] \in {"holding", "beating"} /\ base[p] = file

IInv == TypeOK /\ GateOwner /\ LockOwner /\ Proven /\ Traced /\ Opened

-----------------------------------------------------------------------------
(* What the directories become.                                            *)

LEMMA NewDir ==
  NoDir \in Dir /\ NoDir.holder = NoProc /\ NoDir.by = NoProc
BY BoundAssumption, SMT DEF Dir, NoDir

LEMMA NewLock ==
  ASSUME NEW p \in Procs
  PROVE  Made(p) \in Dir /\ Made(p).holder = NoProc
<1>1. ASSUME NEW d \in Dir
      PROVE  [d EXCEPT !.by = p] \in Dir /\ [d EXCEPT !.by = p].holder = d.holder
  BY SMT DEF Dir
<1>2. QED
  BY <1>1, NewDir, Zenon DEF Made

LEMMA SignedDir ==
  ASSUME NEW d \in Dir, NEW h \in Procs \cup {NoProc}, NEW b \in 0..Stale
  PROVE  /\ [d EXCEPT !.holder = h, !.beat = b] \in Dir
         /\ [d EXCEPT !.holder = h, !.beat = b].holder = h
         /\ [d EXCEPT !.holder = h, !.beat = b].by = d.by
<1>1. [d EXCEPT !.holder = h, !.beat = b] \in Dir
  BY Zenon DEF Dir
<1>2. QED
  BY <1>1, SMT DEF Dir

LEMMA PublishedDir ==
  ASSUME NEW d \in Dir
  PROVE  /\ [d EXCEPT !.port = TRUE] \in Dir
         /\ [d EXCEPT !.port = TRUE].holder = d.holder
         /\ [d EXCEPT !.port = TRUE].by = d.by
<1>1. [d EXCEPT !.port = TRUE] \in Dir
  BY Zenon DEF Dir
<1>2. QED
  BY <1>1, Zenon DEF Dir

-----------------------------------------------------------------------------
(* Every step keeps the invariant.                                         *)

LEMMA AskStep ==
  ASSUME NEW p \in Procs, IInv, Ask(p)
  PROVE  IInv'
<1> USE ProcAssumption, BoundAssumption DEF IInv, Ask, Goto, MakeGate, GateFree, NoGate
<1>1. TypeOK'
  BY SMTT(30) DEF TypeOK, Dir, Gate, NoDir, PCs, InGate, Owning, LockOwner, GateOwner, Traced, Unopened
<1>2. GateOwner'
  BY SMTT(30) DEF TypeOK, GateOwner, Gate, InGate
<1>3. LockOwner'
  BY SMTT(30) DEF TypeOK, LockOwner, GateOwner, Proven, Dir, Made, NoDir, InGate, Owning, Dead
<1>4. Proven'
  BY SMTT(30) DEF TypeOK, Proven, GateOwner, LockOwner, Dir, Dead, InGate, Owning, Made, NoDir
<1>5. Traced'
  BY SMTT(30) DEF TypeOK, Traced
<1>6. Opened'
  BY SMTT(30) DEF TypeOK, Opened, Unopened, LockOwner, Owning
<1>7. QED
  BY <1>1, <1>2, <1>3, <1>4, <1>5, <1>6

LEMMA AskRefusedStep ==
  ASSUME NEW p \in Procs, IInv, AskRefused(p)
  PROVE  IInv'
<1> USE ProcAssumption, BoundAssumption DEF IInv, AskRefused, Goto, GateFree, NoGate
<1>1. TypeOK'
  BY SMTT(30) DEF TypeOK, Dir, Gate, NoDir, PCs, InGate, Owning, LockOwner, GateOwner, Traced, Unopened
<1>2. GateOwner'
  BY SMTT(30) DEF TypeOK, GateOwner, Gate, InGate
<1>3. LockOwner'
  BY SMTT(30) DEF TypeOK, LockOwner, GateOwner, Proven, Dir, Made, NoDir, InGate, Owning, Dead
<1>4. Proven'
  BY SMTT(30) DEF TypeOK, Proven, GateOwner, LockOwner, Dir, Dead, InGate, Owning, Made, NoDir
<1>5. Traced'
  BY SMTT(30) DEF TypeOK, Traced
<1>6. Opened'
  BY SMTT(30) DEF TypeOK, Opened, Unopened, LockOwner, Owning
<1>7. QED
  BY <1>1, <1>2, <1>3, <1>4, <1>5, <1>6

LEMMA MarkGateStep ==
  ASSUME NEW p \in Procs, IInv, MarkGate(p)
  PROVE  IInv'
<1> USE ProcAssumption, BoundAssumption DEF IInv, MarkGate, Goto, NoGate
<1>1. TypeOK'
  BY SMTT(30) DEF TypeOK, Dir, Gate, NoDir, PCs, InGate, Owning, LockOwner, GateOwner, Traced, Unopened
<1>2. GateOwner'
  BY SMTT(30) DEF TypeOK, GateOwner, Gate, InGate
<1>3. LockOwner'
  BY SMTT(30) DEF TypeOK, LockOwner, GateOwner, Proven, Dir, Made, NoDir, InGate, Owning, Dead
<1>4. Proven'
  BY SMTT(30) DEF TypeOK, Proven, GateOwner, LockOwner, Dir, Dead, InGate, Owning, Made, NoDir
<1>5. Traced'
  BY SMTT(30) DEF TypeOK, Traced
<1>6. Opened'
  BY SMTT(30) DEF TypeOK, Opened, Unopened, LockOwner, Owning
<1>7. QED
  BY <1>1, <1>2, <1>3, <1>4, <1>5, <1>6

LEMMA MkdirStep ==
  ASSUME NEW p \in Procs, IInv, Mkdir(p)
  PROVE  IInv'
<1> USE ProcAssumption, BoundAssumption DEF IInv, Mkdir, Goto, MakeLock, NoGate
<1>1. TypeOK'
  <2>1. Made(p) \in Dir /\ Made(p).holder = NoProc
    BY NewLock
  <2>2. lock' \in Dir /\ lock'.holder \in {lock'.by, NoProc}
    BY <2>1, SMT DEF TypeOK
  <2>3. aside' \in [Procs -> Dir]
    BY SMTT(30) DEF TypeOK
  <2>4. QED
    BY <2>2, <2>3, SMTT(30) DEF TypeOK, Gate, PCs, InGate, Owning
<1>2. GateOwner'
  BY SMTT(30) DEF TypeOK, GateOwner, Gate, InGate
<1>3. LockOwner'
  BY SMTT(30) DEF TypeOK, LockOwner, GateOwner, Proven, Dir, Made, NoDir, InGate, Owning, Dead
<1>4. Proven'
  BY SMTT(30) DEF TypeOK, Proven, GateOwner, LockOwner, Dir, Dead, InGate, Owning, Made, NoDir
<1>5. Traced'
  BY SMTT(30) DEF TypeOK, Traced
<1>6. Opened'
  BY SMTT(30) DEF TypeOK, Opened, Unopened, LockOwner, Owning
<1>7. QED
  BY <1>1, <1>2, <1>3, <1>4, <1>5, <1>6

LEMMA SignInStep ==
  ASSUME NEW p \in Procs, IInv, SignIn(p)
  PROVE  IInv'
<1> USE ProcAssumption, BoundAssumption DEF IInv, SignIn, Goto, WriteHolder, NoGate
<1>1. TypeOK'
  <2>1. lock.by = p /\ lock \in Dir
    BY SMT DEF TypeOK, LockOwner, Owning
  <2>2. lock' \in Dir /\ lock'.holder \in {lock'.by, NoProc}
    <3>1. PICK h \in {p, NoProc} :
            lock' = [lock EXCEPT !.holder = h, !.beat = IF h = p THEN Stale ELSE 0]
      BY Zenon
    <3>2. h \in Procs \cup {NoProc} /\ (IF h = p THEN Stale ELSE 0) \in 0..Stale
      BY SMT
    <3> DEFINE b == IF h = p THEN Stale ELSE 0
    <3>3. lock' \in Dir /\ lock'.holder = h /\ lock'.by = lock.by
      <4>1. b \in 0..Stale /\ lock' = [lock EXCEPT !.holder = h, !.beat = b]
        BY <3>1, <3>2
      <4> HIDE DEF b
      <4>2. QED
        BY ONLY <2>1, <3>2, <4>1, SignedDir, ZenonT(40)
    <3>4. QED
      BY <2>1, <3>3, Zenon
  <2>3. aside' \in [Procs -> Dir]
    BY SMTT(30) DEF TypeOK
  <2>4. QED
    BY <2>2, <2>3, SMTT(30) DEF TypeOK, Gate, PCs, InGate, Owning
<1>2. GateOwner'
  BY SMTT(30) DEF TypeOK, GateOwner, Gate, InGate
<1>3. LockOwner'
  BY SMTT(30) DEF TypeOK, LockOwner, GateOwner, Proven, Dir, Made, NoDir, InGate, Owning, Dead
<1>4. Proven'
  BY SMTT(30) DEF TypeOK, Proven, GateOwner, LockOwner, Dir, Dead, InGate, Owning, Made, NoDir
<1>5. Traced'
  BY SMTT(30) DEF TypeOK, Traced
<1>6. Opened'
  BY SMTT(30) DEF TypeOK, Opened, Unopened, LockOwner, Owning
<1>7. QED
  BY <1>1, <1>2, <1>3, <1>4, <1>5, <1>6

LEMMA LeaveGateStep ==
  ASSUME NEW p \in Procs, IInv, LeaveGate(p)
  PROVE  IInv'
<1> USE ProcAssumption, BoundAssumption DEF IInv, LeaveGate, Goto, GateAfterRelease, NoGate
<1>1. TypeOK'
  BY SMTT(30) DEF TypeOK, Dir, Gate, NoDir, PCs, InGate, Owning, LockOwner, GateOwner, Traced, Unopened
<1>2. GateOwner'
  BY SMTT(30) DEF TypeOK, GateOwner, Gate, InGate
<1>3. LockOwner'
  BY SMTT(30) DEF TypeOK, LockOwner, GateOwner, Proven, Dir, Made, NoDir, InGate, Owning, Dead
<1>4. Proven'
  BY SMTT(30) DEF TypeOK, Proven, GateOwner, LockOwner, Dir, Dead, InGate, Owning, Made, NoDir
<1>5. Traced'
  BY SMTT(30) DEF TypeOK, Traced
<1>6. Opened'
  BY SMTT(30) DEF TypeOK, Opened, Unopened, LockOwner, Owning
<1>7. QED
  BY <1>1, <1>2, <1>3, <1>4, <1>5, <1>6

LEMMA ReturnStep ==
  ASSUME NEW p \in Procs, IInv, Return(p)
  PROVE  IInv'
<1> USE ProcAssumption, BoundAssumption DEF IInv, Return, Goto, NoGate
<1>1. TypeOK'
  BY SMTT(30) DEF TypeOK, Dir, Gate, NoDir, PCs, InGate, Owning, LockOwner, GateOwner, Traced, Unopened
<1>2. GateOwner'
  BY SMTT(30) DEF TypeOK, GateOwner, Gate, InGate
<1>3. LockOwner'
  BY SMTT(30) DEF TypeOK, LockOwner, GateOwner, Proven, Dir, Made, NoDir, InGate, Owning, Dead
<1>4. Proven'
  BY SMTT(30) DEF TypeOK, Proven, GateOwner, LockOwner, Dir, Dead, InGate, Owning, Made, NoDir
<1>5. Traced'
  BY SMTT(30) DEF TypeOK, Traced
<1>6. Opened'
  BY SMTT(30) DEF TypeOK, Opened, Unopened, LockOwner, Owning
<1>7. QED
  BY <1>1, <1>2, <1>3, <1>4, <1>5, <1>6

LEMMA KnockStep ==
  ASSUME NEW p \in Procs, IInv, Knock(p)
  PROVE  IInv'
<1> USE ProcAssumption, BoundAssumption DEF IInv, Knock, Goto, MakeGate, GateFree, NoGate
<1>1. TypeOK'
  BY SMTT(30) DEF TypeOK, Dir, Gate, NoDir, PCs, InGate, Owning, LockOwner, GateOwner, Traced, Unopened
<1>2. GateOwner'
  BY SMTT(30) DEF TypeOK, GateOwner, Gate, InGate
<1>3. LockOwner'
  BY SMTT(30) DEF TypeOK, LockOwner, GateOwner, Proven, Dir, Made, NoDir, InGate, Owning, Dead
<1>4. Proven'
  BY SMTT(30) DEF TypeOK, Proven, GateOwner, LockOwner, Dir, Dead, InGate, Owning, Made, NoDir
<1>5. Traced'
  BY SMTT(30) DEF TypeOK, Traced
<1>6. Opened'
  BY SMTT(30) DEF TypeOK, Opened, Unopened, LockOwner, Owning
<1>7. QED
  BY <1>1, <1>2, <1>3, <1>4, <1>5, <1>6

LEMMA AssessStep ==
  ASSUME NEW p \in Procs, IInv, Assess(p)
  PROVE  IInv'
<1> USE ProcAssumption, BoundAssumption DEF IInv, Assess, Goto, Recoverable, NoGate
<1>1. TypeOK'
  BY SMTT(30) DEF TypeOK, Dir, Gate, NoDir, PCs, InGate, Owning, LockOwner, GateOwner, Traced, Unopened
<1>2. GateOwner'
  BY SMTT(30) DEF TypeOK, GateOwner, Gate, InGate
<1>3. LockOwner'
  BY SMTT(30) DEF TypeOK, LockOwner, GateOwner, Proven, Dir, Made, NoDir, InGate, Owning, Dead
<1>4. Proven'
  BY SMTT(30) DEF TypeOK, Proven, GateOwner, LockOwner, Dir, Dead, InGate, Owning, Made, NoDir
<1>5. Traced'
  <2>1. Recoverable(FALSE) \/ Recoverable(TRUE) => lock.holder \in Procs
    BY SMT DEF TypeOK, Dir
  <2>2. QED
    BY <2>1, SMTT(30) DEF TypeOK, Traced
<1>6. Opened'
  BY SMTT(30) DEF TypeOK, Opened, Unopened, LockOwner, Owning
<1>7. QED
  BY <1>1, <1>2, <1>3, <1>4, <1>5, <1>6

LEMMA RecheckStep ==
  ASSUME NEW p \in Procs, IInv, Recheck(p)
  PROVE  IInv'
<1> USE ProcAssumption, BoundAssumption DEF IInv, Recheck, Goto, Recoverable, NoGate
<1>1. TypeOK'
  BY SMTT(30) DEF TypeOK, Dir, Gate, NoDir, PCs, InGate, Owning, LockOwner, GateOwner, Traced, Unopened
<1>2. GateOwner'
  BY SMTT(30) DEF TypeOK, GateOwner, Gate, InGate
<1>3. LockOwner'
  BY SMTT(30) DEF TypeOK, LockOwner, GateOwner, Proven, Dir, Made, NoDir, InGate, Owning, Dead
<1>4. Proven'
  BY SMTT(30) DEF TypeOK, Proven, GateOwner, LockOwner, Dir, Dead, InGate, Owning, Made, NoDir
<1>5. Traced'
  BY SMTT(30) DEF TypeOK, Traced
<1>6. Opened'
  BY SMTT(30) DEF TypeOK, Opened, Unopened, LockOwner, Owning
<1>7. QED
  BY <1>1, <1>2, <1>3, <1>4, <1>5, <1>6

LEMMA MoveAsideStep ==
  ASSUME NEW p \in Procs, IInv, MoveAside(p)
  PROVE  IInv'
<1> USE ProcAssumption, BoundAssumption DEF IInv, MoveAside, Goto, NoGate
<1>1. TypeOK'
  <2>1. NoDir \in Dir /\ lock \in Dir /\ NoDir.holder = NoDir.by
    BY NewDir, Zenon DEF TypeOK
  <2>2. lock' \in Dir /\ lock'.holder \in {lock'.by, NoProc}
    BY <2>1, SMT DEF TypeOK
  <2>3. aside' \in [Procs -> Dir]
    BY <2>1, SMTT(30) DEF TypeOK
  <2>4. QED
    BY <2>2, <2>3, SMTT(30) DEF TypeOK, Gate, PCs, InGate, Owning
<1>2. GateOwner'
  BY SMTT(30) DEF TypeOK, GateOwner, Gate, InGate
<1>3. LockOwner'
  <2>1. ASSUME NEW q \in Procs, pc[q] \in Owning PROVE FALSE
    <3>1. (lock.by = q /\ q = seen[p] /\ pc[q] = "dead") \/ lock.by = NoProc
      BY <2>1, SMTT(30) DEF LockOwner, Proven, Dead
    <3>2. QED
      BY <2>1, <3>1, SMTT(30) DEF Owning, LockOwner
  <2>2. QED
    BY <2>1, SMTT(30) DEF TypeOK, LockOwner, Owning
<1>4. Proven'
  BY SMTT(30) DEF TypeOK, Proven, GateOwner, LockOwner, Dir, Dead, InGate, Owning, Made, NoDir
<1>5. Traced'
  BY SMTT(30) DEF TypeOK, Traced
<1>6. Opened'
  BY SMTT(30) DEF TypeOK, Opened, Unopened, LockOwner, Owning
<1>7. QED
  BY <1>1, <1>2, <1>3, <1>4, <1>5, <1>6

LEMMA CheckMovedStep ==
  ASSUME NEW p \in Procs, IInv, CheckMoved(p)
  PROVE  IInv'
<1> USE ProcAssumption, BoundAssumption DEF IInv, CheckMoved, Goto, NoGate
<1>1. TypeOK'
  BY SMTT(30) DEF TypeOK, Dir, Gate, NoDir, PCs, InGate, Owning, LockOwner, GateOwner, Traced, Unopened
<1>2. GateOwner'
  BY SMTT(30) DEF TypeOK, GateOwner, Gate, InGate
<1>3. LockOwner'
  BY SMTT(30) DEF TypeOK, LockOwner, GateOwner, Proven, Dir, Made, NoDir, InGate, Owning, Dead
<1>4. Proven'
  BY SMTT(30) DEF TypeOK, Proven, GateOwner, LockOwner, Dir, Dead, InGate, Owning, Made, NoDir
<1>5. Traced'
  BY SMTT(30) DEF TypeOK, Traced
<1>6. Opened'
  BY SMTT(30) DEF TypeOK, Opened, Unopened, LockOwner, Owning
<1>7. QED
  BY <1>1, <1>2, <1>3, <1>4, <1>5, <1>6

LEMMA RemakeStep ==
  ASSUME NEW p \in Procs, IInv, Remake(p)
  PROVE  IInv'
<1> USE ProcAssumption, BoundAssumption DEF IInv, Remake, Goto, MakeLock, NoGate
<1>1. TypeOK'
  <2>1. Made(p) \in Dir /\ Made(p).holder = NoProc
    BY NewLock
  <2>2. lock' \in Dir /\ lock'.holder \in {lock'.by, NoProc}
    BY <2>1, SMT DEF TypeOK
  <2>3. aside' \in [Procs -> Dir]
    BY SMTT(30) DEF TypeOK
  <2>4. QED
    BY <2>2, <2>3, SMTT(30) DEF TypeOK, Gate, PCs, InGate, Owning
<1>2. GateOwner'
  BY SMTT(30) DEF TypeOK, GateOwner, Gate, InGate
<1>3. LockOwner'
  BY SMTT(30) DEF TypeOK, LockOwner, GateOwner, Proven, Dir, Made, NoDir, InGate, Owning, Dead
<1>4. Proven'
  BY SMTT(30) DEF TypeOK, Proven, GateOwner, LockOwner, Dir, Dead, InGate, Owning, Made, NoDir
<1>5. Traced'
  BY SMTT(30) DEF TypeOK, Traced
<1>6. Opened'
  BY SMTT(30) DEF TypeOK, Opened, Unopened, LockOwner, Owning
<1>7. QED
  BY <1>1, <1>2, <1>3, <1>4, <1>5, <1>6

LEMMA ResignStep ==
  ASSUME NEW p \in Procs, IInv, Resign(p)
  PROVE  IInv'
<1> USE ProcAssumption, BoundAssumption DEF IInv, Resign, Goto, WriteHolder, NoGate
<1>1. TypeOK'
  <2>1. lock.by = p /\ lock \in Dir
    BY SMT DEF TypeOK, LockOwner, Owning
  <2>2. lock' \in Dir /\ lock'.holder \in {lock'.by, NoProc}
    <3>1. PICK h \in {p, NoProc} :
            lock' = [lock EXCEPT !.holder = h, !.beat = IF h = p THEN Stale ELSE 0]
      BY Zenon
    <3>2. h \in Procs \cup {NoProc} /\ (IF h = p THEN Stale ELSE 0) \in 0..Stale
      BY SMT
    <3> DEFINE b == IF h = p THEN Stale ELSE 0
    <3>3. lock' \in Dir /\ lock'.holder = h /\ lock'.by = lock.by
      <4>1. b \in 0..Stale /\ lock' = [lock EXCEPT !.holder = h, !.beat = b]
        BY <3>1, <3>2
      <4> HIDE DEF b
      <4>2. QED
        BY ONLY <2>1, <3>2, <4>1, SignedDir, ZenonT(40)
    <3>4. QED
      BY <2>1, <3>3, Zenon
  <2>3. aside' \in [Procs -> Dir]
    BY SMTT(30) DEF TypeOK
  <2>4. QED
    BY <2>2, <2>3, SMTT(30) DEF TypeOK, Gate, PCs, InGate, Owning
<1>2. GateOwner'
  BY SMTT(30) DEF TypeOK, GateOwner, Gate, InGate
<1>3. LockOwner'
  BY SMTT(30) DEF TypeOK, LockOwner, GateOwner, Proven, Dir, Made, NoDir, InGate, Owning, Dead
<1>4. Proven'
  BY SMTT(30) DEF TypeOK, Proven, GateOwner, LockOwner, Dir, Dead, InGate, Owning, Made, NoDir
<1>5. Traced'
  BY SMTT(30) DEF TypeOK, Traced
<1>6. Opened'
  BY SMTT(30) DEF TypeOK, Opened, Unopened, LockOwner, Owning
<1>7. QED
  BY <1>1, <1>2, <1>3, <1>4, <1>5, <1>6

LEMMA AuditStep ==
  ASSUME NEW p \in Procs, IInv, Audit(p)
  PROVE  IInv'
<1> USE ProcAssumption, BoundAssumption DEF IInv, Audit, Goto, NoGate
<1>1. TypeOK'
  BY SMTT(30) DEF TypeOK, Dir, Gate, NoDir, PCs, InGate, Owning, LockOwner, GateOwner, Traced, Unopened
<1>2. GateOwner'
  BY SMTT(30) DEF TypeOK, GateOwner, Gate, InGate
<1>3. LockOwner'
  BY SMTT(30) DEF TypeOK, LockOwner, GateOwner, Proven, Dir, Made, NoDir, InGate, Owning, Dead
<1>4. Proven'
  BY SMTT(30) DEF TypeOK, Proven, GateOwner, LockOwner, Dir, Dead, InGate, Owning, Made, NoDir
<1>5. Traced'
  BY SMTT(30) DEF TypeOK, Traced
<1>6. Opened'
  BY SMTT(30) DEF TypeOK, Opened, Unopened, LockOwner, Owning
<1>7. QED
  BY <1>1, <1>2, <1>3, <1>4, <1>5, <1>6

LEMMA LeaveTakeoverStep ==
  ASSUME NEW p \in Procs, IInv, LeaveTakeover(p)
  PROVE  IInv'
<1> USE ProcAssumption, BoundAssumption DEF IInv, LeaveTakeover, Goto, GateAfterRelease, NoDir, NoGate
<1>1. TypeOK'
  BY SMTT(30) DEF TypeOK, Dir, Gate, NoDir, PCs, InGate, Owning, LockOwner, GateOwner, Traced, Unopened
<1>2. GateOwner'
  BY SMTT(30) DEF TypeOK, GateOwner, Gate, InGate
<1>3. LockOwner'
  BY SMTT(30) DEF TypeOK, LockOwner, GateOwner, Proven, Dir, Made, NoDir, InGate, Owning, Dead
<1>4. Proven'
  BY SMTT(30) DEF TypeOK, Proven, GateOwner, LockOwner, Dir, Dead, InGate, Owning, Made, NoDir
<1>5. Traced'
  BY SMTT(30) DEF TypeOK, Traced
<1>6. Opened'
  BY SMTT(30) DEF TypeOK, Opened, Unopened, LockOwner, Owning
<1>7. QED
  BY <1>1, <1>2, <1>3, <1>4, <1>5, <1>6

LEMMA BeatReadStep ==
  ASSUME NEW p \in Procs, IInv, BeatRead(p)
  PROVE  IInv'
<1> USE ProcAssumption, BoundAssumption DEF IInv, BeatRead, Goto, NoGate
<1>1. TypeOK'
  BY SMTT(30) DEF TypeOK, Dir, Gate, NoDir, PCs, InGate, Owning, LockOwner, GateOwner, Traced, Unopened
<1>2. GateOwner'
  BY SMTT(30) DEF TypeOK, GateOwner, Gate, InGate
<1>3. LockOwner'
  BY SMTT(30) DEF TypeOK, LockOwner, GateOwner, Proven, Dir, Made, NoDir, InGate, Owning, Dead
<1>4. Proven'
  BY SMTT(30) DEF TypeOK, Proven, GateOwner, LockOwner, Dir, Dead, InGate, Owning, Made, NoDir
<1>5. Traced'
  BY SMTT(30) DEF TypeOK, Traced
<1>6. Opened'
  BY SMTT(30) DEF TypeOK, Opened, Unopened, LockOwner, Owning
<1>7. QED
  BY <1>1, <1>2, <1>3, <1>4, <1>5, <1>6

LEMMA BeatWriteStep ==
  ASSUME NEW p \in Procs, IInv, BeatWrite(p)
  PROVE  IInv'
<1> USE ProcAssumption, BoundAssumption DEF IInv, BeatWrite, Goto, NoGate
<1>1. TypeOK'
  <2>1. lock.by = p /\ lock \in Dir
    BY SMT DEF TypeOK, LockOwner, Owning
  <2>2. lock' \in Dir /\ lock'.holder \in {lock'.by, NoProc}
    <3>1. lock' = [lock EXCEPT !.holder = p, !.beat = Stale] \/ lock' = lock
      BY Zenon
    <3>2. p \in Procs \cup {NoProc} /\ Stale \in 0..Stale
      BY SMT
    <3>3. CASE lock' = [lock EXCEPT !.holder = p, !.beat = Stale]
      <4>1. lock' \in Dir /\ lock'.holder = p /\ lock'.by = lock.by
        <5>1. [lock EXCEPT !.holder = p, !.beat = Stale] \in Dir
          BY ONLY <2>1, <3>2, Zenon DEF Dir
        <5>2. /\ [lock EXCEPT !.holder = p, !.beat = Stale].holder = p
              /\ [lock EXCEPT !.holder = p, !.beat = Stale].by = lock.by
          BY ONLY <2>1, SMT DEF Dir
        <5>3. QED
          BY ONLY <3>3, <5>1, <5>2, Zenon
      <4>2. QED
        BY ONLY <2>1, <4>1, Zenon
    <3>4. CASE lock' = lock
      BY ONLY TypeOK, <3>4, Zenon DEF TypeOK
    <3>5. QED
      BY <3>1, <3>3, <3>4
  <2>3. aside' \in [Procs -> Dir]
    BY SMTT(30) DEF TypeOK
  <2>4. QED
    BY <2>2, <2>3, SMTT(30) DEF TypeOK, Gate, PCs, InGate, Owning
<1>2. GateOwner'
  BY SMTT(30) DEF TypeOK, GateOwner, Gate, InGate
<1>3. LockOwner'
  BY SMTT(30) DEF TypeOK, LockOwner, GateOwner, Proven, Dir, Made, NoDir, InGate, Owning, Dead
<1>4. Proven'
  BY SMTT(30) DEF TypeOK, Proven, GateOwner, LockOwner, Dir, Dead, InGate, Owning, Made, NoDir
<1>5. Traced'
  BY SMTT(30) DEF TypeOK, Traced
<1>6. Opened'
  BY SMTT(30) DEF TypeOK, Opened, Unopened, LockOwner, Owning
<1>7. QED
  BY <1>1, <1>2, <1>3, <1>4, <1>5, <1>6

LEMMA PublishPortStep ==
  ASSUME NEW p \in Procs, IInv, PublishPort(p)
  PROVE  IInv'
<1> USE ProcAssumption, BoundAssumption DEF IInv, PublishPort, Goto, NoGate
<1>1. TypeOK'
  <2>1. lock \in Dir
    BY DEF TypeOK
  <2>2. lock' \in Dir /\ lock'.holder \in {lock'.by, NoProc}
    BY <2>1, PublishedDir, Zenon DEF TypeOK
  <2>3. aside' \in [Procs -> Dir]
    BY SMTT(30) DEF TypeOK
  <2>4. QED
    BY <2>2, <2>3, SMTT(30) DEF TypeOK, Gate, PCs, InGate, Owning
<1>2. GateOwner'
  BY SMTT(30) DEF TypeOK, GateOwner, Gate, InGate
<1>3. LockOwner'
  BY SMTT(30) DEF TypeOK, LockOwner, GateOwner, Proven, Dir, Made, NoDir, InGate, Owning, Dead
<1>4. Proven'
  BY SMTT(30) DEF TypeOK, Proven, GateOwner, LockOwner, Dir, Dead, InGate, Owning, Made, NoDir
<1>5. Traced'
  BY SMTT(30) DEF TypeOK, Traced
<1>6. Opened'
  BY SMTT(30) DEF TypeOK, Opened, Unopened, LockOwner, Owning
<1>7. QED
  BY <1>1, <1>2, <1>3, <1>4, <1>5, <1>6

LEMMA ReleaseReadStep ==
  ASSUME NEW p \in Procs, IInv, ReleaseRead(p)
  PROVE  IInv'
<1> USE ProcAssumption, BoundAssumption DEF IInv, ReleaseRead, Goto, StillHeldByUs, NoGate
<1>1. TypeOK'
  BY SMTT(30) DEF TypeOK, Dir, Gate, NoDir, PCs, InGate, Owning, LockOwner, GateOwner, Traced, Unopened
<1>2. GateOwner'
  BY SMTT(30) DEF TypeOK, GateOwner, Gate, InGate
<1>3. LockOwner'
  BY SMTT(30) DEF TypeOK, LockOwner, GateOwner, Proven, Dir, Made, NoDir, InGate, Owning, Dead
<1>4. Proven'
  BY SMTT(30) DEF TypeOK, Proven, GateOwner, LockOwner, Dir, Dead, InGate, Owning, Made, NoDir
<1>5. Traced'
  BY SMTT(30) DEF TypeOK, Traced
<1>6. Opened'
  BY SMTT(30) DEF TypeOK, Opened, Unopened, LockOwner, Owning
<1>7. QED
  BY <1>1, <1>2, <1>3, <1>4, <1>5, <1>6

LEMMA ReleaseRemoveStep ==
  ASSUME NEW p \in Procs, IInv, ReleaseRemove(p)
  PROVE  IInv'
<1> USE ProcAssumption, BoundAssumption DEF IInv, ReleaseRemove, Goto, NoDir, NoGate
<1>1. TypeOK'
  BY SMTT(30) DEF TypeOK, Dir, Gate, NoDir, PCs, InGate, Owning, LockOwner, GateOwner, Traced, Unopened
<1>2. GateOwner'
  BY SMTT(30) DEF TypeOK, GateOwner, Gate, InGate
<1>3. LockOwner'
  BY SMTT(30) DEF TypeOK, LockOwner, GateOwner, Proven, Dir, Made, NoDir, InGate, Owning, Dead
<1>4. Proven'
  BY SMTT(30) DEF TypeOK, Proven, GateOwner, LockOwner, Dir, Dead, InGate, Owning, Made, NoDir
<1>5. Traced'
  BY SMTT(30) DEF TypeOK, Traced
<1>6. Opened'
  BY SMTT(30) DEF TypeOK, Opened, Unopened, LockOwner, Owning
<1>7. QED
  BY <1>1, <1>2, <1>3, <1>4, <1>5, <1>6

LEMMA OpenStoreStep ==
  ASSUME NEW p \in Procs, IInv, OpenStore(p)
  PROVE  IInv'
<1> USE ProcAssumption, BoundAssumption DEF IInv, OpenStore, Goto, lockVars, NoGate
<1>1. TypeOK'
  BY SMTT(30) DEF TypeOK, Dir, Gate, NoDir, PCs, InGate, Owning, LockOwner, GateOwner, Traced, Unopened
<1>2. GateOwner'
  BY SMTT(30) DEF TypeOK, GateOwner, Gate, InGate
<1>3. LockOwner'
  BY SMTT(30) DEF TypeOK, LockOwner, GateOwner, Proven, Dir, Made, NoDir, InGate, Owning, Dead
<1>4. Proven'
  BY SMTT(30) DEF TypeOK, Proven, GateOwner, LockOwner, Dir, Dead, InGate, Owning, Made, NoDir
<1>5. Traced'
  BY SMTT(30) DEF TypeOK, Traced
<1>6. Opened'
  BY SMTT(30) DEF TypeOK, Opened, Unopened, LockOwner, Owning
<1>7. QED
  BY <1>1, <1>2, <1>3, <1>4, <1>5, <1>6

LEMMA WriteStateStep ==
  ASSUME NEW p \in Procs, IInv, WriteState(p)
  PROVE  IInv'
<1> USE ProcAssumption, BoundAssumption DEF IInv, WriteState, Goto, lockVars, NoGate
<1>1. TypeOK'
  BY SMTT(30) DEF TypeOK, Dir, Gate, NoDir, PCs, InGate, Owning, LockOwner, GateOwner, Traced, Unopened
<1>2. GateOwner'
  BY SMTT(30) DEF TypeOK, GateOwner, Gate, InGate
<1>3. LockOwner'
  BY SMTT(30) DEF TypeOK, LockOwner, GateOwner, Proven, Dir, Made, NoDir, InGate, Owning, Dead
<1>4. Proven'
  BY SMTT(30) DEF TypeOK, Proven, GateOwner, LockOwner, Dir, Dead, InGate, Owning, Made, NoDir
<1>5. Traced'
  BY SMTT(30) DEF TypeOK, Traced
<1>6. Opened'
  BY SMTT(30) DEF TypeOK, Opened, Unopened, LockOwner, Owning
<1>7. QED
  BY <1>1, <1>2, <1>3, <1>4, <1>5, <1>6

LEMMA CrashStep ==
  ASSUME NEW p \in Procs, IInv, Crash(p)
  PROVE  IInv'
<1> USE ProcAssumption, BoundAssumption DEF IInv, Crash, Goto, NoGate
<1>1. TypeOK'
  BY SMTT(30) DEF TypeOK, Dir, Gate, NoDir, PCs, InGate, Owning, LockOwner, GateOwner, Traced, Unopened
<1>2. GateOwner'
  BY SMTT(30) DEF TypeOK, GateOwner, Gate, InGate
<1>3. LockOwner'
  BY SMTT(30) DEF TypeOK, LockOwner, GateOwner, Proven, Dir, Made, NoDir, InGate, Owning, Dead
<1>4. Proven'
  BY SMTT(30) DEF TypeOK, Proven, GateOwner, LockOwner, Dir, Dead, InGate, Owning, Made, NoDir
<1>5. Traced'
  BY SMTT(30) DEF TypeOK, Traced
<1>6. Opened'
  BY SMTT(30) DEF TypeOK, Opened, Unopened, LockOwner, Owning
<1>7. QED
  BY <1>1, <1>2, <1>3, <1>4, <1>5, <1>6

LEMMA TickStep ==
  ASSUME IInv, Tick
  PROVE  IInv'
<1> USE BoundAssumption DEF IInv, Tick
<1>1. lock' \in Dir /\ lock'.by = lock.by /\ lock'.holder = lock.holder
  BY SMTT(30) DEF TypeOK, Dir
<1>2. QED
  BY <1>1, SMTT(30) DEF TypeOK, GateOwner, LockOwner, Proven, Traced, Opened, Dead

LEMMA RemoveByHandStep ==
  ASSUME IInv, RemoveByHand
  PROVE  IInv'
<1> USE DEF IInv, RemoveByHand, NobodyWrites
<1>1. TypeOK'
  <2>1. NoDir \in Dir /\ NoDir.holder = NoDir.by /\ NoGate \in Gate
    BY NewDir, SMT DEF Gate, NoGate
  <2>2. QED
    BY <2>1, SMTT(30) DEF TypeOK, NoGate
<1>2. \A p \in Procs : pc'[p] \notin InGate \cup Owning
  BY SMTT(30) DEF InGate, Owning
<1>3. GateOwner' /\ LockOwner' /\ Traced' /\ Opened'
  BY <1>2, SMTT(30) DEF GateOwner, LockOwner, Traced, Opened
<1>4. Proven'
  BY <1>2, SMTT(30) DEF Proven, InGate
<1>5. QED
  BY <1>1, <1>3, <1>4

-----------------------------------------------------------------------------
(* The theorems.                                                           *)

LEMMA InitIInv == Init => IInv
<1> SUFFICES ASSUME Init PROVE IInv
  OBVIOUS
<1> USE ProcAssumption, BoundAssumption DEF Init
<1>1. TypeOK
  BY SMTT(30) DEF TypeOK, Dir, Gate, NoDir, NoGate, PCs, Unopened
<1>2. GateOwner /\ LockOwner /\ Proven /\ Traced /\ Opened
  BY SMTT(30) DEF GateOwner, LockOwner, Proven, Traced, Opened, InGate, Owning
<1>3. QED
  BY <1>1, <1>2 DEF IInv

LEMMA NextIInv == IInv /\ [Next]_vars => IInv'
<1> SUFFICES ASSUME IInv, [Next]_vars PROVE IInv'
  OBVIOUS
<1>1. ASSUME NEW p \in Procs, Acquire(p) PROVE IInv'
  BY <1>1, AskStep, AskRefusedStep, MarkGateStep, MkdirStep, SignInStep, LeaveGateStep,
     ReturnStep, Zenon DEF Acquire
<1>2. ASSUME NEW p \in Procs, TakeOver(p) PROVE IInv'
  BY <1>2, KnockStep, AssessStep, RecheckStep, MoveAsideStep, CheckMovedStep, RemakeStep,
     ResignStep, AuditStep, LeaveTakeoverStep, Zenon DEF TakeOver
<1>3. ASSUME NEW p \in Procs, Hold(p) PROVE IInv'
  BY <1>3, BeatReadStep, BeatWriteStep, PublishPortStep, ReleaseReadStep, ReleaseRemoveStep,
     OpenStoreStep, WriteStateStep, Zenon DEF Hold
<1>4. CASE UNCHANGED vars
  BY <1>4, SMTT(30) DEF vars, IInv, TypeOK, GateOwner, LockOwner, Proven, Traced, Opened, Dead
<1>5. QED
  BY <1>1, <1>2, <1>3, <1>4, CrashStep, TickStep, RemoveByHandStep, Zenon DEF Next

(* Directories, gate, calls and versions keep their types, and a record    *)
(* names the process that made its directory (lock.ts:195 to 515).         *)
THEOREM Typed == Spec => []TypeOK
<1>1. IInv => TypeOK
  BY DEF IInv
<1>2. QED
  BY <1>1, InitIInv, NextIInv, PTL DEF Spec

(* At most one live process takes itself for the writer, for any number of *)
(* processes that crash, take over and clean up at any point of their      *)
(* calls (lock.ts:1 to 11).                                                *)
THEOREM SingleWriter == Spec => []OneWriter
<1>1. IInv => OneWriter
  BY SMT DEF IInv, OneWriter, LockOwner
<1>2. QED
  BY <1>1, InitIInv, NextIInv, PTL DEF Spec

(* Whoever works under a lock it took over is in the audit trail           *)
(* (appendTakeoverAudit).                                                  *)
THEOREM TakeoversAudited == Spec => []TakeoverLeavesTrace
<1>1. IInv => TakeoverLeavesTrace
  BY SMT DEF IInv, TakeoverLeavesTrace, Traced
<1>2. QED
  BY <1>1, InitIInv, NextIInv, PTL DEF Spec

LEMMA HolderWritten ==
  ASSUME lock \in Dir, NEW p \in Procs, NEW to, WriteHolder(p, to)
  PROVE  lock'.by = lock.by
<1>1. PICK h \in {p, NoProc} : lock' = [lock EXCEPT !.holder = h, !.beat = IF h = p THEN Stale ELSE 0]
  BY DEF WriteHolder
<1>2. \A g, b : [lock EXCEPT !.holder = g, !.beat = b].by = lock.by
  BY SMT DEF Dir
<1>3. QED
  BY <1>1, <1>2, Zenon

(* The lock of a live process leaves its path only by its own release:     *)
(* what a takeover moves and a person removes is the lock of a dead one    *)
(* (lock.ts:391 to 515).                                                   *)
THEOREM LiveLocksStay == Spec => LiveLockStays
<1>1. ASSUME IInv, Next, lock.by # NoProc, pc[lock.by] \in Owning, lock'.by # lock.by
      PROVE  pc[lock.by] \in {"leaving", "retracting"} /\ pc'[lock.by] # pc[lock.by]
  <2> USE <1>1 DEF IInv
  <2>1. lock.by \in Procs /\ lock \in Dir
    BY SMT DEF TypeOK, Dir
  <2>2. ASSUME NEW p \in Procs, Acquire(p) PROVE lock'.by = lock.by
    <3>1. CASE Mkdir(p)
      BY <3>1 DEF Mkdir, MakeLock
    <3>2. CASE SignIn(p)
      BY <2>1, <3>2, HolderWritten DEF SignIn
    <3>3. QED
      BY <2>2, <3>1, <3>2, SMT DEF Acquire, Ask, AskRefused, MarkGate, LeaveGate, Return, MakeGate
  <2>3. ASSUME NEW p \in Procs, MoveAside(p) PROVE FALSE
    <3>1. lock.by = seen[p] /\ pc[lock.by] = "dead"
      BY <2>3, SMT DEF MoveAside, Proven, Dead
    <3>2. QED
      BY <3>1 DEF Owning
  <2>4. ASSUME NEW p \in Procs, TakeOver(p) PROVE lock'.by = lock.by
    <3>1. CASE Remake(p)
      BY <3>1 DEF Remake, MakeLock
    <3>2. CASE Resign(p)
      BY <2>1, <3>2, HolderWritten DEF Resign
    <3>3. QED
      BY <2>3, <2>4, <3>1, <3>2, SMT DEF TakeOver, Knock, Assess, Recheck, CheckMoved, Audit,
         LeaveTakeover, MakeGate
  <2>5. ASSUME NEW p \in Procs, ReleaseRemove(p)
        PROVE  pc[lock.by] \in {"leaving", "retracting"} /\ pc'[lock.by] # pc[lock.by]
    <3>1. p = lock.by
      BY <2>5, SMT DEF ReleaseRemove, LockOwner, Owning
    <3>2. QED
      BY <2>5, <3>1, SMT DEF ReleaseRemove, Goto, TypeOK
  <2>6. ASSUME NEW p \in Procs, Hold(p), ~ReleaseRemove(p) PROVE lock'.by = lock.by
    <3>1. CASE BeatWrite(p)
      <4>1. [lock EXCEPT !.holder = p, !.beat = Stale].by = lock.by
        BY ONLY <2>1, SMT DEF Dir
      <4>2. QED
        BY <3>1, <4>1, Zenon DEF BeatWrite
    <3>2. CASE PublishPort(p)
      <4>1. [lock EXCEPT !.port = TRUE].by = lock.by
        BY ONLY <2>1, SMT DEF Dir
      <4>2. QED
        BY <3>2, <4>1, Zenon DEF PublishPort
    <3>3. QED
      BY <2>6, <3>1, <3>2, SMT DEF Hold, BeatRead, ReleaseRead, OpenStore, WriteState, lockVars
  <2>7. ASSUME NEW p \in Procs, Crash(p) PROVE lock'.by = lock.by
    BY <2>7 DEF Crash
  <2>8. CASE Tick
    BY <2>1, <2>8, SMT DEF Tick, Dir
  <2>9. CASE RemoveByHand
    BY <2>1, <2>9, SMT DEF RemoveByHand, NobodyWrites, Owning
  <2>10. QED
    BY <2>2, <2>4, <2>5, <2>6, <2>7, <2>8, <2>9 DEF Next
<1>2. IInv /\ [Next]_vars =>
        [lock.by # NoProc /\ pc[lock.by] \in Owning /\ lock'.by # lock.by
           => pc[lock.by] \in {"leaving", "retracting"} /\ pc'[lock.by] # pc[lock.by]]_vars
  BY <1>1
<1>3. QED
  BY <1>2, InitIInv, NextIInv, PTL DEF Spec, LiveLockStays

(* No lost update of the state file: who writes it has read or written the *)
(* version that is there (main.ts:224 and the lock around it).             *)
THEOREM NoLostUpdate == Spec => LastWriterKnows
<1>1. ASSUME IInv, Next, NEW p \in Procs, file' # file, base'[p] # base[p]
      PROVE  base[p] = file
  <2> USE <1>1 DEF IInv
  <2>1. PICK q \in Procs : WriteState(q)
    <3>1. ASSUME NEW q \in Procs, Acquire(q) PROVE FALSE
      BY <3>1, SMT DEF Acquire, Ask, AskRefused, MarkGate, Mkdir, SignIn, LeaveGate, Return,
         MakeGate, MakeLock, WriteHolder
    <3>2. ASSUME NEW q \in Procs, TakeOver(q) PROVE FALSE
      BY <3>2, SMT DEF TakeOver, Knock, Assess, Recheck, MoveAside, CheckMoved, Remake, Resign,
         Audit, LeaveTakeover, MakeGate, MakeLock, WriteHolder
    <3>3. ASSUME NEW q \in Procs, Hold(q) PROVE WriteState(q)
      BY <3>3, SMT DEF Hold, BeatRead, BeatWrite, PublishPort, ReleaseRead, ReleaseRemove, OpenStore
    <3>4. QED
      BY <3>1, <3>2, <3>3, SMT DEF Next, Crash, Tick, RemoveByHand
  <2>2. p = q
    BY <2>1, SMT DEF WriteState, TypeOK
  <2>3. QED
    BY <2>1, <2>2, SMT DEF WriteState, Opened
<1>2. IInv /\ [Next]_vars =>
        [\A p \in Procs : (file' # file /\ base'[p] # base[p]) => base[p] = file]_vars
  BY <1>1
<1>3. QED
  BY <1>2, InitIInv, NextIInv, PTL DEF Spec, LastWriterKnows

-----------------------------------------------------------------------------
(* The lock implements SoleWriter.  What a step does to the owners is read *)
(* off the labels between which it goes.                                   *)

LEMMA OwnersKept ==
  ASSUME TypeOK, NEW p \in Procs, NEW l, Goto(p, l), pc[p] \in Owning <=> l \in Owning
  PROVE  Owners' = Owners
BY SMT DEF TypeOK, Goto, Owners

LEMMA OwnersTaken ==
  ASSUME TypeOK, NEW p \in Procs, NEW l, Goto(p, l), Owners = {}, l \in Owning
  PROVE  Owners' = {p}
BY SMT DEF TypeOK, Goto, Owners

LEMMA OwnersLeft ==
  ASSUME TypeOK, NEW p \in Procs, NEW l, Goto(p, l), Owners = {p}, l \notin Owning
  PROVE  Owners' = {}
BY SMT DEF TypeOK, Goto, Owners

LEMMA OnlyOwner ==
  ASSUME IInv, NEW p \in Procs, pc[p] \in Owning
  PROVE  Owners = {p}
BY SMT DEF IInv, LockOwner, Owners

LEMMA FreeLock ==
  ASSUME IInv, lock.by = NoProc
  PROVE  Owners = {}
BY ProcAssumption, SMT DEF IInv, LockOwner, Owners

(* A process that does not work on the file has no version of it.          *)
LEMMA NothingRead ==
  ASSUME IInv, NEW p \in Procs, pc[p] \notin {"holding", "beating"}
  PROVE  [base EXCEPT ![p] = Unopened] = base
<1>1. base[p] = Unopened /\ base \in [Procs -> {Unopened} \cup 0..MaxWrites]
  BY DEF IInv, Opened, TypeOK
<1>2. QED
  BY <1>1, Zenon

(* The lock is taken: nobody owned the file.                               *)
LEMMA MakeLockTakes ==
  ASSUME IInv, NEW p \in Procs, NEW to \in Owning, NEW busy, busy \notin Owning,
         pc[p] \notin Owning, MakeLock(p, to, busy)
  PROVE  Writer!Take(p) \/ UNCHANGED <<Owners, file, base>>
<1>1. TypeOK /\ UNCHANGED <<file, base>>
  BY DEF IInv, MakeLock
<1>2. CASE lock.by = NoProc
  <2>1. Owners = {} /\ Goto(p, to)
    BY <1>2, FreeLock DEF MakeLock
  <2>2. Owners' = {p}
    BY <1>1, <2>1, OwnersTaken
  <2>3. QED
    BY <1>1, <2>1, <2>2 DEF Writer!Take
<1>3. CASE lock.by # NoProc
  <2>1. Goto(p, busy)
    BY <1>3 DEF MakeLock
  <2>2. QED
    BY <1>1, <2>1, OwnersKept
<1>4. QED
  BY <1>2, <1>3

LEMMA AcquireOwners ==
  ASSUME IInv, NEW p \in Procs, Acquire(p)
  PROVE  Writer!Take(p) \/ UNCHANGED <<Owners, file, base>>
<1>1. TypeOK
  BY DEF IInv
<1>2. CASE Mkdir(p)
  BY <1>2, MakeLockTakes DEF Mkdir, Owning
<1>3. CASE ~Mkdir(p)
  <2>1. UNCHANGED <<file, base>>
    BY <1>3, SMT DEF Acquire, Ask, AskRefused, MarkGate, SignIn, LeaveGate, Return, MakeGate,
       WriteHolder
  <2>2. PICK l \in PCs : Goto(p, l) /\ (pc[p] \in Owning <=> l \in Owning)
    BY <1>3, SMT DEF Acquire, Ask, AskRefused, MarkGate, SignIn, LeaveGate, Return, MakeGate,
       WriteHolder, PCs, InGate, Owning
  <2>3. QED
    BY <1>1, <2>1, <2>2, OwnersKept
<1>4. QED
  BY <1>2, <1>3

LEMMA TakeOverOwners ==
  ASSUME IInv, NEW p \in Procs, TakeOver(p)
  PROVE  Writer!Take(p) \/ UNCHANGED <<Owners, file, base>>
<1>1. TypeOK
  BY DEF IInv
<1>2. CASE Remake(p)
  BY <1>2, MakeLockTakes DEF Remake, Owning
<1>3. CASE ~Remake(p)
  <2>1. UNCHANGED <<file, base>>
    BY <1>3, SMT DEF TakeOver, Knock, Assess, Recheck, MoveAside, CheckMoved, Resign, Audit,
       LeaveTakeover, MakeGate, WriteHolder
  <2>2. PICK l \in PCs : Goto(p, l) /\ (pc[p] \in Owning <=> l \in Owning)
    BY <1>3, SMT DEF TakeOver, Knock, Assess, Recheck, MoveAside, CheckMoved, Resign, Audit,
       LeaveTakeover, MakeGate, WriteHolder, PCs, InGate, Owning
  <2>3. QED
    BY <1>1, <2>1, <2>2, OwnersKept
<1>4. QED
  BY <1>2, <1>3

LEMMA ReleaseOwners ==
  ASSUME IInv, NEW p \in Procs, ReleaseRead(p) \/ ReleaseRemove(p)
  PROVE  Writer!Close(p) \/ Writer!Leave(p)
<1>1. TypeOK /\ Owners = {p}
  BY OnlyOwner DEF IInv, ReleaseRead, ReleaseRemove, Owning
<1>2. CASE ReleaseRead(p)
  <2>1. UNCHANGED file /\ base' = [base EXCEPT ![p] = Unopened]
    BY <1>2 DEF ReleaseRead
  <2>2. PICK l \in PCs : Goto(p, l)
    BY <1>2, SMT DEF ReleaseRead, PCs, InGate, Owning
  <2>3. Owners' = Owners \/ Owners' = {}
    BY <1>1, <2>2, OwnersKept, OwnersLeft DEF Owners
  <2>4. QED
    BY <1>1, <2>1, <2>3 DEF Writer!Close, Writer!Leave
<1>3. CASE ReleaseRemove(p)
  <2>1. UNCHANGED <<file, base>> /\ base' = [base EXCEPT ![p] = Unopened]
    BY <1>3, NothingRead DEF ReleaseRemove
  <2>2. PICK l \in {"denied", "giveup"} : Goto(p, l)
    BY <1>3 DEF ReleaseRemove
  <2>3. Owners' = {}
    BY <1>1, <2>2, OwnersLeft DEF Owning
  <2>4. QED
    BY <1>1, <2>1, <2>3 DEF Writer!Leave
<1>4. QED
  BY <1>2, <1>3

LEMMA HoldOwners ==
  ASSUME IInv, NEW p \in Procs, Hold(p)
  PROVE  Writer!Next \/ UNCHANGED <<Owners, file, base>>
<1>1. TypeOK
  BY DEF IInv
<1>2. CASE BeatRead(p) \/ BeatWrite(p)
  <2>1. UNCHANGED <<file, base>>
    BY <1>2 DEF BeatRead, BeatWrite
  <2>2. PICK l \in {"holding", "beating"} : Goto(p, l) /\ pc[p] \in {"holding", "beating"}
    BY <1>2 DEF BeatRead, BeatWrite
  <2>3. QED
    BY <1>1, <2>1, <2>2, OwnersKept DEF Owning
<1>3. CASE PublishPort(p)
  BY <1>3 DEF PublishPort, Owners
<1>4. CASE ReleaseRead(p) \/ ReleaseRemove(p)
  BY <1>4, ReleaseOwners DEF Writer!Next
<1>5. CASE OpenStore(p)
  <2>1. Owners = {p} /\ UNCHANGED Owners
    BY <1>5, OnlyOwner DEF OpenStore, lockVars, Owners, Owning
  <2>2. QED
    BY <1>5, <2>1 DEF OpenStore, Writer!Read, Writer!Next
<1>6. CASE WriteState(p)
  <2>1. Owners = {p} /\ UNCHANGED Owners
    BY <1>6, OnlyOwner DEF WriteState, lockVars, Owners, Owning
  <2>2. base[p] = file
    BY <1>6 DEF WriteState, IInv, Opened
  <2>3. QED
    BY <1>6, <2>1, <2>2 DEF WriteState, Writer!Write, Writer!Next
<1>7. QED
  BY <1>2, <1>3, <1>4, <1>5, <1>6 DEF Hold

LEMMA CrashOwners ==
  ASSUME IInv, NEW p \in Procs, Crash(p)
  PROVE  Writer!Leave(p) \/ UNCHANGED <<Owners, file, base>>
<1>1. TypeOK /\ Goto(p, "dead") /\ UNCHANGED file /\ base' = [base EXCEPT ![p] = Unopened]
  BY DEF IInv, Crash
<1>2. CASE pc[p] \in Owning
  <2>1. Owners = {p}
    BY <1>2, OnlyOwner
  <2>2. Owners' = {}
    BY <1>1, <2>1, OwnersLeft DEF Owning
  <2>3. QED
    BY <1>1, <2>1, <2>2 DEF Writer!Leave
<1>3. CASE pc[p] \notin Owning
  <2>1. UNCHANGED Owners
    BY <1>1, <1>3, OwnersKept DEF Owning
  <2>2. UNCHANGED base
    BY <1>1, <1>3, NothingRead DEF Owning
  <2>3. QED
    BY <1>1, <2>1, <2>2
<1>4. QED
  BY <1>2, <1>3

(* The state file sees what it would see of processes that own it one at a *)
(* time: whoever takes it finds no owner, reads it before it works, and    *)
(* replaces only the version it has in memory (lock.ts:1 to 11,            *)
(* main.ts:219 to 262).                                                    *)
THEOREM Refinement == Spec => ImplementsSoleWriter
<1>1. Init => Writer!Init
  BY DEF Init, Writer!Init, Owners, Owning
<1>2. IInv /\ [Next]_vars => [Writer!Next]_(Writer!wvars)
  <2> SUFFICES ASSUME IInv, [Next]_vars
               PROVE  Writer!Next \/ UNCHANGED <<Owners, file, base>>
    BY DEF Writer!wvars
  <2>1. ASSUME NEW p \in Procs, Acquire(p) \/ TakeOver(p) \/ Crash(p)
        PROVE  Writer!Next \/ UNCHANGED <<Owners, file, base>>
    BY <2>1, AcquireOwners, TakeOverOwners, CrashOwners DEF Writer!Next
  <2>2. CASE Tick \/ RemoveByHand \/ UNCHANGED vars
    BY <2>2 DEF Tick, RemoveByHand, vars, Owners
  <2>3. QED
    BY <2>1, <2>2, HoldOwners DEF Next
<1>3. QED
  BY <1>1, <1>2, InitIInv, NextIInv, PTL DEF Spec, Writer!Spec, ImplementsSoleWriter

=============================================================================
