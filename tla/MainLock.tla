------------------------------ MODULE MainLock ------------------------------
(***************************************************************************)
(* The single-writer lock of the state file (application/lock.ts) and the  *)
(* processes that ask for it: `mkdir' of the lock directory, the gate that *)
(* guards every step on it, the holder record with its heartbeat and port, *)
(* and the takeover of a lock whose holder is dead.                        *)
(*                                                                         *)
(* One action per file system call: other processes come between any two   *)
(* of them, and a process may be killed between any two.  A member of      *)
(* Procs is one process, a pid; a pid is not used twice.  The contents of  *)
(* the state file are its version.                                         *)
(***************************************************************************)
EXTENDS Integers, FiniteSets

CONSTANTS
  Procs,      \* processes
  NoProc,
  Stale,      \* STALE_LOCK_HEARTBEAT_MS in ticks
  MaxWrites   \* bound of the version of the state file

ASSUME ProcAssumption  == NoProc \notin Procs
ASSUME BoundAssumption == Stale \in Nat \ {0} /\ MaxWrites \in Nat

VARIABLES
  lock,    \* the lock directory: who made it and its holder.json
  gate,    \* the takeover gate: who made it and whether gate.json is there
  aside,   \* [Procs -> the directory the process moved to quarantine]
  audit,   \* takeovers recorded in .lock-audit: <<old holder, new holder>>
  pc,      \* [Procs -> where the process is in its call]
  seen,    \* [Procs -> the holder its takeover has assessed]
  file,    \* version of the state file
  base     \* [Procs -> version its FileStateStore was opened at, or wrote]

lockVars == <<lock, gate, aside, audit, pc, seen>>
vars == <<lock, gate, aside, audit, pc, seen, file, base>>

-----------------------------------------------------------------------------
(* The holder of a directory is what holder.json says: NoProc when it is   *)
(* missing or unreadable.  `beat' is what is left until the heartbeat is   *)
(* stale.  `by' is the process that made the directory; code reads it      *)
(* nowhere, only the properties do.                                        *)
Dir == [by: Procs \cup {NoProc}, holder: Procs \cup {NoProc}, beat: 0..Stale, port: BOOLEAN]

NoDir   == [by |-> NoProc, holder |-> NoProc, beat |-> 0, port |-> FALSE]
Made(p) == [NoDir EXCEPT !.by = p]
Gate    == [by: Procs \cup {NoProc}, marker: Procs \cup {NoProc}]
NoGate  == [by |-> NoProc, marker |-> NoProc]

Unopened == -1

InGate == {"gated", "marked", "made", "written", "busy",
           "knocked", "assessed", "rechecked", "moved", "cleared",
           "remade", "rewritten", "audited", "unaudited", "retracting", "giveup"}

(* The lock is taken and no release has reached its rm. *)
Owning == {"made", "written", "remade", "rewritten", "audited", "unaudited",
           "retracting", "holding", "beating", "leaving"}

PCs == {"idle", "refused", "denied", "dead"} \cup InGate \cup Owning

Dead(p) == pc[p] = "dead"
Goto(p, l) == pc' = [pc EXCEPT ![p] = l]

Init ==
  /\ lock = NoDir /\ gate = NoGate
  /\ aside = [p \in Procs |-> NoDir]
  /\ audit = {}
  /\ pc = [p \in Procs |-> "idle"]
  /\ seen = [p \in Procs |-> NoProc]
  /\ file = 0
  /\ base = [p \in Procs |-> Unopened]

-----------------------------------------------------------------------------
(* acquireTakeoverGate: mkdir, then the marker, whose failure is ignored.  *)

\* Mutation: every call makes a gate of its own name.
GateFree_UniqueName == TRUE

GateFree == gate = NoGate

MakeGate(p, to) ==
  /\ GateFree
  /\ gate' = [by |-> p, marker |-> NoProc]
  /\ Goto(p, to)
  /\ UNCHANGED <<lock, aside, audit, seen, file, base>>

(* acquireLock *)
Ask(p) == pc[p] = "idle" /\ MakeGate(p, "gated")

(* The gate is taken: LockBusyError.  acquireRecoverableLock goes on.      *)
AskRefused(p) ==
  /\ pc[p] = "idle"
  /\ ~GateFree
  /\ Goto(p, "refused")
  /\ UNCHANGED <<lock, gate, aside, audit, seen, file, base>>

MarkGate(p) ==
  /\ pc[p] = "gated"
  /\ \E m \in {p, NoProc} : gate' = [gate EXCEPT !.marker = m]
  /\ Goto(p, "marked")
  /\ UNCHANGED <<lock, aside, audit, seen, file, base>>

(* releaseTakeoverGate: a gate that bears the marker of another stays.     *)
GateAfterRelease(p) == IF gate.marker \in {p, NoProc} THEN NoGate ELSE gate

-----------------------------------------------------------------------------
(* acquireLockHoldingGate: mkdir of the lock directory, then the holder    *)
(* record, whose failure is ignored.                                       *)

MakeLock(p, to, busy) ==
  /\ IF lock.by = NoProc
     THEN lock' = Made(p) /\ Goto(p, to)
     ELSE lock' = lock /\ Goto(p, busy)
  /\ UNCHANGED <<gate, aside, audit, seen, file, base>>

WriteHolder(p, to) ==
  /\ \E h \in {p, NoProc} :
       lock' = [lock EXCEPT !.holder = h, !.beat = IF h = p THEN Stale ELSE 0]
  /\ Goto(p, to)
  /\ UNCHANGED <<gate, aside, audit, seen, file, base>>

Mkdir(p)  == pc[p] = "marked" /\ MakeLock(p, "made", "busy")
SignIn(p) == pc[p] = "made" /\ WriteHolder(p, "written")

LeaveGate(p) ==
  /\ pc[p] \in {"written", "busy"}
  /\ gate' = GateAfterRelease(p)
  /\ Goto(p, IF pc[p] = "written" THEN "holding" ELSE "refused")
  /\ UNCHANGED <<lock, aside, audit, seen, file, base>>

(* The caller gives up or is done, and may ask again later.                *)
Return(p) ==
  /\ pc[p] \in {"refused", "denied"}
  /\ Goto(p, "idle")
  /\ seen' = [seen EXCEPT ![p] = NoProc]
  /\ UNCHANGED <<lock, gate, aside, audit, file, base>>

-----------------------------------------------------------------------------
(* acquireRecoverableLock, once acquireLock was refused.                   *)

Knock(p) == pc[p] = "refused" /\ MakeGate(p, "knocked")

\* Mutation: a heartbeat that stopped is taken for a death.
Recoverable_HeartbeatOnly(free) ==
  /\ lock.holder # NoProc
  /\ lock.beat = 0
  /\ lock.port => free

(* assessStaleLock: the record can be read, its process is dead, its       *)
(* heartbeat stale, and nobody listens on its port.  Whether somebody else *)
(* listens there, or the probe is inconclusive, is the environment's       *)
(* choice.                                                                 *)
Recoverable(free) ==
  /\ lock.holder # NoProc
  /\ Dead(lock.holder)
  /\ lock.beat = 0
  /\ lock.port => free

Assess(p) ==
  /\ pc[p] = "knocked"
  /\ \E free \in BOOLEAN :
       IF Recoverable(free)
       THEN seen' = [seen EXCEPT ![p] = lock.holder] /\ Goto(p, "assessed")
       ELSE seen' = seen /\ Goto(p, "giveup")
  /\ UNCHANGED <<lock, gate, aside, audit, file, base>>

(* A dead process writes neither `since' nor `heartbeatAt' again, so the   *)
(* pid is the whole of sameHolderIdentity.                                 *)
Recheck(p) ==
  /\ pc[p] = "assessed"
  /\ \E free \in BOOLEAN :
       Goto(p, IF Recoverable(free) /\ lock.holder = seen[p] THEN "rechecked" ELSE "giveup")
  /\ UNCHANGED <<lock, gate, aside, audit, seen, file, base>>

MoveAside(p) ==
  /\ pc[p] = "rechecked"
  /\ IF lock.by # NoProc
     THEN /\ aside' = [aside EXCEPT ![p] = lock]
          /\ lock' = NoDir
          /\ Goto(p, "moved")
     ELSE Goto(p, "giveup") /\ UNCHANGED <<lock, aside>>
  /\ UNCHANGED <<gate, audit, seen, file, base>>

(* What was moved must be what was assessed; otherwise it stays where it   *)
(* is and the call stops.                                                  *)
CheckMoved(p) ==
  /\ pc[p] = "moved"
  /\ Goto(p, IF aside[p].holder = seen[p] THEN "cleared" ELSE "giveup")
  /\ UNCHANGED <<lock, gate, aside, audit, seen, file, base>>

Remake(p) == pc[p] = "cleared" /\ MakeLock(p, "remade", "giveup")
Resign(p) == pc[p] = "remade" /\ WriteHolder(p, "rewritten")

(* appendTakeoverAudit: when it fails the new lock is released again. *)
Audit(p) ==
  /\ pc[p] = "rewritten"
  /\ \/ /\ audit' = audit \cup {<<seen[p], p>>}
        /\ Goto(p, "audited")
     \/ /\ audit' = audit
        /\ Goto(p, "unaudited")
  /\ UNCHANGED <<lock, gate, aside, seen, file, base>>

(* The finally block: the gate, then the quarantine if it was its own.     *)
LeaveTakeover(p) ==
  /\ pc[p] \in {"audited", "giveup"}
  /\ gate' = GateAfterRelease(p)
  /\ aside' = [aside EXCEPT ![p] = IF @.holder = seen[p] THEN NoDir ELSE @]
  /\ Goto(p, IF pc[p] = "audited" THEN "holding" ELSE "denied")
  /\ UNCHANGED <<lock, audit, seen, file, base>>

-----------------------------------------------------------------------------
(* Holding.                                                                *)

(* stillHeldByUs: an unreadable record counts as one's own. *)
StillHeldByUs(p) == lock.by # NoProc /\ lock.holder \in {p, NoProc}

(* refreshHeartbeat reads and then renames a new record into the path.     *)
BeatRead(p) ==
  /\ pc[p] = "holding"
  /\ lock.by # NoProc /\ lock.holder = p
  /\ Goto(p, "beating")
  /\ UNCHANGED <<lock, gate, aside, audit, seen, file, base>>

BeatWrite(p) ==
  /\ pc[p] = "beating"
  /\ lock' = IF lock.by # NoProc THEN [lock EXCEPT !.holder = p, !.beat = Stale] ELSE lock
  /\ Goto(p, "holding")
  /\ UNCHANGED <<gate, aside, audit, seen, file, base>>

PublishPort(p) ==
  /\ pc[p] = "holding"
  /\ lock.by # NoProc /\ lock.holder = p /\ ~lock.port
  /\ lock' = [lock EXCEPT !.port = TRUE]
  /\ UNCHANGED <<gate, aside, audit, pc, seen, file, base>>

(* release: the check, then the rm of whatever is at the path.  A takeover *)
(* without its audit record releases before it leaves.                     *)
ReleaseRead(p) ==
  /\ pc[p] \in {"holding", "unaudited"}
  /\ LET kept == pc[p] = "unaudited" IN
       Goto(p, IF StillHeldByUs(p) THEN IF kept THEN "retracting" ELSE "leaving"
               ELSE IF kept THEN "giveup" ELSE "denied")
  /\ base' = [base EXCEPT ![p] = Unopened]
  /\ UNCHANGED <<lock, gate, aside, audit, seen, file>>

ReleaseRemove(p) ==
  /\ pc[p] \in {"leaving", "retracting"}
  /\ lock' = NoDir
  /\ Goto(p, IF pc[p] = "leaving" THEN "denied" ELSE "giveup")
  /\ UNCHANGED <<gate, aside, audit, seen, file, base>>

\* Mutation: the state is read before the lock is asked for.
OpenStore_BeforeLock(p) ==
  /\ pc[p] \in {"idle", "refused"} /\ base[p] = Unopened
  /\ base' = [base EXCEPT ![p] = file]
  /\ UNCHANGED <<lockVars, file>>

(* buildPersistentPlatform: the state is read after the lock was taken.    *)
OpenStore(p) ==
  /\ pc[p] = "holding" /\ base[p] = Unopened
  /\ base' = [base EXCEPT ![p] = file]
  /\ UNCHANGED <<lockVars, file>>

(* Every write of the store is a write of the whole state. *)
WriteState(p) ==
  /\ pc[p] \in {"holding", "beating"} /\ base[p] # Unopened
  /\ file < MaxWrites
  /\ file' = file + 1
  /\ base' = [base EXCEPT ![p] = file + 1]
  /\ UNCHANGED lockVars

-----------------------------------------------------------------------------
(* The environment: time, SIGKILL, and a person who follows the message of *)
(* LockBusyError: remove what a dead process left once no writer runs.     *)
Tick ==
  /\ lock.beat > 0
  /\ lock' = [lock EXCEPT !.beat = @ - 1]
  /\ UNCHANGED <<gate, aside, audit, pc, seen, file, base>>

Crash(p) ==
  /\ ~Dead(p)
  /\ Goto(p, "dead")
  /\ base' = [base EXCEPT ![p] = Unopened]
  /\ UNCHANGED <<lock, gate, aside, audit, seen, file>>

NobodyWrites == \A p \in Procs : pc[p] \in {"idle", "refused", "denied", "dead"}

RemoveByHand ==
  /\ NobodyWrites
  /\ \/ /\ lock.by # NoProc /\ lock' = NoDir /\ gate' = gate
     \/ /\ gate # NoGate /\ gate' = NoGate /\ lock' = lock
  /\ UNCHANGED <<aside, audit, pc, seen, file, base>>

-----------------------------------------------------------------------------
Acquire(p) ==
  \/ Ask(p) \/ AskRefused(p) \/ MarkGate(p) \/ Mkdir(p) \/ SignIn(p)
  \/ LeaveGate(p) \/ Return(p)

TakeOver(p) ==
  \/ Knock(p) \/ Assess(p) \/ Recheck(p) \/ MoveAside(p) \/ CheckMoved(p)
  \/ Remake(p) \/ Resign(p) \/ Audit(p) \/ LeaveTakeover(p)

Hold(p) ==
  \/ BeatRead(p) \/ BeatWrite(p) \/ PublishPort(p)
  \/ ReleaseRead(p) \/ ReleaseRemove(p) \/ OpenStore(p) \/ WriteState(p)

Next ==
  \/ \E p \in Procs : Acquire(p) \/ TakeOver(p) \/ Hold(p) \/ Crash(p)
  \/ Tick
  \/ RemoveByHand

Spec == Init /\ [][Next]_vars

-----------------------------------------------------------------------------
(* Properties.                                                             *)

\* Directories, gate, calls and versions keep their types; a record names
\* the process that made its directory.
TypeOK ==
  /\ lock \in Dir /\ gate \in Gate
  /\ lock.holder \in {lock.by, NoProc} /\ gate.marker \in {gate.by, NoProc}
  /\ aside \in [Procs -> Dir]
  /\ audit \subseteq Procs \X Procs
  /\ pc \in [Procs -> PCs]
  /\ seen \in [Procs -> Procs \cup {NoProc}]
  /\ file \in 0..MaxWrites
  /\ base \in [Procs -> {Unopened} \cup 0..MaxWrites]

(* Two live processes never both take themselves for the writer, whatever  *)
(* dies, is taken over, goes silent or is cleaned up (lock.ts:1 to 11).    *)
OneWriter ==
  \A p, q \in Procs : (pc[p] \in Owning /\ pc[q] \in Owning) => p = q

(* The lock of a live process leaves its path only by its own release:     *)
(* takeovers move only what is proven dead (acquireRecoverableLock).       *)
LiveLockStays ==
  [][lock.by # NoProc /\ pc[lock.by] \in Owning /\ lock'.by # lock.by
       => pc[lock.by] \in {"leaving", "retracting"} /\ pc'[lock.by] # pc[lock.by]]_vars

(* No lost update: whoever writes the whole state file has read, or itself *)
(* written, the version that it replaces.                                  *)
LastWriterKnows ==
  [][\A p \in Procs : (file' # file /\ base'[p] # base[p]) => base[p] = file]_vars

(* Whatever dies, is taken over, goes silent or is cleaned up, the state   *)
(* file sees what it would see of processes that own it one at a time: the *)
(* refinement of SoleWriter (lock.ts:1 to 11, main.ts:219 to 262).         *)
Owners == {p \in Procs : pc[p] \in Owning}

Writer == INSTANCE SoleWriter
  WITH Unread <- Unopened, owners <- Owners, version <- file, copy <- base

ImplementsSoleWriter == Writer!Spec

(* Whoever works under a lock it took over is in the audit trail.          *)
TakeoverLeavesTrace ==
  \A p \in Procs : (pc[p] \in {"holding", "beating", "leaving"} /\ seen[p] # NoProc)
                     => <<seen[p], p>> \in audit
=============================================================================
