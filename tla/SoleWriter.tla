----------------------------- MODULE SoleWriter -----------------------------
(***************************************************************************)
(* What the lock promises to whoever works on the state file, without      *)
(* directories, gates, heartbeats or takeovers: processes own the file one *)
(* after the other, an owner reads it before it works, and every write     *)
(* replaces the version that its writer has in memory.                     *)
(***************************************************************************)
EXTENDS Integers

CONSTANTS
  Procs,
  Unread    \* no version

VARIABLES
  owners,   \* the processes that own the file
  version,  \* the version of the file
  copy      \* [Procs -> the version the process has in memory]

wvars == <<owners, version, copy>>

Init ==
  /\ owners = {}
  /\ version = 0
  /\ copy = [p \in Procs |-> Unread]

(* The file is taken only when it has no owner: nobody is replaced. *)
Take(p) ==
  /\ owners = {}
  /\ owners' = {p}
  /\ UNCHANGED <<version, copy>>

Read(p) ==
  /\ owners = {p} /\ copy[p] = Unread
  /\ copy' = [copy EXCEPT ![p] = version]
  /\ UNCHANGED <<owners, version>>

Write(p) ==
  /\ owners = {p} /\ copy[p] = version
  /\ version' = version + 1
  /\ copy' = [copy EXCEPT ![p] = version + 1]
  /\ UNCHANGED owners

(* The memory goes first, or with the process. *)
Close(p) ==
  /\ owners = {p}
  /\ copy' = [copy EXCEPT ![p] = Unread]
  /\ UNCHANGED <<owners, version>>

Leave(p) ==
  /\ owners = {p}
  /\ owners' = {}
  /\ copy' = [copy EXCEPT ![p] = Unread]
  /\ UNCHANGED version

Next == \E p \in Procs : Take(p) \/ Read(p) \/ Write(p) \/ Close(p) \/ Leave(p)

Spec == Init /\ [][Next]_wvars
=============================================================================
