----------------------------- MODULE FileStore -----------------------------
(***************************************************************************)
(* FileStateStore (application/file-store.ts) in one process: command      *)
(* transactions (run), writes outside of them (settle, then a row, then    *)
(* flush), ids, the archive of a finished Mission, write failures, and     *)
(* crash and reload.                                                       *)
(*                                                                         *)
(* A call writes one row (an outside write) or two, with an await between  *)
(* (a command).  A step is what the event loop runs without interruption;  *)
(* the write of the file is temp file and rename, and happens or does not. *)
(***************************************************************************)
EXTENDS Integers, Sequences, FiniteSets

CONSTANTS
  Commands,   \* calls of run
  Outside,    \* calls of a repository outside a transaction
  Archived,   \* calls about the Mission that is archived
  MaxCrash, MaxFail

ASSUME CallAssumption == /\ Commands \cap Outside = {} /\ IsFiniteSet(Commands)
                         /\ Archived \subseteq Commands \cup Outside
ASSUME BoundAssumption == MaxCrash \in Nat /\ MaxFail \in Nat

Calls == Commands \cup Outside
Rows  == (Commands \X {1, 2}) \cup (Outside \X {1})

VARIABLES
  mem,     \* rows, archive index and id counter of the process
  disk,    \* the same in the state file
  pack,    \* package file of the archived Mission
  tx,      \* the command whose transaction is open (#tx), with its snapshot
  queue,   \* #txQueue: commands that wait for their turn
  deferred,\* #deferredFlush
  pc,      \* [Calls -> where the call is]
  id,      \* [Calls -> the id PersistentIds gave it, 0: none]
  archiving, \* archiveMission is between its two files
  crashes, fails

vars == <<mem, disk, pack, tx, queue, deferred, pc, id, archiving, crashes, fails>>

-----------------------------------------------------------------------------
State  == [rows: SUBSET Rows, index: BOOLEAN, next: Nat]
NoPack == [there |-> FALSE, rows |-> {}]
NoTx   == [by |-> {}, rows |-> {}]

InTx(c) == c \in tx.by
Open    == tx.by # {}

Live     == {"idle", "queued", "body", "half", "whole", "waiting", "settled"}
Finished == {"ok", "failed", "lost"}

About(rows) == {r \in rows : r[1] \in Archived}

(* What a reader of the files finds: package rows belong to it once the    *)
(* index in the main file names the package (#hydrate).                    *)
Durable == disk.rows \cup (IF disk.index THEN pack.rows ELSE {})
Visible == mem.rows \cup (IF mem.index THEN pack.rows ELSE {})

Init ==
  /\ mem = [rows |-> {}, index |-> FALSE, next |-> 0]
  /\ disk = mem
  /\ pack = NoPack
  /\ tx = NoTx /\ queue = <<>> /\ deferred = FALSE
  /\ pc = [c \in Calls |-> "idle"]
  /\ id = [c \in Calls |-> 0]
  /\ archiving = FALSE /\ crashes = 0 /\ fails = 0

Goto(c, l) == pc' = [pc EXCEPT ![c] = l]

(* #write: all of memory, or nothing when temp file or rename fail. *)
Write(m) == disk' = m /\ fails' = fails

WriteFails == fails < MaxFail /\ fails' = fails + 1 /\ disk' = disk

Running == ~archiving

-----------------------------------------------------------------------------
(* Transactions: run, #begin, #abort.                                      *)

Ask(c) ==
  /\ Running /\ pc[c] = "idle"
  /\ queue' = Append(queue, c)
  /\ Goto(c, "queued")
  /\ UNCHANGED <<mem, disk, pack, tx, deferred, id, archiving, crashes, fails>>

Begin(c) ==
  /\ Running /\ ~Open
  /\ queue # <<>> /\ Head(queue) = c
  /\ queue' = Tail(queue)
  /\ tx' = [by |-> {c}, rows |-> mem.rows]
  /\ Goto(c, "body")
  /\ UNCHANGED <<mem, disk, pack, deferred, id, archiving, crashes, fails>>

(* ids.next and a row; its flush is left to the end of the transaction.  A *)
(* row about an archived Mission is refused.                               *)
FirstRow(c) ==
  /\ Running /\ pc[c] = "body"
  /\ ~(c \in Archived /\ mem.index)
  /\ mem' = [mem EXCEPT !.rows = @ \cup {<<c, 1>>}, !.next = @ + 1]
  /\ id' = [id EXCEPT ![c] = mem.next + 1]
  /\ Goto(c, "half")
  /\ UNCHANGED <<disk, pack, tx, queue, deferred, archiving, crashes, fails>>

SecondRow(c) ==
  /\ Running /\ pc[c] = "half"
  /\ mem' = [mem EXCEPT !.rows = @ \cup {<<c, 2>>}]
  /\ Goto(c, "whole")
  /\ UNCHANGED <<disk, pack, tx, queue, deferred, id, archiving, crashes, fails>>

(* The end of a transaction wakes every call that waits in settle. *)
Woken(c, l) ==
  [d \in Calls |-> IF d = c THEN l ELSE IF pc[d] = "waiting" THEN "settled" ELSE pc[d]]

\* Mutation: a failed transaction leaves what it has written.
Restored_Nothing(m) == m

\* Mutation: the id counter goes back with the rows.
Restored_Counter(m) ==
  [m EXCEPT !.rows = tx.rows, !.next = Cardinality({r \in tx.rows : r[2] = 1})]

(* #abort puts the snapshot back; the id counters are not part of it. *)
Restored(m) == [m EXCEPT !.rows = tx.rows]

\* Mutation: a failed transaction does not let the next one in.
AfterTx_Stuck(c, l) == pc' = Woken(c, l) /\ deferred' = FALSE /\ tx' = [tx EXCEPT !.rows = {}]

\* Mutation: a write put off for one transaction is put off for the next.
AfterTx_Forgets(c, l) == pc' = Woken(c, l) /\ deferred' = deferred /\ tx' = NoTx

AfterTx(c, l) == pc' = Woken(c, l) /\ deferred' = FALSE /\ tx' = NoTx

(* fn threw.  A write that was put off is done now; it may fail, too.      *)
Abort(c) ==
  /\ Running /\ pc[c] \in {"body", "half", "whole"}
  /\ mem' = Restored(mem)
  /\ IF deferred THEN Write(mem') \/ WriteFails ELSE UNCHANGED <<disk, fails>>
  /\ AfterTx(c, "failed")
  /\ UNCHANGED <<pack, queue, id, archiving, crashes>>

Commit(c) ==
  /\ Running /\ pc[c] = "whole"
  /\ Write(mem)
  /\ AfterTx(c, "ok")
  /\ UNCHANGED <<mem, pack, queue, id, archiving, crashes>>

(* The write of the commit fails: #abort, and its own put off write. *)
CommitFails(c) ==
  /\ Running /\ pc[c] = "whole"
  /\ fails < MaxFail /\ fails' = fails + 1
  /\ mem' = Restored(mem)
  /\ disk' \in IF deferred THEN {disk, mem'} ELSE {disk}
  /\ AfterTx(c, "failed")
  /\ UNCHANGED <<pack, queue, id, archiving, crashes>>

-----------------------------------------------------------------------------
(* Writes outside a transaction.  settle returns one turn of the event     *)
(* loop before its caller goes on: a transaction may begin in between.     *)

Settle(c) ==
  /\ Running /\ pc[c] = "idle"
  /\ Goto(c, IF Open THEN "waiting" ELSE "settled")
  /\ UNCHANGED <<mem, disk, pack, tx, queue, deferred, id, archiving, crashes, fails>>

\* Mutation: flush does not ask for an open transaction.
Flush_Always(m) ==
  /\ deferred' = deferred
  /\ Write(m)

(* flush, called from outside the open transaction. *)
Flush(m) ==
  IF Open THEN deferred' = TRUE /\ UNCHANGED <<disk, fails>>
          ELSE deferred' = deferred /\ Write(m)

OutsideRow(c) ==
  /\ Running /\ pc[c] = "settled"
  /\ ~(c \in Archived /\ mem.index)
  /\ mem' = [mem EXCEPT !.rows = @ \cup {<<c, 1>>}, !.next = @ + 1]
  /\ id' = [id EXCEPT ![c] = mem.next + 1]
  /\ \/ Flush(mem') /\ Goto(c, "ok")
     \/ ~Open /\ WriteFails /\ deferred' = deferred /\ Goto(c, "failed")
  /\ UNCHANGED <<pack, tx, queue, archiving, crashes>>

OutsideRefused(c) ==
  /\ Running /\ pc[c] = "settled"
  /\ c \in Archived /\ mem.index
  /\ Goto(c, "failed")
  /\ UNCHANGED <<mem, disk, pack, tx, queue, deferred, id, archiving, crashes, fails>>

-----------------------------------------------------------------------------
(* archiveMission: one turn of the event loop, but two files.              *)

MayArchive == ~Open /\ ~mem.index

(* A package that is there is used if it says the same, or is a conflict. *)
ArchivePackage ==
  /\ Running /\ MayArchive
  /\ About(mem.rows) # {}
  /\ pack.there => pack.rows = About(mem.rows)
  /\ pack' = [there |-> TRUE, rows |-> About(mem.rows)]
  /\ archiving' = TRUE
  /\ UNCHANGED <<mem, disk, tx, queue, deferred, pc, id, crashes, fails>>

\* Mutation: the rows leave the main file although the index was not written.
Trimmed_NoIndex == [mem EXCEPT !.rows = @ \ About(@)]

Trimmed == [mem EXCEPT !.rows = @ \ About(@), !.index = TRUE]

(* Index and trimmed rows go into one write; when it fails, memory is      *)
(* read from the file again.                                               *)
ArchiveIndex ==
  /\ archiving
  /\ \/ mem' = Trimmed /\ Write(Trimmed)
     \/ mem' = disk /\ WriteFails
  /\ archiving' = FALSE
  /\ UNCHANGED <<pack, tx, queue, deferred, pc, id, crashes>>

-----------------------------------------------------------------------------
(* The process dies and the next one reads the files.                      *)
Crash ==
  /\ crashes < MaxCrash
  /\ crashes' = crashes + 1
  /\ mem' = disk
  /\ tx' = NoTx /\ queue' = <<>> /\ deferred' = FALSE /\ archiving' = FALSE
  /\ pc' = [c \in Calls |-> IF pc[c] \in Finished \cup {"idle"} THEN pc[c] ELSE "lost"]
  /\ id' = [c \in Calls |-> IF <<c, 1>> \in Durable THEN id[c] ELSE 0]
  /\ UNCHANGED <<disk, pack, fails>>

CommandStep(c) ==
  Begin(c) \/ FirstRow(c) \/ SecondRow(c) \/ Abort(c) \/ Commit(c) \/ CommitFails(c)

OutsideStep(c) == OutsideRow(c) \/ OutsideRefused(c)

Next ==
  \/ \E c \in Commands : Ask(c) \/ CommandStep(c)
  \/ \E c \in Outside : Settle(c) \/ OutsideStep(c)
  \/ ArchivePackage \/ ArchiveIndex
  \/ Crash

Spec == Init /\ [][Next]_vars

(* Promises resolve, the function of a command ends, an archive goes on.   *)
FairSpec ==
  /\ Spec /\ WF_vars(ArchiveIndex)
  /\ \A c \in Commands : WF_vars(CommandStep(c))
  /\ \A c \in Outside : WF_vars(OutsideStep(c))

-----------------------------------------------------------------------------
(* Properties.                                                             *)

\* States, calls and counters keep their types; a write is put off only
\* while a transaction is open.
TypeOK ==
  /\ mem \in State /\ disk \in State
  /\ pack \in [there: BOOLEAN, rows: SUBSET Rows]
  /\ tx \in [by: SUBSET Commands, rows: SUBSET Rows]
  /\ queue \in Seq(Commands)
  /\ deferred \in BOOLEAN /\ (deferred => Open)
  /\ pc \in [Calls -> Live \cup Finished]
  /\ id \in [Calls -> Nat]
  /\ archiving \in BOOLEAN /\ crashes \in 0..MaxCrash /\ fails \in 0..MaxFail

(* A command that failed left nothing, neither in memory, in the file nor  *)
(* in a package, whatever was put off, archived or written meanwhile.      *)
FailedLeavesNothing ==
  \A c \in Commands : pc[c] = "failed" => \A k \in {1, 2} : <<c, k>> \notin Visible \cup Durable

(* Ids go on across aborts and restarts: two rows never bear the same id   *)
(* (PersistentIds, "ids already issued are not taken back").               *)
IdsNotReissued ==
  \A c, d \in Calls :
    (c # d /\ <<c, 1>> \in Visible \cup Durable /\ <<d, 1>> \in Visible \cup Durable)
       => id[c] # id[d]

(* What a reader finds in the files is there for good, although rows move  *)
(* from the main file into a package and processes die in between.         *)
DurableStays == [][Durable \subseteq Durable']_vars

(* The transactions implement the promise of module CommandLog.            *)
Promise == INSTANCE CommandLog WITH
  kept  <- {c \in Commands : <<c, 1>> \in Durable \/ <<c, 2>> \in Durable},
  reply <- [c \in Commands |-> IF pc[c] \in Finished THEN pc[c] ELSE "none"]

(* Refinement: commands are atomic, durable and acknowledged afterwards.   *)
ImplementsLog == Promise!Spec

(* The turns.  Whenever a call is under way, an archive or some call goes  *)
(* on by itself: the command at the head when no transaction is open (its  *)
(* Begin is possible), the one whose transaction is open (its Abort is),   *)
(* or a settled write.  So nobody waits for a turn that no one will give,  *)
(* after any aborts, failed writes and crashes (#txQueue, the done of an   *)
(* open transaction, settle).                                              *)
MayGo(c) ==
  \/ c \in Commands /\ pc[c] \in {"body", "half", "whole"}
  \/ c \in Commands /\ pc[c] = "queued" /\ ~Open /\ queue # <<>> /\ Head(queue) = c
  \/ c \in Outside /\ pc[c] = "settled"

SomebodyGoes ==
  (\E c \in Calls : pc[c] \notin Finished \cup {"idle"}) =>
    archiving \/ \E c \in Calls : MayGo(c)

(* Every call comes to an end: no order of settle and transactions makes   *)
(* them wait for each other.                                               *)
CallsReturn ==
  \A c \in Calls : (pc[c] \notin Finished \cup {"idle"}) ~> (pc[c] \in Finished)
=============================================================================
