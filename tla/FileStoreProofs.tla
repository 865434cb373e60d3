--------------------------- MODULE FileStoreProofs ---------------------------
(***************************************************************************)
(* Proofs about FileStore.  The invariant says which rows a call may have  *)
(* where: in memory once it runs, in what a crash or an archive leaves     *)
(* (Durable) and in the snapshot of an open transaction only when it was   *)
(* acknowledged, or is an outside write.                                   *)
(***************************************************************************)
EXTENDS FileStore, TLAPS

InTurn == {"body", "half", "whole"}

(* A call waits once for its turn. *)
QueuedOnce ==
  /\ \A i \in 1..Len(queue) : pc[queue[i]] = "queued"
  /\ \A i, j \in 1..Len(queue) : queue[i] = queue[j] => i = j

(* The one transaction that is open is that of the call in its turn. *)
OneTx ==
  /\ \A c, d \in tx.by : c = d
  /\ \A c \in Calls : pc[c] \in InTurn <=> c \in tx.by

(* Between the two files of an archive the package says what memory says. *)
Archiving ==
  /\ mem.index = disk.index
  /\ archiving => ~Open /\ ~mem.index /\ pack.rows = About(mem.rows)

(* The file is never ahead of the snapshot, nor the snapshot of memory. *)
Backed ==
  /\ disk.rows \subseteq mem.rows
  /\ Open => disk.rows \subseteq tx.rows /\ tx.rows \subseteq mem.rows

(* Whose rows are in memory, in the files and in the snapshot. *)
Accounted ==
  \A c \in Calls, k \in {1, 2} :
    /\ <<c, k>> \in mem.rows
         => pc[c] \in {"half", "whole", "ok"} \/ (pc[c] = "failed" /\ c \notin Commands)
    /\ <<c, k>> \in Durable \/ <<c, k>> \in tx.rows
         => pc[c] = "ok" \/ (pc[c] = "failed" /\ c \notin Commands)

(* What a command has written is there, and all of it once acknowledged. *)
Kept ==
  \A c \in Commands :
    /\ pc[c] \in {"half", "whole"} => <<c, 1>> \in mem.rows
    /\ pc[c] = "whole" => <<c, 2>> \in mem.rows
    /\ pc[c] = "ok" => <<c, 1>> \in Durable /\ <<c, 2>> \in Durable

(* Ids of rows are distinct and not beyond the counter next to them. *)
Numbered ==
  /\ disk.next <= mem.next
  /\ \A c \in Calls :
       /\ <<c, 1>> \in mem.rows \cup Durable => id[c] \in 1..mem.next
       /\ <<c, 1>> \in Durable => id[c] <= disk.next
  /\ \A c, d \in Calls :
       (<<c, 1>> \in mem.rows \cup Durable /\ <<d, 1>> \in mem.rows \cup Durable /\ c # d)
          => id[c] # id[d]

IInv ==
  TypeOK /\ QueuedOnce /\ OneTx /\ Archiving /\ Backed /\ Accounted /\ Kept /\ Numbered

-----------------------------------------------------------------------------
LEMMA Calling == Commands \subseteq Calls /\ Outside \subseteq Calls
BY DEF Calls

(* What the operations make of the memory. *)
LEMMA RowAdded ==
  ASSUME mem \in State, NEW r \in Rows, mem' = [mem EXCEPT !.rows = @ \cup {r}, !.next = @ + 1]
  PROVE  mem' \in State /\ mem'.rows = mem.rows \cup {r} /\ mem'.next = mem.next + 1
         /\ mem'.index = mem.index
<1>1. mem.rows \cup {r} \in SUBSET Rows /\ mem.next + 1 \in Nat
  BY SMT DEF State
<1>2. mem' \in State
  BY <1>1, Zenon DEF State
<1>3. mem'.rows = mem.rows \cup {r} /\ mem'.next = mem.next + 1 /\ mem'.index = mem.index
  BY SMT DEF State
<1>4. QED
  BY <1>2, <1>3

LEMMA RestoredRows ==
  ASSUME mem \in State, tx.rows \in SUBSET Rows, NEW m, m = Restored(mem)
  PROVE  m \in State /\ m.rows = tx.rows /\ m.next = mem.next /\ m.index = mem.index
BY SMT DEF State, Restored

LEMMA TrimmedRows ==
  /\ mem \in State => Trimmed \in State
  /\ mem \in State => Trimmed.rows = mem.rows \ About(mem.rows)
  /\ mem \in State => Trimmed.next = mem.next /\ Trimmed.index = TRUE
<1> SUFFICES ASSUME mem \in State
             PROVE  /\ Trimmed \in State /\ Trimmed.rows = mem.rows \ About(mem.rows)
                    /\ Trimmed.next = mem.next /\ Trimmed.index = TRUE
  OBVIOUS
<1>1. mem.rows \ About(mem.rows) \in SUBSET Rows /\ TRUE \in BOOLEAN
  BY SMT DEF State
<1>2. Trimmed \in State
  BY <1>1, Zenon DEF State, Trimmed
<1>3. QED
  BY <1>2, SMT DEF State, Trimmed

Tx == [by: SUBSET Commands, rows: SUBSET Rows]

LEMMA NoTxType == NoTx \in Tx
BY SMT DEF NoTx, Tx

(* The part of TypeOK that the steps below use. *)
LEMMA Types ==
  ASSUME TypeOK
  PROVE  /\ mem \in State /\ mem.next \in Nat /\ disk.next \in Nat /\ id \in [Calls -> Nat]
         /\ mem.rows \subseteq Rows
         /\ \A i \in 1..Len(queue) : queue[i] \in Commands /\ queue[i] \in Calls
BY Calling, SMT DEF TypeOK, State

LEMMA AfterTxFacts ==
  ASSUME TypeOK, NEW c \in Calls, NEW l \in {"ok", "failed"}, AfterTx(c, l)
  PROVE  /\ pc' \in [Calls -> Live \cup Finished] /\ pc'[c] = l
         /\ \A d \in Calls : d # c => pc'[d] = IF pc[d] = "waiting" THEN "settled" ELSE pc[d]
         /\ tx' = NoTx /\ tx'.by = {} /\ tx'.rows = {} /\ deferred' = FALSE
BY SMT DEF TypeOK, AfterTx, Woken, NoTx, Live, Finished

-----------------------------------------------------------------------------
(* Every step keeps the invariant, and nothing durable goes.               *)

LEMMA AskStep ==
  ASSUME NEW c \in Commands, IInv, Ask(c)
  PROVE  IInv' /\ Durable \subseteq Durable'
<1> USE CallAssumption, BoundAssumption, Calling DEF IInv
<1>1. /\ mem \in State /\ mem.next \in Nat /\ disk.next \in Nat /\ id \in [Calls -> Nat]
       /\ mem.rows \subseteq Rows
       /\ \A i \in 1..Len(queue) : queue[i] \in Commands /\ queue[i] \in Calls
  BY Types
<1>2. ~archiving /\ pc[c] = "idle"
  BY DEF Ask, Running
<1>3. queue' = Append(queue, c) /\ queue \in Seq(Commands)
  BY DEF Ask, TypeOK
<1>4. /\ pc' \in [Calls -> Live \cup Finished] /\ pc'[c] = "queued"
       /\ \A d \in Calls : d # c => pc'[d] = pc[d]
  BY SMT DEF Ask, Goto, TypeOK, Live, Finished
<1>5. UNCHANGED <<mem, disk, pack, tx, deferred, id, archiving, crashes, fails>>
  BY DEF Ask
<1>6. mem'.rows = mem.rows /\ mem'.next = mem.next /\ mem'.index = mem.index
  BY <1>5, Zenon
<1>7. disk'.rows = disk.rows /\ disk'.next = disk.next /\ disk'.index = disk.index
  BY <1>5, Zenon
<1>8. tx'.by = tx.by /\ tx'.rows = tx.rows
  BY <1>5, Zenon
<1>9. pack'.rows = pack.rows
  BY <1>5, Zenon
<1>10. Durable' = Durable
  BY <1>5, Zenon DEF Durable
<1>11. TypeOK'
  BY <1>1, <1>2, <1>3, <1>4, <1>5, <1>6, <1>7, <1>8, <1>9, <1>10, SMTT(30) DEF TypeOK, Open, Tx
<1>12. QueuedOnce'
  <2>1. c \in Calls
    BY Calling
  <2>2. QED
    BY <1>2, <1>3, <1>4, <2>1, SMTT(30) DEF QueuedOnce
<1>13. OneTx'
  BY <1>4, <1>8, <1>2, <1>5, SMTT(30) DEF OneTx, InTurn, Live, Finished
<1>14. Archiving'
  BY <1>6, <1>7, <1>9, <1>8, <1>2, <1>5, SMTT(30) DEF Archiving, About, Open
<1>15. Backed'
  BY <1>6, <1>7, <1>8, <1>2, <1>5, SMTT(30) DEF Backed, Open
<1>16. Accounted'
  <2> SUFFICES ASSUME NEW d \in Calls, NEW k \in {1, 2}
               PROVE  /\ <<d, k>> \in mem'.rows
                            => pc'[d] \in {"half", "whole", "ok"} \/ (pc'[d] = "failed" /\ d \notin Commands)
                      /\ <<d, k>> \in Durable' \/ <<d, k>> \in tx'.rows
                            => pc'[d] = "ok" \/ (pc'[d] = "failed" /\ d \notin Commands)
    BY DEF Accounted
  <2>1. <<d, k>> \in mem.rows
          => pc[d] \in {"half", "whole", "ok"} \/ (pc[d] = "failed" /\ d \notin Commands)
    BY Zenon DEF Accounted
  <2>2. <<d, k>> \in Durable \/ <<d, k>> \in tx.rows
          => pc[d] = "ok" \/ (pc[d] = "failed" /\ d \notin Commands)
    BY Zenon DEF Accounted
  <2>3. QED
    BY <1>4, <1>6, <1>10, <1>8, <1>2, <2>1, <2>2, SMTT(30)
<1>17. Kept'
  <2> SUFFICES ASSUME NEW d \in Commands
               PROVE  /\ pc'[d] \in {"half", "whole"} => <<d, 1>> \in mem'.rows
                      /\ pc'[d] = "whole" => <<d, 2>> \in mem'.rows
                      /\ pc'[d] = "ok" => <<d, 1>> \in Durable' /\ <<d, 2>> \in Durable'
    BY DEF Kept
  <2>1. /\ pc[d] \in {"half", "whole"} => <<d, 1>> \in mem.rows
        /\ pc[d] = "whole" => <<d, 2>> \in mem.rows
        /\ pc[d] = "ok" => <<d, 1>> \in Durable /\ <<d, 2>> \in Durable
    BY Zenon DEF Kept
  <2>2. QED
    BY <1>4, <1>6, <1>10, <1>2, <2>1, SMTT(30)
<1>18. Numbered'
  <2>1. disk.next <= mem.next /\ disk'.next <= mem'.next
    <3>1. disk.next <= mem.next
      BY Zenon DEF Numbered
    <3>2. QED
      BY <3>1, <1>6, <1>7, <1>10, <1>2, <1>5, <1>1, SMTT(30)
  <2>2. ASSUME NEW d \in Calls
        PROVE  /\ <<d, 1>> \in mem'.rows \cup Durable' => id'[d] \in 1..mem'.next
               /\ <<d, 1>> \in Durable' => id'[d] <= disk'.next
    <3>1. /\ <<d, 1>> \in mem.rows \cup Durable => id[d] \in 1..mem.next
          /\ <<d, 1>> \in Durable => id[d] <= disk.next
      BY Zenon DEF Numbered
    <3>2. QED
      BY <1>6, <1>7, <1>10, <1>2, <1>5, <1>1, <2>1, <3>1, SMTT(30)
  <2>3. ASSUME NEW d \in Calls, NEW e \in Calls, d # e,
               <<d, 1>> \in mem'.rows \cup Durable', <<e, 1>> \in mem'.rows \cup Durable'
        PROVE  id'[d] # id'[e]
    <3>1. /\ <<d, 1>> \in mem.rows \cup Durable => id[d] \in 1..mem.next
          /\ <<e, 1>> \in mem.rows \cup Durable => id[e] \in 1..mem.next
          /\ <<d, 1>> \in mem.rows \cup Durable /\ <<e, 1>> \in mem.rows \cup Durable
               => id[d] # id[e]
      BY <2>3, Zenon DEF Numbered
    <3>2. QED
      BY <1>6, <1>7, <1>10, <1>2, <1>5, <1>1, <2>3, <3>1, SMTT(30)
  <2>4. QED
    BY <2>1, <2>2, <2>3, Zenon DEF Numbered
<1>19. QED
  BY <1>10, <1>11, <1>12, <1>13, <1>14, <1>15, <1>16, <1>17, <1>18

LEMMA BeginStep ==
  ASSUME NEW c \in Commands, IInv, Begin(c)
  PROVE  IInv' /\ Durable \subseteq Durable'
<1> USE CallAssumption, BoundAssumption, Calling DEF IInv
<1>1. /\ mem \in State /\ mem.next \in Nat /\ disk.next \in Nat /\ id \in [Calls -> Nat]
       /\ mem.rows \subseteq Rows
       /\ \A i \in 1..Len(queue) : queue[i] \in Commands /\ queue[i] \in Calls
  BY Types
<1>2. ~archiving /\ ~Open
  BY DEF Begin, Running
<1>3. /\ queue \in Seq(Commands) /\ queue # <<>> /\ Head(queue) = c /\ queue' = Tail(queue)
       /\ pc[c] = "queued"
  BY SMT DEF Begin, TypeOK, QueuedOnce
<1>4. /\ pc' \in [Calls -> Live \cup Finished] /\ pc'[c] = "body"
       /\ \A d \in Calls : d # c => pc'[d] = pc[d]
  BY SMT DEF Begin, Goto, TypeOK, Live, Finished
<1>5. tx' = [by |-> {c}, rows |-> mem.rows] /\ tx'.by = {c} /\ tx'.rows = mem.rows
  BY DEF Begin
<1>6. tx' \in Tx
  BY <1>5, <1>1, SMT DEF Tx
<1>7. UNCHANGED <<mem, disk, pack, deferred, id, archiving, crashes, fails>>
  BY DEF Begin
<1>8. mem'.rows = mem.rows /\ mem'.next = mem.next /\ mem'.index = mem.index
  BY <1>7, Zenon
<1>9. disk'.rows = disk.rows /\ disk'.next = disk.next /\ disk'.index = disk.index
  BY <1>7, Zenon
<1>10. pack'.rows = pack.rows
  BY <1>7, Zenon
<1>11. Durable' = Durable
  BY <1>7, Zenon DEF Durable
<1>12. TypeOK'
  BY <1>1, <1>2, <1>3, <1>4, <1>5, <1>6, <1>7, <1>8, <1>9, <1>10, <1>11, SMTT(30) DEF TypeOK, Open, Tx
<1>13. QueuedOnce'
  <2> SUFFICES ASSUME NEW i \in 1..Len(queue'), NEW j \in 1..Len(queue')
               PROVE  pc'[queue'[i]] = "queued" /\ (queue'[i] = queue'[j] => i = j)
    BY DEF QueuedOnce
  <2>1. /\ Len(queue') = Len(queue) - 1 /\ queue'[i] = queue[i + 1] /\ queue'[j] = queue[j + 1]
        /\ c = queue[1] /\ i + 1 \in 1..Len(queue) /\ j + 1 \in 1..Len(queue) /\ 1 \in 1..Len(queue)
    BY <1>3, SMT
  <2>2. /\ queue[i + 1] \in Calls /\ pc[queue[i + 1]] = "queued"
        /\ (queue[i + 1] = queue[j + 1] => i + 1 = j + 1) /\ (queue[i + 1] = queue[1] => i + 1 = 1)
    BY <2>1, <1>1, Zenon DEF QueuedOnce
  <2>3. QED
    BY <2>1, <2>2, <1>4, SMTT(30)
<1>14. OneTx'
  BY <1>4, <1>5, <1>2, <1>7, SMTT(30) DEF OneTx, InTurn, Open
<1>15. Archiving'
  BY <1>8, <1>9, <1>10, <1>5, <1>2, <1>7, SMTT(30) DEF Archiving, About, Open
<1>16. Backed'
  BY <1>8, <1>9, <1>5, <1>2, <1>7, SMTT(30) DEF Backed, Open
<1>17. Accounted'
  <2> SUFFICES ASSUME NEW d \in Calls, NEW k \in {1, 2}
               PROVE  /\ <<d, k>> \in mem'.rows
                            => pc'[d] \in {"half", "whole", "ok"} \/ (pc'[d] = "failed" /\ d \notin Commands)
                      /\ <<d, k>> \in Durable' \/ <<d, k>> \in tx'.rows
                            => pc'[d] = "ok" \/ (pc'[d] = "failed" /\ d \notin Commands)
    BY DEF Accounted
  <2>1. <<d, k>> \in mem.rows
          => pc[d] \in {"half", "whole", "ok"} \/ (pc[d] = "failed" /\ d \notin Commands)
    BY Zenon DEF Accounted
  <2>2. <<d, k>> \in Durable \/ <<d, k>> \in tx.rows
          => pc[d] = "ok" \/ (pc[d] = "failed" /\ d \notin Commands)
    BY Zenon DEF Accounted
  <2>3. QED
    BY <1>4, <1>8, <1>11, <1>5, <1>3, <1>2, <2>1, <2>2, SMTT(30) DEF Open, OneTx, InTurn
<1>18. Kept'
  <2> SUFFICES ASSUME NEW d \in Commands
               PROVE  /\ pc'[d] \in {"half", "whole"} => <<d, 1>> \in mem'.rows
                      /\ pc'[d] = "whole" => <<d, 2>> \in mem'.rows
                      /\ pc'[d] = "ok" => <<d, 1>> \in Durable' /\ <<d, 2>> \in Durable'
    BY DEF Kept
  <2>1. /\ pc[d] \in {"half", "whole"} => <<d, 1>> \in mem.rows
        /\ pc[d] = "whole" => <<d, 2>> \in mem.rows
        /\ pc[d] = "ok" => <<d, 1>> \in Durable /\ <<d, 2>> \in Durable
    BY Zenon DEF Kept
  <2>2. QED
    BY <1>4, <1>8, <1>11, <1>2, <2>1, SMTT(30)
<1>19. Numbered'
  <2>1. disk.next <= mem.next /\ disk'.next <= mem'.next
    <3>1. disk.next <= mem.next
      BY Zenon DEF Numbered
    <3>2. QED
      BY <3>1, <1>8, <1>9, <1>11, <1>2, <1>7, <1>1, SMTT(30)
  <2>2. ASSUME NEW d \in Calls
        PROVE  /\ <<d, 1>> \in mem'.rows \cup Durable' => id'[d] \in 1..mem'.next
               /\ <<d, 1>> \in Durable' => id'[d] <= disk'.next
    <3>1. /\ <<d, 1>> \in mem.rows \cup Durable => id[d] \in 1..mem.next
          /\ <<d, 1>> \in Durable => id[d] <= disk.next
      BY Zenon DEF Numbered
    <3>2. QED
      BY <1>8, <1>9, <1>11, <1>2, <1>7, <1>1, <2>1, <3>1, SMTT(30)
  <2>3. ASSUME NEW d \in Calls, NEW e \in Calls, d # e,
               <<d, 1>> \in mem'.rows \cup Durable', <<e, 1>> \in mem'.rows \cup Durable'
        PROVE  id'[d] # id'[e]
    <3>1. /\ <<d, 1>> \in mem.rows \cup Durable => id[d] \in 1..mem.next
          /\ <<e, 1>> \in mem.rows \cup Durable => id[e] \in 1..mem.next
          /\ <<d, 1>> \in mem.rows \cup Durable /\ <<e, 1>> \in mem.rows \cup Durable
               => id[d] # id[e]
      BY <2>3, Zenon DEF Numbered
    <3>2. QED
      BY <1>8, <1>9, <1>11, <1>2, <1>7, <1>1, <2>3, <3>1, SMTT(30)
  <2>4. QED
    BY <2>1, <2>2, <2>3, Zenon DEF Numbered
<1>20. QED
  BY <1>11, <1>12, <1>13, <1>14, <1>15, <1>16, <1>17, <1>18, <1>19

LEMMA FirstRowStep ==
  ASSUME NEW c \in Calls, IInv, FirstRow(c)
  PROVE  IInv' /\ Durable \subseteq Durable'
<1> USE CallAssumption, BoundAssumption, Calling DEF IInv
<1>1. /\ mem \in State /\ mem.next \in Nat /\ disk.next \in Nat /\ id \in [Calls -> Nat]
       /\ mem.rows \subseteq Rows
       /\ \A i \in 1..Len(queue) : queue[i] \in Commands /\ queue[i] \in Calls
  BY Types
<1>2. pc[c] = "body" /\ ~archiving
  BY DEF FirstRow, Running
<1>3. c \in tx.by /\ c \in Commands /\ <<c, 1>> \in Rows /\ ~archiving /\ pc[c] = "body"
  BY <1>2, SMT DEF TypeOK, OneTx, InTurn, Rows
<1>4. /\ pc' \in [Calls -> Live \cup Finished] /\ pc'[c] = "half"
       /\ \A d \in Calls : d # c => pc'[d] = pc[d]
  BY SMT DEF FirstRow, Goto, TypeOK, Live, Finished
<1>5. id' \in [Calls -> Nat] /\ id'[c] = mem.next + 1 /\ \A d \in Calls : d # c => id'[d] = id[d]
  BY SMT DEF FirstRow, TypeOK, State
<1>6. /\ mem' \in State /\ mem'.rows = mem.rows \cup {<<c, 1>>} /\ mem'.next = mem.next + 1
       /\ mem'.index = mem.index
  BY <1>3, RowAdded DEF TypeOK, FirstRow
<1>7. <<c, 1>> \notin mem.rows /\ <<c, 1>> \notin Durable
  <2>1. /\ <<c, 1>> \in mem.rows
             => pc[c] \in {"half", "whole", "ok"} \/ (pc[c] = "failed" /\ c \notin Commands)
        /\ <<c, 1>> \in Durable => pc[c] = "ok" \/ (pc[c] = "failed" /\ c \notin Commands)
    <3>1. c \in Calls /\ 1 \in {1, 2}
      BY Calling
    <3>2. QED
      BY <3>1, Zenon DEF Accounted
  <2>2. QED
    BY <1>3, <2>1, SMT
<1>8. UNCHANGED <<disk, pack, tx, queue, deferred, archiving, crashes, fails>>
  BY DEF FirstRow
<1>9. disk'.rows = disk.rows /\ disk'.next = disk.next /\ disk'.index = disk.index
  BY <1>8, Zenon
<1>10. tx'.by = tx.by /\ tx'.rows = tx.rows
  BY <1>8, Zenon
<1>11. pack'.rows = pack.rows
  BY <1>8, Zenon
<1>12. Durable' = Durable
  BY <1>8, Zenon DEF Durable
<1>13. TypeOK'
  BY <1>1, <1>2, <1>3, <1>4, <1>5, <1>6, <1>7, <1>12, <1>8, <1>9, <1>10, <1>11, SMTT(30) DEF TypeOK, Open, Tx
<1>14. QueuedOnce'
  <2> SUFFICES ASSUME NEW i \in 1..Len(queue'), NEW j \in 1..Len(queue')
               PROVE  pc'[queue'[i]] = "queued" /\ (queue'[i] = queue'[j] => i = j)
    BY DEF QueuedOnce
  <2>1. queue' = queue
    BY <1>4, <1>3, <1>8, <1>1
  <2>2. queue[i] \in Calls /\ pc[queue[i]] = "queued" /\ (queue[i] = queue[j] => i = j)
    BY <2>1, <1>4, <1>3, <1>8, <1>1, Zenon DEF QueuedOnce
  <2>3. QED
    BY <2>1, <2>2, <1>4, <1>3, <1>8, <1>1, SMTT(30) DEF InTurn
<1>15. OneTx'
  BY <1>4, <1>10, <1>3, <1>8, SMTT(30) DEF OneTx, InTurn
<1>16. Archiving'
  BY <1>6, <1>7, <1>9, <1>11, <1>10, <1>3, <1>8, SMTT(30) DEF Archiving, About, Open
<1>17. Backed'
  BY <1>6, <1>7, <1>9, <1>10, <1>3, <1>8, SMTT(30) DEF Backed, Open
<1>18. Accounted'
  <2> SUFFICES ASSUME NEW d \in Calls, NEW k \in {1, 2}
               PROVE  /\ <<d, k>> \in mem'.rows
                            => pc'[d] \in {"half", "whole", "ok"} \/ (pc'[d] = "failed" /\ d \notin Commands)
                      /\ <<d, k>> \in Durable' \/ <<d, k>> \in tx'.rows
                            => pc'[d] = "ok" \/ (pc'[d] = "failed" /\ d \notin Commands)
    BY DEF Accounted
  <2>1. <<d, k>> \in mem.rows
          => pc[d] \in {"half", "whole", "ok"} \/ (pc[d] = "failed" /\ d \notin Commands)
    BY Zenon DEF Accounted
  <2>2. <<d, k>> \in Durable \/ <<d, k>> \in tx.rows
          => pc[d] = "ok" \/ (pc[d] = "failed" /\ d \notin Commands)
    BY Zenon DEF Accounted
  <2>3. QED
    BY <1>4, <1>6, <1>7, <1>12, <1>10, <1>3, <2>1, <2>2, SMTT(30)
<1>19. Kept'
  <2> SUFFICES ASSUME NEW d \in Commands
               PROVE  /\ pc'[d] \in {"half", "whole"} => <<d, 1>> \in mem'.rows
                      /\ pc'[d] = "whole" => <<d, 2>> \in mem'.rows
                      /\ pc'[d] = "ok" => <<d, 1>> \in Durable' /\ <<d, 2>> \in Durable'
    BY DEF Kept
  <2>1. /\ pc[d] \in {"half", "whole"} => <<d, 1>> \in mem.rows
        /\ pc[d] = "whole" => <<d, 2>> \in mem.rows
        /\ pc[d] = "ok" => <<d, 1>> \in Durable /\ <<d, 2>> \in Durable
    BY Zenon DEF Kept
  <2>2. QED
    BY <1>4, <1>6, <1>7, <1>12, <1>3, <2>1, SMTT(30)
<1>20. Numbered'
  <2>1. disk.next <= mem.next /\ disk'.next <= mem'.next
    <3>1. disk.next <= mem.next
      BY Zenon DEF Numbered
    <3>2. QED
      BY <3>1, <1>6, <1>7, <1>9, <1>5, <1>12, <1>3, <1>8, <1>1, SMTT(30)
  <2>2. ASSUME NEW d \in Calls
        PROVE  /\ <<d, 1>> \in mem'.rows \cup Durable' => id'[d] \in 1..mem'.next
               /\ <<d, 1>> \in Durable' => id'[d] <= disk'.next
    <3>1. /\ <<d, 1>> \in mem.rows \cup Durable => id[d] \in 1..mem.next
          /\ <<d, 1>> \in Durable => id[d] <= disk.next
      BY Zenon DEF Numbered
    <3>2. QED
      BY <1>6, <1>7, <1>9, <1>5, <1>12, <1>3, <1>8, <1>1, <2>1, <3>1, SMTT(30)
  <2>3. ASSUME NEW d \in Calls, NEW e \in Calls, d # e,
               <<d, 1>> \in mem'.rows \cup Durable', <<e, 1>> \in mem'.rows \cup Durable'
        PROVE  id'[d] # id'[e]
    <3>1. /\ <<d, 1>> \in mem.rows \cup Durable => id[d] \in 1..mem.next
          /\ <<e, 1>> \in mem.rows \cup Durable => id[e] \in 1..mem.next
          /\ <<d, 1>> \in mem.rows \cup Durable /\ <<e, 1>> \in mem.rows \cup Durable
               => id[d] # id[e]
      BY <2>3, Zenon DEF Numbered
    <3>2. QED
      BY <1>6, <1>7, <1>9, <1>5, <1>12, <1>3, <1>8, <1>1, <2>3, <3>1, SMTT(30)
  <2>4. QED
    BY <2>1, <2>2, <2>3, Zenon DEF Numbered
<1>21. QED
  BY <1>7, <1>12, <1>13, <1>14, <1>15, <1>16, <1>17, <1>18, <1>19, <1>20

LEMMA SecondRowStep ==
  ASSUME NEW c \in Calls, IInv, SecondRow(c)
  PROVE  IInv' /\ Durable \subseteq Durable'
<1> USE CallAssumption, BoundAssumption, Calling DEF IInv
<1>1. /\ mem \in State /\ mem.next \in Nat /\ disk.next \in Nat /\ id \in [Calls -> Nat]
       /\ mem.rows \subseteq Rows
       /\ \A i \in 1..Len(queue) : queue[i] \in Commands /\ queue[i] \in Calls
  BY Types
<1>2. pc[c] = "half" /\ ~archiving
  BY DEF SecondRow, Running
<1>3. c \in tx.by /\ c \in Commands /\ <<c, 2>> \in Rows /\ ~archiving /\ pc[c] = "half"
  BY <1>2, SMT DEF TypeOK, OneTx, InTurn, Rows
<1>4. /\ pc' \in [Calls -> Live \cup Finished] /\ pc'[c] = "whole"
       /\ \A d \in Calls : d # c => pc'[d] = pc[d]
  BY SMT DEF SecondRow, Goto, TypeOK, Live, Finished
<1>5. /\ mem' \in State /\ mem'.rows = mem.rows \cup {<<c, 2>>} /\ mem'.next = mem.next
       /\ mem'.index = mem.index
  <2>1. mem.rows \cup {<<c, 2>>} \in SUBSET Rows
    BY <1>3, <1>1, Zenon
  <2>2. mem' = [mem EXCEPT !.rows = mem.rows \cup {<<c, 2>>}]
    BY Zenon DEF SecondRow
  <2>3. QED
    BY <1>1, <2>1, <2>2, SMT DEF State
<1>6. UNCHANGED <<disk, pack, tx, queue, deferred, id, archiving, crashes, fails>>
  BY DEF SecondRow
<1>7. disk'.rows = disk.rows /\ disk'.next = disk.next /\ disk'.index = disk.index
  BY <1>6, Zenon
<1>8. tx'.by = tx.by /\ tx'.rows = tx.rows
  BY <1>6, Zenon
<1>9. pack'.rows = pack.rows
  BY <1>6, Zenon
<1>10. Durable' = Durable
  BY <1>6, Zenon DEF Durable
<1>11. TypeOK'
  BY <1>1, <1>2, <1>3, <1>4, <1>5, <1>6, <1>7, <1>8, <1>9, <1>10, SMTT(30) DEF TypeOK, Open, Tx
<1>12. QueuedOnce'
  <2> SUFFICES ASSUME NEW i \in 1..Len(queue'), NEW j \in 1..Len(queue')
               PROVE  pc'[queue'[i]] = "queued" /\ (queue'[i] = queue'[j] => i = j)
    BY DEF QueuedOnce
  <2>1. queue' = queue
    BY <1>4, <1>3, <1>6, <1>1
  <2>2. queue[i] \in Calls /\ pc[queue[i]] = "queued" /\ (queue[i] = queue[j] => i = j)
    BY <2>1, <1>4, <1>3, <1>6, <1>1, Zenon DEF QueuedOnce
  <2>3. QED
    BY <2>1, <2>2, <1>4, <1>3, <1>6, <1>1, SMTT(30) DEF InTurn
<1>13. OneTx'
  BY <1>4, <1>8, <1>3, <1>6, SMTT(30) DEF OneTx, InTurn
<1>14. Archiving'
  BY <1>5, <1>7, <1>9, <1>8, <1>3, <1>6, SMTT(30) DEF Archiving, About, Open
<1>15. Backed'
  BY <1>5, <1>7, <1>8, <1>3, <1>6, SMTT(30) DEF Backed, Open
<1>16. Accounted'
  <2> SUFFICES ASSUME NEW d \in Calls, NEW k \in {1, 2}
               PROVE  /\ <<d, k>> \in mem'.rows
                            => pc'[d] \in {"half", "whole", "ok"} \/ (pc'[d] = "failed" /\ d \notin Commands)
                      /\ <<d, k>> \in Durable' \/ <<d, k>> \in tx'.rows
                            => pc'[d] = "ok" \/ (pc'[d] = "failed" /\ d \notin Commands)
    BY DEF Accounted
  <2>1. <<d, k>> \in mem.rows
          => pc[d] \in {"half", "whole", "ok"} \/ (pc[d] = "failed" /\ d \notin Commands)
    BY Zenon DEF Accounted
  <2>2. <<d, k>> \in Durable \/ <<d, k>> \in tx.rows
          => pc[d] = "ok" \/ (pc[d] = "failed" /\ d \notin Commands)
    BY Zenon DEF Accounted
  <2>3. QED
    BY <1>4, <1>5, <1>10, <1>8, <1>3, <2>1, <2>2, SMTT(30)
<1>17. Kept'
  <2> SUFFICES ASSUME NEW d \in Commands
               PROVE  /\ pc'[d] \in {"half", "whole"} => <<d, 1>> \in mem'.rows
                      /\ pc'[d] = "whole" => <<d, 2>> \in mem'.rows
                      /\ pc'[d] = "ok" => <<d, 1>> \in Durable' /\ <<d, 2>> \in Durable'
    BY DEF Kept
  <2>1. /\ pc[d] \in {"half", "whole"} => <<d, 1>> \in mem.rows
        /\ pc[d] = "whole" => <<d, 2>> \in mem.rows
        /\ pc[d] = "ok" => <<d, 1>> \in Durable /\ <<d, 2>> \in Durable
    BY Zenon DEF Kept
  <2>2. QED
    BY <1>4, <1>5, <1>10, <1>3, <2>1, SMTT(30)
<1>18. Numbered'
  <2>1. disk.next <= mem.next /\ disk'.next <= mem'.next
    <3>1. disk.next <= mem.next
      BY Zenon DEF Numbered
    <3>2. QED
      BY <3>1, <1>5, <1>7, <1>10, <1>3, <1>6, <1>1, SMTT(30)
  <2>2. ASSUME NEW d \in Calls
        PROVE  /\ <<d, 1>> \in mem'.rows \cup Durable' => id'[d] \in 1..mem'.next
               /\ <<d, 1>> \in Durable' => id'[d] <= disk'.next
    <3>1. /\ <<d, 1>> \in mem.rows \cup Durable => id[d] \in 1..mem.next
          /\ <<d, 1>> \in Durable => id[d] <= disk.next
      BY Zenon DEF Numbered
    <3>2. QED
      BY <1>5, <1>7, <1>10, <1>3, <1>6, <1>1, <2>1, <3>1, SMTT(30)
  <2>3. ASSUME NEW d \in Calls, NEW e \in Calls, d # e,
               <<d, 1>> \in mem'.rows \cup Durable', <<e, 1>> \in mem'.rows \cup Durable'
        PROVE  id'[d] # id'[e]
    <3>1. /\ <<d, 1>> \in mem.rows \cup Durable => id[d] \in 1..mem.next
          /\ <<e, 1>> \in mem.rows \cup Durable => id[e] \in 1..mem.next
          /\ <<d, 1>> \in mem.rows \cup Durable /\ <<e, 1>> \in mem.rows \cup Durable
               => id[d] # id[e]
      BY <2>3, Zenon DEF Numbered
    <3>2. QED
      BY <1>5, <1>7, <1>10, <1>3, <1>6, <1>1, <2>3, <3>1, SMTT(30)
  <2>4. QED
    BY <2>1, <2>2, <2>3, Zenon DEF Numbered
<1>19. QED
  BY <1>10, <1>11, <1>12, <1>13, <1>14, <1>15, <1>16, <1>17, <1>18

LEMMA AbortStep ==
  ASSUME NEW c \in Calls, IInv, Abort(c)
  PROVE  IInv' /\ Durable \subseteq Durable'
<1> USE CallAssumption, BoundAssumption, Calling DEF IInv
<1>1. /\ mem \in State /\ mem.next \in Nat /\ disk.next \in Nat /\ id \in [Calls -> Nat]
       /\ mem.rows \subseteq Rows
       /\ \A i \in 1..Len(queue) : queue[i] \in Commands /\ queue[i] \in Calls
  BY Types
<1>2. pc[c] \in InTurn /\ archiving = FALSE
  BY DEF Abort, InTurn, Running, TypeOK
<1>3. c \in tx.by /\ c \in Commands /\ Open /\ archiving = FALSE
  BY <1>2, SMT DEF TypeOK, OneTx, InTurn, Open
<1>4. /\ pc' \in [Calls -> Live \cup Finished] /\ pc'[c] = "failed"
       /\ \A d \in Calls : d # c => pc'[d] = IF pc[d] = "waiting" THEN "settled" ELSE pc[d]
  BY AfterTxFacts DEF Abort
<1>5. tx' = NoTx /\ tx'.by = {} /\ tx'.rows = {} /\ deferred' = FALSE
  BY AfterTxFacts DEF Abort
<1>6. tx' \in Tx
  BY <1>5, NoTxType
<1>7. UNCHANGED <<pack, queue, id, archiving, crashes>>
  BY DEF Abort
<1>8. /\ mem' \in State /\ mem'.rows = tx.rows /\ mem'.next = mem.next /\ mem'.index = mem.index
  BY RestoredRows DEF Abort, TypeOK
<1>9. disk' \in {disk, mem'} /\ fails' \in 0..MaxFail
  BY SMT DEF Abort, TypeOK, Write, WriteFails
<1>10. pack'.rows = pack.rows
  BY <1>7, Zenon
<1>11. tx.rows \subseteq mem.rows
  BY <1>3 DEF Backed
<1>12. \/ disk' = disk /\ Durable' = Durable
       \/ disk'.next = mem'.next
  BY <1>9, <1>7, Zenon DEF Durable
<1>13. mem'.rows \cup Durable' \subseteq mem.rows \cup Durable
  BY <1>3, <1>7, <1>8, <1>9, <1>10, SMT DEF Backed, Archiving, Durable
<1>14. Durable \subseteq Durable' /\ Durable' \subseteq Durable \cup mem'.rows
  BY <1>3, <1>7, <1>8, <1>9, <1>10, SMT DEF Backed, Archiving, Durable
<1>15. TypeOK'
  <2>1. mem' \in State /\ disk' \in State /\ pack' \in [there: BOOLEAN, rows: SUBSET Rows]
    BY <1>1, <1>2, <1>3, <1>4, <1>5, <1>6, <1>7, <1>8, <1>9, <1>10, <1>11, <1>12, <1>13, <1>14, SMTT(30) DEF TypeOK
  <2>2. tx' \in [by: SUBSET Commands, rows: SUBSET Rows] /\ queue' \in Seq(Commands)
    BY <1>1, <1>2, <1>3, <1>4, <1>5, <1>6, <1>7, <1>8, <1>9, <1>10, <1>11, <1>12, <1>13, <1>14, SMTT(30) DEF TypeOK, Tx
  <2>3. pc' \in [Calls -> Live \cup Finished] /\ id' \in [Calls -> Nat]
    BY <1>1, <1>2, <1>3, <1>4, <1>5, <1>6, <1>7, <1>8, <1>9, <1>10, <1>11, <1>12, <1>13, <1>14, SMTT(30) DEF TypeOK
  <2>4. deferred' \in BOOLEAN /\ (deferred' => Open') /\ archiving' \in BOOLEAN
    BY <1>1, <1>2, <1>3, <1>4, <1>5, <1>6, <1>7, <1>8, <1>9, <1>10, <1>11, <1>12, <1>13, <1>14, Zenon DEF TypeOK, Open
  <2>5. crashes' \in 0..MaxCrash /\ fails' \in 0..MaxFail
    BY <1>1, <1>2, <1>3, <1>4, <1>5, <1>6, <1>7, <1>8, <1>9, <1>10, <1>11, <1>12, <1>13, <1>14, SMTT(30) DEF TypeOK
  <2>6. QED
    BY <2>1, <2>2, <2>3, <2>4, <2>5 DEF TypeOK
<1>16. QueuedOnce'
  <2> SUFFICES ASSUME NEW i \in 1..Len(queue'), NEW j \in 1..Len(queue')
               PROVE  pc'[queue'[i]] = "queued" /\ (queue'[i] = queue'[j] => i = j)
    BY DEF QueuedOnce
  <2>1. queue' = queue
    BY <1>4, <1>2, <1>3, <1>7, <1>1
  <2>2. queue[i] \in Calls /\ pc[queue[i]] = "queued" /\ (queue[i] = queue[j] => i = j)
    BY <2>1, <1>4, <1>2, <1>3, <1>7, <1>1, Zenon DEF QueuedOnce
  <2>3. QED
    BY <2>1, <2>2, <1>4, <1>2, <1>3, <1>7, <1>1, SMTT(30) DEF InTurn
<1>17. OneTx'
  BY <1>4, <1>5, <1>3, <1>7, SMTT(30) DEF OneTx, InTurn
<1>18. Archiving'
  BY <1>8, <1>9, <1>10, <1>5, <1>7, <1>3, SMTT(30) DEF Archiving, About, Open
<1>19. Backed'
  BY <1>8, <1>9, <1>5, <1>3, <1>7, SMTT(30) DEF Backed, Open
<1>20. Accounted'
  <2> SUFFICES ASSUME NEW d \in Calls, NEW k \in {1, 2}
               PROVE  /\ <<d, k>> \in mem'.rows
                            => pc'[d] \in {"half", "whole", "ok"} \/ (pc'[d] = "failed" /\ d \notin Commands)
                      /\ <<d, k>> \in Durable' \/ <<d, k>> \in tx'.rows
                            => pc'[d] = "ok" \/ (pc'[d] = "failed" /\ d \notin Commands)
    BY DEF Accounted
  <2>1. <<d, k>> \in mem.rows
          => pc[d] \in {"half", "whole", "ok"} \/ (pc[d] = "failed" /\ d \notin Commands)
    BY Zenon DEF Accounted
  <2>2. <<d, k>> \in Durable \/ <<d, k>> \in tx.rows
          => pc[d] = "ok" \/ (pc[d] = "failed" /\ d \notin Commands)
    BY Zenon DEF Accounted
  <2>3. QED
    BY <1>4, <1>8, <1>14, <1>5, <1>3, <1>2, <2>1, <2>2, SMTT(30) DEF Backed, OneTx, InTurn
<1>21. Kept'
  <2> SUFFICES ASSUME NEW d \in Commands
               PROVE  /\ pc'[d] \in {"half", "whole"} => <<d, 1>> \in mem'.rows
                      /\ pc'[d] = "whole" => <<d, 2>> \in mem'.rows
                      /\ pc'[d] = "ok" => <<d, 1>> \in Durable' /\ <<d, 2>> \in Durable'
    BY DEF Kept
  <2>1. /\ pc[d] \in {"half", "whole"} => <<d, 1>> \in mem.rows
        /\ pc[d] = "whole" => <<d, 2>> \in mem.rows
        /\ pc[d] = "ok" => <<d, 1>> \in Durable /\ <<d, 2>> \in Durable
    BY Zenon DEF Kept
  <2>2. QED
    BY <1>4, <1>8, <1>14, <1>3, <1>2, <2>1, SMTT(30) DEF OneTx, InTurn
<1>22. Numbered'
  <2>1. disk.next <= mem.next /\ disk'.next <= mem'.next
    <3>1. disk.next <= mem.next
      BY Zenon DEF Numbered
    <3>2. QED
      BY <3>1, <1>8, <1>9, <1>14, <1>11, <1>12, <1>13, <1>3, <1>7, <1>1, SMTT(30)
  <2>2. ASSUME NEW d \in Calls
        PROVE  /\ <<d, 1>> \in mem'.rows \cup Durable' => id'[d] \in 1..mem'.next
               /\ <<d, 1>> \in Durable' => id'[d] <= disk'.next
    <3>1. /\ <<d, 1>> \in mem.rows \cup Durable => id[d] \in 1..mem.next
          /\ <<d, 1>> \in Durable => id[d] <= disk.next
      BY Zenon DEF Numbered
    <3>2. QED
      BY <1>8, <1>9, <1>14, <1>11, <1>12, <1>13, <1>3, <1>7, <1>1, <2>1, <3>1, SMTT(30)
  <2>3. ASSUME NEW d \in Calls, NEW e \in Calls, d # e,
               <<d, 1>> \in mem'.rows \cup Durable', <<e, 1>> \in mem'.rows \cup Durable'
        PROVE  id'[d] # id'[e]
    <3>1. /\ <<d, 1>> \in mem.rows \cup Durable => id[d] \in 1..mem.next
          /\ <<e, 1>> \in mem.rows \cup Durable => id[e] \in 1..mem.next
          /\ <<d, 1>> \in mem.rows \cup Durable /\ <<e, 1>> \in mem.rows \cup Durable
               => id[d] # id[e]
      BY <2>3, Zenon DEF Numbered
    <3>2. QED
      BY <1>8, <1>9, <1>14, <1>11, <1>12, <1>13, <1>3, <1>7, <1>1, <2>3, <3>1, SMTT(30)
  <2>4. QED
    BY <2>1, <2>2, <2>3, Zenon DEF Numbered
<1>23. QED
  BY <1>14, <1>15, <1>16, <1>17, <1>18, <1>19, <1>20, <1>21, <1>22

LEMMA CommitStep ==
  ASSUME NEW c \in Calls, IInv, Commit(c)
  PROVE  IInv' /\ Durable \subseteq Durable'
<1> USE CallAssumption, BoundAssumption, Calling DEF IInv
<1>1. /\ mem \in State /\ mem.next \in Nat /\ disk.next \in Nat /\ id \in [Calls -> Nat]
       /\ mem.rows \subseteq Rows
       /\ \A i \in 1..Len(queue) : queue[i] \in Commands /\ queue[i] \in Calls
  BY Types
<1>2. pc[c] = "whole" /\ archiving = FALSE
  BY DEF Commit, InTurn, Running, TypeOK
<1>3. c \in tx.by /\ c \in Commands /\ Open /\ archiving = FALSE
  BY <1>2, SMT DEF TypeOK, OneTx, InTurn, Open
<1>4. /\ pc' \in [Calls -> Live \cup Finished] /\ pc'[c] = "ok"
       /\ \A d \in Calls : d # c => pc'[d] = IF pc[d] = "waiting" THEN "settled" ELSE pc[d]
  BY AfterTxFacts DEF Commit
<1>5. tx' = NoTx /\ tx'.by = {} /\ tx'.rows = {} /\ deferred' = FALSE
  BY AfterTxFacts DEF Commit
<1>6. tx' \in Tx
  BY <1>5, NoTxType
<1>7. UNCHANGED <<mem, pack, queue, id, archiving, crashes, fails>>
  BY DEF Commit, Write
<1>8. mem'.rows = mem.rows /\ mem'.next = mem.next /\ mem'.index = mem.index
  BY <1>7, Zenon
<1>9. disk' = mem
  BY DEF Commit, Write
<1>10. pack'.rows = pack.rows
  BY <1>7, Zenon
<1>11. mem.rows \subseteq Durable'
  BY <1>9, <1>10, SMT DEF Durable
<1>12. \/ disk' = disk /\ Durable' = Durable
       \/ disk'.next = mem'.next
  BY <1>9, <1>7, Zenon DEF Durable
<1>13. mem'.rows \cup Durable' \subseteq mem.rows \cup Durable
  BY <1>3, <1>7, <1>8, <1>9, <1>10, SMT DEF Backed, Archiving, Durable
<1>14. Durable \subseteq Durable' /\ Durable' \subseteq Durable \cup mem'.rows
  BY <1>3, <1>7, <1>8, <1>9, <1>10, SMT DEF Backed, Archiving, Durable
<1>15. TypeOK'
  <2>1. mem' \in State /\ disk' \in State /\ pack' \in [there: BOOLEAN, rows: SUBSET Rows]
    BY <1>1, <1>2, <1>3, <1>4, <1>5, <1>6, <1>7, <1>8, <1>9, <1>10, <1>11, <1>14, <1>12, <1>13, SMTT(30) DEF TypeOK
  <2>2. tx' \in [by: SUBSET Commands, rows: SUBSET Rows] /\ queue' \in Seq(Commands)
    BY <1>1, <1>2, <1>3, <1>4, <1>5, <1>6, <1>7, <1>8, <1>9, <1>10, <1>11, <1>14, <1>12, <1>13, SMTT(30) DEF TypeOK, Tx
  <2>3. pc' \in [Calls -> Live \cup Finished] /\ id' \in [Calls -> Nat]
    BY <1>1, <1>2, <1>3, <1>4, <1>5, <1>6, <1>7, <1>8, <1>9, <1>10, <1>11, <1>14, <1>12, <1>13, SMTT(30) DEF TypeOK
  <2>4. deferred' \in BOOLEAN /\ (deferred' => Open') /\ archiving' \in BOOLEAN
    BY <1>1, <1>2, <1>3, <1>4, <1>5, <1>6, <1>7, <1>8, <1>9, <1>10, <1>11, <1>14, <1>12, <1>13, Zenon DEF TypeOK, Open
  <2>5. crashes' \in 0..MaxCrash /\ fails' \in 0..MaxFail
    BY <1>1, <1>2, <1>3, <1>4, <1>5, <1>6, <1>7, <1>8, <1>9, <1>10, <1>11, <1>14, <1>12, <1>13, SMTT(30) DEF TypeOK
  <2>6. QED
    BY <2>1, <2>2, <2>3, <2>4, <2>5 DEF TypeOK
<1>16. QueuedOnce'
  <2> SUFFICES ASSUME NEW i \in 1..Len(queue'), NEW j \in 1..Len(queue')
               PROVE  pc'[queue'[i]] = "queued" /\ (queue'[i] = queue'[j] => i = j)
    BY DEF QueuedOnce
  <2>1. queue' = queue
    BY <1>4, <1>2, <1>3, <1>7, <1>1
  <2>2. queue[i] \in Calls /\ pc[queue[i]] = "queued" /\ (queue[i] = queue[j] => i = j)
    BY <2>1, <1>4, <1>2, <1>3, <1>7, <1>1, Zenon DEF QueuedOnce
  <2>3. QED
    BY <2>1, <2>2, <1>4, <1>2, <1>3, <1>7, <1>1, SMTT(30) DEF InTurn
<1>17. OneTx'
  BY <1>4, <1>5, <1>3, <1>7, SMTT(30) DEF OneTx, InTurn
<1>18. Archiving'
  BY <1>8, <1>9, <1>10, <1>5, <1>7, <1>3, SMTT(30) DEF Archiving, About, Open
<1>19. Backed'
  BY <1>8, <1>9, <1>5, <1>3, <1>7, SMTT(30) DEF Backed, Open
<1>20. Accounted'
  <2> SUFFICES ASSUME NEW d \in Calls, NEW k \in {1, 2}
               PROVE  /\ <<d, k>> \in mem'.rows
                            => pc'[d] \in {"half", "whole", "ok"} \/ (pc'[d] = "failed" /\ d \notin Commands)
                      /\ <<d, k>> \in Durable' \/ <<d, k>> \in tx'.rows
                            => pc'[d] = "ok" \/ (pc'[d] = "failed" /\ d \notin Commands)
    BY DEF Accounted
  <2>1. <<d, k>> \in mem.rows
          => pc[d] \in {"half", "whole", "ok"} \/ (pc[d] = "failed" /\ d \notin Commands)
    BY Zenon DEF Accounted
  <2>2. <<d, k>> \in Durable \/ <<d, k>> \in tx.rows
          => pc[d] = "ok" \/ (pc[d] = "failed" /\ d \notin Commands)
    BY Zenon DEF Accounted
  <2>3. QED
    BY <1>4, <1>8, <1>11, <1>14, <1>5, <1>3, <1>2, <2>1, <2>2, SMTT(30) DEF Backed, OneTx, InTurn
<1>21. Kept'
  <2> SUFFICES ASSUME NEW d \in Commands
               PROVE  /\ pc'[d] \in {"half", "whole"} => <<d, 1>> \in mem'.rows
                      /\ pc'[d] = "whole" => <<d, 2>> \in mem'.rows
                      /\ pc'[d] = "ok" => <<d, 1>> \in Durable' /\ <<d, 2>> \in Durable'
    BY DEF Kept
  <2>1. /\ pc[d] \in {"half", "whole"} => <<d, 1>> \in mem.rows
        /\ pc[d] = "whole" => <<d, 2>> \in mem.rows
        /\ pc[d] = "ok" => <<d, 1>> \in Durable /\ <<d, 2>> \in Durable
    BY Zenon DEF Kept
  <2>2. QED
    BY <1>4, <1>8, <1>11, <1>14, <1>3, <1>2, <2>1, SMTT(30) DEF OneTx, InTurn
<1>22. Numbered'
  <2>1. disk.next <= mem.next /\ disk'.next <= mem'.next
    <3>1. disk.next <= mem.next
      BY Zenon DEF Numbered
    <3>2. QED
      BY <3>1, <1>8, <1>9, <1>11, <1>14, <1>12, <1>13, <1>3, <1>7, <1>1, SMTT(30)
  <2>2. ASSUME NEW d \in Calls
        PROVE  /\ <<d, 1>> \in mem'.rows \cup Durable' => id'[d] \in 1..mem'.next
               /\ <<d, 1>> \in Durable' => id'[d] <= disk'.next
    <3>1. /\ <<d, 1>> \in mem.rows \cup Durable => id[d] \in 1..mem.next
          /\ <<d, 1>> \in Durable => id[d] <= disk.next
      BY Zenon DEF Numbered
    <3>2. QED
      BY <1>8, <1>9, <1>11, <1>14, <1>12, <1>13, <1>3, <1>7, <1>1, <2>1, <3>1, SMTT(30)
  <2>3. ASSUME NEW d \in Calls, NEW e \in Calls, d # e,
               <<d, 1>> \in mem'.rows \cup Durable', <<e, 1>> \in mem'.rows \cup Durable'
        PROVE  id'[d] # id'[e]
    <3>1. /\ <<d, 1>> \in mem.rows \cup Durable => id[d] \in 1..mem.next
          /\ <<e, 1>> \in mem.rows \cup Durable => id[e] \in 1..mem.next
          /\ <<d, 1>> \in mem.rows \cup Durable /\ <<e, 1>> \in mem.rows \cup Durable
               => id[d] # id[e]
      BY <2>3, Zenon DEF Numbered
    <3>2. QED
      BY <1>8, <1>9, <1>11, <1>14, <1>12, <1>13, <1>3, <1>7, <1>1, <2>3, <3>1, SMTT(30)
  <2>4. QED
    BY <2>1, <2>2, <2>3, Zenon DEF Numbered
<1>23. QED
  BY <1>11, <1>14, <1>15, <1>16, <1>17, <1>18, <1>19, <1>20, <1>21, <1>22

LEMMA CommitFailsStep ==
  ASSUME NEW c \in Calls, IInv, CommitFails(c)
  PROVE  IInv' /\ Durable \subseteq Durable'
<1> USE CallAssumption, BoundAssumption, Calling DEF IInv
<1>1. /\ mem \in State /\ mem.next \in Nat /\ disk.next \in Nat /\ id \in [Calls -> Nat]
       /\ mem.rows \subseteq Rows
       /\ \A i \in 1..Len(queue) : queue[i] \in Commands /\ queue[i] \in Calls
  BY Types
<1>2. pc[c] = "whole" /\ archiving = FALSE
  BY DEF CommitFails, InTurn, Running, TypeOK
<1>3. c \in tx.by /\ c \in Commands /\ Open /\ archiving = FALSE
  BY <1>2, SMT DEF TypeOK, OneTx, InTurn, Open
<1>4. /\ pc' \in [Calls -> Live \cup Finished] /\ pc'[c] = "failed"
       /\ \A d \in Calls : d # c => pc'[d] = IF pc[d] = "waiting" THEN "settled" ELSE pc[d]
  BY AfterTxFacts DEF CommitFails
<1>5. tx' = NoTx /\ tx'.by = {} /\ tx'.rows = {} /\ deferred' = FALSE
  BY AfterTxFacts DEF CommitFails
<1>6. tx' \in Tx
  BY <1>5, NoTxType
<1>7. UNCHANGED <<pack, queue, id, archiving, crashes>>
  BY DEF CommitFails
<1>8. /\ mem' \in State /\ mem'.rows = tx.rows /\ mem'.next = mem.next /\ mem'.index = mem.index
  BY RestoredRows DEF CommitFails, TypeOK
<1>9. disk' \in {disk, mem'} /\ fails' \in 0..MaxFail
  BY SMT DEF CommitFails, TypeOK, Write, WriteFails
<1>10. pack'.rows = pack.rows
  BY <1>7, Zenon
<1>11. tx.rows \subseteq mem.rows
  BY <1>3 DEF Backed
<1>12. \/ disk' = disk /\ Durable' = Durable
       \/ disk'.next = mem'.next
  BY <1>9, <1>7, Zenon DEF Durable
<1>13. mem'.rows \cup Durable' \subseteq mem.rows \cup Durable
  BY <1>3, <1>7, <1>8, <1>9, <1>10, SMT DEF Backed, Archiving, Durable
<1>14. Durable \subseteq Durable' /\ Durable' \subseteq Durable \cup mem'.rows
  BY <1>3, <1>7, <1>8, <1>9, <1>10, SMT DEF Backed, Archiving, Durable
<1>15. TypeOK'
  <2>1. mem' \in State /\ disk' \in State /\ pack' \in [there: BOOLEAN, rows: SUBSET Rows]
    BY <1>1, <1>2, <1>3, <1>4, <1>5, <1>6, <1>7, <1>8, <1>9, <1>10, <1>11, <1>12, <1>13, <1>14, SMTT(30) DEF TypeOK
  <2>2. tx' \in [by: SUBSET Commands, rows: SUBSET Rows] /\ queue' \in Seq(Commands)
    BY <1>1, <1>2, <1>3, <1>4, <1>5, <1>6, <1>7, <1>8, <1>9, <1>10, <1>11, <1>12, <1>13, <1>14, SMTT(30) DEF TypeOK, Tx
  <2>3. pc' \in [Calls -> Live \cup Finished] /\ id' \in [Calls -> Nat]
    BY <1>1, <1>2, <1>3, <1>4, <1>5, <1>6, <1>7, <1>8, <1>9, <1>10, <1>11, <1>12, <1>13, <1>14, SMTT(30) DEF TypeOK
  <2>4. deferred' \in BOOLEAN /\ (deferred' => Open') /\ archiving' \in BOOLEAN
    BY <1>1, <1>2, <1>3, <1>4, <1>5, <1>6, <1>7, <1>8, <1>9, <1>10, <1>11, <1>12, <1>13, <1>14, Zenon DEF TypeOK, Open
  <2>5. crashes' \in 0..MaxCrash /\ fails' \in 0..MaxFail
    BY <1>1, <1>2, <1>3, <1>4, <1>5, <1>6, <1>7, <1>8, <1>9, <1>10, <1>11, <1>12, <1>13, <1>14, SMTT(30) DEF TypeOK
  <2>6. QED
    BY <2>1, <2>2, <2>3, <2>4, <2>5 DEF TypeOK
<1>16. QueuedOnce'
  <2> SUFFICES ASSUME NEW i \in 1..Len(queue'), NEW j \in 1..Len(queue')
               PROVE  pc'[queue'[i]] = "queued" /\ (queue'[i] = queue'[j] => i = j)
    BY DEF QueuedOnce
  <2>1. queue' = queue
    BY <1>4, <1>2, <1>3, <1>7, <1>1
  <2>2. queue[i] \in Calls /\ pc[queue[i]] = "queued" /\ (queue[i] = queue[j] => i = j)
    BY <2>1, <1>4, <1>2, <1>3, <1>7, <1>1, Zenon DEF QueuedOnce
  <2>3. QED
    BY <2>1, <2>2, <1>4, <1>2, <1>3, <1>7, <1>1, SMTT(30) DEF InTurn
<1>17. OneTx'
  BY <1>4, <1>5, <1>3, <1>7, SMTT(30) DEF OneTx, InTurn
<1>18. Archiving'
  BY <1>8, <1>9, <1>10, <1>5, <1>7, <1>3, SMTT(30) DEF Archiving, About, Open
<1>19. Backed'
  BY <1>8, <1>9, <1>5, <1>3, <1>7, SMTT(30) DEF Backed, Open
<1>20. Accounted'
  <2> SUFFICES ASSUME NEW d \in Calls, NEW k \in {1, 2}
               PROVE  /\ <<d, k>> \in mem'.rows
                            => pc'[d] \in {"half", "whole", "ok"} \/ (pc'[d] = "failed" /\ d \notin Commands)
                      /\ <<d, k>> \in Durable' \/ <<d, k>> \in tx'.rows
                            => pc'[d] = "ok" \/ (pc'[d] = "failed" /\ d \notin Commands)
    BY DEF Accounted
  <2>1. <<d, k>> \in mem.rows
          => pc[d] \in {"half", "whole", "ok"} \/ (pc[d] = "failed" /\ d \notin Commands)
    BY Zenon DEF Accounted
  <2>2. <<d, k>> \in Durable \/ <<d, k>> \in tx.rows
          => pc[d] = "ok" \/ (pc[d] = "failed" /\ d \notin Commands)
    BY Zenon DEF Accounted
  <2>3. QED
    BY <1>4, <1>8, <1>14, <1>5, <1>3, <1>2, <2>1, <2>2, SMTT(30) DEF Backed, OneTx, InTurn
<1>21. Kept'
  <2> SUFFICES ASSUME NEW d \in Commands
               PROVE  /\ pc'[d] \in {"half", "whole"} => <<d, 1>> \in mem'.rows
                      /\ pc'[d] = "whole" => <<d, 2>> \in mem'.rows
                      /\ pc'[d] = "ok" => <<d, 1>> \in Durable' /\ <<d, 2>> \in Durable'
    BY DEF Kept
  <2>1. /\ pc[d] \in {"half", "whole"} => <<d, 1>> \in mem.rows
        /\ pc[d] = "whole" => <<d, 2>> \in mem.rows
        /\ pc[d] = "ok" => <<d, 1>> \in Durable /\ <<d, 2>> \in Durable
    BY Zenon DEF Kept
  <2>2. QED
    BY <1>4, <1>8, <1>14, <1>3, <1>2, <2>1, SMTT(30) DEF OneTx, InTurn
<1>22. Numbered'
  <2>1. disk.next <= mem.next /\ disk'.next <= mem'.next
    <3>1. disk.next <= mem.next
      BY Zenon DEF Numbered
    <3>2. QED
      BY <3>1, <1>8, <1>9, <1>14, <1>11, <1>12, <1>13, <1>3, <1>7, <1>1, SMTT(30)
  <2>2. ASSUME NEW d \in Calls
        PROVE  /\ <<d, 1>> \in mem'.rows \cup Durable' => id'[d] \in 1..mem'.next
               /\ <<d, 1>> \in Durable' => id'[d] <= disk'.next
    <3>1. /\ <<d, 1>> \in mem.rows \cup Durable => id[d] \in 1..mem.next
          /\ <<d, 1>> \in Durable => id[d] <= disk.next
      BY Zenon DEF Numbered
    <3>2. QED
      BY <1>8, <1>9, <1>14, <1>11, <1>12, <1>13, <1>3, <1>7, <1>1, <2>1, <3>1, SMTT(30)
  <2>3. ASSUME NEW d \in Calls, NEW e \in Calls, d # e,
               <<d, 1>> \in mem'.rows \cup Durable', <<e, 1>> \in mem'.rows \cup Durable'
        PROVE  id'[d] # id'[e]
    <3>1. /\ <<d, 1>> \in mem.rows \cup Durable => id[d] \in 1..mem.next
          /\ <<e, 1>> \in mem.rows \cup Durable => id[e] \in 1..mem.next
          /\ <<d, 1>> \in mem.rows \cup Durable /\ <<e, 1>> \in mem.rows \cup Durable
               => id[d] # id[e]
      BY <2>3, Zenon DEF Numbered
    <3>2. QED
      BY <1>8, <1>9, <1>14, <1>11, <1>12, <1>13, <1>3, <1>7, <1>1, <2>3, <3>1, SMTT(30)
  <2>4. QED
    BY <2>1, <2>2, <2>3, Zenon DEF Numbered
<1>23. QED
  BY <1>14, <1>15, <1>16, <1>17, <1>18, <1>19, <1>20, <1>21, <1>22

LEMMA SettleStep ==
  ASSUME NEW c \in Outside, IInv, Settle(c)
  PROVE  IInv' /\ Durable \subseteq Durable'
<1> USE CallAssumption, BoundAssumption, Calling DEF IInv
<1>1. /\ mem \in State /\ mem.next \in Nat /\ disk.next \in Nat /\ id \in [Calls -> Nat]
       /\ mem.rows \subseteq Rows
       /\ \A i \in 1..Len(queue) : queue[i] \in Commands /\ queue[i] \in Calls
  BY Types
<1>2. pc[c] = "idle"
  BY DEF Settle
<1>3. /\ pc' \in [Calls -> Live \cup Finished] /\ pc'[c] \in {"waiting", "settled"}
       /\ \A d \in Calls : d # c => pc'[d] = pc[d]
  BY SMT DEF Settle, Goto, TypeOK, Live, Finished
<1>4. UNCHANGED <<mem, disk, pack, tx, queue, deferred, id, archiving, crashes, fails>>
  BY DEF Settle
<1>5. mem'.rows = mem.rows /\ mem'.next = mem.next /\ mem'.index = mem.index
  BY <1>4, Zenon
<1>6. disk'.rows = disk.rows /\ disk'.next = disk.next /\ disk'.index = disk.index
  BY <1>4, Zenon
<1>7. tx'.by = tx.by /\ tx'.rows = tx.rows
  BY <1>4, Zenon
<1>8. pack'.rows = pack.rows
  BY <1>4, Zenon
<1>9. Durable' = Durable
  BY <1>4, Zenon DEF Durable
<1>10. TypeOK'
  BY <1>1, <1>2, <1>3, <1>4, <1>5, <1>6, <1>7, <1>8, <1>9, SMTT(30) DEF TypeOK, Open, Tx
<1>11. QueuedOnce'
  <2> SUFFICES ASSUME NEW i \in 1..Len(queue'), NEW j \in 1..Len(queue')
               PROVE  pc'[queue'[i]] = "queued" /\ (queue'[i] = queue'[j] => i = j)
    BY DEF QueuedOnce
  <2>1. queue' = queue
    BY <1>3, <1>2, <1>4, <1>1
  <2>2. queue[i] \in Calls /\ pc[queue[i]] = "queued" /\ (queue[i] = queue[j] => i = j)
    BY <2>1, <1>3, <1>2, <1>4, <1>1, Zenon DEF QueuedOnce
  <2>3. QED
    BY <2>1, <2>2, <1>3, <1>2, <1>4, <1>1, SMTT(30) DEF InTurn
<1>12. OneTx'
  BY <1>3, <1>7, <1>2, <1>4, SMTT(30) DEF OneTx, InTurn, TypeOK
<1>13. Archiving'
  BY <1>5, <1>6, <1>8, <1>7, <1>2, <1>4, SMTT(30) DEF Archiving, About, Open
<1>14. Backed'
  BY <1>5, <1>6, <1>7, <1>2, <1>4, SMTT(30) DEF Backed, Open
<1>15. Accounted'
  <2> SUFFICES ASSUME NEW d \in Calls, NEW k \in {1, 2}
               PROVE  /\ <<d, k>> \in mem'.rows
                            => pc'[d] \in {"half", "whole", "ok"} \/ (pc'[d] = "failed" /\ d \notin Commands)
                      /\ <<d, k>> \in Durable' \/ <<d, k>> \in tx'.rows
                            => pc'[d] = "ok" \/ (pc'[d] = "failed" /\ d \notin Commands)
    BY DEF Accounted
  <2>1. <<d, k>> \in mem.rows
          => pc[d] \in {"half", "whole", "ok"} \/ (pc[d] = "failed" /\ d \notin Commands)
    BY Zenon DEF Accounted
  <2>2. <<d, k>> \in Durable \/ <<d, k>> \in tx.rows
          => pc[d] = "ok" \/ (pc[d] = "failed" /\ d \notin Commands)
    BY Zenon DEF Accounted
  <2>3. QED
    BY <1>3, <1>5, <1>9, <1>7, <1>2, <2>1, <2>2, SMTT(30)
<1>16. Kept'
  <2> SUFFICES ASSUME NEW d \in Commands
               PROVE  /\ pc'[d] \in {"half", "whole"} => <<d, 1>> \in mem'.rows
                      /\ pc'[d] = "whole" => <<d, 2>> \in mem'.rows
                      /\ pc'[d] = "ok" => <<d, 1>> \in Durable' /\ <<d, 2>> \in Durable'
    BY DEF Kept
  <2>1. /\ pc[d] \in {"half", "whole"} => <<d, 1>> \in mem.rows
        /\ pc[d] = "whole" => <<d, 2>> \in mem.rows
        /\ pc[d] = "ok" => <<d, 1>> \in Durable /\ <<d, 2>> \in Durable
    BY Zenon DEF Kept
  <2>2. QED
    BY <1>3, <1>5, <1>9, <1>2, <2>1, SMTT(30)
<1>17. Numbered'
  <2>1. disk.next <= mem.next /\ disk'.next <= mem'.next
    <3>1. disk.next <= mem.next
      BY Zenon DEF Numbered
    <3>2. QED
      BY <3>1, <1>5, <1>6, <1>9, <1>2, <1>4, <1>1, SMTT(30)
  <2>2. ASSUME NEW d \in Calls
        PROVE  /\ <<d, 1>> \in mem'.rows \cup Durable' => id'[d] \in 1..mem'.next
               /\ <<d, 1>> \in Durable' => id'[d] <= disk'.next
    <3>1. /\ <<d, 1>> \in mem.rows \cup Durable => id[d] \in 1..mem.next
          /\ <<d, 1>> \in Durable => id[d] <= disk.next
      BY Zenon DEF Numbered
    <3>2. QED
      BY <1>5, <1>6, <1>9, <1>2, <1>4, <1>1, <2>1, <3>1, SMTT(30)
  <2>3. ASSUME NEW d \in Calls, NEW e \in Calls, d # e,
               <<d, 1>> \in mem'.rows \cup Durable', <<e, 1>> \in mem'.rows \cup Durable'
        PROVE  id'[d] # id'[e]
    <3>1. /\ <<d, 1>> \in mem.rows \cup Durable => id[d] \in 1..mem.next
          /\ <<e, 1>> \in mem.rows \cup Durable => id[e] \in 1..mem.next
          /\ <<d, 1>> \in mem.rows \cup Durable /\ <<e, 1>> \in mem.rows \cup Durable
               => id[d] # id[e]
      BY <2>3, Zenon DEF Numbered
    <3>2. QED
      BY <1>5, <1>6, <1>9, <1>2, <1>4, <1>1, <2>3, <3>1, SMTT(30)
  <2>4. QED
    BY <2>1, <2>2, <2>3, Zenon DEF Numbered
<1>18. QED
  BY <1>9, <1>10, <1>11, <1>12, <1>13, <1>14, <1>15, <1>16, <1>17

LEMMA OutsideRowStep ==
  ASSUME NEW c \in Outside, IInv, OutsideRow(c)
  PROVE  IInv' /\ Durable \subseteq Durable'
<1> USE CallAssumption, BoundAssumption, Calling DEF IInv
<1>1. /\ mem \in State /\ mem.next \in Nat /\ disk.next \in Nat /\ id \in [Calls -> Nat]
       /\ mem.rows \subseteq Rows
       /\ \A i \in 1..Len(queue) : queue[i] \in Commands /\ queue[i] \in Calls
  BY Types
<1>2. pc[c] = "settled" /\ archiving = FALSE
  BY DEF OutsideRow, Running, TypeOK
<1>3. c \notin Commands /\ c \notin tx.by /\ <<c, 1>> \in Rows /\ pc[c] = "settled" /\ archiving = FALSE
  BY <1>2, SMT DEF TypeOK, Rows
<1>4. \E l \in {"ok", "failed"} : pc' = [pc EXCEPT ![c] = l]
  BY Zenon DEF OutsideRow, Goto
<1>5. /\ pc' \in [Calls -> Live \cup Finished] /\ pc'[c] \in {"ok", "failed"}
       /\ \A d \in Calls : d # c => pc'[d] = pc[d]
  BY <1>4, SMT DEF TypeOK, Live, Finished
<1>6. id' \in [Calls -> Nat] /\ id'[c] = mem.next + 1 /\ \A d \in Calls : d # c => id'[d] = id[d]
  BY SMT DEF OutsideRow, TypeOK, State
<1>7. /\ mem' \in State /\ mem'.rows = mem.rows \cup {<<c, 1>>} /\ mem'.next = mem.next + 1
       /\ mem'.index = mem.index
  BY <1>3, RowAdded DEF TypeOK, OutsideRow
<1>8. ~Open => \A d \in Calls : pc[d] \notin InTurn
  BY Zenon DEF OneTx, Open
<1>9. disk' = disk \/ (~Open /\ disk' = mem')
  BY Zenon DEF OutsideRow, Flush, Write, WriteFails
<1>10. fails' \in 0..MaxFail
  BY SMT DEF OutsideRow, TypeOK, Flush, Write, WriteFails
<1>11. (deferred' = deferred \/ (deferred' = TRUE /\ Open)) /\ (deferred => Open) /\ deferred \in BOOLEAN
  BY Zenon DEF OutsideRow, Flush, TypeOK
<1>12. <<c, 1>> \notin mem.rows /\ <<c, 1>> \notin Durable
  <2>1. /\ <<c, 1>> \in mem.rows
             => pc[c] \in {"half", "whole", "ok"} \/ (pc[c] = "failed" /\ c \notin Commands)
        /\ <<c, 1>> \in Durable => pc[c] = "ok" \/ (pc[c] = "failed" /\ c \notin Commands)
    <3>1. c \in Calls /\ 1 \in {1, 2}
      BY Calling
    <3>2. QED
      BY <3>1, Zenon DEF Accounted
  <2>2. QED
    BY <1>3, <2>1, SMT
<1>13. UNCHANGED <<pack, tx, queue, archiving, crashes>>
  BY DEF OutsideRow
<1>14. tx'.by = tx.by /\ tx'.rows = tx.rows
  BY <1>13, Zenon
<1>15. pack'.rows = pack.rows
  BY <1>13, Zenon
<1>16. \/ disk' = disk /\ Durable' = Durable
       \/ disk'.next = mem'.next
  BY <1>9, <1>13, Zenon DEF Durable
<1>17. Durable' = Durable \/ ~Open
  BY <1>9, <1>13, Zenon DEF Durable
<1>18. Durable \subseteq Durable' /\ Durable' \subseteq Durable \cup mem'.rows
  BY <1>3, <1>13, <1>7, <1>12, <1>9, <1>15, SMT DEF Backed, Archiving, Durable
<1>19. TypeOK'
  <2>1. mem' \in State /\ disk' \in State /\ pack' \in [there: BOOLEAN, rows: SUBSET Rows]
    BY <1>1, <1>2, <1>3, <1>4, <1>5, <1>6, <1>7, <1>12, <1>8, <1>9, <1>10, <1>11, <1>18, <1>13, <1>14, <1>15, <1>16, <1>17, SMTT(30) DEF TypeOK
  <2>2. tx' \in [by: SUBSET Commands, rows: SUBSET Rows] /\ queue' \in Seq(Commands)
    BY <1>1, <1>2, <1>3, <1>4, <1>5, <1>6, <1>7, <1>12, <1>8, <1>9, <1>10, <1>11, <1>18, <1>13, <1>14, <1>15, <1>16, <1>17, SMTT(30) DEF TypeOK, Tx
  <2>3. pc' \in [Calls -> Live \cup Finished] /\ id' \in [Calls -> Nat]
    BY <1>1, <1>2, <1>3, <1>4, <1>5, <1>6, <1>7, <1>12, <1>8, <1>9, <1>10, <1>11, <1>18, <1>13, <1>14, <1>15, <1>16, <1>17, SMTT(30) DEF TypeOK
  <2>4. deferred' \in BOOLEAN /\ (deferred' => Open') /\ archiving' \in BOOLEAN
    <3>1. tx' = tx /\ archiving' = archiving
      BY <1>13
    <3>2. Open' = Open
      BY <3>1, Zenon DEF Open
    <3>3. CASE deferred' = deferred
      BY <3>1, <3>2, <3>3, <1>11, Zenon DEF TypeOK
    <3>4. CASE deferred' = TRUE /\ Open
      BY <3>1, <3>2, <3>4, Zenon DEF TypeOK
    <3>5. QED
      BY <3>3, <3>4, <1>11, Zenon
  <2>5. crashes' \in 0..MaxCrash /\ fails' \in 0..MaxFail
    BY <1>1, <1>2, <1>3, <1>4, <1>5, <1>6, <1>7, <1>12, <1>8, <1>9, <1>10, <1>11, <1>18, <1>13, <1>14, <1>15, <1>16, <1>17, SMTT(30) DEF TypeOK
  <2>6. QED
    BY <2>1, <2>2, <2>3, <2>4, <2>5 DEF TypeOK
<1>20. QueuedOnce'
  <2> SUFFICES ASSUME NEW i \in 1..Len(queue'), NEW j \in 1..Len(queue')
               PROVE  pc'[queue'[i]] = "queued" /\ (queue'[i] = queue'[j] => i = j)
    BY DEF QueuedOnce
  <2>1. queue' = queue
    BY <1>5, <1>3, <1>13, <1>1
  <2>2. queue[i] \in Calls /\ pc[queue[i]] = "queued" /\ (queue[i] = queue[j] => i = j)
    BY <2>1, <1>5, <1>3, <1>13, <1>1, Zenon DEF QueuedOnce
  <2>3. QED
    BY <2>1, <2>2, <1>5, <1>3, <1>13, <1>1, SMTT(30) DEF InTurn
<1>21. OneTx'
  BY <1>5, <1>14, <1>3, <1>13, SMTT(30) DEF OneTx, InTurn, TypeOK, InTurn
<1>22. Archiving'
  BY <1>7, <1>12, <1>9, <1>15, <1>14, <1>13, <1>3, SMTT(30) DEF Archiving, About, Open
<1>23. Backed'
  BY <1>7, <1>12, <1>9, <1>14, <1>3, <1>13, SMTT(30) DEF Backed, Open
<1>24. Accounted'
  <2> SUFFICES ASSUME NEW d \in Calls, NEW k \in {1, 2}
               PROVE  /\ <<d, k>> \in mem'.rows
                            => pc'[d] \in {"half", "whole", "ok"} \/ (pc'[d] = "failed" /\ d \notin Commands)
                      /\ <<d, k>> \in Durable' \/ <<d, k>> \in tx'.rows
                            => pc'[d] = "ok" \/ (pc'[d] = "failed" /\ d \notin Commands)
    BY DEF Accounted
  <2>1. <<d, k>> \in mem.rows
          => pc[d] \in {"half", "whole", "ok"} \/ (pc[d] = "failed" /\ d \notin Commands)
    BY Zenon DEF Accounted
  <2>2. <<d, k>> \in Durable \/ <<d, k>> \in tx.rows
          => pc[d] = "ok" \/ (pc[d] = "failed" /\ d \notin Commands)
    BY Zenon DEF Accounted
  <2>3. QED
    BY <1>5, <1>7, <1>12, <1>18, <1>14, <1>8, <1>16, <1>17, <1>3, <2>1, <2>2, SMTT(30) DEF InTurn
<1>25. Kept'
  <2> SUFFICES ASSUME NEW d \in Commands
               PROVE  /\ pc'[d] \in {"half", "whole"} => <<d, 1>> \in mem'.rows
                      /\ pc'[d] = "whole" => <<d, 2>> \in mem'.rows
                      /\ pc'[d] = "ok" => <<d, 1>> \in Durable' /\ <<d, 2>> \in Durable'
    BY DEF Kept
  <2>1. /\ pc[d] \in {"half", "whole"} => <<d, 1>> \in mem.rows
        /\ pc[d] = "whole" => <<d, 2>> \in mem.rows
        /\ pc[d] = "ok" => <<d, 1>> \in Durable /\ <<d, 2>> \in Durable
    BY Zenon DEF Kept
  <2>2. QED
    BY <1>5, <1>7, <1>12, <1>18, <1>3, <2>1, SMTT(30)
<1>26. Numbered'
  <2>1. disk.next <= mem.next /\ disk'.next <= mem'.next
    <3>1. disk.next <= mem.next
      BY Zenon DEF Numbered
    <3>2. QED
      BY <3>1, <1>7, <1>12, <1>9, <1>6, <1>18, <1>16, <1>17, <1>3, <1>13, <1>1, SMTT(30)
  <2>2. ASSUME NEW d \in Calls
        PROVE  /\ <<d, 1>> \in mem'.rows \cup Durable' => id'[d] \in 1..mem'.next
               /\ <<d, 1>> \in Durable' => id'[d] <= disk'.next
    <3>1. /\ <<d, 1>> \in mem.rows \cup Durable => id[d] \in 1..mem.next
          /\ <<d, 1>> \in Durable => id[d] <= disk.next
      BY Zenon DEF Numbered
    <3>2. CASE d = c
      <4>1. <<d, 1>> \in Durable' => disk'.next = mem'.next
        BY <3>2, <1>12, <1>16, Zenon
      <4>2. QED
        BY <3>2, <4>1, <1>1, <1>6, <1>7, SMT
    <3>3. CASE d # c
      <4>1. id'[d] = id[d] /\ id[d] \in Nat
        BY <3>3, <1>6, <1>1
      <4>2. <<d, 1>> \in mem'.rows => <<d, 1>> \in mem.rows
        BY <3>3, <1>7
      <4>3. <<d, 1>> \in mem'.rows \cup Durable' => id[d] \in 1..mem.next
        BY <4>2, <1>18, <3>1, Zenon
      <4>4. <<d, 1>> \in Durable' => (<<d, 1>> \in Durable /\ disk' = disk) \/ disk'.next = mem'.next
        BY <1>16, Zenon
      <4>5. mem'.next = mem.next + 1 /\ mem.next \in Nat
        BY <1>7, <1>1
      <4>6. QED
        BY <3>1, <4>1, <4>3, <4>4, <4>5, SMT
    <3>4. QED
      BY <3>2, <3>3
  <2>3. ASSUME NEW d \in Calls, NEW e \in Calls, d # e,
               <<d, 1>> \in mem'.rows \cup Durable', <<e, 1>> \in mem'.rows \cup Durable'
        PROVE  id'[d] # id'[e]
    <3>1. /\ <<d, 1>> \in mem.rows \cup Durable => id[d] \in 1..mem.next
          /\ <<e, 1>> \in mem.rows \cup Durable => id[e] \in 1..mem.next
          /\ <<d, 1>> \in mem.rows \cup Durable /\ <<e, 1>> \in mem.rows \cup Durable
               => id[d] # id[e]
      BY <2>3, Zenon DEF Numbered
    <3>2. QED
      BY <1>7, <1>12, <1>9, <1>6, <1>18, <1>16, <1>17, <1>3, <1>13, <1>1, <2>3, <3>1, SMTT(30)
  <2>4. QED
    BY <2>1, <2>2, <2>3, Zenon DEF Numbered
<1>27. QED
  BY <1>12, <1>18, <1>19, <1>20, <1>21, <1>22, <1>23, <1>24, <1>25, <1>26

LEMMA OutsideRefusedStep ==
  ASSUME NEW c \in Outside, IInv, OutsideRefused(c)
  PROVE  IInv' /\ Durable \subseteq Durable'
<1> USE CallAssumption, BoundAssumption, Calling DEF IInv
<1>1. /\ mem \in State /\ mem.next \in Nat /\ disk.next \in Nat /\ id \in [Calls -> Nat]
       /\ mem.rows \subseteq Rows
       /\ \A i \in 1..Len(queue) : queue[i] \in Commands /\ queue[i] \in Calls
  BY Types
<1>2. pc[c] = "settled"
  BY DEF OutsideRefused
<1>3. /\ pc' \in [Calls -> Live \cup Finished] /\ pc'[c] = "failed"
       /\ \A d \in Calls : d # c => pc'[d] = pc[d]
  BY SMT DEF OutsideRefused, Goto, TypeOK, Live, Finished
<1>4. UNCHANGED <<mem, disk, pack, tx, queue, deferred, id, archiving, crashes, fails>>
  BY DEF OutsideRefused
<1>5. mem'.rows = mem.rows /\ mem'.next = mem.next /\ mem'.index = mem.index
  BY <1>4, Zenon
<1>6. disk'.rows = disk.rows /\ disk'.next = disk.next /\ disk'.index = disk.index
  BY <1>4, Zenon
<1>7. tx'.by = tx.by /\ tx'.rows = tx.rows
  BY <1>4, Zenon
<1>8. pack'.rows = pack.rows
  BY <1>4, Zenon
<1>9. Durable' = Durable
  BY <1>4, Zenon DEF Durable
<1>10. TypeOK'
  BY <1>1, <1>2, <1>3, <1>4, <1>5, <1>6, <1>7, <1>8, <1>9, SMTT(30) DEF TypeOK, Open, Tx
<1>11. QueuedOnce'
  <2> SUFFICES ASSUME NEW i \in 1..Len(queue'), NEW j \in 1..Len(queue')
               PROVE  pc'[queue'[i]] = "queued" /\ (queue'[i] = queue'[j] => i = j)
    BY DEF QueuedOnce
  <2>1. queue' = queue
    BY <1>3, <1>2, <1>4, <1>1
  <2>2. queue[i] \in Calls /\ pc[queue[i]] = "queued" /\ (queue[i] = queue[j] => i = j)
    BY <2>1, <1>3, <1>2, <1>4, <1>1, Zenon DEF QueuedOnce
  <2>3. QED
    BY <2>1, <2>2, <1>3, <1>2, <1>4, <1>1, SMTT(30) DEF InTurn
<1>12. OneTx'
  BY <1>3, <1>7, <1>2, <1>4, SMTT(30) DEF OneTx, InTurn, TypeOK
<1>13. Archiving'
  BY <1>5, <1>6, <1>8, <1>7, <1>2, <1>4, SMTT(30) DEF Archiving, About, Open
<1>14. Backed'
  BY <1>5, <1>6, <1>7, <1>2, <1>4, SMTT(30) DEF Backed, Open
<1>15. Accounted'
  <2> SUFFICES ASSUME NEW d \in Calls, NEW k \in {1, 2}
               PROVE  /\ <<d, k>> \in mem'.rows
                            => pc'[d] \in {"half", "whole", "ok"} \/ (pc'[d] = "failed" /\ d \notin Commands)
                      /\ <<d, k>> \in Durable' \/ <<d, k>> \in tx'.rows
                            => pc'[d] = "ok" \/ (pc'[d] = "failed" /\ d \notin Commands)
    BY DEF Accounted
  <2>1. <<d, k>> \in mem.rows
          => pc[d] \in {"half", "whole", "ok"} \/ (pc[d] = "failed" /\ d \notin Commands)
    BY Zenon DEF Accounted
  <2>2. <<d, k>> \in Durable \/ <<d, k>> \in tx.rows
          => pc[d] = "ok" \/ (pc[d] = "failed" /\ d \notin Commands)
    BY Zenon DEF Accounted
  <2>3. QED
    BY <1>3, <1>5, <1>9, <1>7, <1>2, <2>1, <2>2, SMTT(30)
<1>16. Kept'
  <2> SUFFICES ASSUME NEW d \in Commands
               PROVE  /\ pc'[d] \in {"half", "whole"} => <<d, 1>> \in mem'.rows
                      /\ pc'[d] = "whole" => <<d, 2>> \in mem'.rows
                      /\ pc'[d] = "ok" => <<d, 1>> \in Durable' /\ <<d, 2>> \in Durable'
    BY DEF Kept
  <2>1. /\ pc[d] \in {"half", "whole"} => <<d, 1>> \in mem.rows
        /\ pc[d] = "whole" => <<d, 2>> \in mem.rows
        /\ pc[d] = "ok" => <<d, 1>> \in Durable /\ <<d, 2>> \in Durable
    BY Zenon DEF Kept
  <2>2. QED
    BY <1>3, <1>5, <1>9, <1>2, <2>1, SMTT(30)
<1>17. Numbered'
  <2>1. disk.next <= mem.next /\ disk'.next <= mem'.next
    <3>1. disk.next <= mem.next
      BY Zenon DEF Numbered
    <3>2. QED
      BY <3>1, <1>5, <1>6, <1>9, <1>2, <1>4, <1>1, SMTT(30)
  <2>2. ASSUME NEW d \in Calls
        PROVE  /\ <<d, 1>> \in mem'.rows \cup Durable' => id'[d] \in 1..mem'.next
               /\ <<d, 1>> \in Durable' => id'[d] <= disk'.next
    <3>1. /\ <<d, 1>> \in mem.rows \cup Durable => id[d] \in 1..mem.next
          /\ <<d, 1>> \in Durable => id[d] <= disk.next
      BY Zenon DEF Numbered
    <3>2. QED
      BY <1>5, <1>6, <1>9, <1>2, <1>4, <1>1, <2>1, <3>1, SMTT(30)
  <2>3. ASSUME NEW d \in Calls, NEW e \in Calls, d # e,
               <<d, 1>> \in mem'.rows \cup Durable', <<e, 1>> \in mem'.rows \cup Durable'
        PROVE  id'[d] # id'[e]
    <3>1. /\ <<d, 1>> \in mem.rows \cup Durable => id[d] \in 1..mem.next
          /\ <<e, 1>> \in mem.rows \cup Durable => id[e] \in 1..mem.next
          /\ <<d, 1>> \in mem.rows \cup Durable /\ <<e, 1>> \in mem.rows \cup Durable
               => id[d] # id[e]
      BY <2>3, Zenon DEF Numbered
    <3>2. QED
      BY <1>5, <1>6, <1>9, <1>2, <1>4, <1>1, <2>3, <3>1, SMTT(30)
  <2>4. QED
    BY <2>1, <2>2, <2>3, Zenon DEF Numbered
<1>18. QED
  BY <1>9, <1>10, <1>11, <1>12, <1>13, <1>14, <1>15, <1>16, <1>17

LEMMA ArchivePackageStep ==
  ASSUME IInv, ArchivePackage
  PROVE  IInv' /\ Durable \subseteq Durable'
<1> USE CallAssumption, BoundAssumption, Calling DEF IInv
<1>1. /\ mem \in State /\ mem.next \in Nat /\ disk.next \in Nat /\ id \in [Calls -> Nat]
       /\ mem.rows \subseteq Rows
       /\ \A i \in 1..Len(queue) : queue[i] \in Commands /\ queue[i] \in Calls
  BY Types
<1>2. archiving = FALSE /\ ~Open /\ mem.index = FALSE
  BY SMT DEF ArchivePackage, Running, MayArchive, TypeOK, State
<1>3. archiving' = TRUE
  BY DEF ArchivePackage
<1>4. pack' = [there |-> TRUE, rows |-> About(mem.rows)]
  BY DEF ArchivePackage
<1>5. pack'.rows = About(mem.rows)
  BY <1>4
<1>6. About(mem.rows) \in SUBSET Rows
  BY SMT DEF TypeOK, State, About
<1>7. UNCHANGED <<mem, disk, tx, queue, deferred, pc, id, crashes, fails>>
  BY DEF ArchivePackage
<1>8. mem'.rows = mem.rows /\ mem'.next = mem.next /\ mem'.index = mem.index
  BY <1>7, Zenon
<1>9. disk'.rows = disk.rows /\ disk'.next = disk.next /\ disk'.index = disk.index
  BY <1>7, Zenon
<1>10. tx'.by = tx.by /\ tx'.rows = tx.rows
  BY <1>7, Zenon
<1>11. Durable' = Durable
  BY <1>2, <1>7, <1>9, Zenon DEF Durable, Archiving
<1>12. TypeOK'
  BY <1>1, <1>2, <1>3, <1>4, <1>5, <1>6, <1>7, <1>8, <1>9, <1>10, <1>11, SMTT(30) DEF TypeOK, Open, Tx
<1>13. QueuedOnce'
  <2> SUFFICES ASSUME NEW i \in 1..Len(queue'), NEW j \in 1..Len(queue')
               PROVE  pc'[queue'[i]] = "queued" /\ (queue'[i] = queue'[j] => i = j)
    BY DEF QueuedOnce
  <2>1. queue' = queue
    BY <1>2, <1>7, <1>1
  <2>2. queue[i] \in Calls /\ pc[queue[i]] = "queued" /\ (queue[i] = queue[j] => i = j)
    BY <2>1, <1>2, <1>7, <1>1, Zenon DEF QueuedOnce
  <2>3. QED
    BY <2>1, <2>2, <1>2, <1>7, <1>1, SMTT(30) DEF InTurn
<1>14. OneTx'
  BY <1>10, <1>7, <1>2, SMTT(30) DEF OneTx, InTurn
<1>15. Archiving'
  BY <1>8, <1>9, <1>5, <1>3, <1>10, <1>7, <1>2, SMTT(30) DEF Archiving, About, Open
<1>16. Backed'
  BY <1>8, <1>9, <1>10, <1>7, <1>2, SMTT(30) DEF Backed, Open
<1>17. Accounted'
  <2> SUFFICES ASSUME NEW d \in Calls, NEW k \in {1, 2}
               PROVE  /\ <<d, k>> \in mem'.rows
                            => pc'[d] \in {"half", "whole", "ok"} \/ (pc'[d] = "failed" /\ d \notin Commands)
                      /\ <<d, k>> \in Durable' \/ <<d, k>> \in tx'.rows
                            => pc'[d] = "ok" \/ (pc'[d] = "failed" /\ d \notin Commands)
    BY DEF Accounted
  <2>1. <<d, k>> \in mem.rows
          => pc[d] \in {"half", "whole", "ok"} \/ (pc[d] = "failed" /\ d \notin Commands)
    BY Zenon DEF Accounted
  <2>2. <<d, k>> \in Durable \/ <<d, k>> \in tx.rows
          => pc[d] = "ok" \/ (pc[d] = "failed" /\ d \notin Commands)
    BY Zenon DEF Accounted
  <2>3. QED
    BY <1>8, <1>11, <1>10, <1>7, <1>2, <2>1, <2>2, SMTT(30)
<1>18. Kept'
  <2> SUFFICES ASSUME NEW d \in Commands
               PROVE  /\ pc'[d] \in {"half", "whole"} => <<d, 1>> \in mem'.rows
                      /\ pc'[d] = "whole" => <<d, 2>> \in mem'.rows
                      /\ pc'[d] = "ok" => <<d, 1>> \in Durable' /\ <<d, 2>> \in Durable'
    BY DEF Kept
  <2>1. /\ pc[d] \in {"half", "whole"} => <<d, 1>> \in mem.rows
        /\ pc[d] = "whole" => <<d, 2>> \in mem.rows
        /\ pc[d] = "ok" => <<d, 1>> \in Durable /\ <<d, 2>> \in Durable
    BY Zenon DEF Kept
  <2>2. QED
    BY <1>8, <1>11, <1>7, <1>2, <2>1, SMTT(30)
<1>19. Numbered'
  <2>1. disk.next <= mem.next /\ disk'.next <= mem'.next
    <3>1. disk.next <= mem.next
      BY Zenon DEF Numbered
    <3>2. QED
      BY <3>1, <1>8, <1>9, <1>11, <1>7, <1>2, <1>1, SMTT(30)
  <2>2. ASSUME NEW d \in Calls
        PROVE  /\ <<d, 1>> \in mem'.rows \cup Durable' => id'[d] \in 1..mem'.next
               /\ <<d, 1>> \in Durable' => id'[d] <= disk'.next
    <3>1. /\ <<d, 1>> \in mem.rows \cup Durable => id[d] \in 1..mem.next
          /\ <<d, 1>> \in Durable => id[d] <= disk.next
      BY Zenon DEF Numbered
    <3>2. QED
      BY <1>8, <1>9, <1>11, <1>7, <1>2, <1>1, <2>1, <3>1, SMTT(30)
  <2>3. ASSUME NEW d \in Calls, NEW e \in Calls, d # e,
               <<d, 1>> \in mem'.rows \cup Durable', <<e, 1>> \in mem'.rows \cup Durable'
        PROVE  id'[d] # id'[e]
    <3>1. /\ <<d, 1>> \in mem.rows \cup Durable => id[d] \in 1..mem.next
          /\ <<e, 1>> \in mem.rows \cup Durable => id[e] \in 1..mem.next
          /\ <<d, 1>> \in mem.rows \cup Durable /\ <<e, 1>> \in mem.rows \cup Durable
               => id[d] # id[e]
      BY <2>3, Zenon DEF Numbered
    <3>2. QED
      BY <1>8, <1>9, <1>11, <1>7, <1>2, <1>1, <2>3, <3>1, SMTT(30)
  <2>4. QED
    BY <2>1, <2>2, <2>3, Zenon DEF Numbered
<1>20. QED
  BY <1>11, <1>12, <1>13, <1>14, <1>15, <1>16, <1>17, <1>18, <1>19

LEMMA ArchiveIndexStep ==
  ASSUME IInv, ArchiveIndex
  PROVE  IInv' /\ Durable \subseteq Durable'
<1> USE CallAssumption, BoundAssumption, Calling DEF IInv
<1>1. /\ mem \in State /\ mem.next \in Nat /\ disk.next \in Nat /\ id \in [Calls -> Nat]
       /\ mem.rows \subseteq Rows
       /\ \A i \in 1..Len(queue) : queue[i] \in Commands /\ queue[i] \in Calls
  BY Types
<1>2. archiving = TRUE /\ archiving' = FALSE /\ ~Open /\ mem.index = FALSE /\ pack.rows = About(mem.rows)
  BY SMT DEF ArchiveIndex, Archiving, TypeOK, State
<1>3. /\ Trimmed \in State /\ Trimmed.rows = mem.rows \ About(mem.rows)
       /\ Trimmed.next = mem.next /\ Trimmed.index = TRUE
  BY TrimmedRows DEF TypeOK
<1>4. mem' \in {Trimmed, disk} /\ disk' = mem'
  BY Zenon DEF ArchiveIndex, Write, WriteFails
<1>5. fails' \in 0..MaxFail
  BY SMT DEF ArchiveIndex, TypeOK, Write, WriteFails
<1>6. mem' \in State /\ disk' \in State
  BY <1>3, <1>4, Zenon DEF TypeOK
<1>7. UNCHANGED <<pack, tx, queue, deferred, pc, id, crashes>>
  BY DEF ArchiveIndex
<1>8. tx'.by = tx.by /\ tx'.rows = tx.rows
  BY <1>7, Zenon
<1>9. pack'.rows = pack.rows
  BY <1>7, Zenon
<1>10. Durable \subseteq Durable' /\ mem'.rows \cup Durable' \subseteq mem.rows \cup Durable
  BY <1>2, <1>3, <1>4, <1>9, SMT DEF Durable, Archiving, Backed, About
<1>11. \A d \in Calls : pc[d] \notin InTurn
  BY <1>2, Zenon DEF OneTx, Open
<1>12. \/ /\ mem'.next = disk.next /\ disk'.next = disk.next
          /\ mem'.rows \cup Durable' \subseteq Durable
       \/ mem'.next = mem.next /\ disk'.next = mem.next
  BY <1>2, <1>3, <1>4, <1>9, SMT DEF Durable
<1>13. Durable' = IF disk' = disk THEN Durable ELSE mem.rows
  BY <1>2, <1>3, <1>4, <1>9, SMT DEF Durable, Archiving, Backed, About
<1>14. TypeOK'
  <2>1. mem' \in State /\ disk' \in State /\ pack' \in [there: BOOLEAN, rows: SUBSET Rows]
    BY <1>1, <1>2, <1>3, <1>4, <1>5, <1>6, <1>7, <1>8, <1>9, <1>10, <1>11, <1>12, <1>13, SMTT(30) DEF TypeOK
  <2>2. tx' \in [by: SUBSET Commands, rows: SUBSET Rows] /\ queue' \in Seq(Commands)
    BY <1>1, <1>2, <1>3, <1>4, <1>5, <1>6, <1>7, <1>8, <1>9, <1>10, <1>11, <1>12, <1>13, SMTT(30) DEF TypeOK, Tx
  <2>3. pc' \in [Calls -> Live \cup Finished] /\ id' \in [Calls -> Nat]
    BY <1>1, <1>2, <1>3, <1>4, <1>5, <1>6, <1>7, <1>8, <1>9, <1>10, <1>11, <1>12, <1>13, SMTT(30) DEF TypeOK
  <2>4. deferred' \in BOOLEAN /\ (deferred' => Open') /\ archiving' \in BOOLEAN
    BY <1>1, <1>2, <1>3, <1>4, <1>5, <1>6, <1>7, <1>8, <1>9, <1>10, <1>11, <1>12, <1>13, Zenon DEF TypeOK, Open
  <2>5. crashes' \in 0..MaxCrash /\ fails' \in 0..MaxFail
    BY <1>1, <1>2, <1>3, <1>4, <1>5, <1>6, <1>7, <1>8, <1>9, <1>10, <1>11, <1>12, <1>13, SMTT(30) DEF TypeOK
  <2>6. QED
    BY <2>1, <2>2, <2>3, <2>4, <2>5 DEF TypeOK
<1>15. QueuedOnce'
  <2> SUFFICES ASSUME NEW i \in 1..Len(queue'), NEW j \in 1..Len(queue')
               PROVE  pc'[queue'[i]] = "queued" /\ (queue'[i] = queue'[j] => i = j)
    BY DEF QueuedOnce
  <2>1. queue' = queue
    BY <1>2, <1>7, <1>1
  <2>2. queue[i] \in Calls /\ pc[queue[i]] = "queued" /\ (queue[i] = queue[j] => i = j)
    BY <2>1, <1>2, <1>7, <1>1, Zenon DEF QueuedOnce
  <2>3. QED
    BY <2>1, <2>2, <1>2, <1>7, <1>1, SMTT(30) DEF InTurn
<1>16. OneTx'
  BY <1>8, <1>7, <1>3, <1>2, SMTT(30) DEF OneTx, InTurn
<1>17. Archiving'
  BY <1>4, <1>9, <1>8, <1>7, <1>3, <1>2, SMTT(30) DEF Archiving, About, Open
<1>18. Backed'
  BY <1>4, <1>8, <1>7, <1>3, <1>2, SMTT(30) DEF Backed, Open
<1>19. Accounted'
  <2> SUFFICES ASSUME NEW d \in Calls, NEW k \in {1, 2}
               PROVE  /\ <<d, k>> \in mem'.rows
                            => pc'[d] \in {"half", "whole", "ok"} \/ (pc'[d] = "failed" /\ d \notin Commands)
                      /\ <<d, k>> \in Durable' \/ <<d, k>> \in tx'.rows
                            => pc'[d] = "ok" \/ (pc'[d] = "failed" /\ d \notin Commands)
    BY DEF Accounted
  <2>1. <<d, k>> \in mem.rows
          => pc[d] \in {"half", "whole", "ok"} \/ (pc[d] = "failed" /\ d \notin Commands)
    BY Zenon DEF Accounted
  <2>2. <<d, k>> \in Durable \/ <<d, k>> \in tx.rows
          => pc[d] = "ok" \/ (pc[d] = "failed" /\ d \notin Commands)
    BY Zenon DEF Accounted
  <2>3. QED
    BY <1>4, <1>10, <1>8, <1>7, <1>11, <1>2, <2>1, <2>2, SMTT(30) DEF InTurn
<1>20. Kept'
  <2> SUFFICES ASSUME NEW d \in Commands
               PROVE  /\ pc'[d] \in {"half", "whole"} => <<d, 1>> \in mem'.rows
                      /\ pc'[d] = "whole" => <<d, 2>> \in mem'.rows
                      /\ pc'[d] = "ok" => <<d, 1>> \in Durable' /\ <<d, 2>> \in Durable'
    BY DEF Kept
  <2>1. /\ pc[d] \in {"half", "whole"} => <<d, 1>> \in mem.rows
        /\ pc[d] = "whole" => <<d, 2>> \in mem.rows
        /\ pc[d] = "ok" => <<d, 1>> \in Durable /\ <<d, 2>> \in Durable
    BY Zenon DEF Kept
  <2>2. QED
    BY <1>4, <1>10, <1>7, <1>11, <1>2, <2>1, SMTT(30) DEF InTurn
<1>21. Numbered'
  <2>1. disk.next <= mem.next /\ disk'.next <= mem'.next
    <3>1. disk.next <= mem.next
      BY Zenon DEF Numbered
    <3>2. QED
      BY <3>1, <1>4, <1>10, <1>7, <1>12, <1>2, <1>1, SMTT(30)
  <2>2. ASSUME NEW d \in Calls
        PROVE  /\ <<d, 1>> \in mem'.rows \cup Durable' => id'[d] \in 1..mem'.next
               /\ <<d, 1>> \in Durable' => id'[d] <= disk'.next
    <3>1. /\ <<d, 1>> \in mem.rows \cup Durable => id[d] \in 1..mem.next
          /\ <<d, 1>> \in Durable => id[d] <= disk.next
      BY Zenon DEF Numbered
    <3>2. QED
      BY <1>4, <1>10, <1>7, <1>12, <1>2, <1>1, <2>1, <3>1, SMTT(30)
  <2>3. ASSUME NEW d \in Calls, NEW e \in Calls, d # e,
               <<d, 1>> \in mem'.rows \cup Durable', <<e, 1>> \in mem'.rows \cup Durable'
        PROVE  id'[d] # id'[e]
    <3>1. /\ <<d, 1>> \in mem.rows \cup Durable => id[d] \in 1..mem.next
          /\ <<e, 1>> \in mem.rows \cup Durable => id[e] \in 1..mem.next
          /\ <<d, 1>> \in mem.rows \cup Durable /\ <<e, 1>> \in mem.rows \cup Durable
               => id[d] # id[e]
      BY <2>3, Zenon DEF Numbered
    <3>2. QED
      BY <1>4, <1>10, <1>7, <1>12, <1>2, <1>1, <2>3, <3>1, SMTT(30)
  <2>4. QED
    BY <2>1, <2>2, <2>3, Zenon DEF Numbered
<1>22. QED
  BY <1>10, <1>14, <1>15, <1>16, <1>17, <1>18, <1>19, <1>20, <1>21

LEMMA CrashStep ==
  ASSUME IInv, Crash
  PROVE  IInv' /\ Durable \subseteq Durable'
<1> USE CallAssumption, BoundAssumption, Calling DEF IInv
<1>1. /\ mem \in State /\ mem.next \in Nat /\ disk.next \in Nat /\ id \in [Calls -> Nat]
       /\ mem.rows \subseteq Rows
       /\ \A i \in 1..Len(queue) : queue[i] \in Commands /\ queue[i] \in Calls
  BY Types
<1>2. mem' = disk
  BY DEF Crash
<1>3. tx' = NoTx /\ tx'.by = {} /\ tx'.rows = {}
  BY DEF Crash, NoTx
<1>4. tx' \in Tx
  BY <1>3, NoTxType
<1>5. queue' = <<>> /\ deferred' = FALSE /\ archiving' = FALSE
  BY DEF Crash
<1>6. crashes' \in 0..MaxCrash
  BY SMT DEF Crash, TypeOK
<1>7. UNCHANGED <<disk, pack, fails>>
  BY DEF Crash
<1>8. /\ pc' \in [Calls -> Live \cup Finished]
       /\ \A c \in Calls : pc'[c] = IF pc[c] \in Finished \cup {"idle"} THEN pc[c] ELSE "lost"
  BY SMT DEF Crash, TypeOK, Live, Finished
<1>9. id' \in [Calls -> Nat]
  BY SMT DEF Crash, TypeOK
<1>10. \A c \in Calls : <<c, 1>> \in Durable => id'[c] = id[c]
  BY Zenon DEF Crash
<1>11. disk'.rows = disk.rows /\ disk'.next = disk.next /\ disk'.index = disk.index
  BY <1>7, Zenon
<1>12. pack'.rows = pack.rows
  BY <1>7, Zenon
<1>13. Durable' = Durable
  BY <1>7, Zenon DEF Durable
<1>14. mem'.rows \subseteq Durable
  BY <1>2, SMT DEF Durable
<1>15. TypeOK'
  <2>1. mem' \in State /\ disk' \in State /\ pack' \in [there: BOOLEAN, rows: SUBSET Rows]
    BY <1>1, <1>2, <1>14, <1>3, <1>4, <1>6, <1>5, <1>7, <1>8, <1>9, <1>10, <1>11, <1>12, <1>13, SMTT(30) DEF TypeOK
  <2>2. tx' \in [by: SUBSET Commands, rows: SUBSET Rows] /\ queue' \in Seq(Commands)
    BY <1>1, <1>2, <1>14, <1>3, <1>4, <1>6, <1>5, <1>7, <1>8, <1>9, <1>10, <1>11, <1>12, <1>13, SMTT(30) DEF TypeOK, Tx
  <2>3. pc' \in [Calls -> Live \cup Finished] /\ id' \in [Calls -> Nat]
    BY <1>1, <1>2, <1>14, <1>3, <1>4, <1>6, <1>5, <1>7, <1>8, <1>9, <1>10, <1>11, <1>12, <1>13, SMTT(30) DEF TypeOK
  <2>4. deferred' \in BOOLEAN /\ (deferred' => Open') /\ archiving' \in BOOLEAN
    BY <1>1, <1>2, <1>14, <1>3, <1>4, <1>6, <1>5, <1>7, <1>8, <1>9, <1>10, <1>11, <1>12, <1>13, Zenon DEF TypeOK, Open
  <2>5. crashes' \in 0..MaxCrash /\ fails' \in 0..MaxFail
    BY <1>1, <1>2, <1>14, <1>3, <1>4, <1>6, <1>5, <1>7, <1>8, <1>9, <1>10, <1>11, <1>12, <1>13, SMTT(30) DEF TypeOK
  <2>6. QED
    BY <2>1, <2>2, <2>3, <2>4, <2>5 DEF TypeOK
<1>16. QueuedOnce'
  BY <1>5, SMT DEF QueuedOnce
<1>17. OneTx'
  BY <1>8, <1>3, <1>7, SMTT(30) DEF OneTx, InTurn, Finished
<1>18. Archiving'
  BY <1>2, <1>14, <1>11, <1>12, <1>5, <1>3, <1>7, SMTT(30) DEF Archiving, About, Open
<1>19. Backed'
  BY <1>2, <1>14, <1>11, <1>3, <1>7, SMTT(30) DEF Backed, Open
<1>20. Accounted'
  <2> SUFFICES ASSUME NEW d \in Calls, NEW k \in {1, 2}
               PROVE  /\ <<d, k>> \in mem'.rows
                            => pc'[d] \in {"half", "whole", "ok"} \/ (pc'[d] = "failed" /\ d \notin Commands)
                      /\ <<d, k>> \in Durable' \/ <<d, k>> \in tx'.rows
                            => pc'[d] = "ok" \/ (pc'[d] = "failed" /\ d \notin Commands)
    BY DEF Accounted
  <2>1. <<d, k>> \in mem.rows
          => pc[d] \in {"half", "whole", "ok"} \/ (pc[d] = "failed" /\ d \notin Commands)
    BY Zenon DEF Accounted
  <2>2. <<d, k>> \in Durable \/ <<d, k>> \in tx.rows
          => pc[d] = "ok" \/ (pc[d] = "failed" /\ d \notin Commands)
    BY Zenon DEF Accounted
  <2>3. QED
    BY <1>8, <1>2, <1>14, <1>13, <1>3, <2>1, <2>2, SMTT(30) DEF Finished
<1>21. Kept'
  <2> SUFFICES ASSUME NEW d \in Commands
               PROVE  /\ pc'[d] \in {"half", "whole"} => <<d, 1>> \in mem'.rows
                      /\ pc'[d] = "whole" => <<d, 2>> \in mem'.rows
                      /\ pc'[d] = "ok" => <<d, 1>> \in Durable' /\ <<d, 2>> \in Durable'
    BY DEF Kept
  <2>1. /\ pc[d] \in {"half", "whole"} => <<d, 1>> \in mem.rows
        /\ pc[d] = "whole" => <<d, 2>> \in mem.rows
        /\ pc[d] = "ok" => <<d, 1>> \in Durable /\ <<d, 2>> \in Durable
    BY Zenon DEF Kept
  <2>2. QED
    BY <1>8, <1>2, <1>14, <1>13, <2>1, SMTT(30) DEF Finished
<1>22. Numbered'
  <2>1. disk.next <= mem.next /\ disk'.next <= mem'.next
    <3>1. disk.next <= mem.next
      BY Zenon DEF Numbered
    <3>2. QED
      BY <3>1, <1>2, <1>14, <1>11, <1>9, <1>10, <1>13, <1>7, <1>1, SMTT(30)
  <2>2. ASSUME NEW d \in Calls
        PROVE  /\ <<d, 1>> \in mem'.rows \cup Durable' => id'[d] \in 1..mem'.next
               /\ <<d, 1>> \in Durable' => id'[d] <= disk'.next
    <3>1. /\ <<d, 1>> \in mem.rows \cup Durable => id[d] \in 1..mem.next
          /\ <<d, 1>> \in Durable => id[d] <= disk.next
      BY Zenon DEF Numbered
    <3>2. QED
      BY <1>2, <1>14, <1>11, <1>9, <1>10, <1>13, <1>7, <1>1, <2>1, <3>1, SMTT(30)
  <2>3. ASSUME NEW d \in Calls, NEW e \in Calls, d # e,
               <<d, 1>> \in mem'.rows \cup Durable', <<e, 1>> \in mem'.rows \cup Durable'
        PROVE  id'[d] # id'[e]
    <3>1. /\ <<d, 1>> \in mem.rows \cup Durable => id[d] \in 1..mem.next
          /\ <<e, 1>> \in mem.rows \cup Durable => id[e] \in 1..mem.next
          /\ <<d, 1>> \in mem.rows \cup Durable /\ <<e, 1>> \in mem.rows \cup Durable
               => id[d] # id[e]
      BY <2>3, Zenon DEF Numbered
    <3>2. QED
      BY <1>2, <1>14, <1>11, <1>9, <1>10, <1>13, <1>7, <1>1, <2>3, <3>1, SMTT(30)
  <2>4. QED
    BY <2>1, <2>2, <2>3, Zenon DEF Numbered
<1>23. QED
  BY <1>13, <1>15, <1>16, <1>17, <1>18, <1>19, <1>20, <1>21, <1>22

-----------------------------------------------------------------------------
(* The invariant. *)

LEMMA InitIInv == Init => IInv
<1> SUFFICES ASSUME Init PROVE IInv
  OBVIOUS
<1> USE CallAssumption, BoundAssumption
<1>1. /\ mem = [rows |-> {}, index |-> FALSE, next |-> 0] /\ disk = mem /\ mem.rows = {}
      /\ mem.index = FALSE /\ mem.next = 0 /\ disk.next = 0 /\ pack.rows = {} /\ tx.by = {}
      /\ tx.rows = {} /\ queue = <<>> /\ Len(queue) = 0 /\ Durable = {}
  BY SMT DEF Init, NoPack, NoTx, Durable
<1>2. /\ \A c \in Calls : pc[c] = "idle" /\ id[c] = 0
      /\ pc \in [Calls -> Live \cup Finished] /\ id \in [Calls -> Nat]
  BY SMT DEF Init, Live, Finished
<1>3. TypeOK
  <2>1. mem \in State /\ disk \in State /\ pack \in [there: BOOLEAN, rows: SUBSET Rows]
    BY <1>1, SMT DEF Init, State, NoPack
  <2>2. tx \in [by: SUBSET Commands, rows: SUBSET Rows] /\ queue \in Seq(Commands)
    BY SMT DEF Init, NoTx
  <2>3. deferred \in BOOLEAN /\ (deferred => Open) /\ archiving \in BOOLEAN
    BY Zenon DEF Init
  <2>4. crashes \in 0..MaxCrash /\ fails \in 0..MaxFail
    BY SMT DEF Init
  <2>5. QED
    BY <1>2, <2>1, <2>2, <2>3, <2>4, Zenon DEF TypeOK
<1>4. QueuedOnce /\ OneTx
  BY <1>1, <1>2, SMT DEF QueuedOnce, OneTx, InTurn
<1>5. Archiving /\ Backed
  BY <1>1, SMT DEF Archiving, Backed, Open, Init
<1>6. Accounted /\ Kept /\ Numbered
  BY <1>1, <1>2, Calling, SMT DEF Accounted, Kept, Numbered
<1>7. QED
  BY <1>3, <1>4, <1>5, <1>6 DEF IInv

LEMMA StutterKeeps ==
  ASSUME IInv, UNCHANGED vars
  PROVE  IInv' /\ Durable' = Durable
<1>1. /\ mem' = mem /\ disk' = disk /\ pack' = pack /\ tx' = tx /\ queue' = queue /\ deferred' = deferred
      /\ pc' = pc /\ id' = id /\ archiving' = archiving /\ crashes' = crashes /\ fails' = fails
  BY DEF vars
<1>2. Durable' = Durable
  BY <1>1, Zenon DEF Durable
<1>3. TypeOK' /\ QueuedOnce'
  BY <1>1, Zenon DEF IInv, TypeOK, QueuedOnce, Open
<1>4. OneTx' /\ Archiving' /\ Backed'
  BY <1>1, Zenon DEF IInv, OneTx, Archiving, Backed, Open, About, InTurn
<1>5. Accounted' /\ Kept' /\ Numbered'
  BY <1>1, <1>2, Zenon DEF IInv, Accounted, Kept, Numbered
<1>6. QED
  BY <1>2, <1>3, <1>4, <1>5 DEF IInv

LEMMA CommandKeeps ==
  ASSUME IInv, NEW c \in Commands, CommandStep(c)
  PROVE  IInv' /\ Durable \subseteq Durable'
<1>1. c \in Calls
  BY Calling
<1>2. QED
  BY <1>1, BeginStep, FirstRowStep, SecondRowStep, AbortStep, CommitStep, CommitFailsStep, Zenon
     DEF CommandStep

(* Every step of Next keeps the invariant and what is durable. *)
LEMMA NextKeeps ==
  ASSUME IInv, [Next]_vars
  PROVE  IInv' /\ Durable \subseteq Durable'
<1>1. ASSUME NEW c \in Commands, Ask(c)
      PROVE  IInv' /\ Durable \subseteq Durable'
  BY <1>1, AskStep, Zenon
<1>2. ASSUME NEW c \in Outside, Settle(c) \/ OutsideStep(c)
      PROVE  IInv' /\ Durable \subseteq Durable'
  BY <1>2, SettleStep, OutsideRowStep, OutsideRefusedStep, Zenon DEF OutsideStep
<1>3. CASE ArchivePackage \/ ArchiveIndex \/ Crash
  BY <1>3, ArchivePackageStep, ArchiveIndexStep, CrashStep, Zenon
<1>4. CASE UNCHANGED vars
  BY <1>4, StutterKeeps, Zenon
<1>5. QED
  BY <1>1, <1>2, <1>3, <1>4, CommandKeeps, Zenon DEF Next

LEMMA Inductive == Spec => []IInv
<1>1. IInv /\ [Next]_vars => IInv'
  BY NextKeeps
<1>2. QED
  BY InitIInv, <1>1, PTL DEF Spec

(* Types of the model. *)
THEOREM Typed == Spec => []TypeOK
BY Inductive, PTL DEF IInv

(* A failed command leaves nothing: its rows were only in memory while its *)
(* transaction was open, and neither an outside write, nor the archive,    *)
(* nor the write that was put off took them along.                         *)
THEOREM FailedIsGone == Spec => []FailedLeavesNothing
<1>1. IInv => FailedLeavesNothing
  <2> SUFFICES ASSUME IInv, NEW c \in Commands, pc[c] = "failed", NEW k \in {1, 2}
               PROVE  <<c, k>> \notin Visible \cup Durable
    BY Zenon DEF FailedLeavesNothing
  <2>1. c \in Calls
    BY Calling
  <2>2. /\ <<c, k>> \in mem.rows
             => pc[c] \in {"half", "whole", "ok"} \/ (pc[c] = "failed" /\ c \notin Commands)
        /\ <<c, k>> \in Durable => pc[c] = "ok" \/ (pc[c] = "failed" /\ c \notin Commands)
    BY <2>1, Zenon DEF IInv, Accounted
  <2>3. mem.index = disk.index
    BY Zenon DEF IInv, Archiving
  <2>4. Visible \subseteq mem.rows \cup Durable
    BY <2>3, SMT DEF Visible, Durable
  <2>5. QED
    BY <2>2, <2>4, SMT
<1>2. QED
  BY Inductive, <1>1, PTL

(* No id twice: the counter in memory is never behind a row that can still *)
(* be seen, and the counter in the file never behind a row of the file.    *)
THEOREM IdsAreNew == Spec => []IdsNotReissued
<1>1. IInv => IdsNotReissued
  <2> SUFFICES ASSUME IInv, NEW c \in Calls, NEW d \in Calls, c # d,
                      <<c, 1>> \in Visible \cup Durable, <<d, 1>> \in Visible \cup Durable
               PROVE  id[c] # id[d]
    BY Zenon DEF IdsNotReissued
  <2>1. mem.index = disk.index
    BY Zenon DEF IInv, Archiving
  <2>2. Visible \subseteq mem.rows \cup Durable
    BY <2>1, SMT DEF Visible, Durable
  <2>3. <<c, 1>> \in mem.rows \cup Durable /\ <<d, 1>> \in mem.rows \cup Durable
    BY <2>2, SMT
  <2>4. QED
    BY <2>3, Zenon DEF IInv, Numbered
<1>2. QED
  BY Inductive, <1>1, PTL

(* No step takes a row away from a reader of the files.                    *)
THEOREM NothingDurableGoes == Spec => DurableStays
<1>1. IInv /\ [Next]_vars => [Durable \subseteq Durable']_vars
  BY NextKeeps
<1>2. QED
  BY Inductive, <1>1, PTL DEF Spec, DurableStays

-----------------------------------------------------------------------------
(* The refinement: what the promise calls kept is what was acknowledged.   *)

(* kept and reply of the promise, as FileStore maps them. *)
Keeping == {c \in Commands : <<c, 1>> \in Durable \/ <<c, 2>> \in Durable}
Told    == [c \in Commands |-> IF pc[c] \in Finished THEN pc[c] ELSE "none"]

(* The commands that were acknowledged. *)
Done == {c \in Commands : pc[c] = "ok"}

LEMMA Acknowledged ==
  (IInv => Keeping = Done) /\ (IInv' => Keeping' = Done')
<1>1. IInv => Keeping = Done
  <2> SUFFICES ASSUME IInv, NEW c \in Commands
               PROVE  (<<c, 1>> \in Durable \/ <<c, 2>> \in Durable) <=> pc[c] = "ok"
    BY Zenon DEF Keeping, Done
  <2>1. c \in Calls /\ 1 \in {1, 2} /\ 2 \in {1, 2}
    BY Calling
  <2>2. /\ <<c, 1>> \in Durable => pc[c] = "ok" \/ (pc[c] = "failed" /\ c \notin Commands)
        /\ <<c, 2>> \in Durable => pc[c] = "ok" \/ (pc[c] = "failed" /\ c \notin Commands)
    BY <2>1, Zenon DEF IInv, Accounted
  <2>3. pc[c] = "ok" => <<c, 1>> \in Durable /\ <<c, 2>> \in Durable
    BY Zenon DEF IInv, Kept
  <2>4. QED
    BY <2>2, <2>3, Zenon
<1>2. (IInv => Keeping = Done)'
  BY <1>1, PTL
<1>3. QED
  BY <1>1, <1>2

(* A step that finishes no command changes nothing of the promise. *)
LEMMA Silent ==
  ASSUME IInv, IInv',
         \A d \in Commands : pc'[d] = pc[d] \/ (pc[d] \notin Finished /\ pc'[d] \notin Finished)
  PROVE  Keeping' = Keeping /\ Told' = Told
<1>1. Keeping = {c \in Commands : pc[c] = "ok"} /\ Keeping' = {c \in Commands : pc'[c] = "ok"}
  BY Acknowledged DEF Done
<1>2. Keeping' = Keeping
  BY <1>1, SMT DEF Finished
<1>3. Told' = Told
  BY SMT DEF Told
<1>4. QED
  BY <1>2, <1>3

(* The end of a transaction is a step of the promise. *)
LEMMA Ends ==
  ASSUME IInv, IInv', NEW c \in Commands, NEW l \in {"ok", "failed"},
         pc[c] \in InTurn, pc'[c] = l,
         \A d \in Calls : d # c => pc'[d] = IF pc[d] = "waiting" THEN "settled" ELSE pc[d]
  PROVE  /\ Told[c] = "none" /\ Told' = [Told EXCEPT ![c] = l]
         /\ Keeping' = IF l = "ok" THEN Keeping \cup {c} ELSE Keeping
<1>1. Keeping = {d \in Commands : pc[d] = "ok"} /\ Keeping' = {d \in Commands : pc'[d] = "ok"}
  BY Acknowledged DEF Done
<1>2. \A d \in Commands : d # c => pc'[d] = pc[d] \/ (pc[d] = "waiting" /\ pc'[d] = "settled")
  BY Calling, SMT
<1>3. Keeping' = IF l = "ok" THEN Keeping \cup {c} ELSE Keeping
  BY <1>1, <1>2, SMT DEF InTurn
<1>4. Told[c] = "none" /\ Told' = [Told EXCEPT ![c] = l]
  <2>1. Told[c] = "none" /\ l \in Finished
    BY SMT DEF Told, InTurn, Finished
  <2>2. \A d \in Commands : (IF pc'[d] \in Finished THEN pc'[d] ELSE "none")
                              = IF d = c THEN l ELSE Told[d]
    BY <1>2, <2>1, SMT DEF Told, Finished
  <2>3. Told' = [d \in Commands |-> IF d = c THEN l ELSE Told[d]]
    BY <2>2, SMT DEF Told
  <2>4. Told = [d \in Commands |-> Told[d]]
    BY SMT DEF Told
  <2>5. QED
    BY <2>1, <2>3, <2>4, SMT
<1>5. QED
  BY <1>3, <1>4

LEMMA CommandImplements ==
  ASSUME IInv, IInv', NEW c \in Commands, Ask(c) \/ CommandStep(c)
  PROVE  Promise!Next \/ (Keeping' = Keeping /\ Told' = Told)
<1> c \in Calls
  BY Calling
<1>1. ASSUME NEW l \in Live, Goto(c, l), pc[c] \in Live
      PROVE  Keeping' = Keeping /\ Told' = Told
  <2>1. \A d \in Commands : pc'[d] = pc[d] \/ (pc[d] \notin Finished /\ pc'[d] \notin Finished)
    BY <1>1, Calling, SMT DEF IInv, TypeOK, Goto, Live, Finished
  <2>2. QED
    BY <2>1, Silent
<1>2. CASE Ask(c) \/ Begin(c) \/ FirstRow(c) \/ SecondRow(c)
  <2>1. pc[c] = "queued" \/ ~Begin(c)
    BY SMT DEF IInv, TypeOK, QueuedOnce, Begin
  <2>2. \E l \in Live : Goto(c, l) /\ pc[c] \in Live
    BY <1>2, <2>1, Zenon DEF Ask, Begin, FirstRow, SecondRow, Live
  <2>3. QED
    BY <1>1, <2>2
<1>3. CASE Commit(c)
  <2>1. /\ pc[c] \in InTurn /\ pc'[c] = "ok"
        /\ \A d \in Calls : d # c => pc'[d] = IF pc[d] = "waiting" THEN "settled" ELSE pc[d]
    BY <1>3, AfterTxFacts, Zenon DEF Commit, InTurn, IInv
  <2>2. /\ Told[c] = "none" /\ Told' = [Told EXCEPT ![c] = "ok"] /\ Keeping' = Keeping \cup {c}
    BY <2>1, Ends
  <2>3. Promise!Commit(c)
    BY <2>2, Zenon DEF Promise!Commit, Told, Keeping
  <2>4. QED
    BY <2>3, Zenon DEF Promise!Next
<1>4. CASE Abort(c) \/ CommitFails(c)
  <2>1. /\ pc[c] \in InTurn /\ pc'[c] = "failed"
        /\ \A d \in Calls : d # c => pc'[d] = IF pc[d] = "waiting" THEN "settled" ELSE pc[d]
    BY <1>4, AfterTxFacts, Zenon DEF Abort, CommitFails, InTurn, IInv
  <2>2. /\ Told[c] = "none" /\ Told' = [Told EXCEPT ![c] = "failed"] /\ Keeping' = Keeping
    BY <2>1, Ends
  <2>3. Promise!Refuse(c)
    BY <2>2, Zenon DEF Promise!Refuse, Told, Keeping
  <2>4. QED
    BY <2>3, Zenon DEF Promise!Next
<1>5. QED
  BY <1>2, <1>3, <1>4, Zenon DEF CommandStep

LEMMA CrashImplements ==
  ASSUME IInv, IInv', Crash
  PROVE  Promise!Next
<1> DEFINE lost == {c \in Commands : pc[c] \notin Finished \cup {"idle"}}
<1>1. \A c \in Calls : pc'[c] = IF pc[c] \in Finished \cup {"idle"} THEN pc[c] ELSE "lost"
  BY SMT DEF Crash
<1>2. Keeping = {c \in Commands : pc[c] = "ok"} /\ Keeping' = {c \in Commands : pc'[c] = "ok"}
  BY Acknowledged DEF Done
<1>3. Keeping' = Keeping
  BY <1>1, <1>2, Calling, SMT DEF Finished
<1>4. Told' = [c \in Commands |-> IF c \in lost THEN "lost" ELSE Told[c]]
  BY <1>1, Calling, SMT DEF Told, Finished
<1>5. lost \in SUBSET {c \in Commands : Told[c] = "none"}
  BY SMT DEF Told, Finished
<1> HIDE DEF lost
<1>6. Promise!Crash
  BY <1>3, <1>4, <1>5, Zenon DEF Promise!Crash, Told, Keeping
<1>7. QED
  BY <1>6, Zenon DEF Promise!Next

LEMMA NextImplements ==
  ASSUME IInv, IInv', [Next]_vars
  PROVE  Promise!Next \/ (Keeping' = Keeping /\ Told' = Told)
<1>1. ASSUME NEW c \in Outside, Settle(c) \/ OutsideStep(c)
      PROVE  Keeping' = Keeping /\ Told' = Told
  <2>1. \E l \in Live \cup Finished : Goto(c, l)
    BY <1>1, Zenon DEF Settle, OutsideStep, OutsideRow, OutsideRefused, Live, Finished
  <2>2. \A d \in Commands : pc'[d] = pc[d]
    BY <2>1, Calling, CallAssumption, SMT DEF IInv, TypeOK, Goto
  <2>3. QED
    BY <2>2, Silent
<1>2. ASSUME pc' = pc
      PROVE  Keeping' = Keeping /\ Told' = Told
  BY <1>2, Silent
<1>3. CASE ArchivePackage \/ ArchiveIndex \/ UNCHANGED vars
  BY <1>2, <1>3, Zenon DEF ArchivePackage, ArchiveIndex, vars
<1>4. QED
  BY <1>1, <1>3, CommandImplements, CrashImplements, Zenon DEF Next

(* The transactions implement CommandLog: a commit is its Commit, an abort *)
(* or a failed write its Refuse, a crash its Crash, and every other step   *)
(* changes nothing that a caller or a reader of the files can tell.        *)
THEOREM LogImplemented == Spec => ImplementsLog
<1>1. Init => Promise!Init
  <2> SUFFICES ASSUME Init PROVE Promise!Init
    OBVIOUS
  <2>1. Durable = {} /\ \A c \in Calls : pc[c] = "idle"
    BY SMT DEF Init, Durable
  <2>2. Keeping = {} /\ Told = [c \in Commands |-> "none"]
    BY <2>1, Calling, SMT DEF Keeping, Told, Finished
  <2>3. QED
    BY <2>2, Zenon DEF Promise!Init, Keeping, Told
<1>2. IInv /\ IInv' /\ [Next]_vars => [Promise!Next]_<<Keeping, Told>>
  BY NextImplements
<1>3. QED
  BY Inductive, <1>1, <1>2, PTL DEF Spec, ImplementsLog, Promise!Spec, Keeping, Told

-----------------------------------------------------------------------------
(* The turns.  Who waits for one is in the queue, or waits for the end of   *)
(* a transaction that is open.                                              *)
InPlace ==
  \A c \in Calls :
    /\ pc[c] = "queued" => c \in Commands /\ \E i \in 1..Len(queue) : queue[i] = c
    /\ pc[c] = "waiting" => c \in Outside /\ Open
    /\ pc[c] = "settled" => c \in Outside

(* A step of a call that leaves queue and transaction alone.                *)
LEMMA GoesOn ==
  ASSUME TypeOK, InPlace, NEW c \in Calls, NEW l \in Live \cup Finished, Goto(c, l),
         queue' = queue, tx' = tx,
         l # "queued", l = "waiting" => c \in Outside /\ Open, l = "settled" => c \in Outside
  PROVE  InPlace'
<1>1. pc'[c] = l /\ \A d \in Calls : d # c => pc'[d] = pc[d]
  BY DEF Goto, TypeOK
<1>2. QED
  BY <1>1 DEF InPlace, Open

(* The end of a transaction wakes who waits for it.                         *)
LEMMA TurnEnds ==
  ASSUME TypeOK, InPlace, NEW c \in Calls, NEW l \in {"ok", "failed"}, AfterTx(c, l),
         queue' = queue
  PROVE  InPlace'
<1>1. pc'[c] = l /\ \A d \in Calls : d # c => pc'[d] = IF pc[d] = "waiting" THEN "settled" ELSE pc[d]
  BY AfterTxFacts
<1>2. QED
  BY <1>1 DEF InPlace

LEMMA AskPlace ==
  ASSUME TypeOK, InPlace, NEW c \in Commands, Ask(c)
  PROVE  InPlace'
<1>1. queue \in Seq(Commands) /\ queue' = Append(queue, c) /\ tx' = tx
  BY DEF TypeOK, Ask
<1>2. /\ \A i \in 1..Len(queue) : queue'[i] = queue[i]
      /\ Len(queue') = Len(queue) + 1 /\ queue'[Len(queue) + 1] = c /\ Len(queue) \in Nat
  BY <1>1
<1>3. pc'[c] = "queued" /\ \A d \in Calls : d # c => pc'[d] = pc[d]
  BY Calling DEF Ask, Goto, TypeOK
<1>4. \A d \in Calls : (\E i \in 1..Len(queue) : queue[i] = d) => \E i \in 1..Len(queue') : queue'[i] = d
  BY <1>2
<1>5. \E i \in 1..Len(queue') : queue'[i] = c
  BY <1>2
<1>6. QED
  BY <1>1, <1>3, <1>4, <1>5 DEF InPlace, Open

LEMMA BeginPlace ==
  ASSUME TypeOK, InPlace, NEW c \in Commands, Begin(c)
  PROVE  InPlace'
<1>1. queue \in Seq(Commands) /\ queue # <<>> /\ Head(queue) = c /\ queue' = Tail(queue)
      /\ ~Open /\ tx' = [by |-> {c}, rows |-> mem.rows]
  BY DEF TypeOK, Begin
<1>2. /\ \A i \in 1..Len(queue') : queue'[i] = queue[i + 1]
      /\ Len(queue') = Len(queue) - 1 /\ Len(queue) \in Nat /\ queue[1] = c
  BY <1>1
<1>3. pc'[c] = "body" /\ \A d \in Calls : d # c => pc'[d] = pc[d]
  BY Calling DEF Begin, Goto, TypeOK
<1>4. ASSUME NEW d \in Calls, d # c, NEW i \in 1..Len(queue), queue[i] = d
      PROVE  \E j \in 1..Len(queue') : queue'[j] = d
  <2>1. i - 1 \in 1..Len(queue')
    BY <1>2, <1>4
  <2>2. queue'[i - 1] = d
    BY <1>2, <1>4, <2>1
  <2>3. QED
    BY <2>1, <2>2
<1>5. QED
  BY <1>1, <1>3, <1>4 DEF InPlace

LEMMA NextInPlace == TypeOK /\ InPlace /\ [Next]_vars => InPlace'
<1> SUFFICES ASSUME TypeOK, InPlace, [Next]_vars PROVE InPlace'
  OBVIOUS
<1> USE Calling
<1>1. ASSUME NEW c \in Commands, Ask(c) \/ Begin(c)
      PROVE  InPlace'
  BY <1>1, AskPlace, BeginPlace
<1>2. ASSUME NEW c \in Commands, FirstRow(c) \/ SecondRow(c)
      PROVE  InPlace'
  <2>1. \E l \in {"half", "whole"} : Goto(c, l) /\ queue' = queue /\ tx' = tx
    BY <1>2 DEF FirstRow, SecondRow
  <2>2. QED
    BY <2>1, GoesOn DEF Live
<1>3. ASSUME NEW c \in Commands, Abort(c) \/ Commit(c) \/ CommitFails(c)
      PROVE  InPlace'
  <2>1. \E l \in {"ok", "failed"} : AfterTx(c, l) /\ queue' = queue
    BY <1>3 DEF Abort, Commit, CommitFails
  <2>2. QED
    BY <2>1, TurnEnds
<1>4. ASSUME NEW c \in Outside, Settle(c)
      PROVE  InPlace'
  <2>1. \/ Open /\ Goto(c, "waiting") /\ queue' = queue /\ tx' = tx
        \/ Goto(c, "settled") /\ queue' = queue /\ tx' = tx
    BY <1>4 DEF Settle
  <2>2. QED
    BY <2>1, GoesOn DEF Live
<1>5. ASSUME NEW c \in Outside, OutsideStep(c)
      PROVE  InPlace'
  <2>1. \E l \in {"ok", "failed"} : Goto(c, l) /\ queue' = queue /\ tx' = tx
    BY <1>5 DEF OutsideStep, OutsideRow, OutsideRefused
  <2>2. QED
    BY <2>1, GoesOn DEF Finished
<1>6. CASE ArchivePackage \/ ArchiveIndex \/ UNCHANGED vars
  <2>1. UNCHANGED <<pc, queue, tx>>
    BY <1>6 DEF ArchivePackage, ArchiveIndex, vars
  <2>2. QED
    BY <2>1 DEF InPlace, Open
<1>7. CASE Crash
  <2>1. \A c \in Calls : pc'[c] \in Finished \cup {"idle", "lost"}
    BY <1>7 DEF Crash
  <2>2. QED
    BY <2>1 DEF InPlace, Finished
<1>8. QED
  BY <1>1, <1>2, <1>3, <1>4, <1>5, <1>6, <1>7 DEF Next, CommandStep

(* Nobody waits for a turn that no one will give: while a call is under     *)
(* way, the archive or some call can go on, for any number of calls, after  *)
(* any aborts, failures and crashes.                                        *)
THEOREM TurnsAreGiven == Spec => []SomebodyGoes
<1>1. Init => InPlace
  BY DEF Init, InPlace
<1>2. IInv /\ InPlace => SomebodyGoes
  <2> SUFFICES ASSUME IInv, InPlace, NEW c \in Calls, pc[c] \notin Finished \cup {"idle"}
               PROVE  \E d \in Calls : MayGo(d)
    BY DEF SomebodyGoes
  <2>1. pc[c] \in {"queued", "body", "half", "whole", "waiting", "settled"}
    BY DEF IInv, TypeOK, Live
  <2>2. \A d \in tx.by : d \in Calls /\ MayGo(d)
    BY Calling DEF IInv, TypeOK, OneTx, InTurn, MayGo
  <2>3. CASE Open
    BY <2>2, <2>3 DEF Open
  <2>4. CASE ~Open /\ pc[c] = "queued"
    <3>1. PICK i \in 1..Len(queue) : queue[i] = c
      BY <2>4 DEF InPlace
    <3>2. queue \in Seq(Commands) /\ queue # <<>> /\ Head(queue) = queue[1] /\ 1 \in 1..Len(queue)
      BY <3>1 DEF IInv, TypeOK
    <3>3. queue[1] \in Commands /\ pc[queue[1]] = "queued"
      BY <3>2, Types DEF IInv, QueuedOnce
    <3>4. MayGo(queue[1]) /\ queue[1] \in Calls
      BY <2>4, <3>2, <3>3, Calling DEF MayGo
    <3>5. QED
      BY <3>4
  <2>5. CASE ~Open /\ pc[c] \in {"body", "half", "whole"}
    BY <2>5 DEF IInv, OneTx, InTurn, Open
  <2>6. CASE ~Open /\ pc[c] \in {"waiting", "settled"}
    BY <2>6 DEF InPlace, MayGo
  <2>7. QED
    BY <2>1, <2>3, <2>4, <2>5, <2>6
<1>3. QED
  BY <1>1, <1>2, NextInPlace, Inductive, PTL DEF Spec, IInv
=============================================================================
