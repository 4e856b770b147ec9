------------------------------ MODULE WriteQueue ------------------------------
(***************************************************************************)
(* The optimistic write queue of honest-persist (queue.py): the pure data  *)
(* core.  A queue is a sequence of pending writes; MergePending is what a  *)
(* SELECT shows while writes are pending; Executed is what the backend     *)
(* does with the Query one write becomes.                                  *)
(*                                                                         *)
(* A row of a table is addressed by a cell, the pair <<table, primary key  *)
(* value>>, and its content is a function from the columns it carries to   *)
(* values.  A row read from the backend carries every column; the row of   *)
(* a pending update may carry fewer.                                       *)
(***************************************************************************)
EXTENDS Integers, Sequences

CONSTANTS
  Tables,     \* the tables the application writes through the queue
  Keys,       \* primary key values
  Cols,       \* the columns other than the primary key
  Vals,       \* column values
  Absent      \* "no row": what is neither in the backend nor pending

Cells == Tables \X Keys
Row == UNION {[C -> Vals] : C \in SUBSET Cols}
FullRow == [Cols -> Vals]

ASSUME AbsentIsNoRow == Absent \notin Row

Ops == {"insert", "update", "delete"}

Write == [op : Ops, cell : Cells, row : Row]

Store == [Cells -> FullRow \cup {Absent}]

-----------------------------------------------------------------------------
EmptyQueue == << >>

EnqueueWrite(q, op, cell, row) == Append(q, [op |-> op, cell |-> cell, row |-> row])

(* The positions of a queue that hold a write to one cell.                 *)
On(q, c) == {i \in DOMAIN q : q[i].cell = c}

(* What one pending write leaves in the dict merge_pending builds.         *)
Pending(w) == IF w.op = "delete" THEN Absent ELSE w.row

(* i is the last write of q to c: the one the dict ends up with.           *)
IsLastOn(q, c, i) == i \in On(q, c) /\ \A j \in On(q, c) : j <= i
LastOn(q, c) == CHOOSE i \in On(q, c) : \A j \in On(q, c) : j <= i

(* Mutant: a pending delete does not hide the row.                         *)
MergeKeepsDeleted(store, q) ==
  [c \in Cells |-> IF On(q, c) = {} \/ q[LastOn(q, c)].op = "delete" THEN store[c]
                   ELSE Pending(q[LastOn(q, c)])]

(* merge_pending, for every table at once: each later write to a cell      *)
(* replaces the whole entry the earlier ones left.                         *)
MergePending(store, q) ==
  [c \in Cells |-> IF On(q, c) = {} THEN store[c] ELSE Pending(q[LastOn(q, c)])]

(* merge_pending as the code folds it: one write after the other.          *)
FoldedMerge(store, q) ==
  LET fold[n \in 0..Len(q)] ==
        IF n = 0 THEN store ELSE [fold[n - 1] EXCEPT ![q[n].cell] = Pending(q[n])]
  IN fold[Len(q)]

-----------------------------------------------------------------------------
(* UPDATE ... SET names the columns the pending row carries; the others    *)
(* keep what the backend has.                                              *)
Overlay(old, new) ==
  [c \in DOMAIN old \cup DOMAIN new |-> IF c \in DOMAIN new THEN new[c] ELSE old[c]]

(* The backend refuses an INSERT of a primary key it already has.          *)
Refused(store, w) == w.op = "insert" /\ store[w.cell] # Absent

(* The row a write's Query leaves: an UPDATE whose WHERE matches no row    *)
(* and a DELETE of no row change nothing and are not errors.               *)
Executed(store, w) ==
  CASE w.op = "insert" -> [store EXCEPT ![w.cell] = w.row]
    [] w.op = "delete" -> [store EXCEPT ![w.cell] = Absent]
    [] w.op = "update" -> IF store[w.cell] = Absent THEN store
                          ELSE [store EXCEPT ![w.cell] = Overlay(@, w.row)]

(* drain_queue: the writes of a queue executed one after the other.        *)
Drain(store, q) ==
  LET drain[n \in 0..Len(q)] ==
        IF n = 0 THEN store ELSE Executed(drain[n - 1], q[n])
  IN drain

(* What a drain leaves, and whether the backend takes every write of it.   *)
Drained(store, q) == Drain(store, q)[Len(q)]
Takes(store, q) == \A n \in DOMAIN q : ~Refused(Drain(store, q)[n - 1], q[n])

-----------------------------------------------------------------------------
(* Mutant: the delay triples.                                              *)
BackoffTripled(attempt, base) == base * (3 ^ attempt)

(* backoff_delay: the base delay doubled per attempt.                      *)
BackoffDelay(attempt, base) ==
  LET delay[n \in 0..attempt] == IF n = 0 THEN base ELSE 2 * delay[n - 1]
  IN delay[attempt]

(* is_stalled, with the time since the first failure already subtracted.   *)
IsStalled(failingFor, limit) == failingFor >= limit
=============================================================================
