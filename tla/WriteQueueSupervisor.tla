------------------------- MODULE WriteQueueSupervisor -------------------------
(***************************************************************************)
(* The optimistic write queue at work (supervisor.py over queue.py): an    *)
(* application that reads and enqueues while one drain loop persists the   *)
(* queue, a backend that fails and comes back, the JSONL file, and a       *)
(* process that may die at any point and start again from that file.       *)
(*                                                                         *)
(* Python runs the application and the loop on one event loop, so a step   *)
(* is the code between two awaits: one execute, one sleep.  Times are      *)
(* relative: run_drain_loop reads now() when an attempt starts; failingFor *)
(* is that reading minus first_failure, elapsed the time since then.       *)
(*                                                                         *)
(* External, modelled from how the code is used: the backend, the clock,   *)
(* the application that reads before it writes (Admissible), starts a loop *)
(* when none runs, and settles its queue when a loop returns.              *)
(***************************************************************************)
EXTENDS WriteQueue

CONSTANTS
  UpdateRows,   \* the rows the application updates with
  MaxQueue,     \* bound: pending writes the application holds at once
  MaxCrashes,   \* bound: crashes of the process
  Stall,        \* STALL_NS, in ticks of the clock
  Base,         \* base_ms, in ticks of the clock
  MaxBusy,      \* bound: ticks the executes of one attempt and a late wake-up take
  TornSaves,    \* whether a crash can land inside save_queue's write_text
  NotFailing    \* first_failure is None

ASSUME SupervisorAssumption ==
  /\ UpdateRows \subseteq Row
  /\ MaxQueue \in Nat /\ MaxCrashes \in Nat
  /\ Stall \in Nat \ {0} /\ Base \in Nat \ {0} /\ MaxBusy \in Nat
  /\ TornSaves \in BOOLEAN
  /\ NotFailing \notin Nat

VARIABLES
  backend,      \* the rows of the real tables
  up,           \* whether the backend answers (environment)
  queue,        \* the queue value the application holds
  file,         \* the complete lines of the JSONL file
  torn,         \* whether the file ends in an incomplete line
  phase,        \* where the process and its drain loop are
  draining,     \* the queue value the drain loop was given
  pos,          \* the next write of draining to execute in this attempt
  failingFor,   \* now_ns of this attempt minus first_failure, or NotFailing
  elapsed,      \* time since this attempt started, its sleep included
  attempt,      \* the loop's retry counter
  sleepLeft,    \* what is left of the backoff sleep
  crashes       \* crashes so far (bounded by MaxCrashes)

loopVars == <<draining, pos, failingFor, elapsed, attempt, sleepLeft>>
vars == <<backend, up, queue, file, torn, phase, draining, pos, failingFor,
          elapsed, attempt, sleepLeft, crashes>>

\* idle: no loop; attempt: inside supervise_drain; sleeping: between two
\* attempts; raised: the loop ended with the stall fault; down: no process
Phases == {"idle", "attempt", "sleeping", "raised", "down"}

DataTypeOK ==
  /\ backend \in [Cells -> Row \cup {Absent}]
  /\ up \in BOOLEAN /\ torn \in BOOLEAN
  /\ queue \in Seq(Write) /\ file \in Seq(Write) /\ draining \in Seq(Write)
  /\ phase \in Phases
  /\ pos \in 1..(Len(draining) + 1)
  /\ failingFor \in Nat \cup {NotFailing}
  /\ phase = "sleeping" => failingFor \in Nat
  /\ elapsed \in Nat /\ attempt \in Nat /\ crashes \in Nat

(* Every variable has its type.                                            *)
TypeOK == DataTypeOK /\ sleepLeft \in Nat

Init ==
  /\ backend \in Store
  /\ up = TRUE
  /\ queue = EmptyQueue /\ file = EmptyQueue /\ torn = FALSE
  /\ phase = "idle"
  /\ draining = EmptyQueue /\ pos = 1
  /\ failingFor = NotFailing /\ elapsed = 0 /\ attempt = 0 /\ sleepLeft = 0
  /\ crashes = 0

-----------------------------------------------------------------------------
(* What a read shows: the backend with the pending writes merged in.  With *)
(* no process there are no reads; what counts is what the next one loads.  *)
ReadView == MergePending(backend, IF phase = "down" THEN file ELSE queue)

(* What a process started now from the JSONL file would read.              *)
LoadedView == MergePending(backend, file)

(* The application reads before it writes: it inserts what it does not see *)
(* and updates what it sees, with rows from UpdateRows.                    *)
Admissible(w) ==
  CASE w.op = "insert" -> ReadView[w.cell] = Absent /\ w.row \in FullRow
    [] w.op = "update" -> ReadView[w.cell] # Absent /\ w.row \in UpdateRows
    [] w.op = "delete" -> w.row \in FullRow

-----------------------------------------------------------------------------
(* Mutant: the file is written before the append.                          *)
EnqueueSavesOld(op, cell, row) ==
  /\ phase # "down"
  /\ Len(queue) < MaxQueue
  /\ Admissible([op |-> op, cell |-> cell, row |-> row])
  /\ queue' = EnqueueWrite(queue, op, cell, row)
  /\ file' = queue
  /\ UNCHANGED <<backend, up, torn, phase, loopVars, crashes>>

(* enqueue_durable: append, rewrite the whole file, return the new queue.  *)
EnqueueDurable(op, cell, row) ==
  /\ phase # "down"
  /\ Len(queue) < MaxQueue
  /\ Admissible([op |-> op, cell |-> cell, row |-> row])
  /\ queue' = EnqueueWrite(queue, op, cell, row)
  /\ file' = queue'
  /\ UNCHANGED <<backend, up, torn, phase, loopVars, crashes>>

(* run_drain_loop is called with the queue value the application holds.    *)
StartLoop ==
  /\ phase \in {"idle", "raised"}
  /\ queue # EmptyQueue
  /\ phase' = "attempt"
  /\ draining' = queue /\ pos' = 1
  /\ failingFor' = NotFailing /\ elapsed' = 0 /\ attempt' = 0 /\ sleepLeft' = 0
  /\ UNCHANGED <<backend, up, queue, file, torn, crashes>>

(* Mutant: drain_queue takes the queue from its end.                       *)
ExecuteBackwards ==
  /\ phase = "attempt" /\ pos \in DOMAIN draining
  /\ up /\ ~Refused(backend, draining[Len(draining) + 1 - pos])
  /\ backend' = Executed(backend, draining[Len(draining) + 1 - pos])
  /\ pos' = pos + 1
  /\ UNCHANGED <<up, queue, file, torn, phase, draining, failingFor, elapsed,
                 attempt, sleepLeft, crashes>>

(* drain_queue: one awaited execute that succeeds.                         *)
ExecuteWrite ==
  /\ phase = "attempt" /\ pos \in DOMAIN draining
  /\ up /\ ~Refused(backend, draining[pos])
  /\ backend' = Executed(backend, draining[pos])
  /\ pos' = pos + 1
  /\ UNCHANGED <<up, queue, file, torn, phase, draining, failingFor, elapsed,
                 attempt, sleepLeft, crashes>>

(* Mutant: first_failure and attempt are initialised inside the loop.      *)
AttemptForgets ==
  /\ failingFor' = 0 /\ attempt' = 1
  /\ phase' = "sleeping" /\ sleepLeft' = BackoffDelay(attempt', Base)

(* supervise_drain's except branch, and run_drain_loop's next sleep: the   *)
(* failure clock starts with the first attempt that fails and is not reset *)
(* by the writes an attempt did persist; past the limit, seen from where   *)
(* the attempt started, the fault is raised.                               *)
AttemptFailed ==
  /\ failingFor' = IF failingFor = NotFailing THEN 0 ELSE failingFor
  /\ \/ /\ IsStalled(failingFor', Stall)
        /\ phase' = "raised"
        /\ UNCHANGED <<attempt, sleepLeft>>
     \/ /\ ~IsStalled(failingFor', Stall)
        /\ phase' = "sleeping"
        /\ attempt' = attempt + 1
        /\ sleepLeft' = BackoffDelay(attempt', Base)

(* Mutant: the except is inside drain_queue's loop over the writes.        *)
ExecuteSkipsFailed ==
  /\ phase = "attempt" /\ pos \in DOMAIN draining
  /\ Refused(backend, draining[pos]) \/ ~up
  /\ pos' = pos + 1
  /\ UNCHANGED <<backend, up, queue, file, torn, phase, draining, failingFor, elapsed,
                 attempt, sleepLeft, crashes>>

(* An awaited execute that raises: the backend refuses the statement, or   *)
(* cannot be reached, or applied it and its answer was lost.               *)
ExecuteRaises ==
  /\ phase = "attempt" /\ pos \in DOMAIN draining
  /\ \/ (Refused(backend, draining[pos]) \/ ~up) /\ UNCHANGED backend
     \/ /\ ~up /\ ~Refused(backend, draining[pos])
        /\ backend' = Executed(backend, draining[pos])
  /\ AttemptFailed
  /\ UNCHANGED <<up, queue, file, torn, draining, pos, elapsed, crashes>>

(* run_drain_loop's sleep is over: it reads now() and the next attempt     *)
(* starts from the first write of the same queue value.                    *)
Wake ==
  /\ phase = "sleeping" /\ sleepLeft = 0
  /\ phase' = "attempt" /\ pos' = 1
  /\ failingFor' = failingFor + elapsed /\ elapsed' = 0
  /\ UNCHANGED <<backend, up, queue, file, torn, draining, attempt, sleepLeft, crashes>>

(* The application keeps what it enqueued after it handed the queue over.  *)
Remaining(held, handed) == SubSeq(held, Len(handed) + 1, Len(held))

(* Mutant: run_drain_loop goes on when drained.                            *)
LoopGoesOn ==
  /\ phase = "attempt" /\ pos = Len(draining) + 1
  /\ queue' = Remaining(queue, draining)
  /\ draining' = EmptyQueue /\ pos' = 1
  /\ failingFor' = NotFailing /\ elapsed' = 0 /\ attempt' = 0 /\ sleepLeft' = 0
  /\ UNCHANGED <<backend, up, file, torn, phase, crashes>>

(* Every write of the attempt succeeded: supervise_drain reports drained,  *)
(* run_drain_loop returns, the application settles its queue.  Nothing     *)
(* rewrites the file.                                                      *)
LoopReturns ==
  /\ phase = "attempt" /\ pos = Len(draining) + 1
  /\ phase' = "idle"
  /\ queue' = Remaining(queue, draining)
  /\ draining' = EmptyQueue /\ pos' = 1
  /\ failingFor' = NotFailing /\ elapsed' = 0 /\ attempt' = 0 /\ sleepLeft' = 0
  /\ UNCHANGED <<backend, up, file, torn, crashes>>

-----------------------------------------------------------------------------
(* Time passes: in an execute, in the sleep, or before the loop wakes.     *)
Busy == IF phase = "sleeping" THEN elapsed + sleepLeft - BackoffDelay(attempt, Base)
        ELSE elapsed

Tick ==
  /\ phase \in {"attempt", "sleeping"}
  /\ sleepLeft > 0 \/ Busy < MaxBusy
  /\ elapsed' = elapsed + 1
  /\ sleepLeft' = IF sleepLeft > 0 THEN sleepLeft - 1 ELSE 0
  /\ UNCHANGED <<backend, up, queue, file, torn, phase, draining, pos, failingFor,
                 attempt, crashes>>

Outage == up /\ up' = FALSE /\ UNCHANGED <<backend, queue, file, torn, phase, loopVars, crashes>>
Recovery == ~up /\ up' = TRUE /\ UNCHANGED <<backend, queue, file, torn, phase, loopVars, crashes>>

(* What a process that dies leaves behind: only the file and the backend.  *)
ProcessGone ==
  /\ phase # "down" /\ crashes < MaxCrashes
  /\ phase' = "down" /\ crashes' = crashes + 1
  /\ queue' = EmptyQueue /\ draining' = EmptyQueue /\ pos' = 1
  /\ failingFor' = NotFailing /\ elapsed' = 0 /\ attempt' = 0 /\ sleepLeft' = 0
  /\ UNCHANGED <<backend, up>>

Crash == ProcessGone /\ UNCHANGED <<file, torn>>

(* The process dies inside enqueue_durable: write_text has truncated the   *)
(* file and written some of the new queue's lines, perhaps half of one.    *)
CrashWhileSaving(op, cell, row) ==
  /\ TornSaves
  /\ Len(queue) < MaxQueue
  /\ Admissible([op |-> op, cell |-> cell, row |-> row])
  /\ LET new == EnqueueWrite(queue, op, cell, row)
     IN \E n \in 0..Len(new) :
          /\ file' = SubSeq(new, 1, n)
          /\ torn' \in IF n < Len(new) THEN BOOLEAN ELSE {FALSE}
  /\ ProcessGone

(* load_queue at the next start; json.loads raises on an incomplete line.  *)
Restart ==
  /\ phase = "down" /\ ~torn
  /\ phase' = "idle"
  /\ queue' = file
  /\ UNCHANGED <<backend, up, file, torn, loopVars, crashes>>

-----------------------------------------------------------------------------
Next ==
  \/ \E op \in Ops, cell \in Cells, row \in Row :
       EnqueueDurable(op, cell, row) \/ CrashWhileSaving(op, cell, row)
  \/ StartLoop \/ ExecuteWrite \/ ExecuteRaises \/ Wake \/ LoopReturns
  \/ Tick \/ Outage \/ Recovery \/ Crash \/ Restart

Spec == Init /\ [][Next]_vars

(* The event loop resumes a coroutine whose await is over (an execute ends *)
(* one way or the other, a sleep ends), time passes, a stopped             *)
(* process loads its queue and an application with pending writes runs a   *)
(* loop.  Nothing is assumed of the backend, of crashes or of new writes.  *)
Fairness ==
  /\ WF_vars(ExecuteWrite \/ ExecuteRaises) /\ WF_vars(Wake) /\ WF_vars(LoopReturns)
  /\ WF_vars(Tick) /\ WF_vars(Restart) /\ WF_vars(StartLoop)

FairSpec == Spec /\ Fairness

-----------------------------------------------------------------------------
(* A write is made when enqueue_durable is called for it, also when the    *)
(* process dies in the call.                                               *)
Made(w) ==
  \/ EnqueueDurable(w.op, w.cell, w.row)
  \/ CrashWhileSaving(w.op, w.cell, w.row)

(* Reads are those of a store that the application's writes change, each   *)
(* its own cell when it is made, and nothing else changes: no execute of a *)
(* drain, no failure, retry, settling, crash or restart is visible         *)
(* (queue.py:2, "reads stay transparent").                                 *)
Abstract == INSTANCE Store WITH store <- ReadView, Rows <- Row
ReadsTransparent ==
  /\ Abstract!Init
  /\ [][\/ UNCHANGED ReadView
         \/ \E op \in Ops, cell \in Cells, row \in Row :
              LET w == [op |-> op, cell |-> cell, row |-> row]
              IN Made(w) /\ Abstract!Write(cell, Pending(w))]_vars

(* The writes that are not yet executed: the rest of an attempt and what   *)
(* was enqueued since, or, with no attempt, all of them.                   *)
Unexecuted ==
  IF phase = "down" THEN file
  ELSE SubSeq(queue, IF phase = "attempt" THEN pos ELSE 1, Len(queue))

(* What is read is what the backend will hold: if it takes every write     *)
(* that is left, in order and from where the last failure or crash left    *)
(* it, then the rows it ends up with are those merge_pending shows now.    *)
MergeIsTheDrain == Takes(backend, Unexecuted) => Drained(backend, Unexecuted) = ReadView

(* At any moment the file alone recovers what the application reads, also  *)
(* when it is stale: a drain does not rewrite it (save_queue: "so pending  *)
(* writes survive a restart").                                             *)
Recoverable == phase # "down" => LoadedView = ReadView

(* A write leaves the application's queue only when the backend holds what *)
(* it wrote, or with the process ("never silently discarded").             *)
NothingDiscarded ==
  [][phase' # "down" =>
       \A c \in Cells : On(queue, c) # {} /\ On(queue', c) = {}
                          => backend'[c] = Pending(queue[LastOn(queue, c)])]_vars

(* The six-hour limit is checked only when an attempt fails, so a sleep    *)
(* already begun delays the fault; the doubling keeps the age at which the *)
(* next attempt starts below twice the limit plus two base delays (plus    *)
(* the time one attempt may itself take).                                  *)
StallDetectionBounded ==
  phase = "sleeping" => failingFor + elapsed + sleepLeft < 2 * (Stall + Base) + MaxBusy

(* A loop that was started ends: drained, stalled, or with its process     *)
(* (run_drain_loop: "until it drains or stalls").                          *)
DrainsOrStalls == phase \in {"attempt", "sleeping"} ~> phase \in {"idle", "raised", "down"}

(* If the backend stays up from some point on and no insert is pending     *)
(* (an insert that went through in a failed attempt is refused for ever),  *)
(* loops keep ending drained, unless the file stops every further start.   *)
HealedQueueDrains ==
  <>[](up /\ \A i \in DOMAIN queue : queue[i].op # "insert") => []<>(phase = "idle" \/ torn)

-----------------------------------------------------------------------------
(* The inductive invariant behind Recoverable and ReadsTransparent, for an *)
(* application that updates whole rows and saves no crash can tear.        *)

Prefix(p, q) == Len(p) <= Len(q) /\ \A i \in DOMAIN p : p[i] = q[i]

(* Everything the application or its loop holds is also on file.           *)
QueueOnFile == \A i \in DOMAIN queue : \E j \in DOMAIN file : file[j] = queue[i]

(* Admissible, seen from a queue: whatever updates a row that was deleted  *)
(* earlier was preceded by an insert of it.                                *)
Reinserted(q) ==
  \A i, j \in DOMAIN q :
    i < j /\ q[i].cell = q[j].cell /\ q[i].op = "delete" /\ q[j].op = "update"
      => \E k \in DOMAIN q : i < k /\ k < j /\ q[k].cell = q[j].cell /\ q[k].op = "insert"

(* The first write of a queue to a cell, if an update, finds its row in    *)
(* the backend, or an earlier attempt already ran a delete of the queue.   *)
IsFirst(q, j) == \A i \in DOMAIN q : q[i].cell = q[j].cell => j <= i
HasDelete(q, c, from) == \E k \in DOMAIN q : k >= from /\ q[k].cell = c /\ q[k].op = "delete"
Grounded(q) ==
  \A j \in DOMAIN q :
    q[j].op = "update" /\ IsFirst(q, j)
      => backend[q[j].cell] # Absent \/ HasDelete(q, q[j].cell, 1)

(* What this attempt has executed is what the backend has, cell by cell,   *)
(* unless a delete is still to come (an attempt that repeats updates of a  *)
(* row an earlier attempt already deleted updates nothing).                *)
LastBefore(q, l, p) ==
  l < p /\ \A i \in DOMAIN q : i < p /\ q[i].cell = q[l].cell => i <= l
AttemptExact ==
  phase = "attempt" =>
    \A l \in DOMAIN draining :
      LastBefore(draining, l, pos)
        => \/ backend[draining[l].cell] = Pending(draining[l])
           \/ HasDelete(draining, draining[l].cell, pos)

(* Writes whose row carries every column.                                  *)
FullWrite == [op : Ops, cell : Cells, row : FullRow]

WholeRows ==
  /\ backend \in Store
  /\ queue \in Seq(FullWrite) /\ file \in Seq(FullWrite) /\ draining \in Seq(FullWrite)

QueueInv ==
  /\ WholeRows
  /\ phase = "down" => queue = EmptyQueue
  /\ Prefix(draining, queue)
  /\ QueueOnFile
  /\ Recoverable
  /\ Reinserted(queue) /\ Reinserted(file)
  /\ Grounded(queue) /\ Grounded(draining) /\ Grounded(file)
  /\ AttemptExact
=============================================================================
