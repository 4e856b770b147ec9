---------------------------- MODULE WriteQueueProofs ----------------------------
(***************************************************************************)
(* What holds of the write queue and its supervisor for every set of       *)
(* tables, keys, columns and values, every bound and every limit.          *)
(***************************************************************************)
EXTENDS WriteQueueSupervisor, SequenceTheorems, WellFoundedInduction, TLAPS

-----------------------------------------------------------------------------
(* Induction on numbers, for a set.                                        *)
LEMMA SetInduction ==
  ASSUME NEW T, 0 \in T, \A n \in Nat : n \in T => n + 1 \in T
  PROVE  Nat \subseteq T
<1> DEFINE Less == {ss \in Nat \X Nat : ss[1] < ss[2]}
<1> SUFFICES ASSUME Nat \ T # {} PROVE FALSE  OBVIOUS
<1>1. IsWellFoundedOn(Less, Nat)
  <2>1. OpToRel(<, Nat) = Less  BY DEF OpToRel
  <2>. QED  BY NatLessThanWellFounded, <2>1
<1>2. PICK x \in Nat \ T : ~ \E y \in Nat \ T : <<y, x>> \in Less
  <2>1. Nat \ T \subseteq Nat  OBVIOUS
  <2> HIDE DEF Less
  <2>. QED  BY ONLY WFMin, <1>1, <2>1, Nat \ T # {}
<1>3. x - 1 \in Nat \ T  OBVIOUS
<1>4. <<x - 1, x>> \in Less  BY <1>3
<1>. QED  BY <1>2, <1>3, <1>4

-----------------------------------------------------------------------------
(* A queue with a write to a cell has a last one, and LastOn is it.        *)
LEMMA LastOnIsLast ==
  ASSUME NEW S, NEW q \in Seq(S), NEW c, On(q, c) # {}
  PROVE  IsLastOn(q, c, LastOn(q, c))
<1>1. On(q, c) \subseteq 1..Len(q)  BY DEF On
<1> DEFINE T == {n \in Nat : Len(q) - n \in On(q, c)}
<1>2. T \subseteq Nat /\ T # {}
  <2>1. PICK i \in On(q, c) : TRUE  OBVIOUS
  <2>2. i \in 1..Len(q)  BY <1>1, <2>1
  <2>3. Len(q) - i \in Nat /\ Len(q) - (Len(q) - i) = i  BY <2>2, LenProperties
  <2>. QED  BY <2>1, <2>3
<1>3. PICK n \in T : \A m \in T : ~ (<<m, n>> \in OpToRel(<, Nat))
  BY <1>2, NatLessThanWellFounded, WFMin
<1>4. \A m \in T : n <= m
  <2>1. \A m, k \in Nat : m < k => <<m, k>> \in OpToRel(<, Nat)  BY Zenon DEF OpToRel
  <2>2. ASSUME NEW m \in T PROVE ~ (m < n)  BY <2>1, <1>3, <1>2, Zenon
  <2>3. n \in Nat  BY <1>2, <1>3, Zenon
  <2> HIDE DEF T
  <2>. QED  BY <2>2, <2>3, <1>2
<1>5. \A j \in On(q, c) : j <= Len(q) - n
  <2> TAKE j \in On(q, c)
  <2>1. j \in 1..Len(q)  BY <1>1
  <2>2. Len(q) - j \in Nat /\ Len(q) - (Len(q) - j) = j  BY <2>1, LenProperties
  <2>3. n <= Len(q) - j  BY <1>4, <2>2
  <2>. QED  BY <2>1, <2>3, LenProperties
<1>6. \E i \in On(q, c) : \A j \in On(q, c) : j <= i  BY <1>5
<1>. QED  BY <1>6 DEF IsLastOn, LastOn

(* There is only one last write to a cell.                                 *)
LEMMA LastOnUnique ==
  ASSUME NEW S, NEW q \in Seq(S), NEW c, NEW i, IsLastOn(q, c, i)
  PROVE  LastOn(q, c) = i
<1>1. IsLastOn(q, c, LastOn(q, c))  BY LastOnIsLast DEF IsLastOn
<1>2. On(q, c) \subseteq 1..Len(q)  BY DEF On
<1>. QED  BY <1>1, <1>2, LenProperties DEF IsLastOn

(* What MergePending shows of a cell, without the CHOOSE.                  *)
LEMMA MergeValue ==
  ASSUME NEW S, NEW q \in Seq(S), NEW store, NEW c \in Cells
  PROVE  /\ On(q, c) = {} => MergePending(store, q)[c] = store[c]
         /\ \A i : IsLastOn(q, c, i) => MergePending(store, q)[c] = Pending(q[i])
BY LastOnUnique DEF MergePending, IsLastOn

(* A pending write hides what the backend has: MergePending depends only   *)
(* on the rows no write is pending for.                                    *)
LEMMA MergeHidesBackend ==
  ASSUME NEW q, NEW s, NEW t, \A c \in Cells : On(q, c) = {} => s[c] = t[c]
  PROVE  MergePending(s, q) = MergePending(t, q)
BY DEF MergePending

(* Enqueuing a write changes what is read in its cell, to what it writes,  *)
(* and nowhere else.                                                       *)
LEMMA MergeAppend ==
  ASSUME NEW q \in Seq(Write), NEW w \in Write, NEW store
  PROVE  MergePending(store, Append(q, w)) =
           [MergePending(store, q) EXCEPT ![w.cell] = Pending(w)]
<1> DEFINE r == Append(q, w)
<1>1. /\ r \in Seq(Write) /\ Len(r) = Len(q) + 1 /\ r[Len(q) + 1] = w
      /\ \A i \in 1..Len(q) : r[i] = q[i]
  OBVIOUS
<1> HIDE DEF r
<1>2. DOMAIN r = 1..(Len(q) + 1) /\ DOMAIN q = 1..Len(q)  BY <1>1, LenProperties
<1>3. w.cell \in Cells  BY DEF Write
<1>4. ASSUME NEW c \in Cells, c # w.cell
      PROVE  MergePending(store, r)[c] = MergePending(store, q)[c]
  <2>1. On(r, c) = On(q, c)  BY <1>1, <1>2, <1>4 DEF On
  <2>2. CASE On(q, c) = {}  BY <2>1, <2>2, <1>1, MergeValue
  <2>3. CASE On(q, c) # {}
    <3>1. IsLastOn(q, c, LastOn(q, c))  BY <2>3, LastOnIsLast
    <3>2. IsLastOn(r, c, LastOn(q, c))  BY <3>1, <2>1 DEF IsLastOn
    <3>3. r[LastOn(q, c)] = q[LastOn(q, c)]  BY <3>1, <1>1, <1>2 DEF IsLastOn, On
    <3>. QED  BY <3>1, <3>2, <3>3, <1>1, MergeValue
  <2>. QED  BY <2>2, <2>3
<1>5. MergePending(store, r)[w.cell] = Pending(w)
  <2>1. IsLastOn(r, w.cell, Len(q) + 1)  BY <1>1, <1>2, LenProperties DEF IsLastOn, On
  <2>. QED  BY <2>1, <1>1, <1>3, MergeValue
<1>. QED  BY <1>3, <1>4, <1>5 DEF MergePending, r

(* The fold of merge_pending is what its steps leave.                      *)
LEMMA FoldIterates ==
  ASSUME NEW S, NEW q \in Seq(S), NEW store
  PROVE  \E f :
           /\ f[0] = store
           /\ \A n \in 1..Len(q) : f[n] = [f[n - 1] EXCEPT ![q[n].cell] = Pending(q[n])]
           /\ FoldedMerge(store, q) = f[Len(q)]
<1> DEFINE m == Len(q)
           Step(a, n) == [a EXCEPT ![q[n].cell] = Pending(q[n])]
           F == CHOOSE f : f = [n \in 0..m |-> IF n = 0 THEN store ELSE Step(f[n - 1], n)]
           T == {k \in Nat : \E h : /\ DOMAIN h = 0..k /\ h[0] = store
                                    /\ \A n \in 1..k : h[n] = Step(h[n - 1], n)}
<1>1. m \in Nat  BY LenProperties
<1>2. FoldedMerge(store, q) = F[m]  BY DEF FoldedMerge
<1> HIDE DEF Step
<1>3. 0 \in T
  <2> DEFINE g == [i \in 0..0 |-> store]
  <2>1. DOMAIN g = 0..0 /\ g[0] = store  OBVIOUS
  <2>2. \A n \in 1..0 : g[n] = Step(g[n - 1], n)  OBVIOUS
  <2> HIDE DEF g
  <2>. QED  BY <2>1, <2>2
<1>4. ASSUME NEW k \in Nat, k \in T PROVE k + 1 \in T
  <2>1. PICK h : /\ DOMAIN h = 0..k /\ h[0] = store
                 /\ \A n \in 1..k : h[n] = Step(h[n - 1], n)
    BY <1>4
  <2> DEFINE g == [n \in 0..k + 1 |-> IF n = k + 1 THEN Step(h[k], k + 1) ELSE h[n]]
  <2>2. DOMAIN g = 0..k + 1 /\ g[0] = store  BY <2>1
  <2>3. ASSUME NEW n \in 1..k + 1 PROVE g[n] = Step(g[n - 1], n)
    <3>1. g[n - 1] = h[n - 1]  OBVIOUS
    <3>2. CASE n = k + 1  BY <3>1, <3>2
    <3>3. CASE n \in 1..k  BY <2>1, <3>1, <3>3
    <3>. QED  BY <3>2, <3>3
  <2> HIDE DEF g
  <2>. QED  BY <2>2, <2>3
<1>5. Nat \subseteq T
  <2> HIDE DEF T
  <2>. QED  BY ONLY SetInduction, <1>3, <1>4
<1>6. PICK h : /\ DOMAIN h = 0..m /\ h[0] = store
               /\ \A n \in 1..m : h[n] = Step(h[n - 1], n)
  BY <1>1, <1>5
<1> DEFINE j == [n \in 0..m |-> h[n]]
<1>7. j = [n \in 0..m |-> IF n = 0 THEN store ELSE Step(j[n - 1], n)]
  <2>1. ASSUME NEW n \in 0..m PROVE j[n] = IF n = 0 THEN store ELSE Step(j[n - 1], n)
    <3>1. CASE n = 0  BY <1>6, <3>1
    <3>2. CASE n # 0
      <4>1. n \in 1..m /\ n - 1 \in 0..m  BY <1>1, <3>2
      <4>. QED  BY <1>6, <3>2, <4>1
    <3>. QED  BY <3>1, <3>2
  <2>. QED  BY <2>1
<1>8. F = [n \in 0..m |-> IF n = 0 THEN store ELSE Step(F[n - 1], n)]
  <2> HIDE DEF m, j
  <2>. QED  BY <1>7
<1> HIDE DEF F
<1>9. F[0] = store  BY <1>1, <1>8
<1>10. ASSUME NEW n \in 1..m PROVE F[n] = Step(F[n - 1], n)
  <2>1. n \in 0..m /\ n # 0  BY <1>1
  <2>. QED  BY <1>8, <2>1
<1>. QED  BY <1>2, <1>9, <1>10 DEF Step

(* The last pending write of each cell is what the fold ends up with, for  *)
(* every queue: induction on its length.                                   *)
LEMMA MergeFolds ==
  ASSUME NEW q \in Seq(Write), NEW R, NEW store \in [Cells -> R]
  PROVE  MergePending(store, q) = FoldedMerge(store, q)
<1> DEFINE m == Len(q)
<1>1. PICK f : /\ f[0] = store
               /\ \A n \in 1..m : f[n] = [f[n - 1] EXCEPT ![q[n].cell] = Pending(q[n])]
               /\ FoldedMerge(store, q) = f[m]
  BY FoldIterates
<1> DEFINE T == {k \in Nat : k <= m => MergePending(store, SubSeq(q, 1, k)) = f[k]}
<1>2. m \in Nat /\ \A n \in 1..m : q[n] \in Write  BY LenProperties, ElementOfSeq
<1>3. 0 \in T
  <2>1. SubSeq(q, 1, 0) = << >>  BY SubSeqEmpty
  <2>2. \A c : On(SubSeq(q, 1, 0), c) = {}  BY <2>1 DEF On
  <2>3. MergePending(store, SubSeq(q, 1, 0)) = store  BY <2>2 DEF MergePending
  <2>. QED  BY <1>1, <2>3
<1>4. ASSUME NEW k \in Nat, k \in T PROVE k + 1 \in T
  <2> SUFFICES ASSUME k + 1 <= m PROVE MergePending(store, SubSeq(q, 1, k + 1)) = f[k + 1]
    OBVIOUS
  <2> DEFINE p == SubSeq(q, 1, k)
  <2>1. k + 1 \in 1..m /\ (k + 1) - 1 = k /\ MergePending(store, p) = f[k]
    BY <1>2, <1>4
  <2>2. p \in Seq(Write)
    <3>1. \A i \in 1..k : q[i] \in Write  BY <1>2, <2>1
    <3>. QED  BY <3>1, SubSeqProperties
  <2>3. SubSeq(q, 1, k + 1) = Append(p, q[k + 1])
    BY <1>2, <2>1, SubSeqRecursiveSecond
  <2> HIDE DEF p
  <2>4. MergePending(store, Append(p, q[k + 1])) =
          [MergePending(store, p) EXCEPT ![q[k + 1].cell] = Pending(q[k + 1])]
    BY <1>2, <2>1, <2>2, MergeAppend
  <2>5. f[k + 1] = [f[k] EXCEPT ![q[k + 1].cell] = Pending(q[k + 1])]  BY <1>1, <2>1
  <2>. QED  BY <2>1, <2>3, <2>4, <2>5
<1>5. Nat \subseteq T
  <2> HIDE DEF T
  <2>. QED  BY ONLY SetInduction, <1>3, <1>4
<1>6. SubSeq(q, 1, m) = q  BY SubSeqFull
<1>7. MergePending(store, SubSeq(q, 1, m)) = f[m]  BY <1>2, <1>5
<1>. QED  BY <1>1, <1>6, <1>7

-----------------------------------------------------------------------------
(* A statement that is executed leaves a table of rows.                    *)
LEMMA ExecutedType ==
  ASSUME NEW store \in [Cells -> Row \cup {Absent}], NEW w \in Write
  PROVE  Executed(store, w) \in [Cells -> Row \cup {Absent}]
<1>1. w.cell \in Cells /\ w.row \in Row /\ w.op \in Ops  BY DEF Write
<1>2. \A old, new \in Row : Overlay(old, new) \in Row
  <2> TAKE old, new \in Row
  <2>1. PICK C \in SUBSET Cols : old \in [C -> Vals]  BY DEF Row
  <2>2. PICK D \in SUBSET Cols : new \in [D -> Vals]  BY DEF Row
  <2>3. Overlay(old, new) \in [C \cup D -> Vals]  BY <2>1, <2>2 DEF Overlay
  <2>4. C \cup D \in SUBSET Cols  OBVIOUS
  <2>. QED  BY <2>3, <2>4 DEF Row
<1>. QED  BY <1>1, <1>2 DEF Executed, Ops

(* Every variable but the sleep timer keeps its type, whatever the bounds, *)
(* with torn saves and partial updates included.                           *)
THEOREM DataTypeCorrect == Spec => []DataTypeOK
<1>1. Init => DataTypeOK
  <2> SUFFICES ASSUME Init PROVE DataTypeOK  OBVIOUS
  <2>1. Store \subseteq [Cells -> Row \cup {Absent}]
    <3>1. FullRow \subseteq Row  BY DEF FullRow, Row
    <3>. QED  BY <3>1 DEF Store
  <2>2. << >> \in Seq(Write) /\ Len(<< >>) = 0  BY EmptySeq
  <2>3. backend \in [Cells -> Row \cup {Absent}]  BY <2>1 DEF Init
  <2>4. pos \in 1..(Len(draining) + 1)  BY <2>2 DEF Init, EmptyQueue
  <2>. QED  BY <2>2, <2>3, <2>4 DEF Init, DataTypeOK, EmptyQueue, Phases
<1>2. DataTypeOK /\ [Next]_vars => DataTypeOK'
  <2> SUFFICES ASSUME DataTypeOK, [Next]_vars PROVE DataTypeOK'  OBVIOUS
  <2> USE DEF DataTypeOK, Phases, EmptyQueue
  <2>0. << >> \in Seq(Write) /\ Len(<< >>) = 0  BY EmptySeq
  <2>1. ASSUME NEW op \in Ops, NEW cell \in Cells, NEW row \in Row
        PROVE  EnqueueWrite(queue, op, cell, row) \in Seq(Write)
    BY DEF EnqueueWrite, Write
  <2>2. ASSUME NEW op \in Ops, NEW cell \in Cells, NEW row \in Row,
               EnqueueDurable(op, cell, row)
        PROVE  DataTypeOK'
    BY <2>1, <2>2 DEF EnqueueDurable, loopVars
  <2>3. ASSUME ProcessGone, file' \in Seq(Write), torn' \in BOOLEAN
        PROVE  DataTypeOK'
    BY <2>0, <2>3 DEF ProcessGone
  <2>4. ASSUME NEW op \in Ops, NEW cell \in Cells, NEW row \in Row,
               CrashWhileSaving(op, cell, row)
        PROVE  DataTypeOK'
    <3> DEFINE new == EnqueueWrite(queue, op, cell, row)
    <3>1. new \in Seq(Write)  BY <2>1
    <3> HIDE DEF new
    <3>2. PICK n \in 0..Len(new) :
            file' = SubSeq(new, 1, n) /\ torn' \in BOOLEAN
      BY <2>4 DEF CrashWhileSaving, new
    <3>3. file' \in Seq(Write)  BY <3>1, <3>2, LenProperties
    <3>. QED  BY <2>3, <2>4, <3>2, <3>3 DEF CrashWhileSaving
  <2>5. CASE StartLoop
    <3>1. Len(queue) \in Nat  BY LenProperties
    <3>. QED  BY <2>5, <3>1 DEF StartLoop
  <2>6. CASE ExecuteWrite
    <3>1. draining[pos] \in Write  BY <2>6, ElementOfSeq, LenProperties DEF ExecuteWrite
    <3>2. backend' \in [Cells -> Row \cup {Absent}]
      BY <2>6, <3>1, ExecutedType DEF ExecuteWrite
    <3>3. pos' \in 1..(Len(draining) + 1)  BY <2>6, LenProperties DEF ExecuteWrite
    <3>. QED  BY <2>6, <3>2, <3>3 DEF ExecuteWrite
  <2>7. CASE ExecuteRaises
    <3>1. draining[pos] \in Write  BY <2>7, ElementOfSeq, LenProperties DEF ExecuteRaises
    <3>2. backend' \in [Cells -> Row \cup {Absent}]
      BY <2>7, <3>1, ExecutedType DEF ExecuteRaises
    <3>3. failingFor' \in Nat /\ phase' \in Phases /\ attempt' \in Nat
      BY <2>7 DEF ExecuteRaises, AttemptFailed
    <3>4. UNCHANGED <<up, queue, file, torn, draining, pos, elapsed, crashes>>
      BY <2>7 DEF ExecuteRaises
    <3>. QED  BY <3>2, <3>3, <3>4
  <2>8. CASE Wake
    BY <2>8, LenProperties DEF Wake
  <2>9. CASE LoopReturns
    <3>1. Remaining(queue, draining) \in Seq(Write)
      BY LenProperties, SubSeqProperties, ElementOfSeq DEF Remaining
    <3>. QED  BY <2>9, <2>0, <3>1 DEF LoopReturns
  <2>10. CASE Tick
    BY <2>10, SupervisorAssumption DEF Tick
  <2>11. CASE Outage \/ Recovery
    BY <2>11 DEF Outage, Recovery, loopVars
  <2>12. CASE Crash
    BY <2>3, <2>12 DEF Crash
  <2>13. CASE Restart
    BY <2>13 DEF Restart, loopVars
  <2>14. CASE UNCHANGED vars
    BY <2>14 DEF vars
  <2>. QED  BY <2>2, <2>4, <2>5, <2>6, <2>7, <2>8, <2>9, <2>10, <2>11, <2>12, <2>13,
               <2>14 DEF Next
<1>. QED  BY <1>1, <1>2, PTL DEF Spec

-----------------------------------------------------------------------------
(* An application that updates whole rows, and saves no crash can tear.    *)
Careful == UpdateRows \subseteq FullRow /\ ~TornSaves

LEMMA FullWriteIsWrite == FullWrite \subseteq Write /\ Absent \notin FullRow
<1>1. FullRow \subseteq Row  BY DEF FullRow, Row
<1>. QED  BY <1>1, AbsentIsNoRow DEF FullWrite, Write

(* A statement of a whole row changes its own cell only: to the row, to no *)
(* row, or, for an update that finds no row, not at all.                   *)
LEMMA ExecutedWhole ==
  ASSUME NEW store \in Store, NEW w \in FullWrite
  PROVE  /\ Executed(store, w) \in Store
         /\ \A c \in Cells : c # w.cell => Executed(store, w)[c] = store[c]
         /\ w.op # "update" \/ store[w.cell] # Absent
              => Executed(store, w)[w.cell] = Pending(w)
         /\ w.op # "delete" /\ store[w.cell] # Absent
              => Executed(store, w)[w.cell] # Absent
<1>1. w.cell \in Cells /\ w.row \in FullRow /\ w.op \in Ops  BY DEF FullWrite
<1>2. \A old, new \in FullRow : Overlay(old, new) = new
  BY DEF FullRow, Overlay
<1>3. w.row # Absent  BY <1>1, FullWriteIsWrite
<1>4. CASE w.op = "insert"
  <2>1. Executed(store, w) = [store EXCEPT ![w.cell] = w.row]  BY <1>4 DEF Executed
  <2>2. Pending(w) = w.row  BY <1>4 DEF Pending
  <2>. QED  BY <1>1, <1>3, <1>4, <2>1, <2>2 DEF Store
<1>5. CASE w.op = "delete"
  <2>1. Executed(store, w) = [store EXCEPT ![w.cell] = Absent]  BY <1>5 DEF Executed
  <2>2. Pending(w) = Absent  BY <1>5 DEF Pending
  <2>. QED  BY <1>1, <1>5, <2>1, <2>2 DEF Store
<1>6. CASE w.op = "update" /\ store[w.cell] = Absent
  <2>1. Executed(store, w) = store  BY <1>6 DEF Executed
  <2>. QED  BY <1>1, <1>6, <2>1
<1>7. CASE w.op = "update" /\ store[w.cell] # Absent
  <2>1. Executed(store, w) = [store EXCEPT ![w.cell] = Overlay(@, w.row)]
    BY <1>7 DEF Executed
  <2>2. store[w.cell] \in FullRow  BY <1>1, <1>7 DEF Store
  <2>3. Executed(store, w) = [store EXCEPT ![w.cell] = w.row]  BY <1>1, <1>2, <2>1, <2>2
  <2>4. Pending(w) = w.row  BY <1>7 DEF Pending
  <2>. QED  BY <1>1, <1>3, <1>7, <2>3, <2>4 DEF Store
<1>. QED  BY <1>1, <1>4, <1>5, <1>6, <1>7 DEF Ops

(* What Grounded and AttemptExact say, of any store.                       *)
GroundedOn(store, q) ==
  \A j \in DOMAIN q :
    q[j].op = "update" /\ IsFirst(q, j)
      => store[q[j].cell] # Absent \/ HasDelete(q, q[j].cell, 1)
ExactOn(store, q, p) ==
  \A l \in DOMAIN q :
    LastBefore(q, l, p)
      => store[q[l].cell] = Pending(q[l]) \/ HasDelete(q, q[l].cell, p)

(* One execute more: what the writes before it left is still there, and    *)
(* its own cell holds what it wrote, unless a delete is still to come.     *)
LEMMA ExactStep ==
  ASSUME NEW store \in Store, NEW q \in Seq(FullWrite), NEW p \in DOMAIN q,
         GroundedOn(store, q), Reinserted(q), ExactOn(store, q, p),
         NEW new, new = Executed(store, q[p])
  PROVE  ExactOn(new, q, p + 1)
<1> DEFINE w == q[p]
<1>1. /\ DOMAIN q = 1..Len(q) /\ Len(q) \in Nat /\ w \in FullWrite
      /\ \A i \in DOMAIN q : q[i] \in FullWrite
  BY LenProperties, ElementOfSeq
<1>2. w.cell \in Cells /\ w.op \in Ops  BY <1>1 DEF FullWrite
<1>3. /\ \A c \in Cells : c # w.cell => new[c] = store[c]
      /\ w.op # "update" \/ store[w.cell] # Absent => new[w.cell] = Pending(w)
  BY <1>1, ExecutedWhole
<1> SUFFICES ASSUME NEW l \in DOMAIN q, LastBefore(q, l, p + 1)
             PROVE  new[q[l].cell] = Pending(q[l]) \/ HasDelete(q, q[l].cell, p + 1)
  BY DEF ExactOn
<1>4. q[l] \in FullWrite /\ q[l].cell \in Cells  BY <1>1 DEF FullWrite
<1>5. CASE q[l].cell # w.cell
  <2>1. l # p  BY <1>5
  <2>2. LastBefore(q, l, p)  BY <2>1, <1>1 DEF LastBefore
  <2>3. store[q[l].cell] = Pending(q[l]) \/ HasDelete(q, q[l].cell, p)
    BY <2>2 DEF ExactOn
  <2>4. ASSUME HasDelete(q, q[l].cell, p) PROVE HasDelete(q, q[l].cell, p + 1)
    BY <2>4, <1>5, <1>1 DEF HasDelete
  <2>. QED  BY <2>3, <2>4, <1>4, <1>5, <1>3
<1>6. CASE q[l].cell = w.cell
  <2>1. l = p
    <3>1. p <= l  BY <1>6, <1>1 DEF LastBefore
    <3>2. l < p + 1  BY DEF LastBefore
    <3>. QED  BY <3>1, <3>2, <1>1
  <2>2. CASE w.op # "update" \/ store[w.cell] # Absent  BY <2>1, <2>2, <1>3
  <2>3. CASE w.op = "update" /\ store[w.cell] = Absent
    <3>1. ASSUME HasDelete(q, w.cell, p) PROVE HasDelete(q, w.cell, p + 1)
      BY <3>1, <2>3, <1>1 DEF HasDelete
    <3>2. CASE \E i \in 1..(p - 1) : q[i].cell = w.cell
      <4> DEFINE b == SubSeq(q, 1, p - 1)
      <4>1. b \in Seq(FullWrite) /\ Len(b) = p - 1 /\ \A i \in 1..(p - 1) : b[i] = q[i]
        <5>1. \A i \in 1..(p - 1) : q[i] \in FullWrite  BY <1>1
        <5>2. p - 1 \in Int /\ 1 \in Int /\ p \in Nat /\ p >= 1  BY <1>1
        <5>3. /\ b \in Seq(FullWrite)
              /\ Len(b) = IF 1 <= p - 1 THEN (p - 1) - 1 + 1 ELSE 0
              /\ \A i \in 1..((p - 1) - 1 + 1) : b[i] = q[1 + i - 1]
          BY <5>1, <5>2, SubSeqProperties
        <5> HIDE DEF b
        <5>. QED  BY <5>2, <5>3
      <4> HIDE DEF b
      <4>2. DOMAIN b = 1..(p - 1)  BY <4>1, LenProperties
      <4>3. On(b, w.cell) # {}  BY <3>2, <4>1, <4>2 DEF On
      <4> DEFINE k == LastOn(b, w.cell)
      <4>4. IsLastOn(b, w.cell, k)  BY <4>1, <4>3, LastOnIsLast
      <4> HIDE DEF k
      <4>5. /\ k \in 1..(p - 1) /\ q[k].cell = w.cell
            /\ \A i \in 1..(p - 1) : q[i].cell = w.cell => i <= k
        BY <4>1, <4>2, <4>4 DEF IsLastOn, On
      <4>6. LastBefore(q, k, p) /\ k \in DOMAIN q /\ k < p
        BY <4>5, <1>1 DEF LastBefore
      <4>7. store[w.cell] = Pending(q[k]) \/ HasDelete(q, w.cell, p)
        BY <4>5, <4>6 DEF ExactOn
      <4>8. q[k].op # "delete"
        <5> SUFFICES ASSUME q[k].op = "delete" PROVE FALSE  OBVIOUS
        <5>1. PICK i \in DOMAIN q : k < i /\ i < p /\ q[i].cell = w.cell
          BY <4>5, <4>6, <2>3 DEF Reinserted
        <5>2. i \in 1..(p - 1)  BY <5>1, <1>1
        <5>. QED  BY <5>1, <5>2, <4>5, <1>1
      <4>9. q[k].row \in FullRow  BY <4>6, <1>1 DEF FullWrite
      <4>. QED  BY <4>7, <4>8, <4>9, <3>1, <2>1, <2>3, FullWriteIsWrite DEF Pending
    <3>3. CASE \A i \in 1..(p - 1) : q[i].cell # w.cell
      <4>1. IsFirst(q, p)  BY <3>3, <1>1 DEF IsFirst
      <4>2. HasDelete(q, w.cell, 1)  BY <4>1, <2>3 DEF GroundedOn
      <4>3. HasDelete(q, w.cell, p)  BY <4>2, <3>3, <1>1 DEF HasDelete
      <4>. QED  BY <4>3, <3>1, <2>1
    <3>. QED  BY <3>2, <3>3
  <2>. QED  BY <2>2, <2>3
<1>. QED  BY <1>5, <1>6

(* Executing a write the loop holds, with or without an answer, keeps what *)
(* is read, what would be read after a restart, and what is grounded.      *)
LEMMA ExecuteKeeps ==
  ASSUME DataTypeOK, QueueInv, phase # "down", pos \in DOMAIN draining,
         backend' = Executed(backend, draining[pos]),
         queue' = queue, file' = file, draining' = draining
  PROVE  /\ WholeRows'
         /\ MergePending(backend', queue) = MergePending(backend, queue)
         /\ MergePending(backend', file) = MergePending(backend, file)
         /\ Grounded(queue)' /\ Grounded(draining)' /\ Grounded(file)'
<1> DEFINE w == draining[pos]
<1>1. pos \in DOMAIN queue /\ queue[pos] = w /\ w \in FullWrite
  <2>1. DOMAIN queue = 1..Len(queue) /\ DOMAIN draining = 1..Len(draining)
        /\ Len(queue) \in Nat /\ Len(draining) \in Nat
    BY LenProperties DEF QueueInv, WholeRows
  <2>2. w \in FullWrite  BY <2>1, ElementOfSeq DEF QueueInv, WholeRows
  <2>. QED  BY <2>1, <2>2 DEF QueueInv, Prefix
<1>2. PICK f \in DOMAIN file : file[f] = w  BY <1>1 DEF QueueInv, QueueOnFile
<1>3. backend \in Store  BY DEF QueueInv, WholeRows
<1> HIDE DEF w
<1>4. backend' = Executed(backend, w)  BY DEF w
<1>5. /\ backend' \in Store
      /\ \A c \in Cells : c # w.cell => backend'[c] = backend[c]
      /\ w.op # "delete" /\ backend[w.cell] # Absent => backend'[w.cell] # Absent
  BY <1>1, <1>3, <1>4, ExecutedWhole
<1>6. ASSUME NEW q \in Seq(FullWrite), NEW i \in DOMAIN q, q[i] = w
      PROVE  /\ MergePending(backend', q) = MergePending(backend, q)
             /\ Grounded(q) => Grounded(q)'
  <2>1. i \in On(q, w.cell)  BY <1>6 DEF On
  <2>2. \A c \in Cells : On(q, c) = {} => backend'[c] = backend[c]  BY <1>5, <2>1
  <2>3. MergePending(backend', q) = MergePending(backend, q)  BY <2>2, MergeHidesBackend
  <2>4. ASSUME Grounded(q), NEW j \in DOMAIN q, q[j].op = "update", IsFirst(q, j)
        PROVE  backend'[q[j].cell] # Absent \/ HasDelete(q, q[j].cell, 1)
    <3>1. DOMAIN q = 1..Len(q) /\ q[j] \in FullWrite  BY LenProperties, ElementOfSeq
    <3>2. q[j].cell \in Cells  BY <3>1 DEF FullWrite
    <3>3. CASE HasDelete(q, q[j].cell, 1)  BY <3>3
    <3>4. CASE backend[q[j].cell] # Absent /\ q[j].cell # w.cell  BY <3>2, <3>4, <1>5
    <3>5. CASE backend[q[j].cell] # Absent /\ q[j].cell = w.cell /\ w.op # "delete"
      BY <3>5, <1>5
    <3>6. CASE q[j].cell = w.cell /\ w.op = "delete"
      <4>1. i >= 1  BY <3>1
      <4>. QED  BY <4>1, <3>6, <1>6 DEF HasDelete
    <3>. QED  BY <2>4, <3>3, <3>4, <3>5, <3>6 DEF Grounded
  <2>. QED  BY <2>3, <2>4 DEF Grounded
<1>7. draining \in Seq(FullWrite) /\ draining[pos] = w  BY DEF QueueInv, WholeRows, w
<1>8. queue \in Seq(FullWrite) /\ file \in Seq(FullWrite)  BY DEF QueueInv, WholeRows
<1>9. WholeRows'  BY <1>5, <1>7, <1>8 DEF WholeRows
<1>10. Grounded(queue)' /\ MergePending(backend', queue) = MergePending(backend, queue)
  BY <1>6, <1>1, <1>8 DEF QueueInv, Grounded
<1>11. Grounded(file)' /\ MergePending(backend', file) = MergePending(backend, file)
  BY <1>6, <1>2, <1>8 DEF QueueInv, Grounded
<1>12. Grounded(draining)'
  BY <1>6, <1>7 DEF QueueInv, Grounded
<1>. QED  BY <1>9, <1>10, <1>11, <1>12

(* Settling after a complete attempt keeps what is read: every cell the    *)
(* attempt wrote holds its last pending write, unless a later write to it  *)
(* is still queued.                                                        *)
LEMMA SettleKeeps ==
  ASSUME DataTypeOK, QueueInv, phase = "attempt", pos = Len(draining) + 1,
         NEW r, r = Remaining(queue, draining)
  PROVE  /\ r \in Seq(FullWrite)
         /\ \A i \in DOMAIN r : \E j \in DOMAIN queue : r[i] = queue[j]
         /\ MergePending(backend, r) = MergePending(backend, queue)
         /\ Reinserted(r) /\ Grounded(r)
<1> DEFINE d == Len(draining)
<1>1. /\ queue \in Seq(FullWrite) /\ Len(queue) \in Nat /\ DOMAIN queue = 1..Len(queue)
      /\ draining \in Seq(FullWrite) /\ d \in Nat /\ DOMAIN draining = 1..d
      /\ d <= Len(queue) /\ \A i \in 1..d : draining[i] = queue[i]
  BY LenProperties DEF QueueInv, WholeRows, Prefix
<1>2. \A i \in 1..Len(queue) : queue[i] \in FullWrite  BY <1>1, ElementOfSeq
<1>3. /\ r \in Seq(FullWrite) /\ Len(r) = Len(queue) - d
      /\ \A i \in 1..(Len(queue) - d) : r[i] = queue[i + d]
  <2>1. r = SubSeq(queue, d + 1, Len(queue))  BY DEF Remaining
  <2>2. \A i \in (d + 1)..Len(queue) : queue[i] \in FullWrite  BY <1>1, <1>2
  <2> HIDE DEF d
  <2>3. d + 1 \in Int /\ Len(queue) \in Int  BY <1>1
  <2>4. /\ SubSeq(queue, d + 1, Len(queue)) \in Seq(FullWrite)
        /\ Len(SubSeq(queue, d + 1, Len(queue)))
             = IF d + 1 <= Len(queue) THEN Len(queue) - (d + 1) + 1 ELSE 0
        /\ \A i \in 1..(Len(queue) - (d + 1) + 1) :
             SubSeq(queue, d + 1, Len(queue))[i] = queue[(d + 1) + i - 1]
    BY <2>2, <2>3, SubSeqProperties
  <2>5. d \in Nat /\ Len(queue) \in Nat /\ d <= Len(queue)  BY <1>1
  <2>6. Len(r) = Len(queue) - d
    <3> DEFINE n == Len(queue)
    <3>1. Len(r) = IF d + 1 <= n THEN n - (d + 1) + 1 ELSE 0  BY <2>1, <2>4
    <3>2. n \in Nat /\ d \in Nat /\ d <= n  BY <2>5
    <3> HIDE DEF n
    <3>3. Len(r) = n - d  BY <3>1, <3>2
    <3>. QED  BY <3>3 DEF n
  <2>7. ASSUME NEW i \in 1..(Len(queue) - d) PROVE r[i] = queue[i + d]
    <3>1. (d + 1) + i - 1 = i + d  BY <2>5
    <3>. QED  BY <2>1, <2>4, <2>5, <3>1
  <2>. QED  BY <2>1, <2>4, <2>6, <2>7
<1>4. DOMAIN r = 1..(Len(queue) - d)  BY <1>3, LenProperties
<1>5. \A l \in 1..d : LastBefore(draining, l, pos) => backend[draining[l].cell] = Pending(draining[l])
  <2>1. ASSUME NEW c PROVE ~HasDelete(draining, c, pos)  BY <1>1 DEF HasDelete
  <2>. QED  BY <1>1, <2>1 DEF QueueInv, AttemptExact
<1>6. \A l \in 1..d : (\A i \in 1..d : queue[i].cell = queue[l].cell => i <= l)
                        => backend[queue[l].cell] = Pending(queue[l])
  BY <1>5, <1>1 DEF LastBefore
<1> HIDE DEF d
<1>7. ASSUME NEW c \in Cells
      PROVE  MergePending(backend, r)[c] = MergePending(backend, queue)[c]
  <2>1. CASE On(r, c) # {}
    <3> DEFINE i == LastOn(r, c)
    <3>1. IsLastOn(r, c, i)  BY <2>1, <1>3, LastOnIsLast
    <3>2. i \in 1..(Len(queue) - d) /\ r[i].cell = c  BY <3>1, <1>4 DEF IsLastOn, On
    <3> HIDE DEF i
    <3>3. i + d \in On(queue, c)  BY <3>2, <1>1, <1>3 DEF On
    <3>4. \A j \in On(queue, c) : j <= i + d
      <4> TAKE j \in On(queue, c)
      <4>1. j \in 1..Len(queue) /\ queue[j].cell = c  BY <1>1 DEF On
      <4>2. CASE j <= d  BY <4>1, <4>2, <3>2, <1>1
      <4>3. CASE j > d
        <5>1. j - d \in 1..(Len(queue) - d) /\ (j - d) + d = j  BY <4>1, <4>3, <1>1
        <5>2. j - d \in On(r, c)  BY <5>1, <4>1, <1>3, <1>4 DEF On
        <5>. QED  BY <5>1, <5>2, <3>1, <3>2, <4>1, <1>1 DEF IsLastOn
      <4>. QED  BY <4>1, <4>2, <4>3, <1>1
    <3>5. IsLastOn(queue, c, i + d)  BY <3>3, <3>4 DEF IsLastOn
    <3>6. r[i] = queue[i + d]  BY <3>2, <1>3
    <3>. QED  BY <3>1, <3>5, <3>6, <1>1, <1>3, MergeValue
  <2>2. CASE On(r, c) = {} /\ On(queue, c) = {}  BY <2>2, <1>1, <1>3, MergeValue
  <2>3. CASE On(r, c) = {} /\ On(queue, c) # {}
    <3> DEFINE l == LastOn(queue, c)
    <3>1. IsLastOn(queue, c, l)  BY <2>3, <1>1, LastOnIsLast
    <3>2. l \in 1..Len(queue) /\ queue[l].cell = c  BY <3>1, <1>1 DEF IsLastOn, On
    <3> HIDE DEF l
    <3>3. l \in 1..d
      <4>1. SUFFICES ASSUME l > d PROVE FALSE  BY <3>2, <1>1
      <4>2. l - d \in 1..(Len(queue) - d) /\ (l - d) + d = l  BY <4>1, <3>2, <1>1
      <4>. QED  BY <4>2, <3>2, <1>3, <1>4, <2>3 DEF On
    <3>4. \A i \in 1..d : queue[i].cell = queue[l].cell => i <= l
      BY <3>1, <3>2, <1>1 DEF IsLastOn, On
    <3>5. backend[c] = Pending(queue[l])  BY <3>2, <3>3, <3>4, <1>6
    <3>. QED  BY <3>1, <3>5, <2>3, <1>1, <1>3, MergeValue
  <2>. QED  BY <2>1, <2>2, <2>3
<1>8. MergePending(backend, r) = MergePending(backend, queue)  BY <1>7 DEF MergePending
<1>9. Reinserted(r)
  <2> SUFFICES ASSUME NEW i \in DOMAIN r, NEW j \in DOMAIN r, i < j,
                      r[i].cell = r[j].cell, r[i].op = "delete", r[j].op = "update"
               PROVE  \E k \in DOMAIN r : i < k /\ k < j /\ r[k].cell = r[j].cell
                                          /\ r[k].op = "insert"
    BY DEF Reinserted
  <2>1. /\ i + d \in DOMAIN queue /\ j + d \in DOMAIN queue /\ i + d < j + d
        /\ r[i] = queue[i + d] /\ r[j] = queue[j + d]
    BY <1>1, <1>3, <1>4
  <2>2. PICK k \in DOMAIN queue : i + d < k /\ k < j + d
               /\ queue[k].cell = queue[j + d].cell /\ queue[k].op = "insert"
    BY <2>1 DEF QueueInv, Reinserted
  <2>3. k - d \in DOMAIN r /\ i < k - d /\ k - d < j /\ (k - d) + d = k
    BY <2>1, <2>2, <1>1, <1>4
  <2>4. r[k - d] = queue[k]  BY <2>3, <1>3, <1>4
  <2>. QED  BY <2>1, <2>2, <2>3, <2>4
<1>10. Grounded(r)
  <2> SUFFICES ASSUME NEW j \in DOMAIN r, r[j].op = "update", IsFirst(r, j)
               PROVE  backend[r[j].cell] # Absent \/ HasDelete(r, r[j].cell, 1)
    BY DEF Grounded
  <2> DEFINE c == r[j].cell
  <2>1. j \in 1..(Len(queue) - d) /\ j + d \in DOMAIN queue /\ r[j] = queue[j + d]
    BY <1>1, <1>3, <1>4
  <2>2. CASE \E i \in 1..d : queue[i].cell = c
    <3>1. On(draining, c) # {}  BY <2>2, <1>1 DEF On
    <3> DEFINE l == LastOn(draining, c)
    <3>2. IsLastOn(draining, c, l)  BY <3>1, <1>1, LastOnIsLast
    <3> HIDE DEF l
    <3>3. l \in 1..d /\ queue[l].cell = c /\ \A i \in 1..d : queue[i].cell = c => i <= l
      BY <3>2, <1>1 DEF IsLastOn, On
    <3>4. backend[c] = Pending(queue[l])  BY <3>3, <1>6
    <3>5. queue[l].op # "delete"
      <4> SUFFICES ASSUME queue[l].op = "delete" PROVE FALSE  OBVIOUS
      <4>1. l \in DOMAIN queue /\ l < j + d /\ queue[l].cell = queue[j + d].cell
            /\ queue[j + d].op = "update"
        BY <3>3, <2>1, <1>1
      <4>2. PICK k \in DOMAIN queue : l < k /\ k < j + d /\ queue[k].cell = c
        BY <4>1, <2>1 DEF QueueInv, Reinserted
      <4>3. CASE k <= d  BY <4>2, <4>3, <3>3, <1>1
      <4>4. CASE k > d
        <5>1. k - d \in DOMAIN r /\ k - d < j /\ (k - d) + d = k
          BY <4>2, <4>4, <2>1, <1>1, <1>4
        <5>2. r[k - d].cell = c  BY <5>1, <4>2, <1>3, <1>4
        <5>. QED  BY <5>1, <5>2, <2>1, <1>1 DEF IsFirst
      <4>. QED  BY <4>2, <4>3, <4>4, <1>1
    <3>6. queue[l].row \in FullRow  BY <3>3, <1>1, <1>2 DEF FullWrite
    <3>. QED  BY <3>4, <3>5, <3>6, FullWriteIsWrite DEF Pending
  <2>3. CASE \A i \in 1..d : queue[i].cell # c
    <3>1. IsFirst(queue, j + d)
      <4> SUFFICES ASSUME NEW i \in DOMAIN queue, queue[i].cell = c PROVE j + d <= i
        BY <2>1 DEF IsFirst
      <4>1. i > d  BY <2>3, <1>1
      <4>2. i - d \in DOMAIN r /\ (i - d) + d = i  BY <4>1, <1>1, <1>4
      <4>3. r[i - d].cell = c  BY <4>2, <1>3, <1>4
      <4>4. j <= i - d  BY <4>2, <4>3 DEF IsFirst
      <4>. QED  BY <4>2, <4>4, <2>1, <1>1, <1>4
    <3>2. backend[c] # Absent \/ HasDelete(queue, c, 1)
      BY <3>1, <2>1 DEF QueueInv, Grounded
    <3>3. ASSUME HasDelete(queue, c, 1) PROVE HasDelete(r, c, 1)
      <4>1. PICK k \in DOMAIN queue : queue[k].cell = c /\ queue[k].op = "delete"
        BY <3>3 DEF HasDelete
      <4>2. k - d \in DOMAIN r /\ k - d >= 1 /\ (k - d) + d = k  BY <4>1, <2>3, <1>1, <1>4
      <4>3. r[k - d] = queue[k]  BY <4>2, <1>3, <1>4
      <4>. QED  BY <4>1, <4>2, <4>3 DEF HasDelete
    <3>. QED  BY <3>2, <3>3
  <2>. QED  BY <2>2, <2>3
<1>11. \A i \in DOMAIN r : \E j \in DOMAIN queue : r[i] = queue[j]
  <2> TAKE i \in DOMAIN r
  <2>1. i + d \in DOMAIN queue /\ r[i] = queue[i + d]  BY <1>1, <1>3, <1>4
  <2>. QED  BY <2>1
<1>. QED  BY <1>3, <1>8, <1>9, <1>10, <1>11

(* An admissible write at the end of a queue keeps it an admissible queue. *)
LEMMA EnqueueKeeps ==
  ASSUME DataTypeOK, QueueInv, phase # "down", Careful,
         NEW w \in Write, Admissible(w), NEW r, r = Append(queue, w)
  PROVE  /\ w \in FullWrite /\ r \in Seq(FullWrite)
         /\ Prefix(draining, r) /\ Reinserted(r) /\ Grounded(r)
<1>1. /\ queue \in Seq(FullWrite) /\ Len(queue) \in Nat /\ DOMAIN queue = 1..Len(queue)
      /\ draining \in Seq(FullWrite) /\ DOMAIN draining = 1..Len(draining)
      /\ Len(draining) \in Nat
  BY LenProperties DEF QueueInv, WholeRows
<1>2. w \in FullWrite
  <2>1. w.op = "insert" => w.row \in FullRow  BY DEF Admissible
  <2>2. w.op = "update" => w.row \in FullRow  BY DEF Admissible, Careful
  <2>3. w.op = "delete" => w.row \in FullRow  BY DEF Admissible
  <2>. QED  BY <2>1, <2>2, <2>3 DEF Write, FullWrite, Ops
<1>3. /\ r \in Seq(FullWrite) /\ Len(r) = Len(queue) + 1 /\ r[Len(queue) + 1] = w
      /\ \A i \in 1..Len(queue) : r[i] = queue[i]
  BY <1>1, <1>2
<1> DEFINE n == Len(queue)
<1>4. DOMAIN r = 1..(n + 1)  BY <1>3, LenProperties
<1>5. Prefix(draining, r)  BY <1>1, <1>3 DEF QueueInv, Prefix
<1>6. w.cell \in Cells  BY DEF Write
<1>7. w.op = "update" => MergePending(backend, queue)[w.cell] # Absent
  BY DEF Admissible, ReadView
<1> HIDE DEF n
<1>8. n \in Nat /\ DOMAIN queue = 1..n /\ r[n + 1] = w /\ \A i \in 1..n : r[i] = queue[i]
  BY <1>1, <1>3 DEF n
<1>9. Reinserted(r)
  <2> SUFFICES ASSUME NEW i \in DOMAIN r, NEW j \in DOMAIN r, i < j,
                      r[i].cell = r[j].cell, r[i].op = "delete", r[j].op = "update"
               PROVE  \E k \in DOMAIN r : i < k /\ k < j /\ r[k].cell = r[j].cell
                                          /\ r[k].op = "insert"
    BY DEF Reinserted
  <2>0. i \in 1..n /\ r[i] = queue[i]  BY <1>4, <1>8
  <2>1. CASE j \in 1..n
    <3>1. r[j] = queue[j]  BY <2>1, <1>8
    <3>2. PICK k \in DOMAIN queue : i < k /\ k < j /\ queue[k].cell = queue[j].cell
                                    /\ queue[k].op = "insert"
      BY <3>1, <2>0, <2>1, <1>8 DEF QueueInv, Reinserted
    <3>. QED  BY <3>1, <3>2, <1>4, <1>8
  <2>2. CASE j = n + 1
    <3> DEFINE l == LastOn(queue, w.cell)
    <3>0. r[j] = w  BY <2>2, <1>8
    <3>1. On(queue, w.cell) # {}  BY <3>0, <2>0, <1>8 DEF On
    <3>2. IsLastOn(queue, w.cell, l)  BY <3>1, <1>1, LastOnIsLast
    <3> HIDE DEF l
    <3>3. l \in 1..n /\ queue[l].cell = w.cell /\ i <= l
      BY <3>0, <3>2, <2>0, <1>8 DEF IsLastOn, On
    <3>4. Pending(queue[l]) # Absent  BY <3>0, <3>2, <1>1, <1>6, <1>7, MergeValue
    <3>5. queue[l].op # "delete"  BY <3>4 DEF Pending
    <3>6. queue[l].op \in Ops
      <4>1. l \in 1..Len(queue)  BY <3>3 DEF n
      <4>2. queue[l] \in FullWrite  BY <4>1, <1>1, ElementOfSeq
      <4>. QED  BY <4>2 DEF FullWrite
    <3>7. i < l  BY <3>3, <3>5, <2>0
    <3>8. CASE queue[l].op = "insert"
      <4>1. l \in DOMAIN r /\ l < j /\ r[l] = queue[l]  BY <3>3, <2>2, <1>4, <1>8
      <4>. QED  BY <4>1, <3>0, <3>3, <3>7, <3>8
    <3>9. CASE queue[l].op = "update"
      <4>1. PICK k \in DOMAIN queue : i < k /\ k < l /\ queue[k].cell = queue[l].cell
                                      /\ queue[k].op = "insert"
        BY <3>0, <3>3, <3>7, <3>9, <2>0, <1>8 DEF QueueInv, Reinserted
      <4>2. k \in DOMAIN r /\ k < j /\ r[k] = queue[k]  BY <4>1, <3>3, <2>2, <1>4, <1>8
      <4>. QED  BY <4>1, <4>2, <3>0, <3>3
    <3>. QED  BY <3>5, <3>6, <3>8, <3>9 DEF Ops
  <2>. QED  BY <2>1, <2>2, <1>4, <1>8
<1>10. Grounded(r)
  <2> SUFFICES ASSUME NEW j \in DOMAIN r, r[j].op = "update", IsFirst(r, j)
               PROVE  backend[r[j].cell] # Absent \/ HasDelete(r, r[j].cell, 1)
    BY DEF Grounded
  <2>1. CASE j \in 1..n
    <3>1. r[j] = queue[j]  BY <2>1, <1>8
    <3>2. IsFirst(queue, j)  BY <3>1, <2>1, <1>4, <1>8 DEF IsFirst
    <3>3. backend[r[j].cell] # Absent \/ HasDelete(queue, r[j].cell, 1)
      BY <3>1, <3>2, <2>1, <1>8 DEF QueueInv, Grounded
    <3>4. ASSUME HasDelete(queue, r[j].cell, 1) PROVE HasDelete(r, r[j].cell, 1)
      <4>1. PICK k \in DOMAIN queue : queue[k].cell = r[j].cell /\ queue[k].op = "delete"
        BY <3>4 DEF HasDelete
      <4>2. k \in DOMAIN r /\ r[k] = queue[k] /\ k >= 1  BY <4>1, <1>4, <1>8
      <4>. QED  BY <4>1, <4>2 DEF HasDelete
    <3>. QED  BY <3>3, <3>4
  <2>2. CASE j = n + 1
    <3>1. r[j] = w  BY <2>2, <1>8
    <3>2. On(queue, w.cell) = {}
      <4> SUFFICES ASSUME NEW i \in DOMAIN queue, queue[i].cell = w.cell PROVE FALSE
        BY DEF On
      <4>1. i \in DOMAIN r /\ r[i].cell = r[j].cell /\ i < j  BY <3>1, <2>2, <1>4, <1>8
      <4>. QED  BY <4>1, <2>2, <1>8 DEF IsFirst
    <3>3. MergePending(backend, queue)[w.cell] = backend[w.cell]
      BY <3>2, <1>1, <1>6, MergeValue
    <3>. QED  BY <3>1, <3>3, <1>7
  <2>. QED  BY <2>1, <2>2, <1>4, <1>8
<1>. QED  BY <1>2, <1>3, <1>5, <1>9, <1>10

-----------------------------------------------------------------------------
(* QueueInv is inductive.                                                  *)
LEMMA QueueInvInit == Init => QueueInv
<1> SUFFICES ASSUME Init PROVE QueueInv  OBVIOUS
<1>1. queue = << >> /\ file = << >> /\ draining = << >> /\ phase = "idle"
  BY DEF Init, EmptyQueue
<1>2. << >> \in Seq(FullWrite) /\ Len(<< >>) = 0  BY EmptySeq
<1>3. DOMAIN queue = {} /\ DOMAIN file = {} /\ DOMAIN draining = {}
  BY <1>1
<1>4. WholeRows  BY <1>1, <1>2 DEF Init, WholeRows
<1>5. Recoverable  BY <1>1 DEF Recoverable, LoadedView, ReadView
<1>6. Prefix(draining, queue)  BY <1>1, <1>2, <1>3 DEF Prefix
<1>. QED  BY <1>1, <1>3, <1>4, <1>5, <1>6
          DEF QueueInv, QueueOnFile, Reinserted, Grounded, AttemptExact

(* One execute of an attempt.                                              *)
LEMMA QueueInvExecute ==
  ASSUME DataTypeOK, QueueInv, ExecuteWrite PROVE QueueInv'
<1>1. /\ phase = "attempt" /\ pos \in DOMAIN draining /\ pos' = pos + 1
      /\ backend' = Executed(backend, draining[pos]) /\ phase' = phase
      /\ queue' = queue /\ file' = file /\ draining' = draining
      /\ ~Refused(backend, draining[pos])
  BY DEF ExecuteWrite
<1>2. /\ WholeRows' /\ Grounded(queue)' /\ Grounded(draining)' /\ Grounded(file)'
      /\ MergePending(backend', queue) = MergePending(backend, queue)
      /\ MergePending(backend', file) = MergePending(backend, file)
  BY <1>1, ExecuteKeeps
<1>3. Recoverable'
  BY <1>1, <1>2 DEF QueueInv, Recoverable, LoadedView, ReadView
<1>4. Reinserted(draining)
  <2>1. \A i \in DOMAIN draining : i \in DOMAIN queue /\ draining[i] = queue[i]
    <3>1. queue \in Seq(FullWrite) /\ draining \in Seq(FullWrite)
      BY DEF QueueInv, WholeRows
    <3>. QED  BY <3>1, LenProperties DEF QueueInv, Prefix
  <2> SUFFICES ASSUME NEW i \in DOMAIN draining, NEW j \in DOMAIN draining,
                      i < j, draining[i].cell = draining[j].cell,
                      draining[i].op = "delete", draining[j].op = "update"
               PROVE  \E k \in DOMAIN draining : /\ i < k /\ k < j
                                                 /\ draining[k].cell = draining[j].cell
                                                 /\ draining[k].op = "insert"
    BY DEF Reinserted
  <2>2. PICK k \in DOMAIN queue : /\ i < k /\ k < j
                                  /\ queue[k].cell = queue[j].cell /\ queue[k].op = "insert"
    BY <2>1 DEF QueueInv, Reinserted
  <2>3. k \in DOMAIN draining
    <3>1. /\ DOMAIN queue = 1..Len(queue) /\ DOMAIN draining = 1..Len(draining)
          /\ Len(queue) \in Nat /\ Len(draining) \in Nat
      BY LenProperties DEF QueueInv, WholeRows
    <3>. QED  BY <3>1, <2>2
  <2>. QED  BY <2>1, <2>2, <2>3
<1>5. AttemptExact'
  <2>1. backend \in Store /\ draining \in Seq(FullWrite)  BY DEF QueueInv, WholeRows
  <2>2. GroundedOn(backend, draining)  BY DEF QueueInv, Grounded, GroundedOn
  <2>3. ExactOn(backend, draining, pos)  BY <1>1 DEF QueueInv, AttemptExact, ExactOn
  <2>4. ExactOn(backend', draining, pos + 1)  BY <1>1, <1>4, <2>1, <2>2, <2>3, ExactStep
  <2>. QED  BY <1>1, <2>4 DEF ExactOn, AttemptExact
<1>. QED  BY <1>1, <1>2, <1>3, <1>5 DEF QueueInv, QueueOnFile, Reinserted, Prefix

(* Every step of the specification keeps QueueInv.                         *)
LEMMA QueueInvStep ==
  ASSUME Careful, DataTypeOK, QueueInv, [Next]_vars PROVE QueueInv'
<1> USE DEF EmptyQueue
<1>0. << >> \in Seq(FullWrite) /\ Len(<< >>) = 0 /\ DOMAIN << >> = {}  BY EmptySeq
<1>1. ASSUME NEW op \in Ops, NEW cell \in Cells, NEW row \in Row,
             EnqueueDurable(op, cell, row)
      PROVE  QueueInv'
  <2> DEFINE w == [op |-> op, cell |-> cell, row |-> row]
  <2>1. w \in Write  BY DEF Write
  <2>2. /\ phase # "down" /\ Admissible(w) /\ queue' = Append(queue, w) /\ file' = queue'
        /\ backend' = backend /\ phase' = phase /\ draining' = draining /\ pos' = pos
    BY <1>1 DEF EnqueueDurable, EnqueueWrite, loopVars
  <2> HIDE DEF w
  <2>3. /\ queue' \in Seq(FullWrite)
        /\ Prefix(draining, queue') /\ Reinserted(queue') /\ Grounded(queue')
    BY <2>1, <2>2, EnqueueKeeps
  <2>4. WholeRows'  BY <2>2, <2>3 DEF QueueInv, WholeRows
  <2>5. Recoverable'  BY <2>2 DEF Recoverable, LoadedView, ReadView
  <2>6. Grounded(queue)' /\ Grounded(file)' /\ Grounded(draining)'
    BY <2>2, <2>3 DEF QueueInv, Grounded
  <2>7. Reinserted(queue)' /\ Reinserted(file)'  BY <2>2, <2>3 DEF Reinserted
  <2>9. Prefix(draining, queue)'  BY <2>2, <2>3 DEF Prefix
  <2>10. QueueOnFile'  BY <2>2 DEF QueueOnFile
  <2>8. AttemptExact'  BY <2>2 DEF QueueInv, AttemptExact
  <2>. QED  BY <2>2, <2>4, <2>5, <2>6, <2>7, <2>8, <2>9, <2>10 DEF QueueInv
<1>2. ASSUME NEW op \in Ops, NEW cell \in Cells, NEW row \in Row,
             CrashWhileSaving(op, cell, row)
      PROVE  QueueInv'
  BY <1>2 DEF CrashWhileSaving, Careful
<1>3. CASE StartLoop
  <2>1. /\ draining' = queue /\ queue' = queue /\ file' = file /\ backend' = backend
        /\ phase' = "attempt" /\ pos' = 1 /\ phase # "down"
    BY <1>3 DEF StartLoop
  <2>2. WholeRows'  BY <2>1 DEF QueueInv, WholeRows
  <2>3. Recoverable'  BY <2>1 DEF QueueInv, Recoverable, LoadedView, ReadView
  <2>4. AttemptExact'
    <3>1. queue \in Seq(FullWrite)  BY DEF QueueInv, WholeRows
    <3>2. \A l \in DOMAIN queue : ~ (l < 1)  BY <3>1, LenProperties
    <3>. QED  BY <2>1, <3>2 DEF AttemptExact, LastBefore
  <2>5. Prefix(draining, queue)'
    <3>1. queue \in Seq(FullWrite)  BY DEF QueueInv, WholeRows
    <3>. QED  BY <2>1, <3>1, LenProperties DEF Prefix
  <2>6. Grounded(draining)' /\ Grounded(queue)' /\ Grounded(file)'
    BY <2>1 DEF QueueInv, Grounded
  <2>. QED  BY <2>1, <2>2, <2>3, <2>4, <2>5, <2>6 DEF QueueInv, QueueOnFile, Reinserted
<1>4. CASE ExecuteWrite
  BY <1>4, QueueInvExecute
<1>5. CASE ExecuteRaises
  <2>1. /\ phase = "attempt" /\ pos \in DOMAIN draining /\ phase' \in {"raised", "sleeping"}
        /\ queue' = queue /\ file' = file /\ draining' = draining
    BY <1>5 DEF ExecuteRaises, AttemptFailed
  <2>2. AttemptExact'  BY <2>1 DEF AttemptExact
  <2>3. CASE backend' = backend
    <3>1. WholeRows' /\ Recoverable'
      BY <2>1, <2>3 DEF QueueInv, WholeRows, Recoverable, LoadedView, ReadView
    <3>. QED  BY <2>1, <2>2, <2>3, <3>1
              DEF QueueInv, QueueOnFile, Reinserted, Grounded, Prefix
  <2>4. CASE backend' = Executed(backend, draining[pos])
    <3>1. /\ WholeRows' /\ Grounded(queue)' /\ Grounded(draining)' /\ Grounded(file)'
          /\ MergePending(backend', queue) = MergePending(backend, queue)
          /\ MergePending(backend', file) = MergePending(backend, file)
      BY <2>1, <2>4, ExecuteKeeps
    <3>2. Recoverable'
      BY <2>1, <3>1 DEF QueueInv, Recoverable, LoadedView, ReadView
    <3>. QED  BY <2>1, <2>2, <3>1, <3>2 DEF QueueInv, QueueOnFile, Reinserted, Prefix
  <2>. QED  BY <1>5, <2>3, <2>4 DEF ExecuteRaises
<1>6. CASE Wake
  <2>1. /\ draining' = draining /\ queue' = queue /\ file' = file /\ backend' = backend
        /\ phase' = "attempt" /\ pos' = 1 /\ phase # "down"
    BY <1>6 DEF Wake
  <2>2. WholeRows' /\ Recoverable'
    BY <2>1 DEF QueueInv, WholeRows, Recoverable, LoadedView, ReadView
  <2>3. AttemptExact'
    <3>1. draining \in Seq(FullWrite)  BY DEF QueueInv, WholeRows
    <3>2. \A l \in DOMAIN draining : ~ (l < 1)  BY <3>1, LenProperties
    <3>. QED  BY <2>1, <3>2 DEF AttemptExact, LastBefore
  <2>. QED  BY <2>1, <2>2, <2>3 DEF QueueInv, QueueOnFile, Reinserted, Grounded, Prefix
<1>7. CASE LoopReturns
  <2>1. /\ phase = "attempt" /\ pos = Len(draining) + 1 /\ phase' = "idle"
        /\ queue' = Remaining(queue, draining) /\ draining' = << >>
        /\ file' = file /\ backend' = backend
    BY <1>7 DEF LoopReturns
  <2>2. /\ queue' \in Seq(FullWrite)
        /\ \A i \in DOMAIN queue' : \E j \in DOMAIN queue : queue'[i] = queue[j]
        /\ MergePending(backend, queue') = MergePending(backend, queue)
        /\ Reinserted(queue') /\ Grounded(queue')
    BY <2>1, SettleKeeps
  <2>3. WholeRows'  BY <2>1, <2>2, <1>0 DEF QueueInv, WholeRows
  <2>4. Recoverable'  BY <2>1, <2>2 DEF QueueInv, Recoverable, LoadedView, ReadView
  <2>5. QueueOnFile'  BY <2>1, <2>2 DEF QueueInv, QueueOnFile
  <2>6. Prefix(draining, queue)'
    <3>1. Len(queue') \in Nat  BY <2>2, LenProperties
    <3>. QED  BY <2>1, <3>1, <1>0 DEF Prefix
  <2>7. Grounded(queue)' /\ Grounded(file)' /\ Grounded(draining)'
    BY <2>1, <2>2, <1>0 DEF QueueInv, Grounded
  <2>8. Reinserted(queue)' /\ Reinserted(file)'
    BY <2>1, <2>2 DEF QueueInv, Reinserted
  <2>9. AttemptExact'  BY <2>1 DEF AttemptExact
  <2>. QED  BY <2>1, <2>3, <2>4, <2>5, <2>6, <2>7, <2>8, <2>9 DEF QueueInv
<1>8. CASE Tick \/ Outage \/ Recovery \/ UNCHANGED vars
  <2>1. /\ draining' = draining /\ queue' = queue /\ file' = file /\ backend' = backend
        /\ phase' = phase /\ pos' = pos
    BY <1>8 DEF Tick, Outage, Recovery, vars, loopVars
  <2>2. WholeRows' /\ Recoverable'
    BY <2>1 DEF QueueInv, WholeRows, Recoverable, LoadedView, ReadView
  <2>. QED  BY <2>1, <2>2
            DEF QueueInv, QueueOnFile, Reinserted, Grounded, Prefix, AttemptExact
<1>9. CASE Crash
  <2>1. /\ draining' = << >> /\ queue' = << >> /\ file' = file /\ backend' = backend
        /\ phase' = "down"
    BY <1>9 DEF Crash, ProcessGone
  <2>2. WholeRows'  BY <2>1, <1>0 DEF QueueInv, WholeRows
  <2>3. Recoverable' /\ AttemptExact'  BY <2>1 DEF Recoverable, AttemptExact
  <2>. QED  BY <2>1, <2>2, <2>3, <1>0 DEF QueueInv, QueueOnFile, Reinserted, Grounded, Prefix
<1>10. CASE Restart
  <2>1. /\ draining' = draining /\ queue' = file /\ file' = file /\ backend' = backend
        /\ phase = "down" /\ phase' = "idle"
    BY <1>10 DEF Restart, loopVars
  <2>2. WholeRows'  BY <2>1 DEF QueueInv, WholeRows
  <2>3. Recoverable' /\ AttemptExact'
    BY <2>1 DEF Recoverable, LoadedView, ReadView, AttemptExact
  <2>4. Prefix(draining, queue)'
    <3>1. queue = << >> /\ Len(draining) <= 0  BY <2>1, <1>0 DEF QueueInv, Prefix
    <3>2. /\ draining \in Seq(FullWrite) /\ file \in Seq(FullWrite)  BY DEF QueueInv, WholeRows
    <3>3. DOMAIN draining = 1..Len(draining) /\ Len(draining) = 0 /\ Len(file) \in Nat
      BY <3>1, <3>2, LenProperties
    <3>. QED  BY <2>1, <3>3 DEF Prefix
  <2>5. Grounded(queue)' /\ Grounded(file)' /\ Grounded(draining)'
    BY <2>1 DEF QueueInv, Grounded
  <2>. QED  BY <2>1, <2>2, <2>3, <2>4, <2>5 DEF QueueInv, QueueOnFile, Reinserted
<1>. QED
  BY <1>1, <1>2, <1>3, <1>4, <1>5, <1>6, <1>7, <1>8, <1>9, <1>10 DEF Next

(* Whatever fails, retries, crashes or restarts, the file alone recovers   *)
(* what the application reads, for every instance of the constants.        *)
THEOREM AlwaysRecoverable ==
  ASSUME Careful PROVE Spec => []Recoverable
<1>1. Spec => []DataTypeOK  BY DataTypeCorrect
<1>2. Init => QueueInv  BY QueueInvInit
<1>3. DataTypeOK /\ QueueInv /\ [Next]_vars => QueueInv'  BY Careful, QueueInvStep
<1>4. QueueInv => Recoverable  BY DEF QueueInv
<1>. QED  BY <1>1, <1>2, <1>3, <1>4, PTL DEF Spec

\* what ReadsTransparent says of a step
Transparent ==
  \/ UNCHANGED ReadView
  \/ \E op \in Ops, cell \in Cells, row \in Row :
       LET w == [op |-> op, cell |-> cell, row |-> row]
       IN Made(w) /\ Abstract!Write(cell, Pending(w))

(* An enqueue is the write it makes to the abstract store, and no other    *)
(* step of the system can be seen.                                         *)
LEMMA StepIsAbstract ==
  ASSUME Careful, DataTypeOK, QueueInv, [Next]_vars
  PROVE  Transparent
<1>1. ASSUME NEW op \in Ops, NEW cell \in Cells, NEW row \in Row,
             EnqueueDurable(op, cell, row)
      PROVE  Transparent
  <2> DEFINE w == [op |-> op, cell |-> cell, row |-> row]
  <2>1. w \in Write /\ w.cell = cell /\ w.op = op /\ w.row = row  BY DEF Write
  <2>2. /\ phase # "down" /\ queue' = Append(queue, w)
        /\ backend' = backend /\ phase' = phase
    BY <1>1 DEF EnqueueDurable, EnqueueWrite, loopVars
  <2>3. Made(w)  BY <1>1, <2>1 DEF Made
  <2>4. queue \in Seq(Write)  BY DEF DataTypeOK
  <2>5. ReadView' = [ReadView EXCEPT ![cell] = Pending(w)]
    <3> HIDE DEF w
    <3>. QED  BY <2>1, <2>2, <2>4, MergeAppend DEF ReadView
  <2>6. Abstract!Write(cell, Pending(w))  BY <2>5 DEF Abstract!Write
  <2>. QED  BY <2>3, <2>6 DEF Transparent
<1>2. ASSUME NEW op \in Ops, NEW cell \in Cells, NEW row \in Row,
             CrashWhileSaving(op, cell, row)
      PROVE  FALSE
  BY <1>2 DEF CrashWhileSaving, Careful
<1>3. CASE StartLoop \/ Wake \/ Tick \/ Outage \/ Recovery \/ UNCHANGED vars
  <2>1. queue' = queue /\ backend' = backend /\ file' = file
        /\ (phase' = phase \/ (phase # "down" /\ phase' # "down"))
    BY <1>3 DEF StartLoop, Wake, Tick, Outage, Recovery, vars
  <2>. QED  BY <2>1 DEF ReadView, Transparent
<1>4. CASE ExecuteWrite \/ ExecuteRaises
  <2>1. /\ phase = "attempt" /\ pos \in DOMAIN draining /\ phase' # "down"
        /\ queue' = queue /\ file' = file /\ draining' = draining
        /\ backend' = backend \/ backend' = Executed(backend, draining[pos])
    BY <1>4 DEF ExecuteWrite, ExecuteRaises, AttemptFailed
  <2>2. MergePending(backend', queue) = MergePending(backend, queue)
    BY <2>1, ExecuteKeeps
  <2>. QED  BY <2>1, <2>2 DEF ReadView, Transparent
<1>5. CASE LoopReturns
  <2>1. /\ phase = "attempt" /\ pos = Len(draining) + 1 /\ phase' = "idle"
        /\ queue' = Remaining(queue, draining) /\ backend' = backend
    BY <1>5 DEF LoopReturns
  <2>2. MergePending(backend, queue') = MergePending(backend, queue)
    BY <2>1, SettleKeeps
  <2>. QED  BY <2>1, <2>2 DEF ReadView, Transparent
<1>6. CASE Crash
  <2>1. phase # "down" /\ phase' = "down" /\ file' = file /\ backend' = backend
    BY <1>6 DEF Crash, ProcessGone
  <2>. QED  BY <2>1 DEF QueueInv, Recoverable, LoadedView, ReadView, Transparent
<1>7. CASE Restart
  <2>1. phase = "down" /\ phase' = "idle" /\ queue' = file /\ backend' = backend
    BY <1>7 DEF Restart
  <2>. QED  BY <2>1 DEF ReadView, Transparent
<1>. QED  BY <1>1, <1>2, <1>3, <1>4, <1>5, <1>6, <1>7 DEF Next

(* Reads change when the application writes, by that write alone, and in   *)
(* no other step, for every application that updates whole rows and every  *)
(* run in which no crash tears a save.                                     *)
THEOREM ReadsAlwaysTransparent ==
  ASSUME Careful PROVE Spec => ReadsTransparent
<1>1. Init => Abstract!Init
  <2> SUFFICES ASSUME Init PROVE ReadView \in [Cells -> Row \cup {Absent}]
    BY DEF Abstract!Init
  <2>1. queue = << >> /\ phase = "idle" /\ backend \in Store  BY DEF Init, EmptyQueue
  <2>2. \A c \in Cells : On(queue, c) = {}  BY <2>1 DEF On
  <2>3. FullRow \subseteq Row  BY DEF FullRow, Row
  <2>. QED  BY <2>1, <2>2, <2>3 DEF ReadView, MergePending, Store
<1>2. Spec => []DataTypeOK  BY DataTypeCorrect
<1>3. Init => QueueInv  BY QueueInvInit
<1>4. DataTypeOK /\ QueueInv /\ [Next]_vars => QueueInv'  BY Careful, QueueInvStep
<1>5. DataTypeOK /\ QueueInv /\ [Next]_vars => Transparent  BY Careful, StepIsAbstract
<1>6. Spec => [][Transparent]_vars  BY <1>2, <1>3, <1>4, <1>5, PTL DEF Spec
<1>. QED  BY <1>1, <1>6, PTL DEF Spec, ReadsTransparent, Transparent

-----------------------------------------------------------------------------
(* The drain of a queue is what its executes leave, one after the other.   *)
LEMMA DrainIterates ==
  ASSUME NEW S, NEW q \in Seq(S), NEW store
  PROVE  /\ Drain(store, q)[0] = store
         /\ \A n \in 1..Len(q) :
              Drain(store, q)[n] = Executed(Drain(store, q)[n - 1], q[n])
<1> DEFINE m == Len(q)
           Step(a, n) == Executed(a, q[n])
           F == CHOOSE f : f = [n \in 0..m |-> IF n = 0 THEN store ELSE Step(f[n - 1], n)]
           T == {k \in Nat : \E h : /\ DOMAIN h = 0..k /\ h[0] = store
                                    /\ \A n \in 1..k : h[n] = Step(h[n - 1], n)}
<1>1. m \in Nat  BY LenProperties
<1>2. Drain(store, q) = F  BY DEF Drain
<1> HIDE DEF Step
<1>3. 0 \in T
  <2> DEFINE g == [i \in 0..0 |-> store]
  <2>1. DOMAIN g = 0..0 /\ g[0] = store  OBVIOUS
  <2>2. \A n \in 1..0 : g[n] = Step(g[n - 1], n)  OBVIOUS
  <2> HIDE DEF g
  <2>. QED  BY <2>1, <2>2
<1>4. ASSUME NEW k \in Nat, k \in T PROVE k + 1 \in T
  <2>1. PICK h : /\ DOMAIN h = 0..k /\ h[0] = store
                 /\ \A n \in 1..k : h[n] = Step(h[n - 1], n)
    BY <1>4
  <2> DEFINE g == [n \in 0..k + 1 |-> IF n = k + 1 THEN Step(h[k], k + 1) ELSE h[n]]
  <2>2. DOMAIN g = 0..k + 1 /\ g[0] = store  BY <2>1
  <2>3. ASSUME NEW n \in 1..k + 1 PROVE g[n] = Step(g[n - 1], n)
    <3>1. g[n - 1] = h[n - 1]  OBVIOUS
    <3>2. CASE n = k + 1  BY <3>1, <3>2
    <3>3. CASE n \in 1..k  BY <2>1, <3>1, <3>3
    <3>. QED  BY <3>2, <3>3
  <2> HIDE DEF g
  <2>. QED  BY <2>2, <2>3
<1>5. Nat \subseteq T
  <2> HIDE DEF T
  <2>. QED  BY ONLY SetInduction, <1>3, <1>4
<1>6. PICK h : /\ DOMAIN h = 0..m /\ h[0] = store
               /\ \A n \in 1..m : h[n] = Step(h[n - 1], n)
  BY <1>1, <1>5
<1> DEFINE j == [n \in 0..m |-> h[n]]
<1>7. j = [n \in 0..m |-> IF n = 0 THEN store ELSE Step(j[n - 1], n)]
  <2>1. ASSUME NEW n \in 0..m PROVE j[n] = IF n = 0 THEN store ELSE Step(j[n - 1], n)
    <3>1. CASE n = 0  BY <1>6, <3>1
    <3>2. CASE n # 0
      <4>1. n \in 1..m /\ n - 1 \in 0..m  BY <1>1, <3>2
      <4>. QED  BY <1>6, <3>2, <4>1
    <3>. QED  BY <3>1, <3>2
  <2>. QED  BY <2>1
<1>8. F = [n \in 0..m |-> IF n = 0 THEN store ELSE Step(F[n - 1], n)]
  <2> HIDE DEF m, j
  <2>. QED  BY <1>7
<1> HIDE DEF F
<1>9. F[0] = store  BY <1>1, <1>8
<1>10. ASSUME NEW n \in 1..m PROVE F[n] = Step(F[n - 1], n)
  <2>1. n \in 0..m /\ n # 0  BY <1>1
  <2>. QED  BY <1>8, <2>1
<1>. QED  BY <1>2, <1>9, <1>10 DEF Step

(* The rows a queue's updates need stay there while it is executed.        *)
LEMMA GroundedStep ==
  ASSUME NEW store \in Store, NEW q \in Seq(FullWrite), NEW i \in DOMAIN q,
         GroundedOn(store, q), NEW new, new = Executed(store, q[i])
  PROVE  GroundedOn(new, q)
<1> DEFINE w == q[i]
<1>1. DOMAIN q = 1..Len(q) /\ \A j \in DOMAIN q : q[j] \in FullWrite /\ q[j].cell \in Cells
  <2>1. DOMAIN q = 1..Len(q)  BY LenProperties
  <2>2. \A j \in DOMAIN q : q[j] \in FullWrite  BY <2>1, ElementOfSeq
  <2>. QED  BY <2>1, <2>2 DEF FullWrite
<1>2. /\ \A c \in Cells : c # w.cell => new[c] = store[c]
      /\ w.op # "delete" /\ store[w.cell] # Absent => new[w.cell] # Absent
  BY <1>1, ExecutedWhole
<1> SUFFICES ASSUME NEW j \in DOMAIN q, q[j].op = "update", IsFirst(q, j)
             PROVE  new[q[j].cell] # Absent \/ HasDelete(q, q[j].cell, 1)
  BY DEF GroundedOn
<1>3. CASE HasDelete(q, q[j].cell, 1)  BY <1>3
<1>4. CASE store[q[j].cell] # Absent /\ q[j].cell # w.cell  BY <1>1, <1>2, <1>4
<1>5. CASE store[q[j].cell] # Absent /\ q[j].cell = w.cell /\ w.op # "delete"
  BY <1>2, <1>5
<1>6. CASE q[j].cell = w.cell /\ w.op = "delete"
  <2>1. i >= 1  BY <1>1
  <2>. QED  BY <2>1, <1>6 DEF HasDelete
<1>. QED  BY <1>3, <1>4, <1>5, <1>6 DEF GroundedOn

(* From any point of an attempt, executing the rest of the queue leaves    *)
(* the rows that merging the whole queue shows.                            *)
LEMMA DrainIsMerge ==
  ASSUME NEW store \in Store, NEW q \in Seq(FullWrite), NEW p \in 1..(Len(q) + 1),
         GroundedOn(store, q), Reinserted(q), ExactOn(store, q, p)
  PROVE  Drained(store, SubSeq(q, p, Len(q))) = MergePending(store, q)
<1> DEFINE r == SubSeq(q, p, Len(q))
           m == Len(r)
           f == Drain(store, r)
<1>1. /\ DOMAIN q = 1..Len(q) /\ Len(q) \in Nat /\ p \in Nat /\ p >= 1
      /\ \A i \in 1..Len(q) : q[i] \in FullWrite
  BY LenProperties, ElementOfSeq
<1>2. /\ r \in Seq(FullWrite) /\ m = Len(q) + 1 - p
      /\ \A i \in 1..m : r[i] = q[p + i - 1]
  <2>1. \A i \in p..Len(q) : q[i] \in FullWrite  BY <1>1
  <2>2. p \in Int /\ Len(q) \in Int  BY <1>1
  <2>3. /\ SubSeq(q, p, Len(q)) \in Seq(FullWrite)
        /\ Len(SubSeq(q, p, Len(q))) = IF p <= Len(q) THEN Len(q) - p + 1 ELSE 0
        /\ \A i \in 1..(Len(q) - p + 1) : SubSeq(q, p, Len(q))[i] = q[p + i - 1]
    BY <2>1, <2>2, SubSeqProperties
  <2> HIDE DEF r
  <2>4. r = SubSeq(q, p, Len(q))  BY DEF r
  <2>5. m = Len(q) + 1 - p  BY <1>1, <2>3, <2>4
  <2>6. \A i \in 1..m : i \in 1..(Len(q) - p + 1)  BY <1>1, <2>5
  <2>. QED  BY <2>3, <2>4, <2>5, <2>6
<1> HIDE DEF r
<1>3. f[0] = store /\ \A n \in 1..m : f[n] = Executed(f[n - 1], r[n])
  BY <1>2, DrainIterates
<1> HIDE DEF f
<1> DEFINE Good(k) ==
             /\ f[k] \in Store /\ GroundedOn(f[k], q) /\ ExactOn(f[k], q, p + k)
             /\ \A c \in Cells : On(q, c) = {} => f[k][c] = store[c]
           T == {k \in Nat : k <= m => Good(k)}
<1>4. m \in Nat  BY <1>1, <1>2
<1>5. 0 \in T
  <2>1. p + 0 = p  BY <1>1
  <2>. QED  BY <2>1, <1>3
<1>6. ASSUME NEW k \in Nat, k \in T PROVE k + 1 \in T
  <2> SUFFICES ASSUME k + 1 <= m PROVE Good(k + 1)  OBVIOUS
  <2>1. k <= m /\ k + 1 \in 1..m /\ (k + 1) - 1 = k  BY <1>4
  <2>2. Good(k)  BY <1>6, <2>1
  <2>3. p + k \in DOMAIN q /\ p + (k + 1) - 1 = p + k /\ p + (k + 1) = (p + k) + 1
    BY <1>1, <1>2, <2>1
  <2>4. f[k + 1] = Executed(f[k], q[p + k])  BY <1>2, <1>3, <2>1, <2>3
  <2>5. q[p + k] \in FullWrite  BY <1>1, <2>3
  <2>6. f[k + 1] \in Store /\ \A c \in Cells : c # q[p + k].cell => f[k + 1][c] = f[k][c]
    <3> DEFINE a == f[k]
               w == q[p + k]
    <3>1. a \in Store /\ w \in FullWrite  BY <2>2, <2>5
    <3>2. f[k + 1] = Executed(a, w)  BY <2>4
    <3> HIDE DEF a, w
    <3>3. Executed(a, w) \in Store /\ \A c \in Cells : c # w.cell => Executed(a, w)[c] = a[c]
      BY ONLY <3>1, ExecutedWhole
    <3>. QED  BY <3>2, <3>3 DEF a, w
  <2>7. GroundedOn(f[k + 1], q)  BY <2>2, <2>3, <2>4, GroundedStep
  <2>8. ExactOn(f[k + 1], q, p + (k + 1))  BY <2>2, <2>3, <2>4, ExactStep
  <2>9. ASSUME NEW c \in Cells, On(q, c) = {} PROVE f[k + 1][c] = store[c]
    <3>1. c # q[p + k].cell  BY <2>9, <2>3 DEF On
    <3>. QED  BY <3>1, <2>2, <2>6, <2>9
  <2>. QED  BY <2>6, <2>7, <2>8, <2>9
<1>7. Nat \subseteq T
  <2> HIDE DEF T
  <2>. QED  BY ONLY SetInduction, <1>5, <1>6
<1>8. Good(m)  BY <1>4, <1>7
<1>9. ASSUME NEW c \in Cells PROVE f[m][c] = MergePending(store, q)[c]
  <2>1. CASE On(q, c) = {}  BY <2>1, <1>8 DEF MergePending
  <2>2. CASE On(q, c) # {}
    <3> DEFINE l == LastOn(q, c)
    <3>1. IsLastOn(q, c, l)  BY <2>2, LastOnIsLast
    <3> HIDE DEF l
    <3>2. l \in DOMAIN q /\ q[l].cell = c /\ \A j \in DOMAIN q : q[j].cell = c => j <= l
      BY <3>1 DEF IsLastOn, On
    <3>3. p + m = Len(q) + 1  BY <1>1, <1>2
    <3>4. LastBefore(q, l, Len(q) + 1)  BY <3>2, <1>1 DEF LastBefore
    <3>5. ~HasDelete(q, c, Len(q) + 1)  BY <1>1 DEF HasDelete
    <3>6. f[m][c] = Pending(q[l])
      <4>1. ExactOn(f[m], q, Len(q) + 1)  BY <1>8, <3>3
      <4>. QED  BY <4>1, <3>2, <3>4, <3>5 DEF ExactOn
    <3>7. MergePending(store, q)[c] = Pending(q[l])  BY <2>2 DEF MergePending, l
    <3>. QED  BY <3>6, <3>7
  <2>. QED  BY <2>1, <2>2
<1>10. DOMAIN f[m] = Cells /\ f[m] = [c \in Cells |-> f[m][c]]  BY <1>8 DEF Store
<1>11. f[m] = MergePending(store, q)  BY <1>9, <1>10 DEF MergePending
<1>. QED  BY <1>11 DEF Drained, f, r

(* What is read is what the backend ends up with, from every state an      *)
(* attempt, a failure or a crash can leave.                                *)
THEOREM MergesAreTheDrain ==
  ASSUME Careful PROVE Spec => []MergeIsTheDrain
<1>1. ASSUME DataTypeOK, QueueInv PROVE MergeIsTheDrain
  <2>1. /\ backend \in Store /\ queue \in Seq(FullWrite) /\ file \in Seq(FullWrite)
        /\ draining \in Seq(FullWrite)
    BY <1>1 DEF QueueInv, WholeRows
  <2>2. ASSUME NEW q \in Seq(FullWrite) PROVE ExactOn(backend, q, 1)
    BY LenProperties DEF ExactOn, LastBefore
  <2>3. CASE phase = "down"
    <3>1. 1 \in 1..(Len(file) + 1)  BY <2>1, LenProperties
    <3>2. GroundedOn(backend, file) /\ Reinserted(file)
      BY <1>1 DEF QueueInv, Grounded, GroundedOn
    <3>3. Drained(backend, SubSeq(file, 1, Len(file))) = MergePending(backend, file)
      BY <2>1, <2>2, <3>1, <3>2, DrainIsMerge
    <3>4. SubSeq(file, 1, Len(file)) = file  BY <2>1, SubSeqFull
    <3>. QED  BY <2>3, <3>3, <3>4 DEF MergeIsTheDrain, Unexecuted, ReadView
  <2>4. GroundedOn(backend, queue) /\ Reinserted(queue)
    BY <1>1 DEF QueueInv, Grounded, GroundedOn
  <2>5. CASE phase = "attempt"
    <3>1. /\ DOMAIN queue = 1..Len(queue) /\ DOMAIN draining = 1..Len(draining)
          /\ Len(queue) \in Nat /\ Len(draining) \in Nat
      BY <2>1, LenProperties
    <3>2. Len(draining) <= Len(queue) /\ \A i \in DOMAIN draining : draining[i] = queue[i]
      BY <1>1 DEF QueueInv, Prefix
    <3>3. pos \in 1..(Len(draining) + 1) /\ pos \in 1..(Len(queue) + 1)
      BY <1>1, <3>1, <3>2 DEF DataTypeOK
    <3>4. ASSUME NEW l \in DOMAIN queue, LastBefore(queue, l, pos)
          PROVE  \/ backend[queue[l].cell] = Pending(queue[l])
                 \/ HasDelete(queue, queue[l].cell, pos)
      <4>1. l \in DOMAIN draining  BY <3>1, <3>3, <3>4 DEF LastBefore
      <4>2. LastBefore(draining, l, pos)  BY <3>1, <3>2, <3>4, <4>1 DEF LastBefore
      <4>3. \/ backend[draining[l].cell] = Pending(draining[l])
            \/ HasDelete(draining, draining[l].cell, pos)
        BY <1>1, <2>5, <4>1, <4>2 DEF QueueInv, AttemptExact
      <4>. QED  BY <3>1, <3>2, <4>1, <4>3 DEF HasDelete
    <3>5. ExactOn(backend, queue, pos)  BY <3>4 DEF ExactOn
    <3>6. Drained(backend, SubSeq(queue, pos, Len(queue))) = MergePending(backend, queue)
      BY <2>1, <2>4, <3>3, <3>5, DrainIsMerge
    <3>. QED  BY <2>5, <3>6 DEF MergeIsTheDrain, Unexecuted, ReadView
  <2>6. CASE phase # "down" /\ phase # "attempt"
    <3>1. 1 \in 1..(Len(queue) + 1)  BY <2>1, LenProperties
    <3>2. Drained(backend, SubSeq(queue, 1, Len(queue))) = MergePending(backend, queue)
      BY <2>1, <2>2, <2>4, <3>1, DrainIsMerge
    <3>. QED  BY <2>6, <3>2 DEF MergeIsTheDrain, Unexecuted, ReadView
  <2>. QED  BY <2>3, <2>5, <2>6
<1>2. Spec => []DataTypeOK  BY DataTypeCorrect
<1>3. Init => QueueInv  BY QueueInvInit
<1>4. DataTypeOK /\ QueueInv /\ [Next]_vars => QueueInv'  BY Careful, QueueInvStep
<1>. QED  BY <1>1, <1>2, <1>3, <1>4, PTL DEF Spec

(* No write leaves the queue before the backend holds what it wrote: only  *)
(* a loop that drained takes writes out of it, and what it leaves in every *)
(* cell without a pending write is what was read there.                    *)
THEOREM WritesAreNotDiscarded ==
  ASSUME Careful PROVE Spec => NothingDiscarded
<1> DEFINE Kept == phase' # "down" =>
             \A c \in Cells : On(queue, c) # {} /\ On(queue', c) = {}
                                => backend'[c] = Pending(queue[LastOn(queue, c)])
<1>1. ASSUME DataTypeOK, QueueInv, [Next]_vars PROVE Kept
  <2> SUFFICES ASSUME phase' # "down", NEW c \in Cells, On(queue, c) # {}, On(queue', c) = {}
               PROVE  backend'[c] = Pending(queue[LastOn(queue, c)])
    OBVIOUS
  <2>1. queue \in Seq(Write)  BY <1>1 DEF DataTypeOK
  <2>2. CASE UNCHANGED queue  BY <2>2
  <2>3. ASSUME NEW op \in Ops, NEW cell \in Cells, NEW row \in Row,
               EnqueueDurable(op, cell, row)
        PROVE  FALSE
    <3> DEFINE w == [op |-> op, cell |-> cell, row |-> row]
    <3>1. w \in Write /\ queue' = Append(queue, w)
      BY <2>3 DEF EnqueueDurable, EnqueueWrite, Write
    <3> HIDE DEF w
    <3>2. On(queue, c) \subseteq On(queue', c)
      <4>1. /\ DOMAIN queue = 1..Len(queue) /\ DOMAIN queue' = 1..Len(queue) + 1
            /\ Len(queue) \in Nat /\ \A i \in 1..Len(queue) : queue'[i] = queue[i]
        BY <2>1, <3>1, LenProperties, AppendProperties
      <4>. QED  BY <4>1 DEF On
    <3>. QED  BY <3>2
  <2>4. ASSUME NEW op \in Ops, NEW cell \in Cells, NEW row \in Row,
               CrashWhileSaving(op, cell, row)
        PROVE  FALSE
    BY <2>4 DEF CrashWhileSaving, ProcessGone
  <2>5. CASE LoopReturns
    <3>1. /\ phase = "attempt" /\ pos = Len(draining) + 1
          /\ queue' = Remaining(queue, draining) /\ backend' = backend
      BY <2>5 DEF LoopReturns
    <3>2. MergePending(backend, queue') = MergePending(backend, queue)
      BY <1>1, <3>1, SettleKeeps
    <3>3. IsLastOn(queue, c, LastOn(queue, c))  BY <2>1, LastOnIsLast
    <3>4. MergePending(backend, queue)[c] = Pending(queue[LastOn(queue, c)])
      BY <2>1, <3>3, MergeValue
    <3>5. MergePending(backend, queue')[c] = backend[c]  BY DEF MergePending
    <3>. QED  BY <3>1, <3>2, <3>4, <3>5
  <2>6. CASE Restart
    <3>1. queue = << >>  BY <1>1, <2>6 DEF Restart, QueueInv, EmptyQueue
    <3>. QED  BY <3>1 DEF On
  <2>7. CASE Crash  BY <2>7 DEF Crash, ProcessGone
  <2>8. CASE StartLoop \/ ExecuteWrite \/ ExecuteRaises \/ Wake \/ Tick \/ Outage \/ Recovery
             \/ UNCHANGED vars
    <3>1. UNCHANGED queue
      BY <2>8 DEF StartLoop, ExecuteWrite, ExecuteRaises, Wake, Tick, Outage, Recovery, vars
    <3>. QED  BY <2>2, <3>1
  <2>. QED  BY <1>1, <2>3, <2>4, <2>5, <2>6, <2>7, <2>8 DEF Next
<1>2. DataTypeOK /\ QueueInv /\ [Next]_vars => [Kept]_vars  BY <1>1
<1>3. Init => QueueInv  BY QueueInvInit
<1>4. DataTypeOK /\ QueueInv /\ [Next]_vars => QueueInv'  BY Careful, QueueInvStep
<1>. QED  BY <1>2, <1>3, <1>4, DataTypeCorrect, PTL DEF Spec, NothingDiscarded

-----------------------------------------------------------------------------
(* The delay is what its doublings leave.                                  *)
LEMMA DelayIterates ==
  ASSUME NEW tries \in Nat, NEW base
  PROVE  \E f :
           /\ f[0] = base
           /\ \A n \in 1..tries : f[n] = 2 * f[n - 1]
           /\ BackoffDelay(tries, base) = f[tries]
<1> DEFINE m == tries
           Step(a, n) == 2 * a
           F == CHOOSE f : f = [n \in 0..m |-> IF n = 0 THEN base ELSE Step(f[n - 1], n)]
           T == {k \in Nat : \E h : /\ DOMAIN h = 0..k /\ h[0] = base
                                    /\ \A n \in 1..k : h[n] = Step(h[n - 1], n)}
<1>1. m \in Nat  OBVIOUS
<1>2. BackoffDelay(tries, base) = F[m]  BY DEF BackoffDelay
<1> HIDE DEF Step
<1>3. 0 \in T
  <2> DEFINE g == [i \in 0..0 |-> base]
  <2>1. DOMAIN g = 0..0 /\ g[0] = base  OBVIOUS
  <2>2. \A n \in 1..0 : g[n] = Step(g[n - 1], n)  OBVIOUS
  <2> HIDE DEF g
  <2>. QED  BY <2>1, <2>2
<1>4. ASSUME NEW k \in Nat, k \in T PROVE k + 1 \in T
  <2>1. PICK h : /\ DOMAIN h = 0..k /\ h[0] = base
                 /\ \A n \in 1..k : h[n] = Step(h[n - 1], n)
    BY <1>4
  <2> DEFINE g == [n \in 0..k + 1 |-> IF n = k + 1 THEN Step(h[k], k + 1) ELSE h[n]]
  <2>2. DOMAIN g = 0..k + 1 /\ g[0] = base  BY <2>1
  <2>3. ASSUME NEW n \in 1..k + 1 PROVE g[n] = Step(g[n - 1], n)
    <3>1. g[n - 1] = h[n - 1]  OBVIOUS
    <3>2. CASE n = k + 1  BY <3>1, <3>2
    <3>3. CASE n \in 1..k  BY <2>1, <3>1, <3>3
    <3>. QED  BY <3>2, <3>3
  <2> HIDE DEF g
  <2>. QED  BY <2>2, <2>3
<1>5. Nat \subseteq T
  <2> HIDE DEF T
  <2>. QED  BY ONLY SetInduction, <1>3, <1>4
<1>6. PICK h : /\ DOMAIN h = 0..m /\ h[0] = base
               /\ \A n \in 1..m : h[n] = Step(h[n - 1], n)
  BY <1>1, <1>5
<1> DEFINE j == [n \in 0..m |-> h[n]]
<1>7. j = [n \in 0..m |-> IF n = 0 THEN base ELSE Step(j[n - 1], n)]
  <2>1. ASSUME NEW n \in 0..m PROVE j[n] = IF n = 0 THEN base ELSE Step(j[n - 1], n)
    <3>1. CASE n = 0  BY <1>6, <3>1
    <3>2. CASE n # 0
      <4>1. n \in 1..m /\ n - 1 \in 0..m  BY <1>1, <3>2
      <4>. QED  BY <1>6, <3>2, <4>1
    <3>. QED  BY <3>1, <3>2
  <2>. QED  BY <2>1
<1>8. F = [n \in 0..m |-> IF n = 0 THEN base ELSE Step(F[n - 1], n)]
  <2> HIDE DEF m, j
  <2>. QED  BY <1>7
<1> HIDE DEF F
<1>9. F[0] = base  BY <1>1, <1>8
<1>10. ASSUME NEW n \in 1..m PROVE F[n] = Step(F[n - 1], n)
  <2>1. n \in 0..m /\ n # 0  BY <1>1
  <2>. QED  BY <1>8, <2>1
<1>. QED  BY <1>2, <1>9, <1>10 DEF Step

LEMMA DelayDoubles ==
  ASSUME NEW a \in Nat, NEW base \in Nat
  PROVE  /\ BackoffDelay(0, base) = base
         /\ BackoffDelay(a, base) \in Nat
         /\ BackoffDelay(a + 1, base) = 2 * BackoffDelay(a, base)
<1>1. PICK f : /\ f[0] = base /\ \A n \in 1..a : f[n] = 2 * f[n - 1]
               /\ BackoffDelay(a, base) = f[a]
  BY DelayIterates
<1>2. PICK g : /\ g[0] = base /\ \A n \in 1..a + 1 : g[n] = 2 * g[n - 1]
               /\ BackoffDelay(a + 1, base) = g[a + 1]
  BY DelayIterates
<1>3. BackoffDelay(0, base) = base
  <2>1. PICK h : h[0] = base /\ BackoffDelay(0, base) = h[0]  BY DelayIterates
  <2>. QED  BY <2>1
<1> DEFINE T == {k \in Nat : k <= a => g[k] = f[k] /\ f[k] \in Nat}
<1>4. 0 \in T  BY <1>1, <1>2
<1>5. ASSUME NEW k \in Nat, k \in T PROVE k + 1 \in T
  <2> SUFFICES ASSUME k + 1 <= a PROVE g[k + 1] = f[k + 1] /\ f[k + 1] \in Nat  OBVIOUS
  <2>1. /\ k + 1 \in 1..a /\ k + 1 \in 1..a + 1 /\ (k + 1) - 1 = k
        /\ g[k] = f[k] /\ f[k] \in Nat
    BY <1>5
  <2>2. f[k + 1] = 2 * f[k] /\ g[k + 1] = 2 * g[k]  BY <1>1, <1>2, <2>1
  <2>. QED  BY <2>1, <2>2
<1>6. Nat \subseteq T
  <2> HIDE DEF T
  <2>. QED  BY ONLY SetInduction, <1>4, <1>5
<1>7. g[a] = f[a] /\ f[a] \in Nat  BY <1>6
<1>8. a + 1 \in 1..a + 1 /\ (a + 1) - 1 = a  OBVIOUS
<1>. QED  BY <1>1, <1>2, <1>3, <1>7, <1>8

(* What the loop has waited: the next sleep is at most as long as all the  *)
(* sleeps before it and two base delays, and all of them are in the age of *)
(* the failure the next attempt will see.                                  *)
Failing == failingFor # NotFailing
Timing ==
  /\ phase \in {"attempt", "sleeping"} =>
       /\ elapsed \in Nat
       /\ Failing => failingFor \in Nat
       /\ ~Failing => attempt = 0
  /\ phase = "attempt" =>
       /\ elapsed <= MaxBusy
       /\ sleepLeft = 0
       /\ Failing => BackoffDelay(attempt + 1, Base) <= failingFor + 2 * Base
  /\ phase = "sleeping" =>
       /\ Failing /\ failingFor < Stall
       /\ BackoffDelay(attempt, Base) <= failingFor + 2 * Base
       /\ elapsed + sleepLeft <= MaxBusy + BackoffDelay(attempt, Base)
       /\ elapsed + sleepLeft >= BackoffDelay(attempt, Base)

TimingInv == TypeOK /\ Timing

LEMMA TimingStep == TimingInv /\ DataTypeOK' /\ [Next]_vars => TimingInv'
<1> SUFFICES ASSUME TimingInv, DataTypeOK', [Next]_vars PROVE TimingInv'  OBVIOUS
<1> DEFINE D(n) == BackoffDelay(n, Base)
<1>1. /\ Base \in Nat /\ Base > 0 /\ MaxBusy \in Nat /\ Stall \in Nat /\ attempt \in Nat
      /\ elapsed \in Nat /\ sleepLeft \in Nat
  BY SupervisorAssumption DEF TimingInv, TypeOK, DataTypeOK
<1>2. \A n \in Nat : D(n) \in Nat /\ D(n + 1) = 2 * D(n) /\ D(0) = Base
  BY <1>1, DelayDoubles
<1> HIDE DEF D
<1> SUFFICES sleepLeft' \in Nat /\ Timing'  BY DEF TimingInv, TypeOK
<1>3. ASSUME UNCHANGED <<phase, failingFor, elapsed, attempt, sleepLeft>>
      PROVE  sleepLeft' \in Nat /\ Timing'
  BY <1>1, <1>3 DEF TimingInv, Timing, Failing
<1>4. ASSUME phase' \notin {"attempt", "sleeping"}, sleepLeft' \in Nat
      PROVE  sleepLeft' \in Nat /\ Timing'
  BY <1>4 DEF Timing
<1>5. ASSUME NEW op \in Ops, NEW cell \in Cells, NEW row \in Row,
             EnqueueDurable(op, cell, row) \/ CrashWhileSaving(op, cell, row)
      PROVE  sleepLeft' \in Nat /\ Timing'
  <2>1. CASE EnqueueDurable(op, cell, row)  BY <1>3, <2>1 DEF EnqueueDurable, loopVars
  <2>2. CASE CrashWhileSaving(op, cell, row)
    BY <1>4, <2>2 DEF CrashWhileSaving, ProcessGone
  <2>. QED  BY <1>5, <2>1, <2>2
<1>6. CASE StartLoop
  <2>1. /\ phase' = "attempt" /\ failingFor' = NotFailing /\ elapsed' = 0 /\ attempt' = 0
        /\ sleepLeft' = 0
    BY <1>6 DEF StartLoop
  <2>. QED  BY <1>1, <2>1 DEF Timing, Failing
<1>7. CASE ExecuteWrite  BY <1>3, <1>7 DEF ExecuteWrite
<1>8. CASE ExecuteRaises
  <2>1. /\ phase = "attempt" /\ AttemptFailed /\ elapsed' = elapsed
    BY <1>8 DEF ExecuteRaises
  <2>2. /\ elapsed <= MaxBusy /\ sleepLeft = 0
        /\ failingFor = NotFailing => attempt = 0
        /\ failingFor # NotFailing => failingFor \in Nat /\ D(attempt + 1) <= failingFor + 2 * Base
    BY <2>1 DEF TimingInv, Timing, Failing, D
  <2>3. CASE phase' = "raised"  BY <1>1, <1>4, <2>1, <2>3 DEF AttemptFailed
  <2>4. CASE phase' # "raised"
    <3>1. /\ phase' = "sleeping" /\ attempt' = attempt + 1 /\ ~ IsStalled(failingFor', Stall)
          /\ sleepLeft' = D(attempt + 1)
          /\ failingFor' = IF failingFor = NotFailing THEN 0 ELSE failingFor
      BY <2>1, <2>4 DEF AttemptFailed, D
    <3>2. failingFor' \in Nat /\ failingFor' < Stall
      BY <1>1, <2>2, <3>1 DEF IsStalled
    <3>3. D(attempt + 1) \in Nat /\ D(attempt + 1) <= failingFor' + 2 * Base
      <4>1. CASE failingFor = NotFailing
        <5>1. attempt = 0 /\ failingFor' = 0 /\ D(0 + 1) = 2 * Base /\ D(0 + 1) \in Nat
          BY <1>1, <1>2, <2>2, <3>1, <4>1
        <5>. QED  BY <1>1, <5>1
      <4>2. CASE failingFor # NotFailing  BY <1>1, <1>2, <2>2, <3>1, <4>2
      <4>. QED  BY <4>1, <4>2
    <3>4. failingFor' # NotFailing  BY <3>2, SupervisorAssumption
    <3>. QED  BY <1>1, <2>1, <2>2, <3>1, <3>2, <3>3, <3>4 DEF Timing, Failing, D
  <2>. QED  BY <2>3, <2>4
<1>9. CASE Wake
  <2>1. /\ phase = "sleeping" /\ sleepLeft = 0 /\ phase' = "attempt" /\ sleepLeft' = sleepLeft
        /\ failingFor' = failingFor + elapsed /\ elapsed' = 0 /\ attempt' = attempt
    BY <1>9 DEF Wake
  <2>2. /\ failingFor \in Nat /\ D(attempt) <= failingFor + 2 * Base
        /\ elapsed + sleepLeft >= D(attempt)
    BY <2>1 DEF TimingInv, Timing, Failing, D
  <2>3. failingFor' \in Nat /\ D(attempt + 1) <= failingFor' + 2 * Base
    BY <1>1, <1>2, <2>1, <2>2
  <2>4. failingFor' # NotFailing  BY <2>3, SupervisorAssumption
  <2>. QED  BY <1>1, <2>1, <2>3, <2>4 DEF Timing, Failing, D
<1>10. CASE LoopReturns  BY <1>4, <1>10 DEF LoopReturns
<1>11. CASE Tick
  <2>1. /\ phase \in {"attempt", "sleeping"}
        /\ sleepLeft > 0 \/ Busy < MaxBusy
        /\ elapsed' = elapsed + 1 /\ sleepLeft' = IF sleepLeft > 0 THEN sleepLeft - 1 ELSE 0
        /\ UNCHANGED <<phase, failingFor, attempt>>
    BY <1>11 DEF Tick
  <2>2. CASE phase = "attempt"
    <3>1. sleepLeft = 0 /\ elapsed < MaxBusy
      BY <2>1, <2>2 DEF TimingInv, Timing, Busy
    <3>. QED  BY <1>1, <2>1, <2>2, <3>1 DEF TimingInv, Timing, Failing
  <2>3. CASE phase = "sleeping"
    <3>1. D(attempt) \in Nat  BY <1>1, <1>2
    <3>2. /\ elapsed + sleepLeft <= MaxBusy + D(attempt) /\ elapsed + sleepLeft >= D(attempt)
      BY <2>3 DEF TimingInv, Timing, D
    <3>3. sleepLeft > 0 \/ elapsed + sleepLeft - D(attempt) < MaxBusy
      BY <2>1, <2>3 DEF Busy, D
    <3>4. /\ elapsed' + sleepLeft' <= MaxBusy + D(attempt)
          /\ elapsed' + sleepLeft' >= D(attempt) /\ elapsed' \in Nat /\ sleepLeft' \in Nat
      BY <1>1, <2>1, <3>1, <3>2, <3>3
    <3>. QED  BY <2>1, <2>3, <3>4 DEF TimingInv, Timing, Failing, D
  <2>. QED  BY <2>1, <2>2, <2>3
<1>12. CASE Outage \/ Recovery  BY <1>3, <1>12 DEF Outage, Recovery, loopVars
<1>13. CASE Crash  BY <1>4, <1>13 DEF Crash, ProcessGone
<1>14. CASE Restart
  <2>1. phase' = "idle" /\ sleepLeft' = sleepLeft  BY <1>14 DEF Restart, loopVars
  <2>. QED  BY <1>1, <1>4, <2>1
<1>15. CASE UNCHANGED vars  BY <1>3, <1>15 DEF vars
<1>. QED  BY <1>5, <1>6, <1>7, <1>8, <1>9, <1>10, <1>11, <1>12, <1>13, <1>14, <1>15 DEF Next

LEMMA TimingHolds == Spec => []TimingInv
<1>1. Init /\ DataTypeOK => TimingInv
  <2> SUFFICES ASSUME Init, DataTypeOK PROVE TimingInv  OBVIOUS
  <2>1. phase = "idle" /\ sleepLeft = 0  BY DEF Init
  <2>. QED  BY <2>1 DEF TimingInv, TypeOK, Timing
<1>. QED  BY <1>1, TimingStep, DataTypeCorrect, PTL DEF Spec

(* Every variable keeps its type, the sleep timer included.                *)
THEOREM TypeCorrect == Spec => []TypeOK
<1>1. TimingInv => TypeOK  BY DEF TimingInv
<1>. QED  BY <1>1, TimingHolds, PTL

(* However long the limit and the base delay are, the age at which a       *)
(* sleeping loop will make its next attempt stays below twice the limit,   *)
(* two base delays and the time one attempt takes.                         *)
THEOREM StallsAreDetected == Spec => []StallDetectionBounded
<1>1. ASSUME TimingInv PROVE StallDetectionBounded
  <2> SUFFICES ASSUME phase = "sleeping"
               PROVE  failingFor + elapsed + sleepLeft < 2 * (Stall + Base) + MaxBusy
    BY DEF StallDetectionBounded
  <2> DEFINE d == BackoffDelay(attempt, Base)
  <2>1. /\ failingFor \in Nat /\ failingFor < Stall /\ d <= failingFor + 2 * Base
        /\ elapsed + sleepLeft <= MaxBusy + d
    BY <1>1 DEF TimingInv, Timing, Failing
  <2>2. /\ Base \in Nat /\ MaxBusy \in Nat /\ Stall \in Nat /\ elapsed \in Nat
        /\ sleepLeft \in Nat /\ d \in Nat
    BY <1>1, SupervisorAssumption, DelayDoubles DEF TimingInv, TypeOK, DataTypeOK
  <2> HIDE DEF d
  <2>. QED  BY <2>1, <2>2
<1>2. TimingInv => StallDetectionBounded  BY <1>1
<1>. QED  BY <1>2, TimingHolds, PTL
=============================================================================
