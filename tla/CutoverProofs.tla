----------------------------- MODULE CutoverProofs -----------------------------
(***************************************************************************)
(* What holds of a cutover for all schemas, keys, batch sizes and writers, *)
(* and every number of writes and failures.                                *)
(***************************************************************************)
EXTENDS Cutover, SequenceTheorems, FiniteSetTheorems, FunctionTheorems, WellFoundedInduction, TLAPS

-----------------------------------------------------------------------------
(* The inductive invariant.                                                *)
Phases == {"bulk_transfer", "mirror", "promote", "detach"}

Copies ==
  [after : Keys \cup {0}, last : BOOLEAN, rows : Seq(Queries), found : SUBSET Rows]

Typed ==
  /\ schema \in Schemas /\ batchSize \in BatchSizes /\ phase \in Phases
  /\ source \in [Rows -> Vals \cup {Absent}] /\ dest \in [Rows -> Vals \cup {Absent}]
  /\ position \in 1..(Len(CutoverPlan) + 1)
  /\ copy = None \/ copy \in Copies
  /\ query \in [Writers -> Queries \cup {None}]
  /\ strayed \subseteq Rows

(* The transfer is over when the mirror begins, and nothing is mirrored    *)
(* before.                                                                 *)
PhasesApart ==
  /\ phase # "bulk_transfer" => TransferDone
  /\ TransferDone => copy = None
  /\ phase = "bulk_transfer" => \A w \in Writers : query[w] = None

(* The source never loses a row another one refers to.                     *)
SourceIntact ==
  \A row \in Rows : source[row] # Absent => \A parent \in Parents(row) : source[parent] # Absent

Done(t) == \E i \in 1..(position - 1) : CutoverPlan[i] = t
Pending(row) == copy # None /\ \E i \in DOMAIN copy.rows : copy.rows[i].row = row
Reached(row) == copy # None /\ row[1] = Table /\ (row[2] <= copy.after \/ copy.last)
Agrees(row) == source[row] = dest[row] \/ row \in strayed

(* What a batch read and has not inserted is in the order of its keys, and *)
(* is what the source holds unless it was written since.  What is in the   *)
(* destination was found there or copied by this call.                     *)
CopyFits ==
  copy # None =>
    /\ copy.last => copy.rows # <<>>
    /\ \A i \in DOMAIN copy.rows :
         /\ copy.rows[i].op = "insert" /\ copy.rows[i].row[1] = Table
         /\ copy.rows[i].row[2] <= copy.after
         /\ copy.rows[i].row \in strayed \/ source[copy.rows[i].row] = copy.rows[i].val
         /\ \A j \in DOMAIN copy.rows :
              i < j => copy.rows[i].row[2] < copy.rows[j].row[2]
    /\ \A row \in Rows :
         row[1] = Table /\ dest[row] # Absent =>
           row \in copy.found \/ (row[2] <= copy.after /\ ~Pending(row))

(* What the transfer is past agrees.                                       *)
TransferAgrees ==
  phase = "bulk_transfer" =>
    \A row \in Rows :
      /\ dest[row] # Absent => Agrees(row) /\ (Done(row[1]) \/ (~TransferDone /\ row[1] = Table))
      /\ Done(row[1]) \/ (Reached(row) /\ ~Pending(row)) => Agrees(row)

(* A query on its way to the destination will make it agree there, or the  *)
(* row strayed.                                                            *)
Result(value, q) ==
  IF q.op = "delete" \/ (q.op = "update" /\ value = Absent) THEN Absent ELSE q.val

MirrorAgrees ==
  phase \in {"mirror", "promote"} =>
    \A w \in Writers :
      LET q == query[w]
      IN q # None /\ q.row \notin strayed =>
           /\ source[q.row] = Result(dest[q.row], q)
           /\ \A v \in Writers \ {w} : query[v] = None \/ query[v].row # q.row

CutoverInv ==
  /\ Typed /\ PhasesApart /\ SourceIntact /\ CopyFits /\ TransferAgrees /\ MirrorAgrees
  /\ DivergenceExplained

-----------------------------------------------------------------------------
(* Induction on numbers, for a set.                                        *)
LEMMA SetInduction ==
  ASSUME NEW T, 0 \in T, \A n \in Nat : n \in T => n + 1 \in T
  PROVE  Nat \subseteq T
<1> DEFINE Less == {ss \in Nat \X Nat : ss[1] < ss[2]}
<1> SUFFICES ASSUME Nat \ T # {} PROVE FALSE  OBVIOUS
<1>1. IsWellFoundedOn(Less, Nat)
  <2>1. OpToRel(<, Nat) = Less  BY DEF OpToRel
  <2>. QED  BY NatLessThanWellFounded, <2>1
<1>2. PICK x \in Nat \ T : ~ \E y \in Nat \ T : <<y, x>> \in Less
  <2>1. Nat \ T \subseteq Nat  OBVIOUS
  <2> HIDE DEF Less
  <2>. QED  BY ONLY WFMin, <1>1, <2>1, Nat \ T # {}
<1>3. x - 1 \in Nat \ T  OBVIOUS
<1>4. <<x - 1, x>> \in Less  BY <1>3
<1>. QED  BY <1>2, <1>3, <1>4

(* A step that stays in a set can be iterated.                             *)
IsIterate(h, S, k, base, step) ==
  /\ h \in [0..k -> S]
  /\ h[0] = base
  /\ \A n \in 1..k : h[n] = step[n][h[n - 1]]

LEMMA Iterates ==
  ASSUME NEW S, NEW k \in Nat, NEW base \in S, NEW step \in [1..k -> [S -> S]]
  PROVE  \E h : IsIterate(h, S, k, base, step)
<1> DEFINE T == {m \in Nat : m <= k => \E h \in [0..m -> S] :
                   h[0] = base /\ \A n \in 1..m : h[n] = step[n][h[n - 1]]}
<1>1. 0 \in T
  <2> DEFINE g == [i \in 0..0 |-> base]
  <2>1. g \in [0..0 -> S] /\ g[0] = base  OBVIOUS
  <2>2. \A n \in 1..0 : g[n] = step[n][g[n - 1]]  OBVIOUS
  <2> HIDE DEF g
  <2>. QED  BY <2>1, <2>2
<1>2. ASSUME NEW m \in Nat, m \in T PROVE m + 1 \in T
  <2> SUFFICES ASSUME m + 1 <= k
               PROVE  \E h \in [0..m + 1 -> S] :
                 h[0] = base /\ \A n \in 1..m + 1 : h[n] = step[n][h[n - 1]]
    OBVIOUS
  <2>1. PICK h \in [0..m -> S] :
          h[0] = base /\ \A n \in 1..m : h[n] = step[n][h[n - 1]]
    BY <1>2
  <2> DEFINE next == step[m + 1][h[m]]
             g == [n \in 0..m + 1 |-> IF n = m + 1 THEN next ELSE h[n]]
  <2>2. next \in S
    <3>1. h[m] \in S /\ m + 1 \in 1..k  BY <2>1
    <3>. QED  BY <3>1
  <2>3. g \in [0..m + 1 -> S] /\ g[0] = base  BY <2>1, <2>2
  <2>4. ASSUME NEW n \in 1..m + 1 PROVE g[n] = step[n][g[n - 1]]
    <3>1. g[n - 1] = h[n - 1]  OBVIOUS
    <3>2. CASE n = m + 1
      <4>1. n - 1 = m  BY <3>2
      <4>2. g[n] = next  BY <3>2
      <4>. QED  BY <3>1, <3>2, <4>1, <4>2
    <3>3. CASE n \in 1..m  BY <2>1, <3>1, <3>3
    <3>. QED  BY <3>2, <3>3
  <2> HIDE DEF g
  <2>. QED  BY <2>3, <2>4
<1>3. Nat \subseteq T
  <2> HIDE DEF T
  <2>. QED  BY ONLY SetInduction, <1>1, <1>2
<1>4. k \in T  BY <1>3
<1>. QED  BY <1>4 DEF IsIterate

(* A set of numbers has a least one.                                       *)
LEMMA LeastExists ==
  ASSUME NEW T, T \subseteq Nat, T # {}
  PROVE  \E i \in T : \A j \in T : i <= j
<1>1. PICK n \in T : \A m \in T : ~ (<<m, n>> \in OpToRel(<, Nat))
  BY NatLessThanWellFounded, WFMin
<1>2. \A m, k \in Nat : m < k => <<m, k>> \in OpToRel(<, Nat)  BY Zenon DEF OpToRel
<1>3. ASSUME NEW m \in T PROVE ~ (m < n)  BY <1>1, <1>2, Zenon
<1>. QED  BY <1>3

(* A sequence that grows, as long as something is ready, by the least that *)
(* is: what topological_sort and a batch query both are.                   *)
Grown(done, ready) ==
  IF ready[done] = {} THEN done
  ELSE Append(done, CHOOSE i \in ready[done] : \A j \in ready[done] : i <= j)

IsGrowth(F, k, ready) == F[0] = <<>> /\ \A n \in 1..k : F[n] = Grown(F[n - 1], ready)

Least(S) == CHOOSE i \in S : \A j \in S : i <= j

LEMMA LeastIsLeast ==
  ASSUME NEW S, S \subseteq Nat, S # {}
  PROVE  Least(S) \in S /\ \A j \in S : Least(S) <= j
<1>1. \E i \in S : \A j \in S : i <= j  BY LeastExists
<1>. QED  BY <1>1 DEF Least

LEMMA GrownIsSeq ==
  ASSUME NEW U, U \subseteq Nat, NEW ready \in [Seq(U) -> SUBSET U], NEW done \in Seq(U)
  PROVE  /\ Grown(done, ready) \in Seq(U)
         /\ ready[done] = {} => Grown(done, ready) = done
         /\ ready[done] # {} =>
              /\ Least(ready[done]) \in ready[done]
              /\ \A j \in ready[done] : Least(ready[done]) <= j
              /\ Grown(done, ready) = Append(done, Least(ready[done]))
<1>1. ready[done] \subseteq Nat /\ ready[done] \subseteq U  OBVIOUS
<1>2. ready[done] # {} => /\ Least(ready[done]) \in ready[done]
                          /\ \A j \in ready[done] : Least(ready[done]) <= j
  BY <1>1, LeastIsLeast
<1>3. Grown(done, ready) = IF ready[done] = {} THEN done ELSE Append(done, Least(ready[done]))
  BY DEF Grown, Least
<1>4. ready[done] # {} => Append(done, Least(ready[done])) \in Seq(U)
  BY <1>1, <1>2, AppendProperties
<1>. QED  BY <1>2, <1>3, <1>4

GrowsBy(h, k, ready) == h = [n \in 0..k |-> IF n = 0 THEN <<>> ELSE Grown(h[n - 1], ready)]

LEMMA GrowthExists ==
  ASSUME NEW U, U \subseteq Nat, NEW k \in Nat, NEW ready \in [Seq(U) -> SUBSET U]
  PROVE  \E h \in [0..k -> Seq(U)] : GrowsBy(h, k, ready)
<1> DEFINE Q == Seq(U)
           step == [n \in 1..k |-> [done \in Q |-> Grown(done, ready)]]
<1>1. step \in [1..k -> [Q -> Q]]  BY GrownIsSeq
<1>2. <<>> \in Q  OBVIOUS
<1>3. PICK h : IsIterate(h, Q, k, <<>>, step)
  <2> HIDE DEF step, Q
  <2>. QED  BY <1>1, <1>2, Iterates
<1> HIDE DEF Q
<1>4. h = [n \in 0..k |-> IF n = 0 THEN <<>> ELSE Grown(h[n - 1], ready)]
  <2>1. ASSUME NEW n \in 1..k PROVE h[n] = Grown(h[n - 1], ready)
    <3>1. h[n - 1] \in Q  BY <1>3 DEF IsIterate
    <3>. QED  BY <1>3, <3>1 DEF IsIterate
  <2>. QED  BY <1>3, <2>1 DEF IsIterate
<1>5. h \in [0..k -> Q]  BY <1>3 DEF IsIterate
<1>. QED  BY <1>4, <1>5 DEF Q, GrowsBy

LEMMA GrowthStays ==
  ASSUME NEW U, U \subseteq Nat, NEW k \in Nat, NEW ready \in [Seq(U) -> SUBSET U],
         NEW F, F[0] = <<>>,
         \A n \in 1..k : F[n - 1] \in Seq(U) => F[n] = Grown(F[n - 1], ready)
  PROVE  IsGrowth(F, k, ready)
<1> DEFINE T == {n \in Nat : n <= k => F[n] \in Seq(U)}
<1>1. 0 \in T
  <2>1. <<>> \in Seq(U)  BY EmptySeq
  <2>. QED  BY <2>1
<1>2. ASSUME NEW n \in Nat, n \in T PROVE n + 1 \in T
  <2> SUFFICES ASSUME n + 1 <= k PROVE F[n + 1] \in Seq(U)  OBVIOUS
  <2>1. F[n] \in Seq(U) /\ n + 1 \in 1..k /\ (n + 1) - 1 = n  BY <1>2
  <2>2. F[n + 1] = Grown(F[n], ready)  BY <2>1
  <2> HIDE DEF T
  <2>3. Grown(F[n], ready) \in Seq(U)  BY <2>1, GrownIsSeq
  <2>. QED  BY <2>2, <2>3
<1>3. Nat \subseteq T
  <2> HIDE DEF T
  <2>. QED  BY ONLY SetInduction, <1>1, <1>2
<1>4. ASSUME NEW n \in 1..k PROVE F[n] = Grown(F[n - 1], ready)
  <2>1. n - 1 \in T /\ n - 1 <= k  BY <1>3
  <2>. QED  BY <2>1
<1>. QED  BY <1>4 DEF IsGrowth

Apart(s) == \A i, j \in DOMAIN s : s[i] = s[j] => i = j

LEMMA AppendMembers ==
  ASSUME NEW U, NEW s \in Seq(U), NEW e \in U
  PROVE  /\ Append(s, e) \in Seq(U) /\ Len(Append(s, e)) = Len(s) + 1 /\ Len(s) \in Nat
         /\ DOMAIN s = 1..Len(s) /\ DOMAIN Append(s, e) = 1..Len(s) + 1
         /\ \A i \in 1..Len(s) : Append(s, e)[i] = s[i]
         /\ Append(s, e)[Len(s) + 1] = e
         /\ ToSet(Append(s, e)) = ToSet(s) \cup {e}
         /\ Apart(s) /\ e \notin ToSet(s) => Apart(Append(s, e))
<1> DEFINE a == Append(s, e)
<1>1. /\ a \in Seq(U) /\ Len(a) = Len(s) + 1 /\ Len(s) \in Nat
      /\ DOMAIN s = 1..Len(s) /\ DOMAIN a = 1..Len(s) + 1
      /\ \A i \in 1..Len(s) : a[i] = s[i]
      /\ a[Len(s) + 1] = e
  BY AppendProperties, LenProperties
<1> HIDE DEF a
<1>2. \A i \in DOMAIN a : (i \in DOMAIN s /\ a[i] = s[i]) \/ (i = Len(s) + 1 /\ a[i] = e)
  BY <1>1
<1>3. DOMAIN a = DOMAIN s \cup {Len(s) + 1}  BY <1>1
<1>4. ToSet(a) = ToSet(s) \cup {e}
  <2>1. ASSUME NEW x \in ToSet(a) PROVE x \in ToSet(s) \cup {e}  BY <1>2 DEF ToSet
  <2>2. ASSUME NEW x \in ToSet(s) PROVE x \in ToSet(a)
    <3>1. PICK i \in DOMAIN s : x = s[i]  BY DEF ToSet
    <3>2. i \in DOMAIN a /\ a[i] = x  BY <1>1, <1>3, <3>1
    <3>. QED  BY <3>2 DEF ToSet
  <2>3. e \in ToSet(a)  BY <1>1, <1>3 DEF ToSet
  <2>. QED  BY <2>1, <2>2, <2>3
<1>5. ASSUME Apart(s), e \notin ToSet(s) PROVE Apart(a)
  BY <1>2, <1>5 DEF Apart, ToSet
<1>. QED  BY <1>1, <1>4, <1>5 DEF a

(* Nothing is taken twice, as long as what is ready is not taken yet; and  *)
(* a sequence that stopped short has nothing ready.                        *)
LEMMA GrowthApart ==
  ASSUME NEW U, U \subseteq Nat, NEW k \in Nat, NEW ready \in [Seq(U) -> SUBSET U],
         NEW F, IsGrowth(F, k, ready),
         \A done \in Seq(U) : ready[done] \cap ToSet(done) = {}
  PROVE  \A n \in 0..k : /\ F[n] \in Seq(U) /\ Apart(F[n]) /\ Len(F[n]) <= n
                         /\ Len(F[n]) = n \/ ready[F[n]] = {}
<1> DEFINE P(n) == /\ F[n] \in Seq(U) /\ Apart(F[n]) /\ Len(F[n]) <= n
                   /\ Len(F[n]) = n \/ ready[F[n]] = {}
           T == {n \in Nat : n <= k => P(n)}
<1>1. 0 \in T
  <2>1. F[0] = <<>> /\ <<>> \in Seq(U) /\ Len(<<>>) = 0 /\ DOMAIN <<>> = {}
    BY EmptySeq DEF IsGrowth
  <2>2. Apart(F[0])  BY <2>1 DEF Apart
  <2>3. F[0] \in Seq(U) /\ Len(F[0]) = 0  BY <2>1
  <2>4. P(0)  BY <2>2, <2>3
  <2>. QED  BY <2>4
<1>2. ASSUME NEW n \in Nat, n \in T PROVE n + 1 \in T
  <2> SUFFICES ASSUME n + 1 <= k PROVE P(n + 1)  OBVIOUS
  <2>1. P(n)  BY <1>2
  <2>2. F[n + 1] = Grown(F[n], ready)
    <3>1. n + 1 \in 1..k /\ (n + 1) - 1 = n  OBVIOUS
    <3>. QED  BY <3>1 DEF IsGrowth
  <2> DEFINE done == F[n]
             least == Least(ready[done])
  <2>3. done \in Seq(U) /\ Apart(done) /\ Len(done) <= n /\ Len(done) \in Nat
    BY <2>1, LenProperties
  <2>4. CASE ready[done] = {}
    <3>1. F[n + 1] = done  BY <2>2, <2>3, <2>4, GrownIsSeq
    <3>. QED  BY <2>3, <2>4, <3>1
  <2>5. CASE ready[done] # {}
    <3>1. F[n + 1] = Append(done, least) /\ least \in ready[done]
      BY <2>2, <2>3, <2>5, GrownIsSeq
    <3>2. least \in U /\ least \notin ToSet(done)  BY <2>3, <3>1
    <3>3. Len(done) = n  BY <2>1, <2>5
    <3> HIDE DEF done, least
    <3>4. /\ Append(done, least) \in Seq(U) /\ Len(Append(done, least)) = Len(done) + 1
          /\ Apart(Append(done, least))
      BY <2>3, <3>2, AppendMembers
    <3>. QED  BY <3>1, <3>3, <3>4
  <2>. QED  BY <2>4, <2>5
<1>3. Nat \subseteq T
  <2> HIDE DEF T
  <2>. QED  BY ONLY SetInduction, <1>1, <1>2
<1>. QED  BY <1>3

-----------------------------------------------------------------------------
(* topological_sort.                                                       *)
ReadyIn(deps) ==
  [done \in Seq(DOMAIN deps) |->
     {i \in DOMAIN deps \ ToSet(done) : deps[i] \subseteq ToSet(done)}]

LEMMA OrderIsGrowth ==
  ASSUME NEW deps, Len(deps) \in Nat, DOMAIN deps = 1..Len(deps)
  PROVE  /\ ReadyIn(deps) \in [Seq(DOMAIN deps) -> SUBSET DOMAIN deps]
         /\ \E F : /\ IsGrowth(F, Len(deps), ReadyIn(deps))
                   /\ TopologicalOrder(deps) = F[Len(deps)]
<1> DEFINE Ready(done) == {i \in DOMAIN deps \ ToSet(done) : deps[i] \subseteq ToSet(done)}
           Step(done) == IF Ready(done) = {} THEN done
                         ELSE Append(done, CHOOSE i \in Ready(done) :
                                             \A j \in Ready(done) : i <= j)
           k == Len(deps)
           F == CHOOSE f : f = [n \in 0..k |-> IF n = 0 THEN <<>> ELSE Step(f[n - 1])]
           U == DOMAIN deps
           ready == ReadyIn(deps)
<1>1. k \in Nat /\ U \subseteq Nat  OBVIOUS
<1>2. TopologicalOrder(deps) = F[k]  BY DEF TopologicalOrder
<1>3. ready \in [Seq(U) -> SUBSET U] /\ \A done \in Seq(U) : ready[done] = Ready(done)
  BY DEF ReadyIn
<1>4. \A done \in Seq(U) : Step(done) = Grown(done, ready)
  <2> SUFFICES ASSUME NEW done \in Seq(U) PROVE Step(done) = Grown(done, ready)  OBVIOUS
  <2>1. ready[done] = Ready(done)  BY <1>3
  <2> HIDE DEF Ready, ready
  <2>. QED  BY <2>1 DEF Grown
<1> HIDE DEF ready, Step, U, k
<1>5. PICK h \in [0..k -> Seq(U)] : GrowsBy(h, k, ready)  BY <1>1, <1>3, GrowthExists
<1>6. h = [n \in 0..k |-> IF n = 0 THEN <<>> ELSE Step(h[n - 1])]
  <2>1. ASSUME NEW n \in 1..k PROVE Grown(h[n - 1], ready) = Step(h[n - 1])
    <3>1. n - 1 \in 0..k  BY <1>1
    <3>2. h[n - 1] \in Seq(U)  BY <1>5, <3>1
    <3>. QED  BY <1>4, <3>2
  <2>2. h = [n \in 0..k |-> IF n = 0 THEN <<>> ELSE Grown(h[n - 1], ready)]
    BY <1>5 DEF GrowsBy
  <2>3. \A n \in 0..k : n = 0 \/ n \in 1..k  BY <1>1
  <2>. QED  BY <2>1, <2>2, <2>3
<1>7. F = [n \in 0..k |-> IF n = 0 THEN <<>> ELSE Step(F[n - 1])]  BY <1>6
<1> HIDE DEF F
<1>8. F[0] = <<>> /\ \A n \in 1..k : F[n] = Step(F[n - 1])  BY <1>1, <1>7
<1>9. \A n \in 1..k : F[n - 1] \in Seq(U) => F[n] = Grown(F[n - 1], ready)
  BY <1>4, <1>8
<1>10. IsGrowth(F, k, ready)  BY <1>1, <1>3, <1>8, <1>9, GrowthStays
<1>. QED  BY <1>2, <1>3, <1>10 DEF k, U, ready

(* What an operation depends on comes before it; and what is left when the *)
(* order is short depends on itself.                                       *)
InOrderOf(o, deps) ==
  \A i \in DOMAIN o : \A d \in deps[o[i]] : \E j \in 1..(i - 1) : o[j] = d

LEMMA OrderProperties ==
  ASSUME NEW deps, Len(deps) \in Nat, DOMAIN deps = 1..Len(deps),
         \A i \in DOMAIN deps : deps[i] \subseteq DOMAIN deps
  PROVE  LET o == TopologicalOrder(deps)
         IN /\ o \in Seq(DOMAIN deps) /\ Apart(o) /\ Len(o) <= Len(deps) /\ InOrderOf(o, deps)
            /\ Len(o) = Len(deps) => ToSet(o) = DOMAIN deps
            /\ Len(o) < Len(deps) =>
                 \E S \in SUBSET DOMAIN deps : S # {} /\ \A i \in S : deps[i] \cap S # {}
<1> DEFINE k == Len(deps)
           U == DOMAIN deps
           ready == ReadyIn(deps)
           o == TopologicalOrder(deps)
<1>1. k \in Nat /\ U \subseteq Nat /\ U = 1..k  OBVIOUS
<1>2. PICK F : IsGrowth(F, k, ready) /\ o = F[k]  BY OrderIsGrowth
<1>3. ready \in [Seq(U) -> SUBSET U]  BY OrderIsGrowth
<1>4. \A done \in Seq(U) :
        ready[done] = {i \in U \ ToSet(done) : deps[i] \subseteq ToSet(done)}
  BY DEF ReadyIn
<1> HIDE DEF k, ready, o
<1>5. \A n \in 0..k : /\ F[n] \in Seq(U) /\ Apart(F[n]) /\ Len(F[n]) <= n
                      /\ Len(F[n]) = n \/ ready[F[n]] = {}
  <2>1. \A done \in Seq(U) : ready[done] \cap ToSet(done) = {}  BY <1>4
  <2> HIDE DEF U
  <2>. QED  BY <1>1, <1>2, <1>3, <2>1, GrowthApart
<1>6. o \in Seq(U) /\ Apart(o) /\ Len(o) <= k /\ (Len(o) = k \/ ready[o] = {})
      /\ Len(o) \in Nat /\ DOMAIN o = 1..Len(o)
  <2>1. k \in 0..k  BY <1>1
  <2> HIDE DEF U
  <2>2. o \in Seq(U) /\ Apart(o) /\ Len(o) <= k /\ (Len(o) = k \/ ready[o] = {})
    BY <1>2, <1>5, <2>1
  <2>. QED  BY <2>2, LenProperties
<1>7. InOrderOf(o, deps)
  <2> DEFINE T == {n \in Nat : n <= k => InOrderOf(F[n], deps)}
  <2>1. 0 \in T  BY <1>2 DEF IsGrowth, InOrderOf
  <2>2. ASSUME NEW n \in Nat, n \in T PROVE n + 1 \in T
    <3> SUFFICES ASSUME n + 1 <= k PROVE InOrderOf(F[n + 1], deps)  OBVIOUS
    <3> DEFINE done == F[n]
               least == Least(ready[done])
    <3>1. InOrderOf(done, deps) /\ done \in Seq(U)  BY <1>1, <1>5, <2>2
    <3>2. F[n + 1] = Grown(done, ready)
      <4>1. n + 1 \in 1..k /\ (n + 1) - 1 = n  BY <1>1
      <4>. QED  BY <1>2, <4>1 DEF IsGrowth
    <3> HIDE DEF done, least
    <3>3. CASE ready[done] = {}
      <4>1. F[n + 1] = done  BY <1>1, <1>3, <3>1, <3>2, <3>3, GrownIsSeq
      <4>. QED  BY <3>1, <4>1
    <3>4. CASE ready[done] # {}
      <4>1. F[n + 1] = Append(done, least) /\ least \in ready[done]
        BY <1>1, <1>3, <3>1, <3>2, <3>4, GrownIsSeq DEF least
      <4>2. least \in U /\ deps[least] \subseteq ToSet(done)  BY <1>4, <3>1, <4>1
      <4> DEFINE a == Append(done, least)
      <4>3. /\ Len(done) \in Nat /\ DOMAIN done = 1..Len(done) /\ DOMAIN a = 1..Len(done) + 1
            /\ \A i \in 1..Len(done) : a[i] = done[i]
            /\ a[Len(done) + 1] = least
        BY <3>1, <4>2, AppendMembers
      <4> HIDE DEF a
      <4>4. ASSUME NEW i \in DOMAIN a, NEW d \in deps[a[i]] PROVE \E j \in 1..(i - 1) : a[j] = d
        <5>1. CASE i \in DOMAIN done
          <6>1. PICK j \in 1..(i - 1) : done[j] = d  BY <3>1, <4>3, <5>1 DEF InOrderOf
          <6>2. a[j] = d  BY <4>3, <5>1, <6>1
          <6>. QED  BY <6>2
        <5>2. CASE i = Len(done) + 1
          <6>1. d \in ToSet(done)  BY <4>2, <4>3, <5>2
          <6>2. PICK j \in DOMAIN done : done[j] = d  BY <6>1 DEF ToSet
          <6>3. j \in 1..(i - 1) /\ a[j] = d  BY <4>3, <5>2, <6>2
          <6>. QED  BY <6>3
        <5>. QED  BY <4>3, <5>1, <5>2
      <4>. QED  BY <4>1, <4>4 DEF InOrderOf, a
    <3>. QED  BY <3>3, <3>4
  <2>3. Nat \subseteq T
    <3> HIDE DEF T
    <3>. QED  BY ONLY SetInduction, <2>1, <2>2
  <2>. QED  BY <1>1, <1>2, <2>3
<1>8. ASSUME Len(o) = k PROVE ToSet(o) = U
  <2>1. o \in Injection(1..k, U)
    <3>1. o \in [1..k -> U]  BY <1>6, <1>8, ElementOfSeq
    <3>. QED  BY <1>6, <1>8, <3>1 DEF Apart, Injection, IsInjective
  <2>2. IsFiniteSet(U) /\ IsFiniteSet(1..k)  BY <1>1, FS_Interval
  <2>3. o \in Surjection(1..k, U)  BY <1>1, <2>1, <2>2, FS_Injection
  <2>. QED  BY <1>6, <1>8, <2>3 DEF Surjection, ToSet
<1>9. ASSUME Len(o) < k
      PROVE  \E S \in SUBSET U : S # {} /\ \A i \in S : deps[i] \cap S # {}
  <2> DEFINE S == U \ ToSet(o)
  <2>1. ready[o] = {}
    <3> HIDE DEF U, S
    <3>1. Len(o) \in Nat /\ k \in Nat /\ Len(o) < k  BY <1>1, <1>6, <1>9, Zenon
    <3>2. Len(o) # k  BY ONLY <3>1
    <3>3. Len(o) = k \/ ready[o] = {}  BY <1>6, Zenon
    <3>. QED  BY <3>2, <3>3, Zenon
  <2>2. S # {}
    <3> SUFFICES ASSUME U \subseteq ToSet(o) PROVE FALSE  OBVIOUS
    <3>1. o \in Surjection(1..Len(o), U)
      <4>1. o \in [1..Len(o) -> U]  BY <1>6, ElementOfSeq
      <4>. QED  BY <1>6, <4>1 DEF Surjection, ToSet
    <3>2. IsFiniteSet(1..Len(o)) /\ Cardinality(1..Len(o)) = Len(o) /\ Cardinality(1..k) = k
      <4> HIDE DEF U
      <4>1. \A n \in Nat : IsFiniteSet(1..n) /\ Cardinality(1..n) = n
        <5> SUFFICES ASSUME NEW n \in Nat PROVE IsFiniteSet(1..n) /\ Cardinality(1..n) = n
          OBVIOUS
        <5>1. 1 \in Int /\ n \in Int  OBVIOUS
        <5>2. IsFiniteSet(1..n) /\ Cardinality(1..n) = IF 1 > n THEN 0 ELSE n - 1 + 1
          BY <5>1, FS_Interval
        <5>. QED  BY <5>2
      <4>. QED  BY <1>1, <1>6, <4>1
    <3>3. IsFiniteSet(U) /\ Cardinality(U) <= Cardinality(1..Len(o))
      <4> HIDE DEF U
      <4>. QED  BY <3>1, <3>2, FS_Surjection
    <3>4. Cardinality(U) = k  BY <1>1, <3>2
    <3>5. Len(o) \in Nat /\ k \in Nat /\ Len(o) < k  BY <1>1, <1>6, <1>9
    <3>6. k <= Len(o)
      <4> HIDE DEF U
      <4>. QED  BY ONLY <3>2, <3>3, <3>4
    <3>. QED  BY ONLY <3>5, <3>6
  <2>3. ASSUME NEW i \in S PROVE deps[i] \cap S # {}
    <3>1. ~(deps[i] \subseteq ToSet(o))  BY <1>4, <1>6, <2>1
    <3>. QED  BY <3>1
  <2>. QED  BY <2>2, <2>3
<1>. QED  BY <1>6, <1>7, <1>8, <1>9 DEF k, o

-----------------------------------------------------------------------------
(* cutover_plan has every table once, and each after every table it refers *)
(* to unless there is a cycle.                                             *)
LEMMA PlanFacts ==
  ASSUME schema \in Schemas
  PROVE  /\ CutoverPlan \in Seq(Tables) /\ Len(CutoverPlan) \in Nat
         /\ Len(CutoverPlan) = Len(schema.tables)
         /\ DOMAIN CutoverPlan = 1..Len(CutoverPlan)
         /\ Apart(CutoverPlan) /\ ToSet(CutoverPlan) = Tables
         /\ ~Cyclic =>
              \A i \in DOMAIN CutoverPlan :
                \A u \in (schema.refs[CutoverPlan[i]] \cap Tables) \ {CutoverPlan[i]} :
                  \E j \in 1..(i - 1) : CutoverPlan[j] = u
<1> DEFINE names == schema.tables
           refs == schema.refs
           deps == [i \in DOMAIN names |->
                      {j \in DOMAIN names \ {i} : names[j] \in refs[names[i]]}]
           order == TopologicalOrder(deps)
           U == DOMAIN names
<1>1. /\ names \in Seq(Tables) /\ Apart(names) /\ ToSet(names) = Tables
      /\ Len(names) \in Nat /\ U = 1..Len(names)
  BY CutoverAssumption, LenProperties DEF Tables, Apart
<1>2. CutoverPlan = IF Len(order) < Len(names) THEN names
                    ELSE [i \in DOMAIN order |-> names[order[i]]]
  BY DEF CutoverPlan
<1>3. DOMAIN deps = U /\ \A i \in U : deps[i] = {j \in U \ {i} : names[j] \in refs[names[i]]}
  OBVIOUS
<1>4. Len(deps) = Len(names)
  <2>1. deps \in Seq({deps[i] : i \in U})
    BY <1>1, IsASeq
  <2>2. Len(deps) \in Nat /\ DOMAIN deps = 1..Len(deps)  BY <2>1, LenProperties
  <2> HIDE DEF deps, names
  <2>. QED  BY <1>1, <1>3, <2>2
<1> HIDE DEF deps, names, refs
<1>5. /\ order \in Seq(U) /\ Apart(order) /\ Len(order) <= Len(names)
      /\ InOrderOf(order, deps)
      /\ Len(order) = Len(names) => ToSet(order) = U
      /\ Len(order) < Len(names) =>
           \E S \in SUBSET U : S # {} /\ \A i \in S : deps[i] \cap S # {}
  <2>1. /\ Len(deps) \in Nat /\ DOMAIN deps = 1..Len(deps)
        /\ \A i \in DOMAIN deps : deps[i] \subseteq DOMAIN deps
    BY <1>1, <1>3, <1>4
  <2> HIDE DEF U
  <2>. QED  BY <1>3, <1>4, <2>1, OrderProperties
<1> HIDE DEF order
<1>6. Len(order) \in Nat /\ DOMAIN order = 1..Len(order) /\ \A i \in DOMAIN order : order[i] \in U
  <2> HIDE DEF U
  <2>1. Len(order) \in Nat /\ DOMAIN order = 1..Len(order)  BY <1>5, LenProperties
  <2>2. \A i \in 1..Len(order) : order[i] \in U  BY <1>5, ElementOfSeq
  <2>. QED  BY <2>1, <2>2
<1>7. \A i \in U : names[i] \in Tables  BY <1>1, ElementOfSeq
<1>8. CASE Len(order) < Len(names)
  <2>1. CutoverPlan = names  BY <1>2, <1>8
  <2>2. Cyclic
    <3>1. PICK S \in SUBSET U : S # {} /\ \A i \in S : deps[i] \cap S # {}  BY <1>5, <1>8
    <3> DEFINE R == {names[i] : i \in S}
    <3>2. R \in SUBSET Tables /\ R # {}  BY <1>7, <3>1
    <3>3. ASSUME NEW t \in R PROVE \E u \in R \ {t} : u \in refs[t]
      <4>1. PICK i \in S : t = names[i]  OBVIOUS
      <4>2. PICK j \in S : j \in deps[i]  BY <3>1
      <4>3. j \in U \ {i} /\ names[j] \in refs[t]  BY <1>3, <3>1, <4>1, <4>2
      <4>4. names[j] # t  BY <1>1, <3>1, <4>1, <4>3 DEF Apart
      <4>. QED  BY <4>3, <4>4
    <3> HIDE DEF R
    <3>. QED  BY <3>2, <3>3 DEF Cyclic, refs
  <2>3. Len(CutoverPlan) = Len(schema.tables)  BY <2>1 DEF names
  <2>. QED  BY <1>1, <2>1, <2>2, <2>3
<1>9. CASE Len(order) = Len(names)
  <2>1. CutoverPlan = [i \in DOMAIN order |-> names[order[i]]]  BY <1>1, <1>2, <1>9
  <2>2. DOMAIN CutoverPlan = 1..Len(names) /\ \A i \in 1..Len(names) :
          CutoverPlan[i] = names[order[i]] /\ order[i] \in U /\ CutoverPlan[i] \in Tables
    BY <1>6, <1>7, <1>9, <2>1
  <2>3. CutoverPlan \in Seq(Tables)
    <3>1. CutoverPlan = [i \in 1..Len(names) |-> CutoverPlan[i]]  BY <1>6, <1>9, <2>1
    <3>. QED  BY <1>1, <2>2, <3>1, IsASeq
  <2>4. Len(CutoverPlan) = Len(names)
    <3>1. Len(CutoverPlan) \in Nat /\ DOMAIN CutoverPlan = 1..Len(CutoverPlan)
      BY <2>3, LenProperties
    <3>. QED  BY <1>1, <2>2, <3>1
  <2>5. Apart(CutoverPlan)
    <3>1. ASSUME NEW i \in DOMAIN CutoverPlan, NEW j \in DOMAIN CutoverPlan,
                 CutoverPlan[i] = CutoverPlan[j]
          PROVE  i = j
      <4>1. order[i] = order[j]  BY <1>1, <2>2, <3>1 DEF Apart
      <4>. QED  BY <1>5, <1>6, <1>9, <2>2, <4>1 DEF Apart
    <3>. QED  BY <3>1 DEF Apart
  <2>6. ToSet(CutoverPlan) = Tables
    <3>1. ToSet(CutoverPlan) \subseteq Tables  BY <2>2 DEF ToSet
    <3>2. ASSUME NEW t \in Tables PROVE t \in ToSet(CutoverPlan)
      <4>1. PICK n \in U : names[n] = t  BY <1>1 DEF ToSet
      <4>2. PICK i \in DOMAIN order : order[i] = n  BY <1>5, <1>9 DEF ToSet
      <4>3. i \in DOMAIN CutoverPlan /\ CutoverPlan[i] = t  BY <1>6, <1>9, <2>2, <4>1, <4>2
      <4>. QED  BY <4>3 DEF ToSet
    <3>. QED  BY <3>1, <3>2
  <2>7. ASSUME NEW i \in DOMAIN CutoverPlan,
               NEW u \in (refs[CutoverPlan[i]] \cap Tables) \ {CutoverPlan[i]}
        PROVE  \E j \in 1..(i - 1) : CutoverPlan[j] = u
    <3>1. PICK n \in U : names[n] = u  BY <1>1 DEF ToSet
    <3>2. n \in deps[order[i]]
      <4>1. CutoverPlan[i] = names[order[i]] /\ order[i] \in U  BY <2>2
      <4>. QED  BY <1>3, <3>1, <4>1
    <3>3. PICK j \in 1..(i - 1) : order[j] = n  BY <1>5, <1>6, <1>9, <2>2, <3>2 DEF InOrderOf
    <3>4. j \in 1..Len(names)  BY <1>1, <2>2
    <3>. QED  BY <2>2, <3>1, <3>3, <3>4
  <2>8. Len(CutoverPlan) = Len(schema.tables)  BY <2>4 DEF names
  <2>. QED  BY <1>1, <2>2, <2>3, <2>4, <2>5, <2>6, <2>7, <2>8 DEF refs
<1>10. Len(order) < Len(names) \/ Len(order) = Len(names)
  <2>1. Len(order) \in Nat /\ Len(names) \in Nat /\ Len(order) <= Len(names)
    BY <1>1, <1>5, <1>6
  <2>. QED  BY ONLY <2>1
<1>. QED  BY ONLY <1>8, <1>9, <1>10

(* A batch query returns the first rows after the key, in their order, and *)
(* a batch that is short all of them.                                      *)
Increasing(s, E) ==
  /\ \A i, j \in DOMAIN s : i < j => s[i] < s[j]
  /\ \A i \in DOMAIN s, x \in E \ ToSet(s) : s[i] < x

Remaining(E) == [done \in Seq(E) |-> E \ ToSet(done)]

LEMMA GrowthIncreasing ==
  ASSUME NEW E, E \subseteq Nat, NEW k \in Nat, NEW F, IsGrowth(F, k, Remaining(E))
  PROVE  /\ F[k] \in Seq(E) /\ Increasing(F[k], E) /\ Len(F[k]) <= k
         /\ Len(F[k]) = k \/ E \subseteq ToSet(F[k])
<1> DEFINE ready == Remaining(E)
           T == {n \in Nat : n <= k => Increasing(F[n], E)}
<1>1. ready \in [Seq(E) -> SUBSET E] /\ \A done \in Seq(E) : ready[done] = E \ ToSet(done)
  BY DEF Remaining
<1> HIDE DEF ready
<1>2. \A n \in 0..k : /\ F[n] \in Seq(E) /\ Apart(F[n]) /\ Len(F[n]) <= n
                      /\ Len(F[n]) = n \/ ready[F[n]] = {}
  <2>1. \A done \in Seq(E) : ready[done] \cap ToSet(done) = {}  BY <1>1
  <2>2. IsGrowth(F, k, ready)  BY DEF ready
  <2>. QED  BY <1>1, <2>1, <2>2, GrowthApart
<1>3. 0 \in T
  <2>1. F[0] = <<>> /\ DOMAIN <<>> = {}  BY DEF IsGrowth
  <2>. QED  BY <2>1 DEF Increasing
<1>4. ASSUME NEW n \in Nat, n \in T PROVE n + 1 \in T
  <2> SUFFICES ASSUME n + 1 <= k PROVE Increasing(F[n + 1], E)  OBVIOUS
  <2> DEFINE done == F[n]
             least == Least(ready[done])
  <2>1. Increasing(done, E)  BY <1>4
  <2>2. done \in Seq(E)
    <3>1. n \in 0..k  OBVIOUS
    <3>. QED  BY <1>2, <3>1
  <2>3. F[n + 1] = Grown(done, ready)
    <3>1. n + 1 \in 1..k /\ (n + 1) - 1 = n  OBVIOUS
    <3>. QED  BY <3>1 DEF IsGrowth, ready
  <2> HIDE DEF done, least
  <2>4. CASE ready[done] = {}
    <3>1. F[n + 1] = done  BY <1>1, <2>2, <2>3, <2>4, GrownIsSeq
    <3>. QED  BY <2>1, <3>1
  <2>5. CASE ready[done] # {}
    <3>1. /\ F[n + 1] = Append(done, least) /\ least \in ready[done]
          /\ \A x \in ready[done] : least <= x
      BY <1>1, <2>2, <2>3, <2>5, GrownIsSeq DEF least
    <3>2. /\ least \in E /\ least \notin ToSet(done)
          /\ \A x \in E \ ToSet(done) : least <= x
      BY <1>1, <2>2, <3>1
    <3> DEFINE a == Append(done, least)
    <3>3. /\ Len(done) \in Nat /\ DOMAIN done = 1..Len(done) /\ DOMAIN a = 1..Len(done) + 1
          /\ \A i \in 1..Len(done) : a[i] = done[i]
          /\ a[Len(done) + 1] = least /\ ToSet(a) = ToSet(done) \cup {least}
      BY <2>2, <3>2, AppendMembers
    <3> HIDE DEF a
    <3>4. \A i \in DOMAIN a : i \in DOMAIN done \/ i = Len(done) + 1  BY <3>3
    <3>5. \A i \in DOMAIN done : a[i] = done[i]  BY <3>3
    <3>6. ASSUME NEW i \in DOMAIN a, NEW j \in DOMAIN a, i < j PROVE a[i] < a[j]
      <4>1. i \in DOMAIN done /\ a[i] = done[i]  BY <3>3, <3>6
      <4>2. CASE j \in DOMAIN done  BY <2>1, <3>5, <3>6, <4>1, <4>2 DEF Increasing
      <4>3. CASE j = Len(done) + 1  BY <2>1, <3>2, <3>3, <4>1, <4>3 DEF Increasing
      <4>. QED  BY <3>4, <4>2, <4>3
    <3>7. ASSUME NEW i \in DOMAIN a, NEW x \in E \ ToSet(a) PROVE a[i] < x
      <4>1. x \in E \ ToSet(done) /\ x # least /\ x \in Nat /\ least \in Nat  BY <3>2, <3>3
      <4>2. CASE i \in DOMAIN done  BY <2>1, <3>5, <4>1, <4>2 DEF Increasing
      <4>3. CASE i = Len(done) + 1
        <5>1. least <= x  BY <3>2, <4>1
        <5>2. a[i] = least  BY <3>3, <4>3
        <5>. QED  BY <4>1, <5>1, <5>2
      <4>. QED  BY <3>4, <4>2, <4>3
    <3>. QED  BY <3>1, <3>6, <3>7 DEF Increasing, a
  <2>. QED  BY <2>4, <2>5
<1>5. Nat \subseteq T
  <2> HIDE DEF T
  <2>. QED  BY ONLY SetInduction, <1>3, <1>4
<1>6. k \in T /\ k \in 0..k  BY <1>5
<1>. QED  BY <1>1, <1>2, <1>6

Present(after) == {k \in Keys : k > after /\ source[<<Table, k>>] # Absent}

IsBatch(keys, after) ==
  /\ keys \in Seq(Present(after)) /\ Increasing(keys, Present(after))
  /\ Len(keys) < batchSize => Present(after) \subseteq ToSet(keys)

LEMMA BatchFacts ==
  ASSUME batchSize \in BatchSizes, NEW after \in Nat
  PROVE  IsBatch(CopyBatch(after), after)
<1> DEFINE E == Present(after)
           left(done) == {k \in Keys \ ToSet(done) : k > after /\ source[<<Table, k>>] # Absent}
           Step(done) == IF left(done) = {} THEN done
                         ELSE Append(done, CHOOSE k \in left(done) : \A j \in left(done) : k <= j)
           k == batchSize
           F == CHOOSE f : f = [n \in 0..k |-> IF n = 0 THEN <<>> ELSE Step(f[n - 1])]
           ready == Remaining(E)
<1>1. k \in Nat /\ E \subseteq Nat  BY CutoverAssumption DEF Present
<1>2. CopyBatch(after) = F[k]  BY DEF CopyBatch, BatchAfter
<1>3. ready \in [Seq(E) -> SUBSET E] /\ \A done \in Seq(E) : ready[done] = left(done)
  BY DEF Remaining, Present
<1>4. \A done \in Seq(E) : Step(done) = Grown(done, ready)
  <2> SUFFICES ASSUME NEW done \in Seq(E) PROVE Step(done) = Grown(done, ready)  OBVIOUS
  <2>1. ready[done] = left(done)  BY <1>3
  <2> HIDE DEF left, ready
  <2>. QED  BY <2>1 DEF Grown
<1> HIDE DEF ready, Step, E, k
<1>5. PICK h \in [0..k -> Seq(E)] : GrowsBy(h, k, ready)  BY <1>1, <1>3, GrowthExists
<1>6. h = [n \in 0..k |-> IF n = 0 THEN <<>> ELSE Step(h[n - 1])]
  <2>1. ASSUME NEW n \in 1..k PROVE Grown(h[n - 1], ready) = Step(h[n - 1])
    <3>1. n - 1 \in 0..k  BY <1>1
    <3>2. h[n - 1] \in Seq(E)  BY <1>5, <3>1
    <3>. QED  BY <1>4, <3>2
  <2>2. h = [n \in 0..k |-> IF n = 0 THEN <<>> ELSE Grown(h[n - 1], ready)]
    BY <1>5 DEF GrowsBy
  <2>3. \A n \in 0..k : n = 0 \/ n \in 1..k  BY <1>1
  <2>. QED  BY <2>1, <2>2, <2>3
<1>7. F = [n \in 0..k |-> IF n = 0 THEN <<>> ELSE Step(F[n - 1])]  BY <1>6
<1> HIDE DEF F
<1>8. F[0] = <<>> /\ \A n \in 1..k : F[n] = Step(F[n - 1])  BY <1>1, <1>7
<1>9. \A n \in 1..k : F[n - 1] \in Seq(E) => F[n] = Grown(F[n - 1], ready)
  BY <1>4, <1>8
<1>10. IsGrowth(F, k, ready)  BY <1>1, <1>3, <1>8, <1>9, GrowthStays
<1>11. /\ F[k] \in Seq(E) /\ Increasing(F[k], E) /\ Len(F[k]) <= k
       /\ Len(F[k]) = k \/ E \subseteq ToSet(F[k])
  BY <1>1, <1>10, GrowthIncreasing DEF ready
<1>12. Len(F[k]) \in Nat  BY <1>11, LenProperties
<1> DEFINE keys == F[k]
<1>13. keys \in Seq(E) /\ Increasing(keys, E) /\ (Len(keys) < k => E \subseteq ToSet(keys))
  BY <1>1, <1>11, <1>12
<1> HIDE DEF keys
<1>. QED  BY <1>2, <1>13 DEF IsBatch, E, k, keys

-----------------------------------------------------------------------------
(* The schema does not change, and all that is said of it.                 *)
LEMMA Steady ==
  ASSUME UNCHANGED settings
  PROVE  /\ schema' = schema /\ batchSize' = batchSize
         /\ Tables' = Tables /\ Rows' = Rows /\ Queries' = Queries /\ Copies' = Copies
         /\ CutoverPlan' = CutoverPlan
         /\ \A row : Parents(row)' = Parents(row)
<1>1. schema' = schema /\ batchSize' = batchSize  BY DEF settings
<1>2. Tables' = Tables /\ Rows' = Rows  BY <1>1 DEF Tables, Rows
<1>3. Queries' = Queries  BY <1>2 DEF Queries
<1>4. Copies' = Copies  BY <1>2, <1>3 DEF Copies
<1>5. CutoverPlan' = CutoverPlan  BY <1>1 DEF CutoverPlan
<1>6. \A row : Parents(row)' = Parents(row)  BY <1>1, <1>2 DEF Parents
<1>. QED  BY <1>1, <1>2, <1>3, <1>4, <1>5, <1>6

LEMMA RowFacts ==
  /\ \A row \in Rows : row = <<row[1], row[2]>> /\ row[1] \in Tables /\ row[2] \in Keys
                       /\ row[2] \in Nat /\ row[2] > 0
  /\ \A t \in Tables, k \in Keys : <<t, k>> \in Rows /\ <<t, k>>[1] = t /\ <<t, k>>[2] = k
  /\ \A row \in Rows : Parents(row) \subseteq Rows
<1>1. \A row \in Rows : row = <<row[1], row[2]>> /\ row[1] \in Tables /\ row[2] \in Keys
  BY DEF Rows
<1>2. \A k \in Keys : k \in Nat /\ k > 0  BY CutoverAssumption
<1>3. \A t \in Tables, k \in Keys : <<t, k>> \in Rows /\ <<t, k>>[1] = t /\ <<t, k>>[2] = k
  BY DEF Rows
<1>4. \A row \in Rows : Parents(row) \subseteq Rows  BY <1>1, <1>3 DEF Parents
<1>. QED  BY <1>1, <1>2, <1>3, <1>4

LEMMA QueryFacts ==
  ASSUME NEW q \in Queries, schema \in Schemas
  PROVE  /\ q # None /\ q.row \in Rows /\ q.val \in Vals \cup {Absent}
         /\ q.op \in QueryOps /\ (q.op # "delete" => q.val \in Vals)
<1>1. /\ q \in [op : QueryOps, row : Rows, val : Vals \cup {Absent}]
      /\ q.row \in Rows /\ q.val \in Vals \cup {Absent}
      /\ q.op \in QueryOps /\ (q.op # "delete" => q.val \in Vals)
  BY DEF Queries, Insert, QueryOps
<1>2. None \notin [op : QueryOps, row : Rows, val : Vals \cup {Absent}]
  BY NoneAssumption DEF Rows, Tables
<1>. QED  BY <1>1, <1>2

Databases == [Rows -> Vals \cup {Absent}]

LEMMA ExecuteFacts ==
  ASSUME NEW db \in Databases, NEW q \in Queries, schema \in Schemas
  PROVE  /\ Execute(db, q) \in Databases
         /\ \A row \in Rows :
              Execute(db, q)[row] = IF row = q.row THEN Result(db[row], q) ELSE db[row]
<1>1. q.row \in Rows /\ q.val \in Vals \cup {Absent}  BY QueryFacts
<1>2. Execute(db, q) = [db EXCEPT ![q.row] = Result(db[q.row], q)]
  BY <1>1 DEF Execute, Result, Databases
<1>3. Result(db[q.row], q) \in Vals \cup {Absent}  BY <1>1 DEF Result
<1>. QED  BY <1>1, <1>2, <1>3 DEF Databases

(* Foreign keys.                                                           *)
LEMMA SourceStaysIntact ==
  ASSUME Typed, SourceIntact, UNCHANGED settings,
         NEW q \in Queries, ~Refuses(source, q), source' = Execute(source, q)
  PROVE  SourceIntact'
<1>1. schema \in Schemas /\ source \in Databases  BY DEF Typed, Databases
<1>2. /\ source' \in Databases /\ q.row \in Rows
      /\ \A row \in Rows :
           source'[row] = IF row = q.row THEN Result(source[row], q) ELSE source[row]
  BY <1>1, ExecuteFacts, QueryFacts
<1>3. q.op \in QueryOps /\ (q.op # "delete" => q.val \in Vals)  BY <1>1, QueryFacts
<1>4. Rows' = Rows /\ \A row : Parents(row)' = Parents(row)  BY Steady
<1> SUFFICES ASSUME NEW row \in Rows, source'[row] # Absent, NEW parent \in Parents(row)
             PROVE  source'[parent] # Absent
  BY <1>4 DEF SourceIntact
<1>5. parent \in Rows  BY RowFacts
<1>6. source[parent] # Absent
  <2>1. CASE source[row] # Absent  BY <2>1 DEF SourceIntact
  <2>2. CASE source[row] = Absent
    <3>1. row = q.row /\ q.op = "insert"  BY <1>2, <1>3, <2>2 DEF Result, QueryOps
    <3>. QED  BY <3>1 DEF Refuses
  <2>. QED  BY <2>1, <2>2
<1>7. CASE parent # q.row  BY <1>2, <1>5, <1>6, <1>7
<1>8. CASE parent = q.row
  <2>1. q.op # "delete"
    <3> SUFFICES ASSUME q.op = "delete" PROVE FALSE  OBVIOUS
    <3>1. source'[q.row] = Absent  BY <1>2 DEF Result
    <3>2. row # q.row  BY <3>1
    <3>3. source[row] # Absent  BY <1>2, <3>2
    <3>. QED  BY <1>6, <1>8, <3>3 DEF Refuses
  <2>2. source'[parent] = q.val  BY <1>2, <1>5, <1>6, <1>8, <2>1 DEF Result
  <2>3. q.val # Absent  BY <1>3, <2>1, CutoverAssumption
  <2>. QED  BY <2>2, <2>3
<1>. QED  BY <1>7, <1>8

LEMMA InTransfer ==
  ASSUME CutoverInv, ~TransferDone
  PROVE  /\ phase = "bulk_transfer" /\ Table \in Tables /\ ~Done(Table)
         /\ position \in Nat /\ position + 1 \in 1..(Len(CutoverPlan) + 1)
         /\ \A w \in Writers : query[w] = None
<1>1. /\ schema \in Schemas /\ position \in 1..(Len(CutoverPlan) + 1)
      /\ phase = "bulk_transfer" /\ \A w \in Writers : query[w] = None
  BY DEF CutoverInv, Typed, PhasesApart
<1>2. /\ CutoverPlan \in Seq(Tables) /\ Len(CutoverPlan) \in Nat
      /\ DOMAIN CutoverPlan = 1..Len(CutoverPlan)
      /\ Apart(CutoverPlan) /\ ToSet(CutoverPlan) = Tables
  BY <1>1, PlanFacts
<1>3. position \in Nat /\ position \in DOMAIN CutoverPlan
      /\ position + 1 \in 1..(Len(CutoverPlan) + 1)
  BY <1>1, <1>2 DEF TransferDone
<1>4. Table \in Tables  BY <1>2, <1>3 DEF Table, ToSet
<1>5. ~Done(Table)
  <2> SUFFICES ASSUME NEW i \in 1..(position - 1), CutoverPlan[i] = CutoverPlan[position]
               PROVE  FALSE
    BY DEF Done, Table
  <2>1. i \in DOMAIN CutoverPlan /\ i # position  BY <1>2, <1>3
  <2>. QED  BY <1>2, <1>3, <2>1 DEF Apart
<1>. QED  BY <1>1, <1>3, <1>4, <1>5

LEMMA UnderWay ==
  ASSUME CutoverInv, copy # None
  PROVE  /\ ~TransferDone /\ phase = "bulk_transfer" /\ copy \in Copies
         /\ copy.after \in Keys \cup {0} /\ copy.after \in Nat /\ copy.last \in BOOLEAN /\ copy.rows \in Seq(Queries)
         /\ copy.found \in SUBSET Rows
<1>1. copy \in Copies /\ ~TransferDone  BY DEF CutoverInv, Typed, PhasesApart
<1>2. /\ copy.after \in Keys \cup {0} /\ copy.last \in BOOLEAN
      /\ copy.rows \in Seq(Queries) /\ copy.found \in SUBSET Rows
  BY <1>1 DEF Copies
<1>3. copy.after \in Nat
  <2>1. Keys \subseteq Nat  BY CutoverAssumption
  <2>2. \A k \in Keys \cup {0} : k \in Nat  BY <2>1
  <2>. QED  BY <1>2, <2>2
<1>. QED  BY <1>1, <1>2, <1>3, InTransfer

(* A row nobody wrote agrees as long as it strays for a reason.            *)
LEMMA StrayFacts ==
  ASSUME NEW reason, Stray(reason), strayed \subseteq Rows, reason \subseteq Rows
  PROVE  /\ strayed' \subseteq Rows /\ strayed' \subseteq strayed \cup reason
         /\ \A row \in strayed \cup reason :
              row \in strayed' \/ (source'[row] = dest'[row] /\ Settled(row)')
BY DEF Stray

-----------------------------------------------------------------------------
(* The invariant holds at first, and every action keeps it.                *)
LEMMA CutoverInitially == Init => CutoverInv
<1> SUFFICES ASSUME Init PROVE CutoverInv  OBVIOUS
<1>1. schema \in Schemas /\ phase = "bulk_transfer" /\ position = 1 /\ copy = None
      /\ strayed = {} /\ query = [w \in Writers |-> None]
      /\ dest = [row \in Rows |-> Absent]
  BY DEF Init
<1>2. Len(CutoverPlan) \in Nat  BY <1>1, PlanFacts
<1>3. PICK filled \in SUBSET Rows, val \in Vals :
        /\ \A row \in filled : Parents(row) \subseteq filled
        /\ source = [row \in Rows |-> IF row \in filled THEN val ELSE Absent]
  BY DEF Init
<1>4. Typed
  <2>1. position \in 1..(Len(CutoverPlan) + 1)  BY <1>1, <1>2
  <2>. QED  BY <1>1, <1>3, <2>1 DEF Typed, Init, Phases
<1>5. PhasesApart  BY <1>1 DEF PhasesApart
<1>6. SourceIntact
  <2>1. \A row \in Rows : Parents(row) \subseteq Rows  BY RowFacts
  <2>. QED  BY <1>3, <2>1, CutoverAssumption DEF SourceIntact
<1>7. CopyFits  BY <1>1 DEF CopyFits
<1>8. TransferAgrees
  <2>1. \A row \in Rows : dest[row] = Absent  BY <1>1
  <2>2. \A t : ~Done(t)  BY <1>1 DEF Done
  <2>3. \A row : ~Reached(row)  BY <1>1 DEF Reached
  <2>. QED  BY <2>1, <2>2, <2>3 DEF TransferAgrees
<1>9. MirrorAgrees /\ DivergenceExplained  BY <1>1 DEF MirrorAgrees, DivergenceExplained
<1>. QED  BY <1>4, <1>5, <1>6, <1>7, <1>8, <1>9 DEF CutoverInv

(* What a step of the transfer that leaves the source and the phase keeps. *)
LEMMA TransferStep ==
  ASSUME CutoverInv, ~TransferDone, UNCHANGED <<settings, phase, source, query>>,
         dest' \in Databases, strayed' \subseteq Rows,
         position' \in 1..(Len(CutoverPlan) + 1),
         copy' = None \/ copy' \in Copies,
         TransferDone' => copy' = None,
         CopyFits', TransferAgrees'
  PROVE  CutoverInv'
<1>1. /\ phase = "bulk_transfer" /\ phase' = "bulk_transfer"
      /\ \A w \in Writers : query'[w] = None
  BY InTransfer
<1>2. /\ schema' = schema /\ batchSize' = batchSize /\ Rows' = Rows /\ Queries' = Queries
      /\ Copies' = Copies /\ CutoverPlan' = CutoverPlan
      /\ \A row : Parents(row)' = Parents(row)
  BY Steady
<1>3. Typed'  BY <1>1, <1>2 DEF CutoverInv, Typed, Databases, Phases
<1>4. PhasesApart'  BY <1>1 DEF PhasesApart
<1>5. SourceIntact'  BY <1>2 DEF CutoverInv, SourceIntact
<1>6. MirrorAgrees' /\ DivergenceExplained'  BY <1>1 DEF MirrorAgrees, DivergenceExplained
<1>. QED  BY <1>3, <1>4, <1>5, <1>6 DEF CutoverInv

LEMMA StartCopyKeeps == CutoverInv /\ StartCopy => CutoverInv'
<1> SUFFICES ASSUME CutoverInv, StartCopy PROVE CutoverInv'  OBVIOUS
<1> DEFINE found == {row \in Rows : row[1] = Table /\ dest[row] # Absent}
<1>1. /\ phase = "bulk_transfer" /\ ~TransferDone /\ copy = None
      /\ copy' = [after |-> 0, last |-> FALSE, rows |-> <<>>, found |-> found]
      /\ UNCHANGED <<settings, phase, source, dest, position, query, strayed, writes, faults>>
  BY DEF StartCopy
<1>2. found \in SUBSET Rows  OBVIOUS
<1>3. \A row \in Rows : row[1] = Table /\ dest[row] # Absent => row \in found  OBVIOUS
<1> HIDE DEF found
<1>4. copy' \in Copies  BY <1>1, <1>2, EmptySeq DEF Copies
<1>5. /\ copy'.after = 0 /\ copy'.last = FALSE /\ copy'.rows = <<>> /\ copy'.found = found
      /\ DOMAIN copy'.rows = {}
  BY <1>1
<1>6. /\ Rows' = Rows /\ CutoverPlan' = CutoverPlan /\ Table' = Table
      /\ TransferDone' = TransferDone /\ \A t : Done(t)' = Done(t)
  BY <1>1, Steady DEF Table, TransferDone, Done
<1>7. \A row : Agrees(row)' = Agrees(row)  BY <1>1 DEF Agrees
<1>8. CopyFits'  BY <1>1, <1>3, <1>5, <1>6 DEF CopyFits
<1>9. \A row \in Rows : ~Reached(row)'
  <2>1. \A row \in Rows : row[2] \in Nat /\ row[2] > 0  BY RowFacts
  <2>2. \A row \in Rows : ~(row[2] <= 0)  BY <2>1
  <2>. QED  BY <1>5, <2>2 DEF Reached
<1>10. TransferAgrees'
  BY <1>1, <1>6, <1>7, <1>9 DEF CutoverInv, TransferAgrees
<1>11. dest' \in Databases /\ strayed' \subseteq Rows /\ position' \in 1..(Len(CutoverPlan) + 1)
  BY <1>1 DEF CutoverInv, Typed, Databases
<1>. QED  BY <1>1, <1>4, <1>6, <1>8, <1>10, <1>11, TransferStep

(* bulk_copy_table returns: the table is done.                             *)
LEMMA CopiedDone ==
  ASSUME CutoverInv, ~TransferDone, Copied, UNCHANGED settings
  PROVE  /\ copy' = None /\ position' \in 1..(Len(CutoverPlan) + 1)
         /\ \A t : Done(t)' <=> Done(t) \/ t = Table
<1>1. /\ position \in Nat /\ position + 1 \in 1..(Len(CutoverPlan) + 1)
      /\ position \in 1..(Len(CutoverPlan) + 1)
  BY InTransfer DEF CutoverInv, Typed
<1>2. copy' = None /\ position' = position + 1 /\ CutoverPlan' = CutoverPlan
  BY Steady DEF Copied
<1>3. \A t : Done(t)' <=> Done(t) \/ t = Table
  <2>1. \A i : i \in 1..(position' - 1) <=> i \in 1..(position - 1) \/ i = position
    BY <1>1, <1>2
  <2>. QED  BY <1>2, <2>1 DEF Done, Table
<1>. QED  BY <1>1, <1>2, <1>3

LEMMA ReadBatchKeeps == CutoverInv /\ ReadBatch => CutoverInv'
<1> SUFFICES ASSUME CutoverInv, ReadBatch PROVE CutoverInv'  OBVIOUS
<1> DEFINE keys == CopyBatch(copy.after)
           next == [after |-> keys[Len(keys)], last |-> Len(keys) < batchSize,
                    rows |-> [i \in DOMAIN keys |->
                                Insert(<<Table, keys[i]>>, source[<<Table, keys[i]>>])],
                    found |-> copy.found]
           E == Present(copy.after)
<1>1. /\ copy # None /\ copy.rows = <<>>
      /\ UNCHANGED <<settings, phase, source, dest, query, strayed, writes, faults>>
      /\ (keys = <<>> /\ Copied) \/ (keys # <<>> /\ copy' = next /\ position' = position)
  BY DEF ReadBatch
<1>2. /\ ~TransferDone /\ phase = "bulk_transfer" /\ Table \in Tables
      /\ copy.after \in Nat /\ copy.found \in SUBSET Rows /\ batchSize \in BatchSizes
      /\ source \in Databases /\ dest \in Databases /\ strayed \subseteq Rows
      /\ position \in 1..(Len(CutoverPlan) + 1)
  BY <1>1, UnderWay, InTransfer DEF CutoverInv, Typed, Databases
<1>3. ~copy.last /\ \A row : ~Pending(row)
  BY <1>1 DEF CutoverInv, CopyFits, Pending
<1>4. /\ keys \in Seq(E) /\ Increasing(keys, E)
      /\ Len(keys) < batchSize => E \subseteq ToSet(keys)
      /\ E \subseteq Keys /\ E \subseteq Nat /\ \A k \in E : k > copy.after
      /\ \A k \in Keys : k > copy.after /\ k \notin E => source[<<Table, k>>] = Absent
      /\ \A k \in E : source[<<Table, k>>] \in Vals
  <2>1. IsBatch(keys, copy.after)  BY <1>2, BatchFacts
  <2>2. \A k \in E : source[<<Table, k>>] \in Vals
    BY <1>2, RowFacts DEF Databases, Present
  <2> HIDE DEF keys
  <2>3. E \subseteq Keys /\ E \subseteq Nat /\ \A k \in E : k > copy.after
    BY CutoverAssumption DEF Present
  <2>4. \A k \in Keys : k > copy.after /\ k \notin E => source[<<Table, k>>] = Absent
    BY DEF Present
  <2>. QED  BY <2>1, <2>2, <2>3, <2>4 DEF IsBatch
<1>5. dest' \in Databases /\ strayed' \subseteq Rows
      /\ Rows' = Rows /\ CutoverPlan' = CutoverPlan /\ \A row : Agrees(row)' = Agrees(row)
  BY <1>1, <1>2, Steady DEF Agrees
<1>6. batchSize \in Nat /\ batchSize > 0 /\ Len(keys) \in Nat /\ DOMAIN keys = 1..Len(keys)
  BY <1>2, <1>4, CutoverAssumption, LenProperties
<1>7. \A row \in Rows : dest[row] # Absent =>
        Agrees(row) /\ (Done(row[1]) \/ row[1] = Table)
  BY <1>2 DEF CutoverInv, TransferAgrees
<1>8. \A row \in Rows : Done(row[1]) => Agrees(row)
  BY <1>2 DEF CutoverInv, TransferAgrees
<1> HIDE DEF keys, E, next
\* A row of the table that is not read agrees: it came before, or it is not there.
<1>9. ASSUME NEW row \in Rows, row[1] = Table, row[2] \notin E PROVE Agrees(row)
  <2>1. row[2] \in Keys /\ row[2] \in Nat /\ row = <<Table, row[2]>>  BY <1>9, RowFacts
  <2>2. CASE row[2] <= copy.after
    <3>1. Reached(row)  BY <1>1, <1>9, <2>2 DEF Reached
    <3>. QED  BY <1>2, <1>3, <3>1 DEF CutoverInv, TransferAgrees
  <2>3. CASE row[2] > copy.after
    <3>1. source[row] = Absent  BY <1>4, <1>9, <2>1, <2>3
    <3>2. CASE dest[row] = Absent  BY <3>1, <3>2 DEF Agrees
    <3>. QED  BY <1>7, <3>2
  <2>. QED  BY <1>2, <2>1, <2>2, <2>3
<1>10. CASE keys = <<>> /\ Copied
  <2>1. /\ copy' = None /\ position' \in 1..(Len(CutoverPlan) + 1)
        /\ \A t : Done(t)' <=> Done(t) \/ t = Table
    BY <1>1, <1>2, <1>10, CopiedDone
  <2>2. \A row \in Rows : row[1] = Table => Agrees(row)
    <3>1. Len(keys) = 0 /\ ToSet(keys) = {}  BY <1>10 DEF ToSet
    <3>2. E = {}  BY <1>4, <1>6, <3>1
    <3>. QED  BY <1>9, <3>2
  <2>3. CopyFits'  BY <2>1 DEF CopyFits
  <2>4. TransferAgrees'
    <3>1. \A row \in Rows : Done(row[1])' => Agrees(row)'  BY <1>5, <1>8, <2>1, <2>2
    <3>2. \A row : ~Reached(row)'  BY <2>1 DEF Reached
    <3>3. \A row \in Rows : dest'[row] # Absent => Agrees(row)' /\ Done(row[1])'
      BY <1>1, <1>5, <1>7, <2>1
    <3>. QED  BY <1>5, <3>1, <3>2, <3>3 DEF TransferAgrees
  <2>. QED  BY <1>1, <1>2, <1>5, <2>1, <2>3, <2>4, TransferStep
<1>11. CASE keys # <<>> /\ copy' = next /\ position' = position
  <2> DEFINE n == Len(keys)
  <2>1. n \in DOMAIN keys /\ n \in 1..n
    <3>1. n # 0  BY <1>4, <1>11, EmptySeq
    <3>. QED  BY <1>6, <3>1
  <2>2. \A i \in DOMAIN keys : keys[i] \in E  BY <1>4, <1>6, ElementOfSeq
  <2>3. /\ Table' = Table /\ TransferDone' = TransferDone /\ \A t : Done(t)' = Done(t)
    BY <1>5, <1>11 DEF Table, TransferDone, Done
  <2>4. /\ copy'.after = keys[n] /\ copy'.last = (n < batchSize) /\ copy'.found = copy.found
        /\ copy'.rows = [i \in DOMAIN keys |->
                           Insert(<<Table, keys[i]>>, source[<<Table, keys[i]>>])]
    BY <1>11 DEF next
  <2>5. /\ DOMAIN copy'.rows = DOMAIN keys
        /\ \A i \in DOMAIN keys :
             /\ copy'.rows[i].op = "insert" /\ copy'.rows[i].row = <<Table, keys[i]>>
             /\ copy'.rows[i].row[1] = Table /\ copy'.rows[i].row[2] = keys[i]
             /\ copy'.rows[i].val = source[<<Table, keys[i]>>]
             /\ copy'.rows[i] \in Queries
    <3>1. \A i \in DOMAIN keys : /\ <<Table, keys[i]>> \in Rows
                                 /\ source[<<Table, keys[i]>>] \in Vals
      BY <1>2, <1>4, <2>2, RowFacts
    <3>. QED  BY <2>4, <3>1 DEF Insert, Queries
  <2>6. \A i \in DOMAIN keys : keys[i] \in Nat /\ keys[i] > copy.after /\ keys[i] <= keys[n]
    <3>1. \A i \in DOMAIN keys : keys[i] \in Nat /\ keys[i] > copy.after  BY <1>4, <2>2
    <3>2. \A i \in DOMAIN keys : i < n \/ i = n  BY <1>6
    <3>3. \A i \in DOMAIN keys : i < n => keys[i] < keys[n]  BY <1>4, <2>1 DEF Increasing
    <3>. QED  BY <2>1, <3>1, <3>2, <3>3
  <2>7. copy' \in Copies
    <3>1. copy'.rows \in Seq(Queries)
      <4>1. copy'.rows \in [1..n -> Queries]  BY <1>6, <2>4, <2>5
      <4>. QED  BY <1>6, <4>1, SeqDef
    <3>2. copy' = [after |-> copy'.after, last |-> copy'.last, rows |-> copy'.rows,
                   found |-> copy'.found]
      BY <1>11, <2>4 DEF next
    <3>3. copy'.after \in Keys \cup {0} /\ copy'.last \in BOOLEAN /\ copy'.found \in SUBSET Rows
      <4>1. keys[n] \in E  BY <2>1, <2>2
      <4>2. keys[n] \in Keys  BY <1>4, <4>1
      <4>3. (n < batchSize) \in BOOLEAN  OBVIOUS
      <4>. QED  BY <1>2, <2>4, <4>2, <4>3
    <3>. QED  BY <3>1, <3>2, <3>3 DEF Copies
  <2>8. \A row : Pending(row)' => row[1] = Table /\ row[2] \in E /\ row[2] > copy.after
    <3> SUFFICES ASSUME NEW row, Pending(row)'
                 PROVE  row[1] = Table /\ row[2] \in E /\ row[2] > copy.after
      OBVIOUS
    <3>1. PICK i \in DOMAIN copy'.rows : copy'.rows[i].row = row  BY DEF Pending
    <3>2. i \in DOMAIN keys  BY <2>5
    <3>3. row[1] = Table /\ row[2] = keys[i]  BY <2>5, <3>1, <3>2
    <3>. QED  BY <2>2, <2>6, <3>2, <3>3
  <2>9. CopyFits'
    <3>1. copy'.rows # <<>>  BY <2>1, <2>5
    <3>2. ASSUME NEW i \in DOMAIN keys
          PROVE  /\ copy'.rows[i].row[2] <= copy'.after
                 /\ source'[copy'.rows[i].row] = copy'.rows[i].val
                 /\ \A j \in DOMAIN keys : i < j => copy'.rows[i].row[2] < copy'.rows[j].row[2]
      BY <1>1, <1>4, <2>4, <2>5, <2>6 DEF Increasing
    <3>3. ASSUME NEW row \in Rows, row[1] = Table, dest'[row] # Absent
          PROVE  row \in copy'.found \/ (row[2] <= copy'.after /\ ~Pending(row)')
      <4>1. row \in copy.found \/ row[2] <= copy.after
        BY <1>1, <3>3 DEF CutoverInv, CopyFits
      <4>2. row[2] \in Nat /\ keys[n] \in Nat /\ copy.after < keys[n]
        BY <1>2, <2>1, <2>6, RowFacts
      <4>3. row[2] <= copy.after => row[2] <= keys[n] /\ ~(row[2] > copy.after)
        BY <1>2, <4>2
      <4>. QED  BY <2>4, <2>8, <4>1, <4>3
    <3>. QED  BY <1>5, <2>3, <2>5, <3>1, <3>2, <3>3 DEF CopyFits
  <2>10. ASSUME NEW row \in Rows, Reached(row)', ~Pending(row)', row[2] \in E PROVE FALSE
    <3>1. row[1] = Table /\ (row[2] <= keys[n] \/ n < batchSize) /\ row = <<Table, row[2]>>
      <4>1. row[1] = Table /\ (row[2] <= keys[n] \/ n < batchSize)
        BY <2>3, <2>4, <2>10 DEF Reached
      <4>2. row = <<row[1], row[2]>>  BY RowFacts
      <4>. QED  BY <4>1, <4>2
    <3>2. copy' # None  BY <2>10 DEF Reached
    <3>3. row[2] \notin ToSet(keys)
      <4> SUFFICES ASSUME NEW i \in DOMAIN keys, row[2] = keys[i] PROVE FALSE  BY DEF ToSet
      <4>1. copy'.rows[i].row = row  BY <2>5, <3>1
      <4>. QED  BY <2>5, <2>10, <3>2, <4>1 DEF Pending
    <3>4. keys[n] < row[2]  BY <1>4, <2>1, <2>10, <3>3 DEF Increasing
    <3>5. row[2] \in Nat /\ keys[n] \in Nat  BY <2>1, <2>6, RowFacts
    <3>6. E \subseteq ToSet(keys)  BY <1>4, <3>1, <3>4, <3>5
    <3>. QED  BY <2>10, <3>3, <3>6
  <2>11. TransferAgrees'
    <3>1. ASSUME NEW row \in Rows, Reached(row)', ~Pending(row)' PROVE Agrees(row)
      <4>1. row[1] = Table  BY <2>3, <3>1 DEF Reached
      <4>. QED  BY <1>9, <2>10, <3>1, <4>1
    <3>. QED  BY <1>1, <1>2, <1>5, <1>7, <1>8, <2>3, <3>1 DEF TransferAgrees
  <2>. QED  BY <1>1, <1>2, <1>5, <1>11, <2>3, <2>7, <2>9, <2>11, TransferStep
<1>. QED  BY <1>1, <1>10, <1>11

(* A row no step writes goes on to agree.                                  *)
LEMMA AgreesOn ==
  ASSUME strayed \subseteq Rows,
         \A row \in strayed : row \in strayed' \/ source'[row] = dest'[row],
         NEW row, source'[row] = source[row], dest'[row] = dest[row], Agrees(row)
  PROVE  Agrees(row)'
BY DEF Agrees

LEMMA CopyRowKeeps == CutoverInv /\ CopyRow => CutoverInv'
<1> SUFFICES ASSUME CutoverInv, CopyRow PROVE CutoverInv'  OBVIOUS
<1> DEFINE rows == copy.rows
           q == Head(rows)
<1>0. PICK r : r = q.row  OBVIOUS
<1>1. /\ copy # None /\ rows # <<>> /\ ~Refuses(dest, q)
      /\ dest' = Execute(dest, q)
      /\ UNCHANGED <<settings, phase, source, query, writes, faults>>
      /\ Stray({})
      /\ \/ Len(rows) = 1 /\ copy.last /\ Copied
         \/ ~(Len(rows) = 1 /\ copy.last) /\ copy' = [copy EXCEPT !.rows = Tail(@)]
            /\ position' = position
  BY DEF CopyRow
<1>2. /\ ~TransferDone /\ phase = "bulk_transfer" /\ Table \in Tables
      /\ copy \in Copies /\ copy.after \in Nat /\ copy.last \in BOOLEAN
      /\ rows \in Seq(Queries) /\ copy.found \in SUBSET Rows
      /\ source \in Databases /\ dest \in Databases /\ strayed \subseteq Rows
      /\ schema \in Schemas /\ position \in 1..(Len(CutoverPlan) + 1)
  BY <1>1, UnderWay, InTransfer DEF CutoverInv, Typed, Databases
<1>3. /\ Len(rows) \in Nat /\ DOMAIN rows = 1..Len(rows) /\ 1 \in DOMAIN rows
      /\ q = rows[1] /\ q \in Queries
  <2>1. Len(rows) \in Nat /\ DOMAIN rows = 1..Len(rows)  BY <1>2, LenProperties
  <2>2. Len(rows) # 0  BY <1>1, <1>2, EmptySeq
  <2>3. 1 \in DOMAIN rows  BY <2>1, <2>2
  <2>4. q = rows[1] /\ q \in Queries  BY <1>1, <1>2, HeadTailProperties, <2>1, <2>3
  <2>. QED  BY <2>1, <2>3, <2>4
<1>4. /\ \A i \in DOMAIN rows :
           /\ rows[i].op = "insert" /\ rows[i].row[1] = Table /\ rows[i].row[2] <= copy.after
           /\ rows[i].row \in strayed \/ source[rows[i].row] = rows[i].val
           /\ \A j \in DOMAIN rows : i < j => rows[i].row[2] < rows[j].row[2]
      /\ \A row \in Rows :
           row[1] = Table /\ dest[row] # Absent =>
             row \in copy.found \/ (row[2] <= copy.after /\ ~Pending(row))
  BY <1>1 DEF CutoverInv, CopyFits
<1>5. \A row \in Rows :
        /\ dest[row] # Absent => Agrees(row) /\ (Done(row[1]) \/ row[1] = Table)
        /\ Done(row[1]) \/ (Reached(row) /\ ~Pending(row)) => Agrees(row)
  BY <1>2 DEF CutoverInv, TransferAgrees
<1>6. /\ r \in Rows /\ r[1] = Table /\ r[2] <= copy.after
      /\ q.op = "insert" /\ Pending(r)
      /\ r \in strayed \/ source[r] = q.val
  BY <1>0, <1>1, <1>2, <1>3, <1>4, QueryFacts DEF Pending
<1>7. /\ dest' \in Databases
      /\ \A row \in Rows : row # r => dest'[row] = dest[row]
      /\ dest'[r] = q.val
  BY <1>0, <1>1, <1>2, <1>3, <1>6, ExecuteFacts DEF Result
<1>8. /\ strayed' \subseteq Rows
      /\ \A row \in strayed : row \in strayed' \/ (source'[row] = dest'[row] /\ Settled(row)')
  BY <1>1, <1>2, StrayFacts
<1>9. Rows' = Rows /\ CutoverPlan' = CutoverPlan  BY <1>1, Steady
<1> HIDE DEF q
<1>10. \A row \in Rows : Agrees(row) => Agrees(row)'
  <2> SUFFICES ASSUME NEW row \in Rows, Agrees(row) PROVE Agrees(row)'  OBVIOUS
  <2>1. CASE row = r  BY <1>1, <1>6, <1>7, <1>8, <2>1 DEF Agrees
  <2>2. CASE row # r  BY <1>1, <1>2, <1>7, <1>8, <2>2, AgreesOn
  <2>. QED  BY <2>1, <2>2
<1>11. Agrees(r)'  BY <1>1, <1>6, <1>7, <1>8 DEF Agrees
<1>12. CASE Len(rows) = 1 /\ copy.last /\ Copied
  <2>1. /\ copy' = None /\ position' \in 1..(Len(CutoverPlan) + 1)
        /\ \A t : Done(t)' <=> Done(t) \/ t = Table
    BY <1>1, <1>2, <1>12, CopiedDone
  <2>2. CopyFits'  BY <2>1 DEF CopyFits
  <2>3. ASSUME NEW row \in Rows, row[1] = Table PROVE Agrees(row)'
    <3>1. Reached(row)  BY <1>1, <1>12, <2>3 DEF Reached
    <3>2. CASE Pending(row)
      <4>1. PICK i \in DOMAIN rows : rows[i].row = row  BY <3>2 DEF Pending
      <4>2. i = 1  BY <1>3, <1>12
      <4>3. row = r  BY <1>0, <1>3, <4>1, <4>2
      <4>. QED  BY <1>11, <4>3
    <3>3. CASE ~Pending(row)  BY <1>5, <1>10, <3>1, <3>3
    <3>. QED  BY <3>2, <3>3
  <2>4. TransferAgrees'
    <3>1. \A row \in Rows : Done(row[1])' => Agrees(row)'  BY <1>5, <1>10, <2>1, <2>3
    <3>2. \A row : ~Reached(row)'  BY <2>1 DEF Reached
    <3>3. ASSUME NEW row \in Rows, dest'[row] # Absent PROVE Agrees(row)' /\ Done(row[1])'
      <4>1. CASE row = r  BY <1>6, <1>11, <2>1, <4>1
      <4>2. CASE row # r  BY <1>5, <1>7, <1>10, <2>1, <3>3, <4>2
      <4>. QED  BY <4>1, <4>2
    <3>. QED  BY <1>9, <3>1, <3>2, <3>3 DEF TransferAgrees
  <2>. QED  BY <1>1, <1>2, <1>7, <1>8, <2>1, <2>2, <2>4, TransferStep
<1>13. CASE /\ ~(Len(rows) = 1 /\ copy.last)
            /\ copy' = [copy EXCEPT !.rows = Tail(@)] /\ position' = position
  <2>1. /\ Table' = Table /\ TransferDone' = TransferDone /\ \A t : Done(t)' = Done(t)
    BY <1>9, <1>13 DEF Table, TransferDone, Done
  <2>2. /\ Tail(rows) \in Seq(Queries) /\ Len(Tail(rows)) = Len(rows) - 1
        /\ DOMAIN Tail(rows) = 1..(Len(rows) - 1)
        /\ \A i \in 1..(Len(rows) - 1) : Tail(rows)[i] = rows[i + 1] /\ i + 1 \in DOMAIN rows
    <3>1. /\ Tail(rows) \in Seq(Queries) /\ Len(Tail(rows)) = Len(rows) - 1
          /\ \A i \in 1..Len(Tail(rows)) : Tail(rows)[i] = rows[i + 1]
      BY <1>1, <1>2, HeadTailProperties
    <3>2. DOMAIN Tail(rows) = 1..Len(Tail(rows))  BY <3>1, LenProperties
    <3> HIDE DEF rows
    <3>. QED  BY <1>3, <3>1, <3>2
  <2>3. /\ copy' \in Copies /\ copy'.after = copy.after /\ copy'.last = copy.last
        /\ copy'.found = copy.found /\ copy'.rows = Tail(rows)
    BY <1>2, <1>13, <2>2 DEF Copies
  <2>4. ~Pending(r)'
    <3> SUFFICES ASSUME NEW i \in 1..(Len(rows) - 1), rows[i + 1].row = r PROVE FALSE
      BY <2>2, <2>3 DEF Pending
    <3>1. i + 1 \in DOMAIN rows /\ 1 < i + 1  BY <1>3, <2>2
    <3>2. r[2] < rows[i + 1].row[2]  BY <1>0, <1>3, <1>4, <3>1
    <3>3. r[2] \in Nat  BY <1>6, RowFacts
    <3>. QED  BY <3>2, <3>3
  <2>5. \A row : /\ Pending(row)' => Pending(row)
                 /\ Pending(row) /\ row # r /\ copy' # None => Pending(row)'
    <3> SUFFICES ASSUME NEW row
                 PROVE  /\ Pending(row)' => Pending(row)
                        /\ Pending(row) /\ row # r /\ copy' # None => Pending(row)'
      OBVIOUS
    <3>1. ASSUME Pending(row), row # r, copy' # None PROVE Pending(row)'
      <4>1. PICK i \in DOMAIN rows : rows[i].row = row  BY <3>1 DEF Pending
      <4>2. i # 1  BY <1>0, <1>3, <3>1, <4>1
      <4>3. i - 1 \in 1..(Len(rows) - 1) /\ (i - 1) + 1 = i  BY <1>3, <4>2
      <4>4. i - 1 \in DOMAIN copy'.rows /\ copy'.rows[i - 1].row = row
        BY <2>2, <2>3, <4>1, <4>3
      <4>. QED  BY <3>1, <4>4 DEF Pending
    <3>2. ASSUME Pending(row)' PROVE Pending(row)
      <4>1. PICK i \in DOMAIN copy'.rows : copy'.rows[i].row = row  BY <3>2 DEF Pending
      <4>2. i + 1 \in DOMAIN rows /\ rows[i + 1].row = row  BY <2>2, <2>3, <4>1
      <4>. QED  BY <1>1, <4>2 DEF Pending
    <3>. QED  BY <3>1, <3>2
  <2>6. CopyFits'
    <3> SUFFICES ASSUME copy' # None PROVE CopyFits'  BY DEF CopyFits
    <3>1. copy'.last => copy'.rows # <<>>
      <4> SUFFICES ASSUME copy.last, Tail(rows) = <<>> PROVE FALSE  BY <2>3
      <4>1. Len(Tail(rows)) = 0  BY <2>2, EmptySeq
      <4>2. Len(rows) = 1
        <5> HIDE DEF rows
        <5>. QED  BY <1>3, <2>2, <4>1
      <4>. QED  BY <1>13, <4>2
    <3>2. ASSUME NEW i \in DOMAIN copy'.rows
          PROVE  /\ copy'.rows[i].op = "insert" /\ copy'.rows[i].row[1] = Table
                 /\ copy'.rows[i].row[2] <= copy.after
                 /\ copy'.rows[i].row \in strayed' \/ source'[copy'.rows[i].row] = copy'.rows[i].val
                 /\ \A j \in DOMAIN copy'.rows :
                      i < j => copy'.rows[i].row[2] < copy'.rows[j].row[2]
      <4>1. /\ i \in 1..(Len(rows) - 1) /\ i + 1 \in DOMAIN rows
            /\ copy'.rows[i] = rows[i + 1]
        BY <2>2, <2>3
      <4>2. ASSUME NEW j \in DOMAIN copy'.rows, i < j
            PROVE  copy'.rows[i].row[2] < copy'.rows[j].row[2]
        <5>1. j \in 1..(Len(rows) - 1) /\ j + 1 \in DOMAIN rows /\ copy'.rows[j] = rows[j + 1]
          BY <2>2, <2>3
        <5>2. i + 1 < j + 1  BY <4>1, <4>2, <5>1
        <5>. QED  BY <1>4, <4>1, <5>1, <5>2
      <4>3. rows[i + 1].row \in strayed => rows[i + 1].row \in strayed'
        <5>1. PICK other : other = rows[i + 1].row  OBVIOUS
        <5>2. ~Settled(other)'  BY <4>1, <5>1 DEF Settled
        <5>. QED  BY <1>8, <5>1, <5>2
      <4>. QED  BY <1>1, <1>4, <4>1, <4>2, <4>3
    <3>3. ASSUME NEW row \in Rows, row[1] = Table, dest'[row] # Absent
          PROVE  row \in copy.found \/ (row[2] <= copy.after /\ ~Pending(row)')
      <4>1. CASE row = r  BY <1>6, <2>4, <4>1
      <4>2. CASE row # r  BY <1>4, <1>7, <2>5, <3>3, <4>2
      <4>. QED  BY <4>1, <4>2
    <3>. QED  BY <1>9, <2>1, <2>3, <3>1, <3>2, <3>3 DEF CopyFits
  <2>7. TransferAgrees'
    <3>1. ASSUME NEW row \in Rows, Reached(row)', ~Pending(row)' PROVE Agrees(row)'
      <4>1. Reached(row) /\ copy' # None  BY <1>1, <2>1, <2>3, <3>1 DEF Reached
      <4>2. CASE row = r  BY <1>11, <4>2
      <4>3. CASE row # r  BY <1>5, <1>10, <2>5, <3>1, <4>1, <4>3
      <4>. QED  BY <4>2, <4>3
    <3>2. ASSUME NEW row \in Rows, dest'[row] # Absent
          PROVE  Agrees(row)' /\ (Done(row[1]) \/ row[1] = Table)
      <4>1. CASE row = r  BY <1>6, <1>11, <4>1
      <4>2. CASE row # r  BY <1>5, <1>7, <1>10, <3>2, <4>2
      <4>. QED  BY <4>1, <4>2
    <3>3. \A row \in Rows : Done(row[1])' => Agrees(row)'  BY <1>5, <1>10, <2>1
    <3>. QED  BY <1>2, <1>9, <2>1, <3>1, <3>2, <3>3 DEF TransferAgrees
  <2>8. TransferDone' => copy' = None  BY <1>2, <2>1
  <2>. QED  BY <1>1, <1>2, <1>7, <1>8, <1>13, <2>3, <2>6, <2>7, <2>8, TransferStep
<1>. QED  BY <1>1, <1>12, <1>13

(* The call raises: what was read is read again.                           *)
LEMMA CopyDropped ==
  ASSUME CutoverInv, copy # None, copy' = None, Stray({}),
         UNCHANGED <<settings, phase, source, dest, position, query>>
  PROVE  CutoverInv'
<1>1. /\ ~TransferDone /\ source \in Databases /\ dest \in Databases /\ strayed \subseteq Rows
      /\ phase = "bulk_transfer" /\ position \in 1..(Len(CutoverPlan) + 1)
  BY UnderWay DEF CutoverInv, Typed, Databases
<1>2. /\ strayed' \subseteq Rows
      /\ \A row \in strayed : row \in strayed' \/ source'[row] = dest'[row]
  BY <1>1, StrayFacts
<1>3. /\ Rows' = Rows /\ CutoverPlan' = CutoverPlan /\ Table' = Table
      /\ TransferDone' = TransferDone /\ \A t : Done(t)' = Done(t)
  BY Steady DEF Table, TransferDone, Done
<1>4. \A row \in Rows : Agrees(row) => Agrees(row)'  BY <1>1, <1>2, AgreesOn
<1>5. CopyFits' /\ \A row : ~Reached(row)'  BY DEF CopyFits, Reached
<1>6. TransferAgrees'
  BY <1>1, <1>3, <1>4, <1>5 DEF CutoverInv, TransferAgrees
<1>. QED  BY <1>1, <1>2, <1>5, <1>6, TransferStep

LEMMA CopyRefusedKeeps == CutoverInv /\ CopyRefused => CutoverInv'
BY CopyDropped DEF CopyRefused

LEMMA CopyRaisesKeeps == CutoverInv /\ CopyRaises => CutoverInv'
BY CopyDropped DEF CopyRaises

LEMMA EmptyTableKeeps == CutoverInv /\ EmptyTable => CutoverInv'
<1> SUFFICES ASSUME CutoverInv, EmptyTable PROVE CutoverInv'  OBVIOUS
<1>1. /\ copy = None /\ copy' = None /\ ~TransferDone
      /\ dest' = [row \in Rows |-> IF row[1] = Table THEN Absent ELSE dest[row]]
      /\ UNCHANGED <<settings, phase, source, query>> /\ position' = position
      /\ strayed' = {row \in strayed : row[1] # Table}
  BY DEF EmptyTable, copying
<1>2. /\ source \in Databases /\ dest \in Databases /\ strayed \subseteq Rows
      /\ phase = "bulk_transfer" /\ position \in 1..(Len(CutoverPlan) + 1) /\ ~Done(Table)
  BY <1>1, InTransfer DEF CutoverInv, Typed, Databases
<1>3. /\ Rows' = Rows /\ CutoverPlan' = CutoverPlan /\ Table' = Table
      /\ TransferDone' = TransferDone /\ \A t : Done(t)' = Done(t)
  BY <1>1, Steady DEF Table, TransferDone, Done
<1>4. dest' \in Databases /\ strayed' \subseteq Rows  BY <1>1, <1>2 DEF Databases
<1>5. CopyFits' /\ \A row : ~Reached(row)'  BY <1>1 DEF CopyFits, Reached
<1>6. \A row \in Rows : row[1] # Table => dest'[row] = dest[row] /\ Agrees(row)' = Agrees(row)
  BY <1>1 DEF Agrees
<1>7. \A row \in Rows : row[1] = Table => dest'[row] = Absent /\ ~Done(row[1])
  BY <1>1, <1>2
<1>8. TransferAgrees'
  BY <1>1, <1>2, <1>3, <1>5, <1>6, <1>7 DEF CutoverInv, TransferAgrees
<1>. QED  BY <1>1, <1>2, <1>4, <1>5, <1>8, TransferStep

LEMMA AdvanceKeeps == CutoverInv /\ Advance => CutoverInv'
<1> SUFFICES ASSUME CutoverInv, Advance PROVE CutoverInv'  OBVIOUS
<1>1. /\ phase = "bulk_transfer" => TransferDone
      /\ phase # "detach" /\ phase' = CutoverAdvance(phase)
      /\ UNCHANGED <<settings, source, dest, position, copy, query, strayed>>
  BY DEF Advance, copying
<1>2. /\ phase \in Phases /\ phase' \in Phases
      /\ phase' # "bulk_transfer"
      /\ phase' \in {"mirror", "promote"} => phase \in {"bulk_transfer", "mirror"}
  BY <1>1 DEF CutoverInv, Typed, Phases, CutoverAdvance
<1>3. TransferDone  BY <1>1 DEF CutoverInv, PhasesApart
<1>4. /\ schema' = schema /\ batchSize' = batchSize /\ Rows' = Rows /\ Queries' = Queries
      /\ Copies' = Copies /\ CutoverPlan' = CutoverPlan
      /\ \A row : Parents(row)' = Parents(row)
  BY <1>1, Steady
<1>5. Typed'  BY <1>1, <1>2, <1>4 DEF CutoverInv, Typed
<1>6. PhasesApart'  BY <1>1, <1>2, <1>3, <1>4 DEF CutoverInv, PhasesApart, TransferDone
<1>7. SourceIntact'  BY <1>1, <1>4 DEF CutoverInv, SourceIntact
<1>8. CopyFits'
  <2>1. copy' = None  BY <1>1, <1>3 DEF CutoverInv, PhasesApart
  <2>. QED  BY <2>1 DEF CopyFits
<1>9. TransferAgrees'  BY <1>2 DEF TransferAgrees
<1>10. \A row : Settled(row)' = Settled(row)  BY <1>1 DEF Settled
<1>11. CASE phase = "bulk_transfer"
  <2>1. \A w \in Writers : query[w] = None  BY <1>11 DEF CutoverInv, PhasesApart
  <2>2. MirrorAgrees'  BY <1>1, <2>1 DEF MirrorAgrees
  <2>3. ASSUME NEW row \in Rows PROVE Agrees(row)
    <3>1. /\ DOMAIN CutoverPlan = 1..Len(CutoverPlan) /\ Len(CutoverPlan) \in Nat
          /\ ToSet(CutoverPlan) = Tables /\ position \in 1..(Len(CutoverPlan) + 1)
      BY PlanFacts DEF CutoverInv, Typed
    <3>2. row[1] \in Tables  BY RowFacts
    <3>3. PICK i \in 1..Len(CutoverPlan) : CutoverPlan[i] = row[1]  BY <3>1, <3>2 DEF ToSet
    <3>4. i \in 1..(position - 1)  BY <1>3, <3>1 DEF TransferDone
    <3>5. Done(row[1])  BY <3>3, <3>4 DEF Done
    <3>. QED  BY <1>11, <3>5 DEF CutoverInv, TransferAgrees
  <2>4. DivergenceExplained'  BY <1>1, <1>4, <2>3 DEF DivergenceExplained, Agrees
  <2>. QED  BY <1>5, <1>6, <1>7, <1>8, <1>9, <2>2, <2>4 DEF CutoverInv
<1>12. CASE phase \in {"mirror", "promote"}
  <2>1. MirrorAgrees'
    BY <1>1, <1>12 DEF CutoverInv, MirrorAgrees, Result
  <2>2. DivergenceExplained'
    BY <1>1, <1>4, <1>10, <1>12 DEF CutoverInv, DivergenceExplained
  <2>. QED  BY <1>5, <1>6, <1>7, <1>8, <1>9, <2>1, <2>2 DEF CutoverInv
<1>. QED  BY <1>1, <1>2, <1>11, <1>12 DEF Phases

(* What the application writes to the source has been passed, and strays,  *)
(* or will be read.                                                        *)
LEMMA WriteSourceKeeps ==
  ASSUME CutoverInv, NEW q \in Queries, WriteSource(q) PROVE CutoverInv'
<1>1. /\ phase = "bulk_transfer" /\ ~Refuses(source, q) /\ source' = Execute(source, q)
      /\ UNCHANGED <<settings, phase, dest, position, copy, query>>
      /\ Stray({row \in {q.row} : Passed(row)})
  BY DEF WriteSource, copying
<1>2. /\ source \in Databases /\ dest \in Databases /\ strayed \subseteq Rows
      /\ schema \in Schemas
  BY DEF CutoverInv, Typed, Databases
<1>3. /\ source' \in Databases /\ q.row \in Rows
      /\ \A row \in Rows : row # q.row => source'[row] = source[row]
  BY <1>1, <1>2, ExecuteFacts, QueryFacts
<1>4. /\ strayed' \subseteq Rows
      /\ \A row \in strayed :
           row \in strayed' \/ (source'[row] = dest'[row] /\ Settled(row)')
      /\ Passed(q.row) =>
           q.row \in strayed' \/ (source'[q.row] = dest'[q.row] /\ Settled(q.row)')
  <2> DEFINE reason == {row \in {q.row} : Passed(row)}
  <2>1. reason \subseteq Rows /\ Stray(reason)  BY <1>1, <1>3
  <2>2. Passed(q.row) => q.row \in reason  OBVIOUS
  <2> HIDE DEF reason
  <2>. QED  BY <1>2, <2>1, <2>2, StrayFacts
<1>5. /\ schema' = schema /\ batchSize' = batchSize /\ Rows' = Rows /\ Queries' = Queries
      /\ Copies' = Copies /\ CutoverPlan' = CutoverPlan
      /\ \A row : Parents(row)' = Parents(row)
  BY <1>1, Steady
<1>6. /\ Table' = Table /\ TransferDone' = TransferDone /\ \A t : Done(t)' = Done(t)
      /\ \A row : Pending(row)' = Pending(row) /\ Reached(row)' = Reached(row)
  BY <1>1, <1>5 DEF Table, TransferDone, Done, Pending, Reached
<1>7. Typed'
  BY <1>1, <1>3, <1>4, <1>5 DEF CutoverInv, Typed, Databases
<1>8. PhasesApart'  BY <1>1, <1>6 DEF CutoverInv, PhasesApart
<1>9. SourceIntact'  BY <1>1, SourceStaysIntact DEF CutoverInv
<1>10. \A row \in Rows : Reached(row) => Passed(row)
  <2>1. copy # None => ~TransferDone  BY UnderWay
  <2>. QED  BY <2>1 DEF Reached, Passed
<1>11. CopyFits'
  <2> SUFFICES ASSUME copy # None PROVE CopyFits'  BY <1>1 DEF CopyFits
  <2>1. ASSUME NEW i \in DOMAIN copy.rows
        PROVE  copy.rows[i].row \in strayed' \/ source'[copy.rows[i].row] = copy.rows[i].val
    <3>1. PICK row : row = copy.rows[i].row  OBVIOUS
    <3>2. ~Settled(row)'  BY <1>1, <3>1 DEF Settled
    <3>3. copy.rows[i] \in Queries  BY UnderWay, ElementOfSeq, LenProperties
    <3>4. row \in Rows  BY <1>2, <3>1, <3>3, QueryFacts
    <3>5. CASE row = q.row
      <4>1. Reached(row)  BY <3>1 DEF CutoverInv, CopyFits, Reached
      <4>2. row \in strayed'  BY <1>4, <1>10, <3>2, <3>4, <3>5, <4>1
      <4>. QED  BY <3>1, <4>2
    <3>6. CASE row # q.row
      <4>1. row \in strayed \/ source[row] = copy.rows[i].val
        BY <3>1 DEF CutoverInv, CopyFits
      <4>2. row \in strayed' \/ source'[row] = copy.rows[i].val
        BY <1>3, <1>4, <3>2, <3>4, <3>6, <4>1
      <4>. QED  BY <3>1, <4>2
    <3>. QED  BY <3>5, <3>6
  <2>2. \A row \in Rows :
          row[1] = Table /\ dest[row] # Absent =>
            row \in copy.found \/ (row[2] <= copy.after /\ ~Pending(row))
    BY DEF CutoverInv, CopyFits
  <2>3. /\ copy.last => copy.rows # <<>>
        /\ \A i \in DOMAIN copy.rows :
             /\ copy.rows[i].op = "insert" /\ copy.rows[i].row[1] = Table
             /\ copy.rows[i].row[2] <= copy.after
             /\ \A j \in DOMAIN copy.rows :
                  i < j => copy.rows[i].row[2] < copy.rows[j].row[2]
    BY DEF CutoverInv, CopyFits
  <2>4. copy' = copy /\ dest' = dest  BY <1>1
  <2>. QED  BY <1>5, <1>6, <2>1, <2>2, <2>3, <2>4 DEF CopyFits
<1>12. TransferAgrees'
  <2>1. ASSUME NEW row \in Rows, Agrees(row), row # q.row PROVE Agrees(row)'
    BY <1>1, <1>2, <1>3, <1>4, <2>1, AgreesOn
  <2>2. ASSUME NEW row \in Rows, Passed(row), row = q.row PROVE Agrees(row)'
    BY <1>4, <2>2 DEF Agrees
  <2>3. ASSUME NEW row \in Rows, Agrees(row), Passed(row) PROVE Agrees(row)'
    BY <2>1, <2>2, <2>3
  <2>4. \A row \in Rows : dest[row] # Absent \/ Done(row[1]) \/ Reached(row) => Passed(row)
    BY <1>10 DEF Passed, Done
  <2>5. \A row \in Rows :
          /\ dest[row] # Absent => Agrees(row) /\ (Done(row[1]) \/ (~TransferDone /\ row[1] = Table))
          /\ Done(row[1]) \/ (Reached(row) /\ ~Pending(row)) => Agrees(row)
    BY <1>1 DEF CutoverInv, TransferAgrees
  <2>6. dest' = dest  BY <1>1
  <2>. QED  BY <1>5, <1>6, <2>3, <2>4, <2>5, <2>6 DEF TransferAgrees
<1>13. MirrorAgrees' /\ DivergenceExplained'  BY <1>1 DEF MirrorAgrees, DivergenceExplained
<1>. QED  BY <1>7, <1>8, <1>9, <1>11, <1>12, <1>13 DEF CutoverInv

(* What a step after the transfer keeps.                                   *)
LEMMA MirrorStep ==
  ASSUME CutoverInv, phase # "bulk_transfer", UNCHANGED <<settings, phase, position, copy>>,
         source' \in Databases, dest' \in Databases, strayed' \subseteq Rows,
         query' \in [Writers -> Queries \cup {None}],
         SourceIntact', MirrorAgrees', DivergenceExplained'
  PROVE  CutoverInv'
<1>1. /\ schema' = schema /\ batchSize' = batchSize /\ Rows' = Rows /\ Queries' = Queries
      /\ Copies' = Copies /\ CutoverPlan' = CutoverPlan
  BY Steady
<1>2. TransferDone /\ TransferDone' /\ copy' = None
  BY <1>1 DEF CutoverInv, PhasesApart, TransferDone
<1>3. Typed'  BY <1>1, <1>2 DEF CutoverInv, Typed, Databases
<1>4. PhasesApart'  BY <1>2 DEF PhasesApart
<1>5. CopyFits'  BY <1>2 DEF CopyFits
<1>6. TransferAgrees'  BY DEF TransferAgrees
<1>. QED  BY <1>3, <1>4, <1>5, <1>6 DEF CutoverInv

(* A query of the row is on its way in the next state.                     *)
Sent(row, w) == query[w] # None /\ query[w].row = row

LEMMA SettledFacts ==
  ASSUME NEW row
  PROVE  /\ copy = None => (Settled(row) <=> \A w \in Writers : ~Sent(row, w))
         /\ copy' = None => (Settled(row)' <=> \A w \in Writers : ~Sent(row, w)')
BY DEF Settled, Sent

LEMMA MirrorSourceKeeps ==
  ASSUME CutoverInv, NEW w \in Writers, NEW q \in Queries, MirrorSource(w, q)
  PROVE  CutoverInv'
<1>1. /\ phase \in {"mirror", "promote"} /\ query[w] = None
      /\ ~Refuses(source, q) /\ source' = Execute(source, q)
      /\ query' = [query EXCEPT ![w] = q]
      /\ UNCHANGED <<settings, phase, dest, position, copy>>
      /\ Stray({row \in {q.row} : ~Settled(row)})
  BY DEF MirrorSource, copying
<1>2. /\ source \in Databases /\ dest \in Databases /\ strayed \subseteq Rows
      /\ schema \in Schemas /\ query \in [Writers -> Queries \cup {None}] /\ copy = None
  BY <1>1 DEF CutoverInv, Typed, Databases, PhasesApart
<1>3. /\ source' \in Databases /\ q.row \in Rows /\ q # None
      /\ \A row \in Rows :
           source'[row] = IF row = q.row THEN Result(source[row], q) ELSE source[row]
  BY <1>1, <1>2, ExecuteFacts, QueryFacts
<1>4. /\ strayed' \subseteq Rows
      /\ \A row \in strayed :
           row \in strayed' \/ (source'[row] = dest'[row] /\ Settled(row)')
      /\ ~Settled(q.row) =>
           q.row \in strayed' \/ (source'[q.row] = dest'[q.row] /\ Settled(q.row)')
  <2> DEFINE reason == {row \in {q.row} : ~Settled(row)}
  <2>1. reason \subseteq Rows /\ Stray(reason)  BY <1>1, <1>3
  <2>2. ~Settled(q.row) => q.row \in reason  OBVIOUS
  <2> HIDE DEF reason
  <2>. QED  BY <1>2, <2>1, <2>2, StrayFacts
<1>5. /\ query' \in [Writers -> Queries \cup {None}] /\ query'[w] = q
      /\ \A v \in Writers \ {w} : query'[v] = query[v]
  BY <1>1, <1>2
<1>6. SourceIntact'  BY <1>1, SourceStaysIntact DEF CutoverInv
<1>7. Rows' = Rows  BY <1>1, Steady
<1>8. ~Settled(q.row)'
  <2>1. Sent(q.row, w)'  BY <1>3, <1>5 DEF Sent
  <2>. QED  BY <1>1, <1>2, <2>1, SettledFacts
<1>9. \A row \in Rows : row # q.row => (Settled(row)' <=> Settled(row))
  <2> SUFFICES ASSUME NEW row \in Rows, row # q.row PROVE Settled(row)' <=> Settled(row)
    OBVIOUS
  <2>1. \A v \in Writers : Sent(row, v)' <=> Sent(row, v)
    <3>1. ~Sent(row, w) /\ ~Sent(row, w)'  BY <1>1, <1>5 DEF Sent
    <3>. QED  BY <1>5, <3>1 DEF Sent
  <2>. QED  BY <1>1, <1>2, <2>1, SettledFacts
<1>10. DivergenceExplained'
  <2> SUFFICES ASSUME NEW row \in Rows, source'[row] # dest'[row]
               PROVE  row \in strayed' \/ ~Settled(row)'
    BY <1>7 DEF DivergenceExplained
  <2>1. CASE row = q.row  BY <1>8, <2>1
  <2>2. CASE row # q.row
    <3>1. source[row] # dest[row]  BY <1>1, <1>3, <2>2
    <3>2. row \in strayed \/ ~Settled(row)
      BY <1>1, <3>1 DEF CutoverInv, DivergenceExplained
    <3>. QED  BY <1>4, <1>9, <2>2, <3>2
  <2>. QED  BY <2>1, <2>2
<1>11. MirrorAgrees'
  <2> SUFFICES ASSUME NEW v \in Writers, query'[v] # None, query'[v].row \notin strayed'
               PROVE  /\ source'[query'[v].row] = Result(dest'[query'[v].row], query'[v])
                      /\ \A u \in Writers \ {v} :
                           query'[u] = None \/ query'[u].row # query'[v].row
    BY DEF MirrorAgrees, Result
  <2>1. CASE v = w
    <3>1. q.row \notin strayed'  BY <1>5, <2>1
    <3>2. Settled(q.row) /\ q.row \notin strayed  BY <1>4, <1>8, <3>1
    <3>3. source[q.row] = dest[q.row]
      BY <1>1, <1>3, <3>2 DEF CutoverInv, DivergenceExplained
    <3>4. source'[q.row] = Result(dest'[q.row], q)  BY <1>1, <1>3, <3>3
    <3>5. \A u \in Writers \ {w} : query'[u] = None \/ query'[u].row # q.row
      BY <1>5, <3>2 DEF Settled
    <3>. QED  BY <1>5, <2>1, <3>4, <3>5
  <2>2. CASE v # w
    <3>1. PICK p : p = query[v]  OBVIOUS
    <3>2. query'[v] = p /\ query[v] = p /\ p # None /\ p.row \notin strayed'
      BY <1>5, <2>2, <3>1
    <3>3. p \in Queries /\ p.row \in Rows  BY <1>2, <3>2, QueryFacts
    <3>4. ~Settled(p.row) /\ ~Settled(p.row)'
      BY <1>1, <1>2, <3>2, SettledFacts DEF Sent
    <3>5. p.row \notin strayed /\ p.row # q.row  BY <1>4, <3>2, <3>4
    <3>6. /\ source[p.row] = Result(dest[p.row], p)
          /\ \A u \in Writers \ {v} : query[u] = None \/ query[u].row # p.row
      BY <1>1, <3>2, <3>5 DEF CutoverInv, MirrorAgrees, Result
    <3>7. source'[p.row] = Result(dest'[p.row], p)  BY <1>1, <1>3, <3>3, <3>5, <3>6
    <3>8. \A u \in Writers \ {v} : query'[u] = None \/ query'[u].row # p.row
      BY <1>5, <3>5, <3>6
    <3>. QED  BY <3>2, <3>7, <3>8
  <2>. QED  BY <2>1, <2>2
<1>12. phase # "bulk_transfer" /\ dest' \in Databases  BY <1>1, <1>2
<1>. QED  BY <1>1, <1>3, <1>4, <1>5, <1>6, <1>10, <1>11, <1>12, MirrorStep

(* A query is no longer on its way: it was executed, or given up.          *)
LEMMA MirrorEnds ==
  ASSUME CutoverInv, NEW w \in Writers, NEW q, q = query[w], q # None,
         query' = [query EXCEPT ![w] = None], dest' \in Databases,
         \A row \in Rows : row # q.row => dest'[row] = dest[row],
         UNCHANGED <<settings, phase, source, position, copy>>, strayed' \subseteq Rows,
         \A row \in strayed : row \in strayed' \/ (source'[row] = dest'[row] /\ Settled(row)'),
         q.row \in strayed' \/ source'[q.row] = dest'[q.row]
           \/ ~(phase \in {"mirror", "promote"})
  PROVE  CutoverInv'
<1>1. /\ source \in Databases /\ dest \in Databases /\ strayed \subseteq Rows
      /\ schema \in Schemas /\ query \in [Writers -> Queries \cup {None}]
      /\ phase # "bulk_transfer" /\ copy = None /\ copy' = None
  <2>1. phase # "bulk_transfer" /\ copy = None  BY DEF CutoverInv, PhasesApart
  <2>. QED  BY <2>1 DEF CutoverInv, Typed, Databases
<1>2. q \in Queries /\ q.row \in Rows  BY <1>1, QueryFacts
<1>3. /\ query' \in [Writers -> Queries \cup {None}] /\ query'[w] = None
      /\ \A v \in Writers \ {w} : query'[v] = query[v]
  BY <1>1
<1>4. Rows' = Rows /\ \A row : Parents(row)' = Parents(row)  BY Steady
<1>5. SourceIntact'  BY <1>4 DEF CutoverInv, SourceIntact
<1>6. \A row \in Rows : row # q.row => (Settled(row)' <=> Settled(row))
  <2> SUFFICES ASSUME NEW row \in Rows, row # q.row PROVE Settled(row)' <=> Settled(row)
    OBVIOUS
  <2>1. \A v \in Writers : Sent(row, v)' <=> Sent(row, v)
    <3>1. ~Sent(row, w) /\ ~Sent(row, w)'  BY <1>3 DEF Sent
    <3>. QED  BY <1>3, <3>1 DEF Sent
  <2>. QED  BY <1>1, <2>1, SettledFacts
<1>7. DivergenceExplained'
  <2> SUFFICES ASSUME phase \in {"mirror", "promote"}, NEW row \in Rows, source'[row] # dest'[row]
               PROVE  row \in strayed' \/ ~Settled(row)'
    BY <1>4 DEF DivergenceExplained
  <2>1. CASE row = q.row  BY <2>1
  <2>2. CASE row # q.row
    <3>1. source[row] # dest[row]  BY <2>2
    <3>2. row \in strayed \/ ~Settled(row)  BY <3>1 DEF CutoverInv, DivergenceExplained
    <3>. QED  BY <1>6, <2>2, <3>2
  <2>. QED  BY <2>1, <2>2
<1>8. MirrorAgrees'
  <2> SUFFICES ASSUME phase \in {"mirror", "promote"},
                      NEW v \in Writers, query'[v] # None, query'[v].row \notin strayed'
               PROVE  /\ source'[query'[v].row] = Result(dest'[query'[v].row], query'[v])
                      /\ \A u \in Writers \ {v} :
                           query'[u] = None \/ query'[u].row # query'[v].row
    BY DEF MirrorAgrees, Result
  <2>1. PICK p : p = query[v]  OBVIOUS
  <2>2. v # w /\ query'[v] = p /\ query[v] = p /\ p # None /\ p.row \notin strayed'
    BY <1>3, <2>1
  <2>3. p \in Queries /\ p.row \in Rows  BY <1>1, <2>2, QueryFacts
  <2>4. ~Settled(p.row)'  BY <1>1, <2>2, SettledFacts DEF Sent
  <2>5. p.row \notin strayed  BY <2>2, <2>4
  <2>6. /\ source[p.row] = Result(dest[p.row], p)
        /\ \A u \in Writers \ {v} : query[u] = None \/ query[u].row # p.row
    BY <2>2, <2>5 DEF CutoverInv, MirrorAgrees, Result
  <2>7. p.row # q.row  BY <2>2, <2>6
  <2>8. source'[p.row] = Result(dest'[p.row], p)  BY <2>3, <2>6, <2>7
  <2>9. \A u \in Writers \ {v} : query'[u] = None \/ query'[u].row # p.row
    BY <1>3, <2>6
  <2>. QED  BY <2>2, <2>8, <2>9
<1>9. source' \in Databases  BY <1>1
<1>. QED  BY <1>1, <1>3, <1>5, <1>7, <1>8, <1>9, MirrorStep

LEMMA MirrorDestKeeps ==
  ASSUME CutoverInv, NEW w \in Writers, MirrorDest(w) PROVE CutoverInv'
<1>1. PICK q : q = query[w]  OBVIOUS
<1>2. /\ q # None /\ dest' = Execute(dest, q) /\ query' = [query EXCEPT ![w] = None]
      /\ UNCHANGED <<settings, phase, source, position, copy>> /\ Stray({})
  BY <1>1 DEF MirrorDest, copying
<1>3. /\ dest \in Databases /\ strayed \subseteq Rows /\ schema \in Schemas
      /\ q \in Queries /\ q.row \in Rows
  <2>1. /\ dest \in Databases /\ strayed \subseteq Rows /\ schema \in Schemas
        /\ q \in Queries
    BY <1>1, <1>2 DEF CutoverInv, Typed, Databases
  <2>. QED  BY <2>1, QueryFacts
<1>4. /\ dest' \in Databases
      /\ \A row \in Rows :
           dest'[row] = IF row = q.row THEN Result(dest[row], q) ELSE dest[row]
  BY <1>2, <1>3, ExecuteFacts
<1>5. /\ strayed' \subseteq Rows
      /\ \A row \in strayed : row \in strayed' \/ (source'[row] = dest'[row] /\ Settled(row)')
  BY <1>2, <1>3, StrayFacts
<1>6. ASSUME phase \in {"mirror", "promote"}
      PROVE  q.row \in strayed' \/ source'[q.row] = dest'[q.row]
  <2>1. CASE q.row \in strayed  BY <1>5, <2>1
  <2>2. CASE q.row \notin strayed
    <3>1. source[q.row] = Result(dest[q.row], q)
      BY <1>1, <1>2, <1>6, <2>2 DEF CutoverInv, MirrorAgrees, Result
    <3>. QED  BY <1>2, <1>3, <1>4, <3>1
  <2>. QED  BY <2>1, <2>2
<1>. QED  BY <1>1, <1>2, <1>3, <1>4, <1>5, <1>6, MirrorEnds

LEMMA MirrorHalfKeeps ==
  ASSUME CutoverInv, NEW w \in Writers, MirrorHalf(w) PROVE CutoverInv'
<1>1. PICK q : q = query[w]  OBVIOUS
<1>2. /\ q # None /\ dest' = dest /\ query' = [query EXCEPT ![w] = None]
      /\ UNCHANGED <<settings, phase, source, position, copy>> /\ Stray({q.row})
  BY <1>1 DEF MirrorHalf, copying
<1>3. /\ dest \in Databases /\ strayed \subseteq Rows /\ schema \in Schemas
      /\ q \in Queries /\ q.row \in Rows
  <2>1. /\ dest \in Databases /\ strayed \subseteq Rows /\ schema \in Schemas
        /\ q \in Queries
    BY <1>1, <1>2 DEF CutoverInv, Typed, Databases
  <2>. QED  BY <2>1, QueryFacts
<1>4. /\ strayed' \subseteq Rows
      /\ \A row \in strayed \cup {q.row} :
           row \in strayed' \/ (source'[row] = dest'[row] /\ Settled(row)')
  <2>1. {q.row} \subseteq Rows  BY <1>3
  <2>. QED  BY <1>2, <1>3, <2>1, StrayFacts
<1>. QED  BY <1>1, <1>2, <1>3, <1>4, MirrorEnds

LEMMA WriteDestKeeps ==
  ASSUME CutoverInv, NEW q \in Queries, WriteDest(q) PROVE CutoverInv'
<1>1. /\ phase = "detach" /\ dest' = Execute(dest, q)
      /\ UNCHANGED <<settings, phase, source, position, copy, query>> /\ Stray({q.row})
  BY DEF WriteDest, copying
<1>2. /\ source \in Databases /\ dest \in Databases /\ strayed \subseteq Rows
      /\ schema \in Schemas /\ query \in [Writers -> Queries \cup {None}]
  BY DEF CutoverInv, Typed, Databases
<1>3. dest' \in Databases /\ strayed' \subseteq Rows
  <2>1. dest' \in Databases /\ {q.row} \subseteq Rows  BY <1>1, <1>2, ExecuteFacts, QueryFacts
  <2>. QED  BY <1>1, <1>2, <2>1, StrayFacts
<1>4. Rows' = Rows /\ \A row : Parents(row)' = Parents(row)  BY <1>1, Steady
<1>5. SourceIntact'  BY <1>1, <1>4 DEF CutoverInv, SourceIntact
<1>6. MirrorAgrees' /\ DivergenceExplained'  BY <1>1 DEF MirrorAgrees, DivergenceExplained
<1>7. /\ phase # "bulk_transfer" /\ source' \in Databases
      /\ query' \in [Writers -> Queries \cup {None}]
  BY <1>1, <1>2
<1>. QED  BY <1>1, <1>3, <1>5, <1>6, <1>7, MirrorStep

-----------------------------------------------------------------------------
LEMMA CutoverSteps == CutoverInv /\ [Next]_vars => CutoverInv'
<1> SUFFICES ASSUME CutoverInv, [Next]_vars PROVE CutoverInv'  OBVIOUS
<1>1. CASE Transfer
  BY <1>1, StartCopyKeeps, ReadBatchKeeps, CopyRowKeeps, CopyRefusedKeeps, CopyRaisesKeeps,
     EmptyTableKeeps DEF Transfer
<1>2. CASE Advance  BY <1>2, AdvanceKeeps
<1>3. CASE Application
  BY <1>3, WriteSourceKeeps, WriteDestKeeps, MirrorSourceKeeps, MirrorDestKeeps,
     MirrorHalfKeeps DEF Application
<1>4. CASE UNCHANGED vars
  <2>1. /\ UNCHANGED settings /\ phase' = phase /\ source' = source /\ dest' = dest
        /\ position' = position /\ copy' = copy /\ query' = query /\ strayed' = strayed
    BY <1>4 DEF vars, copying
  <2>2. /\ schema' = schema /\ batchSize' = batchSize /\ Rows' = Rows /\ Queries' = Queries
        /\ Copies' = Copies /\ CutoverPlan' = CutoverPlan
        /\ \A row : Parents(row)' = Parents(row)
    BY <2>1, Steady
  <2>3. /\ Table' = Table /\ TransferDone' = TransferDone
        /\ \A row : Settled(row)' = Settled(row) /\ Pending(row)' = Pending(row)
                    /\ Reached(row)' = Reached(row) /\ Agrees(row)' = Agrees(row)
                    /\ Done(row[1])' = Done(row[1])
    BY <2>1, <2>2 DEF Table, TransferDone, Settled, Pending, Reached, Agrees, Done
  <2>4. Typed' /\ PhasesApart' /\ SourceIntact'
    BY <2>1, <2>2, <2>3 DEF CutoverInv, Typed, PhasesApart, SourceIntact
  <2>5. CopyFits'  BY <2>1, <2>2, <2>3 DEF CutoverInv, CopyFits
  <2>6. TransferAgrees'  BY <2>1, <2>2, <2>3 DEF CutoverInv, TransferAgrees
  <2>7. MirrorAgrees'  BY <2>1 DEF CutoverInv, MirrorAgrees, Result
  <2>8. DivergenceExplained'  BY <2>1, <2>2, <2>3 DEF CutoverInv, DivergenceExplained
  <2>. QED  BY <2>4, <2>5, <2>6, <2>7, <2>8 DEF CutoverInv
<1>. QED  BY <1>1, <1>2, <1>3, <1>4 DEF Next

(* Every reachable state has the inductive invariant.                      *)
THEOREM CutoverInvariant == Spec => []CutoverInv
<1>. QED  BY CutoverInitially, CutoverSteps, PTL DEF Spec

(* From the mirror on a row differs between the two databases only while a *)
(* write of it is under way, or because it strayed: it was written to the  *)
(* source after bulk_copy_table passed it, half written by mirror_write,   *)
(* or written by two at once.                                              *)
THEOREM DivergencesAreExplained == Spec => []DivergenceExplained
<1>1. CutoverInv => DivergenceExplained  BY DEF CutoverInv
<1>. QED  BY CutoverInvariant, <1>1, PTL

(* What cutover_plan's order is for: no schema without a cycle has a row   *)
(* refused for want of a row of another table, unless that one strayed,    *)
(* and no row is refused as a duplicate but one found at the start of the  *)
(* call.                                                                   *)
LEMMA RefusedWhen == CutoverInv => CopyRefusedOnlyWhen
<1> SUFFICES ASSUME CutoverInv, copy # None, copy.rows # <<>>, NEW q, q = Head(copy.rows),
                    Refuses(dest, q), q.row \notin copy.found \cup strayed
             PROVE  \E parent \in Parents(q.row) :
                      parent \in strayed \/ parent[1] = q.row[1] \/ Cyclic
  BY DEF CopyRefusedOnlyWhen
<1>1. /\ ~TransferDone /\ phase = "bulk_transfer" /\ copy.rows \in Seq(Queries)
      /\ Table \in Tables /\ schema \in Schemas /\ source \in Databases
      /\ position \in Nat
  BY UnderWay, InTransfer DEF CutoverInv, Typed, Databases
<1>2. 1 \in DOMAIN copy.rows /\ q = copy.rows[1] /\ q \in Queries
  <2>1. Len(copy.rows) \in Nat /\ DOMAIN copy.rows = 1..Len(copy.rows)
    BY <1>1, LenProperties
  <2>2. Len(copy.rows) # 0  BY <1>1, EmptySeq
  <2>. QED  BY <1>1, <2>1, <2>2, HeadTailProperties
<1>3. /\ q.op = "insert" /\ q.row[1] = Table /\ source[q.row] = q.val /\ Pending(q.row)
      /\ q.row \in Rows /\ q.val \in Vals
  BY <1>1, <1>2, QueryFacts DEF CutoverInv, CopyFits, Pending
<1>4. dest[q.row] = Absent  BY <1>3 DEF CutoverInv, CopyFits
<1>5. PICK parent \in Parents(q.row) : dest[parent] = Absent  BY <1>3, <1>4 DEF Refuses
<1>6. SUFFICES ASSUME parent \notin strayed, parent[1] # Table, ~Cyclic PROVE FALSE
  BY <1>3, <1>5
<1>7. source[parent] # Absent /\ parent \in Rows
  BY <1>3, <1>5, CutoverAssumption, RowFacts DEF CutoverInv, SourceIntact
<1>8. Done(parent[1])
  <2>1. parent[1] \in (schema.refs[Table] \cap Tables) \ {Table}
    BY <1>3, <1>5, <1>6 DEF Parents
  <2>2. position \in DOMAIN CutoverPlan
    <3>1. Len(CutoverPlan) \in Nat /\ DOMAIN CutoverPlan = 1..Len(CutoverPlan)
      BY <1>1, PlanFacts
    <3>. QED  BY <1>1, <3>1 DEF TransferDone, CutoverInv, Typed
  <2>. QED  BY <1>1, <1>6, <2>1, <2>2, PlanFacts DEF Done, Table
<1>. QED  BY <1>1, <1>5, <1>6, <1>7, <1>8 DEF CutoverInv, TransferAgrees, Agrees

(* The transfer is refused a row only because it was there when the copy   *)
(* of its table began, or was written after it was read, or because a row  *)
(* it refers to strayed, is of its own table, or of a cycle: cutover_plan  *)
(* has "each table after every table it references".                       *)
THEOREM CopiesAreRefusedOnlyWhen == Spec => []CopyRefusedOnlyWhen
<1>. QED  BY CutoverInvariant, RefusedWhen, PTL

(* Every variable has its type.                                            *)
THEOREM CutoverTypeCorrect == Spec => []TypeOK
<1>1. CutoverInv => TypeOK
  <2> SUFFICES ASSUME CutoverInv PROVE TypeOK  OBVIOUS
  <2>1. /\ phase \in Phases /\ {source, dest} \subseteq [Rows -> Vals \cup {Absent}]
        /\ query \in [Writers -> Queries \cup {None}] /\ strayed \subseteq Rows
        /\ position \in 1..(Len(schema.tables) + 1)
        /\ copy # None => ~TransferDone /\ copy.after \in Keys \cup {0}
    BY UnderWay, PlanFacts DEF CutoverInv, Typed
  <2>2. \A w \in Writers : query[w] = None \/ query[w] \in Queries  BY <2>1
  <2>3. phase \in {"bulk_transfer", "mirror", "promote", "detach"}  BY <2>1 DEF Phases
  <2>. QED  BY <2>1, <2>2, <2>3 DEF TypeOK
<1>. QED  BY CutoverInvariant, <1>1, PTL
=============================================================================
