---------------------------- MODULE MigrationProofs ----------------------------
(***************************************************************************)
(* Theorems about Migration, for every set of target schemas, every naming *)
(* and every number of faults: the connection is restored, a rebuild is    *)
(* atomic, rows survive.  Only the last needs what a statement does to     *)
(* columns and data.                                                       *)
(***************************************************************************)
EXTENDS Migration, FiniteSetTheorems, SequenceTheorems, WellFoundedInduction, TLAPS

(* What each call of a migrate finds the connection like.                  *)
InOrderly(p) ==
  /\ p \in {"idle", "apply", "seed"} => fkOn /\ ~ paused /\ work = <<>>
  /\ p \in {"disable_foreign_keys", "resume_push"} => fkOn /\ work = <<>>
  /\ p \in {"begin", "enable_foreign_keys"} => work = <<>>

(* The inductive invariant: unless a call that controls the connection has *)
(* raised, the connection is what the next call of the migrate expects.    *)
Orderly == phase \in Phases /\ ("broken" \notin trusted => InOrderly(phase))

(* A statement outside a transaction does not open one.                    *)
LEMMA ExecuteOpensNothing ==
  ASSUME NEW st, Execute(st), work = <<>>
  PROVE  work' = <<>>
  BY DEF Execute

LEMMA OrderlyInit == Init => Orderly
  BY DEF Init, Orderly, InOrderly, Phases

LEMMA OrderlyMigrate ==
  ASSUME Orderly, NEW s \in Targets, Migrate(s)
  PROVE  Orderly'
  <1>1. phase = "idle" /\ phase' \in {"idle", "apply"}
    BY DEF Migrate
  <1>2. "broken" \in trusted' <=> "broken" \in trusted
    BY DEF Migrate
  <1>3. UNCHANGED <<work, fkOn, paused>>
    BY DEF Migrate
  <1>. QED  BY <1>1, <1>2, <1>3 DEF Orderly, InOrderly, Phases

LEMMA OrderlyApplyInPlace ==
  ASSUME Orderly, ApplyInPlace
  PROVE  Orderly'
  <1>1. phase = "apply" /\ phase' \in {"idle", "apply"}
    BY DEF ApplyInPlace, Returns
  <1>2. trusted' = trusted \/ trusted' = trusted \cup {"faulted"}
    BY DEF ApplyInPlace
  <1>3. UNCHANGED <<fkOn, paused>>
    BY DEF ApplyInPlace
  <1>4. work = <<>> => work' = <<>>
    BY ExecuteOpensNothing DEF ApplyInPlace
  <1>. QED  BY <1>1, <1>2, <1>3, <1>4 DEF Orderly, InOrderly, Phases

(* The calls that bracket a rebuild: each leaves what the next expects, or *)
(* raises.  Only the pause, whose failure changes nothing, is harmless.    *)
LEMMA OrderlyBefore ==
  ASSUME Orderly, PausePush \/ DisableForeignKeys \/ Begin
  PROVE  Orderly'
  <1>1. CASE PausePush
    BY <1>1 DEF PausePush, Raises, Returns, Orderly, InOrderly, Phases
  <1>2. CASE DisableForeignKeys
    BY <1>2 DEF DisableForeignKeys, Raises, Returns, Orderly, InOrderly, Phases
  <1>3. CASE Begin
    BY <1>3 DEF Begin, Raises, Returns, Orderly, InOrderly, Phases
  <1>. QED  BY <1>1, <1>2, <1>3

(* Whatever the statements do, the transaction ends in one of two calls.   *)
LEMMA OrderlyRebuild ==
  ASSUME Orderly, Rebuild
  PROVE  Orderly'
  <1>1. phase = "rebuild" /\ phase' \in {"rebuild", "commit", "rollback"}
    BY DEF Rebuild
  <1>. QED  BY <1>1 DEF Orderly, InOrderly, Phases

LEMMA OrderlyAfter ==
  ASSUME Orderly, Commit \/ Rollback \/ EnableForeignKeys \/ ResumePush
  PROVE  Orderly'
  <1>1. CASE Commit
    BY <1>1 DEF Commit, Raises, Returns, Orderly, InOrderly, Phases
  <1>2. CASE Rollback
    BY <1>2 DEF Rollback, Raises, Returns, Orderly, InOrderly, Phases
  <1>3. CASE EnableForeignKeys
    BY <1>3 DEF EnableForeignKeys, Raises, Returns, Orderly, InOrderly, Phases
  <1>4. CASE ResumePush
    BY <1>4 DEF ResumePush, Raises, Returns, Orderly, InOrderly, Phases
  <1>. QED  BY <1>1, <1>2, <1>3, <1>4

LEMMA OrderlySeed ==
  ASSUME Orderly, SeedRegistry \/ Seed
  PROVE  Orderly'
  <1>1. CASE SeedRegistry
    BY <1>1 DEF SeedRegistry, Orderly, InOrderly, Phases
  <1>2. CASE Seed
    <2>1. phase = "seed" /\ phase' \in {"idle", "seed"}
      BY <1>2 DEF Seed, Raises, Returns
    <2>2. trusted' = trusted \/ trusted' = trusted \cup {"faulted"}
      BY <1>2 DEF Seed
    <2>3. UNCHANGED <<fkOn, paused>>
      BY <1>2 DEF Seed
    <2>4. work = <<>> => work' = <<>>
      BY <1>2, ExecuteOpensNothing DEF Seed
    <2>. QED  BY <2>1, <2>2, <2>3, <2>4 DEF Orderly, InOrderly, Phases
  <1>. QED  BY <1>1, <1>2

LEMMA OrderlyOutside ==
  ASSUME Orderly, WriteRows \/ Reconnect
  PROVE  Orderly'
  <1>1. CASE WriteRows
    BY <1>1 DEF WriteRows, Orderly, InOrderly, Phases
  <1>2. CASE Reconnect
    BY <1>2 DEF Reconnect, Returns, Orderly, InOrderly, Phases
  <1>. QED  BY <1>1, <1>2

LEMMA OrderlyNext == Orderly /\ [Next]_vars => Orderly'
  <1>. SUFFICES ASSUME Orderly, [Next]_vars PROVE Orderly'
    OBVIOUS
  <1>1. CASE \E s \in Targets : Migrate(s)
    BY <1>1, OrderlyMigrate
  <1>2. CASE ApplyInPlace
    BY <1>2, OrderlyApplyInPlace
  <1>3. CASE PausePush \/ DisableForeignKeys \/ Begin
    BY <1>3, OrderlyBefore
  <1>4. CASE Rebuild
    BY <1>4, OrderlyRebuild
  <1>5. CASE Commit \/ Rollback \/ EnableForeignKeys \/ ResumePush
    BY <1>5, OrderlyAfter
  <1>6. CASE SeedRegistry \/ Seed
    BY <1>6, OrderlySeed
  <1>7. CASE WriteRows \/ Reconnect
    BY <1>7, OrderlyOutside
  <1>8. CASE UNCHANGED vars
    BY <1>8 DEF vars, Orderly, InOrderly
  <1>. QED  BY <1>1, <1>2, <1>3, <1>4, <1>5, <1>6, <1>7, <1>8 DEF Next

(* "the connection is never left with them off" (_reconstruct, apply.py):  *)
(* whatever a rebuild met, when migrate is over the foreign key checks are *)
(* on, the push runs and no transaction is open, unless one of the calls   *)
(* that control them raised on this connection.                            *)
THEOREM ConnectionIsRestored == Spec => []ConnectionRestored
  <1>1. Orderly => ConnectionRestored
    BY DEF Orderly, InOrderly, ConnectionRestored
  <1>. QED  BY <1>1, OrderlyInit, OrderlyNext, PTL DEF Spec

-----------------------------------------------------------------------------
(* Induction on numbers, for a set.                                        *)
LEMMA SetInduction ==
  ASSUME NEW T, 0 \in T, \A n \in Nat : n \in T => n + 1 \in T
  PROVE  Nat \subseteq T
<1> DEFINE Less == {ss \in Nat \X Nat : ss[1] < ss[2]}
<1> SUFFICES ASSUME Nat \ T # {} PROVE FALSE  OBVIOUS
<1>1. IsWellFoundedOn(Less, Nat)
  <2>1. OpToRel(<, Nat) = Less  BY DEF OpToRel
  <2>. QED  BY NatLessThanWellFounded, <2>1
<1>2. PICK x \in Nat \ T : ~ \E y \in Nat \ T : <<y, x>> \in Less
  <2>1. Nat \ T \subseteq Nat  OBVIOUS
  <2> HIDE DEF Less
  <2>. QED  BY ONLY WFMin, <1>1, <2>1, Nat \ T # {}
<1>3. x - 1 \in Nat \ T  OBVIOUS
<1>4. <<x - 1, x>> \in Less  BY <1>3
<1>. QED  BY <1>2, <1>3, <1>4

(* A step that stays in a set can be iterated.                             *)
IsIterate(h, S, k, base, step) ==
  /\ h \in [0..k -> S]
  /\ h[0] = base
  /\ \A n \in 1..k : h[n] = step[n][h[n - 1]]

LEMMA Iterates ==
  ASSUME NEW S, NEW k \in Nat, NEW base \in S, NEW step \in [1..k -> [S -> S]]
  PROVE  \E h : IsIterate(h, S, k, base, step)
<1> DEFINE T == {m \in Nat : m <= k => \E h \in [0..m -> S] :
                   h[0] = base /\ \A n \in 1..m : h[n] = step[n][h[n - 1]]}
<1>1. 0 \in T
  <2> DEFINE g == [i \in 0..0 |-> base]
  <2>1. g \in [0..0 -> S] /\ g[0] = base  OBVIOUS
  <2>2. \A n \in 1..0 : g[n] = step[n][g[n - 1]]  OBVIOUS
  <2> HIDE DEF g
  <2>. QED  BY <2>1, <2>2
<1>2. ASSUME NEW m \in Nat, m \in T PROVE m + 1 \in T
  <2> SUFFICES ASSUME m + 1 <= k
               PROVE  \E h \in [0..m + 1 -> S] :
                 h[0] = base /\ \A n \in 1..m + 1 : h[n] = step[n][h[n - 1]]
    OBVIOUS
  <2>1. PICK h \in [0..m -> S] :
          h[0] = base /\ \A n \in 1..m : h[n] = step[n][h[n - 1]]
    BY <1>2
  <2> DEFINE next == step[m + 1][h[m]]
             g == [n \in 0..m + 1 |-> IF n = m + 1 THEN next ELSE h[n]]
  <2>2. next \in S
    <3>1. h[m] \in S /\ m + 1 \in 1..k  BY <2>1
    <3>. QED  BY <3>1
  <2>3. g \in [0..m + 1 -> S] /\ g[0] = base  BY <2>1, <2>2
  <2>4. ASSUME NEW n \in 1..m + 1 PROVE g[n] = step[n][g[n - 1]]
    <3>1. g[n - 1] = h[n - 1]  OBVIOUS
    <3>2. CASE n = m + 1
      <4>1. n - 1 = m  BY <3>2
      <4>2. g[n] = next  BY <3>2
      <4>. QED  BY <3>1, <3>2, <4>1, <4>2
    <3>3. CASE n \in 1..m  BY <2>1, <3>1, <3>3
    <3>. QED  BY <3>2, <3>3
  <2> HIDE DEF g
  <2>. QED  BY <2>3, <2>4
<1>3. Nat \subseteq T
  <2> HIDE DEF T
  <2>. QED  BY ONLY SetInduction, <1>1, <1>2
<1>4. k \in T  BY <1>3
<1>. QED  BY <1>4 DEF IsIterate

LEMMA StaysIn ==
  ASSUME NEW S, NEW k \in Nat, NEW h, h[0] \in S,
         \A n \in 1..k : h[n - 1] \in S => h[n] \in S
  PROVE  h[k] \in S
<1> DEFINE T == {m \in Nat : m <= k => h[m] \in S}
<1>1. 0 \in T  OBVIOUS
<1>2. ASSUME NEW m \in Nat, m \in T PROVE m + 1 \in T
  <2>1. m + 1 <= k => m + 1 \in 1..k /\ (m + 1) - 1 = m  OBVIOUS
  <2>. QED  BY <1>2, <2>1
<1>3. Nat \subseteq T
  <2> HIDE DEF T
  <2>. QED  BY ONLY SetInduction, <1>1, <1>2
<1>. QED  BY <1>3

(* The names in order are names of the set.                                *)
LEMMA InOrderIsSeq ==
  ASSUME NEW S
  PROVE  InOrder(S) \in Seq(S)
<1> DEFINE names == S \cap DOMAIN Rank
           k == Cardinality(names)
           Firsts(done) == LET left == names \ ToSet(done)
                           IN {x \in left : \A y \in left : Rank[x] <= Rank[y]}
           Step(done) == IF Firsts(done) = {} THEN done
                         ELSE Append(done, CHOOSE x \in Firsts(done) : TRUE)
           F == CHOOSE f : f = [n \in 0..k |-> IF n = 0 THEN <<>> ELSE Step(f[n - 1])]
           Q == Seq(S)
<1>1. k \in Nat  BY NamesAssumption, FS_Subset, FS_CardinalityType
<1>2. InOrder(S) = F[k]  BY DEF InOrder
<1>3. \A done \in Q : Step(done) \in Q
  <2> TAKE done \in Q
  <2>1. Firsts(done) \subseteq S  OBVIOUS
  <2> HIDE DEF Firsts
  <2>. QED  BY <2>1, AppendProperties
<1> HIDE DEF k, Step
<1> DEFINE step == [n \in 1..k |-> [done \in Q |-> Step(done)]]
<1>4. step \in [1..k -> [Q -> Q]]  BY <1>3
<1>5. <<>> \in Q  OBVIOUS
<1>6. PICK h : IsIterate(h, Q, k, <<>>, step)
  <2> HIDE DEF step, Q
  <2>. QED  BY <1>1, <1>4, <1>5, Iterates
<1> HIDE DEF Q
<1>7. h = [n \in 0..k |-> IF n = 0 THEN <<>> ELSE Step(h[n - 1])]
  <2>1. ASSUME NEW n \in 1..k PROVE h[n] = Step(h[n - 1])
    <3>1. h[n - 1] \in Q  BY <1>1, <1>6 DEF IsIterate
    <3>. QED  BY <1>6, <3>1 DEF IsIterate
  <2>. QED  BY <1>1, <1>6, <2>1 DEF IsIterate
<1>8. F = [n \in 0..k |-> IF n = 0 THEN <<>> ELSE Step(F[n - 1])]  BY <1>7
<1> HIDE DEF F
<1>9. F[0] = <<>>  BY <1>1, <1>8
<1>10. \A n \in 1..k : F[n] = Step(F[n - 1])  BY <1>1, <1>8
<1>11. F[k] \in Q
  <2>1. F[0] \in Q /\ \A n \in 1..k : F[n - 1] \in Q => F[n] \in Q
    BY <1>3, <1>5, <1>9, <1>10
  <2>. QED  BY ONLY <1>1, <2>1, StaysIn, Zenon
<1>. QED  BY <1>2, <1>11 DEF Q

LEMMA LeastExists ==
  ASSUME NEW T, T \subseteq Nat, T # {}
  PROVE  \E i \in T : \A j \in T : i <= j
<1>1. PICK n \in T : \A m \in T : ~ (<<m, n>> \in OpToRel(<, Nat))
  BY NatLessThanWellFounded, WFMin
<1>2. \A m, k \in Nat : m < k => <<m, k>> \in OpToRel(<, Nat)  BY Zenon DEF OpToRel
<1>3. ASSUME NEW m \in T PROVE ~ (m < n)  BY <1>1, <1>2, Zenon
<1>. QED  BY <1>3

(* The order takes indexes of the graph it sorts.                          *)
LEMMA OrderIsSeq ==
  ASSUME NEW deps, Len(deps) \in Nat, DOMAIN deps = 1..Len(deps)
  PROVE  TopologicalOrder(deps) \in Seq(DOMAIN deps)
<1> DEFINE Ready(done) == {i \in DOMAIN deps \ ToSet(done) : deps[i] \subseteq ToSet(done)}
           Step(done) == IF Ready(done) = {} THEN done
                         ELSE Append(done, CHOOSE i \in Ready(done) :
                                             \A j \in Ready(done) : i <= j)
           k == Len(deps)
           F == CHOOSE f : f = [n \in 0..k |-> IF n = 0 THEN <<>> ELSE Step(f[n - 1])]
           Q == Seq(DOMAIN deps)
<1>1. k \in Nat  OBVIOUS
<1>2. TopologicalOrder(deps) = F[k]  BY DEF TopologicalOrder
<1>3. \A done \in Q : Step(done) \in Q
  <2> TAKE done \in Q
  <2>1. CASE Ready(done) = {}  BY <2>1
  <2>2. CASE Ready(done) # {}
    <3> DEFINE i == CHOOSE i \in Ready(done) : \A j \in Ready(done) : i <= j
    <3>1. Step(done) = Append(done, i)  BY <2>2
    <3>2. i \in DOMAIN deps
      <4>1. Ready(done) \subseteq DOMAIN deps  OBVIOUS
      <4>2. \E x \in Ready(done) : \A j \in Ready(done) : x <= j
        <5>1. Ready(done) \subseteq Nat  BY <4>1
        <5> HIDE DEF Ready
        <5>. QED  BY <2>2, <5>1, LeastExists
      <4> HIDE DEF Ready
      <4>. QED  BY <4>1, <4>2
    <3>. QED  BY <3>1, <3>2, AppendProperties
  <2>. QED  BY <2>1, <2>2
<1> HIDE DEF k, Step
<1> DEFINE step == [n \in 1..k |-> [done \in Q |-> Step(done)]]
<1>4. step \in [1..k -> [Q -> Q]]  BY <1>3
<1>5. <<>> \in Q  OBVIOUS
<1>6. PICK h : IsIterate(h, Q, k, <<>>, step)
  <2> HIDE DEF step, Q
  <2>. QED  BY <1>1, <1>4, <1>5, Iterates
<1> HIDE DEF Q
<1>7. h = [n \in 0..k |-> IF n = 0 THEN <<>> ELSE Step(h[n - 1])]
  <2>1. ASSUME NEW n \in 1..k PROVE h[n] = Step(h[n - 1])
    <3>1. h[n - 1] \in Q  BY <1>1, <1>6 DEF IsIterate
    <3>. QED  BY <1>6, <3>1 DEF IsIterate
  <2>. QED  BY <1>1, <1>6, <2>1 DEF IsIterate
<1>8. F = [n \in 0..k |-> IF n = 0 THEN <<>> ELSE Step(F[n - 1])]  BY <1>7
<1> HIDE DEF F
<1>9. F[0] = <<>>  BY <1>1, <1>8
<1>10. \A n \in 1..k : F[n] = Step(F[n - 1])  BY <1>1, <1>8
<1>11. F[k] \in Q
  <2>1. F[0] \in Q /\ \A n \in 1..k : F[n - 1] \in Q => F[n] \in Q
    BY <1>3, <1>5, <1>9, <1>10
  <2>. QED  BY ONLY <1>1, <2>1, StaysIn, Zenon
<1>. QED  BY <1>2, <1>11 DEF Q

(* What is left to do was to be done.                                      *)
LEMMA OthersAreKept ==
  ASSUME NEW S, NEW ops \in Seq(S), NEW t
  PROVE  OnOthers(ops, t) \in Seq({op \in S : op.table # t})
<1> DEFINE Step(done, n) == IF ops[n].table = t THEN done ELSE Append(done, ops[n])
           k == Len(ops)
           F == CHOOSE f : f = [n \in 0..k |-> IF n = 0 THEN <<>> ELSE Step(f[n - 1], n)]
           Q == Seq({op \in S : op.table # t})
<1>1. k \in Nat  OBVIOUS
<1>2. OnOthers(ops, t) = F[k]  BY DEF OnOthers
<1>3. \A done \in Q, n \in 1..k : Step(done, n) \in Q
  <2> SUFFICES ASSUME NEW done \in Q, NEW n \in 1..k PROVE Step(done, n) \in Q
    OBVIOUS
  <2>1. ops[n] \in S  BY ElementOfSeq
  <2>2. CASE ops[n].table = t  BY <2>2
  <2>3. CASE ops[n].table # t
    <3>1. Append(done, ops[n]) \in Q  BY <2>1, <2>3, AppendProperties
    <3>. QED  BY <2>3, <3>1
  <2>. QED  BY <2>2, <2>3
<1> HIDE DEF k, Step
<1> DEFINE step == [n \in 1..k |-> [done \in Q |-> Step(done, n)]]
<1>4. step \in [1..k -> [Q -> Q]]  BY <1>3
<1>5. <<>> \in Q  OBVIOUS
<1>6. PICK h : IsIterate(h, Q, k, <<>>, step)
  <2> HIDE DEF step, Q
  <2>. QED  BY <1>1, <1>4, <1>5, Iterates
<1> HIDE DEF Q
<1>7. h = [n \in 0..k |-> IF n = 0 THEN <<>> ELSE Step(h[n - 1], n)]
  <2>1. ASSUME NEW n \in 1..k PROVE h[n] = Step(h[n - 1], n)
    <3>1. h[n - 1] \in Q  BY <1>1, <1>6 DEF IsIterate
    <3>. QED  BY <1>6, <3>1 DEF IsIterate
  <2>. QED  BY <1>1, <1>6, <2>1 DEF IsIterate
<1>8. F = [n \in 0..k |-> IF n = 0 THEN <<>> ELSE Step(F[n - 1], n)]  BY <1>7
<1> HIDE DEF F
<1>9. F[0] = <<>>  BY <1>1, <1>8
<1>10. \A n \in 1..k : F[n] = Step(F[n - 1], n)  BY <1>1, <1>8
<1>11. F[k] \in Q
  <2>1. F[0] \in Q /\ \A n \in 1..k : F[n - 1] \in Q => F[n] \in Q
    BY <1>3, <1>5, <1>9, <1>10
  <2>. QED  BY ONLY <1>1, <2>1, StaysIn, Zenon
<1>. QED  BY <1>2, <1>11 DEF Q

(* The elements of the flattened sequences are theirs.                     *)
LEMMA FlattenIsSeq ==
  ASSUME NEW S, NEW seqs \in Seq(Seq(S))
  PROVE  FlattenSeq(seqs) \in Seq(S)
<1> DEFINE k == Len(seqs)
           Q == Seq(S)
           Step(done, n) == done \o seqs[n]
           F == CHOOSE f : f = [n \in 1..k |-> IF n = 1 THEN seqs[n] ELSE Step(f[n - 1], n)]
<1>1. k \in Nat  OBVIOUS
<1>2. CASE seqs = <<>>  BY <1>2 DEF FlattenSeq
<1>3. CASE seqs # <<>>
  <2>1. FlattenSeq(seqs) = F[k] /\ k # 0  BY <1>3 DEF FlattenSeq
  <2>2. \A n \in 1..k : seqs[n] \in Q  BY ElementOfSeq
  <2>3. \A done \in Q, n \in 1..k : Step(done, n) \in Q
    BY <2>2, ConcatProperties
  <2>4. \A n \in 1..k : Step(<<>>, n) = seqs[n]  BY <2>2, ConcatEmptySeq
  <2>5. <<>> \in Q  OBVIOUS
  <2> HIDE DEF k, Step, Q
  <2> DEFINE step == [n \in 1..k |-> [done \in Q |-> Step(done, n)]]
  <2>6. step \in [1..k -> [Q -> Q]]  BY <2>3
  <2>7. PICK h : IsIterate(h, Q, k, <<>>, step)
    <3> HIDE DEF step
    <3>. QED  BY <1>1, <2>5, <2>6, Iterates
  <2> DEFINE g == [n \in 1..k |-> h[n]]
  <2>8. g = [n \in 1..k |-> IF n = 1 THEN seqs[n] ELSE Step(g[n - 1], n)]
    <3>1. ASSUME NEW n \in 1..k
          PROVE  h[n] = IF n = 1 THEN seqs[n] ELSE Step(h[n - 1], n)
      <4>1. h[n - 1] \in Q  BY <1>1, <2>7 DEF IsIterate
      <4>2. h[n] = Step(h[n - 1], n)  BY <2>7, <4>1 DEF IsIterate
      <4>3. n = 1 => h[n - 1] = <<>>  BY <2>7 DEF IsIterate
      <4>. QED  BY <2>4, <4>2, <4>3
    <3>2. \A n \in 1..k : n # 1 => n - 1 \in 1..k  BY <1>1
    <3>. QED  BY <3>1, <3>2
  <2> HIDE DEF g
  <2>9. F = [n \in 1..k |-> IF n = 1 THEN seqs[n] ELSE Step(F[n - 1], n)]  BY <2>8
  <2> HIDE DEF F
  <2> DEFINE f == [n \in 0..k |-> IF n = 0 THEN <<>> ELSE F[n]]
  <2>10. f[0] \in Q  BY <1>1, <2>5
  <2>11. ASSUME NEW n \in 1..k, f[n - 1] \in Q PROVE f[n] \in Q
    <3>1. f[n] = F[n]  BY <1>1
    <3>2. CASE n = 1  BY <2>2, <2>9, <3>1, <3>2
    <3>3. CASE n # 1
      <4>1. f[n - 1] = F[n - 1]  BY <1>1, <3>3
      <4>. QED  BY <2>3, <2>9, <2>11, <3>1, <3>3, <4>1
    <3>. QED  BY <3>2, <3>3
  <2>12. f[k] \in Q
    <3> HIDE DEF f
    <3>. QED  BY ONLY <1>1, <2>10, <2>11, StaysIn, Zenon
  <2>. QED  BY <1>1, <2>1, <2>12 DEF Q
<1>. QED  BY <1>2, <1>3

-----------------------------------------------------------------------------
(* The operations of a plan keep the wanted tables.                        *)
Suits(op, have, wanted) ==
  /\ KeepsWanted(op, wanted)
  /\ op.op = "add_column" => op.table \in DOMAIN have /\ op.name \notin DOMAIN have[op.table]

Kept(ops, have, wanted) ==
  \E S : ops \in Seq(S) /\ \A op \in S : Suits(op, have, wanted)

LEMMA KeptElements ==
  ASSUME NEW ops, NEW have, NEW wanted, Kept(ops, have, wanted)
  PROVE  /\ ops \in Seq(ToSet(ops))
         /\ \A i \in DOMAIN ops : Suits(ops[i], have, wanted)
<1>1. PICK S : ops \in Seq(S) /\ \A op \in S : Suits(op, have, wanted)  BY DEF Kept
<1>2. \A i \in 1..Len(ops) : ops[i] \in S  BY <1>1, ElementOfSeq
<1>3. DOMAIN ops = 1..Len(ops)  BY <1>1, LenProperties
<1>4. ops \in Seq(ToSet(ops))  BY <1>1, <1>3 DEF ToSet
<1>. QED  BY <1>1, <1>2, <1>3, <1>4

LEMMA KeptWhen ==
  ASSUME NEW have, NEW wanted, NEW names, NEW S, names \in Seq(S), NEW ops,
         DOMAIN ops = DOMAIN names, ops = [i \in DOMAIN names |-> ops[i]],
         \A i \in DOMAIN names : Suits(ops[i], have, wanted)
  PROVE  Kept(ops, have, wanted)
<1> DEFINE E == {ops[i] : i \in DOMAIN names}
<1>1. ops \in Seq(E)  BY LenProperties
<1>2. \A op \in E : Suits(op, have, wanted)  OBVIOUS
<1>. QED  BY <1>1, <1>2 DEF Kept

LEMMA KeptConcat ==
  ASSUME NEW a, NEW b, NEW have, NEW wanted, Kept(a, have, wanted), Kept(b, have, wanted)
  PROVE  Kept(a \o b, have, wanted)
<1>1. PICK A : a \in Seq(A) /\ \A op \in A : Suits(op, have, wanted)  BY DEF Kept
<1>2. PICK B : b \in Seq(B) /\ \A op \in B : Suits(op, have, wanted)  BY DEF Kept
<1>3. a \in Seq(A \cup B) /\ b \in Seq(A \cup B)  BY <1>1, <1>2
<1>4. a \o b \in Seq(A \cup B)  BY <1>3, ConcatProperties
<1>. QED  BY <1>1, <1>2, <1>4 DEF Kept

LEMMA KeptFlatten ==
  ASSUME NEW have, NEW wanted, NEW names, NEW S, names \in Seq(S), NEW seqs,
         DOMAIN seqs = DOMAIN names, seqs = [i \in DOMAIN names |-> seqs[i]],
         \A i \in DOMAIN names : Kept(seqs[i], have, wanted)
  PROVE  Kept(FlattenSeq(seqs), have, wanted)
<1> DEFINE X == UNION {ToSet(seqs[i]) : i \in DOMAIN names}
           K == {op \in X : Suits(op, have, wanted)}
<1>1. ASSUME NEW i \in DOMAIN names PROVE seqs[i] \in Seq(K)
  <2>1. /\ seqs[i] \in Seq(ToSet(seqs[i]))
        /\ \A j \in DOMAIN seqs[i] : Suits(seqs[i][j], have, wanted)
    BY KeptElements
  <2>2. \A j \in DOMAIN seqs[i] : seqs[i][j] \in ToSet(seqs[i])  BY DEF ToSet
  <2>3. \A j \in DOMAIN seqs[i] : seqs[i][j] \in K  BY <2>1, <2>2
  <2> HIDE DEF K
  <2>. QED  BY <2>1, <2>3, LenProperties
<1>2. DOMAIN names = 1..Len(names) /\ Len(names) \in Nat  BY LenProperties
<1> HIDE DEF K
<1>3. seqs \in Seq(Seq(K))  BY <1>1, <1>2
<1>4. FlattenSeq(seqs) \in Seq(K)  BY <1>3, FlattenIsSeq
<1>. QED  BY <1>4 DEF Kept, K

LEMMA ColumnsKept ==
  ASSUME NEW have, NEW wanted, NEW t \in DOMAIN have \cap DOMAIN wanted, t # Temp
  PROVE  Kept(DiffColumns(t, have[t], wanted[t]), have, wanted)
<1> DEFINE cur == have[t]
           tgt == wanted[t]
           renames == Renames(cur, tgt)
           Drops == (DOMAIN cur \ DOMAIN tgt) \ {tgt[c].from : c \in renames}
           Adds == (DOMAIN tgt \ DOMAIN cur) \ renames
           Alters == {c \in DOMAIN cur \cap DOMAIN tgt : cur[c].type # tgt[c].type}
           d == [i \in DOMAIN InOrder(Drops) |->
                   Op("drop_column", t, InOrder(Drops)[i], None, {})]
           r == [i \in DOMAIN InOrder(renames) |->
                   Op("rename_column", t, tgt[InOrder(renames)[i]].from, InOrder(renames)[i], {})]
           a == [i \in DOMAIN InOrder(Adds) |->
                   Op("add_column", t, InOrder(Adds)[i], tgt[InOrder(Adds)[i]], {})]
           x == [i \in DOMAIN InOrder(Alters) |->
                   Op("alter_column", t, InOrder(Alters)[i], tgt[InOrder(Alters)[i]], {})]
<1>1. DiffColumns(t, cur, tgt) = d \o r \o a \o x  BY DEF DiffColumns, Each
<1>2. /\ \A c \in Drops : c \notin DOMAIN tgt
      /\ \A c \in renames : c \in DOMAIN tgt /\ tgt[c].from \notin DOMAIN tgt
      /\ \A c \in Adds : c \in DOMAIN tgt /\ c \notin DOMAIN cur
  BY DEF Renames
<1> HIDE DEF Drops, Adds, Alters, renames
<1>3. /\ \A c \in Drops : Suits(Op("drop_column", t, c, None, {}), have, wanted)
      /\ \A c \in renames : Suits(Op("rename_column", t, tgt[c].from, c, {}), have, wanted)
      /\ \A c \in Adds : Suits(Op("add_column", t, c, tgt[c], {}), have, wanted)
      /\ \A c \in Alters : Suits(Op("alter_column", t, c, tgt[c], {}), have, wanted)
  <2>1. ASSUME NEW c \in Drops PROVE Suits(Op("drop_column", t, c, None, {}), have, wanted)
    BY <1>2 DEF Suits, KeepsWanted, Op, PlannedOps
  <2>2. ASSUME NEW c \in renames
        PROVE  Suits(Op("rename_column", t, tgt[c].from, c, {}), have, wanted)
    BY <1>2 DEF Suits, KeepsWanted, Op, PlannedOps
  <2>3. ASSUME NEW c \in Adds PROVE Suits(Op("add_column", t, c, tgt[c], {}), have, wanted)
    BY <1>2 DEF Suits, KeepsWanted, Op, PlannedOps
  <2>4. ASSUME NEW c \in Alters PROVE Suits(Op("alter_column", t, c, tgt[c], {}), have, wanted)
    BY DEF Suits, KeepsWanted, Op, PlannedOps
  <2>. QED  BY <2>1, <2>2, <2>3, <2>4
<1>4. /\ InOrder(Drops) \in Seq(Drops) /\ InOrder(renames) \in Seq(renames)
      /\ InOrder(Adds) \in Seq(Adds) /\ InOrder(Alters) \in Seq(Alters)
  BY InOrderIsSeq
<1>5. /\ \A i \in DOMAIN InOrder(Drops) : InOrder(Drops)[i] \in Drops
      /\ \A i \in DOMAIN InOrder(renames) : InOrder(renames)[i] \in renames
      /\ \A i \in DOMAIN InOrder(Adds) : InOrder(Adds)[i] \in Adds
      /\ \A i \in DOMAIN InOrder(Alters) : InOrder(Alters)[i] \in Alters
  BY <1>4, ElementOfSeq, LenProperties
<1>6. Kept(d, have, wanted)  BY <1>3, <1>4, <1>5, KeptWhen
<1>7. Kept(r, have, wanted)  BY <1>3, <1>4, <1>5, KeptWhen
<1>8. Kept(a, have, wanted)  BY <1>3, <1>4, <1>5, KeptWhen
<1>9. Kept(x, have, wanted)  BY <1>3, <1>4, <1>5, KeptWhen
<1> HIDE DEF d, r, a, x
<1>10. Kept(d \o r \o a \o x, have, wanted)  BY <1>6, <1>7, <1>8, <1>9, KeptConcat
<1>. QED  BY <1>1, <1>10 DEF cur, tgt

LEMMA KeptFew ==
  ASSUME NEW have, NEW wanted
  PROVE  /\ Kept(<<>>, have, wanted)
         /\ \A op : Suits(op, have, wanted) => Kept(<<op>>, have, wanted)
         /\ \A o, p : Suits(o, have, wanted) /\ Suits(p, have, wanted) => Kept(<<o, p>>, have, wanted)
<1>1. Kept(<<>>, have, wanted)
  <2> DEFINE S == {}
  <2>1. <<>> \in Seq(S) /\ \A x \in S : Suits(x, have, wanted)  OBVIOUS
  <2> HIDE DEF S
  <2>. QED  BY <2>1 DEF Kept
<1>2. ASSUME NEW op, Suits(op, have, wanted) PROVE Kept(<<op>>, have, wanted)
  <2> DEFINE S == {op}
  <2>1. <<op>> \in Seq(S) /\ \A x \in S : Suits(x, have, wanted)  BY <1>2
  <2> HIDE DEF S
  <2>. QED  BY <2>1 DEF Kept
<1>3. ASSUME NEW o, NEW p, Suits(o, have, wanted), Suits(p, have, wanted)
      PROVE  Kept(<<o, p>>, have, wanted)
  <2> DEFINE S == {o, p}
  <2>1. <<o, p>> \in Seq(S) /\ \A x \in S : Suits(x, have, wanted)  BY <1>3
  <2> HIDE DEF S
  <2>. QED  BY <2>1 DEF Kept
<1>. QED  BY <1>1, <1>2, <1>3

LEMMA ForeignKeysKept ==
  ASSUME NEW have, NEW wanted, NEW t \in DOMAIN wanted, t # Temp, NEW cur, NEW tgt
  PROVE  Kept(DiffForeignKeys(t, cur, tgt), have, wanted)
<1> DEFINE S == {c \in DOMAIN cur \cap DOMAIN tgt : cur[c].ref # tgt[c].ref}
           Of(c) == (IF cur[c].ref = None THEN <<>>
                     ELSE <<Op("drop_foreign_key", t, c, None, {cur[c].ref})>>)
                    \o (IF tgt[c].ref = None THEN <<>>
                        ELSE <<Op("add_foreign_key", t, c, tgt[c], {tgt[c].ref})>>)
           names == InOrder(S)
           seqs == [i \in DOMAIN names |-> Of(names[i])]
<1>1. DiffForeignKeys(t, cur, tgt) = FlattenSeq(seqs)  BY DEF DiffForeignKeys, EachOf, Each
<1>2. \A c : Kept(Of(c), have, wanted)
  <2> TAKE c
  <2>1. /\ Suits(Op("drop_foreign_key", t, c, None, {cur[c].ref}), have, wanted)
        /\ Suits(Op("add_foreign_key", t, c, tgt[c], {tgt[c].ref}), have, wanted)
    BY DEF Suits, KeepsWanted, Op, PlannedOps
  <2>2. Kept(IF cur[c].ref = None THEN <<>>
             ELSE <<Op("drop_foreign_key", t, c, None, {cur[c].ref})>>, have, wanted)
    BY <2>1, KeptFew
  <2>3. Kept(IF tgt[c].ref = None THEN <<>>
             ELSE <<Op("add_foreign_key", t, c, tgt[c], {tgt[c].ref})>>, have, wanted)
    BY <2>1, KeptFew
  <2>. QED  BY <2>2, <2>3, KeptConcat
<1> HIDE DEF S, Of
<1>3. names \in Seq(S)  BY InOrderIsSeq
<1> HIDE DEF names
<1>4. /\ DOMAIN seqs = DOMAIN names /\ seqs = [i \in DOMAIN names |-> seqs[i]]
      /\ \A i \in DOMAIN names : Kept(seqs[i], have, wanted)
  BY <1>2
<1> HIDE DEF seqs
<1>. QED  BY <1>1, <1>3, <1>4, KeptFlatten

LEMMA ViewOpsKept ==
  ASSUME NEW cur, NEW tgt, NEW have, NEW wanted
  PROVE  Kept(DiffViews(cur, tgt), have, wanted)
<1> DEFINE Drop(v) == OnView("drop_view", v, cur[v])
           Create(v) == OnView("create_view", v, tgt[v])
           Gone == DOMAIN cur \ DOMAIN tgt
           Come == DOMAIN tgt \ DOMAIN cur
           Both == {v \in DOMAIN cur \cap DOMAIN tgt : cur[v] # tgt[v]}
           g == [i \in DOMAIN InOrder(Gone) |-> Drop(InOrder(Gone)[i])]
           c == [i \in DOMAIN InOrder(Come) |-> Create(InOrder(Come)[i])]
           b == [i \in DOMAIN InOrder(Both) |->
                   <<Drop(InOrder(Both)[i]), Create(InOrder(Both)[i])>>]
<1>1. DiffViews(cur, tgt) = g \o c \o FlattenSeq(b)  BY DEF DiffViews, EachOf, Each
<1>2. \A v : Suits(Drop(v), have, wanted) /\ Suits(Create(v), have, wanted)
  BY NamesAssumption DEF Suits, KeepsWanted, OnView, Op, PlannedOps
<1> HIDE DEF Drop, Create, Gone, Come, Both
<1>3. /\ InOrder(Gone) \in Seq(Gone) /\ InOrder(Come) \in Seq(Come)
      /\ InOrder(Both) \in Seq(Both)
  BY InOrderIsSeq
<1>4. Kept(g, have, wanted)  BY <1>2, <1>3, KeptWhen
<1>5. Kept(c, have, wanted)  BY <1>2, <1>3, KeptWhen
<1>6. Kept(FlattenSeq(b), have, wanted)
  <2>1. \A v : Kept(<<Drop(v), Create(v)>>, have, wanted)  BY <1>2, KeptFew
  <2>2. /\ DOMAIN b = DOMAIN InOrder(Both) /\ b = [i \in DOMAIN InOrder(Both) |-> b[i]]
        /\ \A i \in DOMAIN InOrder(Both) : Kept(b[i], have, wanted)
    BY <2>1
  <2> HIDE DEF b
  <2>. QED  BY <1>3, <2>2, KeptFlatten
<1> HIDE DEF g, c, b
<1>7. Kept(g \o c, have, wanted)  BY <1>4, <1>5, KeptConcat
<1>. QED  BY <1>1, <1>6, <1>7, KeptConcat

(* No operation of a diff is on Temp, or drops a table of the target.      *)
LEMMA OperationsKept ==
  ASSUME NEW current, NEW s, Temp \notin DOMAIN current.tables, Temp \notin DOMAIN s.tables
  PROVE  Kept(Operations(current, s), current.tables, s.tables)
<1> DEFINE cur == current.tables
           tgt == s.tables
           have == cur
           wanted == tgt
           Gone == DOMAIN cur \ DOMAIN tgt
           Come == DOMAIN tgt \ DOMAIN cur
           Both == DOMAIN cur \cap DOMAIN tgt
           Of(t) == DiffColumns(t, cur[t], tgt[t]) \o DiffForeignKeys(t, cur[t], tgt[t])
           g == [i \in DOMAIN InOrder(Gone) |->
                   Op("drop_table", InOrder(Gone)[i], None, None, Refs(cur[InOrder(Gone)[i]]))]
           c == [i \in DOMAIN InOrder(Come) |->
                   Op("create_table", InOrder(Come)[i], None, tgt[InOrder(Come)[i]],
                      Refs(tgt[InOrder(Come)[i]]))]
           b == [i \in DOMAIN InOrder(Both) |-> Of(InOrder(Both)[i])]
<1>1. Operations(current, s)
        = g \o c \o FlattenSeq(b) \o DiffViews(current.views, s.views)
  BY DEF Operations, EachOf, Each
<1>2. /\ \A t \in Gone : \A n, e, f : Suits(Op("drop_table", t, n, e, f), have, wanted)
      /\ \A t \in Come : \A n, f : Suits(Op("create_table", t, n, tgt[t], f), have, wanted)
  BY DEF Suits, KeepsWanted, Op, PlannedOps
<1>3. \A t \in Both : Kept(Of(t), have, wanted)
  BY ColumnsKept, ForeignKeysKept, KeptConcat
<1> HIDE DEF Gone, Come, Both, Of
<1>4. /\ InOrder(Gone) \in Seq(Gone) /\ InOrder(Come) \in Seq(Come)
      /\ InOrder(Both) \in Seq(Both)
  BY InOrderIsSeq
<1>5. /\ \A i \in DOMAIN InOrder(Gone) : InOrder(Gone)[i] \in Gone
      /\ \A i \in DOMAIN InOrder(Come) : InOrder(Come)[i] \in Come
      /\ \A i \in DOMAIN InOrder(Both) : InOrder(Both)[i] \in Both
  BY <1>4, ElementOfSeq, LenProperties
<1>6. Kept(g, have, wanted)
  <2>1. \A i \in DOMAIN InOrder(Gone) : Suits(g[i], have, wanted)  BY <1>2, <1>5
  <2>2. DOMAIN g = DOMAIN InOrder(Gone) /\ g = [i \in DOMAIN InOrder(Gone) |-> g[i]]  OBVIOUS
  <2> HIDE DEF g, wanted
  <2>. QED  BY <1>4, <2>1, <2>2, KeptWhen
<1>7. Kept(c, have, wanted)
  <2>1. \A i \in DOMAIN InOrder(Come) : Suits(c[i], have, wanted)  BY <1>2, <1>5
  <2>2. DOMAIN c = DOMAIN InOrder(Come) /\ c = [i \in DOMAIN InOrder(Come) |-> c[i]]  OBVIOUS
  <2> HIDE DEF c, wanted
  <2>. QED  BY <1>4, <2>1, <2>2, KeptWhen
<1>8. Kept(FlattenSeq(b), have, wanted)
  <2>1. \A i \in DOMAIN InOrder(Both) : Kept(b[i], have, wanted)  BY <1>3, <1>5
  <2>2. DOMAIN b = DOMAIN InOrder(Both) /\ b = [i \in DOMAIN InOrder(Both) |-> b[i]]  OBVIOUS
  <2> HIDE DEF b, wanted
  <2>. QED  BY <1>4, <2>1, <2>2, KeptFlatten
<1>9. Kept(DiffViews(current.views, s.views), have, wanted)  BY ViewOpsKept
<1> HIDE DEF g, c, b, wanted
<1>10. Kept(g \o c, have, wanted)  BY <1>6, <1>7, KeptConcat
<1>11. Kept(g \o c \o FlattenSeq(b), have, wanted)  BY <1>8, <1>10, KeptConcat
<1>12. Kept(g \o c \o FlattenSeq(b) \o DiffViews(current.views, s.views), have, wanted)
  BY <1>9, <1>11, KeptConcat
<1>. QED  BY <1>1, <1>12 DEF wanted

(* Nor does one of the plan, whatever the order.                           *)
LEMMA PlanKeeps ==
  ASSUME NEW current, NEW s, Temp \notin DOMAIN current.tables, Temp \notin DOMAIN s.tables
  PROVE  Kept(Plan(Operations(current, s)), current.tables, s.tables)
<1> DEFINE ops == Operations(current, s)
           order == TopologicalSort(ops)
           have == current.tables
           wanted == s.tables
<1>1. Kept(ops, have, wanted)  BY OperationsKept
<1>2. Plan(ops) = [i \in DOMAIN order |-> ops[order[i]]]  BY DEF Plan
<1> HIDE DEF ops
<1>3. ops \in Seq(ToSet(ops)) /\ \A i \in DOMAIN ops : Suits(ops[i], have, wanted)
  BY <1>1, KeptElements
<1>4. order \in Seq(DOMAIN ops)
  <2> DEFINE deps == BuildDependencies(ops)
  <2>1. DOMAIN ops = 1..Len(ops) /\ Len(ops) \in Nat  BY <1>3, LenProperties
  <2>2. DOMAIN deps = DOMAIN ops  BY DEF BuildDependencies
  <2>3. deps = [i \in 1..Len(ops) |-> deps[i]]  BY <2>1 DEF BuildDependencies
  <2> HIDE DEF deps
  <2>4. Len(deps) = Len(ops)  BY <2>1, <2>3
  <2>5. TopologicalOrder(deps) \in Seq(DOMAIN deps)  BY <2>1, <2>2, <2>4, OrderIsSeq
  <2>. QED  BY <2>2, <2>5 DEF TopologicalSort, deps
<1> HIDE DEF order
<1>5. \A i \in DOMAIN order : order[i] \in DOMAIN ops
  BY <1>4, ElementOfSeq, LenProperties
<1> DEFINE p == [i \in DOMAIN order |-> ops[order[i]]]
<1>6. /\ DOMAIN p = DOMAIN order /\ p = [i \in DOMAIN order |-> p[i]]
      /\ \A i \in DOMAIN order : Suits(p[i], have, wanted)
  BY <1>3, <1>5
<1> HIDE DEF p, wanted
<1>7. Kept(p, have, wanted)  BY <1>4, <1>6, KeptWhen
<1>. QED  BY <1>2, <1>7 DEF p, ops, wanted

-----------------------------------------------------------------------------
(* What a statement does to the set of tables.                             *)
LEMMA TablesChange ==
  ASSUME NEW st, NEW d
  PROVE  /\ st.op \in {"create_table", "add_column", "drop_column", "rename_column"} =>
              DOMAIN TablesAfter(st, d) = DOMAIN d.tables \cup {st.table}
         /\ st.op = "drop_table" => DOMAIN TablesAfter(st, d) = DOMAIN d.tables \ {st.table}
         /\ st.op = "rename_table" =>
              DOMAIN TablesAfter(st, d) = (DOMAIN d.tables \ {st.table}) \cup {st.name}
         /\ st.op \in {"copy", "create_view", "drop_view", "clear", "record", "alter_column",
                       "add_foreign_key", "drop_foreign_key"} =>
              TablesAfter(st, d) = d.tables
<1> DEFINE table == IF st.table \in DOMAIN d.tables THEN d.tables[st.table] ELSE <<>>
           tables == d.tables
<1>1. \A f, x, e : DOMAIN With(f, x, e) = DOMAIN f \cup {x}  BY DEF With
<1>2. \A f, x : DOMAIN Without(f, x) = DOMAIN f \ {x}  BY DEF Without
<1> HIDE DEF table, tables
<1>3. st.op = "create_table" =>
        TablesAfter(st, d) = With(tables, st.table, Declared(st.def))
  BY DEF TablesAfter, tables
<1>4. st.op = "add_column" =>
        TablesAfter(st, d) = With(tables, st.table, With(table, st.name, Written(st.def)))
  BY DEF TablesAfter, tables, table
<1>5. st.op = "drop_column" =>
        TablesAfter(st, d) = With(tables, st.table, Without(table, st.name))
  BY DEF TablesAfter, tables, table
<1>6. st.op = "rename_column" =>
        TablesAfter(st, d)
          = With(tables, st.table, With(Without(table, st.name), st.def, table[st.name]))
  BY DEF TablesAfter, tables, table
<1>7. st.op = "drop_table" => TablesAfter(st, d) = Without(tables, st.table)
  BY DEF TablesAfter, tables
<1>8. st.op = "rename_table" =>
        TablesAfter(st, d) = With(Without(tables, st.table), st.name, table)
  BY DEF TablesAfter, tables, table
<1>9. st.op \in {"copy", "create_view", "drop_view", "clear", "record", "alter_column",
                 "add_foreign_key", "drop_foreign_key"} => TablesAfter(st, d) = tables
  BY DEF TablesAfter, tables
<1>10. st.op \in {"create_table", "add_column", "drop_column", "rename_column"} =>
         DOMAIN TablesAfter(st, d) = DOMAIN tables \cup {st.table}
  <2>1. ASSUME st.op \in {"create_table", "add_column", "drop_column", "rename_column"}
        PROVE  \E e : TablesAfter(st, d) = With(tables, st.table, e)
    BY <1>3, <1>4, <1>5, <1>6, <2>1, Zenon
  <2>2. \A e : DOMAIN With(tables, st.table, e) = DOMAIN tables \cup {st.table}
    BY <1>1, Zenon
  <2>. QED  BY <2>1, <2>2
<1>11. st.op = "drop_table" => DOMAIN TablesAfter(st, d) = DOMAIN tables \ {st.table}
  BY <1>2, <1>7, Zenon
<1>12. st.op = "rename_table" =>
         DOMAIN TablesAfter(st, d) = (DOMAIN tables \ {st.table}) \cup {st.name}
  <2> DEFINE w == Without(tables, st.table)
  <2>1. DOMAIN w = DOMAIN tables \ {st.table}  BY <1>2
  <2>2. DOMAIN With(w, st.name, table) = DOMAIN w \cup {st.name}  BY <1>1, Zenon
  <2> HIDE DEF w
  <2>3. st.op = "rename_table" => TablesAfter(st, d) = With(w, st.name, table)
    BY <1>8 DEF w
  <2>. QED  BY <2>1, <2>2, <2>3, Zenon
<1>. QED  BY <1>9, <1>10, <1>11, <1>12, Zenon DEF tables

LEMMA EffectParts ==
  ASSUME NEW st, NEW d
  PROVE  HasParts(Effect(st, d)) /\ Effect(st, d).tables = TablesAfter(st, d)
  BY DEF HasParts, Effect

(* The statements of a rebuild, by their position.                         *)
IsRebuild(st, k, t, made, kept) ==
  /\ k \in Nat /\ st \in Seq(ToSet(st)) /\ Len(st) = 2 * k + 4
  /\ \A i \in 1..k : st[i].op = "drop_view"
  /\ st[k + 1].op = "create_table" /\ st[k + 1].table = Temp /\ st[k + 1].def = made
  /\ st[k + 2].op = "copy" /\ st[k + 2].table = t /\ st[k + 2].def = kept
  /\ st[k + 3].op = "drop_table" /\ st[k + 3].table = t
  /\ st[k + 4].op = "rename_table" /\ st[k + 4].table = Temp /\ st[k + 4].name = t
  /\ \A i \in k + 5..2 * k + 4 : st[i].op = "create_view"

LEMMA RebuildStatements ==
  ASSUME NEW t, NEW s, NEW p
  PROVE  IsRebuild(ReconstructionSql(t, s, p), ViewCount(t, s), t,
                   s.tables[t], DOMAIN s.tables[t] \ ColumnsAdded(t, p))
<1> DEFINE names == InOrder(DependentViews(t, s.views))
           k == Len(names)
           common == DOMAIN s.tables[t] \ ColumnsAdded(t, p)
           a == [i \in DOMAIN names |-> OnView("drop_view", names[i], s.views[names[i]])]
           m == <<Op("create_table", Temp, None, s.tables[t], {}),
                  Op("copy", t, None, common, {}),
                  Op("drop_table", t, None, None, {}),
                  Op("rename_table", Temp, t, None, {})>>
           b == [i \in DOMAIN names |-> OnView("create_view", names[i], s.views[names[i]])]
           st == ReconstructionSql(t, s, p)
<1>1. st = a \o m \o b  BY DEF ReconstructionSql, Each
<1>2. names \in Seq(DependentViews(t, s.views))  BY InOrderIsSeq
<1>3. k \in Nat /\ DOMAIN names = 1..k  BY <1>2, LenProperties
<1>4. /\ \A i \in 1..k : a[i].op = "drop_view"
      /\ \A i \in 1..k : b[i].op = "create_view"
  BY <1>3 DEF OnView, Op
<1>5. /\ m[1].op = "create_table" /\ m[1].table = Temp /\ m[1].def = s.tables[t]
      /\ m[2].op = "copy" /\ m[2].table = t /\ m[2].def = common
      /\ m[3].op = "drop_table" /\ m[3].table = t
      /\ m[4].op = "rename_table" /\ m[4].table = Temp /\ m[4].name = t
  BY DEF Op
<1> DEFINE R == {a[i] : i \in 1..k} \cup {m[1], m[2], m[3], m[4]} \cup {b[i] : i \in 1..k}
<1>6. a \in Seq(R) /\ Len(a) = k  BY <1>3
<1>7. b \in Seq(R) /\ Len(b) = k  BY <1>3
<1>8. m \in Seq(R) /\ Len(m) = 4  OBVIOUS
<1> HIDE DEF names, k, a, b, m, R, st, common
<1> DEFINE c == a \o m
<1>9. /\ c \in Seq(R) /\ Len(c) = k + 4
      /\ \A i \in 1..k + 4 : c[i] = IF i <= k THEN a[i] ELSE m[i - k]
  <2>1. /\ c \in Seq(R) /\ Len(c) = Len(a) + Len(m)
        /\ \A i \in 1..Len(a) + Len(m) : c[i] = IF i <= Len(a) THEN a[i] ELSE m[i - Len(a)]
    BY <1>6, <1>8, ConcatProperties
  <2>. QED  BY <1>6, <1>8, <2>1
<1>10. st = c \o b  BY <1>1
<1> HIDE DEF c
<1>11. /\ st \in Seq(R) /\ Len(st) = 2 * k + 4
       /\ \A i \in 1..2 * k + 4 : st[i] = IF i <= k + 4 THEN c[i] ELSE b[i - (k + 4)]
  <2>1. /\ st \in Seq(R) /\ Len(st) = Len(c) + Len(b)
        /\ \A i \in 1..Len(c) + Len(b) : st[i] = IF i <= Len(c) THEN c[i] ELSE b[i - Len(c)]
    BY <1>7, <1>9, <1>10, ConcatProperties
  <2>2. Len(c) = k + 4 /\ Len(b) = k /\ Len(c) + Len(b) = 2 * k + 4  BY <1>3, <1>7, <1>9
  <2>. QED  BY <2>1, <2>2
<1>12. \A i \in 1..k : st[i] = a[i]  BY <1>3, <1>9, <1>11
<1>13. \A i \in k + 5..2 * k + 4 : st[i] = b[i - (k + 4)] /\ i - (k + 4) \in 1..k
  BY <1>3, <1>11
<1>14. st \in Seq(ToSet(st))  BY <1>11, LenProperties DEF ToSet
<1>15. /\ \A i \in 1..k : st[i].op = "drop_view"
       /\ \A i \in k + 5..2 * k + 4 : st[i].op = "create_view"
  BY <1>4, <1>12, <1>13
<1>16. st[k + 1] = m[1] /\ st[k + 2] = m[2] /\ st[k + 3] = m[3] /\ st[k + 4] = m[4]
  BY <1>3, <1>9, <1>11
<1>. QED  BY <1>3, <1>5, <1>11, <1>14, <1>15, <1>16
  DEF k, names, st, common, ViewCount, IsRebuild

-----------------------------------------------------------------------------
(* A rebuild is atomic.  What a statement refuses plays a part only in the *)
(* drop of a table that is not there.                                      *)
LEMMA AtomicInit == Init => AtomicInv
  <1> SUFFICES ASSUME Init PROVE AtomicInv
    OBVIOUS
  <1>1. phase = "idle" /\ work = <<>>  BY DEF Init
  <1>2. HasParts(db) /\ Temp \notin DOMAIN db.tables /\ Temp \notin DOMAIN target.tables
    BY DEF Init, HasParts, Empty
  <1>. QED
    BY <1>1, <1>2 DEF AtomicInv, PlanIsSafe, RebuildGoesOn, CommitIsWhole, SeedIsHarmless,
      DatabasesFit, InTransaction, Phases

(* With the committed tables as they were, a step is harmless.             *)
LEMMA DbStays ==
  ASSUME AtomicInv, db' = db
  PROVE  RebuildStep
  BY DEF AtomicInv, DatabasesFit, RebuildStep

LEMMA AtomicMigrate ==
  ASSUME AtomicInv, NEW s \in Targets, Migrate(s)
  PROVE  AtomicInv' /\ RebuildStep
  <1>1. /\ phase = "idle" /\ target' = s /\ phase' \in {"idle", "apply"}
        /\ UNCHANGED <<db, work>>
    BY DEF Migrate
  <1>2. DatabasesFit'
    BY <1>1, MigrationAssumption DEF AtomicInv, DatabasesFit, InTransaction, HasParts, Phases
  <1>3. PlanIsSafe'
    <2> SUFFICES ASSUME phase' = "apply", work = <<>>
                 PROVE  /\ todo' \in Seq(ToSet(plan'))
                        /\ \A op \in ToSet(plan') : KeepsWanted(op, target'.tables)
      BY <1>1 DEF PlanIsSafe, InTransaction, RebuildPhases
    <2> DEFINE ops == Operations(Inspected, s)
    <2>1. plan' = Plan(ops) /\ todo' = plan'  BY <1>1 DEF Migrate
    <2>2. Inspected.tables = db.tables  BY DEF Inspected, Current
    <2>3. Temp \notin DOMAIN db.tables /\ Temp \notin DOMAIN s.tables
      BY MigrationAssumption DEF AtomicInv, DatabasesFit
    <2>4. Kept(Plan(ops), db.tables, s.tables)  BY <2>2, <2>3, PlanKeeps
    <2> HIDE DEF ops
    <2>5. /\ plan' \in Seq(ToSet(plan'))
          /\ \A i \in DOMAIN plan' : Suits(plan'[i], db.tables, s.tables)
      BY <2>1, <2>4, KeptElements
    <2>6. \A op \in ToSet(plan') : KeepsWanted(op, s.tables)  BY <2>5 DEF ToSet, Suits
    <2>. QED  BY <1>1, <2>1, <2>5, <2>6
  <1>4. RebuildGoesOn' /\ CommitIsWhole' /\ SeedIsHarmless'
    BY <1>1 DEF RebuildGoesOn, CommitIsWhole, SeedIsHarmless
  <1>. QED  BY <1>1, <1>2, <1>3, <1>4, DbStays DEF AtomicInv

(* A call that leaves the databases alone, out of a rebuild's transaction. *)
LEMMA AtomicQuiet ==
  ASSUME AtomicInv, UNCHANGED <<db, work, target, plan>>,
         phase' \in Phases \ {"rebuild", "commit", "rollback", "seed"},
         phase' # "idle" /\ work = <<>> =>
           /\ phase # "idle" /\ todo' \in Seq(ToSet(plan))
           /\ phase' \in RebuildPhases => todo' # <<>>
  PROVE  AtomicInv' /\ RebuildStep
  <1>1. DatabasesFit'
    BY DEF AtomicInv, DatabasesFit, InTransaction, HasParts
  <1>2. PlanIsSafe'
    BY DEF AtomicInv, PlanIsSafe, InTransaction
  <1>3. RebuildGoesOn' /\ CommitIsWhole' /\ SeedIsHarmless'
    BY DEF RebuildGoesOn, CommitIsWhole, SeedIsHarmless
  <1>. QED  BY <1>1, <1>2, <1>3, DbStays DEF AtomicInv

(* What a migrate leaves when it returns.                                  *)
LEMMA AtomicReturns ==
  ASSUME AtomicInv, phase' = "idle", UNCHANGED <<db, target>>,
         work' = work \/ work' = <<>>
  PROVE  AtomicInv' /\ RebuildStep
  <1>1. DatabasesFit'
    BY DEF AtomicInv, DatabasesFit, InTransaction, HasParts, Phases
  <1>2. PlanIsSafe' /\ RebuildGoesOn' /\ CommitIsWhole' /\ SeedIsHarmless'
    BY DEF PlanIsSafe, RebuildGoesOn, CommitIsWhole, SeedIsHarmless
  <1>. QED  BY <1>1, <1>2, DbStays DEF AtomicInv

LEMMA AtomicApplyInPlace ==
  ASSUME AtomicInv, ApplyInPlace
  PROVE  AtomicInv' /\ RebuildStep
  <1>1. /\ phase = "apply" /\ todo # <<>>
        /\ UNCHANGED <<target, plan>>
    BY DEF ApplyInPlace
  <1>2. CASE Returns("failed") /\ UNCHANGED <<db, work>>
    BY <1>1, <1>2, AtomicReturns DEF Returns
  <1>3. CASE Execute(Head(todo)) /\ todo' = Tail(todo) /\ UNCHANGED phase /\ work # <<>>
    <2>1. db' = db /\ work' = <<Effect(Head(todo), work[1])>>  BY <1>3 DEF Execute
    <2>2. DatabasesFit'
      BY <1>1, <1>3, <2>1, EffectParts DEF AtomicInv, DatabasesFit, InTransaction, HasParts
    <2>3. PlanIsSafe'
      <3>1. work' # <<>> /\ phase' = "apply"  BY <1>1, <1>3, <2>1
      <3>. QED  BY <3>1 DEF PlanIsSafe, InTransaction
    <2>4. RebuildGoesOn' /\ CommitIsWhole' /\ SeedIsHarmless'
      BY <1>1, <1>3 DEF RebuildGoesOn, CommitIsWhole, SeedIsHarmless
    <2>. QED  BY <2>1, <2>2, <2>3, <2>4, DbStays DEF AtomicInv
  <1>4. CASE Execute(Head(todo)) /\ todo' = Tail(todo) /\ UNCHANGED phase /\ work = <<>>
    <2> DEFINE op == Head(todo)
    <2>1. db' = Effect(op, db) /\ work' = <<>>  BY <1>4 DEF Execute
    <2>2. /\ todo \in Seq(ToSet(plan))
          /\ \A o \in ToSet(plan) : KeepsWanted(o, target.tables)
      BY <1>1, <1>4 DEF AtomicInv, PlanIsSafe
    <2>3. op \in ToSet(plan) /\ Tail(todo) \in Seq(ToSet(plan))
      BY <1>1, <2>2, HeadTailProperties
    <2>4. KeepsWanted(op, target.tables)  BY <2>2, <2>3
    <2> HIDE DEF op
    <2>5. HasParts(db') /\ db'.tables = TablesAfter(op, db)  BY <2>1, EffectParts
    <2>6. /\ op.op \in {"create_table", "add_column", "drop_column", "rename_column"} =>
               DOMAIN TablesAfter(op, db) = DOMAIN db.tables \cup {op.table}
          /\ op.op = "drop_table" => DOMAIN TablesAfter(op, db) = DOMAIN db.tables \ {op.table}
          /\ op.op \in {"copy", "create_view", "drop_view", "clear", "record", "alter_column",
                        "add_foreign_key", "drop_foreign_key"} => TablesAfter(op, db) = db.tables
      BY TablesChange
    <2>7. Temp \notin DOMAIN db.tables  BY DEF AtomicInv, DatabasesFit
    <2>8. RebuildStep
      <3>1. /\ op.op \in PlannedOps /\ op.table # Temp
            /\ op.op = "drop_table" => op.table \notin DOMAIN target.tables
        BY <2>4 DEF KeepsWanted
      <3>2. /\ Temp \notin DOMAIN TablesAfter(op, db)
            /\ DOMAIN db.tables \cap DOMAIN target.tables \subseteq DOMAIN TablesAfter(op, db)
        BY <2>6, <2>7, <3>1 DEF PlannedOps
      <3>. QED  BY <2>5, <3>2 DEF RebuildStep
    <2>9. DatabasesFit'
      <3>1. Temp \notin DOMAIN db'.tables  BY <2>8 DEF RebuildStep
      <3>. QED
        BY <1>1, <1>4, <2>1, <2>5, <3>1 DEF AtomicInv, DatabasesFit, InTransaction, HasParts
    <2>10. PlanIsSafe'
      BY <1>1, <1>4, <2>2, <2>3 DEF PlanIsSafe, InTransaction, RebuildPhases
    <2>11. RebuildGoesOn' /\ CommitIsWhole' /\ SeedIsHarmless'
      BY <1>1, <1>4 DEF RebuildGoesOn, CommitIsWhole, SeedIsHarmless
    <2>. QED  BY <2>8, <2>9, <2>10, <2>11 DEF AtomicInv
  <1>. QED  BY <1>2, <1>3, <1>4 DEF ApplyInPlace

(* The calls around the transaction of a rebuild.                          *)
LEMMA AtomicBracket ==
  ASSUME AtomicInv, PausePush \/ DisableForeignKeys \/ EnableForeignKeys \/ ResumePush
  PROVE  AtomicInv' /\ RebuildStep
  <1>1. UNCHANGED <<db, work, target, plan>>
    BY DEF PausePush, DisableForeignKeys, EnableForeignKeys, ResumePush, Raises
  <1>2. CASE phase' = "idle"  BY <1>1, <1>2, AtomicReturns
  <1>3. phase' # "idle" /\ work = <<>> /\ phase # "idle" =>
          /\ todo \in Seq(ToSet(plan))
          /\ phase \in RebuildPhases => todo # <<>>
    BY DEF AtomicInv, PlanIsSafe
  <1>4. CASE PausePush /\ phase' # "idle"
    BY <1>1, <1>3, <1>4, AtomicQuiet DEF PausePush, Raises, Returns, Phases, RebuildPhases
  <1>5. CASE DisableForeignKeys /\ phase' # "idle"
    BY <1>1, <1>3, <1>5, AtomicQuiet
      DEF DisableForeignKeys, Raises, Returns, Phases, RebuildPhases
  <1>6. CASE EnableForeignKeys /\ phase' # "idle"
    BY <1>1, <1>3, <1>6, AtomicQuiet
      DEF EnableForeignKeys, Raises, Returns, Phases, RebuildPhases
  <1>7. CASE ResumePush /\ phase' # "idle"
    <2>1. phase' = "apply" /\ phase = "resume_push" /\ todo' = OnOthers(todo, Head(todo).table)
      BY <1>7 DEF ResumePush, Raises, Returns
    <2>2. work = <<>> => todo' \in Seq(ToSet(plan))
      <3> DEFINE t == Head(todo).table
                 S == ToSet(plan)
                 Q == {op \in S : op.table # t}
      <3>1. work = <<>> => todo' \in Seq(Q)  BY <1>3, <2>1, OthersAreKept
      <3>2. Q \subseteq S  OBVIOUS
      <3> HIDE DEF Q, S
      <3>. QED  BY <3>1, <3>2 DEF S
    <2>. QED  BY <1>1, <2>1, <2>2, AtomicQuiet DEF Phases, RebuildPhases
  <1>. QED  BY <1>2, <1>4, <1>5, <1>6, <1>7

LEMMA AtomicBegin ==
  ASSUME AtomicInv, Begin
  PROVE  AtomicInv' /\ RebuildStep
  <1>1. UNCHANGED <<db, target, plan>> /\ phase = "begin"
    BY DEF Begin, Raises
  <1>2. CASE phase' = "idle" /\ UNCHANGED work  BY <1>1, <1>2, AtomicReturns
  <1>3. CASE /\ work = <<>> /\ work' = <<db>> /\ phase' = "rebuild" /\ todo' = todo
             /\ stmts' = ReconstructionSql(Head(todo).table, target, plan)
    <2> DEFINE t == Head(todo).table
               k == ViewCount(t, target)
               statements == ReconstructionSql(t, target, plan)
    <2>1. /\ k \in Nat /\ statements \in Seq(ToSet(statements)) /\ Len(statements) = 2 * k + 4
      BY RebuildStatements DEF IsRebuild
    <2>2. statements = SubSeq(statements, 0 + 1, Len(statements))
      <3> HIDE DEF statements
      <3>. QED  BY <2>1, SubSeqProperties, LenProperties
    <2>3. RebuildGoesOn'
      <3>1. stmts' = SubSeq(statements, 0 + 1, Len(statements))  BY <1>3, <2>2
      <3>2. DOMAIN work'[1].tables = TablesAt(0, t)  BY <1>3, <2>1 DEF TablesAt
      <3>3. 0 \in 0..Len(statements) /\ 0 # k + 3  BY <2>1
      <3>. QED  BY <1>1, <1>3, <3>1, <3>2, <3>3 DEF RebuildGoesOn, TablesAt
    <2>4. DatabasesFit'
      BY <1>1, <1>3 DEF AtomicInv, DatabasesFit, InTransaction, HasParts, Phases
    <2>5. PlanIsSafe'
      BY <1>1, <1>3 DEF AtomicInv, PlanIsSafe, InTransaction, RebuildPhases
    <2>6. CommitIsWhole' /\ SeedIsHarmless'
      BY <1>3 DEF CommitIsWhole, SeedIsHarmless
    <2>. QED  BY <1>1, <2>3, <2>4, <2>5, <2>6, DbStays DEF AtomicInv
  <1>. QED  BY <1>2, <1>3 DEF Begin, Raises, Returns

(* What is left of a sequence after one element more.                      *)
LEMMA SubSeqTail ==
  ASSUME NEW S, NEW s \in Seq(S), NEW n \in 0..Len(s), SubSeq(s, n + 1, Len(s)) # <<>>
  PROVE  /\ n < Len(s)
         /\ Head(SubSeq(s, n + 1, Len(s))) = s[n + 1]
         /\ Tail(SubSeq(s, n + 1, Len(s))) = SubSeq(s, n + 2, Len(s))
<1> DEFINE N == Len(s)
           a == SubSeq(s, n + 1, N)
           m == SubSeq(s, n + 2, N)
<1>1. N \in Nat /\ n \in Nat /\ n <= N /\ \A i \in 1..N : s[i] \in S
  BY LenProperties, ElementOfSeq
<1>2. n < N
  <2>1. n # N  BY <1>1, SubSeqEmpty
  <2>. QED  BY <1>1, <2>1
<1> HIDE DEF N
<1>3. /\ a \in Seq(S) /\ Len(a) = IF n + 1 <= N THEN N - (n + 1) + 1 ELSE 0
      /\ \A i \in 1..N - (n + 1) + 1 : a[i] = s[(n + 1) + i - 1]
  <2>1. n + 1 \in Int /\ N \in Int /\ \A i \in n + 1..N : s[i] \in S  BY <1>1
  <2>. QED  BY <2>1, SubSeqProperties
<1>4. /\ m \in Seq(S) /\ Len(m) = IF n + 2 <= N THEN N - (n + 2) + 1 ELSE 0
      /\ \A i \in 1..N - (n + 2) + 1 : m[i] = s[(n + 2) + i - 1]
  <2>1. n + 2 \in Int /\ N \in Int /\ \A i \in n + 2..N : s[i] \in S  BY <1>1
  <2>. QED  BY <2>1, SubSeqProperties
<1>5. a # <<>>  BY DEF N
<1> HIDE DEF a, m
<1>6. Len(a) = N - n /\ \A i \in 1..N - n : a[i] = s[n + i]  BY <1>1, <1>2, <1>3
<1>7. Len(m) = N - n - 1 /\ \A i \in 1..N - n - 1 : m[i] = s[n + 1 + i]
  <2>1. n + 2 <= N \/ n + 1 = N  BY <1>1, <1>2
  <2>2. Len(m) = N - n - 1  BY <1>1, <1>4, <2>1
  <2>3. ASSUME NEW i \in 1..N - n - 1 PROVE m[i] = s[n + 1 + i]
    <3>1. i \in 1..N - (n + 2) + 1 /\ (n + 2) + i - 1 = n + 1 + i  BY <1>1
    <3>2. m[i] = s[(n + 2) + i - 1]  BY <1>4, <3>1
    <3>. QED  BY <3>1, <3>2
  <2>. QED  BY <2>2, <2>3
<1>8. /\ Tail(a) \in Seq(S) /\ Len(Tail(a)) = Len(a) - 1
      /\ \A i \in 1..Len(Tail(a)) : Tail(a)[i] = a[i + 1]
  BY <1>3, <1>5, HeadTailProperties
<1>9. ASSUME NEW i \in 1..Len(Tail(a)) PROVE Tail(a)[i] = m[i]
  <2>1. i \in 1..N - n - 1 /\ i + 1 \in 1..N - n  BY <1>1, <1>2, <1>6, <1>8
  <2>2. n + (i + 1) = n + 1 + i  BY <1>1
  <2>. QED  BY <1>6, <1>7, <1>8, <2>1, <2>2
<1>10. Len(Tail(a)) = Len(m)  BY <1>1, <1>6, <1>7, <1>8
<1>11. Tail(a) = m  BY <1>4, <1>8, <1>9, <1>10, SeqEqual
<1>12. Head(a) = s[n + 1]
  <2>1. Head(a) = a[1]  BY <1>3, <1>5
  <2>. QED  BY <1>1, <1>2, <1>6, <2>1
<1>. QED  BY <1>2, <1>11, <1>12 DEF N, a, m

(* A statement of the rebuild, in the transaction.                         *)
LEMMA AtomicStatement ==
  ASSUME AtomicInv, phase = "rebuild", stmts # <<>>, Execute(Head(stmts)),
         stmts' = Tail(stmts), UNCHANGED <<phase, target, plan, todo>>
  PROVE  AtomicInv' /\ RebuildStep
  <1> DEFINE t == Head(todo).table
             k == ViewCount(t, target)
             statements == ReconstructionSql(t, target, plan)
             N == Len(statements)
             st == Head(stmts)
             made == target.tables[t]
             kept == DOMAIN made \ ColumnsAdded(t, plan)
  <1>0. IsRebuild(statements, k, t, made, kept)  BY RebuildStatements
  <1>1. IsRebuild(statements, k, t, made, kept) /\ k \in Nat /\ N = 2 * k + 4
        /\ statements \in Seq(ToSet(statements))
    BY ONLY <1>0 DEF IsRebuild
  <1>2. PICK n \in 0..N :
          /\ stmts = SubSeq(statements, n + 1, N)
          /\ DOMAIN work[1].tables = TablesAt(n, t)
          /\ n = k + 3 => t \in DOMAIN db.tables
    BY DEF AtomicInv, RebuildGoesOn
  <1>3. work # <<>> /\ Temp \notin DOMAIN db.tables
    BY DEF AtomicInv, DatabasesFit, InTransaction
  <1>4. db' = db /\ work' = <<Effect(st, work[1])>> /\ ~ Refused(st, work[1])
    BY <1>3 DEF Execute, Current
  <1>5. t # Temp
    <2>1. /\ todo \in Seq(ToSet(plan)) /\ todo # <<>>
          /\ \A op \in ToSet(plan) : KeepsWanted(op, target.tables)
      BY DEF AtomicInv, PlanIsSafe, InTransaction, RebuildPhases
    <2>2. Head(todo) \in ToSet(plan)  BY <2>1, HeadTailProperties
    <2>. QED  BY <2>1, <2>2 DEF KeepsWanted
  <1> HIDE DEF statements, t, made, kept
  <1>6. n < N /\ st = statements[n + 1] /\ stmts' = SubSeq(statements, n + 2, N)
    BY <1>1, <1>2, SubSeqTail
  <1> DEFINE before == DOMAIN db.tables
             now == DOMAIN work[1].tables
             next == DOMAIN TablesAfter(st, work[1])
  <1>7. /\ TablesAt(n, t) = IF n <= k THEN before
                         ELSE IF n <= k + 2 THEN before \cup {Temp}
                         ELSE IF n = k + 3 THEN (before \ {t}) \cup {Temp} ELSE before
        /\ TablesAt(n + 1, t) = IF n + 1 <= k THEN before
                         ELSE IF n + 1 <= k + 2 THEN before \cup {Temp}
                         ELSE IF n + 1 = k + 3 THEN (before \ {t}) \cup {Temp} ELSE before
    BY DEF TablesAt
  <1>8. /\ st.op = "create_table" => next = now \cup {st.table}
        /\ st.op = "drop_table" => next = now \ {st.table}
        /\ st.op = "rename_table" => next = (now \ {st.table}) \cup {st.name}
        /\ st.op \in {"copy", "create_view", "drop_view"} => next = now
    BY TablesChange
  <1>9. st.op = "drop_table" => st.table \in now
    BY <1>4 DEF Refused
  <1> HIDE DEF next, now, before, k, N, st
  <1>10. next = TablesAt(n + 1, t) /\ (n + 1 = k + 3 => t \in before)
    <2>0. n \in Nat /\ n + 1 \in 1..2 * k + 4 /\ now = TablesAt(n, t)
      BY <1>1, <1>2, <1>6 DEF now, N
    <2>1. CASE n + 1 <= k
      <3>0. n + 1 \in 1..k  BY <1>1, <2>0, <2>1
      <3>1. st.op = "drop_view"  BY <1>1, <1>6, <3>0 DEF IsRebuild
      <3>. QED  BY <1>1, <1>7, <1>8, <2>0, <2>1, <3>1
    <2>2. CASE n + 1 = k + 1
      <3>1. st.op = "create_table" /\ st.table = Temp  BY <1>1, <1>6, <2>2 DEF IsRebuild
      <3>2. now = before /\ TablesAt(n + 1, t) = before \cup {Temp}
        BY <1>1, <1>7, <2>0, <2>2
      <3>3. n + 1 # k + 3  BY <1>1, <2>2
      <3>. QED  BY <1>8, <3>1, <3>2, <3>3
    <2>3. CASE n + 1 = k + 2
      <3>1. st.op = "copy"  BY <1>1, <1>6, <2>3 DEF IsRebuild
      <3>2. now = before \cup {Temp} /\ TablesAt(n + 1, t) = before \cup {Temp}
        BY <1>1, <1>7, <2>0, <2>3
      <3>3. n + 1 # k + 3  BY <1>1, <2>3
      <3>. QED  BY <1>8, <3>1, <3>2, <3>3
    <2>4. CASE n + 1 = k + 3
      <3>1. st.op = "drop_table" /\ st.table = t  BY <1>1, <1>6, <2>4 DEF IsRebuild
      <3>2. now = before \cup {Temp}  BY <1>1, <1>7, <2>0, <2>4
      <3>3. t \in before  BY <1>5, <1>9, <3>1, <3>2
      <3>4. next = (before \ {t}) \cup {Temp}  BY <1>5, <1>8, <3>1, <3>2
      <3>. QED  BY <1>1, <1>7, <2>4, <3>3, <3>4
    <2>5. CASE n + 1 = k + 4
      <3>1. st.op = "rename_table" /\ st.table = Temp /\ st.name = t  BY <1>1, <1>6, <2>5 DEF IsRebuild
      <3>2. now = (before \ {t}) \cup {Temp} /\ t \in before
        BY <1>1, <1>2, <1>7, <2>0, <2>5 DEF before
      <3>3. next = before  BY <1>3, <1>8, <3>1, <3>2 DEF before
      <3>. QED  BY <1>1, <1>7, <2>5, <3>3
    <2>6. CASE n + 1 \in k + 5..2 * k + 4
      <3>1. st.op = "create_view"  BY <1>1, <1>6, <2>6 DEF IsRebuild
      <3>. QED  BY <1>1, <1>7, <1>8, <2>0, <2>6, <3>1
    <2>. QED  BY <1>1, <2>0, <2>1, <2>2, <2>3, <2>4, <2>5, <2>6
  <1>11. /\ HasParts(Effect(st, work[1]))
         /\ Effect(st, work[1]).tables = TablesAfter(st, work[1])
    BY EffectParts
  <1>12. RebuildGoesOn'
    <2> DEFINE w == n + 1
    <2>1. w \in 0..N /\ w + 1 = n + 2  BY <1>1, <1>6 DEF N
    <2>2. stmts' = SubSeq(statements, w + 1, N)  BY <1>6, <2>1
    <2>3. TablesAt(w, t)' = TablesAt(w, t) /\ DOMAIN work'[1].tables = TablesAt(w, t)
      BY <1>4, <1>10, <1>11 DEF TablesAt, next, st, t
    <2>4. w = k + 3 => t \in DOMAIN db'.tables  BY <1>4, <1>10 DEF before
    <2>5. t' = t /\ statements' = statements  BY DEF t, statements
    <2> HIDE DEF w
    <2>. QED
      BY <2>1, <2>2, <2>3, <2>4, <2>5 DEF RebuildGoesOn, N, k, t, statements
  <1>13. DatabasesFit'
    BY <1>4, <1>11 DEF AtomicInv, DatabasesFit, InTransaction, HasParts
  <1>14. PlanIsSafe'
    BY DEF AtomicInv, PlanIsSafe, InTransaction
  <1>15. CommitIsWhole' /\ SeedIsHarmless'
    BY DEF CommitIsWhole, SeedIsHarmless
  <1>. QED  BY <1>4, <1>12, <1>13, <1>14, <1>15, DbStays DEF AtomicInv

LEMMA AtomicRebuild ==
  ASSUME AtomicInv, Rebuild
  PROVE  AtomicInv' /\ RebuildStep
  <1>1. phase = "rebuild" /\ UNCHANGED <<target, plan, todo>>
    BY DEF Rebuild
  <1>2. CASE stmts # <<>> /\ Execute(Head(stmts)) /\ stmts' = Tail(stmts) /\ UNCHANGED phase
    BY <1>1, <1>2, AtomicStatement
  <1>3. CASE UNCHANGED <<db, work>> /\ phase' \in {"commit", "rollback"}
    <2>1. DatabasesFit'
      BY <1>1, <1>3 DEF AtomicInv, DatabasesFit, InTransaction, HasParts, Phases
    <2>2. PlanIsSafe'
      BY <1>1, <1>3 DEF AtomicInv, PlanIsSafe, InTransaction, RebuildPhases
    <2>3. RebuildGoesOn' /\ SeedIsHarmless'
      BY <1>3 DEF RebuildGoesOn, SeedIsHarmless
    <2>4. CASE phase' = "rollback"
      BY <1>3, <2>1, <2>2, <2>3, <2>4, DbStays DEF AtomicInv, CommitIsWhole
    <2>5. CASE phase' = "commit"
      <3> DEFINE t == Head(todo).table
                 k == ViewCount(t, target)
                 statements == ReconstructionSql(t, target, plan)
                 N == Len(statements)
      <3>1. stmts = <<>>  BY <1>1, <2>5 DEF Rebuild
      <3>2. IsRebuild(statements, k, t, target.tables[t],
                      DOMAIN target.tables[t] \ ColumnsAdded(t, plan))
        BY RebuildStatements
      <3>3. k \in Nat /\ N = 2 * k + 4 /\ statements \in Seq(ToSet(statements))
        BY ONLY <3>2 DEF IsRebuild
      <3>4. PICK n \in 0..N :
              stmts = SubSeq(statements, n + 1, N) /\ DOMAIN work[1].tables = TablesAt(n, t)
        BY <1>1 DEF AtomicInv, RebuildGoesOn
      <3> HIDE DEF statements, t
      <3>5. n = N
        <4>1. SUFFICES ASSUME n < N PROVE FALSE  BY <3>3
        <4>2. \A i \in n + 1..N : statements[i] \in ToSet(statements)
          BY <3>3, ElementOfSeq
        <4>3. Len(SubSeq(statements, n + 1, N)) = N - (n + 1) + 1
          BY <3>3, <4>1, <4>2, SubSeqProperties
        <4>4. N - (n + 1) + 1 # 0  BY <3>3, <4>1
        <4>5. Len(stmts) = 0  BY <3>1
        <4>6. Len(stmts) = N - (n + 1) + 1  BY <3>4, <4>3
        <4>. QED  BY <4>4, <4>5, <4>6
      <3>6. TablesAt(n, t) = DOMAIN db.tables
        <4>1. n > k + 3  BY <3>3, <3>5
        <4>2. ~ n <= k /\ ~ n <= k + 2 /\ n # k + 3  BY <3>3, <4>1
        <4>. QED  BY <4>2 DEF TablesAt
      <3>7. CommitIsWhole'  BY <1>3, <3>4, <3>6 DEF CommitIsWhole
      <3>. QED  BY <1>3, <2>1, <2>2, <2>3, <3>7, DbStays DEF AtomicInv
    <2>. QED  BY <1>3, <2>4, <2>5
  <1>. QED  BY <1>2, <1>3 DEF Rebuild

LEMMA AtomicEnd ==
  ASSUME AtomicInv, Commit \/ Rollback
  PROVE  AtomicInv' /\ RebuildStep
  <1>1. UNCHANGED <<target, plan>> /\ phase \in {"commit", "rollback"}
    BY DEF Commit, Rollback, Raises
  <1>2. CASE phase' = "idle"
    BY <1>1, <1>2, AtomicReturns DEF Commit, Rollback
  <1>3. CASE /\ phase' = "enable_foreign_keys" /\ work' = <<>> /\ todo' = todo
             /\ db' = db \/ (phase = "commit" /\ db' = work[1])
    <2>1. HasParts(db') /\ DOMAIN db'.tables = DOMAIN db.tables
      BY <1>1, <1>3 DEF AtomicInv, DatabasesFit, CommitIsWhole, InTransaction, HasParts
    <2>2. DatabasesFit' /\ RebuildStep
      BY <1>1, <1>3, <2>1
        DEF AtomicInv, DatabasesFit, InTransaction, HasParts, Phases, RebuildStep
    <2>3. PlanIsSafe'
      BY <1>1, <1>3 DEF AtomicInv, PlanIsSafe, InTransaction, RebuildPhases
    <2>4. RebuildGoesOn' /\ CommitIsWhole' /\ SeedIsHarmless'
      BY <1>3 DEF RebuildGoesOn, CommitIsWhole, SeedIsHarmless
    <2>. QED  BY <2>2, <2>3, <2>4 DEF AtomicInv
  <1>. QED  BY <1>1, <1>2, <1>3 DEF Commit, Rollback, Raises, Returns

(* Refilling the registry touches no table.                                *)
LEMMA AtomicSeed ==
  ASSUME AtomicInv, SeedRegistry \/ Seed
  PROVE  AtomicInv' /\ RebuildStep
  <1>1. UNCHANGED <<target, plan>>
    BY DEF SeedRegistry, Seed, Raises
  <1>2. CASE SeedRegistry
    <2> DEFINE names == InOrder(DOMAIN target.views)
               records == [i \in DOMAIN names |->
                             Op("record", None, names[i], target.views[names[i]], {})]
               clear == Op("clear", None, None, None, {})
               S == {clear} \cup {records[i] : i \in DOMAIN names}
    <2>1. /\ phase = "apply" /\ phase' = "seed" /\ UNCHANGED <<db, work, todo>>
          /\ stmts' = <<clear>> \o records
      BY <1>2 DEF SeedRegistry, RegistryQueries, Each
    <2>2. \A x \in S : x.op \in {"clear", "record"}  BY DEF Op
    <2>3. names \in Seq(DOMAIN target.views)  BY InOrderIsSeq
    <2> HIDE DEF names, clear
    <2>4. records \in Seq(S) /\ <<clear>> \in Seq(S)  BY <2>3, LenProperties
    <2> HIDE DEF records, S
    <2>5. stmts' \in Seq(S)  BY <2>1, <2>4, ConcatProperties
    <2>6. \A i \in DOMAIN stmts' : stmts'[i] \in S  BY <2>5, LenProperties, ElementOfSeq
    <2>7. SeedIsHarmless'
      <3>1. stmts' \in Seq(ToSet(stmts'))  BY <2>5, LenProperties DEF ToSet
      <3>2. \A st \in ToSet(stmts') : st \in S  BY <2>6 DEF ToSet
      <3>. QED  BY <2>2, <3>1, <3>2 DEF SeedIsHarmless
    <2>8. DatabasesFit'
      BY <1>1, <2>1 DEF AtomicInv, DatabasesFit, InTransaction, HasParts, Phases
    <2>9. PlanIsSafe'
      BY <1>1, <2>1 DEF AtomicInv, PlanIsSafe, InTransaction, RebuildPhases
    <2>10. RebuildGoesOn' /\ CommitIsWhole'
      BY <2>1 DEF RebuildGoesOn, CommitIsWhole
    <2>. QED  BY <2>1, <2>7, <2>8, <2>9, <2>10, DbStays DEF AtomicInv
  <1>3. CASE Seed /\ phase' = "idle" /\ UNCHANGED <<db, work>>
    BY <1>1, <1>3, AtomicReturns
  <1>4. CASE /\ phase = "seed" /\ stmts # <<>> /\ Execute(Head(stmts)) /\ stmts' = Tail(stmts)
             /\ UNCHANGED <<phase, todo>>
    <2> DEFINE st == Head(stmts)
               rest == Tail(stmts)
    <2>1. stmts \in Seq(ToSet(stmts)) /\ \A x \in ToSet(stmts) : x.op \in {"clear", "record"}
      BY <1>4 DEF AtomicInv, SeedIsHarmless
    <2>2. st \in ToSet(stmts) /\ rest \in Seq(ToSet(stmts))
      BY <1>4, <2>1, HeadTailProperties
    <2>3. \A d : HasParts(Effect(st, d)) /\ Effect(st, d).tables = d.tables
      <3> TAKE d
      <3>1. st.op \in {"clear", "record"}  BY <2>1, <2>2
      <3> HIDE DEF st
      <3>2. TablesAfter(st, d) = d.tables  BY <3>1 DEF TablesAfter
      <3>. QED  BY <3>2, EffectParts
    <2>4. SeedIsHarmless'
      <3> DEFINE S == ToSet(stmts)
      <3> HIDE DEF S
      <3>1. stmts' \in Seq(S) /\ \A x \in S : x.op \in {"clear", "record"}
        BY <1>4, <2>1, <2>2 DEF S
      <3>2. \A i \in DOMAIN stmts' : stmts'[i] \in S  BY <3>1, LenProperties, ElementOfSeq
      <3>3. stmts' \in Seq(ToSet(stmts'))  BY <3>1, LenProperties DEF ToSet
      <3>4. \A x \in ToSet(stmts') : x \in S  BY <3>2 DEF ToSet
      <3>. QED  BY <3>1, <3>3, <3>4 DEF SeedIsHarmless
    <2> HIDE DEF st
    <2>5. HasParts(db') /\ DOMAIN db'.tables = DOMAIN db.tables
      BY <1>4, <2>3 DEF Execute, st, AtomicInv, DatabasesFit
    <2>6. (work' = <<>> <=> work = <<>>) /\ (work' # <<>> => work' = <<work'[1]>> /\ HasParts(work'[1]))
      BY <1>4, <2>3 DEF Execute, st
    <2>7. DatabasesFit' /\ RebuildStep
      BY <1>1, <1>4, <2>5, <2>6 DEF AtomicInv, DatabasesFit, InTransaction, Phases, RebuildStep
    <2>8. PlanIsSafe'
      BY <1>1, <1>4, <2>6 DEF AtomicInv, PlanIsSafe, InTransaction, RebuildPhases
    <2>9. RebuildGoesOn' /\ CommitIsWhole'
      BY <1>4 DEF RebuildGoesOn, CommitIsWhole
    <2>. QED  BY <2>4, <2>7, <2>8, <2>9 DEF AtomicInv
  <1>. QED  BY <1>2, <1>3, <1>4 DEF Seed, Raises, Returns

LEMMA AtomicOutside ==
  ASSUME AtomicInv, WriteRows \/ Reconnect
  PROVE  AtomicInv' /\ RebuildStep
  <1>1. CASE WriteRows
    <2>1. /\ phase = "idle" /\ phase' = "idle" /\ work = <<>> /\ UNCHANGED <<work, target>>
          /\ HasParts(db') /\ db'.tables = db.tables
      BY <1>1 DEF WriteRows, AtomicInv, DatabasesFit, HasParts
    <2>2. DatabasesFit' /\ RebuildStep
      BY <2>1 DEF AtomicInv, DatabasesFit, InTransaction, RebuildStep
    <2>3. PlanIsSafe' /\ RebuildGoesOn' /\ CommitIsWhole' /\ SeedIsHarmless'
      BY <2>1 DEF PlanIsSafe, RebuildGoesOn, CommitIsWhole, SeedIsHarmless
    <2>. QED  BY <2>2, <2>3 DEF AtomicInv
  <1>2. CASE Reconnect
    BY <1>2, AtomicReturns DEF Reconnect, Returns
  <1>. QED  BY <1>1, <1>2

LEMMA AtomicNext == AtomicInv /\ [Next]_vars => AtomicInv' /\ [RebuildStep]_vars
  <1>. SUFFICES ASSUME AtomicInv, [Next]_vars PROVE AtomicInv' /\ [RebuildStep]_vars
    OBVIOUS
  <1>1. CASE \E s \in Targets : Migrate(s)
    BY <1>1, AtomicMigrate
  <1>2. CASE ApplyInPlace
    BY <1>2, AtomicApplyInPlace
  <1>3. CASE PausePush \/ DisableForeignKeys \/ EnableForeignKeys \/ ResumePush
    BY <1>3, AtomicBracket
  <1>4. CASE Begin
    BY <1>4, AtomicBegin
  <1>5. CASE Rebuild
    BY <1>5, AtomicRebuild
  <1>6. CASE Commit \/ Rollback
    BY <1>6, AtomicEnd
  <1>7. CASE SeedRegistry \/ Seed
    BY <1>7, AtomicSeed
  <1>8. CASE WriteRows \/ Reconnect
    BY <1>8, AtomicOutside
  <1>9. CASE UNCHANGED vars
    <2>1. AtomicInv'
      BY <1>9 DEF vars, AtomicInv, PlanIsSafe, RebuildGoesOn, CommitIsWhole, SeedIsHarmless,
        DatabasesFit, InTransaction, TablesAt
    <2>. QED  BY <1>9, <2>1
  <1>. QED  BY <1>1, <1>2, <1>3, <1>4, <1>5, <1>6, <1>7, <1>8, <1>9 DEF Next

(* "a table is never left half-migrated" (_reconstruct, apply.py), whether *)
(* statements are refused, calls raise or the process ends in between: no  *)
(* committed state lacks a table that was there and is wanted, or holds    *)
(* the temporary one.  A plan never names the temporary table nor drops a  *)
(* wanted one, and the transaction commits only when the rename is done.   *)
THEOREM RebuildsAreAtomic == Spec => RebuildIsAtomic
  <1>1. Init => AtomicInv  BY AtomicInit
  <1>2. AtomicInv /\ [Next]_vars => AtomicInv' /\ [RebuildStep]_vars  BY AtomicNext
  <1>. QED  BY <1>1, <1>2, PTL DEF Spec, RebuildIsAtomic
-----------------------------------------------------------------------------
(* Rows: what a planned operation does to tables and their data.           *)
(* Table x of T and F becomes cols and rows, the others stay.              *)
OneChanges(T, F, T2, F2, x, cols, rows) ==
  /\ DOMAIN T2 = DOMAIN T \cup {x} /\ DOMAIN F2 = DOMAIN F \cup {x}
  /\ T2[x] = cols /\ F2[x] = rows
  /\ \A y \in DOMAIN T : y # x => T2[y] = T[y]
  /\ \A y \in DOMAIN F : y # x => F2[y] = F[y]
OneGoes(T, F, T2, F2, x) ==
  /\ DOMAIN T2 = DOMAIN T \ {x} /\ DOMAIN F2 = DOMAIN F \ {x}
  /\ \A y \in DOMAIN T : y # x => T2[y] = T[y]
  /\ \A y \in DOMAIN F : y # x => F2[y] = F[y]

Renaming(cols, c, n) == With(Without(cols, c), n, cols[c])
Moved(rows, c, n) == (rows \ {c}) \cup (IF c \in rows THEN {n} ELSE {})

(* The cases of a planned operation that the database does not refuse.     *)
PlannedEffect(op, T, F, T2, F2) ==
  /\ op.op = "create_table" =>
       op.table \notin DOMAIN T /\ OneChanges(T, F, T2, F2, op.table, Declared(op.def), {})
  /\ op.op = "drop_table" => OneGoes(T, F, T2, F2, op.table)
  /\ op.op = "add_column" =>
       /\ op.table \in DOMAIN T /\ op.name \notin DOMAIN T[op.table]
       /\ OneChanges(T, F, T2, F2, op.table, With(T[op.table], op.name, Written(op.def)),
                     F[op.table])
  /\ op.op = "drop_column" =>
       /\ op.table \in DOMAIN T
       /\ OneChanges(T, F, T2, F2, op.table, Without(T[op.table], op.name),
                     F[op.table] \ {op.name})
  /\ op.op = "rename_column" =>
       /\ op.table \in DOMAIN T /\ op.def \notin DOMAIN T[op.table]
       /\ OneChanges(T, F, T2, F2, op.table, Renaming(T[op.table], op.name, op.def),
                     Moved(F[op.table], op.name, op.def))
  /\ op.op \in {"alter_column", "add_foreign_key", "drop_foreign_key",
                "create_view", "drop_view"} => T2 = T /\ F2 = F

LEMMA ChangesByWith ==
  ASSUME NEW T, NEW F, NEW x, NEW cols, NEW rows
  PROVE  OneChanges(T, F, With(T, x, cols), With(F, x, rows), x, cols, rows)
<1> DEFINE T2 == With(T, x, cols)
           F2 == With(F, x, rows)
<1>1. /\ DOMAIN T2 = DOMAIN T \cup {x} /\ T2[x] = cols
      /\ \A y \in DOMAIN T : y # x => T2[y] = T[y]
  BY DEF With
<1>2. /\ DOMAIN F2 = DOMAIN F \cup {x} /\ F2[x] = rows
      /\ \A y \in DOMAIN F : y # x => F2[y] = F[y]
  BY DEF With
<1> HIDE DEF T2, F2
<1>3. OneChanges(T, F, T2, F2, x, cols, rows)  BY <1>1, <1>2 DEF OneChanges
<1>. QED  BY <1>3 DEF T2, F2

LEMMA ChangesByAlone ==
  ASSUME NEW T, NEW F, NEW x, NEW cols, x \in DOMAIN F
  PROVE  OneChanges(T, F, With(T, x, cols), F, x, cols, F[x])
<1> DEFINE T2 == With(T, x, cols)
<1>1. /\ DOMAIN T2 = DOMAIN T \cup {x} /\ T2[x] = cols
      /\ \A y \in DOMAIN T : y # x => T2[y] = T[y]
  BY DEF With
<1> HIDE DEF T2
<1>2. OneChanges(T, F, T2, F, x, cols, F[x])  BY <1>1 DEF OneChanges
<1>. QED  BY <1>2 DEF T2

LEMMA GoesByWithout ==
  ASSUME NEW T, NEW F, NEW x
  PROVE  OneGoes(T, F, Without(T, x), Without(F, x), x)
<1> DEFINE T2 == Without(T, x)
           F2 == Without(F, x)
<1>1. DOMAIN T2 = DOMAIN T \ {x} /\ \A y \in DOMAIN T : y # x => T2[y] = T[y]
  BY DEF Without
<1>2. DOMAIN F2 = DOMAIN F \ {x} /\ \A y \in DOMAIN F : y # x => F2[y] = F[y]
  BY DEF Without
<1> HIDE DEF T2, F2
<1>3. OneGoes(T, F, T2, F2, x)  BY <1>1, <1>2 DEF OneGoes
<1>. QED  BY <1>3 DEF T2, F2

LEMMA PlannedEffects ==
  ASSUME NEW op, NEW d, DOMAIN d.filled = DOMAIN d.tables, ~ Refused(op, d)
  PROVE  PlannedEffect(op, d.tables, d.filled, TablesAfter(op, d), FilledAfter(op, d))
<1> DEFINE T == d.tables
           F == d.filled
           x == op.table
           T2 == TablesAfter(op, d)
           F2 == FilledAfter(op, d)
<1>1. ASSUME op.op = "create_table"
      PROVE  x \notin DOMAIN T /\ OneChanges(T, F, T2, F2, x, Declared(op.def), {})
  <2>1. x \notin DOMAIN T  BY <1>1 DEF Refused
  <2>2. T2 = With(T, x, Declared(op.def))  BY <1>1 DEF TablesAfter
  <2>3. F2 = With(F, x, {})  BY <1>1 DEF FilledAfter
  <2> HIDE DEF T, F, x, T2, F2
  <2>. QED  BY <2>1, <2>2, <2>3, ChangesByWith
<1>2. ASSUME op.op = "drop_table" PROVE OneGoes(T, F, T2, F2, x)
  <2>1. T2 = Without(T, x)  BY <1>2 DEF TablesAfter
  <2>2. F2 = Without(F, x)  BY <1>2 DEF FilledAfter
  <2> HIDE DEF T, F, x, T2, F2
  <2>. QED  BY <2>1, <2>2, GoesByWithout
<1>3. ASSUME op.op = "add_column"
      PROVE  /\ x \in DOMAIN T /\ op.name \notin DOMAIN T[x]
             /\ OneChanges(T, F, T2, F2, x, With(T[x], op.name, Written(op.def)), F[x])
  <2>1. x \in DOMAIN T /\ op.name \notin DOMAIN T[x]  BY <1>3 DEF Refused, ColumnIn
  <2>2. T2 = With(T, x, With(T[x], op.name, Written(op.def)))  BY <1>3, <2>1 DEF TablesAfter
  <2>3. F2 = F  BY <1>3 DEF FilledAfter
  <2>4. DOMAIN F = DOMAIN T  OBVIOUS
  <2> HIDE DEF T, F, x, T2, F2
  <2>. QED  BY <2>1, <2>2, <2>3, <2>4, ChangesByAlone
<1>4. ASSUME op.op = "drop_column"
      PROVE  /\ x \in DOMAIN T
             /\ OneChanges(T, F, T2, F2, x, Without(T[x], op.name), F[x] \ {op.name})
  <2>1. x \in DOMAIN T  BY <1>4 DEF Refused, ColumnIn
  <2>2. T2 = With(T, x, Without(T[x], op.name))  BY <1>4, <2>1 DEF TablesAfter
  <2>3. F2 = With(F, x, F[x] \ {op.name})  BY <1>4, <2>1 DEF FilledAfter
  <2> HIDE DEF T, F, x, T2, F2
  <2>. QED  BY <2>1, <2>2, <2>3, ChangesByWith
<1>5. ASSUME op.op = "rename_column"
      PROVE  /\ x \in DOMAIN T /\ op.def \notin DOMAIN T[x]
             /\ OneChanges(T, F, T2, F2, x, Renaming(T[x], op.name, op.def),
                           Moved(F[x], op.name, op.def))
  <2>1. x \in DOMAIN T /\ op.def \notin DOMAIN T[x]  BY <1>5 DEF Refused, ColumnIn
  <2>2. T2 = With(T, x, Renaming(T[x], op.name, op.def))
    BY <1>5, <2>1 DEF TablesAfter, Renaming
  <2>3. F2 = With(F, x, Moved(F[x], op.name, op.def))  BY <1>5, <2>1 DEF FilledAfter, Moved
  <2> HIDE DEF T, F, x, T2, F2
  <2>. QED  BY <2>1, <2>2, <2>3, ChangesByWith
<1>6. ASSUME op.op \in {"alter_column", "add_foreign_key", "drop_foreign_key",
                        "create_view", "drop_view"}
      PROVE  T2 = T /\ F2 = F
  BY <1>6 DEF TablesAfter, FilledAfter
<1> HIDE DEF T, F, x, T2, F2
<1>7. PlannedEffect(op, T, F, T2, F2)
  BY <1>1, <1>2, <1>3, <1>4, <1>5, <1>6, Zenon DEF PlannedEffect, x
<1>. QED  BY <1>7 DEF T, F, T2, F2
(* The data of a table stays in the table's columns.                       *)
LEMMA FitsAfter ==
  ASSUME NEW op, NEW T, NEW F, NEW T2, NEW F2,
         op.op \in PlannedOps, PlannedEffect(op, T, F, T2, F2),
         DOMAIN F = DOMAIN T, \A t \in DOMAIN T : F[t] \subseteq DOMAIN T[t]
  PROVE  DOMAIN F2 = DOMAIN T2 /\ \A t \in DOMAIN T2 : F2[t] \subseteq DOMAIN T2[t]
<1> DEFINE x == op.table
           c == op.name
           n == op.def
<1> HIDE DEF x, c, n
<1>1. ASSUME NEW cols, NEW rows, OneChanges(T, F, T2, F2, x, cols, rows),
             rows \subseteq DOMAIN cols
      PROVE  DOMAIN F2 = DOMAIN T2 /\ \A t \in DOMAIN T2 : F2[t] \subseteq DOMAIN T2[t]
  BY <1>1 DEF OneChanges
<1>2. CASE op.op = "create_table"
  <2>1. OneChanges(T, F, T2, F2, x, Declared(n), {})  BY <1>2 DEF PlannedEffect, x, n
  <2>2. {} \subseteq DOMAIN Declared(n)  OBVIOUS
  <2>. QED  BY <1>1, <2>1, <2>2
<1>3. CASE op.op = "drop_table"
  <2>1. OneGoes(T, F, T2, F2, x)  BY <1>3 DEF PlannedEffect, x
  <2>. QED  BY <2>1 DEF OneGoes
<1>4. CASE op.op = "add_column"
  <2> DEFINE cols == With(T[x], c, Written(n))
  <2>1. x \in DOMAIN T /\ OneChanges(T, F, T2, F2, x, cols, F[x])
    BY <1>4 DEF PlannedEffect, x, c, n
  <2>2. F[x] \subseteq DOMAIN cols  BY <2>1 DEF With
  <2> HIDE DEF cols
  <2>. QED  BY <1>1, <2>1, <2>2
<1>5. CASE op.op = "drop_column"
  <2> DEFINE cols == Without(T[x], c)
             rows == F[x] \ {c}
  <2>1. x \in DOMAIN T /\ OneChanges(T, F, T2, F2, x, cols, rows)
    BY <1>5 DEF PlannedEffect, x, c
  <2>2. rows \subseteq DOMAIN cols  BY <2>1 DEF Without
  <2> HIDE DEF cols, rows
  <2>. QED  BY <1>1, <2>1, <2>2
<1>6. CASE op.op = "rename_column"
  <2> DEFINE cols == Renaming(T[x], c, n)
             rows == Moved(F[x], c, n)
  <2>1. x \in DOMAIN T /\ OneChanges(T, F, T2, F2, x, cols, rows)
    BY <1>6 DEF PlannedEffect, x, c, n
  <2>2. DOMAIN cols = (DOMAIN T[x] \ {c}) \cup {n}  BY DEF Renaming, With, Without
  <2>3. rows \subseteq DOMAIN cols  BY <2>1, <2>2 DEF Moved
  <2> HIDE DEF cols, rows
  <2>. QED  BY <1>1, <2>1, <2>3
<1>7. CASE op.op \notin {"create_table", "drop_table", "add_column", "drop_column", "rename_column"}
  <2>1. T2 = T /\ F2 = F  BY <1>7 DEF PlannedOps, PlannedEffect
  <2>. QED  BY <2>1
<1>. QED  BY <1>2, <1>3, <1>4, <1>5, <1>6, <1>7

(* What goes from cur is hinted at in tgt, or nothing unhinted comes that  *)
(* may be it: the negation of Ambiguous for one table.                     *)
Unambiguous(cur, tgt) ==
  \A gone \in DOMAIN cur \ DOMAIN tgt :
    \/ \E n \in DOMAIN tgt : tgt[n].from = gone
    \/ \A n \in DOMAIN tgt :
         n \in DOMAIN cur \/ tgt[n].from # None \/ tgt[n].type # cur[gone].type

AllUnambiguous(T, want) == \A t \in DOMAIN T \cap DOMAIN want : Unambiguous(T[t], want[t])

LEMMA AmbiguousIs ==
  ASSUME NEW d, NEW s
  PROVE  ~ Ambiguous(d, s) <=> AllUnambiguous(d.tables, s.tables)
<1>1. ASSUME NEW t \in DOMAIN d.tables \cap DOMAIN s.tables
      PROVE  Unambiguous(d.tables[t], s.tables[t]) <=>
               LET cur == d.tables[t]
                   tgt == s.tables[t]
                   hinted == {tgt[c].from : c \in DOMAIN tgt}
               IN ~ \E gone \in (DOMAIN cur \ DOMAIN tgt) \ hinted,
                       come \in DOMAIN tgt \ DOMAIN cur :
                      tgt[come].from = None /\ cur[gone].type = tgt[come].type
  <2> DEFINE cur == d.tables[t]
             tgt == s.tables[t]
  <2> HIDE DEF cur, tgt
  <2>1. Unambiguous(cur, tgt) <=>
          ~ \E gone \in (DOMAIN cur \ DOMAIN tgt) \ {tgt[c].from : c \in DOMAIN tgt},
               come \in DOMAIN tgt \ DOMAIN cur :
              tgt[come].from = None /\ cur[gone].type = tgt[come].type
    BY DEF Unambiguous
  <2>. QED  BY <2>1 DEF cur, tgt
<1>. QED  BY <1>1 DEF Ambiguous, AllUnambiguous

(* Columns that are not wanted only go, wanted ones only come.             *)
Closer(old, new, want) ==
  /\ \A c \in DOMAIN new \ DOMAIN want : c \in DOMAIN old /\ new[c] = old[c]
  /\ DOMAIN old \cap DOMAIN want \subseteq DOMAIN new

LEMMA CloserIsUnambiguous ==
  ASSUME NEW T, NEW T2, NEW want, AllUnambiguous(T, want),
         \A t \in DOMAIN T2 \cap DOMAIN want :
           \/ DOMAIN T2[t] = DOMAIN want[t]
           \/ t \in DOMAIN T /\ Closer(T[t], T2[t], want[t])
  PROVE  AllUnambiguous(T2, want)
<1> SUFFICES ASSUME NEW t \in DOMAIN T2 \cap DOMAIN want
             PROVE  Unambiguous(T2[t], want[t])
  BY DEF AllUnambiguous
<1>1. CASE DOMAIN T2[t] = DOMAIN want[t]  BY <1>1 DEF Unambiguous
<1>2. CASE t \in DOMAIN T /\ Closer(T[t], T2[t], want[t])
  <2> DEFINE old == T[t]
             new == T2[t]
             tgt == want[t]
  <2>1. Unambiguous(old, tgt) /\ Closer(old, new, tgt)  BY <1>2 DEF AllUnambiguous
  <2> HIDE DEF old, new, tgt
  <2>2. Unambiguous(new, tgt)
    <3> SUFFICES ASSUME NEW gone \in DOMAIN new \ DOMAIN tgt,
                        ~ \E n \in DOMAIN tgt : tgt[n].from = gone,
                        NEW n \in DOMAIN tgt, n \notin DOMAIN new, tgt[n].from = None
                 PROVE  tgt[n].type # new[gone].type
      BY DEF Unambiguous
    <3>1. gone \in DOMAIN old \ DOMAIN tgt /\ new[gone] = old[gone]  BY <2>1 DEF Closer
    <3>2. n \notin DOMAIN old  BY <2>1 DEF Closer
    <3>. QED  BY <2>1, <3>1, <3>2 DEF Unambiguous
  <2>. QED  BY <2>2 DEF new, tgt
<1>. QED  BY <1>1, <1>2

LEMMA CloserAfter ==
  ASSUME NEW op, NEW T, NEW F, NEW T2, NEW F2, NEW want,
         PlannedEffect(op, T, F, T2, F2), KeepsWanted(op, want), AllUnambiguous(T, want)
  PROVE  AllUnambiguous(T2, want)
<1> DEFINE x == op.table
           c == op.name
           n == op.def
<1>1. op.op \in PlannedOps  BY DEF KeepsWanted
<1>2. /\ op.op = "create_table" => x \in DOMAIN want /\ n = want[x]
      /\ op.op = "add_column" => x \in DOMAIN want /\ c \in DOMAIN want[x]
      /\ op.op = "drop_column" => x \in DOMAIN want /\ c \notin DOMAIN want[x]
      /\ op.op = "rename_column" =>
           x \in DOMAIN want /\ c \notin DOMAIN want[x] /\ n \in DOMAIN want[x]
  BY DEF KeepsWanted, PlannedOps
<1>3. \A old, wanted : Closer(old, old, wanted)  BY DEF Closer
<1> HIDE DEF x, c, n
<1>4. ASSUME NEW cols, NEW rows, OneChanges(T, F, T2, F2, x, cols, rows), x \in DOMAIN want,
             DOMAIN cols = DOMAIN want[x] \/ (x \in DOMAIN T /\ Closer(T[x], cols, want[x]))
      PROVE  AllUnambiguous(T2, want)
  <2>1. ASSUME NEW t \in DOMAIN T2 \cap DOMAIN want
        PROVE  \/ DOMAIN T2[t] = DOMAIN want[t]
               \/ t \in DOMAIN T /\ Closer(T[t], T2[t], want[t])
    <3>1. CASE t = x  BY <1>4, <3>1 DEF OneChanges
    <3>2. CASE t # x
      <4>1. t \in DOMAIN T /\ T2[t] = T[t]  BY <1>4, <3>2 DEF OneChanges
      <4>. QED  BY <1>3, <4>1
    <3>. QED  BY <3>1, <3>2
  <2>. QED  BY <2>1, CloserIsUnambiguous
<1>5. CASE op.op = "create_table"
  <2>1. OneChanges(T, F, T2, F2, x, Declared(n), {})  BY <1>5 DEF PlannedEffect, x, n
  <2>2. DOMAIN Declared(n) = DOMAIN want[x]  BY <1>2, <1>5 DEF Declared
  <2>. QED  BY <1>2, <1>4, <1>5, <2>1, <2>2
<1>6. CASE op.op = "drop_table"
  <2>1. OneGoes(T, F, T2, F2, x)  BY <1>6 DEF PlannedEffect, x
  <2>2. DOMAIN T2 \subseteq DOMAIN T /\ \A t \in DOMAIN T2 : T2[t] = T[t]
    BY <2>1 DEF OneGoes
  <2>. QED  BY <2>2 DEF AllUnambiguous
<1>7. CASE op.op = "add_column"
  <2> DEFINE cols == With(T[x], c, Written(n))
  <2>1. x \in DOMAIN T /\ OneChanges(T, F, T2, F2, x, cols, F[x])
    BY <1>7 DEF PlannedEffect, x, c, n
  <2>2. Closer(T[x], cols, want[x])  BY <1>2, <1>7 DEF With, Closer
  <2> HIDE DEF cols
  <2>. QED  BY <1>2, <1>4, <1>7, <2>1, <2>2
<1>8. CASE op.op = "drop_column"
  <2> DEFINE cols == Without(T[x], c)
  <2>1. x \in DOMAIN T /\ OneChanges(T, F, T2, F2, x, cols, F[x] \ {c})
    BY <1>8 DEF PlannedEffect, x, c
  <2>2. Closer(T[x], cols, want[x])  BY <1>2, <1>8 DEF Without, Closer
  <2> HIDE DEF cols
  <2>. QED  BY <1>2, <1>4, <1>8, <2>1, <2>2
<1>9. CASE op.op = "rename_column"
  <2> DEFINE cols == Renaming(T[x], c, n)
             rows == Moved(F[x], c, n)
             less == Without(T[x], c)
  <2>1. x \in DOMAIN T /\ OneChanges(T, F, T2, F2, x, cols, rows)
    BY <1>9 DEF PlannedEffect, x, c, n
  <2>2. Closer(T[x], cols, want[x])
    <3>1. DOMAIN less = DOMAIN T[x] \ {c} /\ \A y \in DOMAIN less : less[y] = T[x][y]
      BY DEF Without
    <3> DEFINE e == T[x][c]
    <3>2. cols = With(less, n, e)  BY DEF Renaming
    <3> HIDE DEF less, cols, e
    <3>3. DOMAIN cols = DOMAIN less \cup {n} /\ \A y \in DOMAIN less : y # n => cols[y] = less[y]
      BY <3>2 DEF With
    <3>. QED  BY <1>2, <1>9, <3>1, <3>3 DEF Closer
  <2> HIDE DEF cols, rows
  <2>. QED  BY <1>2, <1>4, <1>9, <2>1, <2>2
<1>10. CASE op.op \notin {"create_table", "drop_table", "add_column", "drop_column", "rename_column"}
  <2>1. T2 = T  BY <1>1, <1>10 DEF PlannedOps, PlannedEffect
  <2>. QED  BY <2>1
<1>. QED  BY <1>5, <1>6, <1>7, <1>8, <1>9, <1>10

(* DataOutlives, for the tables T before a step, and T2 and F2 after it.   *)
Outlives(T, T2, F2, want, t, c) ==
  \/ t \notin DOMAIN T2 /\ t \notin DOMAIN want
  \/ c \in F2[t]
  \/ \E n \in F2[t] \ DOMAIN T[t] : want[t][n].from = c
  \/ /\ c \notin DOMAIN want[t] /\ c \notin DOMAIN T2[t]
     /\ \/ \E n \in DOMAIN want[t] : want[t][n].from = c
        \/ \A n \in DOMAIN want[t] :
             \/ n \in DOMAIN T[t] \/ want[t][n].from # None
             \/ want[t][n].type # T[t][c].type

(* What the ambiguities are found by is what the property says.            *)
LEMMA RowsStepIs ==
  ASSUME \A t \in DOMAIN db.tables : \A c \in db.filled[t] :
           Outlives(db.tables, db'.tables, db'.filled, target.tables, t, c)
  PROVE  RowsStep
<1> SUFFICES ASSUME NEW t \in DOMAIN db.tables, NEW c \in db.filled[t]
             PROVE  DataIsKept(t, c) \/ AskedFor(t, c, Renamings(t))
  BY DEF RowsStep
<1>1. Outlives(db.tables, db'.tables, db'.filled, target.tables, t, c)  OBVIOUS
<1>2. CASE \A n \in DOMAIN target.tables[t] :
             \/ n \in DOMAIN db.tables[t] \/ target.tables[t][n].from # None
             \/ target.tables[t][n].type # db.tables[t][c].type
  <2>1. MayBe(t, c) \subseteq Renamings(t)  BY <1>2 DEF MayBe, Renamings
  <2>. QED  BY <1>1, <2>1 DEF Outlives, DataIsKept, AskedFor
<1>3. CASE \/ t \notin DOMAIN db'.tables /\ t \notin DOMAIN target.tables
           \/ c \in db'.filled[t]
           \/ \E n \in db'.filled[t] \ DOMAIN db.tables[t] : target.tables[t][n].from = c
  BY <1>3 DEF DataIsKept
<1>4. CASE /\ c \notin DOMAIN target.tables[t] /\ c \notin DOMAIN db'.tables[t]
           /\ \E n \in DOMAIN target.tables[t] : target.tables[t][n].from = c
  BY <1>4 DEF AskedFor
<1>. QED  BY <1>1, <1>2, <1>3, <1>4 DEF Outlives

(* A step that leaves the data alone loses none.                           *)
LEMMA RowsStay ==
  ASSUME \A t \in DOMAIN db.tables : \A c \in db.filled[t] : c \in db'.filled[t]
  PROVE  RowsStep
  BY DEF RowsStep, DataIsKept

LEMMA RowsAfter ==
  ASSUME NEW op, NEW T, NEW F, NEW T2, NEW F2, NEW want,
         PlannedEffect(op, T, F, T2, F2), KeepsWanted(op, want), AllUnambiguous(T, want),
         DOMAIN F = DOMAIN T, NEW t \in DOMAIN T, F[t] \subseteq DOMAIN T[t], NEW c \in F[t]
  PROVE  Outlives(T, T2, F2, want, t, c)
<1> DEFINE x == op.table
           name == op.name
           def == op.def
<1>1. /\ op.op \in PlannedOps
      /\ op.op = "drop_table" => x \notin DOMAIN want
      /\ op.op = "drop_column" => x \in DOMAIN want /\ name \notin DOMAIN want[x]
      /\ op.op = "rename_column" =>
           /\ x \in DOMAIN want /\ name \notin DOMAIN want[x] /\ def \in DOMAIN want[x]
           /\ want[x][def].from = name
  BY DEF KeepsWanted, PlannedOps
<1> HIDE DEF x, name, def
<1>2. ASSUME t # x PROVE c \in F2[t]
  <2>1. CASE op.op = "drop_table"
    <3>1. OneGoes(T, F, T2, F2, x)  BY <2>1 DEF PlannedEffect, x
    <3>. QED  BY <1>2, <3>1 DEF OneGoes
  <2>2. CASE op.op \in {"create_table", "add_column", "drop_column", "rename_column"}
    <3>1. PICK cols, rows : OneChanges(T, F, T2, F2, x, cols, rows)
      BY <2>2, Zenon DEF PlannedEffect, x
    <3>. QED  BY <1>2, <3>1 DEF OneChanges
  <2>3. CASE op.op \notin {"create_table", "drop_table", "add_column", "drop_column", "rename_column"}
    <3>1. F2 = F  BY <1>1, <2>3 DEF PlannedOps, PlannedEffect
    <3>. QED  BY <3>1
  <2>. QED  BY <2>1, <2>2, <2>3
<1>3. CASE t # x  BY <1>2, <1>3 DEF Outlives
<1>4. CASE t = x /\ op.op = "create_table"
  <2>1. x \notin DOMAIN T  BY <1>4 DEF PlannedEffect, x
  <2>. QED  BY <1>4, <2>1
<1>5. CASE t = x /\ op.op = "drop_table"
  <2>1. OneGoes(T, F, T2, F2, x)  BY <1>5 DEF PlannedEffect, x
  <2>. QED  BY <1>1, <1>5, <2>1 DEF OneGoes, Outlives
<1>6. CASE t = x /\ op.op = "add_column"
  <2>1. PICK cols : OneChanges(T, F, T2, F2, x, cols, F[x])  BY <1>6 DEF PlannedEffect, x
  <2>. QED  BY <1>6, <2>1 DEF OneChanges, Outlives
<1>7. CASE t = x /\ op.op = "drop_column"
  <2> DEFINE cols == Without(T[x], name)
  <2>1. OneChanges(T, F, T2, F2, x, cols, F[x] \ {name})
    BY <1>7 DEF PlannedEffect, x, name
  <2>2. name \notin DOMAIN cols  BY DEF Without
  <2> HIDE DEF cols
  <2>3. F2[t] = F[t] \ {name} /\ name \notin DOMAIN T2[t]  BY <1>7, <2>1, <2>2 DEF OneChanges
  <2>4. CASE c # name  BY <2>3, <2>4 DEF Outlives
  <2>5. CASE c = name
    <3>1. Unambiguous(T[t], want[t])  BY <1>1, <1>7 DEF AllUnambiguous
    <3>2. c \in DOMAIN T[t] \ DOMAIN want[t]  BY <1>1, <1>7, <2>5
    <3>. QED  BY <2>3, <2>5, <3>1, <3>2 DEF Unambiguous, Outlives
  <2>. QED  BY <2>4, <2>5
<1>8. CASE t = x /\ op.op = "rename_column"
  <2>1. def \notin DOMAIN T[t] /\ F2[t] = Moved(F[t], name, def)
    BY <1>8 DEF PlannedEffect, OneChanges, x, name, def
  <2>2. CASE c # name  BY <2>1, <2>2 DEF Outlives, Moved
  <2>3. CASE c = name
    <3>1. def \in F2[t] \ DOMAIN T[t] /\ want[t][def].from = c
      BY <1>1, <1>8, <2>1, <2>3 DEF Moved
    <3>. QED  BY <3>1 DEF Outlives
  <2>. QED  BY <2>2, <2>3
<1>9. CASE op.op \notin {"create_table", "drop_table", "add_column", "drop_column", "rename_column"}
  <2>1. F2 = F  BY <1>1, <1>9 DEF PlannedOps, PlannedEffect
  <2>. QED  BY <2>1 DEF Outlives
<1>. QED  BY <1>3, <1>4, <1>5, <1>6, <1>7, <1>8, <1>9
-----------------------------------------------------------------------------
(* Rows survive: each kind of step, beside AtomicInv.                      *)
LEMMA RowsInit == Init => RowsInv
  <1> SUFFICES ASSUME Init PROVE RowsInv  OBVIOUS
  <1>1. phase = "idle"  BY DEF Init
  <1>2. db.tables = <<>> /\ db.filled = <<>>  BY DEF Init, Empty
  <1>. QED  BY <1>1, <1>2 DEF RowsInv, FilledFits, Applying, CopyGoesOn, CopyIsWhole

(* A step that leaves the tables and their data alone, out of the copy.    *)
LEMMA RowsSame ==
  ASSUME RowsInv, db'.tables = db.tables, db'.filled = db.filled,
         UNCHANGED <<target, plan>>, phase' \notin {"rebuild", "commit"},
         Applying' =>
           /\ Applying
           /\ phase' \in RebuildPhases => Head(todo').table \in Rebuilt(plan)
           /\ \A op \in ToSet(todo') :
                \/ IsFresh(op)
                \/ /\ phase' \in {"enable_foreign_keys", "resume_push"}
                   /\ op.table = Head(todo').table
  PROVE  RowsInv' /\ RowsStep
  <1>1. FilledFits(db)'  BY DEF RowsInv, FilledFits
  <1>2. CopyGoesOn' /\ CopyIsWhole'  BY DEF CopyGoesOn, CopyIsWhole
  <1>3. ASSUME Applying' PROVE PlanIsFresh'
    <2>1. ~ Ambiguous(db, target)  BY <1>3 DEF RowsInv, PlanIsFresh
    <2>2. ~ Ambiguous(db', target')
      <3>1. AllUnambiguous(db'.tables, target'.tables)  BY <2>1, AmbiguousIs
      <3>. QED  BY <3>1, AmbiguousIs
    <2>3. ASSUME NEW op \in ToSet(todo')
          PROVE  \/ IsFresh(op)'
                 \/ /\ phase' \in {"enable_foreign_keys", "resume_push"}
                    /\ op.table = Head(todo').table
      BY <1>3, <2>3 DEF IsFresh
    <2>. QED  BY <1>3, <2>2, <2>3 DEF PlanIsFresh
  <1>4. RowsStep  BY DEF RowsStep, DataIsKept
  <1>. QED  BY <1>1, <1>2, <1>3, <1>4 DEF RowsInv

LEMMA RowsReturns ==
  ASSUME RowsInv, phase' = "idle", db' = db, UNCHANGED <<target, plan>>
  PROVE  RowsInv' /\ RowsStep
  BY RowsSame DEF Applying

LEMMA RowsMigrate ==
  ASSUME RowsInv, AtomicInv, NEW s \in Targets, Migrate(s)
  PROVE  RowsInv' /\ RowsStep
  <1>1. /\ phase = "idle" /\ target' = s /\ phase' \in {"idle", "apply"}
        /\ UNCHANGED <<db, work>>
    BY DEF Migrate
  <1>2. FilledFits(db)' /\ CopyGoesOn' /\ CopyIsWhole'
    BY <1>1 DEF RowsInv, FilledFits, CopyGoesOn, CopyIsWhole
  <1>3. RowsStep  BY <1>1 DEF RowsStep, DataIsKept
  <1>4. ASSUME Applying' PROVE PlanIsFresh'
    <2>1. phase' = "apply" /\ work = <<>>  BY <1>1, <1>4 DEF Applying, InTransaction
    <2> DEFINE ops == Operations(Inspected, s)
    <2>2. plan' = Plan(ops) /\ todo' = plan' /\ ~ Refusal(s)  BY <1>1, <2>1 DEF Migrate
    <2>3. Inspected.tables = db.tables  BY <2>1 DEF Inspected, Current
    <2>4. ~ Ambiguous(db', target')
      <3>1. ~ Ambiguous(Inspected, s)  BY <2>2 DEF Refusal
      <3>2. AllUnambiguous(db.tables, s.tables)  BY <2>3, <3>1, AmbiguousIs
      <3>3. ~ Ambiguous(db, s)  BY <3>2, AmbiguousIs
      <3>. QED  BY <1>1, <3>3
    <2>5. \A op \in ToSet(plan') : Suits(op, db.tables, s.tables)
      <3>1. Temp \notin DOMAIN db.tables /\ Temp \notin DOMAIN s.tables
        BY MigrationAssumption DEF AtomicInv, DatabasesFit
      <3>2. Kept(Plan(ops), db.tables, s.tables)  BY <2>3, <3>1, PlanKeeps
      <3> HIDE DEF ops
      <3>. QED  BY <2>2, <3>2, KeptElements DEF ToSet
    <2>6. ASSUME NEW op \in ToSet(todo') PROVE IsFresh(op)'
      <3> SUFFICES ASSUME op.table \in DOMAIN db.tables,
                          NEW c \in ColumnsAdded(op.table, plan')
                   PROVE  c \notin DOMAIN db.tables[op.table]
        BY <1>1 DEF IsFresh
      <3>1. PICK o \in ToSet(plan') : o.op = "add_column" /\ o.table = op.table /\ o.name = c
        BY DEF ColumnsAdded
      <3>. QED  BY <2>5, <3>1 DEF Suits
    <2>. QED  BY <2>1, <2>4, <2>6 DEF PlanIsFresh, RebuildPhases
  <1>. QED  BY <1>2, <1>3, <1>4 DEF RowsInv

(* A statement in place: the rows of the other tables stay, and so do the  *)
(* tables still to be rebuilt.                                             *)
LEMMA RowsApplied ==
  ASSUME RowsInv, AtomicInv, phase = "apply", todo # <<>>, work = <<>>,
         Head(todo).table \notin Rebuilt(plan), Execute(Head(todo)), todo' = Tail(todo),
         UNCHANGED <<phase, target, plan>>
  PROVE  RowsInv' /\ RowsStep
  <1> DEFINE op == Head(todo)
             T == db.tables
             F == db.filled
             T2 == TablesAfter(op, db)
             F2 == FilledAfter(op, db)
             want == target.tables
  <1>1. db' = Effect(op, db) /\ work' = <<>> /\ ~ Refused(op, db)  BY DEF Execute, Current
  <1>2. db'.tables = T2 /\ db'.filled = F2  BY <1>1 DEF Effect
  <1>3. /\ todo \in Seq(ToSet(plan)) /\ \A o \in ToSet(plan) : KeepsWanted(o, want)
    BY DEF AtomicInv, PlanIsSafe
  <1>4. op \in ToSet(plan) /\ Tail(todo) \in Seq(ToSet(todo))
    <2>1. \A i \in DOMAIN todo : todo[i] \in ToSet(todo)  BY DEF ToSet
    <2>2. todo \in Seq(ToSet(todo))  BY <1>3, <2>1, LenProperties
    <2>. QED  BY <1>3, <2>2, HeadTailProperties
  <1>5. KeepsWanted(op, want) /\ op.op \in PlannedOps  BY <1>3, <1>4 DEF KeepsWanted
  <1>6. DOMAIN F = DOMAIN T /\ \A t \in DOMAIN T : F[t] \subseteq DOMAIN T[t]
    BY DEF RowsInv, FilledFits
  <1>7. PlanIsFresh  BY DEF RowsInv, Applying
  <1>8. AllUnambiguous(T, want)  BY <1>7, AmbiguousIs DEF PlanIsFresh
  <1>9. PlannedEffect(op, T, F, T2, F2)  BY <1>1, <1>6, PlannedEffects
  <1> HIDE DEF op, T, F, T2, F2, want
  <1>10. DOMAIN F2 = DOMAIN T2 /\ \A t \in DOMAIN T2 : F2[t] \subseteq DOMAIN T2[t]
    BY <1>5, <1>6, <1>9, FitsAfter
  <1>11. AllUnambiguous(T2, want)  BY <1>5, <1>8, <1>9, CloserAfter
  <1>12. \A t \in DOMAIN T : \A c \in F[t] : Outlives(T, T2, F2, want, t, c)
    BY <1>5, <1>6, <1>8, <1>9, RowsAfter
  <1>13. RowsStep
    BY <1>2, <1>12, RowsStepIs DEF T, F, want
  <1>14. \A u \in DOMAIN T2 : u # op.table => u \in DOMAIN T /\ T2[u] = T[u]
    <2> TAKE u \in DOMAIN T2
    <2> HAVE u # op.table
    <2>1. CASE op.op = "drop_table"
      <3>1. OneGoes(T, F, T2, F2, op.table)  BY <1>9, <2>1 DEF PlannedEffect
      <3>. QED  BY <3>1 DEF OneGoes
    <2>2. CASE op.op \in {"create_table", "add_column", "drop_column", "rename_column"}
      <3>1. PICK cols, rows : OneChanges(T, F, T2, F2, op.table, cols, rows)
        BY <1>9, <2>2, Zenon DEF PlannedEffect
      <3>. QED  BY <3>1 DEF OneChanges
    <2>3. CASE op.op \notin {"create_table", "drop_table", "add_column", "drop_column",
                             "rename_column"}
      <3>1. T2 = T  BY <1>5, <1>9, <2>3 DEF PlannedOps, PlannedEffect
      <3>. QED  BY <3>1
    <2>. QED  BY <2>1, <2>2, <2>3
  <1>15. FilledFits(db)'  BY <1>2, <1>10 DEF FilledFits
  <1>16. CopyGoesOn' /\ CopyIsWhole'  BY DEF CopyGoesOn, CopyIsWhole
  <1>17. PlanIsFresh'
    <2>1. ~ Ambiguous(db', target')
      <3>1. AllUnambiguous(db'.tables, target'.tables)  BY <1>2, <1>11 DEF want
      <3>. QED  BY <3>1, AmbiguousIs
    <2>2. ASSUME NEW o \in ToSet(todo') PROVE IsFresh(o)'
      <3>1. o \in ToSet(todo)
        <4> DEFINE rest == Tail(todo)
        <4>1. PICK i \in DOMAIN rest : o = rest[i]  BY DEF ToSet
        <4>2. rest \in Seq(ToSet(todo))  BY <1>4
        <4> HIDE DEF rest
        <4>. QED  BY <4>1, <4>2, LenProperties, ElementOfSeq
      <3>2. IsFresh(o)  BY <1>7, <3>1 DEF PlanIsFresh
      <3>3. op.table \notin Rebuilt(plan)  BY DEF op
      <3>. QED  BY <1>2, <1>14, <3>2, <3>3 DEF IsFresh, T
    <2>. QED  BY <2>1, <2>2 DEF PlanIsFresh, RebuildPhases
  <1>. QED  BY <1>13, <1>15, <1>16, <1>17 DEF RowsInv

LEMMA RowsApplyInPlace ==
  ASSUME RowsInv, AtomicInv, ApplyInPlace
  PROVE  RowsInv' /\ RowsStep
  <1>1. /\ phase = "apply" /\ todo # <<>> /\ Head(todo).table \notin Rebuilt(plan)
        /\ UNCHANGED <<target, plan>>
    BY DEF ApplyInPlace
  <1>2. CASE Returns("failed") /\ UNCHANGED <<db, work>>
    BY <1>1, <1>2, RowsReturns DEF Returns
  <1>3. CASE Execute(Head(todo)) /\ todo' = Tail(todo) /\ UNCHANGED phase /\ work # <<>>
    <2>1. db' = db /\ work' = <<Effect(Head(todo), work[1])>>  BY <1>3 DEF Execute
    <2>2. ~ Applying'  BY <1>1, <1>3, <2>1 DEF Applying, InTransaction
    <2>. QED  BY <1>1, <1>3, <2>1, <2>2, RowsSame
  <1>4. CASE Execute(Head(todo)) /\ todo' = Tail(todo) /\ UNCHANGED phase /\ work = <<>>
    BY <1>1, <1>4, RowsApplied
  <1>. QED  BY <1>2, <1>3, <1>4 DEF ApplyInPlace
LEMMA InOwnSet ==
  ASSUME NEW S, NEW s \in Seq(S)
  PROVE  s \in Seq(ToSet(s)) /\ \A x \in ToSet(s) : \E i \in 1..Len(s) : s[i] = x
<1>1. \A i \in DOMAIN s : s[i] \in ToSet(s)  BY DEF ToSet
<1>. QED  BY <1>1, LenProperties DEF ToSet

(* The calls around the transaction, and its rollback.                     *)
LEMMA RowsBracket ==
  ASSUME RowsInv, AtomicInv,
         PausePush \/ DisableForeignKeys \/ Rollback \/ EnableForeignKeys \/ ResumePush
  PROVE  RowsInv' /\ RowsStep
  <1>1. UNCHANGED <<db, target, plan>>
    BY DEF PausePush, DisableForeignKeys, Rollback, EnableForeignKeys, ResumePush, Raises
  <1>2. CASE phase' = "idle"  BY <1>1, <1>2, RowsReturns
  <1>3. Applying => PlanIsFresh  BY DEF RowsInv
  <1>4. CASE PausePush /\ phase' # "idle"
    <2>1. /\ phase = "apply" /\ phase' = "disable_foreign_keys" /\ UNCHANGED <<work, todo>>
          /\ Head(todo).table \in Rebuilt(plan)
      BY <1>4 DEF PausePush, Raises, Returns
    <2>2. Applying' => Applying  BY <2>1 DEF Applying, InTransaction
    <2>. QED  BY <1>1, <1>3, <2>1, <2>2, RowsSame DEF PlanIsFresh
  <1>5. CASE DisableForeignKeys /\ phase' # "idle"
    <2>1. phase = "disable_foreign_keys" /\ phase' = "begin" /\ UNCHANGED <<work, todo>>
      BY <1>5 DEF DisableForeignKeys, Raises, Returns
    <2>2. Applying' => Applying  BY <2>1 DEF Applying, InTransaction
    <2>. QED  BY <1>1, <1>3, <2>1, <2>2, RowsSame DEF PlanIsFresh, RebuildPhases
  <1>6. CASE Rollback /\ phase' # "idle"
    <2>1. phase = "rollback" /\ phase' = "enable_foreign_keys" /\ todo' = todo
      BY <1>6 DEF Rollback, Raises, Returns
    <2>2. Applying
      <3>1. work # <<>>  BY <2>1 DEF AtomicInv, DatabasesFit, InTransaction
      <3>. QED  BY <2>1, <3>1 DEF Applying, InTransaction
    <2>. QED  BY <1>1, <1>3, <2>1, <2>2, RowsSame DEF PlanIsFresh, RebuildPhases
  <1>7. CASE EnableForeignKeys /\ phase' # "idle"
    <2>1. phase = "enable_foreign_keys" /\ phase' = "resume_push" /\ UNCHANGED <<work, todo>>
      BY <1>7 DEF EnableForeignKeys, Raises, Returns
    <2>2. Applying' => Applying  BY <2>1 DEF Applying, InTransaction
    <2>. QED  BY <1>1, <1>3, <2>1, <2>2, RowsSame DEF PlanIsFresh, RebuildPhases
  <1>8. CASE ResumePush /\ phase' # "idle"
    <2> DEFINE t == Head(todo).table
    <2>1. /\ phase = "resume_push" /\ phase' = "apply" /\ work' = work
          /\ todo' = OnOthers(todo, t)
      BY <1>8 DEF ResumePush, Raises, Returns
    <2>2. Applying' => Applying  BY <2>1 DEF Applying, InTransaction
    <2>3. ASSUME Applying, NEW op \in ToSet(todo') PROVE IsFresh(op)
      <3> DEFINE S == ToSet(todo)
                 Q == {o \in S : o.table # t}
      <3>1. todo \in Seq(ToSet(plan))  BY <2>1, <2>3 DEF AtomicInv, PlanIsSafe, Applying
      <3>2. todo' \in Seq(Q)
        <4>1. todo \in Seq(S)  BY <3>1, InOwnSet
        <4> HIDE DEF S, t
        <4>2. OnOthers(todo, t) \in Seq({o \in S : o.table # t})  BY <4>1, OthersAreKept
        <4>. QED  BY <2>1, <4>2
      <3>3. op \in Q
        <4> HIDE DEF Q
        <4>. QED  BY <3>2, InOwnSet, ElementOfSeq
      <3>. QED  BY <1>3, <2>1, <2>3, <3>3 DEF PlanIsFresh
    <2>. QED  BY <1>1, <2>1, <2>2, <2>3, RowsSame DEF RebuildPhases
  <1>. QED  BY <1>2, <1>4, <1>5, <1>6, <1>7, <1>8

(* What a rebuild has done to the transaction, in another state with the   *)
(* same database, target and plan.                                         *)
LEMMA RowsAtStays ==
  ASSUME NEW d, NEW n, NEW k, NEW t, UNCHANGED <<db, target, plan>>, RowsAt(d, n, k, t)
  PROVE  RowsAt(d, n, k, t)'
  BY DEF RowsAt, OthersSame, SameIn, Renewed

LEMMA RowsBegin ==
  ASSUME RowsInv, AtomicInv, Begin
  PROVE  RowsInv' /\ RowsStep
  <1>1. UNCHANGED <<db, target, plan>> /\ phase = "begin"  BY DEF Begin, Raises
  <1>2. CASE phase' = "idle"  BY <1>1, <1>2, RowsReturns
  <1>3. CASE /\ work = <<>> /\ work' = <<db>> /\ phase' = "rebuild" /\ todo' = todo
             /\ stmts' = ReconstructionSql(Head(todo).table, target, plan)
    <2>1. FilledFits(db) /\ FilledFits(db)'  BY <1>1 DEF RowsInv, FilledFits
    <2>2. PlanIsFresh'
      <3>1. PlanIsFresh  BY <1>1, <1>3 DEF RowsInv, Applying
      <3>. QED  BY <1>1, <1>3, <3>1 DEF PlanIsFresh, IsFresh, RebuildPhases
    <2>3. CopyGoesOn'
      <3> DEFINE t == Head(todo).table
                 k == ViewCount(t, target)
                 statements == ReconstructionSql(t, target, plan)
                 N == Len(statements)
      <3>1. k \in Nat /\ statements \in Seq(ToSet(statements)) /\ N = 2 * k + 4
        BY RebuildStatements DEF IsRebuild
      <3>2. stmts' = SubSeq(statements, 0 + 1, N)
        <4> HIDE DEF statements
        <4>. QED  BY <1>3, <3>1, SubSeqProperties, LenProperties DEF statements
      <3> HIDE DEF k
      <3>3. RowsAt(db, 0, k, t)
        <4>1. 0 # k + 1 /\ 0 \notin {k + 2, k + 3} /\ ~ (0 >= k + 4)  BY <3>1
        <4>2. OthersSame(db, t)  BY <2>1 DEF OthersSame, SameIn, FilledFits
        <4>. QED  BY <4>1, <4>2 DEF RowsAt, SameIn
      <3>4. PICK d : d = db  OBVIOUS
      <3>5. RowsAt(d, 0, k, t)  BY <3>3, <3>4
      <3>6. PICK tt, kk, st : tt = t /\ kk = k /\ st = statements  OBVIOUS
      <3>7. RowsAt(d, 0, kk, tt)'  BY <1>1, <3>5, <3>6, RowsAtStays
      <3>8. work'[1] = d  BY <1>3, <3>4
      <3>9. /\ Head(todo').table = tt /\ ViewCount(tt, target') = kk
            /\ ReconstructionSql(tt, target', plan') = st
        BY <1>1, <1>3, <3>6 DEF k
      <3>10. 0 \in 0..Len(st) /\ stmts' = SubSeq(st, 0 + 1, Len(st))  BY <3>1, <3>2, <3>6
      <3>. QED  BY <3>7, <3>8, <3>9, <3>10 DEF CopyGoesOn
    <2>4. CopyIsWhole'  BY <1>3 DEF CopyIsWhole
    <2>5. RowsStep  BY <1>1 DEF RowsStep, DataIsKept
    <2>. QED  BY <2>1, <2>2, <2>3, <2>4, <2>5 DEF RowsInv
  <1>. QED  BY <1>2, <1>3 DEF Begin, Raises, Returns
(* A statement of a rebuild, whatever the transaction holds.               *)
LEMMA RowsStatement ==
  ASSUME NEW d, NEW t, t # Temp, Temp \notin DOMAIN db.tables, NEW k, NEW n \in Nat,
         NEW ss, IsRebuild(ss, k, t, target.tables[t],
                           DOMAIN target.tables[t] \ ColumnsAdded(t, plan)),
         n + 1 \in 1..2 * k + 4, RowsAt(d, n, k, t)
  PROVE  RowsAt(Effect(ss[n + 1], d), n + 1, k, t)
<1> DEFINE st == ss[n + 1]
           e == Effect(st, d)
           T == d.tables
           F == d.filled
           T2 == TablesAfter(st, d)
           F2 == FilledAfter(st, d)
           made == target.tables[t]
           new == Declared(made)
           kept == DOMAIN made \ ColumnsAdded(t, plan)
<1>1. e.tables = T2 /\ e.filled = F2  BY DEF Effect
<1>2. /\ k \in Nat
      /\ n + 1 \in 1..k => st.op = "drop_view"
      /\ n + 1 = k + 1 => st.op = "create_table" /\ st.table = Temp /\ st.def = made
      /\ n + 1 = k + 2 => st.op = "copy" /\ st.table = t /\ st.def = kept
      /\ n + 1 = k + 3 => st.op = "drop_table" /\ st.table = t
      /\ n + 1 = k + 4 => st.op = "rename_table" /\ st.table = Temp /\ st.name = t
      /\ n + 1 \in k + 5..2 * k + 4 => st.op = "create_view"
  BY DEF IsRebuild
<1>3. DOMAIN F = DOMAIN T /\ \A u \in DOMAIN db.tables \ {t} : SameIn(d, u)
  BY DEF RowsAt, OthersSame
<1> SUFFICES RowsAt(e, n + 1, k, t)  OBVIOUS
<1> HIDE DEF e, st
<1>4. CASE n + 1 <= k \/ n + 1 \in k + 5..2 * k + 4
  <2>1. st.op \in {"drop_view", "create_view"}
    <3>1. n + 1 <= k => n + 1 \in 1..k  BY <1>2
    <3>. QED  BY <1>2, <1>4, <3>1
  <2>2. e.tables = T /\ e.filled = F  BY <1>1, <2>1 DEF TablesAfter, FilledAfter
  <2> HIDE DEF T, F
  <2>3. /\ \A u : SameIn(d, u) => SameIn(e, u)
        /\ \A m : Renewed(d, m, t) => Renewed(e, m, t)
    BY <2>2 DEF SameIn, Renewed, T, F
  <2>4. OthersSame(e, t)  BY <1>3, <2>2, <2>3 DEF OthersSame
  <2>5. CASE n + 1 <= k
    <3>1. n <= k + 2 /\ n + 1 # k + 1 /\ n + 1 \notin {k + 2, k + 3} /\ ~ (n + 1 >= k + 4)
      BY <1>2, <2>5
    <3>. QED  BY <2>3, <2>4, <3>1 DEF RowsAt
  <2>6. CASE n + 1 \in k + 5..2 * k + 4
    <3>1. n >= k + 4 /\ ~ (n + 1 <= k + 2) /\ n + 1 # k + 1 /\ n + 1 \notin {k + 2, k + 3}
      BY <1>2, <2>6
    <3>. QED  BY <2>3, <2>4, <3>1 DEF RowsAt
  <2>. QED  BY <1>4, <2>5, <2>6
<1>5. CASE n + 1 = k + 1
  <2>1. e.tables = With(T, Temp, new) /\ e.filled = With(F, Temp, {})
    BY <1>1, <1>2, <1>5 DEF TablesAfter, FilledAfter
  <2>2. OneChanges(T, F, e.tables, e.filled, Temp, new, {})  BY <2>1, ChangesByWith
  <2> HIDE DEF new
  <2>3. \A u \in DOMAIN db.tables : SameIn(d, u) => SameIn(e, u)
    BY <1>3, <2>2 DEF SameIn, OneChanges
  <2>4. OthersSame(e, t)  BY <1>3, <2>2, <2>3 DEF OthersSame, OneChanges
  <2>5. Temp \in DOMAIN e.tables /\ e.tables[Temp] = new  BY <2>2 DEF OneChanges
  <2>6. n <= k + 2 /\ n + 1 \notin {k + 2, k + 3} /\ ~ (n + 1 >= k + 4)  BY <1>2, <1>5
  <2>. QED  BY <2>3, <2>4, <2>5, <2>6 DEF RowsAt, new
<1>6. CASE n + 1 = k + 2
  <2> DEFINE rows == kept \cap (IF t \in DOMAIN F THEN F[t] ELSE {})
  <2>1. e.tables = T /\ e.filled = With(F, Temp, rows)
    BY <1>1, <1>2, <1>6 DEF TablesAfter, FilledAfter
  <2>2. /\ DOMAIN e.filled = DOMAIN F \cup {Temp} /\ e.filled[Temp] = rows
        /\ \A u \in DOMAIN F : u # Temp => e.filled[u] = F[u]
    BY <2>1 DEF With
  <2>3. Temp \in DOMAIN T /\ T[Temp] = new
    <3>1. n = k + 1  BY <1>2, <1>6
    <3>. QED  BY <3>1 DEF RowsAt
  <2>4. t \in DOMAIN db.tables => rows = kept \cap db.filled[t]
    <3>1. n <= k + 2  BY <1>2, <1>6
    <3>2. t \in DOMAIN db.tables => SameIn(d, t)  BY <3>1 DEF RowsAt
    <3>. QED  BY <1>3, <3>2 DEF SameIn
  <2> HIDE DEF rows, T, F
  <2>5. \A u \in DOMAIN db.tables : SameIn(d, u) => SameIn(e, u)
    BY <1>3, <2>1, <2>2 DEF SameIn, T, F
  <2>6. OthersSame(e, t)  BY <1>3, <2>1, <2>2, <2>3, <2>5 DEF OthersSame
  <2>7. Renewed(e, Temp, t)  BY <2>1, <2>2, <2>3, <2>4 DEF Renewed
  <2>8. n <= k + 2 /\ n + 1 # k + 1 /\ ~ (n + 1 >= k + 4)  BY <1>2, <1>6
  <2>. QED  BY <2>5, <2>6, <2>7, <2>8 DEF RowsAt
<1>7. CASE n + 1 = k + 3
  <2>1. e.tables = Without(T, t) /\ e.filled = Without(F, t)
    BY <1>1, <1>2, <1>7 DEF TablesAfter, FilledAfter
  <2>2. OneGoes(T, F, e.tables, e.filled, t)  BY <2>1, GoesByWithout
  <2>3. Renewed(d, Temp, t)
    <3>1. n \in {k + 2, k + 3}  BY <1>2, <1>7
    <3>. QED  BY <3>1 DEF RowsAt
  <2> HIDE DEF T, F
  <2>4. \A u \in DOMAIN db.tables \ {t} : SameIn(d, u) => SameIn(e, u)
    BY <1>3, <2>2 DEF SameIn, OneGoes, T, F
  <2>5. OthersSame(e, t)  BY <1>3, <2>2, <2>4 DEF OthersSame, OneGoes
  <2>6. Renewed(e, Temp, t)  BY <1>3, <2>2, <2>3 DEF Renewed, OneGoes, T, F
  <2>7. ~ (n + 1 <= k + 2) /\ n + 1 # k + 1 /\ ~ (n + 1 >= k + 4)  BY <1>2, <1>7
  <2>. QED  BY <2>5, <2>6, <2>7 DEF RowsAt
<1>8. CASE n + 1 = k + 4
  <2> DEFINE T1 == Without(T, Temp)
             F1 == Without(F, Temp)
             cols == T[Temp]
             rows == F[Temp]
  <2>1. Renewed(d, Temp, t)
    <3>1. n \in {k + 2, k + 3}  BY <1>2, <1>8
    <3>. QED  BY <3>1 DEF RowsAt
  <2>2. Temp \in DOMAIN T /\ Temp \in DOMAIN F  BY <1>3, <2>1 DEF Renewed
  <2>3. e.tables = With(T1, t, cols) /\ e.filled = With(F1, t, rows)
    BY <1>1, <1>2, <1>8, <2>2 DEF TablesAfter, FilledAfter
  <2>4. OneGoes(T, F, T1, F1, Temp)  BY GoesByWithout
  <2>5. OneChanges(T1, F1, e.tables, e.filled, t, cols, rows)  BY <2>3, ChangesByWith
  <2>6. cols = new /\ (t \in DOMAIN db.tables => rows = kept \cap db.filled[t])
    BY <2>1 DEF Renewed
  <2> HIDE DEF T, F, T1, F1, cols, rows
  <2>7. \A u \in DOMAIN db.tables \ {t} : SameIn(d, u) => SameIn(e, u)
    <3> SUFFICES ASSUME NEW u \in DOMAIN db.tables \ {t}, SameIn(d, u) PROVE SameIn(e, u)
      OBVIOUS
    <3>1. u \in DOMAIN T /\ T[u] = db.tables[u] /\ F[u] = db.filled[u] /\ u # Temp /\ u # t
      BY DEF SameIn, T, F
    <3>2. u \in DOMAIN T1 /\ T1[u] = T[u] /\ u \in DOMAIN F1 /\ F1[u] = F[u]
      BY <1>3, <2>4, <3>1 DEF OneGoes
    <3>. QED  BY <2>5, <3>1, <3>2 DEF OneChanges, SameIn
  <2>8. DOMAIN e.filled = DOMAIN e.tables  BY <1>3, <2>4, <2>5 DEF OneGoes, OneChanges
  <2>9. OthersSame(e, t)  BY <1>3, <2>7, <2>8 DEF OthersSame
  <2>10. Renewed(e, t, t)  BY <2>5, <2>6 DEF Renewed, OneChanges
  <2>11. ~ (n + 1 <= k + 2) /\ n + 1 # k + 1 /\ n + 1 \notin {k + 2, k + 3}  BY <1>2, <1>8
  <2>. QED  BY <2>9, <2>10, <2>11 DEF RowsAt
<1>9. QED
  <2>1. \/ n + 1 <= k \/ n + 1 = k + 1 \/ n + 1 = k + 2 \/ n + 1 = k + 3 \/ n + 1 = k + 4
        \/ n + 1 \in k + 5..2 * k + 4
    BY <1>2
  <2>. QED  BY <1>4, <1>5, <1>6, <1>7, <1>8, <2>1

LEMMA RowsRebuild ==
  ASSUME RowsInv, AtomicInv, Rebuild
  PROVE  RowsInv' /\ RowsStep
  <1> DEFINE t == Head(todo).table
             k == ViewCount(t, target)
             made == target.tables[t]
             kept == DOMAIN made \ ColumnsAdded(t, plan)
             ss == ReconstructionSql(t, target, plan)
             N == Len(ss)
  <1>1. phase = "rebuild" /\ UNCHANGED <<target, plan, todo>>  BY DEF Rebuild
  <1>2. work # <<>> /\ Temp \notin DOMAIN db.tables
    BY <1>1 DEF AtomicInv, DatabasesFit, InTransaction
  <1>3. db' = db  BY <1>2 DEF Rebuild, Execute
  <1>4. RowsStep  BY <1>3 DEF RowsStep, DataIsKept
  <1>5. FilledFits(db)'  BY <1>3 DEF RowsInv, FilledFits
  <1>6. PlanIsFresh /\ \A op \in ToSet(todo) : IsFresh(op)
    BY <1>1 DEF RowsInv, Applying, InTransaction, PlanIsFresh
  <1>7. phase' \in {"rebuild", "commit", "rollback"} => PlanIsFresh'
    BY <1>1, <1>3, <1>6 DEF PlanIsFresh, IsFresh, RebuildPhases
  <1>8. phase' \in {"rebuild", "commit", "rollback"}  BY <1>1 DEF Rebuild
  <1>9. IsRebuild(ss, k, t, made, kept)  BY RebuildStatements
  <1>10. k \in Nat /\ N = 2 * k + 4 /\ ss \in Seq(ToSet(ss))  BY ONLY <1>9 DEF IsRebuild
  <1>11. PICK n \in 0..N : stmts = SubSeq(ss, n + 1, N) /\ RowsAt(work[1], n, k, t)
    BY <1>1 DEF RowsInv, CopyGoesOn
  <1>12. t # Temp
    <2>1. /\ todo \in Seq(ToSet(plan)) /\ todo # <<>>
          /\ \A op \in ToSet(plan) : KeepsWanted(op, target.tables)
      BY <1>1 DEF AtomicInv, PlanIsSafe, InTransaction, RebuildPhases
    <2>2. Head(todo) \in ToSet(plan)  BY <2>1, HeadTailProperties
    <2>. QED  BY <2>1, <2>2 DEF KeepsWanted
  <1> HIDE DEF ss, k, made, kept
  <1>13. CASE stmts # <<>> /\ Execute(Head(stmts)) /\ stmts' = Tail(stmts) /\ UNCHANGED phase
    <2> DEFINE st == Head(stmts)
    <2>1. n < N /\ st = ss[n + 1] /\ stmts' = SubSeq(ss, n + 2, N)
      BY <1>10, <1>11, <1>13, SubSeqTail
    <2>2. work' = <<Effect(ss[n + 1], work[1])>>  BY <1>2, <1>13, <2>1 DEF Execute
    <2>3. RowsAt(Effect(ss[n + 1], work[1]), n + 1, k, t)
      <3>1. n \in Nat /\ n + 1 \in 1..2 * k + 4  BY <1>10, <2>1
      <3> HIDE DEF t, N
      <3>. QED  BY <1>2, <1>9, <1>11, <1>12, <3>1, RowsStatement DEF made, kept
    <2>4. PICK e, w, kk, tt, sss :
            e = Effect(ss[n + 1], work[1]) /\ w = n + 1 /\ kk = k /\ tt = t /\ sss = ss
      OBVIOUS
    <2>5. RowsAt(e, w, kk, tt)'  BY <1>1, <1>3, <2>3, <2>4, RowsAtStays
    <2>6. /\ work'[1] = e /\ Head(todo').table = tt /\ ViewCount(tt, target') = kk
          /\ ReconstructionSql(tt, target', plan') = sss
      BY <1>1, <2>2, <2>4 DEF k, ss
    <2>7. w \in 0..Len(sss) /\ stmts' = SubSeq(sss, w + 1, Len(sss))
      <3>1. w \in 0..N /\ w + 1 = n + 2  BY <1>10, <2>1, <2>4
      <3>. QED  BY <2>1, <2>4, <3>1
    <2>8. CopyGoesOn'  BY <2>5, <2>6, <2>7 DEF CopyGoesOn
    <2>9. CopyIsWhole'  BY <1>1, <1>13 DEF CopyIsWhole
    <2>. QED  BY <1>4, <1>5, <1>7, <1>8, <2>8, <2>9 DEF RowsInv
  <1>14. CASE UNCHANGED <<db, work>> /\ phase' = "rollback"
    BY <1>4, <1>5, <1>7, <1>8, <1>14 DEF RowsInv, CopyGoesOn, CopyIsWhole
  <1>15. CASE UNCHANGED <<db, work>> /\ phase' = "commit"
    <2>1. stmts = <<>>  BY <1>1, <1>15 DEF Rebuild
    <2>2. n >= k + 4
      <3>1. SUFFICES ASSUME n < N PROVE FALSE  BY <1>10
      <3>2. \A i \in n + 1..N : ss[i] \in ToSet(ss)  BY <1>10, ElementOfSeq
      <3>3. Len(SubSeq(ss, n + 1, N)) = N - (n + 1) + 1
        BY <1>10, <3>1, <3>2, SubSeqProperties
      <3>4. N - (n + 1) + 1 # 0  BY <1>10, <3>1
      <3>5. Len(stmts) = 0  BY <2>1
      <3>6. Len(stmts) = N - (n + 1) + 1  BY <1>11, <3>3
      <3>. QED  BY <3>4, <3>5, <3>6
    <2>3. OthersSame(work[1], t) /\ Renewed(work[1], t, t)  BY <1>11, <2>2 DEF RowsAt
    <2>4. CopyIsWhole'
      <3>1. PICK d, tt : d = work[1] /\ tt = t  OBVIOUS
      <3>2. OthersSame(d, tt)' /\ Renewed(d, tt, tt)'
        BY <1>1, <1>3, <2>3, <3>1 DEF OthersSame, SameIn, Renewed
      <3>3. work'[1] = d /\ Head(todo').table = tt  BY <1>1, <1>15, <3>1
      <3>. QED  BY <3>2, <3>3 DEF CopyIsWhole
    <2>. QED  BY <1>4, <1>5, <1>7, <1>8, <1>15, <2>4 DEF RowsInv, CopyGoesOn
  <1>. QED  BY <1>1, <1>13, <1>14, <1>15 DEF Rebuild
(* What a rebuild leaves out of its copy is not wanted, or was not there.  *)
LEMMA RowsCommitted ==
  ASSUME RowsInv, AtomicInv, phase = "commit", phase' = "enable_foreign_keys",
         db' = work[1], UNCHANGED <<target, plan, todo>>
  PROVE  RowsInv' /\ RowsStep
  <1> DEFINE t == Head(todo).table
             T == db.tables
             F == db.filled
             d == work[1]
             T2 == d.tables
             F2 == d.filled
             want == target.tables
  <1>1. PlanIsFresh /\ DOMAIN F = DOMAIN T /\ \A u \in DOMAIN T : F[u] \subseteq DOMAIN T[u]
    BY DEF RowsInv, Applying, InTransaction, FilledFits
  <1>2. AllUnambiguous(T, want)  BY <1>1, AmbiguousIs DEF PlanIsFresh
  <1>3. /\ t \in Rebuilt(plan) /\ \A o \in ToSet(todo) : IsFresh(o)
    BY <1>1 DEF PlanIsFresh, RebuildPhases
  <1>4. Head(todo) \in ToSet(todo) /\ \A o \in ToSet(plan) : KeepsWanted(o, want)
    <2>1. /\ todo \in Seq(ToSet(plan)) /\ todo # <<>>
          /\ \A op \in ToSet(plan) : KeepsWanted(op, want)
      BY DEF AtomicInv, PlanIsSafe, InTransaction, RebuildPhases
    <2>2. todo \in Seq(ToSet(todo))  BY <2>1, InOwnSet
    <2>. QED  BY <2>1, <2>2, HeadTailProperties
  <1>5. t \in DOMAIN want
    <2>1. PICK o \in ToSet(plan) : RequiresReconstruction(o) /\ o.table = t
      BY <1>3 DEF Rebuilt
    <2>. QED  BY <1>4, <2>1 DEF KeepsWanted, RequiresReconstruction, PlannedOps
  <1>6. t \in DOMAIN T => ColumnsAdded(t, plan) \cap DOMAIN T[t] = {}
    BY <1>3, <1>4 DEF IsFresh
  <1>7. /\ DOMAIN F2 = DOMAIN T2 /\ DOMAIN T2 = DOMAIN T
        /\ \A u \in DOMAIN T \ {t} : T2[u] = T[u] /\ F2[u] = F[u]
        /\ t \in DOMAIN T2 /\ T2[t] = Declared(want[t])
        /\ t \in DOMAIN T => F2[t] = (DOMAIN want[t] \ ColumnsAdded(t, plan)) \cap F[t]
    BY DEF RowsInv, CopyIsWhole, AtomicInv, CommitIsWhole, OthersSame, SameIn, Renewed
  <1>8. DOMAIN Declared(want[t]) = DOMAIN want[t]  BY DEF Declared
  <1>9. db'.tables = T2 /\ db'.filled = F2  OBVIOUS
  <1> HIDE DEF T, F, T2, F2, want, t
  <1>10. FilledFits(db)'  BY <1>1, <1>7, <1>9, <1>8 DEF FilledFits
  <1>11. PlanIsFresh'
    <2>1. AllUnambiguous(T2, want)
      <3>1. \A old, wanted : Closer(old, old, wanted)  BY DEF Closer
      <3>2. ASSUME NEW u \in DOMAIN T2 \cap DOMAIN want
            PROVE  \/ DOMAIN T2[u] = DOMAIN want[u]
                   \/ u \in DOMAIN T /\ Closer(T[u], T2[u], want[u])
        BY <1>7, <1>8, <3>1
      <3>. QED  BY <1>2, <3>2, CloserIsUnambiguous
    <2>2. ~ Ambiguous(db', target')
      <3>1. AllUnambiguous(db'.tables, target'.tables)  BY <1>9, <2>1 DEF want
      <3>. QED  BY <3>1, AmbiguousIs
    <2>3. Head(todo').table = t /\ plan' = plan  BY DEF t
    <2>4. ASSUME NEW o \in ToSet(todo'), o.table # t PROVE IsFresh(o)'
      <3>1. IsFresh(o)  BY <1>3
      <3>2. o.table \in DOMAIN T2 => o.table \in DOMAIN T /\ T2[o.table] = T[o.table]
        BY <1>7, <2>4
      <3>. QED  BY <1>9, <3>1, <3>2 DEF IsFresh, T
    <2>. QED  BY <1>3, <2>2, <2>3, <2>4 DEF PlanIsFresh
  <1>12. CopyGoesOn' /\ CopyIsWhole'  BY DEF CopyGoesOn, CopyIsWhole
  <1>13. ASSUME NEW u \in DOMAIN T, NEW c \in F[u] PROVE Outlives(T, T2, F2, want, u, c)
    <2>1. CASE u # t  BY <1>7, <2>1 DEF Outlives
    <2>2. CASE u = t /\ c \in DOMAIN want[t]
      <3>1. c \in F2[t]  BY <1>1, <1>6, <1>7, <2>2
      <3>. QED  BY <2>2, <3>1 DEF Outlives
    <2>3. CASE u = t /\ c \notin DOMAIN want[t]
      <3>1. Unambiguous(T[u], want[u])  BY <1>2, <1>5, <2>3 DEF AllUnambiguous
      <3>2. c \in DOMAIN T[u] \ DOMAIN want[u]  BY <1>1, <2>3
      <3>3. c \notin DOMAIN T2[u]  BY <1>7, <1>8, <2>3
      <3>. QED  BY <3>1, <3>2, <3>3 DEF Unambiguous, Outlives
    <2>. QED  BY <2>1, <2>2, <2>3
  <1>14. RowsStep
    BY <1>9, <1>13, RowsStepIs DEF T, F, want
  <1>. QED  BY <1>10, <1>11, <1>12, <1>14 DEF RowsInv

LEMMA RowsCommit ==
  ASSUME RowsInv, AtomicInv, Commit
  PROVE  RowsInv' /\ RowsStep
  <1>1. phase = "commit" /\ UNCHANGED <<target, plan>>  BY DEF Commit, Raises
  <1>2. CASE Raises /\ UNCHANGED db  BY <1>1, <1>2, RowsReturns DEF Raises, Returns
  <1>3. CASE db' = work[1] /\ phase' = "enable_foreign_keys" /\ todo' = todo
    BY <1>1, <1>3, RowsCommitted
  <1>. QED  BY <1>2, <1>3 DEF Commit

LEMMA RowsSeed ==
  ASSUME RowsInv, AtomicInv, SeedRegistry \/ Seed
  PROVE  RowsInv' /\ RowsStep
  <1>1. UNCHANGED <<target, plan>>  BY DEF SeedRegistry, Seed, Raises
  <1>2. Applying => PlanIsFresh  BY DEF RowsInv
  <1>3. CASE SeedRegistry
    <2>1. phase = "apply" /\ phase' = "seed" /\ UNCHANGED <<db, work, todo>>
      BY <1>3 DEF SeedRegistry
    <2>2. Applying' => Applying  BY <2>1 DEF Applying, InTransaction
    <2>. QED  BY <1>1, <1>2, <2>1, <2>2, RowsSame DEF PlanIsFresh, RebuildPhases
  <1>4. CASE Seed /\ phase' = "idle" /\ UNCHANGED <<db, work>>
    BY <1>1, <1>4, RowsReturns
  <1>5. CASE /\ phase = "seed" /\ stmts # <<>> /\ Execute(Head(stmts))
             /\ UNCHANGED <<phase, todo>>
    <2> DEFINE st == Head(stmts)
    <2>1. st.op \in {"clear", "record"}
      BY <1>5, HeadTailProperties DEF AtomicInv, SeedIsHarmless
    <2> HIDE DEF st
    <2>2. TablesAfter(st, db) = db.tables /\ FilledAfter(st, db) = db.filled
      BY <2>1 DEF TablesAfter, FilledAfter
    <2>3. db'.tables = db.tables /\ db'.filled = db.filled /\ (work' = <<>> <=> work = <<>>)
      BY <1>5, <2>2 DEF Execute, Effect, st
    <2>4. Applying' => Applying  BY <1>5, <2>3 DEF Applying, InTransaction
    <2>. QED  BY <1>1, <1>2, <1>5, <2>3, <2>4, RowsSame DEF PlanIsFresh, RebuildPhases
  <1>. QED  BY <1>3, <1>4, <1>5 DEF Seed, Raises, Returns

LEMMA RowsOutside ==
  ASSUME RowsInv, AtomicInv, WriteRows \/ Reconnect
  PROVE  RowsInv' /\ RowsStep
  <1>1. CASE WriteRows
    <2>1. phase = "idle" /\ phase' = "idle"  BY <1>1 DEF WriteRows
    <2>2. /\ db'.tables = db.tables
          /\ db'.filled = [t \in DOMAIN db.tables |-> DOMAIN db.tables[t]]
      BY <1>1 DEF WriteRows, AtomicInv, DatabasesFit, HasParts
    <2>3. FilledFits(db)'  BY <2>2 DEF FilledFits
    <2>4. \A t \in DOMAIN db.tables : \A c \in db.filled[t] : c \in db'.filled[t]
      BY <2>2 DEF RowsInv, FilledFits
    <2>5. RowsStep  BY <2>4 DEF RowsStep, DataIsKept
    <2>. QED  BY <2>1, <2>3, <2>5 DEF RowsInv, Applying, CopyGoesOn, CopyIsWhole
  <1>2. CASE Reconnect
    BY <1>2, RowsReturns DEF Reconnect, Returns
  <1>. QED  BY <1>1, <1>2

LEMMA RowsNext == RowsInv /\ AtomicInv /\ [Next]_vars => RowsInv' /\ [RowsStep]_vars
  <1>. SUFFICES ASSUME RowsInv, AtomicInv, [Next]_vars PROVE RowsInv' /\ [RowsStep]_vars
    OBVIOUS
  <1>1. CASE \E s \in Targets : Migrate(s)
    BY <1>1, RowsMigrate
  <1>2. CASE ApplyInPlace
    BY <1>2, RowsApplyInPlace
  <1>3. CASE PausePush \/ DisableForeignKeys \/ Rollback \/ EnableForeignKeys \/ ResumePush
    BY <1>3, RowsBracket
  <1>4. CASE Begin
    BY <1>4, RowsBegin
  <1>5. CASE Rebuild
    BY <1>5, RowsRebuild
  <1>6. CASE Commit
    BY <1>6, RowsCommit
  <1>7. CASE SeedRegistry \/ Seed
    BY <1>7, RowsSeed
  <1>8. CASE WriteRows \/ Reconnect
    BY <1>8, RowsOutside
  <1>9. CASE UNCHANGED vars
    <2>1. UNCHANGED <<db, work, phase, target, plan, todo, stmts>>  BY <1>9 DEF vars
    <2>2. CopyGoesOn'
      <3>1. \A d, n, k, t : RowsAt(d, n, k, t) => RowsAt(d, n, k, t)'
        BY <2>1 DEF RowsAt, OthersSame, SameIn, Renewed
      <3>. QED  BY <2>1, <3>1 DEF RowsInv, CopyGoesOn
    <2>3. CopyIsWhole'
      BY <2>1 DEF RowsInv, CopyIsWhole, OthersSame, SameIn, Renewed
    <2>4. FilledFits(db)' /\ (Applying' => PlanIsFresh')
      BY <2>1 DEF RowsInv, FilledFits, Applying, InTransaction, PlanIsFresh, IsFresh
    <2>. QED  BY <1>9, <2>2, <2>3, <2>4 DEF RowsInv
  <1>. QED  BY <1>1, <1>2, <1>3, <1>4, <1>5, <1>6, <1>7, <1>8, <1>9 DEF Next

(* The data of a column outlives every statement, rebuild, rename, fault   *)
(* and lost connection (_apply_operations, reconstruction_sql): it goes    *)
(* only with a column the target does not have, when a hint says what      *)
(* became of it or no unhinted column came that may be the old one, or     *)
(* with a table the target does not have.  The columns that may be the old *)
(* one are those written in its type, but for those SQLite writes under    *)
(* another type's name, which are not recognised.  A rebuild copies every  *)
(* column but those the plan adds, and those are not in the table yet; and *)
(* what was unambiguous when it was planned stays so to the last operation.*)
THEOREM RowsDoSurvive == Spec => RowsSurvive
  <1>1. Init => AtomicInv /\ RowsInv  BY AtomicInit, RowsInit
  <1>2. AtomicInv /\ RowsInv /\ [Next]_vars => (AtomicInv /\ RowsInv)' /\ [RowsStep]_vars
    BY AtomicNext, RowsNext
  <1>. QED  BY <1>1, <1>2, PTL DEF Spec, RowsSurvive
=============================================================================
