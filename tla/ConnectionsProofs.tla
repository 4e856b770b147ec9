--------------------------- MODULE ConnectionsProofs ---------------------------
(***************************************************************************)
(* What holds of the pools, the connections and their transactions for     *)
(* every set of handlers and manifests and every bound.                    *)
(***************************************************************************)
EXTENDS Connections, SequenceTheorems, FiniteSetTheorems, TLAPS

(* A driver opens one connection more, and the others are as they were.    *)
LEMMA OpensProperties ==
  ASSUME DatabaseTyped, NEW s \in Selectors \cup {Leased}, Opens(s)
  PROVE  /\ made' \in Seq(Selectors \cup {Leased}) /\ tx' \in Seq(Transactions \cup {None})
         /\ Len(made) \in Nat /\ Len(made') = Len(made) + 1 /\ Len(tx') = Len(made')
         /\ NewConnection \in Connection' /\ NewConnection \notin Connection
         /\ Connection' = Connection \cup {NewConnection}
         /\ made'[NewConnection] = s /\ tx'[NewConnection] = None
         /\ \A c \in Connection : made'[c] = made[c] /\ tx'[c] = tx[c]
         /\ open' = open \cup {NewConnection} /\ UNCHANGED <<committed, aborted, entangled>>
<1>1. /\ made \in Seq(Selectors \cup {Leased}) /\ tx \in Seq(Transactions \cup {None})
      /\ Len(tx) = Len(made) /\ None \in Transactions \cup {None}
      /\ made' = Append(made, s) /\ tx' = Append(tx, None)
      /\ open' = open \cup {NewConnection} /\ UNCHANGED <<committed, aborted, entangled>>
  BY DEF Opens, DatabaseTyped
<1>2. /\ made' \in Seq(Selectors \cup {Leased}) /\ Len(made') = Len(made) + 1
      /\ \A c \in 1..Len(made) : made'[c] = made[c]
      /\ made'[Len(made) + 1] = s /\ Len(made) \in Nat
  BY <1>1, AppendProperties, LenProperties
<1>3. /\ tx' \in Seq(Transactions \cup {None}) /\ Len(tx') = Len(made) + 1
      /\ \A c \in 1..Len(made) : tx'[c] = tx[c]
      /\ tx'[Len(made) + 1] = None
  BY <1>1, AppendProperties, LenProperties
<1>. QED  BY <1>1, <1>2, <1>3 DEF Connection, NewConnection

LEMMA ClosesProperties ==
  ASSUME DatabaseTyped, NEW c, Closes(c)
  PROVE  /\ DatabaseTyped' /\ Connection' = Connection /\ made' = made
         /\ open' = open \ {c} /\ UNCHANGED <<committed, entangled>> /\ aborted' = aborted \ {c}
         /\ \A d \in Connection : tx'[d] = IF d = c THEN None ELSE tx[d]
<1>1. /\ tx \in Seq(Transactions \cup {None}) /\ DOMAIN tx = Connection
      /\ tx' = [tx EXCEPT ![c] = None] /\ UNCHANGED <<made, committed, entangled>>
      /\ open' = open \ {c} /\ aborted' = aborted \ {c}
  BY LenProperties DEF DatabaseTyped, Closes, Connection
<1>2. tx' \in Seq(Transactions \cup {None}) /\ Len(tx') = Len(tx)
  <2>1. CASE c \in DOMAIN tx  BY <1>1, <2>1, ExceptSeq, LenProperties
  <2>2. CASE c \notin DOMAIN tx
    <3>1. tx' = tx  BY <1>1, <2>2
    <3>. QED  BY <1>1, <3>1
  <2>. QED  BY <2>1, <2>2
<1>. QED  BY <1>1, <1>2 DEF DatabaseTyped, Connection

(* A statement on an open connection changes its transaction at most.      *)
LEMMA TransactionSet ==
  ASSUME DatabaseTyped, NEW c \in Connection, NEW t \in Transactions \cup {None},
         tx' = [tx EXCEPT ![c] = t]
  PROVE  /\ tx' \in Seq(Transactions \cup {None}) /\ Len(tx') = Len(tx)
         /\ tx'[c] = t /\ \A d \in Connection \ {c} : tx'[d] = tx[d]
<1>1. tx \in Seq(Transactions \cup {None}) /\ DOMAIN tx = 1..Len(tx) /\ DOMAIN tx = Connection
  BY LenProperties DEF DatabaseTyped, Connection
<1>2. tx' \in Seq(Transactions \cup {None}) /\ Len(tx') = Len(tx)
  BY <1>1, ExceptSeq
<1>. QED  BY <1>1, <1>2

LEMMA ExecuteKeepsTypes ==
  ASSUME DatabaseTyped, NEW c, NEW write \in Nat \X Nat,
         Execute(c, write), UNCHANGED <<made, open>>, entangled' \subseteq Nat
  PROVE  DatabaseTyped'
<1>1. c \in Connection  BY DEF Execute, DatabaseTyped
<1>2. tx \in Seq(Transactions \cup {None}) /\ DOMAIN tx = Connection
  BY LenProperties DEF DatabaseTyped, Connection
<1>3. CASE tx[c] = None  BY <1>3 DEF Execute, DatabaseTyped, Connection
<1>4. CASE tx[c] # None
  <2>1. tx[c] \in Transactions  BY <1>1, <1>2, <1>4, ElementOfSeq DEF Connection
  <2>2. [owner |-> tx[c].owner, writes |-> tx[c].writes \cup {write}] \in Transactions
    BY <2>1 DEF Transactions
  <2>. QED  BY <1>1, <1>4, <2>2, TransactionSet DEF Execute, DatabaseTyped, Connection
<1>. QED  BY <1>3, <1>4

LEMMA EndsTransactionKeepsTypes ==
  ASSUME DatabaseTyped, NEW c, RollsBack(c) \/ Commits(c), UNCHANGED <<made, open>>,
         entangled' \subseteq Nat
  PROVE  DatabaseTyped'
<1>1. c \in Connection  BY DEF RollsBack, Commits, DatabaseTyped
<1>2. tx[c] \in Transactions \cup {None}
  BY <1>1, ElementOfSeq, LenProperties DEF DatabaseTyped, Connection
<1>3. committed' \subseteq Nat \X Nat  BY <1>2 DEF RollsBack, Commits, DatabaseTyped, Transactions
<1>. QED  BY <1>1, <1>3, TransactionSet DEF RollsBack, Commits, DatabaseTyped, Connection

(* The jobs that meet in a transaction are numbers.                        *)
LEMMA EntangledTyped ==
  ASSUME TypeOK, NEW p \in Handlers, held[p] \in open
  PROVE  /\ tx[held[p]] = None \/ tx[held[p]].owner \in Nat
         /\ Entangles(p) => entangled' \subseteq Nat
<1>1. /\ held[p] \in Connection /\ job[p] \in Nat /\ entangled \subseteq Nat
  BY ConnectionsAssumption DEF TypeOK, DatabaseTyped, HandlersTyped, JobsTyped
<1>2. tx[held[p]] \in Transactions \cup {None}
  BY <1>1, ElementOfSeq, LenProperties DEF TypeOK, DatabaseTyped, Connection
<1>. QED  BY <1>1, <1>2 DEF Entangles, Transactions

LEMMA DatabaseStep ==
  ASSUME TypeOK, [Next]_vars
  PROVE  DatabaseTyped'
<1>0. DatabaseTyped  BY DEF TypeOK
<1>. USE DEF database
<1>1. ASSUME UNCHANGED <<made, open, tx, committed, aborted, entangled>> PROVE DatabaseTyped'
  BY <1>0, <1>1 DEF DatabaseTyped, Connection
<1>2. CASE PoolConnects
  BY <1>0, <1>2, OpensProperties DEF PoolConnects, DatabaseTyped
<1>3. ASSUME NEW p \in Handlers, ConnectReturns(p) PROVE DatabaseTyped'
  <2>1. ResolvePoolKey(source[p]) \in Selectors  BY <1>3 DEF ConnectReturns, TypeOK, HandlersTyped
  <2>. QED  BY <1>0, <1>3, <2>1, OpensProperties DEF ConnectReturns, DatabaseTyped
<1>4. CASE OpenedCloses \/ PoolCloses \/ \E key \in Reaped : ReapCloses(key) \/ ReapRaises(key)
  BY <1>0, <1>1, <1>4, ClosesProperties DEF OpenedCloses, PoolCloses, ReapCloses, ReapRaises
<1>5. ASSUME NEW p \in Handlers,
             \/ Begin(p) \/ WriteSucceeds(p) \/ WriteRaises(p) \/ Rollback(p) \/ RollbackRaises(p)
             \/ Commit(p) \/ CommitRaises(p) \/ ExecuteMany(p) \/ ExecuteRaises(p)
      PROVE  DatabaseTyped'
  <2>1. /\ job[p] \in Nat /\ step[p] \in Nat
        /\ held[p] \in open => held[p] \in Connection
    BY <1>0, ConnectionsAssumption DEF TypeOK, HandlersTyped, JobsTyped, DatabaseTyped
  <2>2. CASE Begin(p)
    <3>1. [owner |-> job[p], writes |-> {}] \in Transactions  BY <2>1 DEF Transactions
    <3>2. /\ held[p] \in Connection /\ entangled' \subseteq Nat
          /\ UNCHANGED <<made, open, committed, aborted>>
      BY <2>1, <2>2, EntangledTyped DEF Begin
    <3>. QED  BY <1>0, <2>2, <3>1, <3>2, TransactionSet DEF Begin, DatabaseTyped, Connection
  <2>3. CASE WriteSucceeds(p) \/ ExecuteMany(p)
    <3>1. held[p] \in open /\ entangled' \subseteq Nat /\ UNCHANGED <<made, open>>
      BY <1>0, <2>3, EntangledTyped DEF WriteSucceeds, ExecuteMany, Execute, DatabaseTyped
    <3>. QED  BY <1>0, <2>1, <2>3, <3>1, ExecuteKeepsTypes DEF WriteSucceeds, ExecuteMany
  <2>4. CASE \/ Rollback(p) \/ RollbackRaises(p) \/ Commit(p) \/ CommitRaises(p)
    <3>1. \/ UNCHANGED <<made, open, database>>
          \/ /\ RollsBack(held[p]) \/ Commits(held[p])
             /\ Entangles(p) /\ UNCHANGED <<made, open>> /\ held[p] \in open
      BY <2>4 DEF Rollback, RollbackRaises, Commit, CommitRaises, RollsBack, Commits
    <3>. QED  BY <1>0, <1>1, <3>1, EntangledTyped, EndsTransactionKeepsTypes
  <2>5. CASE WriteRaises(p) \/ ExecuteRaises(p)
    <3>1. \/ UNCHANGED <<made, open, database>>
          \/ /\ Aborts(held[p]) /\ UNCHANGED <<made, open, tx, committed>>
             /\ Entangles(p) \/ entangled' = entangled \cup {tx[held[p]].owner}
      BY <2>5 DEF WriteRaises, ExecuteRaises
    <3>2. CASE Aborts(held[p]) /\ UNCHANGED <<made, open, tx, committed>>
               /\ (Entangles(p) \/ entangled' = entangled \cup {tx[held[p]].owner})
      <4>1. held[p] \in open /\ tx[held[p]] # None /\ aborted' = aborted \cup {held[p]}
        BY <3>2 DEF Aborts
      <4>2. tx[held[p]].owner \in Nat /\ (Entangles(p) => entangled' \subseteq Nat)
        BY <4>1, EntangledTyped
      <4>3. entangled' \subseteq Nat  BY <1>0, <3>2, <4>2 DEF DatabaseTyped
      <4>. QED  BY <1>0, <2>1, <3>2, <4>1, <4>3 DEF DatabaseTyped, Connection
    <3>. QED  BY <1>1, <3>1, <3>2
  <2>. QED  BY <1>5, <2>2, <2>3, <2>4, <2>5
<1>6. ASSUME NEW p \in Handlers,
             \/ Starts(p) \/ ConnectRaises(p) \/ LeaseRefused(p) \/ Release(p) \/ BeginRaises(p)
             \/ Cancelled(p)
      PROVE  DatabaseTyped'
  BY <1>1, <1>6
  DEF Starts, LeaseConnection, LeaseExhausted, UnknownDatabase, CachedPool, FirstContact,
      ConnectRaises, LeaseRefused, Release, BeginRaises, Cancelled
<1>7. CASE OpenedCloseRaises \/ ReapIdle \/ ClosePool \/ Tick \/ UNCHANGED vars
             \/ \E code \in {"unresolvable_dsn", "credential_rejected"} : AttemptRaises(code)
  BY <1>1, <1>7 DEF OpenedCloseRaises, ReapIdle, ClosePool, Tick, AttemptRaises, vars
<1>. QED  BY <1>2, <1>3, <1>4, <1>5, <1>6, <1>7 DEF Next, OpenPool, Proceeds

-----------------------------------------------------------------------------
(* Numbers only grow: what had its type keeps it.                          *)
Grows ==
  /\ Connection \subseteq Connection' /\ jobs \in Nat /\ now \in Nat
  /\ jobs' \in Nat /\ jobs <= jobs' /\ now' \in Nat /\ now <= now'

(* A call that ends leaves its handler idle, or with a lease to release.   *)
LEMMA EndsProperties ==
  ASSUME HandlersTyped, NEW p \in Handlers, NEW a, Ends(p, a)
  PROVE  /\ \A q \in Handlers \ {p} :
              /\ pc'[q] = pc[q] /\ job'[q] = job[q] /\ source'[q] = source[q] /\ held'[q] = held[q]
              /\ since'[q] = since[q] /\ given'[q] = given[q] /\ step'[q] = step[q]
         /\ \/ /\ pc'[p] = "release" /\ source[p] = Leased /\ held[p] # None
               /\ UNCHANGED local
            \/ /\ pc'[p] = "idle" /\ ~(source[p] = Leased /\ held[p] # None)
               /\ job'[p] = 0 /\ source'[p] = None /\ held'[p] = None
               /\ since'[p] = 0 /\ step'[p] = 0
<1>1. CASE source[p] = Leased /\ held[p] # None
  BY <1>1 DEF Ends, local, HandlersTyped
<1>2. CASE ~(source[p] = Leased /\ held[p] # None)
  BY <1>2 DEF Ends, Forgets, HandlersTyped
<1>. QED  BY <1>1, <1>2

LEMMA EndsKeepsTypes ==
  ASSUME HandlersTyped, NEW p \in Handlers, NEW a, Ends(p, a), Grows,
         pool # None => pool' # None
  PROVE  HandlersTyped'
<1>1. CASE source[p] = Leased /\ held[p] # None
  BY <1>1 DEF Ends, local, HandlersTyped, InTransaction, Grows
<1>2. CASE ~(source[p] = Leased /\ held[p] # None)
  <2>1. /\ pc' = [pc EXCEPT ![p] = "idle"] /\ job' = [job EXCEPT ![p] = 0]
        /\ source' = [source EXCEPT ![p] = None] /\ held' = [held EXCEPT ![p] = None]
        /\ since' = [since EXCEPT ![p] = 0] /\ given' = [given EXCEPT ![p] = None]
        /\ step' = [step EXCEPT ![p] = 0]
    BY <1>2 DEF Ends, Forgets
  <2>. QED  BY <2>1, ConnectionsAssumption, NoneAssumption DEF HandlersTyped, InTransaction, Grows
<1>. QED  BY <1>1, <1>2

LEMMA NumbersGrow ==
  ASSUME TypeOK, [Next]_vars
  PROVE  Grows
<1>0. /\ Connection = 1..Len(made) /\ Len(made) \in Nat /\ jobs \in Nat /\ now \in Nat
      /\ \A p \in Handlers : pc[p] = "connecting" => ResolvePoolKey(source[p]) \in Selectors
  BY LenProperties, ConnectionsAssumption
  DEF TypeOK, DatabaseTyped, JobsTyped, HandlersTyped, Connection
<1>1. ASSUME UNCHANGED <<made, jobs, now>> PROVE Grows
  BY <1>0, <1>1 DEF Grows, Connection
<1>2. ASSUME UNCHANGED <<jobs, now>>, NEW s \in Selectors \cup {Leased}, Opens(s) PROVE Grows
  BY <1>0, <1>2, OpensProperties DEF TypeOK, Grows
<1>3. CASE OpenPool \/ ReapIdle \/ ClosePool \/ PoolCloses \/ UNCHANGED vars
             \/ \E key \in Reaped : ReapCloses(key) \/ ReapRaises(key)
  BY <1>1, <1>2, <1>3
  DEF OpenPool, PoolConnects, OpenedCloses, OpenedCloseRaises, AttemptRaises, ReapIdle, ClosePool,
      PoolCloses, ReapCloses, ReapRaises, Closes, vars
<1>4. CASE Tick  BY <1>0, <1>4 DEF Tick, Grows, Connection
<1>5. ASSUME NEW p \in Handlers, Starts(p) PROVE Grows
  BY <1>0, <1>5
  DEF Starts, LeaseConnection, LeaseExhausted, UnknownDatabase, CachedPool, FirstContact, Requested,
      Grows, Connection
<1>6. ASSUME NEW p \in Handlers, Proceeds(p) PROVE Grows
  BY <1>0, <1>1, <1>2, <1>6
  DEF Proceeds, ConnectReturns, ConnectRaises, LeaseRefused, Release, Begin, BeginRaises, WriteSucceeds,
      WriteRaises, Rollback, RollbackRaises, Commit, CommitRaises, Cancelled, ExecuteMany,
      ExecuteRaises
<1>. QED  BY <1>3, <1>4, <1>5, <1>6 DEF Next

(* What pool.py's operations return is a registry, or a pool, again.       *)
LEMMA RegistryOperations ==
  ASSUME NEW r, IsRegistry(r), NEW t \in Nat, NEW th
  PROVE  /\ \A key \in Keys, entry \in Entries : IsRegistry(WithEntry(r, key, entry))
         /\ \A key \in DOMAIN r : /\ key \in Keys /\ r[key] \in Entries
                                  /\ Touched(r[key], t) \in Entries
         /\ IsRegistry(Kept(r, t, th))
         /\ Expired(r, t, th) \subseteq DOMAIN r
<1>1. PICK K \in SUBSET Keys : r \in [K -> Entries]  BY DEF IsRegistry, Registries
<1>2. ASSUME NEW key \in Keys, NEW entry \in Entries PROVE IsRegistry(WithEntry(r, key, entry))
  <2>1. WithEntry(r, key, entry) \in [K \cup {key} -> Entries]  BY <1>1 DEF WithEntry
  <2>. QED  BY <2>1 DEF IsRegistry, Registries
<1>3. IsRegistry(Kept(r, t, th))
  <2>1. Kept(r, t, th) \in [K \ Expired(r, t, th) -> Entries]  BY <1>1 DEF Kept
  <2>. QED  BY <2>1 DEF IsRegistry, Registries
<1>4. ASSUME NEW key \in DOMAIN r
      PROVE  key \in Keys /\ r[key] \in Entries /\ Touched(r[key], t) \in Entries
  BY <1>1 DEF Touched, Entries
<1>. QED  BY <1>2, <1>3, <1>4 DEF Expired

LEMMA PoolOperations ==
  ASSUME NEW q \in Pools
  PROVE  /\ ~Exhausted(q) => Acquired(q) \in Pools /\ Head(q.idle) \in Nat
         /\ \A c \in Nat : ReleaseConnection(q, c) \in Pools
<1>1. q.size \in Nat /\ q.idle \in Seq(Nat) /\ q.active \in Int  BY DEF Pools
<1>2. ASSUME ~Exhausted(q) PROVE Acquired(q) \in Pools /\ Head(q.idle) \in Nat
  <2>1. Tail(q.idle) \in Seq(Nat) /\ Head(q.idle) \in Nat
    BY <1>1, <1>2, HeadTailProperties DEF Exhausted
  <2>. QED  BY <1>1, <2>1 DEF Acquired, Pools
<1>3. ASSUME NEW c \in Nat PROVE ReleaseConnection(q, c) \in Pools
  <2>1. Append(q.idle, c) \in Seq(Nat)  BY <1>1, AppendProperties
  <2>. QED  BY <1>1, <2>1 DEF ReleaseConnection, Pools
<1>. QED  BY <1>2, <1>3

(* The pool stays a pool, and once there is one it stays.                  *)
LEMMA PoolsStep ==
  ASSUME TypeOK, [Next]_vars
  PROVE  PoolsTyped' /\ (pool # None => pool' # None)
<1>0. /\ DatabaseTyped /\ PoolsTyped /\ HandlersTyped /\ now \in Nat /\ Connection \subseteq Connection'
      /\ Connection \subseteq Nat /\ None \notin Pools /\ Retries \in Nat
  BY NumbersGrow, ConnectionsAssumption, NoneAssumption DEF TypeOK, JobsTyped, Grows, Connection
<1>. DEFINE Openings(C) == [phase : {"none", "connecting", "open", "closing", "failed", "raised"},
                            opened : Seq(C), attempt : 0..Retries]
<1>1. Seq(Connection) \subseteq Seq(Connection') /\ Openings(Connection) \subseteq Openings(Connection')
  <2>1. ASSUME NEW s \in Seq(Connection) PROVE s \in Seq(Connection')
    BY <1>0, <2>1, SeqMonotonic
  <2>. QED  BY <2>1
<1>. USE DEF pools
<1>2. ASSUME UNCHANGED <<registry, pool, size, opening, reaping, closing, shut, mishaps>>
      PROVE  PoolsTyped' /\ (pool # None => pool' # None)
  BY <1>0, <1>1, <1>2 DEF PoolsTyped
<1>3. CASE PoolConnects
  <2>1. /\ opening \in Openings(Connection) /\ opening.opened \in Seq(Connection')
        /\ NewConnection \in Connection' /\ NewConnection \in Nat
    BY <1>0, <1>1, <1>3, OpensProperties DEF PoolConnects, PoolsTyped, NewConnection
  <2>2. Append(opening.opened, NewConnection) \in Seq(Connection') \cap Seq(Nat)
    <3>1. opening.opened \in Seq(Connection') /\ opening.opened \in Seq(Nat)
      BY <1>0, <1>1, <2>1, SeqMonotonic
    <3>. QED  BY <2>1, <3>1, AppendProperties
  <2>3. /\ Opening("open", << >>, 0) \in Openings(Connection')
        /\ Opening("connecting", Append(opening.opened, NewConnection), 0) \in Openings(Connection')
    BY <1>0, <2>2, EmptySeq DEF Opening
  <2>4. NewPool(Append(opening.opened, NewConnection)) \in Pools
    BY <2>2, LenProperties DEF NewPool, Pools
  <2>. QED  BY <1>0, <1>3, <2>3, <2>4 DEF PoolConnects, KeepPool, PoolsTyped, Opening
<1>4. CASE \E code \in {"unresolvable_dsn", "credential_rejected"} : AttemptRaises(code)
  BY <1>0, <1>1, <1>4 DEF AttemptRaises, ShouldRetry, PoolsTyped, Opening
<1>5. CASE OpenedCloses
  <2>1. opening.opened # << >> /\ opening.opened \in Seq(Connection)
    BY <1>0, <1>5 DEF OpenedCloses, PoolsTyped
  <2>2. Tail(opening.opened) \in Seq(Connection')  BY <1>1, <2>1, HeadTailProperties
  <2>. QED  BY <1>0, <1>1, <1>5, <2>2 DEF OpenedCloses, PoolsTyped, Opening
<1>6. CASE OpenedCloseRaises  BY <1>0, <1>1, <1>6 DEF OpenedCloseRaises, PoolsTyped, Opening
<1>7. CASE ReapIdle
  <2>1. PICK K \in SUBSET Keys : registry \in Registries(K)  BY <1>0 DEF PoolsTyped, IsRegistry
  <2>2. Expired(registry, now, Threshold) \subseteq K  BY <2>1 DEF Expired, Registries
  <2>3. reaping' \in Reaps(K)  BY <1>0, <1>7, <2>1, <2>2 DEF ReapIdle, Reaps
  <2>. QED  BY <1>0, <1>1, <1>7, <2>3 DEF ReapIdle, PoolsTyped
<1>16. ASSUME NEW key \in Reaped, ReapCloses(key) \/ ReapRaises(key)
       PROVE  PoolsTyped' /\ (pool # None => pool' # None)
  <2>1. PICK K \in SUBSET Keys : reaping \in Reaps(K)  BY <1>0, <1>16 DEF PoolsTyped, Reaped
  <2>2. /\ reaping.given \in Registries(K) /\ reaping.now \in Nat
        /\ StillToClose(reaping.left \ {key}) \in Reaps(K)
    BY <2>1 DEF Reaps, StillToClose
  <2>3. IsRegistry(Kept(reaping.given, reaping.now, Threshold))
    BY <2>2, RegistryOperations DEF IsRegistry
  <2>. QED
    BY <1>0, <1>1, <1>16, <2>2, <2>3 DEF ReapCloses, ReapRaises, KeepRegistry, PoolsTyped
<1>8. CASE ClosePool
  <2>1. [given |-> pool, left |-> pool.idle] \in [given : Pools, left : Seq(Nat)]
    BY <1>0, <1>8 DEF ClosePool, PoolsTyped, Pools
  <2>. QED  BY <1>0, <1>1, <1>8, <2>1 DEF ClosePool, PoolsTyped
<1>9. CASE PoolCloses
  <2>1. closing \in [given : Pools, left : Seq(Nat)]  BY <1>0, <1>9 DEF PoolCloses, PoolsTyped
  <2>2. closing.left # << >> => Tail(closing.left) \in Seq(Nat)  BY <2>1, HeadTailProperties
  <2>3. CASE closing.left # << >>
    <3>1. [given |-> closing.given, left |-> Tail(closing.left)] \in [given : Pools, left : Seq(Nat)]
      BY <2>1, <2>2, <2>3
    <3>. QED  BY <1>0, <1>1, <1>9, <2>3, <3>1 DEF PoolCloses, PoolsTyped
  <2>4. CASE closing.left = << >>
    BY <1>0, <1>1, <1>9, <2>1, <2>4 DEF PoolCloses, KeepPool, PoolsTyped
  <2>. QED  BY <2>3, <2>4
<1>10. ASSUME NEW p \in Handlers, NEW k \in Kinds, NEW manifest \in Manifests, CachedPool(p, manifest, k)
       PROVE  PoolsTyped' /\ (pool # None => pool' # None)
  <2>1. ResolvePoolKey(manifest) \in Selectors /\ PoolKey(ResolvePoolKey(manifest)) \in Keys
    BY <1>10 DEF CachedPool, Selectors, Keys
  <2>. QED
    BY <1>0, <1>1, <1>10, <2>1, RegistryOperations DEF CachedPool, KeepRegistry, PoolsTyped
<1>11. ASSUME NEW p \in Handlers, ConnectReturns(p)
       PROVE  PoolsTyped' /\ (pool # None => pool' # None)
  <2>1. /\ ResolvePoolKey(source[p]) \in Selectors /\ IsRegistry(given[p])
        /\ since[p] \in Nat /\ NewConnection \in Nat
    BY <1>0, <1>11, OpensProperties
    DEF ConnectReturns, HandlersTyped, NewConnection, DatabaseTyped
  <2>2. /\ PoolKey(ResolvePoolKey(source[p])) \in Keys
        /\ [conn |-> NewConnection, lifecycle |-> ResolvePoolKey(source[p]).lifecycle,
            last_used |-> since[p]] \in Entries
    BY <2>1 DEF Keys, Entries
  <2>. QED
    BY <1>0, <1>1, <1>11, <2>1, <2>2, RegistryOperations DEF ConnectReturns, KeepRegistry, PoolsTyped
<1>12. ASSUME NEW p \in Handlers, NEW k \in Kinds, LeaseConnection(p, k)
       PROVE  PoolsTyped' /\ (pool # None => pool' # None)
  <2>1. Acquired(pool) \in Pools  BY <1>0, <1>12, PoolOperations DEF LeaseConnection, PoolsTyped
  <2>. QED  BY <1>0, <1>1, <1>12, <2>1 DEF LeaseConnection, KeepPool, PoolsTyped
<1>13. ASSUME NEW p \in Handlers, LeaseRefused(p) \/ Release(p)
       PROVE  PoolsTyped' /\ (pool # None => pool' # None)
  <2>1. CASE LeaseRefused(p)
    BY <1>0, <1>1, <2>1 DEF LeaseRefused, KeepPool, HandlersTyped, PoolsTyped
  <2>2. CASE Release(p)
    <3>1. pool \in Pools /\ held[p] \in Nat
      BY <1>0, <2>2 DEF Release, HandlersTyped, PoolsTyped
    <3>2. ReleaseConnection(pool, held[p]) \in Pools  BY <3>1, PoolOperations
    <3>3. pool' \in Pools /\ pool' # None  BY <1>0, <2>2, <3>2 DEF Release, KeepPool
    <3>4. mishaps' \subseteq {"registry", "pool", "reap"}
      BY <1>0, <2>2 DEF Release, KeepPool, PoolsTyped
    <3>5. UNCHANGED <<registry, size, opening, reaping, closing, shut>>  BY <2>2 DEF Release
    <3>. QED  BY <1>0, <1>1, <3>3, <3>4, <3>5 DEF PoolsTyped
  <2>. QED  BY <1>13, <2>1, <2>2
<1>14. ASSUME NEW p \in Handlers,
              \/ ConnectRaises(p) \/ Begin(p) \/ BeginRaises(p) \/ WriteSucceeds(p) \/ WriteRaises(p)
              \/ Rollback(p) \/ RollbackRaises(p) \/ Commit(p) \/ CommitRaises(p)
              \/ Cancelled(p) \/ ExecuteMany(p) \/ ExecuteRaises(p)
              \/ \E k \in Kinds : \/ LeaseExhausted(p, k)
                                  \/ \E manifest \in Manifests :
                                       UnknownDatabase(p, manifest, k) \/ FirstContact(p, manifest, k)
       PROVE  PoolsTyped' /\ (pool # None => pool' # None)
  BY <1>2, <1>14
  DEF ConnectRaises, Begin, BeginRaises, WriteSucceeds, WriteRaises, Rollback, RollbackRaises, Commit,
      CommitRaises, Cancelled, ExecuteMany, ExecuteRaises, LeaseExhausted, UnknownDatabase, FirstContact
<1>15. CASE Tick \/ UNCHANGED vars  BY <1>2, <1>15 DEF Tick, vars
<1>. QED
  BY <1>3, <1>4, <1>5, <1>6, <1>7, <1>8, <1>9, <1>10, <1>11, <1>12, <1>13, <1>14, <1>15,
     <1>16
  DEF Next, OpenPool, Starts, Proceeds

LEMMA HandlersStep ==
  ASSUME TypeOK, [Next]_vars
  PROVE  HandlersTyped'
<1>0. /\ DatabaseTyped /\ PoolsTyped /\ HandlersTyped /\ JobsTyped /\ Grows
      /\ (pool # None => pool' # None) /\ open \subseteq Connection
      /\ IsRegistry(registry) /\ pool \in Pools \cup {None} /\ None \notin Pools
      /\ None \notin Connection /\ None # Leased /\ None \notin Manifests /\ Leased \notin Manifests
      /\ Writes \in Nat /\ MaxJobs \in Nat
  <2>1. None \notin Connection  BY LenProperties, NoneAssumption DEF TypeOK, DatabaseTyped, Connection
  <2>2. Grows /\ (pool # None => pool' # None)  BY NumbersGrow, PoolsStep
  <2>. QED
    BY <2>1, <2>2, NoneAssumption, ConnectionsAssumption DEF TypeOK, DatabaseTyped, PoolsTyped
<1>1. ASSUME UNCHANGED <<pc, local>> PROVE HandlersTyped'
  BY <1>0, <1>1 DEF HandlersTyped, InTransaction, Grows, local
<1>2. ASSUME NEW p \in Handlers, NEW a, Ends(p, a) PROVE HandlersTyped'
  BY <1>0, <1>2, EndsKeepsTypes
<1>3. CASE OpenPool \/ ReapIdle \/ ClosePool \/ PoolCloses \/ Tick \/ UNCHANGED vars
             \/ \E key \in Reaped : ReapCloses(key) \/ ReapRaises(key)
  BY <1>1, <1>3
  DEF OpenPool, PoolConnects, OpenedCloses, OpenedCloseRaises, AttemptRaises, ReapIdle, ClosePool,
      PoolCloses, Tick, ReapCloses, ReapRaises, vars
<1>4. ASSUME NEW p \in Handlers, NEW k \in Kinds, NEW manifest \in Manifests,
             \/ UnknownDatabase(p, manifest, k) \/ CachedPool(p, manifest, k) \/ FirstContact(p, manifest, k)
      PROVE  HandlersTyped'
  <2>1. CASE UnknownDatabase(p, manifest, k)  BY <1>1, <2>1 DEF UnknownDatabase
  <2>2. CASE CachedPool(p, manifest, k)
    <3>1. registry[PoolKey(ResolvePoolKey(manifest))].conn \in Nat
      BY <1>0, <2>2, RegistryOperations DEF CachedPool, Entries, JobsTyped
    <3>. QED
      BY <1>0, <2>2, <3>1 DEF CachedPool, Requested, FirstStep, HandlersTyped, InTransaction, JobsTyped, Grows
  <2>3. CASE FirstContact(p, manifest, k)
    <3>1. ResolvePoolKey(manifest) \in Selectors  BY <2>3 DEF FirstContact, Selectors
    <3>. QED  BY <1>0, <2>3, <3>1 DEF FirstContact, Requested, HandlersTyped, InTransaction, JobsTyped, Grows
  <2>. QED  BY <1>4, <2>1, <2>2, <2>3
<1>5. ASSUME NEW p \in Handlers, NEW k \in Kinds, LeaseConnection(p, k) \/ LeaseExhausted(p, k)
      PROVE  HandlersTyped'
  <2>1. CASE LeaseConnection(p, k)
    <3>1. Head(pool.idle) \in Nat  BY <1>0, <2>1, PoolOperations DEF LeaseConnection
    <3>. QED
      BY <1>0, <2>1, <3>1 DEF LeaseConnection, Requested, FirstStep, HandlersTyped, InTransaction, JobsTyped, Grows
  <2>2. CASE LeaseExhausted(p, k)
    BY <1>0, <2>2 DEF LeaseExhausted, Requested, HandlersTyped, InTransaction, JobsTyped, Grows
  <2>. QED  BY <1>5, <2>1, <2>2
<1>6. ASSUME NEW p \in Handlers, ConnectReturns(p) PROVE HandlersTyped'
  <2>1. NewConnection \in Nat
    BY <1>0, <1>6, OpensProperties DEF ConnectReturns, HandlersTyped, NewConnection
  <2>. QED  BY <1>0, <1>6, <2>1 DEF ConnectReturns, FirstStep, HandlersTyped, InTransaction, Grows
<1>7. ASSUME NEW p \in Handlers, Release(p) PROVE HandlersTyped'
  BY <1>0, <1>7 DEF Release, Forgets, HandlersTyped, InTransaction, Grows
<1>8. ASSUME NEW p \in Handlers, Begin(p) \/ WriteSucceeds(p) \/ WriteRaises(p) PROVE HandlersTyped'
  BY <1>0, <1>8 DEF Begin, WriteSucceeds, WriteRaises, local, HandlersTyped, InTransaction, Grows
<1>9. ASSUME NEW p \in Handlers,
             \/ ConnectRaises(p) \/ LeaseRefused(p) \/ BeginRaises(p) \/ Rollback(p)
             \/ RollbackRaises(p) \/ Commit(p) \/ CommitRaises(p) \/ Cancelled(p)
             \/ ExecuteMany(p) \/ ExecuteRaises(p)
      PROVE  HandlersTyped'
  BY <1>2, <1>9
  DEF ConnectRaises, LeaseRefused, BeginRaises, Rollback, RollbackRaises, Commit, CommitRaises,
      Cancelled, ExecuteMany, ExecuteRaises
<1>. QED
  BY <1>3, <1>4, <1>5, <1>6, <1>7, <1>8, <1>9 DEF Next, Starts, Proceeds

LEMMA JobsStep ==
  ASSUME TypeOK, [Next]_vars
  PROVE  JobsTyped'
<1>0. /\ DatabaseTyped /\ HandlersTyped /\ JobsTyped /\ MaxNow \in Nat /\ MaxJobs \in Nat
      /\ tx \in Seq(Transactions \cup {None}) /\ open \subseteq 1..Len(tx)
  BY ConnectionsAssumption DEF TypeOK, DatabaseTyped, Connection
<1>1. ASSUME UNCHANGED <<now, jobs, kind, answer, joined>> PROVE JobsTyped'
  BY <1>0, <1>1 DEF JobsTyped
<1>2. ASSUME NEW p \in Handlers, NEW a \in Answers, Ends(p, a), UNCHANGED <<now, jobs, kind, joined>>
      PROVE  JobsTyped'
  BY <1>0, <1>2 DEF Ends, JobsTyped
<1>3. CASE OpenPool \/ ReapIdle \/ ClosePool \/ PoolCloses \/ UNCHANGED vars
             \/ \E key \in Reaped : ReapCloses(key) \/ ReapRaises(key)
  BY <1>1, <1>3
  DEF OpenPool, PoolConnects, OpenedCloses, OpenedCloseRaises, AttemptRaises, ReapIdle, ClosePool,
      PoolCloses, ReapCloses, ReapRaises, vars
<1>4. CASE Tick  BY <1>0, <1>4 DEF Tick, JobsTyped
<1>5. ASSUME NEW p \in Handlers, Starts(p) PROVE JobsTyped'
  <2>1. PICK k \in Kinds :
          /\ jobs < MaxJobs /\ jobs' = jobs + 1 /\ kind' = [kind EXCEPT ![jobs'] = k]
          /\ answer' = answer \/ answer' = [answer EXCEPT ![jobs'] = "unknown_database"]
          /\ UNCHANGED <<now, joined>>
    BY <1>5
    DEF Starts, LeaseConnection, LeaseExhausted, UnknownDatabase, CachedPool, FirstContact, Requested
  <2>2. answer' \in [Jobs -> Answers \cup {None}]  BY <1>0, <2>1 DEF JobsTyped, Answers
  <2>3. kind' \in [Jobs -> Kinds \cup {None}]  BY <1>0, <2>1 DEF JobsTyped
  <2>. QED  BY <1>0, <2>1, <2>2, <2>3 DEF JobsTyped
<1>6. ASSUME NEW p \in Handlers,
             \/ ConnectReturns(p) \/ Release(p) \/ Begin(p) \/ WriteSucceeds(p) \/ WriteRaises(p)
      PROVE  JobsTyped'
  BY <1>1, <1>6 DEF ConnectReturns, Release, Begin, WriteSucceeds, WriteRaises
<1>7. ASSUME NEW p \in Handlers,
             \/ ConnectRaises(p) \/ LeaseRefused(p) \/ BeginRaises(p) \/ Rollback(p)
             \/ RollbackRaises(p) \/ Commit(p) \/ CommitRaises(p) \/ Cancelled(p)
             \/ ExecuteRaises(p)
      PROVE  JobsTyped'
  <2>1. \E a \in Answers : Ends(p, a) /\ UNCHANGED <<now, jobs, kind, joined>>
    BY <1>7
    DEF ConnectRaises, LeaseRefused, BeginRaises, Rollback, RollbackRaises, Commit, CommitRaises,
        Cancelled, ExecuteRaises, Answers
  <2>. QED  BY <1>2, <2>1
<1>8. ASSUME NEW p \in Handlers, ExecuteMany(p) PROVE JobsTyped'
  <2>1. tx[held[p]] # None => tx[held[p]].owner \in Nat
    BY <1>0, <1>8, ElementOfSeq DEF ExecuteMany, Execute, Transactions
  <2>. QED  BY <1>0, <1>8, <2>1 DEF ExecuteMany, Ends, JobsTyped, Answers
<1>. QED  BY <1>3, <1>4, <1>5, <1>6, <1>7, <1>8 DEF Next, Proceeds

LEMMA TypeInit == Init => TypeOK
<1>. SUFFICES ASSUME Init PROVE TypeOK
  OBVIOUS
<1>1. EmptyPoolRegistry \in Registries({})  BY DEF EmptyPoolRegistry, Registries
<1>2. PoolsTyped
  <2>1. opening \in [phase : {"none", "connecting", "open", "closing", "failed", "raised"},
                     opened : Seq(Connection), attempt : 0..Retries]
    BY ConnectionsAssumption, EmptySeq DEF Init, Opening
  <2>. QED  BY <1>1, <2>1 DEF Init, PoolsTyped, IsRegistry, Opening
<1>3. DatabaseTyped
  <2>1. << >> \in Seq(Selectors \cup {Leased}) /\ << >> \in Seq(Transactions \cup {None})
    BY EmptySeq
  <2>. QED  BY <2>1 DEF Init, DatabaseTyped
<1>4. HandlersTyped
  <2>1. /\ pc = [p \in Handlers |-> "idle"] /\ job = [p \in Handlers |-> 0]
        /\ source = [p \in Handlers |-> None] /\ held = [p \in Handlers |-> None]
        /\ since = [p \in Handlers |-> 0] /\ given = [p \in Handlers |-> None]
        /\ step = [p \in Handlers |-> 0] /\ jobs = 0 /\ now = 0
    BY DEF Init
  <2>2. \A p \in Handlers : pc[p] = "idle" /\ source[p] # Leased  BY <2>1, NoneAssumption
  <2>3. 0 \in 0..jobs /\ 0 \in 0..now /\ 0 \in 0..(Writes + 1)  BY <2>1, ConnectionsAssumption
  <2>. QED  BY <2>1, <2>2, <2>3 DEF HandlersTyped, InTransaction
<1>5. JobsTyped  BY ConnectionsAssumption DEF Init, JobsTyped
<1>. QED  BY <1>2, <1>3, <1>4, <1>5 DEF TypeOK

(* Every variable of pools, connections, handlers and jobs keeps its type: *)
(* what pool.py's, connect.py's and transaction.py's calls return is again *)
(* a registry, a pool or an answer, whatever the interleaving.             *)
THEOREM ConnectionsTypeCorrect == Spec => []TypeOK
<1>1. TypeOK /\ [Next]_vars => TypeOK'
  BY DatabaseStep, PoolsStep, HandlersStep, JobsStep DEF TypeOK
<1>. QED  BY <1>1, TypeInit, PTL DEF Spec

-----------------------------------------------------------------------------
(* The transactions.  A handler at work has a job of its own, not yet      *)
(* answered but for the release of a lease.                                *)
Unanswered == {"connecting", "refused", "begin", "writing", "rollback", "execute"}

JobsApart ==
  /\ \A p \in Handlers : pc[p] # "idle" =>
       /\ job[p] \in 1..jobs
       /\ \A q \in Handlers \ {p} : pc[q] # "idle" => job[q] # job[p]
       /\ pc[p] \in Unanswered => answer[job[p]] = None
       /\ pc[p] \in {"begin", "writing", "rollback"} => kind[job[p]] = "transaction"
       /\ pc[p] = "execute" => kind[job[p]] = "execute"
  /\ \A j \in Jobs : /\ j <= jobs => kind[j] \in Kinds
                     /\ j > jobs => answer[j] = None

(* A transaction is that of an open connection; the handler in it began it *)
(* and sees exactly the writes it made; others' writes in it are answered. *)
(* Of jobs that met in a transaction only the owner is still known.        *)
Answered(w) == /\ w[1] \in 1..jobs /\ w[2] = 1
               /\ kind[w[1]] = "execute" /\ answer[w[1]] = "ok"

OpenTransaction(c) == tx[c] # None =>
  /\ c \in open /\ tx[c].owner \in 1..jobs /\ kind[tx[c].owner] = "transaction"
  /\ \/ \E p \in Handlers : InTransaction(p) /\ held[p] = c /\ job[p] = tx[c].owner
     \/ answer[tx[c].owner] = "raised"
  /\ \A w \in tx[c].writes : w[1] = tx[c].owner \/ w[1] \in entangled \/ Answered(w)

InOwn(p) == InTransaction(p) =>
  /\ held[p] \in Connection
  /\ held[p] \in open /\ job[p] \notin entangled =>
       /\ tx[held[p]] # None /\ tx[held[p]].owner = job[p]
       /\ pc[p] = "writing" =>
            /\ held[p] \notin aborted
            /\ \A i \in Nat : <<job[p], i>> \in tx[held[p]].writes <=> i \in 1..(step[p] - 1)

TransactionsOwned ==
  /\ \A c \in Connection : OpenTransaction(c)
  /\ \A c \in aborted : tx[c] # None
  /\ \A p \in Handlers : InOwn(p)

(* What the databases keep is whole transactions and answered writes, but  *)
(* for those of jobs that met in a transaction.                            *)
Whole(w) ==
  \/ w[1] \in entangled
  \/ Answered(w)
  \/ /\ w[1] \in 1..jobs /\ kind[w[1]] = "transaction" /\ answer[w[1]] \in {"ok", "raised"}
     /\ w \in WritesOf(w[1], "transaction")
     /\ WritesOf(w[1], "transaction") \subseteq committed

CommittedWhole ==
  /\ \A w \in committed : Whole(w)
  /\ \A j \in (1..jobs) \ entangled : answer[j] = "ok" /\ kind[j] = "transaction" =>
       WritesOf(j, "transaction") \subseteq committed

(* An answered write is kept, or in the transaction it joined, which is    *)
(* not committed yet or never will be, or met another.                     *)
Joined(j) ==
  \/ <<j, 1>> \in committed
  \/ joined[j] \in entangled
  \/ /\ joined[j] \in 1..jobs /\ kind[joined[j]] = "transaction" /\ answer[joined[j]] # "ok"
     /\ \A p \in Handlers : job[p] = joined[j] /\ pc[p] \in Unanswered =>
          InTransaction(p) /\ (held[p] \in open => <<j, 1>> \in tx[held[p]].writes)

JoinedWrites ==
  \A j \in 1..jobs : answer[j] = "ok" /\ kind[j] = "execute" => Joined(j)

TransactionsInv == JobsApart /\ TransactionsOwned /\ CommittedWhole /\ JoinedWrites

LEMMA JobsApartStep ==
  ASSUME TypeOK, JobsApart, [Next]_vars
  PROVE  JobsApart'
<1>0. /\ HandlersTyped /\ JobsTyped /\ jobs \in 0..MaxJobs /\ MaxJobs \in Nat
      /\ None \notin Answers
  BY NoneAssumption, ConnectionsAssumption DEF TypeOK, JobsTyped
<1>1. ASSUME UNCHANGED <<jobs, pc, job, kind, answer>> PROVE JobsApart'
  BY <1>1 DEF JobsApart
<1>2. ASSUME NEW p \in Handlers, NEW a \in Answers, Ends(p, a), pc[p] \in Unanswered,
             UNCHANGED <<jobs, kind>>
      PROVE  JobsApart'
  <2>1. /\ answer \in [Jobs -> Answers \cup {None}] /\ answer' = [answer EXCEPT ![job[p]] = a]
        /\ job[p] \in 1..jobs
    BY <1>0, <1>2 DEF Ends, JobsTyped, JobsApart, Unanswered
  <2>2. /\ \A q \in Handlers \ {p} : pc'[q] = pc[q] /\ job'[q] = job[q]
        /\ pc'[p] \in {"release", "idle"} /\ (pc'[p] = "release" => job'[p] = job[p])
    BY <1>0, <1>2, EndsProperties DEF local
  <2>. QED  BY <1>0, <1>2, <2>1, <2>2 DEF JobsApart, Unanswered, Jobs
<1>3. ASSUME NEW p \in Handlers, NEW k \in Kinds, NEW src, Requested(p, src, k), UNCHANGED answer,
             \E next \in {"connecting", "refused", FirstStep(k)} : pc' = [pc EXCEPT ![p] = next]
      PROVE  JobsApart'
  <2>1. /\ jobs' = jobs + 1 /\ jobs + 1 \in Jobs /\ kind' = [kind EXCEPT ![jobs + 1] = k]
        /\ job' = [job EXCEPT ![p] = jobs + 1]
    BY <1>0, <1>3 DEF Requested, Jobs
  <2>2. /\ \A q \in Handlers \ {p} : pc'[q] = pc[q] /\ job'[q] = job[q]
        /\ job'[p] = jobs + 1 /\ pc'[p] \in {"connecting", "refused", FirstStep(k)}
        /\ kind'[jobs + 1] = k /\ \A j \in Jobs \ {jobs + 1} : kind'[j] = kind[j]
        /\ answer[jobs + 1] = None /\ answer' = answer
    BY <1>0, <1>3, <2>1 DEF HandlersTyped, JobsTyped, JobsApart
  <2>3. \A j \in Jobs : (j <= jobs' => kind'[j] \in Kinds) /\ (j > jobs' => answer'[j] = None)
    BY <1>0, <2>1, <2>2 DEF JobsApart, Jobs
  <2>4. \A q \in Handlers \ {p} : pc[q] # "idle" => job[q] \in Jobs \ {jobs + 1}
    BY <1>0 DEF JobsApart, Jobs
  <2>5. job'[p] \in 1..jobs' /\ answer'[job'[p]] = None /\ kind'[job'[p]] = k
    BY <1>0, <2>1, <2>2
  <2>6. ASSUME NEW q \in Handlers, pc'[q] # "idle"
        PROVE  /\ job'[q] \in 1..jobs'
               /\ \A r \in Handlers \ {q} : pc'[r] # "idle" => job'[r] # job'[q]
    <3>1. CASE q = p  BY <1>0, <2>2, <2>4, <2>5, <3>1
    <3>2. CASE q # p
      <4>1. job'[q] = job[q] /\ job[q] \in 1..jobs /\ pc[q] # "idle"
        BY <2>2, <2>6, <3>2 DEF JobsApart
      <4>2. job'[q] \in 1..jobs' /\ job'[q] # job'[p]  BY <1>0, <2>1, <2>2, <4>1
      <4>. QED  BY <2>2, <3>2, <4>1, <4>2 DEF JobsApart
    <3>. QED  BY <3>1, <3>2
  <2>7. \A q \in Handlers :
          /\ pc'[q] \in Unanswered => answer'[job'[q]] = None
          /\ pc'[q] \in {"begin", "writing", "rollback"} => kind'[job'[q]] = "transaction"
          /\ pc'[q] = "execute" => kind'[job'[q]] = "execute"
    BY <2>2, <2>4, <2>5 DEF JobsApart, Unanswered, FirstStep, Kinds
  <2>8. \A q \in Handlers : pc'[q] # "idle" =>
          /\ job'[q] \in 1..jobs'
          /\ \A r \in Handlers \ {q} : pc'[r] # "idle" => job'[r] # job'[q]
    BY <2>6
  <2>. QED  BY <2>3, <2>7, <2>8 DEF JobsApart
<1>4. CASE OpenPool \/ ReapIdle \/ ClosePool \/ PoolCloses \/ Tick \/ UNCHANGED vars
             \/ \E key \in Reaped : ReapCloses(key) \/ ReapRaises(key)
  BY <1>1, <1>4
  DEF OpenPool, PoolConnects, OpenedCloses, OpenedCloseRaises, AttemptRaises, ReapIdle, ClosePool,
      PoolCloses, Tick, ReapCloses, ReapRaises, vars, local
<1>5. ASSUME NEW p \in Handlers, NEW k \in Kinds, NEW manifest \in Manifests,
             UnknownDatabase(p, manifest, k)
      PROVE  JobsApart'
  <2>1. /\ jobs' = jobs + 1 /\ jobs + 1 \in Jobs /\ kind' = [kind EXCEPT ![jobs + 1] = k]
        /\ answer' = [answer EXCEPT ![jobs + 1] = "unknown_database"] /\ UNCHANGED <<pc, job>>
    BY <1>0, <1>5 DEF UnknownDatabase, Jobs, local
  <2>. QED  BY <1>0, <2>1 DEF JobsApart, HandlersTyped, JobsTyped, Jobs
<1>6. ASSUME NEW p \in Handlers, NEW k \in Kinds,
             \/ LeaseConnection(p, k) \/ LeaseExhausted(p, k)
             \/ \E manifest \in Manifests : CachedPool(p, manifest, k) \/ FirstContact(p, manifest, k)
      PROVE  JobsApart'
  BY <1>3, <1>6 DEF LeaseConnection, LeaseExhausted, CachedPool, FirstContact
<1>7. ASSUME NEW p \in Handlers, ConnectReturns(p) PROVE JobsApart'
  BY <1>0, <1>7 DEF ConnectReturns, FirstStep, JobsApart, HandlersTyped, Unanswered, Kinds, Jobs
<1>8. ASSUME NEW p \in Handlers, Release(p) PROVE JobsApart'
  BY <1>0, <1>8 DEF Release, Forgets, JobsApart, HandlersTyped, Unanswered
<1>9. ASSUME NEW p \in Handlers, Begin(p) \/ WriteSucceeds(p) \/ WriteRaises(p) PROVE JobsApart'
  BY <1>0, <1>9 DEF Begin, WriteSucceeds, WriteRaises, local, JobsApart, HandlersTyped, Unanswered
<1>10. ASSUME NEW p \in Handlers,
              \/ ConnectRaises(p) \/ LeaseRefused(p) \/ BeginRaises(p) \/ Rollback(p)
              \/ RollbackRaises(p) \/ Commit(p) \/ CommitRaises(p) \/ Cancelled(p)
              \/ ExecuteMany(p) \/ ExecuteRaises(p)
       PROVE  JobsApart'
  <2>1. /\ \E a \in Answers : Ends(p, a)
        /\ pc[p] \in Unanswered /\ UNCHANGED <<jobs, kind>>
    BY <1>10
    DEF ConnectRaises, LeaseRefused, BeginRaises, Rollback, RollbackRaises, Commit, CommitRaises,
        Cancelled, ExecuteMany, ExecuteRaises, Answers, Unanswered
  <2>. QED  BY <1>2, <2>1
<1>. QED  BY <1>4, <1>5, <1>6, <1>7, <1>8, <1>9, <1>10 DEF Next, Starts, Proceeds

(* Jobs are added, and an answer stays the answer.                         *)
JobsContinue ==
  /\ jobs \in Nat /\ jobs' \in Nat /\ jobs <= jobs'
  /\ \A j \in 1..jobs :
       /\ kind'[j] = kind[j]
       /\ answer[j] = None \/ (answer'[j] = answer[j] /\ joined'[j] = joined[j])
  /\ \A j \in 1..jobs' : j > jobs => answer'[j] # "ok"

(* A step that begins and writes nothing: a connection stays as it is or   *)
(* loses its transaction, and a handler leaves its transaction with it, or *)
(* with a raised answer.                                                   *)
Quiet ==
  /\ JobsContinue /\ entangled \subseteq entangled'
  /\ \A c \in Connection' :
       \/ c \in Connection /\ tx'[c] = tx[c] /\ (c \in open' <=> c \in open)
       \/ /\ tx'[c] = None
          /\ \A p \in Handlers :
               InTransaction(p)' /\ held'[p] = c => c \notin open' \/ job'[p] \in entangled'
  /\ \A c \in aborted' :
       /\ tx'[c] # None
       /\ \/ c \in aborted
          \/ \A p \in Handlers : pc'[p] = "writing" /\ held'[p] = c => job'[p] \in entangled'
  /\ \A p \in Handlers :
       /\ InTransaction(p)' => /\ InTransaction(p) /\ UNCHANGED <<job[p], held[p], step[p]>>
                               /\ pc'[p] = "writing" => pc[p] = "writing"
                               /\ held[p] \in Connection => held[p] \in Connection'
       /\ InTransaction(p) => \/ InTransaction(p)' \/ answer'[job[p]] = "raised"
                              \/ tx'[held[p]] = None
       /\ pc'[p] \in Unanswered =>
            \/ job'[p] > jobs
            \/ /\ pc[p] \in Unanswered /\ job'[p] = job[p]
               /\ InTransaction(p) => InTransaction(p)'

(* What a statement of p finds: the transaction it began, or jobs that met.*)
LEMMA Meeting ==
  ASSUME TypeOK, JobsApart, TransactionsOwned, NEW p \in Handlers,
         pc[p] \in {"begin", "writing", "rollback"}, held[p] \in open, Entangles(p)
  PROVE  /\ held[p] \in Connection /\ entangled \subseteq entangled'
         /\ tx[held[p]] # None => tx[held[p]].owner \in entangled' \cup {job[p]}
         /\ job[p] \notin entangled' => tx[held[p]] = None \/ tx[held[p]].owner = job[p]
         /\ job[p] \notin entangled' => entangled' = entangled
         /\ \A q \in Handlers \ {p} :
              InTransaction(q) => /\ job[q] # job[p]
                                  /\ held[q] = held[p] => job[q] \in entangled'
<1>1. held[p] \in Connection  BY DEF TypeOK, DatabaseTyped
<1>2. \/ tx[held[p]] = None /\ entangled' = entangled
      \/ tx[held[p]] # None /\ tx[held[p]].owner = job[p] /\ entangled' = entangled
      \/ /\ tx[held[p]] # None /\ tx[held[p]].owner # job[p]
         /\ entangled' = entangled \cup {job[p], tx[held[p]].owner}
  BY DEF Entangles
<1>3. ASSUME NEW q \in Handlers \ {p}, InTransaction(q)
      PROVE  /\ job[q] # job[p]
             /\ held[q] = held[p] => job[q] \in entangled'
  <2>1. job[q] # job[p]  BY <1>3 DEF JobsApart, InTransaction
  <2>2. held[q] = held[p] /\ job[q] \notin entangled =>
          tx[held[p]] # None /\ tx[held[p]].owner = job[q]
    BY <1>3 DEF TransactionsOwned, InOwn
  <2>. QED  BY <1>2, <2>1, <2>2
<1>. QED  BY <1>1, <1>2, <1>3

LEMMA QuietOwned ==
  ASSUME TypeOK, JobsApart, TransactionsOwned, Quiet
  PROVE  TransactionsOwned'
<1>0. "ok" # None /\ "raised" # None /\ JobsContinue
  BY NoneAssumption DEF Answers, Quiet
<1>1. ASSUME NEW c \in Connection' PROVE OpenTransaction(c)'
  <2>. SUFFICES ASSUME tx'[c] # None PROVE OpenTransaction(c)'
    BY DEF OpenTransaction
  <2>1. c \in Connection /\ tx'[c] = tx[c] /\ c \in open' /\ tx[c] # None /\ tx[c].owner \in 1..jobs
    BY <1>1 DEF Quiet, TransactionsOwned, OpenTransaction
  <2>0. OpenTransaction(c)  BY <2>1 DEF TransactionsOwned
  <2>2. kind'[tx[c].owner] = "transaction"  BY <1>0, <2>0, <2>1 DEF JobsContinue, OpenTransaction
  <2>3. \/ \E p \in Handlers : InTransaction(p)' /\ held'[p] = c /\ job'[p] = tx[c].owner
        \/ answer'[tx[c].owner] = "raised"
    <3>1. CASE answer[tx[c].owner] = "raised"  BY <1>0, <2>1, <3>1 DEF JobsContinue
    <3>2. ASSUME NEW p \in Handlers, InTransaction(p), held[p] = c, job[p] = tx[c].owner
          PROVE  \/ InTransaction(p)' /\ held'[p] = c /\ job'[p] = tx[c].owner
                 \/ answer'[tx[c].owner] = "raised"
      BY <1>1, <3>2 DEF Quiet
    <3>. QED  BY <2>0, <2>1, <3>1, <3>2 DEF OpenTransaction
  <2>4. ASSUME NEW w \in tx[c].writes
        PROVE  w[1] = tx[c].owner \/ w[1] \in entangled' \/ Answered(w)'
    <3>1. w[1] = tx[c].owner \/ w[1] \in entangled \/ Answered(w)
      BY <2>0, <2>1, <2>4 DEF OpenTransaction
    <3>2. Answered(w) => Answered(w)'  BY <1>0 DEF JobsContinue, Answered
    <3>. QED  BY <3>1, <3>2 DEF Quiet
  <2>5. tx[c].owner \in 1..jobs'  BY <1>0, <2>1 DEF JobsContinue
  <2>. QED  BY <2>1, <2>2, <2>3, <2>4, <2>5 DEF OpenTransaction
<1>2. ASSUME NEW p \in Handlers, InTransaction(p)' PROVE InOwn(p)'
  <2>1. /\ InTransaction(p) /\ UNCHANGED <<job[p], held[p], step[p]>>
        /\ (pc'[p] = "writing" => pc[p] = "writing") /\ held[p] \in Connection /\ held[p] \in Connection'
    BY <1>2 DEF Quiet, TransactionsOwned, InOwn
  <2>2. held[p] \in open' /\ job[p] \notin entangled' =>
          /\ held[p] \in open /\ tx'[held[p]] = tx[held[p]] /\ job[p] \notin entangled
          /\ pc'[p] = "writing" /\ held[p] \in aborted' => held[p] \in aborted
    BY <1>2, <2>1 DEF Quiet
  <2>3. InOwn(p)  BY DEF TransactionsOwned
  <2>. QED  BY <2>1, <2>2, <2>3 DEF InOwn
<1>3. ASSUME NEW p \in Handlers PROVE InOwn(p)'  BY <1>2 DEF InOwn
<1>. QED  BY <1>1, <1>3 DEF TransactionsOwned, Quiet

LEMMA QuietCommitted ==
  ASSUME TypeOK, TransactionsInv, Quiet, UNCHANGED committed,
         \A j \in 1..jobs : answer'[j] = "ok" => answer[j] = "ok"
  PROVE  CommittedWhole' /\ JoinedWrites'
<1>0. /\ "ok" # None /\ "raised" # None /\ JobsContinue /\ CommittedWhole /\ JoinedWrites
      /\ entangled \subseteq entangled'
  BY NoneAssumption DEF Answers, Quiet, TransactionsInv
<1>1. CommittedWhole'
  <2>1. ASSUME NEW w \in committed PROVE Whole(w)'
    <3>1. Whole(w)  BY <1>0 DEF CommittedWhole
    <3>2. Answered(w) => Answered(w)'  BY <1>0 DEF JobsContinue, Answered
    <3>3. WritesOf(w[1], "transaction")' = WritesOf(w[1], "transaction")  BY DEF WritesOf
    <3>. QED  BY <1>0, <3>1, <3>2, <3>3 DEF Whole, JobsContinue
  <2>2. ASSUME NEW j \in (1..jobs') \ entangled', answer'[j] = "ok", kind'[j] = "transaction"
        PROVE  WritesOf(j, "transaction") \subseteq committed
    BY <1>0, <2>2 DEF CommittedWhole, JobsContinue
  <2>. QED  BY <2>1, <2>2 DEF CommittedWhole, WritesOf
<1>2. ASSUME NEW j \in 1..jobs', answer'[j] = "ok", kind'[j] = "execute",
             <<j, 1>> \notin committed, joined'[j] \notin entangled'
      PROVE  Joined(j)'
  <2>1. /\ j \in 1..jobs /\ answer[j] = "ok" /\ kind[j] = "execute" /\ joined'[j] = joined[j]
    BY <1>0, <1>2 DEF JobsContinue
  <2>2. /\ joined[j] \in 1..jobs /\ kind[joined[j]] = "transaction" /\ answer[joined[j]] # "ok"
        /\ \A p \in Handlers : job[p] = joined[j] /\ pc[p] \in Unanswered =>
             InTransaction(p) /\ (held[p] \in open => <<j, 1>> \in tx[held[p]].writes)
    BY <1>0, <1>2, <2>1 DEF JoinedWrites, Joined
  <2>3. joined'[j] \in 1..jobs' /\ kind'[joined'[j]] = "transaction" /\ answer'[joined'[j]] # "ok"
    BY <1>0, <2>1, <2>2 DEF JobsContinue
  <2>4. ASSUME NEW p \in Handlers, job'[p] = joined'[j], pc'[p] \in Unanswered
        PROVE  InTransaction(p)' /\ (held'[p] \in open' => <<j, 1>> \in tx'[held'[p]].writes)
    <3>1. pc[p] \in Unanswered /\ job[p] = joined[j] /\ (InTransaction(p) => InTransaction(p)')
      <4>1. job'[p] \in 1..jobs  BY <2>1, <2>2, <2>4
      <4>. QED  BY <1>0, <2>1, <2>4, <4>1 DEF Quiet, JobsContinue
    <3>2. InTransaction(p)' /\ held'[p] = held[p] /\ held[p] \in Connection' /\ job'[p] = job[p]
      BY <2>2, <3>1 DEF Quiet, TransactionsInv, TransactionsOwned, InOwn
    <3>. QED  BY <1>2, <2>1, <2>2, <3>1, <3>2 DEF Quiet
  <2>. QED  BY <2>3, <2>4 DEF Joined
<1>. QED  BY <1>1, <1>2 DEF JoinedWrites, Joined

(* The parts of Quiet that a step of pools or connections alone satisfies, *)
(* and that the end of a call satisfies.                                   *)
LEMMA HandlersQuiet ==
  ASSUME TypeOK, TransactionsOwned, [Next]_vars, UNCHANGED <<jobs, pc, job, held, step, kind, answer, joined>>,
         \A c \in Connection' :
           \/ c \in Connection /\ tx'[c] = tx[c] /\ (c \in open' <=> c \in open)
           \/ tx'[c] = None /\ c \notin open'
           \/ tx'[c] = None /\ c \notin Connection,
         UNCHANGED entangled, \A c \in aborted' : c \in aborted /\ tx'[c] # None
  PROVE  Quiet
<1>1. /\ jobs \in Nat /\ Connection \subseteq Connection'
      /\ \A p \in Handlers : InTransaction(p)' <=> InTransaction(p)
      /\ \A p \in Handlers : InTransaction(p) => held[p] \in Connection
  BY NumbersGrow DEF Grows, InTransaction, TransactionsOwned, InOwn
<1>2. JobsContinue  BY <1>1 DEF JobsContinue
<1>. QED  BY <1>1, <1>2 DEF Quiet

LEMMA EndsQuiet ==
  ASSUME TypeOK, JobsApart, NEW p \in Handlers, NEW a \in Answers, Ends(p, a), pc[p] \in Unanswered,
         UNCHANGED <<made, open, jobs, kind>>
  PROVE  /\ job[p] \in 1..jobs /\ answer[job[p]] = None /\ answer'[job[p]] = a
         /\ \A j \in Jobs \ {job[p]} : answer'[j] = answer[j]
         /\ ~InTransaction(p)' /\ pc'[p] \notin Unanswered
         /\ \A q \in Handlers \ {p} :
              /\ UNCHANGED <<pc[q], job[q], held[q], step[q]>>
              /\ InTransaction(q)' <=> InTransaction(q)
         /\ Connection' = Connection
<1>1. /\ HandlersTyped /\ job[p] \in 1..jobs /\ 1..jobs \subseteq Jobs /\ answer[job[p]] = None
      /\ answer' = [answer EXCEPT ![job[p]] = a] /\ DOMAIN answer = Jobs
  BY ConnectionsAssumption
  DEF TypeOK, JobsTyped, JobsApart, Ends, Unanswered, Jobs
<1>2. /\ pc'[p] \in {"release", "idle"}
      /\ \A q \in Handlers \ {p} : UNCHANGED <<pc[q], job[q], held[q], step[q]>>
  BY <1>1, EndsProperties
<1>. QED  BY <1>1, <1>2 DEF InTransaction, Unanswered, Connection

(* A quiet step that keeps nothing and answers nothing ok.                 *)
Silent ==
  Quiet /\ UNCHANGED committed /\ \A j \in 1..jobs : answer'[j] = "ok" => answer[j] = "ok"

LEMMA ConnectionSteps ==
  ASSUME TypeOK, TransactionsOwned, [Next]_vars,
         \/ OpenPool \/ ReapIdle \/ ClosePool \/ PoolCloses \/ Tick \/ UNCHANGED vars
         \/ \E key \in Reaped : ReapCloses(key) \/ ReapRaises(key)
  PROVE  Silent
<1>. DEFINE Unmoved == UNCHANGED <<jobs, pc, job, held, step, kind, answer, joined>>
<1>0. DatabaseTyped  BY DEF TypeOK
<1>1. Unmoved
  BY DEF OpenPool, PoolConnects, OpenedCloses, OpenedCloseRaises, AttemptRaises, ReapIdle, ClosePool,
         PoolCloses, Tick, ReapCloses, ReapRaises, vars, local
<1>2. ASSUME NEW c, Closes(c) PROVE Silent
  <2>1. \A d \in Connection' :
          \/ d \in Connection /\ tx'[d] = tx[d] /\ (d \in open' <=> d \in open)
          \/ tx'[d] = None /\ d \notin open'
    BY <1>0, <1>2, ClosesProperties
  <2>2. UNCHANGED <<committed, entangled>> /\ \A d \in aborted' : d \in aborted /\ tx'[d] # None
    <3>1. aborted \subseteq Connection  BY <1>0 DEF DatabaseTyped
    <3>. QED  BY <1>0, <1>2, <3>1, ClosesProperties DEF TransactionsOwned
  <2>. QED  BY <1>1, <2>1, <2>2, HandlersQuiet DEF Silent
<1>3. ASSUME UNCHANGED <<made, open, database>> PROVE Silent
  BY <1>1, <1>3, HandlersQuiet DEF Silent, database, Connection, TransactionsOwned
<1>4. CASE PoolConnects
  <2>1. Opens(Leased)  BY <1>4 DEF PoolConnects
  <2>2. \A d \in Connection' :
          \/ d \in Connection /\ tx'[d] = tx[d] /\ (d \in open' <=> d \in open)
          \/ tx'[d] = None /\ d \notin Connection
    BY <1>0, <2>1, OpensProperties
  <2>3. UNCHANGED <<committed, entangled>> /\ \A d \in aborted' : d \in aborted /\ tx'[d] # None
    <3>1. aborted \subseteq Connection  BY <1>0 DEF DatabaseTyped
    <3>. QED  BY <1>0, <2>1, <3>1, OpensProperties DEF TransactionsOwned
  <2>. QED  BY <1>1, <2>2, <2>3, HandlersQuiet DEF Silent
<1>5. UNCHANGED <<made, open, database>> \/ PoolConnects \/ \E c : Closes(c)
  BY DEF OpenPool, OpenedCloses, OpenedCloseRaises, AttemptRaises, ReapIdle, ClosePool,
         PoolCloses, Tick, ReapCloses, ReapRaises, vars
<1>. QED  BY <1>2, <1>3, <1>4, <1>5

LEMMA StartSteps ==
  ASSUME TypeOK, JobsApart, TransactionsOwned, [Next]_vars, NEW p \in Handlers, Starts(p)
  PROVE  Silent
<1>0. /\ HandlersTyped /\ JobsTyped /\ jobs \in Nat /\ 1..jobs \subseteq Jobs
      /\ UNCHANGED <<made, open, tx, committed, aborted, entangled, joined>>
  BY ConnectionsAssumption
  DEF TypeOK, JobsTyped, Jobs, Starts, LeaseConnection, LeaseExhausted, UnknownDatabase, CachedPool,
      FirstContact, database
<1>1. PICK k \in Kinds :
        /\ jobs < MaxJobs /\ jobs' = jobs + 1 /\ kind' = [kind EXCEPT ![jobs'] = k]
        /\ \/ answer' = [answer EXCEPT ![jobs'] = "unknown_database"] /\ UNCHANGED <<pc, local>>
           \/ /\ UNCHANGED answer /\ job' = [job EXCEPT ![p] = jobs'] /\ pc[p] = "idle"
              /\ \A q \in Handlers \ {p} : UNCHANGED <<pc[q], job[q], held[q], step[q]>>
              /\ pc'[p] \in {"begin", "execute", "connecting", "refused"}
  BY <1>0
  DEF Starts, LeaseConnection, LeaseExhausted, UnknownDatabase, CachedPool, FirstContact, Requested,
      FirstStep, HandlersTyped
<1>2. JobsContinue /\ \A j \in 1..jobs : answer'[j] = answer[j]
  <2>1. /\ jobs + 1 \in Jobs /\ answer[jobs + 1] = None /\ None # "ok"
        /\ DOMAIN answer = Jobs /\ DOMAIN kind = Jobs
    <3>1. None # "ok"  BY NoneAssumption DEF Answers
    <3>2. MaxJobs \in Nat  BY ConnectionsAssumption
    <3>. QED  BY <1>0, <1>1, <3>1, <3>2 DEF JobsApart, JobsTyped, Jobs
  <2>2. /\ \A j \in Jobs \ {jobs + 1} : kind'[j] = kind[j] /\ answer'[j] = answer[j]
        /\ answer'[jobs + 1] # "ok"
    BY <1>1, <2>1
  <2>3. /\ \A j \in 1..jobs : j \in Jobs \ {jobs + 1}
        /\ \A j \in 1..jobs' : j > jobs => j = jobs + 1
    BY <1>0, <1>1
  <2>. QED  BY <1>0, <1>1, <2>2, <2>3 DEF JobsContinue
<1>3. /\ Connection' = Connection
      /\ \A c \in Connection' : c \in Connection /\ tx'[c] = tx[c] /\ (c \in open' <=> c \in open)
  BY <1>0 DEF Connection
<1>4. \A q \in Handlers :
        \/ UNCHANGED <<pc[q], job[q], held[q], step[q]>> /\ (InTransaction(q)' <=> InTransaction(q))
        \/ ~InTransaction(q) /\ ~InTransaction(q)' /\ job'[q] > jobs
  BY <1>0, <1>1 DEF local, InTransaction, HandlersTyped
<1>5. Quiet  BY <1>0, <1>2, <1>3, <1>4 DEF Quiet, TransactionsOwned, InOwn
<1>. QED  BY <1>0, <1>2, <1>5 DEF Silent

LEMMA CallSteps ==
  ASSUME TypeOK, JobsApart, TransactionsOwned, [Next]_vars, NEW p \in Handlers,
         \/ ConnectReturns(p) \/ Release(p) \/ ConnectRaises(p) \/ LeaseRefused(p) \/ BeginRaises(p)
         \/ WriteRaises(p) \/ Cancelled(p) \/ ExecuteRaises(p)
  PROVE  Silent
<1>0. /\ HandlersTyped /\ DatabaseTyped /\ jobs \in Nat /\ 1..jobs \subseteq Jobs /\ "ok" # None
      /\ \A c \in aborted : c \in Connection /\ tx[c] # None
  BY ConnectionsAssumption, NoneAssumption
  DEF TypeOK, JobsTyped, Jobs, Answers, DatabaseTyped, TransactionsOwned
<1>1. CASE ConnectReturns(p)
  <2>1. /\ DatabaseTyped /\ ResolvePoolKey(source[p]) \in Selectors /\ Opens(ResolvePoolKey(source[p]))
        /\ UNCHANGED <<jobs, job, step, kind, answer, joined>> /\ pc[p] = "connecting"
        /\ pc'[p] \in {"begin", "execute"}
        /\ \A q \in Handlers \ {p} : UNCHANGED <<pc[q], held[q]>>
    BY <1>0, <1>1 DEF ConnectReturns, HandlersTyped, FirstStep
  <2>2. JobsContinue  BY <1>0, <2>1 DEF JobsContinue
  <2>3. /\ Connection \subseteq Connection' /\ UNCHANGED <<committed, aborted, entangled>>
        /\ \A d \in Connection' :
             \/ d \in Connection /\ tx'[d] = tx[d] /\ (d \in open' <=> d \in open)
             \/ tx'[d] = None /\ d \notin Connection
        /\ \A d \in Connection : tx'[d] = tx[d]
    BY <2>1, OpensProperties
  <2>4. \A q \in Handlers :
          \/ UNCHANGED <<pc[q], job[q], held[q], step[q]>> /\ (InTransaction(q)' <=> InTransaction(q))
          \/ /\ ~InTransaction(q) /\ ~InTransaction(q)' /\ job'[q] = job[q]
             /\ pc[q] \in Unanswered
    BY <2>1 DEF InTransaction, Unanswered
  <2>5. Quiet  BY <1>0, <2>2, <2>3, <2>4 DEF Quiet, TransactionsOwned, InOwn
  <2>. QED  BY <2>1, <2>3, <2>5 DEF Silent
<1>2. CASE Release(p) \/ WriteRaises(p)
  <2>1. /\ UNCHANGED <<made, open, tx, committed, jobs, kind, answer, joined>>
        /\ \A q \in Handlers \ {p} : UNCHANGED <<pc[q], job[q], held[q], step[q]>>
        /\ \/ ~InTransaction(p) /\ pc'[p] = "idle"
           \/ /\ UNCHANGED <<job[p], held[p], step[p]>>
              /\ pc[p] = "writing" /\ pc'[p] = "rollback"
        /\ \/ UNCHANGED <<aborted, entangled>>
           \/ pc[p] = "writing" /\ Aborts(held[p]) /\ Entangles(p)
    BY <1>0, <1>2
    DEF Release, WriteRaises, Forgets, local, database, HandlersTyped, InTransaction
  <2>2. JobsContinue  BY <1>0, <2>1 DEF JobsContinue
  <2>3. /\ Connection' = Connection
        /\ \A c \in Connection' : c \in Connection /\ tx'[c] = tx[c] /\ (c \in open' <=> c \in open)
    BY <2>1 DEF Connection
  <2>4. \A q \in Handlers :
          \/ UNCHANGED <<pc[q], job[q], held[q], step[q]>> /\ (InTransaction(q)' <=> InTransaction(q))
          \/ ~InTransaction(q) /\ ~InTransaction(q)' /\ pc'[q] \notin Unanswered
          \/ /\ InTransaction(q) /\ InTransaction(q)' /\ UNCHANGED <<job[q], held[q], step[q]>>
             /\ pc[q] = "writing" /\ pc'[q] = "rollback"
    BY <2>1 DEF InTransaction, Unanswered
  <2>5. /\ entangled \subseteq entangled'
        /\ \A c \in aborted' :
             /\ tx'[c] # None
             /\ \/ c \in aborted
                \/ \A q \in Handlers : pc'[q] = "writing" /\ held'[q] = c => job'[q] \in entangled'
    <3>1. CASE UNCHANGED <<aborted, entangled>>  BY <1>0, <2>1, <3>1
    <3>2. CASE pc[p] = "writing" /\ Aborts(held[p]) /\ Entangles(p)
      <4>1. /\ held[p] \in open /\ tx[held[p]] # None /\ aborted' = aborted \cup {held[p]}
            /\ pc'[p] # "writing"
        BY <2>1, <3>2 DEF Aborts, InTransaction
      <4>2. /\ entangled \subseteq entangled'
            /\ \A q \in Handlers \ {p} : InTransaction(q) /\ held[q] = held[p] => job[q] \in entangled'
        BY <3>2, <4>1, Meeting
      <4>. QED  BY <1>0, <2>1, <4>1, <4>2 DEF InTransaction
    <3>. QED  BY <2>1, <3>1, <3>2
  <2>6. Quiet  BY <2>2, <2>3, <2>4, <2>5 DEF Quiet, TransactionsOwned, InOwn, Unanswered
  <2>. QED  BY <2>1, <2>6 DEF Silent
<1>3. CASE ConnectRaises(p) \/ LeaseRefused(p) \/ BeginRaises(p) \/ Cancelled(p) \/ ExecuteRaises(p)
  <2>1. PICK a \in Answers \ {"ok"} :
          /\ Ends(p, a) /\ (InTransaction(p) => a = "raised") /\ pc[p] \in Unanswered
          /\ UNCHANGED <<made, open, tx, committed, jobs, kind, joined>>
          /\ \/ UNCHANGED <<aborted, entangled>>
             \/ Aborts(held[p]) /\ entangled' = entangled \cup {tx[held[p]].owner}
    BY <1>3
    DEF ConnectRaises, LeaseRefused, BeginRaises, Cancelled, ExecuteRaises, Answers, Unanswered,
        InTransaction, database
  <2>2. /\ job[p] \in 1..jobs /\ answer[job[p]] = None /\ answer'[job[p]] = a
        /\ \A j \in Jobs \ {job[p]} : answer'[j] = answer[j]
        /\ ~InTransaction(p)' /\ pc'[p] \notin Unanswered
        /\ \A q \in Handlers \ {p} :
             /\ UNCHANGED <<pc[q], job[q], held[q], step[q]>>
             /\ InTransaction(q)' <=> InTransaction(q)
        /\ Connection' = Connection
    BY <2>1, EndsQuiet
  <2>3. JobsContinue /\ \A j \in 1..jobs : answer'[j] = "ok" => answer[j] = "ok"
    BY <1>0, <2>1, <2>2 DEF JobsContinue
  <2>4. /\ entangled \subseteq entangled'
        /\ \A c \in aborted' :
             /\ tx'[c] # None
             /\ \/ c \in aborted
                \/ \A q \in Handlers : pc'[q] = "writing" /\ held'[q] = c => job'[q] \in entangled'
    <3>1. CASE UNCHANGED <<aborted, entangled>>  BY <1>0, <2>1, <3>1
    <3>2. CASE Aborts(held[p]) /\ entangled' = entangled \cup {tx[held[p]].owner}
      <4>1. held[p] \in open /\ tx[held[p]] # None /\ aborted' = aborted \cup {held[p]}
        BY <3>2 DEF Aborts
      <4>2. ASSUME NEW q \in Handlers, InTransaction(q), held[q] = held[p] PROVE job[q] \in entangled'
        BY <3>2, <4>1, <4>2 DEF TransactionsOwned, InOwn
      <4>. QED  BY <1>0, <2>1, <2>2, <3>2, <4>1, <4>2 DEF InTransaction
    <3>. QED  BY <2>1, <3>1, <3>2
  <2>5. Quiet  BY <2>1, <2>2, <2>3, <2>4 DEF Quiet, TransactionsOwned, InOwn
  <2>. QED  BY <2>1, <2>3, <2>5 DEF Silent
<1>. QED  BY <1>1, <1>2, <1>3

(* A transaction that ends on an open connection leaves it without one,    *)
(* whoever else was in it.                                                 *)
LEMMA LeavesTransaction ==
  ASSUME TypeOK, JobsApart, TransactionsOwned, [Next]_vars, NEW p \in Handlers, InTransaction(p),
         RollsBack(held[p]) \/ Commits(held[p]), Entangles(p),
         NEW a \in {"ok", "write_failed", "raised"}, Ends(p, a),
         UNCHANGED <<made, open, jobs, kind, joined>>
  PROVE  /\ Quiet /\ job[p] \in 1..jobs /\ answer[job[p]] = None /\ answer'[job[p]] = a
         /\ \A j \in 1..jobs : j # job[p] => answer'[j] = answer[j]
         /\ ~InTransaction(p)' /\ pc'[p] \notin Unanswered
         /\ \A c \in Connection : c # held[p] => tx'[c] = tx[c]
         /\ \A q \in Handlers \ {p} :
              /\ UNCHANGED <<pc[q], job[q], held[q], step[q]>>
              /\ InTransaction(q) => /\ job[q] # job[p]
                                     /\ held[q] = held[p] => job[q] \in entangled'
<1>0. /\ HandlersTyped /\ DatabaseTyped /\ jobs \in Nat /\ 1..jobs \subseteq Jobs
      /\ held[p] \in open /\ tx' = [tx EXCEPT ![held[p]] = None] /\ aborted' = aborted \ {held[p]}
      /\ pc[p] \in {"begin", "writing", "rollback"}
  BY ConnectionsAssumption DEF TypeOK, JobsTyped, Jobs, RollsBack, Commits, InTransaction
<1>1. /\ job[p] \in 1..jobs /\ answer[job[p]] = None /\ answer'[job[p]] = a
      /\ \A j \in Jobs \ {job[p]} : answer'[j] = answer[j]
      /\ ~InTransaction(p)' /\ pc'[p] \notin Unanswered
      /\ \A q \in Handlers \ {p} :
           /\ UNCHANGED <<pc[q], job[q], held[q], step[q]>>
           /\ InTransaction(q)' <=> InTransaction(q)
      /\ Connection' = Connection
  BY EndsQuiet DEF InTransaction, Unanswered, Answers
<1>2. held[p] \in Connection /\ tx'[held[p]] = None /\ \A c \in Connection \ {held[p]} : tx'[c] = tx[c]
  BY <1>0, TransactionSet DEF DatabaseTyped
<1>3. /\ entangled \subseteq entangled'
      /\ \A q \in Handlers \ {p} :
           InTransaction(q) => job[q] # job[p] /\ (held[q] = held[p] => job[q] \in entangled')
  BY <1>0, Meeting
<1>4. JobsContinue  BY <1>0, <1>1 DEF JobsContinue
<1>5. \A c \in aborted' : c \in aborted /\ tx'[c] # None
  BY <1>0, <1>2 DEF TransactionsOwned, DatabaseTyped
<1>6. Quiet  BY <1>1, <1>2, <1>3, <1>4, <1>5 DEF Quiet, TransactionsOwned, InOwn
<1>. QED  BY <1>0, <1>1, <1>2, <1>3, <1>6

LEMMA RollbackSteps ==
  ASSUME TypeOK, JobsApart, TransactionsOwned, [Next]_vars, NEW p \in Handlers,
         Rollback(p) \/ RollbackRaises(p) \/ (CommitRaises(p) /\ UNCHANGED database)
  PROVE  Silent
<1>0. /\ jobs \in Nat /\ 1..jobs \subseteq Jobs
  BY ConnectionsAssumption DEF TypeOK, JobsTyped, Jobs
<1>1. PICK a \in {"write_failed", "raised"} :
        /\ Ends(p, a) /\ InTransaction(p) /\ UNCHANGED <<made, open, committed, jobs, kind, joined>>
        /\ \/ RollsBack(held[p]) /\ Entangles(p)
           \/ UNCHANGED database /\ a = "raised"
  BY DEF Rollback, RollbackRaises, RollsBack, CommitRaises, database, InTransaction
<1>2. CASE RollsBack(held[p]) /\ Entangles(p)
  BY <1>0, <1>1, <1>2, LeavesTransaction DEF Silent
<1>3. CASE UNCHANGED database /\ a = "raised"
  <2>1. /\ job[p] \in 1..jobs /\ answer[job[p]] = None /\ answer'[job[p]] = "raised"
        /\ \A j \in Jobs \ {job[p]} : answer'[j] = answer[j]
        /\ ~InTransaction(p)' /\ pc'[p] \notin Unanswered
        /\ \A q \in Handlers \ {p} :
             /\ UNCHANGED <<pc[q], job[q], held[q], step[q]>>
             /\ InTransaction(q)' <=> InTransaction(q)
        /\ Connection' = Connection
    BY <1>1, <1>3, EndsQuiet DEF InTransaction, Unanswered, Answers
  <2>2. JobsContinue /\ \A j \in 1..jobs : answer'[j] = "ok" => answer[j] = "ok"
    BY <1>0, <1>1, <2>1 DEF JobsContinue
  <2>3. Quiet  BY <1>1, <1>3, <2>1, <2>2 DEF Quiet, TransactionsOwned, InOwn, database
  <2>. QED  BY <1>1, <2>2, <2>3 DEF Silent
<1>. QED  BY <1>1, <1>2, <1>3

(* A commit keeps all the writes of the transaction and those that others  *)
(* made in it, or the jobs had met.                                        *)
LEMMA CommitSteps ==
  ASSUME TypeOK, TransactionsInv, [Next]_vars, NEW p \in Handlers,
         Commit(p) \/ (CommitRaises(p) /\ Commits(held[p]) /\ Entangles(p))
  PROVE  TransactionsOwned' /\ CommittedWhole' /\ JoinedWrites'
<1>0. /\ HandlersTyped /\ DatabaseTyped /\ JobsApart /\ TransactionsOwned /\ CommittedWhole
      /\ JoinedWrites /\ jobs \in Nat /\ 1..jobs \subseteq Jobs /\ Writes \in Nat
      /\ "ok" # None /\ "raised" # None
  BY ConnectionsAssumption, NoneAssumption
  DEF TypeOK, JobsTyped, Jobs, TransactionsInv, Answers
<1>1. PICK a \in {"ok", "raised"} : Ends(p, a) /\ (a = "raised" \/ Commit(p))
  BY DEF Commit, CommitRaises
<1>2. /\ pc[p] = "writing" /\ step[p] = Writes + 1 /\ InTransaction(p) /\ held[p] \in open
      /\ Commits(held[p]) /\ Entangles(p) /\ UNCHANGED <<made, open, jobs, kind, joined>>
      /\ committed' = IF tx[held[p]] = None \/ held[p] \in aborted
                      THEN committed ELSE committed \cup tx[held[p]].writes
  BY <1>0 DEF Commit, CommitRaises, Commits, InTransaction, HandlersTyped
<1>3. /\ Quiet /\ job[p] \in 1..jobs /\ answer[job[p]] = None /\ answer'[job[p]] = a
      /\ \A j \in 1..jobs : j # job[p] => answer'[j] = answer[j]
      /\ ~InTransaction(p)' /\ pc'[p] \notin Unanswered
      /\ \A c \in Connection : c # held[p] => tx'[c] = tx[c]
      /\ \A q \in Handlers \ {p} :
           /\ UNCHANGED <<pc[q], job[q], held[q], step[q]>>
           /\ InTransaction(q) => /\ job[q] # job[p]
                                  /\ held[q] = held[p] => job[q] \in entangled'
  BY <1>0, <1>1, <1>2, LeavesTransaction
<1>4. kind[job[p]] = "transaction"  BY <1>0, <1>2 DEF JobsApart
<1>5. /\ held[p] \in Connection /\ entangled \subseteq entangled'
      /\ tx[held[p]] # None => tx[held[p]].owner \in entangled' \cup {job[p]}
      /\ job[p] \notin entangled' => tx[held[p]] = None \/ tx[held[p]].owner = job[p]
      /\ job[p] \notin entangled' => entangled' = entangled
  BY <1>0, <1>2, Meeting
<1>6. job[p] \notin entangled' =>
        /\ tx[held[p]] # None /\ tx[held[p]].owner = job[p] /\ held[p] \notin aborted
        /\ \A i \in Nat : <<job[p], i>> \in tx[held[p]].writes <=> i \in 1..Writes
  BY <1>0, <1>2, <1>5 DEF TransactionsOwned, InOwn
<1>7. committed \subseteq committed' /\ (job[p] \notin entangled' =>
        WritesOf(job[p], "transaction") \subseteq tx[held[p]].writes
          /\ committed' = committed \cup tx[held[p]].writes)
  BY <1>0, <1>2, <1>6 DEF WritesOf
<1>8. ASSUME tx[held[p]] # None, NEW w \in tx[held[p]].writes
      PROVE  w[1] \in entangled' \/ Answered(w) \/ w \in WritesOf(job[p], "transaction")
  <2>1. w[1] = tx[held[p]].owner \/ w[1] \in entangled \/ Answered(w)
    BY <1>0, <1>5, <1>8 DEF TransactionsOwned, OpenTransaction
  <2>2. CASE w[1] = job[p] /\ job[p] \notin entangled'
    <3>1. w \in Nat \X Nat
      BY <1>0, <1>5, <1>8, ElementOfSeq, LenProperties DEF DatabaseTyped, Connection, Transactions
    <3>2. w = <<w[1], w[2]>> /\ w[2] \in Nat  BY <3>1
    <3>3. w[2] \in 1..Writes  BY <1>6, <1>8, <2>2, <3>2
    <3>. QED  BY <2>2, <3>2, <3>3 DEF WritesOf
  <2>. QED  BY <1>5, <1>8, <2>1, <2>2
<1>9. CommittedWhole'
  <2>1. ASSUME NEW w \in committed' PROVE Whole(w)'
    <3>1. Answered(w) => Answered(w)'
      BY <1>0, <1>2, <1>3 DEF Answered
    <3>2. WritesOf(w[1], "transaction")' = WritesOf(w[1], "transaction")  BY DEF WritesOf
    <3>3. CASE w \in committed
      BY <1>0, <1>2, <1>3, <1>5, <1>7, <3>1, <3>2, <3>3 DEF CommittedWhole, Whole
    <3>4. CASE w \notin committed
      <4>1. tx[held[p]] # None /\ w \in tx[held[p]].writes  BY <1>2, <2>1, <3>4
      <4>2. CASE w \in WritesOf(job[p], "transaction") /\ job[p] \notin entangled'
        <5>1. w[1] = job[p]  BY <4>2 DEF WritesOf
        <5>. QED  BY <1>2, <1>3, <1>4, <1>7, <3>2, <4>2, <5>1 DEF Whole
      <4>3. CASE w \in WritesOf(job[p], "transaction") /\ job[p] \in entangled'
        <5>1. w[1] = job[p]  BY <4>3 DEF WritesOf
        <5>. QED  BY <4>3, <5>1 DEF Whole
      <4>. QED  BY <1>8, <3>1, <4>1, <4>2, <4>3 DEF Whole
    <3>. QED  BY <3>3, <3>4
  <2>2. ASSUME NEW j \in (1..jobs) \ entangled', answer'[j] = "ok", kind[j] = "transaction"
        PROVE  WritesOf(j, "transaction") \subseteq committed'
    <3>1. CASE j = job[p]  BY <1>7, <2>2, <3>1
    <3>2. CASE j # job[p]  BY <1>0, <1>3, <1>5, <1>7, <2>2, <3>2 DEF CommittedWhole
    <3>. QED  BY <3>1, <3>2
  <2>. QED  BY <1>2, <2>1, <2>2 DEF CommittedWhole, WritesOf
<1>10. JoinedWrites'
  <2>1. ASSUME NEW j \in 1..jobs, answer'[j] = "ok", kind[j] = "execute",
               <<j, 1>> \notin committed', joined[j] \notin entangled'
        PROVE  /\ joined[j] \in 1..jobs /\ kind[joined[j]] = "transaction"
               /\ answer'[joined[j]] # "ok"
               /\ \A q \in Handlers : job'[q] = joined[j] /\ pc'[q] \in Unanswered =>
                    InTransaction(q)' /\ (held'[q] \in open => <<j, 1>> \in tx'[held'[q]].writes)
    <3>1. /\ answer[j] = "ok" /\ joined[j] \in 1..jobs /\ kind[joined[j]] = "transaction"
          /\ answer[joined[j]] # "ok"
          /\ \A q \in Handlers : job[q] = joined[j] /\ pc[q] \in Unanswered =>
               InTransaction(q) /\ (held[q] \in open => <<j, 1>> \in tx[held[q]].writes)
      BY <1>0, <1>3, <1>4, <1>5, <1>7, <2>1 DEF JoinedWrites, Joined
    <3>2. joined[j] # job[p]  BY <1>2, <1>7, <2>1, <3>1 DEF Unanswered
    <3>3. ASSUME NEW q \in Handlers, job'[q] = joined[j], pc'[q] \in Unanswered
          PROVE  InTransaction(q)' /\ (held'[q] \in open => <<j, 1>> \in tx'[held'[q]].writes)
      <4>1. /\ q # p /\ pc'[q] = pc[q] /\ job'[q] = job[q] /\ held'[q] = held[q]
            /\ InTransaction(q) /\ (held[q] \in open => <<j, 1>> \in tx[held[q]].writes)
        BY <1>3, <3>1, <3>3
      <4>2. held[q] # held[p]  BY <1>3, <2>1, <3>3, <4>1
      <4>3. held[q] \in Connection  BY <1>0, <4>1 DEF TransactionsOwned, InOwn
      <4>. QED  BY <1>3, <4>1, <4>2, <4>3 DEF InTransaction
    <3>. QED  BY <1>3, <3>1, <3>2, <3>3
  <2>. QED  BY <1>2, <2>1 DEF JoinedWrites, Joined
<1>. QED  BY <1>0, <1>3, <1>9, <1>10, QuietOwned

LEMMA BeginSteps ==
  ASSUME TypeOK, TransactionsInv, [Next]_vars, NEW p \in Handlers, Begin(p)
  PROVE  TransactionsOwned' /\ CommittedWhole' /\ JoinedWrites'
<1>0. /\ HandlersTyped /\ DatabaseTyped /\ JobsApart /\ TransactionsOwned /\ CommittedWhole
      /\ JoinedWrites
  BY DEF TypeOK, TransactionsInv
<1>. DEFINE t == [owner |-> job[p], writes |-> {}]
<1>1. /\ pc[p] = "begin" /\ step[p] = 1 /\ job[p] \in 1..jobs /\ kind[job[p]] = "transaction"
      /\ answer[job[p]] = None /\ held[p] \in open /\ held[p] \in Connection /\ Entangles(p)
      /\ \/ tx[held[p]] = None /\ tx' = [tx EXCEPT ![held[p]] = t]
         \/ tx[held[p]] # None /\ UNCHANGED tx
      /\ UNCHANGED <<made, open, committed, aborted, jobs, job, held, step, kind, answer, joined>>
      /\ pc' = [pc EXCEPT ![p] = "writing"] /\ Connection' = Connection
  BY <1>0 DEF Begin, HandlersTyped, DatabaseTyped, JobsApart, local, Connection, Unanswered
<1>2. t \in Transactions /\ t # None
  BY <1>0, <1>1, NoneAssumption DEF Transactions, HandlersTyped
<1>3. /\ tx[held[p]] = None => tx'[held[p]] = t
      /\ \A c \in Connection : c # held[p] \/ tx[c] # None => tx'[c] = tx[c]
  BY <1>0, <1>1, <1>2, TransactionSet
<1>4. /\ InTransaction(p)' /\ ~InTransaction(p) /\ pc'[p] = "writing"
      /\ \A q \in Handlers \ {p} : pc'[q] = pc[q] /\ (InTransaction(q)' <=> InTransaction(q))
  BY <1>0, <1>1 DEF InTransaction, HandlersTyped
<1>5. /\ entangled \subseteq entangled'
      /\ job[p] \notin entangled' => tx[held[p]] = None \/ tx[held[p]].owner = job[p]
      /\ \A q \in Handlers \ {p} :
           InTransaction(q) => /\ job[q] # job[p]
                               /\ held[q] = held[p] => job[q] \in entangled'
  BY <1>0, <1>1, Meeting
<1>6. tx[held[p]] # None => tx[held[p]].owner # job[p]
  <2>1. "raised" # None  BY NoneAssumption DEF Answers
  <2>2. tx[held[p]] # None =>
          \/ \E q \in Handlers : InTransaction(q) /\ held[q] = held[p] /\ job[q] = tx[held[p]].owner
          \/ answer[tx[held[p]].owner] = "raised"
    BY <1>0, <1>1 DEF TransactionsOwned, OpenTransaction
  <2>. QED  BY <1>1, <1>4, <1>5, <2>1, <2>2
<1>7. TransactionsOwned'
  <2>1. ASSUME NEW c \in Connection PROVE OpenTransaction(c)'
    <3>1. CASE c = held[p] /\ tx[c] = None
      BY <1>1, <1>3, <1>4, <3>1 DEF OpenTransaction
    <3>2. CASE c # held[p] \/ tx[c] # None
      <4>1. OpenTransaction(c) /\ tx'[c] = tx[c]  BY <1>0, <1>3, <3>2 DEF TransactionsOwned
      <4>2. \A w : Answered(w)' <=> Answered(w)  BY <1>1 DEF Answered
      <4>3. ASSUME NEW q \in Handlers, InTransaction(q) PROVE InTransaction(q)'  BY <1>4, <4>3
      <4>. QED  BY <1>1, <1>5, <4>1, <4>2, <4>3 DEF OpenTransaction
    <3>. QED  BY <3>1, <3>2
  <2>2. ASSUME NEW q \in Handlers PROVE InOwn(q)'
    <3>1. CASE q = p
      <4>1. CASE tx[held[p]] = None
        <5>1. held[p] \notin aborted'  BY <1>0, <1>1, <4>1 DEF TransactionsOwned
        <5>. QED  BY <1>1, <1>2, <1>3, <3>1, <4>1, <5>1 DEF InOwn
      <4>2. CASE tx[held[p]] # None  BY <1>1, <1>5, <1>6, <3>1, <4>2 DEF InOwn
      <4>. QED  BY <4>1, <4>2
    <3>2. CASE q # p /\ InTransaction(q) /\ held[q] = held[p]
      BY <1>1, <1>5, <3>2 DEF InOwn
    <3>3. CASE q # p /\ InTransaction(q) /\ held[q] # held[p]
      <4>1. InOwn(q) /\ held[q] \in Connection  BY <1>0, <3>3 DEF TransactionsOwned, InOwn
      <4>2. tx'[held[q]] = tx[held[q]] /\ pc'[q] = pc[q]  BY <1>3, <1>4, <3>3, <4>1
      <4>. QED  BY <1>1, <1>5, <3>3, <4>1, <4>2 DEF InOwn
    <3>4. CASE q # p /\ ~InTransaction(q)  BY <1>4, <3>4 DEF InOwn
    <3>. QED  BY <3>1, <3>2, <3>3, <3>4
  <2>3. \A c \in aborted' : tx'[c] # None
    BY <1>0, <1>1, <1>3 DEF TransactionsOwned, DatabaseTyped
  <2>. QED  BY <1>1, <2>1, <2>2, <2>3 DEF TransactionsOwned
<1>8. CommittedWhole'
  <2>1. \A w \in committed : Whole(w)'
    BY <1>0, <1>1, <1>5 DEF CommittedWhole, Whole, Answered, WritesOf
  <2>. QED  BY <1>0, <1>1, <1>5, <2>1 DEF CommittedWhole, WritesOf
<1>9. JoinedWrites'
  <2>1. ASSUME NEW j \in 1..jobs, answer[j] = "ok", kind[j] = "execute",
               <<j, 1>> \notin committed, joined[j] \notin entangled'
        PROVE  /\ joined[j] \in 1..jobs /\ kind[joined[j]] = "transaction" /\ answer[joined[j]] # "ok"
               /\ \A q \in Handlers : job[q] = joined[j] /\ pc'[q] \in Unanswered =>
                    InTransaction(q)' /\ (held[q] \in open => <<j, 1>> \in tx'[held[q]].writes)
    <3>1. /\ joined[j] \in 1..jobs /\ kind[joined[j]] = "transaction" /\ answer[joined[j]] # "ok"
          /\ \A q \in Handlers : job[q] = joined[j] /\ pc[q] \in Unanswered =>
               InTransaction(q) /\ (held[q] \in open => <<j, 1>> \in tx[held[q]].writes)
      BY <1>0, <1>5, <2>1 DEF JoinedWrites, Joined
    <3>2. job[p] # joined[j]  BY <1>1, <1>4, <3>1 DEF Unanswered
    <3>3. ASSUME NEW q \in Handlers, job[q] = joined[j], pc'[q] \in Unanswered
          PROVE  InTransaction(q)' /\ (held[q] \in open => <<j, 1>> \in tx'[held[q]].writes)
      <4>1. /\ q # p /\ InTransaction(q) /\ InTransaction(q)' /\ held[q] # held[p]
            /\ held[q] \in open => <<j, 1>> \in tx[held[q]].writes
        BY <1>4, <1>5, <2>1, <3>1, <3>2, <3>3
      <4>2. tx'[held[q]] = tx[held[q]]
        BY <1>0, <1>3, <4>1 DEF TransactionsOwned, InOwn
      <4>. QED  BY <4>1, <4>2
    <3>. QED  BY <3>1, <3>3
  <2>. QED  BY <1>1, <2>1 DEF JoinedWrites, Joined
<1>. QED  BY <1>7, <1>8, <1>9

LEMMA WriteSteps ==
  ASSUME TypeOK, TransactionsInv, [Next]_vars, NEW p \in Handlers, WriteSucceeds(p)
  PROVE  TransactionsOwned' /\ CommittedWhole' /\ JoinedWrites'
<1>0. /\ HandlersTyped /\ DatabaseTyped /\ JobsApart /\ TransactionsOwned /\ CommittedWhole
      /\ JoinedWrites /\ Writes \in Nat /\ jobs \in Nat
  BY ConnectionsAssumption DEF TypeOK, TransactionsInv, JobsTyped
<1>. DEFINE write == <<job[p], step[p]>>
            t == [owner |-> tx[held[p]].owner, writes |-> tx[held[p]].writes \cup {write}]
<1>1. /\ pc[p] = "writing" /\ InTransaction(p) /\ job[p] \in 1..jobs /\ kind[job[p]] = "transaction"
      /\ step[p] \in Nat /\ step[p] # 0 /\ held[p] \in open /\ held[p] \in Connection
      /\ Entangles(p) /\ UNCHANGED <<made, open, aborted, jobs, pc, job, held, kind, answer, joined>>
      /\ step' = [step EXCEPT ![p] = step[p] + 1] /\ Connection' = Connection
      /\ \/ /\ tx[held[p]] = None /\ UNCHANGED tx /\ committed' = committed \cup {write}
         \/ /\ tx[held[p]] # None /\ tx' = [tx EXCEPT ![held[p]] = t] /\ UNCHANGED committed
  BY <1>0
  DEF WriteSucceeds, Execute, InTransaction, HandlersTyped, JobsApart, DatabaseTyped, Connection
<1>2. tx[held[p]] # None => t \in Transactions /\ t # None
  <2>1. tx[held[p]] # None => tx[held[p]] \in Transactions
    BY <1>0, <1>1, ElementOfSeq, LenProperties DEF DatabaseTyped, Connection
  <2>2. write \in Nat \X Nat  BY <1>0, <1>1 DEF HandlersTyped
  <2>. QED  BY <2>1, <2>2, NoneAssumption DEF Transactions
<1>3. /\ tx[held[p]] # None => tx'[held[p]] = t
      /\ \A c \in Connection : c # held[p] \/ tx[c] = None => tx'[c] = tx[c]
  BY <1>0, <1>1, <1>2, TransactionSet
<1>4. /\ \A q \in Handlers : InTransaction(q)' <=> InTransaction(q)
      /\ \A q \in Handlers \ {p} : step'[q] = step[q]
      /\ step'[p] = step[p] + 1
  BY <1>0, <1>1 DEF InTransaction, HandlersTyped
<1>5. /\ entangled \subseteq entangled'
      /\ tx[held[p]] # None => tx[held[p]].owner \in entangled' \cup {job[p]}
      /\ job[p] \notin entangled' => tx[held[p]] = None \/ tx[held[p]].owner = job[p]
      /\ job[p] \notin entangled' => entangled' = entangled
      /\ \A q \in Handlers \ {p} :
           InTransaction(q) => /\ job[q] # job[p]
                               /\ held[q] = held[p] => job[q] \in entangled'
  BY <1>0, <1>1, Meeting
<1>6. job[p] \notin entangled' =>
        /\ tx[held[p]] # None /\ tx[held[p]].owner = job[p] /\ held[p] \notin aborted
        /\ \A i \in Nat : <<job[p], i>> \in tx[held[p]].writes <=> i \in 1..(step[p] - 1)
  BY <1>0, <1>1, <1>5 DEF TransactionsOwned, InOwn
<1>7. TransactionsOwned'
  <2>1. ASSUME NEW c \in Connection PROVE OpenTransaction(c)'
    <3>1. OpenTransaction(c) /\ \A w : Answered(w)' <=> Answered(w)
      BY <1>0, <1>1 DEF TransactionsOwned, Answered
    <3>2. CASE c = held[p] /\ tx[c] # None
      <4>1. tx'[c] = t /\ tx[c].owner = tx'[c].owner  BY <1>3, <3>2
      <4>2. \A w \in tx'[c].writes : w[1] = tx'[c].owner \/ w[1] \in entangled' \/ Answered(w)'
        <5>1. write[1] = tx[c].owner \/ write[1] \in entangled'  BY <1>5, <3>2
        <5>2. \A w \in tx'[c].writes : w = write \/ w \in tx[c].writes  BY <3>2, <4>1
        <5>. QED  BY <1>5, <3>1, <3>2, <4>1, <5>1, <5>2 DEF OpenTransaction
      <4>. QED  BY <1>1, <1>4, <3>1, <3>2, <4>1, <4>2 DEF OpenTransaction
    <3>3. CASE c # held[p] \/ tx[c] = None
      <4>1. tx'[c] = tx[c]  BY <1>3, <3>3
      <4>. QED  BY <1>1, <1>4, <1>5, <3>1, <4>1 DEF OpenTransaction
    <3>. QED  BY <3>2, <3>3
  <2>2. ASSUME NEW q \in Handlers, InTransaction(q) PROVE InOwn(q)'
    <3>1. CASE q = p /\ job[p] \notin entangled'
      <4>1. ASSUME NEW i \in Nat
            PROVE  <<job[p], i>> \in tx'[held[p]].writes <=> i \in 1..(step'[p] - 1)
        <5>1. <<job[p], i>> \in tx[held[p]].writes <=> i \in 1..(step[p] - 1)
          BY <1>6, <3>1
        <5>2. <<job[p], i>> \in tx'[held[p]].writes
                <=> <<job[p], i>> \in tx[held[p]].writes \/ i = step[p]
          BY <1>3, <1>6, <3>1
        <5>. QED  BY <1>1, <1>4, <5>1, <5>2
      <4>. QED  BY <1>1, <1>2, <1>3, <1>6, <3>1, <4>1 DEF InOwn
    <3>2. CASE job[q] \in entangled'
      BY <1>0, <1>1, <2>2, <3>2 DEF TransactionsOwned, InOwn
    <3>3. CASE q # p /\ job[q] \notin entangled'
      <4>1. /\ InOwn(q) /\ held[q] \in Connection /\ held[q] # held[p]
        BY <1>0, <1>5, <2>2, <3>3 DEF TransactionsOwned, InOwn
      <4>. QED  BY <1>1, <1>3, <1>4, <1>5, <2>2, <3>3, <4>1 DEF InOwn
    <3>. QED  BY <3>1, <3>2, <3>3
  <2>3. \A c \in aborted' : tx'[c] # None
    BY <1>0, <1>1, <1>2, <1>3 DEF TransactionsOwned, DatabaseTyped
  <2>. QED  BY <1>1, <1>4, <2>1, <2>2, <2>3 DEF TransactionsOwned, InOwn
<1>8. CommittedWhole'
  <2>1. committed \subseteq committed' /\ \A w \in committed' : w \in committed \/ w[1] \in entangled'
    BY <1>1, <1>6
  <2>2. \A w \in committed' : Whole(w)'
    BY <1>0, <1>1, <1>5, <2>1 DEF CommittedWhole, Whole, Answered, WritesOf
  <2>. QED  BY <1>0, <1>1, <1>5, <2>1, <2>2 DEF CommittedWhole, WritesOf
<1>9. JoinedWrites'
  <2>1. ASSUME NEW j \in 1..jobs, answer[j] = "ok", kind[j] = "execute",
               <<j, 1>> \notin committed', joined[j] \notin entangled'
        PROVE  /\ joined[j] \in 1..jobs /\ kind[joined[j]] = "transaction" /\ answer[joined[j]] # "ok"
               /\ \A q \in Handlers : job[q] = joined[j] /\ pc[q] \in Unanswered =>
                    InTransaction(q)' /\ (held[q] \in open => <<j, 1>> \in tx'[held[q]].writes)
    <3>1. /\ joined[j] \in 1..jobs /\ kind[joined[j]] = "transaction" /\ answer[joined[j]] # "ok"
          /\ \A q \in Handlers : job[q] = joined[j] /\ pc[q] \in Unanswered =>
               InTransaction(q) /\ (held[q] \in open => <<j, 1>> \in tx[held[q]].writes)
      BY <1>0, <1>1, <1>5, <2>1 DEF JoinedWrites, Joined
    <3>2. ASSUME NEW q \in Handlers, job[q] = joined[j], pc[q] \in Unanswered
          PROVE  InTransaction(q)' /\ (held[q] \in open => <<j, 1>> \in tx'[held[q]].writes)
      <4>1. /\ InTransaction(q) /\ InTransaction(q)' /\ held[q] \in Connection
            /\ held[q] \in open => <<j, 1>> \in tx[held[q]].writes
        BY <1>0, <1>4, <3>1, <3>2 DEF TransactionsOwned, InOwn
      <4>2. CASE held[q] # held[p]  BY <1>3, <4>1, <4>2
      <4>3. CASE held[q] = held[p]
        <5>1. q = p  BY <1>5, <2>1, <3>2, <4>1, <4>3
        <5>2. job[p] \notin entangled'  BY <2>1, <3>2, <5>1
        <5>. QED  BY <1>3, <1>6, <4>1, <4>3, <5>1, <5>2
      <4>. QED  BY <4>2, <4>3
    <3>. QED  BY <3>1, <3>2
  <2>. QED  BY <1>1, <2>1 DEF JoinedWrites, Joined
<1>. QED  BY <1>7, <1>8, <1>9

LEMMA ExecuteSteps ==
  ASSUME TypeOK, TransactionsInv, [Next]_vars, NEW p \in Handlers, ExecuteMany(p)
  PROVE  TransactionsOwned' /\ CommittedWhole' /\ JoinedWrites'
<1>0. /\ HandlersTyped /\ DatabaseTyped /\ JobsApart /\ TransactionsOwned /\ CommittedWhole
      /\ JoinedWrites /\ jobs \in Nat /\ 1..jobs \subseteq Jobs /\ "ok" # None /\ "raised" # None
      /\ DOMAIN joined = Jobs
  BY ConnectionsAssumption, NoneAssumption DEF TypeOK, TransactionsInv, JobsTyped, Jobs, Answers
<1>1. /\ pc[p] = "execute" /\ pc[p] \in Unanswered /\ ~InTransaction(p) /\ Ends(p, "ok")
      /\ held[p] \in open /\ held[p] \in Connection
      /\ UNCHANGED <<made, open, aborted, entangled, jobs, kind>>
      /\ joined' = [joined EXCEPT ![job[p]] = IF tx[held[p]] = None THEN None ELSE tx[held[p]].owner]
  BY <1>0 DEF ExecuteMany, Execute, InTransaction, DatabaseTyped, Unanswered
<1>2. /\ job[p] \in 1..jobs /\ answer[job[p]] = None /\ answer'[job[p]] = "ok"
      /\ \A j \in Jobs \ {job[p]} : answer'[j] = answer[j]
      /\ ~InTransaction(p)' /\ pc'[p] \notin Unanswered
      /\ \A q \in Handlers \ {p} :
           /\ UNCHANGED <<pc[q], job[q], held[q], step[q]>>
           /\ InTransaction(q)' <=> InTransaction(q)
      /\ Connection' = Connection
  BY <1>0, <1>1, EndsQuiet DEF Answers
<1>3. /\ kind[job[p]] = "execute"
      /\ joined'[job[p]] = (IF tx[held[p]] = None THEN None ELSE tx[held[p]].owner)
      /\ \A j \in Jobs \ {job[p]} : joined'[j] = joined[j]
  BY <1>0, <1>1, <1>2 DEF JobsApart
<1>4. /\ \A w : Answered(w) => Answered(w)'
      /\ \A w : w = <<job[p], 1>> => Answered(w)'
  BY <1>0, <1>1, <1>2, <1>3 DEF Answered
<1>5. committed' = committed \cup {<<job[p], 1>>} => CommittedWhole'
  <2>. SUFFICES ASSUME committed' = committed \cup {<<job[p], 1>>} PROVE CommittedWhole'
    OBVIOUS
  <2>1. ASSUME NEW w \in committed' PROVE Whole(w)'
    <3>1. CASE w = <<job[p], 1>>  BY <1>4, <3>1 DEF Whole
    <3>2. CASE w \in committed
      <4>1. Whole(w)  BY <1>0, <3>2 DEF CommittedWhole
      <4>2. WritesOf(w[1], "transaction")' = WritesOf(w[1], "transaction")  BY DEF WritesOf
      <4>3. w[1] \in 1..jobs /\ answer[w[1]] \in {"ok", "raised"} => answer'[w[1]] = answer[w[1]]
        BY <1>0, <1>2
      <4>. QED  BY <1>1, <1>4, <4>1, <4>2, <4>3 DEF Whole
    <3>. QED  BY <2>1, <3>1, <3>2
  <2>2. ASSUME NEW j \in (1..jobs) \ entangled, answer'[j] = "ok", kind[j] = "transaction"
        PROVE  WritesOf(j, "transaction") \subseteq committed'
    BY <1>0, <1>2, <1>3, <2>2 DEF CommittedWhole
  <2>. QED  BY <1>1, <2>1, <2>2 DEF CommittedWhole, WritesOf
<1>6. committed' = committed => CommittedWhole'
  <2>. SUFFICES ASSUME committed' = committed PROVE CommittedWhole'
    OBVIOUS
  <2>1. ASSUME NEW w \in committed PROVE Whole(w)'
    <3>1. Whole(w)  BY <1>0, <2>1 DEF CommittedWhole
    <3>2. WritesOf(w[1], "transaction")' = WritesOf(w[1], "transaction")  BY DEF WritesOf
    <3>3. w[1] \in 1..jobs /\ answer[w[1]] \in {"ok", "raised"} => answer'[w[1]] = answer[w[1]]
      BY <1>0, <1>2
    <3>. QED  BY <1>1, <1>4, <3>1, <3>2, <3>3 DEF Whole
  <2>2. ASSUME NEW j \in (1..jobs) \ entangled, answer'[j] = "ok", kind[j] = "transaction"
        PROVE  WritesOf(j, "transaction") \subseteq committed
    BY <1>0, <1>2, <1>3, <2>2 DEF CommittedWhole
  <2>. QED  BY <1>1, <2>1, <2>2 DEF CommittedWhole, WritesOf
<1>7. CASE tx[held[p]] = None
  <2>1. committed' = committed \cup {<<job[p], 1>>} /\ UNCHANGED tx
    BY <1>7 DEF ExecuteMany, Execute
  <2>2. JobsContinue  BY <1>0, <1>1, <1>2, <1>3 DEF JobsContinue
  <2>3. Quiet  BY <1>0, <1>1, <1>2, <2>1, <2>2 DEF Quiet, TransactionsOwned, InOwn
  <2>4. JoinedWrites'
    <3>1. ASSUME NEW j \in 1..jobs, answer'[j] = "ok", kind[j] = "execute",
                 <<j, 1>> \notin committed', joined'[j] \notin entangled
          PROVE  /\ joined'[j] \in 1..jobs /\ kind[joined'[j]] = "transaction"
                 /\ answer'[joined'[j]] # "ok"
                 /\ \A q \in Handlers : job'[q] = joined'[j] /\ pc'[q] \in Unanswered =>
                      InTransaction(q)' /\ (held'[q] \in open => <<j, 1>> \in tx[held'[q]].writes)
      <4>1. j # job[p] /\ <<j, 1>> \notin committed  BY <2>1, <3>1
      <4>2. joined'[j] = joined[j] /\ answer[j] = "ok"  BY <1>0, <1>2, <1>3, <3>1, <4>1
      <4>. QED  BY <1>0, <1>2, <1>3, <3>1, <4>1, <4>2 DEF JoinedWrites, Joined
    <3>. QED  BY <1>1, <2>1, <3>1 DEF JoinedWrites, Joined
  <2>. QED  BY <1>0, <1>5, <2>1, <2>3, <2>4, QuietOwned
<1>8. CASE tx[held[p]] # None
  <2>1. tx[held[p]] \in Transactions
    BY <1>0, <1>1, <1>8, ElementOfSeq, LenProperties DEF DatabaseTyped, Connection
  <2>. DEFINE t == [owner |-> tx[held[p]].owner, writes |-> tx[held[p]].writes \cup {<<job[p], 1>>}]
  <2>2. t \in Transactions /\ t # None /\ tx' = [tx EXCEPT ![held[p]] = t] /\ committed' = committed
    BY <1>0, <1>2, <1>8, <2>1, NoneAssumption DEF ExecuteMany, Execute, Transactions
  <2>3. tx'[held[p]] = t /\ \A c \in Connection \ {held[p]} : tx'[c] = tx[c]
    BY <1>0, <1>1, <2>2, TransactionSet
  <2>. DEFINE o == tx[held[p]].owner
  <2>4. /\ o \in 1..jobs /\ kind[o] = "transaction" /\ o # job[p] /\ answer'[o] = answer[o]
        /\ answer[o] # "ok"
        /\ \A q \in Handlers : job[q] = o /\ pc[q] \in Unanswered =>
             InTransaction(q) /\ held[q] = held[p]
    <3>1. /\ o \in 1..jobs /\ kind[o] = "transaction"
          /\ \/ \E q \in Handlers : InTransaction(q) /\ held[q] = held[p] /\ job[q] = o
             \/ answer[o] = "raised"
      BY <1>0, <1>1, <1>8 DEF TransactionsOwned, OpenTransaction
    <3>2. o # job[p] /\ answer'[o] = answer[o]  BY <1>0, <1>2, <1>3, <3>1
    <3>3. CASE answer[o] = "raised"  BY <1>0, <3>1, <3>2, <3>3 DEF JobsApart, Unanswered
    <3>4. ASSUME NEW q \in Handlers, InTransaction(q), held[q] = held[p], job[q] = o
          PROVE  /\ answer[o] # "ok"
                 /\ \A r \in Handlers : job[r] = o /\ pc[r] \in Unanswered => r = q
      BY <1>0, <3>4 DEF JobsApart, InTransaction, Unanswered
    <3>. QED  BY <3>1, <3>2, <3>3, <3>4
  <2>5. TransactionsOwned'
    <3>1. ASSUME NEW c \in Connection, tx'[c] # None PROVE OpenTransaction(c)'
      <4>1. tx[c] # None /\ tx'[c].owner = tx[c].owner  BY <1>8, <2>3, <3>1
      <4>2. OpenTransaction(c)  BY <1>0 DEF TransactionsOwned
      <4>3. \/ \E q \in Handlers : InTransaction(q)' /\ held'[q] = c /\ job'[q] = tx[c].owner
            \/ answer'[tx[c].owner] = "raised"
        BY <1>0, <1>1, <1>2, <1>3, <4>1, <4>2 DEF OpenTransaction
      <4>4. \A w \in tx'[c].writes : w \in tx[c].writes \/ w = <<job[p], 1>>  BY <2>3
      <4>5. \A w \in tx'[c].writes : w[1] = tx[c].owner \/ w[1] \in entangled \/ Answered(w)'
        BY <1>4, <4>1, <4>2, <4>4 DEF OpenTransaction
      <4>. QED  BY <1>1, <4>1, <4>2, <4>3, <4>5 DEF OpenTransaction
    <3>2. ASSUME NEW q \in Handlers, InTransaction(q)' PROVE InOwn(q)'
      <4>1. /\ q # p /\ InTransaction(q) /\ UNCHANGED <<pc[q], job[q], held[q], step[q]>>
            /\ job[q] # job[p] /\ InOwn(q)
        BY <1>0, <1>1, <1>2, <3>2 DEF JobsApart, InTransaction, TransactionsOwned
      <4>2. CASE held[q] = held[p]
        BY <1>1, <1>2, <2>2, <2>3, <4>1, <4>2 DEF InOwn
      <4>3. CASE held[q] # held[p]
        BY <1>1, <1>2, <2>3, <4>1, <4>3 DEF InOwn
      <4>. QED  BY <4>2, <4>3
    <3>3. \A c \in aborted' : tx'[c] # None
      BY <1>0, <1>1, <2>2, <2>3 DEF TransactionsOwned, DatabaseTyped
    <3>. QED  BY <1>1, <1>2, <3>1, <3>2, <3>3 DEF TransactionsOwned, OpenTransaction, InOwn
  <2>6. JoinedWrites'
    <3>1. ASSUME NEW j \in 1..jobs, answer'[j] = "ok", kind[j] = "execute",
                 <<j, 1>> \notin committed, joined'[j] \notin entangled
          PROVE  /\ joined'[j] \in 1..jobs /\ kind[joined'[j]] = "transaction"
                 /\ answer'[joined'[j]] # "ok"
                 /\ \A q \in Handlers : job'[q] = joined'[j] /\ pc'[q] \in Unanswered =>
                      InTransaction(q)' /\ (held'[q] \in open => <<j, 1>> \in tx'[held'[q]].writes)
      <4>1. CASE j = job[p]  BY <1>2, <1>3, <1>8, <2>3, <2>4, <4>1
      <4>2. CASE j # job[p]
        <5>1. /\ joined'[j] = joined[j] /\ joined[j] \in 1..jobs /\ kind[joined[j]] = "transaction"
              /\ answer[joined[j]] # "ok"
              /\ \A q \in Handlers : job[q] = joined[j] /\ pc[q] \in Unanswered =>
                   InTransaction(q) /\ (held[q] \in open => <<j, 1>> \in tx[held[q]].writes)
          BY <1>0, <1>2, <1>3, <3>1, <4>2 DEF JoinedWrites, Joined
        <5>2. answer'[joined[j]] # "ok"  BY <1>0, <1>2, <1>3, <5>1
        <5>3. ASSUME NEW q \in Handlers, job'[q] = joined[j], pc'[q] \in Unanswered
              PROVE  InTransaction(q)' /\ (held'[q] \in open => <<j, 1>> \in tx'[held'[q]].writes)
          <6>1. /\ q # p /\ UNCHANGED <<pc[q], job[q], held[q]>>
                /\ InTransaction(q) /\ InTransaction(q)'
                /\ (held[q] \in open => <<j, 1>> \in tx[held[q]].writes) /\ held[q] \in Connection
            BY <1>0, <1>2, <5>1, <5>3 DEF TransactionsOwned, InOwn
          <6>. QED  BY <2>3, <6>1
        <5>. QED  BY <5>1, <5>2, <5>3
      <4>. QED  BY <4>1, <4>2
    <3>. QED  BY <1>1, <2>2, <3>1 DEF JoinedWrites, Joined
  <2>. QED  BY <1>6, <2>2, <2>5, <2>6
<1>. QED  BY <1>7, <1>8

LEMMA TransactionsStep ==
  ASSUME TypeOK, TransactionsInv, [Next]_vars
  PROVE  TransactionsInv'
<1>0. JobsApart /\ TransactionsOwned /\ JobsApart'  BY JobsApartStep DEF TransactionsInv
<1>1. ASSUME Silent PROVE TransactionsInv'
  BY <1>0, <1>1, QuietOwned, QuietCommitted DEF Silent, TransactionsInv
<1>2. CASE \/ OpenPool \/ ReapIdle \/ ClosePool \/ PoolCloses \/ Tick \/ UNCHANGED vars
           \/ \E key \in Reaped : ReapCloses(key) \/ ReapRaises(key)
  BY <1>0, <1>1, <1>2, ConnectionSteps
<1>3. ASSUME NEW p \in Handlers, Starts(p) PROVE TransactionsInv'
  BY <1>0, <1>1, <1>3, StartSteps
<1>4. ASSUME NEW p \in Handlers, Proceeds(p) PROVE TransactionsInv'
  <2>1. CASE \/ ConnectReturns(p) \/ Release(p) \/ ConnectRaises(p) \/ LeaseRefused(p)
             \/ BeginRaises(p) \/ WriteRaises(p) \/ Cancelled(p) \/ ExecuteRaises(p)
    BY <1>0, <1>1, <2>1, CallSteps
  <2>2. CASE Rollback(p) \/ RollbackRaises(p) \/ (CommitRaises(p) /\ UNCHANGED database)
    BY <1>0, <1>1, <2>2, RollbackSteps
  <2>3. CASE Commit(p) \/ (CommitRaises(p) /\ Commits(held[p]) /\ Entangles(p))
    BY <1>0, <2>3, CommitSteps DEF TransactionsInv
  <2>4. CASE Begin(p)  BY <1>0, <2>4, BeginSteps DEF TransactionsInv
  <2>5. CASE WriteSucceeds(p)  BY <1>0, <2>5, WriteSteps DEF TransactionsInv
  <2>6. CASE ExecuteMany(p)  BY <1>0, <2>6, ExecuteSteps DEF TransactionsInv
  <2>. QED  BY <1>4, <2>1, <2>2, <2>3, <2>4, <2>5, <2>6 DEF Proceeds, CommitRaises
<1>. QED  BY <1>2, <1>3, <1>4 DEF Next

LEMMA TransactionsInit == Init => TransactionsInv
<1>. SUFFICES ASSUME Init PROVE TransactionsInv
  OBVIOUS
<1>1. JobsApart  BY ConnectionsAssumption DEF Init, JobsApart, Jobs
<1>2. TransactionsOwned  BY DEF Init, TransactionsOwned, OpenTransaction, InOwn, Connection, InTransaction
<1>3. CommittedWhole /\ JoinedWrites  BY DEF Init, CommittedWhole, JoinedWrites
<1>. QED  BY <1>1, <1>2, <1>3 DEF TransactionsInv

(* What execute, commit and rollback rely on: the jobs of one connection   *)
(* keep apart, or are known to have met; an open transaction is its        *)
(* owner's, a commit takes all of its writes, and a write without a        *)
(* transaction joins the open one.                                         *)
THEOREM TransactionsInvariant == Spec => []TransactionsInv
<1>1. TypeOK /\ TransactionsInv /\ [Next]_vars => TransactionsInv'  BY TransactionsStep
<1>. QED  BY <1>1, TransactionsInit, ConnectionsTypeCorrect, PTL DEF Spec

(* Every write of a transaction commits, or none does, whoever shares its  *)
(* connection and wherever begin, a write, the rollback or the commit      *)
(* raises or the task is cancelled (transaction.py), as long as no second  *)
(* transaction ran in the same open one.                                   *)
THEOREM WritesAreAllOrNothing == Spec => []WritesAllOrNothing
<1>1. TypeOK /\ TransactionsInv => WritesAllOrNothing
  <2>. SUFFICES ASSUME TypeOK, TransactionsInv, NEW j \in (1..jobs) \ entangled
                PROVE  LET kept == WritesOf(j, kind[j]) \cap committed
                       IN /\ kept \in {{}, WritesOf(j, kind[j])}
                          /\ answer[j] = "write_failed" => kept = {}
                          /\ answer[j] = "ok" /\ kind[j] = "transaction" => kept = WritesOf(j, kind[j])
    BY DEF WritesAllOrNothing
  <2>1. kind[j] \in Kinds /\ CommittedWhole
    BY ConnectionsAssumption DEF TypeOK, JobsTyped, TransactionsInv, JobsApart, Jobs
  <2>2. /\ \A w \in WritesOf(j, kind[j]) : w[1] = j
        /\ \A w \in committed : Whole(w)
    BY <2>1 DEF WritesOf, CommittedWhole
  <2>3. CASE kind[j] = "transaction"
    BY <2>1, <2>2, <2>3 DEF CommittedWhole, Whole, Answered
  <2>4. CASE kind[j] = "execute"
    <3>1. WritesOf(j, kind[j]) = {<<j, 1>>}  BY <2>4 DEF WritesOf
    <3>. QED  BY <2>1, <2>2, <2>4, <3>1 DEF Whole, Answered
  <2>. QED  BY <2>1, <2>3, <2>4 DEF Kinds
<1>. QED  BY <1>1, ConnectionsTypeCorrect, TransactionsInvariant, PTL

(* An answered write outside a transaction is kept, or it joined another   *)
(* job's transaction, which was not answered ok (execute.py) or met a      *)
(* second one.                                                             *)
THEOREM AckedWritesDoStay == Spec => []AckedWritesStay
<1>1. TypeOK /\ TransactionsInv => AckedWritesStay
  <2>. SUFFICES ASSUME TypeOK, TransactionsInv PROVE AckedWritesStay
    OBVIOUS
  <2>1. None \notin Nat /\ entangled \subseteq Nat /\ 1..jobs \subseteq Nat
    BY NoneAssumption, ConnectionsAssumption DEF TypeOK, DatabaseTyped, JobsTyped
  <2>2. ASSUME NEW j \in 1..jobs, answer[j] = "ok", kind[j] = "execute"
        PROVE  \/ <<j, 1>> \in committed
               \/ joined[j] \in entangled
               \/ joined[j] \in 1..jobs /\ answer[joined[j]] # "ok"
    BY <2>2 DEF TransactionsInv, JoinedWrites, Joined
  <2>3. ASSUME NEW j \in 1..jobs, answer[j] = "ok", kind[j] = "execute", <<j, 1>> \notin committed
        PROVE  joined[j] # None /\ (answer[joined[j]] # "ok" \/ joined[j] \in entangled)
    BY <2>1, <2>2, <2>3
  <2>. QED  BY <2>3 DEF AckedWritesStay
<1>. QED  BY <1>1, ConnectionsTypeCorrect, TransactionsInvariant, PTL

(* A transaction left open is that of the handler in it, or was left by a  *)
(* raised commit or rollback or a cancelled task (transaction.py).         *)
THEOREM OpenTransactionsHaveOwners == Spec => []OpenTransactionHasOwner
<1>1. TransactionsInv => OpenTransactionHasOwner
  BY DEF TransactionsInv, TransactionsOwned, OpenTransaction, OpenTransactionHasOwner
<1>. QED  BY <1>1, TransactionsInvariant, PTL

-----------------------------------------------------------------------------
(* The registry and the pool.  A registry someone holds names each pool by *)
(* what its connection was opened for; a pool someone holds has leased     *)
(* connections only.                                                       *)
Holding == {"begin", "writing", "rollback", "execute", "release"}
IsLeased(c, m) == c \in 1..Len(m) /\ m[c] = Leased
AllLeased(seq, m) == \A i \in DOMAIN seq : IsLeased(seq[i], m)
Fits(r, m) ==
  \A k \in DOMAIN r : LET c == r[k].conn
                      IN c \in 1..Len(m) /\ m[c] # Leased /\ PoolKey(m[c]) = k

PoolsFit ==
  /\ Fits(registry, made)
  /\ reaping # None => /\ Fits(reaping.given, made) /\ reaping.now <= now
                       /\ reaping.left \subseteq Expired(reaping.given, reaping.now, Threshold)
  /\ AllLeased(opening.opened, made)
  /\ pool # None => AllLeased(pool.idle, made)
  /\ closing # None => AllLeased(closing.left, made) /\ AllLeased(closing.given.idle, made)

HandlersFit ==
  \A p \in Handlers :
    /\ pc[p] = "connecting" =>
         Fits(given[p], made) /\ PoolKey(ResolvePoolKey(source[p])) \notin DOMAIN given[p]
    /\ pc[p] = "refused" => source[p] = Leased /\ AllLeased(given[p].idle, made)
    /\ pc[p] \in Holding =>
         held[p] \in Connection /\ (source[p] = Leased => IsLeased(held[p], made))

(* The registry's entries are open, and the open ones are in it; no entry  *)
(* is older than the call of a handler that holds its connection.          *)
RegistryAccounted ==
  /\ RegistryServesOpen
  /\ reaping # None =>
       \A k \in Expired(reaping.given, reaping.now, Threshold) \ reaping.left :
         reaping.given[k].conn \notin open
  /\ "registry" \notin mishaps =>
       /\ \A c \in open : made[c] # Leased =>
            PoolKey(made[c]) \in DOMAIN registry /\ registry[PoolKey(made[c])].conn = c
       /\ \A k \in DOMAIN registry, p \in Handlers :
            Holds(p, registry[k].conn) => since[p] <= registry[k].last_used
       /\ \A k \in Reaped, p \in Handlers :
            Holds(p, reaping.given[k].conn) =>
              reaping.now - since[p] > Threshold \/ since[p] >= reaping.now

LEMMA MadeStays ==
  ASSUME TypeOK, [Next]_vars
  PROVE  /\ Grows /\ Connection = 1..Len(made) /\ Connection' = 1..Len(made') /\ Connection \subseteq Connection'
         /\ \A c \in Connection : made'[c] = made[c]
         /\ \A c : IsLeased(c, made) => IsLeased(c, made')
         /\ \A seq : AllLeased(seq, made) => AllLeased(seq, made')
         /\ \A r : Fits(r, made) => Fits(r, made')
<1>1. Grows /\ DatabaseTyped  BY NumbersGrow DEF TypeOK
<1>2. UNCHANGED made \/ \E s \in Selectors \cup {Leased} : Opens(s)
  <2>1. \A p \in Handlers : pc[p] = "connecting" => ResolvePoolKey(source[p]) \in Selectors
    BY DEF TypeOK, HandlersTyped
  <2>2. CASE \/ OpenPool \/ ReapIdle \/ ClosePool \/ PoolCloses \/ Tick \/ UNCHANGED vars
             \/ \E key \in Reaped : ReapCloses(key) \/ ReapRaises(key)
    BY <2>2
    DEF OpenPool, PoolConnects, OpenedCloses, OpenedCloseRaises, AttemptRaises, ReapIdle, ClosePool,
        PoolCloses, Tick, ReapCloses, ReapRaises, Closes, vars
  <2>3. ASSUME NEW p \in Handlers, Starts(p) PROVE UNCHANGED made
    BY <2>3
    DEF Starts, LeaseConnection, LeaseExhausted, UnknownDatabase, CachedPool, FirstContact
  <2>4. ASSUME NEW p \in Handlers, Proceeds(p)
        PROVE  UNCHANGED made \/ \E s \in Selectors \cup {Leased} : Opens(s)
    BY <2>1, <2>4
    DEF Proceeds, ConnectReturns, ConnectRaises, LeaseRefused, Release, Begin, BeginRaises,
        WriteSucceeds, WriteRaises, Rollback, RollbackRaises, Commit, CommitRaises, Cancelled,
        ExecuteMany, ExecuteRaises
  <2>. QED  BY <2>2, <2>3, <2>4 DEF Next
<1>3. Connection \subseteq Connection' /\ \A c \in Connection : made'[c] = made[c]
  BY <1>1, <1>2, OpensProperties DEF Connection
<1>. QED  BY <1>1, <1>3 DEF Connection, IsLeased, AllLeased, Fits

LEMMA LeasedSequences ==
  ASSUME NEW m, NEW seq \in Seq(Nat), AllLeased(seq, m)
  PROVE  /\ seq # << >> => AllLeased(Tail(seq), m) /\ IsLeased(Head(seq), m)
         /\ \A c \in Nat : IsLeased(c, m) => AllLeased(Append(seq, c), m)
<1>1. ASSUME seq # << >> PROVE AllLeased(Tail(seq), m) /\ IsLeased(Head(seq), m)
  BY <1>1, HeadTailProperties, LenProperties DEF AllLeased
<1>2. ASSUME NEW c \in Nat, IsLeased(c, m) PROVE AllLeased(Append(seq, c), m)
  BY <1>2, AppendProperties, LenProperties DEF AllLeased
<1>. QED  BY <1>1, <1>2

LEMMA PoolsFitStep ==
  ASSUME TypeOK, PoolsFit, HandlersFit, [Next]_vars
  PROVE  PoolsFit'
<1>0. /\ PoolsTyped /\ HandlersTyped /\ DatabaseTyped /\ now \in Nat /\ now' \in Nat /\ now <= now'
      /\ Connection \subseteq Nat /\ IsRegistry(registry) /\ Connection = 1..Len(made)
      /\ \A seq : AllLeased(seq, made) => AllLeased(seq, made')
      /\ \A r : Fits(r, made) => Fits(r, made')
      /\ \A c : IsLeased(c, made) => IsLeased(c, made')
      /\ None \notin Pools /\ AllLeased(<< >>, made') /\ (reaping # None => reaping.now \in Nat)
  <2>1. PoolsTyped  BY DEF TypeOK
  <2>2. reaping # None => reaping.now \in Nat  BY <2>1 DEF PoolsTyped, Reaps
  <2>. QED
    BY <2>2, MadeStays, NoneAssumption DEF TypeOK, Grows, AllLeased, PoolsTyped, Connection
<1>. USE DEF pools
<1>1. ASSUME UNCHANGED <<registry, reaping, opening, pool, closing>> PROVE PoolsFit'
  BY <1>0, <1>1 DEF PoolsFit
<1>2. CASE PoolConnects
  <2>1. /\ opening.opened \in Seq(Connection) /\ opening.opened \in Seq(Nat) /\ NewConnection \in Nat
        /\ IsLeased(NewConnection, made') /\ AllLeased(opening.opened, made')
    BY <1>0, <1>2, OpensProperties, SeqMonotonic
    DEF PoolConnects, PoolsTyped, PoolsFit, IsLeased, Connection, NewConnection
  <2>2. AllLeased(Append(opening.opened, NewConnection), made')  BY <2>1, LeasedSequences
  <2>3. UNCHANGED <<registry, reaping, closing, now>>  BY <1>2 DEF PoolConnects
  <2>4. CASE Len(Append(opening.opened, NewConnection)) = size
    <3>1. /\ opening' = Opening("open", << >>, 0)
          /\ pool' = NewPool(Append(opening.opened, NewConnection))
      BY <1>2, <2>4 DEF PoolConnects, KeepPool
    <3>2. opening'.opened = << >> /\ pool'.idle = Append(opening.opened, NewConnection)
      BY <3>1 DEF Opening, NewPool
    <3>. QED  BY <1>0, <2>2, <2>3, <3>2 DEF PoolsFit
  <2>5. CASE Len(Append(opening.opened, NewConnection)) # size
    <3>1. /\ opening' = Opening("connecting", Append(opening.opened, NewConnection), 0)
          /\ pool' = pool
      BY <1>2, <2>5 DEF PoolConnects
    <3>2. opening'.opened = Append(opening.opened, NewConnection)
      BY <3>1 DEF Opening
    <3>. QED  BY <1>0, <2>2, <2>3, <3>1, <3>2 DEF PoolsFit
  <2>. QED  BY <2>4, <2>5
<1>3. CASE \E code \in {"unresolvable_dsn", "credential_rejected"} : AttemptRaises(code)
  BY <1>0, <1>3 DEF AttemptRaises, Opening, PoolsFit, PoolsTyped
<1>4. CASE OpenedCloses
  <2>1. opening.opened # << >> /\ opening.opened \in Seq(Nat)
    BY <1>0, <1>4, SeqMonotonic DEF OpenedCloses, PoolsTyped
  <2>2. AllLeased(Tail(opening.opened), made')  BY <1>0, <2>1, LeasedSequences DEF PoolsFit
  <2>. QED  BY <1>0, <1>4, <2>2 DEF OpenedCloses, Opening, PoolsFit, PoolsTyped
<1>5. CASE OpenedCloseRaises  BY <1>0, <1>5 DEF OpenedCloseRaises, Opening, PoolsFit, PoolsTyped
<1>6. CASE ReapIdle  BY <1>0, <1>6 DEF ReapIdle, PoolsFit, PoolsTyped
<1>7. ASSUME NEW key \in Reaped, ReapCloses(key) \/ ReapRaises(key) PROVE PoolsFit'
  <2>1. reaping # None /\ Fits(Kept(reaping.given, reaping.now, Threshold), made)
    BY <1>7 DEF ReapCloses, ReapRaises, PoolsFit, Fits, Kept
  <2>. QED
    BY <1>0, <1>7, <2>1
    DEF ReapCloses, ReapRaises, KeepRegistry, StillToClose, PoolsFit, PoolsTyped
<1>8. CASE ClosePool  BY <1>0, <1>8 DEF ClosePool, PoolsFit, PoolsTyped
<1>9. CASE PoolCloses
  <2>1. closing # None /\ closing.left \in Seq(Nat) /\ closing.given \in Pools
    BY <1>0, <1>9 DEF PoolCloses, PoolsTyped
  <2>2. closing.left # << >> => AllLeased(Tail(closing.left), made')
    BY <1>0, <2>1, LeasedSequences DEF PoolsFit
  <2>3. UNCHANGED <<registry, reaping, opening, now>>  BY <1>9 DEF PoolCloses
  <2>4. CASE closing.left # << >>
    <3>1. closing' = [given |-> closing.given, left |-> Tail(closing.left)] /\ pool' = pool
      BY <1>9, <2>4 DEF PoolCloses
    <3>2. closing'.given = closing.given /\ closing'.left = Tail(closing.left)  BY <3>1
    <3>. QED  BY <1>0, <2>1, <2>2, <2>3, <2>4, <3>1, <3>2 DEF PoolsFit
  <2>5. CASE closing.left = << >>
    <3>1. closing' = None /\ pool' = closing.given  BY <1>9, <2>5 DEF PoolCloses, KeepPool
    <3>. QED  BY <1>0, <2>1, <2>3, <3>1 DEF PoolsFit
  <2>. QED  BY <2>4, <2>5
<1>10. ASSUME NEW p \in Handlers, NEW k \in Kinds, NEW manifest \in Manifests, CachedPool(p, manifest, k)
       PROVE  PoolsFit'
  <2>1. registry' = WithEntry(registry, PoolKey(ResolvePoolKey(manifest)),
                              Touched(registry[PoolKey(ResolvePoolKey(manifest))], now))
        /\ PoolKey(ResolvePoolKey(manifest)) \in DOMAIN registry
    BY <1>10 DEF CachedPool, KeepRegistry
  <2>2. Fits(registry', made)  BY <2>1 DEF Fits, WithEntry, Touched, PoolsFit
  <2>. QED  BY <1>0, <1>10, <2>2 DEF CachedPool, PoolsFit, PoolsTyped
<1>11. ASSUME NEW p \in Handlers, ConnectReturns(p) PROVE PoolsFit'
  <2>. DEFINE s == ResolvePoolKey(source[p])
  <2>1. /\ s \in Selectors /\ Opens(s) /\ Fits(given[p], made) /\ s # Leased
    BY <1>0, <1>11, NoneAssumption DEF ConnectReturns, HandlersTyped, HandlersFit
  <2>2. /\ NewConnection \in 1..Len(made') /\ made'[NewConnection] = s
    BY <1>0, <2>1, OpensProperties DEF Connection
  <2>3. registry' = WithEntry(given[p], PoolKey(s), [conn |-> NewConnection, lifecycle |-> s.lifecycle,
                                                     last_used |-> since[p]])
    BY <1>11 DEF ConnectReturns, KeepRegistry
  <2>4. Fits(registry', made')  BY <1>0, <2>1, <2>2, <2>3 DEF Fits, WithEntry
  <2>. QED  BY <1>0, <1>11, <2>4 DEF ConnectReturns, PoolsFit, PoolsTyped
<1>12. ASSUME NEW p \in Handlers, NEW k \in Kinds, LeaseConnection(p, k) PROVE PoolsFit'
  <2>1. pool.idle \in Seq(Nat) /\ pool.idle # << >>
    BY <1>0, <1>12 DEF LeaseConnection, PoolsTyped, Pools, Exhausted
  <2>2. AllLeased(Tail(pool.idle), made)  BY <1>12, <2>1, LeasedSequences DEF LeaseConnection, PoolsFit
  <2>. QED  BY <1>0, <1>12, <2>2 DEF LeaseConnection, KeepPool, Acquired, PoolsFit, PoolsTyped
<1>13. ASSUME NEW p \in Handlers, LeaseRefused(p) \/ Release(p) PROVE PoolsFit'
  <2>1. CASE LeaseRefused(p)
    BY <1>0, <2>1 DEF LeaseRefused, KeepPool, HandlersFit, PoolsFit, PoolsTyped
  <2>2. CASE Release(p)
    <3>1. /\ pool # None /\ pool.idle \in Seq(Nat) /\ held[p] \in Nat /\ IsLeased(held[p], made)
      BY <1>0, <2>2 DEF Release, HandlersTyped, HandlersFit, PoolsTyped, Pools, Holding
    <3>2. AllLeased(Append(pool.idle, held[p]), made)  BY <3>1, LeasedSequences DEF PoolsFit
    <3>. QED  BY <1>0, <2>2, <3>2 DEF Release, KeepPool, ReleaseConnection, PoolsFit, PoolsTyped
  <2>. QED  BY <1>13, <2>1, <2>2
<1>14. ASSUME NEW p \in Handlers,
              \/ ConnectRaises(p) \/ Begin(p) \/ BeginRaises(p) \/ WriteSucceeds(p) \/ WriteRaises(p)
              \/ Rollback(p) \/ RollbackRaises(p) \/ Commit(p) \/ CommitRaises(p)
              \/ Cancelled(p) \/ ExecuteMany(p) \/ ExecuteRaises(p)
              \/ \E k \in Kinds : \/ LeaseExhausted(p, k)
                                  \/ \E manifest \in Manifests :
                                       UnknownDatabase(p, manifest, k) \/ FirstContact(p, manifest, k)
       PROVE  PoolsFit'
  BY <1>1, <1>14
  DEF ConnectRaises, Begin, BeginRaises, WriteSucceeds, WriteRaises, Rollback, RollbackRaises, Commit,
      CommitRaises, Cancelled, ExecuteMany, ExecuteRaises, LeaseExhausted, UnknownDatabase, FirstContact
<1>15. CASE Tick \/ UNCHANGED vars  BY <1>1, <1>15 DEF Tick, vars
<1>. QED
  BY <1>2, <1>3, <1>4, <1>5, <1>6, <1>7, <1>8, <1>9, <1>10, <1>11, <1>12, <1>13, <1>14, <1>15
  DEF Next, OpenPool, Starts, Proceeds

LEMMA HandlersFitStep ==
  ASSUME TypeOK, PoolsFit, HandlersFit, [Next]_vars
  PROVE  HandlersFit'
<1>0. /\ PoolsTyped /\ HandlersTyped /\ DatabaseTyped /\ Connection = 1..Len(made)
      /\ Connection' = 1..Len(made') /\ Connection \subseteq Connection'
      /\ \A seq : AllLeased(seq, made) => AllLeased(seq, made')
      /\ \A r : Fits(r, made) => Fits(r, made')
      /\ \A c : IsLeased(c, made) => IsLeased(c, made')
      /\ None \notin Pools /\ Leased \notin Manifests
  BY MadeStays, NoneAssumption, ConnectionsAssumption DEF TypeOK
<1>1. ASSUME UNCHANGED <<pc, local>> PROVE HandlersFit'
  BY <1>0, <1>1 DEF HandlersFit, local
<1>2. ASSUME NEW p \in Handlers, NEW a, Ends(p, a),
             held[p] = None \/ source[p] # Leased \/ pc[p] \in Holding
      PROVE  HandlersFit'
  <2>1. /\ \A q \in Handlers \ {p} :
             pc'[q] = pc[q] /\ source'[q] = source[q] /\ held'[q] = held[q] /\ given'[q] = given[q]
        /\ \/ pc'[p] = "idle"
           \/ /\ pc'[p] = "release" /\ held[p] # None /\ source[p] = Leased
              /\ held'[p] = held[p] /\ source'[p] = source[p]
    BY <1>0, <1>2, EndsProperties DEF local
  <2>. QED  BY <1>0, <1>2, <2>1 DEF HandlersFit, Holding
<1>3. CASE OpenPool \/ ReapIdle \/ ClosePool \/ PoolCloses \/ Tick \/ UNCHANGED vars
             \/ \E key \in Reaped : ReapCloses(key) \/ ReapRaises(key)
  BY <1>1, <1>3
  DEF OpenPool, PoolConnects, OpenedCloses, OpenedCloseRaises, AttemptRaises, ReapIdle, ClosePool,
      PoolCloses, Tick, ReapCloses, ReapRaises, vars
<1>4. ASSUME NEW p \in Handlers, NEW k \in Kinds, NEW manifest \in Manifests,
             \/ UnknownDatabase(p, manifest, k) \/ CachedPool(p, manifest, k) \/ FirstContact(p, manifest, k)
      PROVE  HandlersFit'
  <2>1. CASE UnknownDatabase(p, manifest, k)  BY <1>1, <2>1 DEF UnknownDatabase
  <2>2. CASE CachedPool(p, manifest, k)
    <3>1. registry[PoolKey(ResolvePoolKey(manifest))].conn \in Connection
      BY <1>0, <2>2 DEF CachedPool, PoolsFit, Fits
    <3>. QED
      BY <1>0, <2>2, <3>1 DEF CachedPool, Requested, FirstStep, HandlersTyped, HandlersFit, Holding
  <2>3. CASE FirstContact(p, manifest, k)
    BY <1>0, <2>3 DEF FirstContact, Requested, HandlersTyped, HandlersFit, PoolsFit, Holding
  <2>. QED  BY <1>4, <2>1, <2>2, <2>3
<1>5. ASSUME NEW p \in Handlers, NEW k \in Kinds, LeaseConnection(p, k) \/ LeaseExhausted(p, k)
      PROVE  HandlersFit'
  <2>1. CASE LeaseConnection(p, k)
    <3>1. pool.idle \in Seq(Nat) /\ pool.idle # << >> /\ AllLeased(pool.idle, made)
      BY <1>0, <2>1 DEF LeaseConnection, PoolsTyped, Pools, Exhausted, PoolsFit
    <3>2. IsLeased(Head(pool.idle), made) /\ Head(pool.idle) \in Connection
      BY <1>0, <3>1, LeasedSequences DEF IsLeased
    <3>. QED
      BY <1>0, <2>1, <3>2 DEF LeaseConnection, Requested, FirstStep, HandlersTyped, HandlersFit, Holding
  <2>2. CASE LeaseExhausted(p, k)
    BY <1>0, <2>2 DEF LeaseExhausted, Requested, HandlersTyped, HandlersFit, PoolsFit, Holding
  <2>. QED  BY <1>5, <2>1, <2>2
<1>6. ASSUME NEW p \in Handlers, ConnectReturns(p) PROVE HandlersFit'
  <2>1. /\ NewConnection \in Connection' /\ source[p] # Leased
    BY <1>0, <1>6, OpensProperties DEF ConnectReturns, HandlersTyped
  <2>. QED  BY <1>0, <1>6, <2>1 DEF ConnectReturns, FirstStep, HandlersTyped, HandlersFit, Holding
<1>7. ASSUME NEW p \in Handlers, Release(p) PROVE HandlersFit'
  BY <1>0, <1>7 DEF Release, Forgets, HandlersTyped, HandlersFit, Holding
<1>8. ASSUME NEW p \in Handlers, Begin(p) \/ WriteSucceeds(p) \/ WriteRaises(p) PROVE HandlersFit'
  BY <1>0, <1>8 DEF Begin, WriteSucceeds, WriteRaises, local, HandlersTyped, HandlersFit, Holding
<1>9. ASSUME NEW p \in Handlers,
             \/ BeginRaises(p) \/ Rollback(p) \/ RollbackRaises(p) \/ Commit(p) \/ CommitRaises(p)
             \/ Cancelled(p) \/ ExecuteMany(p) \/ ExecuteRaises(p)
      PROVE  HandlersFit'
  <2>1. pc[p] \in Holding /\ \E a : Ends(p, a)
    BY <1>9
    DEF BeginRaises, Rollback, RollbackRaises, Commit, CommitRaises, Cancelled, ExecuteMany,
        ExecuteRaises, Holding
  <2>. QED  BY <1>2, <2>1
<1>10. ASSUME NEW p \in Handlers, ConnectRaises(p) \/ LeaseRefused(p) PROVE HandlersFit'
  <2>1. (source[p] # Leased \/ held[p] = None) /\ \E a : Ends(p, a)
    BY <1>0, <1>10 DEF ConnectRaises, LeaseRefused, HandlersTyped
  <2>. QED  BY <1>2, <2>1
<1>. QED
  BY <1>3, <1>4, <1>5, <1>6, <1>7, <1>8, <1>9, <1>10 DEF Next, Starts, Proceeds

(* But for get_pool served from the registry, a step gives no handler a    *)
(* connection that a manifest's pool had.                                  *)
HoldsNoMore ==
  \A p \in Handlers : \A c \in Connection :
    Holds(p, c)' /\ made[c] # Leased => Holds(p, c) /\ since'[p] = since[p]

LEMMA HoldsShrink ==
  ASSUME TypeOK, PoolsFit, HandlersFit, [Next]_vars
  PROVE  \/ HoldsNoMore
         \/ \E p \in Handlers, k \in Kinds, manifest \in Manifests : CachedPool(p, manifest, k)
<1>0. /\ PoolsTyped /\ HandlersTyped /\ DatabaseTyped /\ Connection = 1..Len(made)
      /\ Leased \notin Manifests
  BY ConnectionsAssumption DEF TypeOK, Connection
<1>1. ASSUME UNCHANGED <<pc, held, since>> PROVE HoldsNoMore
  BY <1>1 DEF HoldsNoMore, Holds
<1>2. ASSUME NEW p \in Handlers, \A q \in Handlers \ {p} : UNCHANGED <<pc[q], held[q], since[q]>>,
             \/ pc'[p] \notin Holding
             \/ /\ pc[p] \in Holding \/ held[p] \notin Connection \/ made[held[p]] = Leased
                /\ UNCHANGED <<held[p], since[p]>>
             \/ held'[p] \notin Connection \/ made[held'[p]] = Leased
      PROVE  HoldsNoMore
  BY <1>2 DEF HoldsNoMore, Holds, Holding
<1>3. CASE OpenPool \/ ReapIdle \/ ClosePool \/ PoolCloses \/ Tick \/ UNCHANGED vars
             \/ \E key \in Reaped : ReapCloses(key) \/ ReapRaises(key)
  BY <1>1, <1>3
  DEF OpenPool, PoolConnects, OpenedCloses, OpenedCloseRaises, AttemptRaises, ReapIdle, ClosePool,
      PoolCloses, Tick, ReapCloses, ReapRaises, vars, local
<1>4. ASSUME NEW p \in Handlers, NEW k \in Kinds, NEW manifest \in Manifests,
             UnknownDatabase(p, manifest, k) \/ FirstContact(p, manifest, k)
      PROVE  HoldsNoMore
  <2>1. CASE UnknownDatabase(p, manifest, k)  BY <1>1, <2>1 DEF UnknownDatabase, local
  <2>2. CASE FirstContact(p, manifest, k)
    BY <1>0, <1>2, <2>2 DEF FirstContact, Requested, HandlersTyped, Holding
  <2>. QED  BY <1>4, <2>1, <2>2
<1>5. ASSUME NEW p \in Handlers, NEW k \in Kinds, LeaseConnection(p, k) \/ LeaseExhausted(p, k)
      PROVE  HoldsNoMore
  <2>1. CASE LeaseConnection(p, k)
    <3>1. pool.idle \in Seq(Nat) /\ pool.idle # << >> /\ AllLeased(pool.idle, made)
      BY <1>0, <2>1 DEF LeaseConnection, PoolsTyped, Pools, Exhausted, PoolsFit
    <3>2. made[Head(pool.idle)] = Leased
      BY <3>1, LeasedSequences DEF IsLeased
    <3>. QED  BY <1>0, <1>2, <2>1, <3>2 DEF LeaseConnection, Requested, HandlersTyped
  <2>2. CASE LeaseExhausted(p, k)
    BY <1>0, <1>2, <2>2 DEF LeaseExhausted, Requested, HandlersTyped, Holding
  <2>. QED  BY <1>5, <2>1, <2>2
<1>6. ASSUME NEW p \in Handlers, ConnectReturns(p) PROVE HoldsNoMore
  <2>1. NewConnection \notin Connection
    BY <1>0, <1>6, OpensProperties DEF ConnectReturns, HandlersTyped
  <2>. QED  BY <1>0, <1>2, <1>6, <2>1 DEF ConnectReturns, HandlersTyped
<1>7. ASSUME NEW p \in Handlers, Release(p) PROVE HoldsNoMore
  BY <1>0, <1>2, <1>7 DEF Release, Forgets, HandlersTyped, Holding
<1>8. ASSUME NEW p \in Handlers, Begin(p) \/ WriteSucceeds(p) \/ WriteRaises(p) PROVE HoldsNoMore
  BY <1>0, <1>2, <1>8 DEF Begin, WriteSucceeds, WriteRaises, local, HandlersTyped, Holding
<1>9. ASSUME NEW p \in Handlers,
             \/ ConnectRaises(p) \/ LeaseRefused(p) \/ BeginRaises(p) \/ Rollback(p)
             \/ RollbackRaises(p) \/ Commit(p) \/ CommitRaises(p) \/ Cancelled(p)
             \/ ExecuteMany(p) \/ ExecuteRaises(p)
      PROVE  HoldsNoMore
  <2>1. (held[p] = None \/ source[p] # Leased \/ pc[p] \in Holding) /\ \E a : Ends(p, a)
    BY <1>0, <1>9
    DEF ConnectRaises, LeaseRefused, BeginRaises, Rollback, RollbackRaises, Commit, CommitRaises,
        Cancelled, ExecuteMany, ExecuteRaises, Holding, HandlersTyped
  <2>2. /\ \A q \in Handlers \ {p} : UNCHANGED <<pc[q], held[q], since[q]>>
        /\ \/ pc'[p] = "idle"
           \/ held[p] # None /\ source[p] = Leased /\ UNCHANGED <<held[p], since[p]>>
    BY <1>0, <2>1, EndsProperties DEF local
  <2>. QED  BY <1>2, <2>1, <2>2 DEF Holding
<1>. QED
  BY <1>3, <1>4, <1>5, <1>6, <1>7, <1>8, <1>9 DEF Next, Starts, Proceeds

LEMMA RegistryFrame ==
  ASSUME TypeOK, PoolsFit, HandlersFit, RegistryAccounted, [Next]_vars, HoldsNoMore,
         UNCHANGED <<registry, reaping>>,
         "registry" \in mishaps' <=> "registry" \in mishaps,
         "reap" \in mishaps' <=> "reap" \in mishaps,
         \A c : c \in open' /\ made'[c] # Leased <=> c \in open /\ made[c] # Leased
  PROVE  RegistryAccounted'
<1>0. /\ Connection = 1..Len(made) /\ Connection' = 1..Len(made') /\ Connection \subseteq Connection'
      /\ \A c \in Connection : made'[c] = made[c]
      /\ open \subseteq Connection
  BY MadeStays DEF TypeOK, DatabaseTyped
<1>1. /\ \A k \in DOMAIN registry : LET c == registry[k].conn
                                   IN c \in Connection /\ made[c] # Leased /\ PoolKey(made[c]) = k
      /\ reaping # None =>
           \A k \in DOMAIN reaping.given :
             LET c == reaping.given[k].conn
             IN c \in Connection /\ made[c] # Leased /\ PoolKey(made[c]) = k
      /\ reaping # None => \A k \in Reaped : k \in DOMAIN reaping.given
  BY <1>0 DEF PoolsFit, Fits, Reaped, Expired
<1>2. RegistryServesOpen'
  BY <1>0, <1>1 DEF RegistryAccounted, RegistryServesOpen
<1>3. reaping' # None =>
        \A k \in Expired(reaping'.given, reaping'.now, Threshold) \ reaping'.left :
          reaping'.given[k].conn \notin open'
  BY <1>0, <1>1 DEF RegistryAccounted, Expired
<1>4. ASSUME "registry" \notin mishaps'
      PROVE  /\ \A c \in open' : made'[c] # Leased =>
                  PoolKey(made'[c]) \in DOMAIN registry /\ registry[PoolKey(made'[c])].conn = c
             /\ \A k \in DOMAIN registry, p \in Handlers :
                  Holds(p, registry[k].conn)' => since'[p] <= registry[k].last_used
             /\ \A k \in Reaped, p \in Handlers :
                  Holds(p, reaping.given[k].conn)' =>
                    reaping.now - since'[p] > Threshold \/ since'[p] >= reaping.now
  BY <1>0, <1>1, <1>4 DEF RegistryAccounted, HoldsNoMore, Reaped
<1>. QED  BY <1>2, <1>3, <1>4 DEF RegistryAccounted, Reaped

(* get_pool served from the registry touches the entry it serves.          *)
LEMMA RegistryServes ==
  ASSUME TypeOK, PoolsFit, HandlersFit, RegistryAccounted, [Next]_vars,
         NEW p \in Handlers, NEW k \in Kinds, NEW manifest \in Manifests, CachedPool(p, manifest, k)
  PROVE  RegistryAccounted'
<1>. DEFINE key == PoolKey(ResolvePoolKey(manifest))
<1>0. /\ HandlersTyped /\ now \in Nat /\ key \in DOMAIN registry
      /\ registry' = WithEntry(registry, key, Touched(registry[key], now))
      /\ UNCHANGED <<now, reaping, made, open>> /\ mishaps' = mishaps
      /\ reaping # None => reaping.now <= now
  BY ConnectionsAssumption DEF TypeOK, JobsTyped, CachedPool, KeepRegistry, PoolsFit
<1>1. /\ DOMAIN registry' = DOMAIN registry
      /\ \A i \in DOMAIN registry : registry'[i].conn = registry[i].conn
      /\ \A i \in DOMAIN registry : i # key => registry'[i] = registry[i]
      /\ registry'[key].last_used = now
  BY <1>0 DEF WithEntry, Touched
<1>2. /\ \A q \in Handlers \ {p} : UNCHANGED <<pc[q], held[q], since[q]>>
      /\ held'[p] = registry[key].conn /\ since'[p] = now
      /\ \A q \in Handlers : since[q] \in Nat /\ since[q] <= now
      /\ \A q \in Handlers : since'[q] \in Nat /\ since'[q] <= now
      /\ \A q \in Handlers : pc'[q] \in Holding => q = p \/ Holds(q, held'[q])
  BY <1>0 DEF CachedPool, Requested, HandlersTyped, Holds, Holding
<1>3. RegistryServesOpen'
  BY <1>0, <1>1 DEF RegistryAccounted, RegistryServesOpen
<1>4. ASSUME "registry" \notin mishaps
      PROVE  /\ \A c \in open : made[c] # Leased =>
                  PoolKey(made[c]) \in DOMAIN registry' /\ registry'[PoolKey(made[c])].conn = c
             /\ \A i \in DOMAIN registry', q \in Handlers :
                  pc'[q] \in Holding /\ held'[q] = registry'[i].conn => since'[q] <= registry'[i].last_used
             /\ \A i \in Reaped, q \in Handlers :
                  pc'[q] \in Holding /\ held'[q] = reaping.given[i].conn =>
                    reaping.now - since'[q] > Threshold \/ since'[q] >= reaping.now
  <2>1. \A c \in open : made[c] # Leased =>
          PoolKey(made[c]) \in DOMAIN registry' /\ registry'[PoolKey(made[c])].conn = c
    BY <1>0, <1>1, <1>4 DEF RegistryAccounted
  <2>2. ASSUME NEW i \in DOMAIN registry', NEW q \in Handlers,
             pc'[q] \in Holding, held'[q] = registry'[i].conn
        PROVE  since'[q] <= registry'[i].last_used
    <3>1. i \in DOMAIN registry /\ \A j \in DOMAIN registry : registry[j].conn = registry[i].conn => j = i
      BY <1>1 DEF PoolsFit, Fits
    <3>2. q = p \/ Holds(q, registry[i].conn)  BY <1>1, <1>2, <2>2, <3>1
    <3>3. CASE q = p  BY <1>0, <1>1, <1>2, <2>2, <3>1, <3>3
    <3>4. CASE q # p /\ i = key  BY <1>1, <1>2, <3>4
    <3>5. CASE q # p /\ i # key
      BY <1>1, <1>2, <1>4, <3>1, <3>2, <3>5 DEF RegistryAccounted
    <3>. QED  BY <3>3, <3>4, <3>5
  <2>3. ASSUME NEW i \in Reaped, NEW q \in Handlers,
             pc'[q] \in Holding, held'[q] = reaping.given[i].conn
        PROVE  reaping.now - since'[q] > Threshold \/ since'[q] >= reaping.now
    <3>1. reaping # None  BY <2>3 DEF Reaped
    <3>2. q = p \/ Holds(q, reaping.given[i].conn)  BY <1>2, <2>3
    <3>3. CASE q = p  BY <1>0, <1>2, <3>1, <3>3
    <3>4. CASE q # p
      BY <1>2, <1>4, <2>3, <3>2, <3>4 DEF RegistryAccounted
    <3>. QED  BY <3>3, <3>4
  <2>. QED  BY <2>1, <2>2, <2>3
<1>. QED  BY <1>0, <1>3, <1>4 DEF RegistryAccounted, Reaped, Holds, Holding

(* get_pool's first contact adds the entry of a connection just opened.    *)
LEMMA RegistryGrows ==
  ASSUME TypeOK, PoolsFit, HandlersFit, RegistryAccounted, [Next]_vars,
         NEW p \in Handlers, ConnectReturns(p)
  PROVE  RegistryAccounted'
<1>. DEFINE s == ResolvePoolKey(source[p])
            key == PoolKey(s)
            new == [conn |-> NewConnection, lifecycle |-> s.lifecycle, last_used |-> since[p]]
<1>0. /\ HandlersTyped /\ DatabaseTyped /\ s \in Selectors /\ Opens(s) /\ s # Leased
      /\ key \notin DOMAIN given[p] /\ registry' = WithEntry(given[p], key, new)
      /\ UNCHANGED <<now, reaping, since>>
      /\ mishaps' = (IF registry = given[p] THEN mishaps ELSE mishaps \cup {"registry"})
  BY NoneAssumption DEF TypeOK, HandlersTyped, HandlersFit, ConnectReturns, KeepRegistry
<1>1. /\ Connection' = Connection \cup {NewConnection} /\ NewConnection \notin Connection
      /\ made'[NewConnection] = s /\ \A c \in Connection : made'[c] = made[c]
      /\ open' = open \cup {NewConnection} /\ open \subseteq Connection /\ Connection = 1..Len(made)
  BY <1>0, OpensProperties DEF DatabaseTyped, Connection
<1>2. /\ DOMAIN registry' = DOMAIN given[p] \cup {key} /\ registry'[key] = new
      /\ \A i \in DOMAIN given[p] : registry'[i] = given[p][i]
  BY <1>0 DEF WithEntry
<1>3. /\ \A q \in Handlers \ {p} : pc'[q] = pc[q] /\ held'[q] = held[q]
      /\ held'[p] = NewConnection /\ since'[p] = since[p]
      /\ \A q \in Handlers : pc'[q] \in Holding =>
           \/ q = p /\ held'[q] = NewConnection
           \/ held'[q] \in Connection /\ Holds(q, held'[q])
  <2>1. /\ held' = [held EXCEPT ![p] = NewConnection] /\ UNCHANGED since
        /\ \E to \in {"begin", "execute"} : pc' = [pc EXCEPT ![p] = to]
    BY DEF ConnectReturns, FirstStep
  <2>. QED  BY <1>0, <2>1 DEF HandlersTyped, HandlersFit, Holds, Holding
<1>4. reaping # None => \A k \in DOMAIN reaping.given : reaping.given[k].conn \in Connection
  BY <1>1 DEF PoolsFit, Fits
<1>5. reaping' # None =>
        \A k \in Expired(reaping'.given, reaping'.now, Threshold) \ reaping'.left :
          reaping'.given[k].conn \notin open'
  BY <1>0, <1>1, <1>4 DEF RegistryAccounted, Expired
<1>6. CASE registry # given[p]
  BY <1>0, <1>5, <1>6 DEF RegistryAccounted, RegistryServesOpen
<1>7. CASE registry = given[p]
  <2>1. mishaps' = mishaps /\ \A i \in DOMAIN registry : registry[i].conn \in Connection
    BY <1>0, <1>1, <1>7 DEF PoolsFit, Fits
  <2>2. RegistryServesOpen'
    BY <1>0, <1>1, <1>2, <1>7, <2>1 DEF RegistryAccounted, RegistryServesOpen
  <2>3. ASSUME "registry" \notin mishaps
        PROVE  /\ \A c \in open' : made'[c] # Leased =>
                    PoolKey(made'[c]) \in DOMAIN registry' /\ registry'[PoolKey(made'[c])].conn = c
               /\ \A i \in DOMAIN registry', q \in Handlers :
                    pc'[q] \in Holding /\ held'[q] = registry'[i].conn => since'[q] <= registry'[i].last_used
               /\ \A i \in Reaped, q \in Handlers :
                    pc'[q] \in Holding /\ held'[q] = reaping.given[i].conn =>
                      reaping.now - since'[q] > Threshold \/ since'[q] >= reaping.now
    <3>1. \A c \in open' : made'[c] # Leased =>
            PoolKey(made'[c]) \in DOMAIN registry' /\ registry'[PoolKey(made'[c])].conn = c
      BY <1>0, <1>1, <1>2, <1>7, <2>3 DEF RegistryAccounted
    <3>2. ASSUME NEW i \in DOMAIN registry', NEW q \in Handlers,
             pc'[q] \in Holding, held'[q] = registry'[i].conn
          PROVE  since'[q] <= registry'[i].last_used
      <4>1. CASE i = key
        <5>1. registry'[i].conn = NewConnection /\ registry'[i].last_used = since[p]
          BY <1>2, <4>1
        <5>2. q = p /\ since[p] \in Nat  BY <1>0, <1>1, <1>3, <3>2, <5>1 DEF HandlersTyped
        <5>. QED  BY <1>3, <5>1, <5>2
      <4>2. CASE i # key
        <5>1. i \in DOMAIN registry /\ registry'[i] = registry[i] /\ registry[i].conn \in Connection
          BY <1>2, <1>7, <2>1, <3>2, <4>2
        <5>2. Holds(q, registry[i].conn)  BY <1>1, <1>3, <3>2, <5>1
        <5>. QED  BY <1>0, <2>3, <5>1, <5>2 DEF RegistryAccounted
      <4>. QED  BY <4>1, <4>2
    <3>3. ASSUME NEW i \in Reaped, NEW q \in Handlers,
             pc'[q] \in Holding, held'[q] = reaping.given[i].conn
          PROVE  reaping.now - since'[q] > Threshold \/ since'[q] >= reaping.now
      <4>1. reaping # None /\ reaping.given[i].conn \in Connection
        BY <1>4, <3>3 DEF Reaped, PoolsFit, Expired
      <4>2. Holds(q, reaping.given[i].conn)  BY <1>1, <1>3, <3>3, <4>1
      <4>. QED  BY <1>0, <2>3, <3>3, <4>2 DEF RegistryAccounted
    <3>. QED  BY <3>1, <3>2, <3>3
  <2>. QED  BY <1>0, <1>5, <2>1, <2>2, <2>3 DEF RegistryAccounted, Reaped, Holds, Holding
<1>. QED  BY <1>6, <1>7

(* reap_idle starts with what is expired in the registry it was given, and *)
(* closes it: a connection it closes is that of its key alone.             *)
LEMMA ReapSteps ==
  ASSUME TypeOK, PoolsFit, HandlersFit, RegistryAccounted, [Next]_vars,
         ReapIdle \/ \E key \in Reaped : ReapCloses(key) \/ ReapRaises(key)
  PROVE  RegistryAccounted'
<1>0. /\ DatabaseTyped /\ PoolsTyped /\ JobsTyped /\ UNCHANGED <<made, pc, held, since>> /\ now \in Nat
      /\ \A p \in Handlers : since[p] \in Nat /\ since[p] <= now
      /\ IsRegistry(registry) /\ Threshold \in Nat
  <2>1. UNCHANGED <<made, pc, held, since>>
    BY DEF ReapIdle, ReapCloses, ReapRaises, Closes, local
  <2>2. DatabaseTyped /\ PoolsTyped /\ JobsTyped /\ HandlersTyped  BY DEF TypeOK
  <2>3. now \in Nat  BY <2>2, ConnectionsAssumption DEF JobsTyped
  <2>4. \A p \in Handlers : since[p] \in Nat /\ since[p] <= now  BY <2>2, <2>3 DEF HandlersTyped
  <2>. QED  BY <2>1, <2>2, <2>3, <2>4, ConnectionsAssumption DEF PoolsTyped
<1>1. /\ RegistryServesOpen
      /\ \A k \in DOMAIN registry : /\ registry[k] \in Entries /\ registry[k].conn \in Connection
                                   /\ PoolKey(made[registry[k].conn]) = k
      /\ Expired(registry, now, Threshold) \subseteq DOMAIN registry
  BY <1>0, RegistryOperations DEF RegistryAccounted, PoolsFit, Fits, Connection
<1>2. ASSUME reaping # None
      PROVE  /\ Reaped = reaping.left
             /\ reaping.left \subseteq Expired(reaping.given, reaping.now, Threshold)
             /\ Expired(reaping.given, reaping.now, Threshold) \subseteq DOMAIN reaping.given
             /\ \A k \in DOMAIN reaping.given :
                  PoolKey(made[reaping.given[k].conn]) = k /\ reaping.given[k].conn \in Connection
             /\ \A k \in Expired(reaping.given, reaping.now, Threshold) \ reaping.left :
                  reaping.given[k].conn \notin open
             /\ "registry" \notin mishaps =>
                  \A k \in Reaped, p \in Handlers :
                    Holds(p, reaping.given[k].conn) =>
                      reaping.now - since[p] > Threshold \/ since[p] >= reaping.now
  BY <1>2 DEF Reaped, PoolsFit, Fits, Expired, RegistryAccounted, Connection
<1>3. "registry" \notin mishaps =>
        /\ \A c \in open : made[c] # Leased =>
             PoolKey(made[c]) \in DOMAIN registry /\ registry[PoolKey(made[c])].conn = c
        /\ \A k \in DOMAIN registry, p \in Handlers :
             Holds(p, registry[k].conn) => since[p] <= registry[k].last_used
  BY DEF RegistryAccounted
<1>4. CASE ReapIdle
  <2>1. /\ UNCHANGED <<registry, open, mishaps>> /\ reaping = None
        /\ reaping' = [given |-> registry, now |-> now, left |-> Expired(registry, now, Threshold)]
    BY <1>4 DEF ReapIdle
  <2>2. /\ reaping'.given = registry /\ reaping'.now = now
        /\ reaping'.left = Expired(registry, now, Threshold)
    BY <2>1
  <2>3. Reaped' \subseteq Expired(registry, now, Threshold)  BY <2>1, <2>2 DEF Reaped
  <2>4. RegistryServesOpen'
    BY <1>1, <2>1 DEF RegistryServesOpen
  <2>5. ASSUME "registry" \notin mishaps, NEW k \in Reaped', NEW p \in Handlers,
               Holds(p, registry[k].conn)
        PROVE  now - since[p] > Threshold
    <3>1. k \in DOMAIN registry /\ now - registry[k].last_used > Threshold
      BY <2>3, <2>5 DEF Expired, IsIdle
    <3>2. since[p] <= registry[k].last_used /\ registry[k].last_used \in Nat
      BY <1>1, <1>3, <2>5, <3>1 DEF Entries
    <3>. QED  BY <1>0, <3>1, <3>2
  <2>. QED  BY <1>0, <1>3, <2>1, <2>2, <2>4, <2>5 DEF RegistryAccounted, Holds
<1>5. ASSUME NEW key \in Reaped, ReapRaises(key) PROVE RegistryAccounted'
  <2>1. /\ reaping' = None /\ mishaps' = mishaps \cup {"reap"} /\ UNCHANGED registry
        /\ open' \subseteq open
    BY <1>5 DEF ReapRaises, Closes
  <2>2. RegistryServesOpen'  BY <2>1 DEF RegistryServesOpen
  <2>. QED  BY <1>0, <1>3, <2>1, <2>2 DEF RegistryAccounted, Reaped, Holds
<1>6. ASSUME NEW key \in Reaped, ReapCloses(key) PROVE RegistryAccounted'
  <2>. DEFINE c == reaping.given[key].conn
              E == Expired(reaping.given, reaping.now, Threshold)
  <2>1. reaping # None /\ key \in reaping.left /\ key \in E /\ key \in DOMAIN reaping.given
        /\ open' = open \ {c}
    BY <1>2, <1>6 DEF ReapCloses, Closes
  <2>2. CASE reaping.left # {key}
    <3>1. /\ reaping' = StillToClose(reaping.left \ {key}) /\ UNCHANGED <<registry, mishaps>>
      BY <1>6, <2>2 DEF ReapCloses
    <3>2. /\ reaping'.given = reaping.given /\ reaping'.now = reaping.now
          /\ reaping'.left = reaping.left \ {key}
      BY <3>1 DEF StillToClose
    <3>3. reaping' # None
      <4>1. PICK K \in SUBSET Keys : reaping \in Reaps(K)  BY <1>0, <2>1 DEF PoolsTyped
      <4>2. reaping' \in Reaps(K)  BY <3>1, <4>1 DEF Reaps, StillToClose
      <4>. QED  BY <4>2, NoneAssumption
    <3>4. RegistryServesOpen'
      <4>1. ASSUME NEW k \in DOMAIN registry, registry[k].conn = c
            PROVE  k = key
        BY <1>1, <1>2, <2>1, <4>1
      <4>. QED
        BY <1>1, <2>1, <3>1, <3>2, <3>3, <4>1 DEF RegistryServesOpen
    <3>5. \A k \in E \ (reaping.left \ {key}) : reaping.given[k].conn \notin open'
      BY <1>2, <2>1
    <3>6. Reaped' \subseteq Reaped  BY <1>2, <2>1, <3>2, <3>3 DEF Reaped
    <3>. QED
      BY <1>0, <1>2, <1>3, <2>1, <3>1, <3>2, <3>3, <3>4, <3>5, <3>6 DEF RegistryAccounted, Holds
  <2>3. CASE reaping.left = {key}
    <3>1. /\ reaping' = None /\ registry' = Kept(reaping.given, reaping.now, Threshold)
          /\ mishaps' = (IF registry = reaping.given THEN mishaps ELSE mishaps \cup {"registry"})
      BY <1>6, <2>3 DEF ReapCloses, KeepRegistry
    <3>2. Reaped' = {}  BY <3>1 DEF Reaped
    <3>3. CASE registry # reaping.given
      BY <3>1, <3>2, <3>3 DEF RegistryAccounted, RegistryServesOpen
    <3>4. CASE registry = reaping.given
      <4>1. /\ mishaps' = mishaps /\ DOMAIN registry' = DOMAIN registry \ E
            /\ \A k \in DOMAIN registry \ E : registry'[k] = registry[k]
        BY <3>1, <3>4 DEF Kept
      <4>2. \A k \in E : registry[k].conn \notin open'  BY <1>2, <2>1, <2>3, <3>4
      <4>3. RegistryServesOpen'
        BY <1>1, <2>1, <3>4, <4>1 DEF RegistryServesOpen
      <4>. QED
        BY <1>0, <1>3, <2>1, <3>1, <3>2, <4>1, <4>2, <4>3 DEF RegistryAccounted, Holds
    <3>. QED  BY <3>3, <3>4
  <2>. QED  BY <2>2, <2>3
<1>. QED  BY <1>4, <1>5, <1>6

LEMMA RegistryStep ==
  ASSUME TypeOK, PoolsFit, HandlersFit, RegistryAccounted, [Next]_vars
  PROVE  RegistryAccounted'
<1>0. /\ PoolsTyped /\ DatabaseTyped /\ HandlersTyped /\ open \subseteq Connection /\ Connection = 1..Len(made)
  BY DEF TypeOK, DatabaseTyped, Connection
<1>. DEFINE Kind(m, o) == {c \in o : m[c] # Leased}
<1>1. ASSUME \/ OpenPool \/ ClosePool \/ PoolCloses \/ Tick \/ UNCHANGED vars
             \/ \E p \in Handlers, k \in Kinds :
                  \/ LeaseConnection(p, k) \/ LeaseExhausted(p, k)
                  \/ \E manifest \in Manifests :
                       UnknownDatabase(p, manifest, k) \/ FirstContact(p, manifest, k)
             \/ \E p \in Handlers :
                  \/ ConnectRaises(p) \/ LeaseRefused(p) \/ Release(p)
                  \/ Begin(p) \/ BeginRaises(p) \/ WriteSucceeds(p) \/ WriteRaises(p)
                  \/ Rollback(p) \/ RollbackRaises(p) \/ Commit(p) \/ CommitRaises(p)
                  \/ Cancelled(p) \/ ExecuteMany(p) \/ ExecuteRaises(p)
      PROVE  RegistryAccounted'
  <2>1. UNCHANGED <<registry, reaping>>
    BY <1>1
    DEF OpenPool, PoolConnects, OpenedCloses, OpenedCloseRaises, AttemptRaises, ClosePool, PoolCloses,
        Tick, vars, pools, LeaseConnection, LeaseExhausted, UnknownDatabase, FirstContact, ConnectRaises,
        LeaseRefused, Release, Begin, BeginRaises, WriteSucceeds, WriteRaises, Rollback, RollbackRaises,
        Commit, CommitRaises, Cancelled, ExecuteMany, ExecuteRaises
  <2>2. \/ UNCHANGED mishaps \/ mishaps' = mishaps \cup {"pool"}
    BY <1>1
    DEF OpenPool, PoolConnects, OpenedCloses, OpenedCloseRaises, AttemptRaises, ClosePool, PoolCloses,
        Tick, vars, pools, LeaseConnection, LeaseExhausted, UnknownDatabase, FirstContact, ConnectRaises,
        LeaseRefused, Release, Begin, BeginRaises, WriteSucceeds, WriteRaises, Rollback, RollbackRaises,
        Commit, CommitRaises, Cancelled, ExecuteMany, ExecuteRaises, KeepPool
  <2>3. \A c : c \in open' /\ made'[c] # Leased <=> c \in open /\ made[c] # Leased
    <3>1. CASE PoolConnects
      BY <1>0, <3>1, OpensProperties DEF PoolConnects
    <3>2. CASE OpenedCloses
      <4>1. opening.opened \in Seq(Nat) /\ opening.opened # << >>
        BY <1>0, <3>2, SeqMonotonic DEF OpenedCloses, PoolsTyped
      <4>2. made[Head(opening.opened)] = Leased
        BY <4>1, LeasedSequences DEF PoolsFit, IsLeased
      <4>. QED  BY <3>2, <4>2 DEF OpenedCloses, Closes
    <3>3. CASE PoolCloses
      <4>1. ASSUME closing.left # << >> PROVE made[Head(closing.left)] = Leased
        BY <1>0, <3>3, <4>1, LeasedSequences DEF PoolCloses, PoolsTyped, PoolsFit, IsLeased
      <4>. QED  BY <3>3, <4>1 DEF PoolCloses, Closes
    <3>4. ASSUME ~PoolConnects, ~OpenedCloses, ~PoolCloses PROVE UNCHANGED <<made, open>>
      BY <1>1, <3>4
      DEF OpenPool, OpenedCloseRaises, AttemptRaises, ClosePool, Tick, vars, LeaseConnection,
          LeaseExhausted, UnknownDatabase, FirstContact, ConnectRaises, LeaseRefused, Release, Begin,
          BeginRaises, WriteSucceeds, WriteRaises, Rollback, RollbackRaises, Commit, CommitRaises,
          Cancelled, ExecuteMany, ExecuteRaises
    <3>. QED  BY <3>1, <3>2, <3>3, <3>4
  <2>4. CASE HoldsNoMore  BY <2>1, <2>2, <2>3, <2>4, RegistryFrame
  <2>5. CASE ~HoldsNoMore  BY <2>5, HoldsShrink, RegistryServes
  <2>. QED  BY <2>4, <2>5
<1>2. CASE ReapIdle \/ \E key \in Reaped : ReapCloses(key) \/ ReapRaises(key)
  BY <1>2, ReapSteps
<1>3. ASSUME NEW p \in Handlers, NEW k \in Kinds, NEW manifest \in Manifests, CachedPool(p, manifest, k)
      PROVE  RegistryAccounted'
  BY <1>3, RegistryServes
<1>4. ASSUME NEW p \in Handlers, ConnectReturns(p) PROVE RegistryAccounted'
  BY <1>4, RegistryGrows
<1>. QED
  BY <1>1, <1>2, <1>3, <1>4 DEF Next, Starts, Proceeds

LEMMA RegistryInit == Init => PoolsFit /\ HandlersFit /\ RegistryAccounted
<1>. SUFFICES ASSUME Init PROVE PoolsFit /\ HandlersFit /\ RegistryAccounted
  OBVIOUS
<1>1. PoolsFit
  BY DEF Init, PoolsFit, Fits, AllLeased, EmptyPoolRegistry, Opening
<1>2. HandlersFit  BY DEF Init, HandlersFit, Holding
<1>3. RegistryAccounted
  BY DEF Init, RegistryAccounted, RegistryServesOpen, EmptyPoolRegistry, Reaped
<1>. QED  BY <1>1, <1>2, <1>3

(* What get_pool and reap_idle rely on: pools and handlers fit each other, *)
(* and a registry entry that is not open has a reason.                     *)
THEOREM RegistryInvariant == Spec => [](PoolsFit /\ HandlersFit /\ RegistryAccounted)
<1>1. TypeOK /\ PoolsFit /\ HandlersFit /\ RegistryAccounted /\ [Next]_vars
        => (PoolsFit /\ HandlersFit /\ RegistryAccounted)'
  BY PoolsFitStep, HandlersFitStep, RegistryStep
<1>. QED  BY <1>1, RegistryInit, ConnectionsTypeCorrect, PTL DEF Spec

(* get_pool hands out open connections, but while a reap closes one or     *)
(* after a stale registry replaced a newer one or a close raised (pool.py).*)
THEOREM RegistryDoesServeOpen == Spec => []RegistryServesOpen
<1>1. RegistryAccounted => RegistryServesOpen  BY DEF RegistryAccounted
<1>. QED  BY <1>1, RegistryInvariant, PTL

(* A connection reap_idle closes is in the hands of no handler that got it *)
(* within the threshold before the reap began (pool.py).                   *)
THEOREM ReapDoesSpareRecent == Spec => ReapSparesRecent
<1>1. TypeOK /\ RegistryAccounted /\ [Next]_vars => [ReapStep]_vars
  BY DEF RegistryAccounted, ReapStep
<1>. QED  BY <1>1, ConnectionsTypeCorrect, RegistryInvariant, PTL DEF Spec, ReapSparesRecent

-----------------------------------------------------------------------------
(* The leases.  A leased connection that is open is in one place: in       *)
(* open_pool's list before there is a pool, and after it among the idle    *)
(* ones or with one handler, whatever is done with a lease in between.     *)
Lessees == {p \in Handlers : source[p] = Leased /\ pc[p] \in Holding}
In(c, seq) == \E i \in DOMAIN seq : seq[i] = c
Injective(seq) == \A i, j \in DOMAIN seq : seq[i] = seq[j] => i = j

OpeningAccounted ==
  /\ pool # None => opening.phase = "open"
  /\ closing # None => pool # None
  /\ opening.phase = "open" => opening.opened = << >>
  /\ Injective(opening.opened)
  /\ pool = None /\ opening.phase # "raised" =>
       \A c \in open : IsLeased(c, made) => In(c, opening.opened)

LeasesApart ==
  /\ Injective(pool.idle)
  /\ \A p, q \in Lessees : held[p] = held[q] => p = q
  /\ \A p \in Lessees : ~In(held[p], pool.idle)
  /\ \A c \in open : IsLeased(c, made) => In(c, pool.idle) \/ \E p \in Lessees : held[p] = c
  /\ pool.active = Cardinality(Lessees) /\ pool.active + Len(pool.idle) = size

LeasesAccounted ==
  /\ IsFiniteSet(Lessees) /\ OpeningAccounted
  /\ pool # None /\ "pool" \notin mishaps => LeasesApart

LEMMA InTail ==
  ASSUME NEW seq \in Seq(Nat), seq # << >>, Injective(seq)
  PROVE  /\ Injective(Tail(seq)) /\ In(Head(seq), seq) /\ Len(Tail(seq)) = Len(seq) - 1
         /\ \A c : In(c, Tail(seq)) <=> In(c, seq) /\ c # Head(seq)
<1>1. /\ Tail(seq) \in Seq(Nat) /\ Len(Tail(seq)) = Len(seq) - 1 /\ Len(seq) \in Nat
      /\ \A i \in 1..Len(Tail(seq)) : Tail(seq)[i] = seq[i + 1]
      /\ DOMAIN seq = 1..Len(seq) /\ DOMAIN Tail(seq) = 1..Len(Tail(seq))
      /\ Head(seq) = seq[1] /\ Len(seq) > 0
  BY HeadTailProperties, LenProperties, EmptySeq
<1>2. Injective(Tail(seq))
  <2>1. ASSUME NEW i \in DOMAIN Tail(seq), NEW j \in DOMAIN Tail(seq), Tail(seq)[i] = Tail(seq)[j]
        PROVE  i = j
    <3>1. i + 1 \in DOMAIN seq /\ j + 1 \in DOMAIN seq /\ seq[i + 1] = seq[j + 1]  BY <1>1, <2>1
    <3>2. i + 1 = j + 1  BY <3>1 DEF Injective
    <3>. QED  BY <1>1, <3>2
  <2>. QED  BY <2>1 DEF Injective
<1>3. ASSUME NEW c, In(c, Tail(seq)) PROVE In(c, seq) /\ c # Head(seq)
  <2>1. PICK i \in DOMAIN Tail(seq) : Tail(seq)[i] = c  BY <1>3 DEF In
  <2>2. i + 1 \in DOMAIN seq /\ 1 \in DOMAIN seq /\ seq[i + 1] = c /\ i + 1 # 1  BY <1>1, <2>1
  <2>. QED  BY <1>1, <2>2 DEF In, Injective
<1>4. ASSUME NEW c, In(c, seq), c # Head(seq) PROVE In(c, Tail(seq))
  <2>1. PICK i \in DOMAIN seq : seq[i] = c  BY <1>4 DEF In
  <2>2. i # 1 /\ i - 1 \in DOMAIN Tail(seq) /\ (i - 1) + 1 = i  BY <1>1, <1>4, <2>1
  <2>. QED  BY <1>1, <2>1, <2>2 DEF In
<1>5. In(Head(seq), seq)  BY <1>1 DEF In
<1>. QED  BY <1>1, <1>2, <1>3, <1>4, <1>5

LEMMA InAppend ==
  ASSUME NEW seq \in Seq(Nat), NEW c \in Nat
  PROVE  /\ \A d : In(d, Append(seq, c)) <=> In(d, seq) \/ d = c
         /\ Injective(seq) /\ ~In(c, seq) => Injective(Append(seq, c))
         /\ Len(Append(seq, c)) = Len(seq) + 1
<1>1. /\ Len(Append(seq, c)) = Len(seq) + 1 /\ Len(seq) \in Nat
      /\ \A i \in 1..Len(seq) : Append(seq, c)[i] = seq[i]
      /\ Append(seq, c)[Len(seq) + 1] = c
      /\ DOMAIN seq = 1..Len(seq) /\ DOMAIN Append(seq, c) = 1..(Len(seq) + 1)
  BY AppendProperties, LenProperties
<1>2. DOMAIN Append(seq, c) = DOMAIN seq \cup {Len(seq) + 1}  BY <1>1
<1>3. \A i \in DOMAIN Append(seq, c) :
        \/ i \in DOMAIN seq /\ Append(seq, c)[i] = seq[i]
        \/ i = Len(seq) + 1 /\ Append(seq, c)[i] = c
  BY <1>1, <1>2
<1>4. \A d : In(d, Append(seq, c)) <=> In(d, seq) \/ d = c  BY <1>1, <1>2, <1>3 DEF In
<1>5. ASSUME Injective(seq), ~In(c, seq) PROVE Injective(Append(seq, c))
  BY <1>3, <1>5 DEF In, Injective
<1>. QED  BY <1>1, <1>4, <1>5

(* Only lease_connection and release_connection move a lease.              *)
LesseesStay == Lessees' = Lessees /\ \A p \in Lessees : held'[p] = held[p]

LEMMA LesseesStep ==
  ASSUME TypeOK, HandlersFit, [Next]_vars
  PROVE  \/ LesseesStay
         \/ \E p \in Handlers, k \in Kinds : LeaseConnection(p, k)
         \/ \E p \in Handlers : Release(p)
<1>0. HandlersTyped /\ Leased \notin Manifests /\ None \notin Connection /\ Leased # None
  BY ConnectionsAssumption, NoneAssumption DEF TypeOK, Connection, DatabaseTyped
<1>1. ASSUME UNCHANGED <<pc, source, held>> PROVE LesseesStay
  BY <1>1 DEF LesseesStay, Lessees
<1>2. ASSUME NEW p \in Handlers,
             \A q \in Handlers \ {p} : UNCHANGED <<pc[q], source[q], held[q]>>,
             \/ p \notin Lessees /\ (source'[p] # Leased \/ pc'[p] \notin Holding)
             \/ /\ p \in Lessees /\ source'[p] = Leased /\ pc'[p] \in Holding
                /\ held'[p] = held[p]
      PROVE  LesseesStay
  BY <1>2 DEF LesseesStay, Lessees
<1>3. CASE OpenPool \/ ReapIdle \/ ClosePool \/ PoolCloses \/ Tick \/ UNCHANGED vars
             \/ \E key \in Reaped : ReapCloses(key) \/ ReapRaises(key)
  BY <1>1, <1>3
  DEF OpenPool, PoolConnects, OpenedCloses, OpenedCloseRaises, AttemptRaises, ReapIdle, ClosePool,
      PoolCloses, Tick, ReapCloses, ReapRaises, vars, local
<1>4. ASSUME NEW p \in Handlers, NEW k \in Kinds, NEW manifest \in Manifests,
             \/ UnknownDatabase(p, manifest, k) \/ CachedPool(p, manifest, k) \/ FirstContact(p, manifest, k)
      PROVE  LesseesStay
  <2>1. CASE UnknownDatabase(p, manifest, k)  BY <1>1, <2>1 DEF UnknownDatabase, local
  <2>2. CASE CachedPool(p, manifest, k) \/ FirstContact(p, manifest, k)
    BY <1>0, <1>2, <2>2 DEF CachedPool, FirstContact, Requested, HandlersTyped, Lessees, Holding
  <2>. QED  BY <1>4, <2>1, <2>2
<1>5. ASSUME NEW p \in Handlers, NEW k \in Kinds, LeaseExhausted(p, k) PROVE LesseesStay
  BY <1>0, <1>2, <1>5 DEF LeaseExhausted, Requested, HandlersTyped, Lessees, Holding
<1>6. ASSUME NEW p \in Handlers, ConnectReturns(p) PROVE LesseesStay
  BY <1>0, <1>2, <1>6 DEF ConnectReturns, HandlersTyped, Lessees, Holding
<1>7. ASSUME NEW p \in Handlers, Begin(p) \/ WriteSucceeds(p) \/ WriteRaises(p) PROVE LesseesStay
  BY <1>0, <1>2, <1>7 DEF Begin, WriteSucceeds, WriteRaises, local, HandlersTyped, Lessees, Holding
<1>8. ASSUME NEW p \in Handlers,
             \/ ConnectRaises(p) \/ LeaseRefused(p) \/ BeginRaises(p) \/ Rollback(p)
             \/ RollbackRaises(p) \/ Commit(p) \/ CommitRaises(p) \/ Cancelled(p)
             \/ ExecuteMany(p) \/ ExecuteRaises(p)
      PROVE  LesseesStay
  <2>1. /\ \E a : Ends(p, a)
        /\ \/ pc[p] \in Holding
           \/ pc[p] \notin Holding /\ (source[p] # Leased \/ held[p] = None)
    BY <1>0, <1>8
    DEF ConnectRaises, LeaseRefused, BeginRaises, Rollback, RollbackRaises, Commit, CommitRaises,
        Cancelled, ExecuteMany, ExecuteRaises, Holding, HandlersTyped
  <2>2. /\ \A q \in Handlers \ {p} : UNCHANGED <<pc[q], source[q], held[q]>>
        /\ \/ pc'[p] = "idle" /\ (source[p] # Leased \/ held[p] = None)
           \/ /\ held[p] # None /\ source[p] = Leased /\ pc'[p] = "release"
              /\ UNCHANGED <<source[p], held[p]>>
    BY <1>0, <2>1, EndsProperties DEF local, Ends
  <2>3. pc[p] \in Holding => held[p] # None  BY <1>0 DEF HandlersFit
  <2>. QED  BY <1>0, <1>2, <2>1, <2>2, <2>3 DEF Lessees, Holding
<1>. QED
  BY <1>3, <1>4, <1>5, <1>6, <1>7, <1>8 DEF Next, Starts, Proceeds

(* A step that moves no lease, or replaces the pool by an older one.       *)
LEMMA LeasesFrame ==
  ASSUME TypeOK, LeasesAccounted, [Next]_vars, LesseesStay, UNCHANGED <<opening, size>>,
         closing' # None => pool' # None, pool' = None <=> pool = None,
         "pool" \notin mishaps' => "pool" \notin mishaps /\ pool' = pool,
         \A c : c \in open' /\ IsLeased(c, made') => c \in open /\ IsLeased(c, made)
  PROVE  LeasesAccounted'
<1>1. IsFiniteSet(Lessees)'  BY DEF LeasesAccounted, LesseesStay
<1>2. OpeningAccounted'  BY DEF LeasesAccounted, OpeningAccounted
<1>3. ASSUME pool' # None, "pool" \notin mishaps' PROVE LeasesApart'
  BY <1>3 DEF LeasesAccounted, LeasesApart, LesseesStay
<1>. QED  BY <1>1, <1>2, <1>3 DEF LeasesAccounted

(* open_pool: what it opened is in its list until it is the pool.          *)
LEMMA OpenPoolLeases ==
  ASSUME TypeOK, PoolsFit, HandlersFit, LeasesAccounted, LesseesStay, [Next]_vars, OpenPool
  PROVE  LeasesAccounted'
<1>0. /\ PoolsTyped /\ DatabaseTyped /\ OpeningAccounted /\ Connection = 1..Len(made)
      /\ Connection \subseteq Nat /\ open \subseteq Connection
  BY DEF TypeOK, LeasesAccounted, Connection, DatabaseTyped
<1>1. /\ opening.phase \in {"connecting", "closing"} /\ pool = None /\ closing = None
      /\ UNCHANGED <<size, closing>>
      /\ opening.opened \in Seq(Connection) /\ opening.opened \in Seq(Nat)
      /\ (opening.phase = "closing" => opening.opened # << >>)
  <2>1. opening.phase \in {"connecting", "closing"} /\ UNCHANGED <<size, closing>>
    BY DEF OpenPool, PoolConnects, AttemptRaises, OpenedCloses, OpenedCloseRaises
  <2>2. opening.opened \in Seq(Connection)  BY <1>0 DEF PoolsTyped
  <2>3. opening.opened \in Seq(Nat)  BY <1>0, <2>2, SeqMonotonic
  <2>4. opening.phase = "closing" => opening.opened # << >>  BY <1>0 DEF PoolsTyped
  <2>. QED  BY <1>0, <2>1, <2>2, <2>3, <2>4 DEF OpeningAccounted
<1>2. Lessees = {} /\ Lessees' = {} /\ IsFiniteSet(Lessees)' /\ Cardinality(Lessees)' = 0
  <2>1. Lessees = {}  BY <1>1 DEF TypeOK, HandlersTyped, Lessees
  <2>. QED  BY <2>1, FS_EmptySet DEF LesseesStay
<1>3. /\ Injective(opening.opened) /\ Injective(<< >>)
      /\ \A c \in open : IsLeased(c, made) => In(c, opening.opened)
  <2>1. Injective(<< >>)  BY DEF Injective
  <2>. QED  BY <1>0, <1>1, <2>1 DEF OpeningAccounted
<1>4. ASSUME pool' = pool, opening'.phase # "open", Injective(opening'.opened),
             \/ opening'.phase = "raised"
             \/ \A c \in open' : IsLeased(c, made') => In(c, opening'.opened)
      PROVE  LeasesAccounted'
  BY <1>1, <1>2, <1>4 DEF LeasesAccounted, OpeningAccounted
<1>5. CASE PoolConnects
  <2>. DEFINE opened == Append(opening.opened, NewConnection)
  <2>1. /\ NewConnection \in Nat /\ NewConnection \notin Connection
        /\ open' = open \cup {NewConnection}
        /\ \A c : c \in open' /\ IsLeased(c, made') => c = NewConnection \/ (c \in open /\ IsLeased(c, made))
    BY <1>0, <1>5, OpensProperties DEF PoolConnects, IsLeased, Connection, NewConnection
  <2>2. ~In(NewConnection, opening.opened)
    BY <1>1, <2>1, ElementOfSeq, LenProperties DEF In
  <2>3. /\ Injective(opened) /\ opened \in Seq(Nat)
        /\ \A c \in open' : IsLeased(c, made') => In(c, opened)
    BY <1>1, <1>3, <2>1, <2>2, InAppend, AppendProperties
  <2>4. CASE Len(opened) # size
    <3>1. opening' = Opening("connecting", opened, 0) /\ pool' = pool  BY <1>5, <2>4 DEF PoolConnects
    <3>2. opening'.phase = "connecting" /\ opening'.opened = opened  BY <3>1 DEF Opening
    <3>. QED  BY <1>4, <2>3, <3>1, <3>2
  <2>5. CASE Len(opened) = size
    <3>1. opening' = Opening("open", << >>, 0) /\ pool' = NewPool(opened)
      BY <1>5, <2>5 DEF PoolConnects, KeepPool
    <3>2. /\ opening'.phase = "open" /\ opening'.opened = << >>
          /\ pool'.idle = opened /\ pool'.active = 0
      BY <3>1 DEF Opening, NewPool
    <3>3. pool' # None
      <4>1. NewPool(opened) \in Pools
        BY <2>3, LenProperties DEF NewPool, Pools
      <4>. QED  BY <3>1, <4>1, NoneAssumption
    <3>4. OpeningAccounted'  BY <1>3, <3>2, <3>3 DEF OpeningAccounted
    <3>5. Len(opened) \in Nat  BY <2>3, LenProperties
    <3>6. LeasesApart'  BY <1>1, <1>2, <2>3, <2>5, <3>2, <3>5 DEF LeasesApart
    <3>. QED  BY <1>2, <3>4, <3>6 DEF LeasesAccounted
  <2>. QED  BY <2>4, <2>5
<1>6. ASSUME NEW code \in {"unresolvable_dsn", "credential_rejected"}, AttemptRaises(code)
      PROVE  LeasesAccounted'
  <2>1. /\ pool' = pool /\ UNCHANGED <<made, open>> /\ opening'.phase # "open"
        /\ opening'.opened = opening.opened
    BY <1>6 DEF AttemptRaises, Opening
  <2>. QED  BY <1>3, <1>4, <2>1
<1>7. CASE OpenedCloses
  <2>1. /\ pool' = pool /\ made' = made /\ open' = open \ {Head(opening.opened)}
        /\ opening'.phase # "open" /\ opening'.opened = Tail(opening.opened)
    BY <1>7 DEF OpenedCloses, Closes, Opening
  <2>2. opening.opened # << >>  BY <1>1, <1>7 DEF OpenedCloses
  <2>3. /\ Injective(Tail(opening.opened))
        /\ \A c : In(c, Tail(opening.opened)) <=> In(c, opening.opened) /\ c # Head(opening.opened)
    BY <1>1, <1>3, <2>2, InTail
  <2>. QED  BY <1>3, <1>4, <2>1, <2>3
<1>8. CASE OpenedCloseRaises
  <2>1. /\ pool' = pool /\ opening'.phase = "raised" /\ opening'.opened = opening.opened
    BY <1>8 DEF OpenedCloseRaises, Opening
  <2>. QED  BY <1>3, <1>4, <2>1
<1>. QED  BY <1>5, <1>6, <1>7, <1>8 DEF OpenPool

(* lease_connection moves a connection from the pool to a handler.         *)
LEMMA LeaseMoves ==
  ASSUME TypeOK, PoolsFit, HandlersFit, LeasesAccounted, [Next]_vars,
         NEW p \in Handlers, NEW k \in Kinds, LeaseConnection(p, k)
  PROVE  LeasesAccounted'
<1>. DEFINE c == Head(pool.idle)
<1>0. /\ HandlersTyped /\ pool # None /\ pool \in Pools /\ pool.idle \in Seq(Nat) /\ pool.idle # << >>
      /\ pool.active \in Int /\ size = size' /\ Len(pool.idle) \in Nat
      /\ UNCHANGED <<opening, closing, made, open>>
      /\ pool' = Acquired(pool) /\ mishaps' = mishaps
  BY LenProperties DEF TypeOK, PoolsTyped, Pools, LeaseConnection, KeepPool, Exhausted
<1>1. pool' # None /\ pool'.idle = Tail(pool.idle) /\ pool'.active = pool.active + 1
  BY <1>0, PoolOperations, NoneAssumption DEF Acquired, LeaseConnection
<1>2. /\ p \notin Lessees /\ Lessees' = Lessees \cup {p}
      /\ held'[p] = c /\ \A q \in Lessees : held'[q] = held[q]
  BY <1>0 DEF LeaseConnection, Requested, FirstStep, HandlersTyped, Lessees, Holding
<1>3. IsFiniteSet(Lessees)' /\ (pool # None => Cardinality(Lessees)' = Cardinality(Lessees) + 1)
  BY <1>2, FS_AddElement DEF LeasesAccounted
<1>4. OpeningAccounted'  BY <1>0, <1>1 DEF LeasesAccounted, OpeningAccounted
<1>5. ASSUME "pool" \notin mishaps PROVE LeasesApart'
  <2>1. LeasesApart  BY <1>0, <1>5 DEF LeasesAccounted
  <2>2. /\ Injective(Tail(pool.idle)) /\ In(c, pool.idle) /\ Len(Tail(pool.idle)) = Len(pool.idle) - 1
        /\ \A d : In(d, Tail(pool.idle)) <=> In(d, pool.idle) /\ d # c
    BY <1>0, <2>1, InTail DEF LeasesApart
  <2>3. \A q, r \in Lessees' : held'[q] = held'[r] => q = r
    BY <1>2, <2>1, <2>2 DEF LeasesApart
  <2>4. \A q \in Lessees' : ~In(held'[q], pool'.idle)
    BY <1>1, <1>2, <2>1, <2>2 DEF LeasesApart
  <2>5. \A d \in open' : IsLeased(d, made') => In(d, pool'.idle) \/ \E q \in Lessees' : held'[q] = d
    BY <1>0, <1>1, <1>2, <2>1, <2>2 DEF LeasesApart
  <2>6. pool'.active = Cardinality(Lessees)' /\ pool'.active + Len(pool'.idle) = size'
    BY <1>0, <1>1, <1>3, <2>1, <2>2 DEF LeasesApart
  <2>. QED  BY <1>1, <2>2, <2>3, <2>4, <2>5, <2>6 DEF LeasesApart
<1>. QED  BY <1>0, <1>3, <1>4, <1>5 DEF LeasesAccounted

(* release_connection moves it back.                                       *)
LEMMA ReleaseMoves ==
  ASSUME TypeOK, PoolsFit, HandlersFit, LeasesAccounted, [Next]_vars,
         NEW p \in Handlers, Release(p)
  PROVE  LeasesAccounted'
<1>. DEFINE c == held[p]
<1>0. /\ HandlersTyped /\ source[p] = Leased /\ c \in Nat /\ pool # None /\ pool \in Pools
      /\ pool.idle \in Seq(Nat) /\ pool.active \in Int /\ Len(pool.idle) \in Nat
      /\ UNCHANGED <<size, opening, closing, made, open>>
      /\ pool' = ReleaseConnection(pool, c) /\ mishaps' = mishaps
  BY LenProperties DEF TypeOK, PoolsTyped, HandlersTyped, Pools, Release, KeepPool
<1>1. pool' # None /\ pool'.idle = Append(pool.idle, c) /\ pool'.active = pool.active - 1
  BY <1>0, PoolOperations, NoneAssumption DEF ReleaseConnection
<1>2. /\ p \in Lessees /\ Lessees' = Lessees \ {p}
      /\ \A q \in Lessees' : held'[q] = held[q]
  BY <1>0, NoneAssumption DEF Release, Forgets, HandlersTyped, Lessees, Holding
<1>3. IsFiniteSet(Lessees)' /\ Cardinality(Lessees)' = Cardinality(Lessees) - 1
  BY <1>2, FS_RemoveElement DEF LeasesAccounted
<1>4. OpeningAccounted'  BY <1>0, <1>1 DEF LeasesAccounted, OpeningAccounted
<1>5. ASSUME "pool" \notin mishaps PROVE LeasesApart'
  <2>1. LeasesApart  BY <1>0, <1>5 DEF LeasesAccounted
  <2>2. ~In(c, pool.idle)  BY <1>2, <2>1 DEF LeasesApart
  <2>3. /\ Injective(Append(pool.idle, c)) /\ Len(Append(pool.idle, c)) = Len(pool.idle) + 1
        /\ \A d : In(d, Append(pool.idle, c)) <=> In(d, pool.idle) \/ d = c
    BY <1>0, <2>1, <2>2, InAppend DEF LeasesApart
  <2>4. \A q, r \in Lessees' : held'[q] = held'[r] => q = r  BY <1>2, <2>1 DEF LeasesApart
  <2>5. \A q \in Lessees' : ~In(held'[q], pool'.idle)
    BY <1>1, <1>2, <2>1, <2>3 DEF LeasesApart
  <2>6. \A d \in open' : IsLeased(d, made') => In(d, pool'.idle) \/ \E q \in Lessees' : held'[q] = d
    BY <1>0, <1>1, <1>2, <2>1, <2>3 DEF LeasesApart
  <2>7. pool'.active = Cardinality(Lessees)' /\ pool'.active + Len(pool'.idle) = size'
    BY <1>0, <1>1, <1>3, <2>1, <2>3 DEF LeasesApart
  <2>. QED  BY <1>1, <2>3, <2>4, <2>5, <2>6, <2>7 DEF LeasesApart
<1>. QED  BY <1>0, <1>3, <1>4, <1>5 DEF LeasesAccounted

LEMMA LeasesStep ==
  ASSUME TypeOK, PoolsFit, HandlersFit, LeasesAccounted, [Next]_vars
  PROVE  LeasesAccounted'
<1>0. /\ PoolsTyped /\ DatabaseTyped /\ HandlersTyped /\ OpeningAccounted
      /\ Connection = 1..Len(made) /\ open \subseteq Connection /\ None \notin Pools
      /\ (pool # None => pool' # None)
  BY PoolsStep, NoneAssumption DEF TypeOK, LeasesAccounted, Connection, DatabaseTyped
<1>1. ASSUME LesseesStay, UNCHANGED <<opening, size>>, closing' # None => pool' # None,
             pool' = None <=> pool = None,
             "pool" \notin mishaps' => "pool" \notin mishaps /\ pool' = pool,
             made' = made, open' \subseteq open
      PROVE  LeasesAccounted'
  BY <1>1, LeasesFrame
<1>2. CASE LesseesStay
  <2>1. CASE OpenPool  BY <1>2, <2>1, OpenPoolLeases
  <2>2. ASSUME NEW p \in Handlers, ConnectReturns(p) PROVE LeasesAccounted'
    <3>1. /\ UNCHANGED <<pool, opening, closing, size>>
          /\ ("pool" \in mishaps' <=> "pool" \in mishaps)
      BY <2>2 DEF ConnectReturns, KeepRegistry
    <3>2. ResolvePoolKey(source[p]) \in Selectors /\ ResolvePoolKey(source[p]) # Leased
      BY <1>0, <2>2, NoneAssumption DEF ConnectReturns, HandlersTyped
    <3>3. \A c : c \in open' /\ IsLeased(c, made') => c \in open /\ IsLeased(c, made)
      BY <1>0, <2>2, <3>2, OpensProperties DEF ConnectReturns, IsLeased
    <3>. QED  BY <1>0, <1>2, <3>1, <3>3, LeasesFrame DEF OpeningAccounted
  <2>3. ASSUME NEW p \in Handlers, LeaseRefused(p) PROVE LeasesAccounted'
    <3>1. /\ pool # None /\ pool' # None
          /\ UNCHANGED <<opening, size, closing, made, open>>
          /\ ("pool" \notin mishaps' => "pool" \notin mishaps /\ pool' = pool)
      <4>1. given[p] \in Pools /\ pc[p] = "refused"  BY <1>0, <2>3 DEF LeaseRefused, HandlersTyped
      <4>2. /\ UNCHANGED <<opening, size, closing, made, open>> /\ pool' = given[p]
            /\ mishaps' = IF pool = given[p] THEN mishaps ELSE mishaps \cup {"pool"}
        BY <2>3 DEF LeaseRefused, KeepPool
      <4>3. pool # None  BY <1>0, <2>3, <4>1 DEF HandlersTyped, HandlersFit
      <4>. QED  BY <1>0, <4>1, <4>2, <4>3
    <3>. QED  BY <1>1, <1>2, <3>1
  <2>4. CASE PoolCloses
    <3>1. UNCHANGED <<opening, size, made>> /\ open' \subseteq open /\ closing # None
      BY <2>4 DEF PoolCloses, Closes
    <3>2. pool # None /\ pool' # None  BY <1>0, <3>1 DEF OpeningAccounted
    <3>3. "pool" \notin mishaps' => "pool" \notin mishaps /\ pool' = pool
      BY <2>4 DEF PoolCloses, KeepPool
    <3>. QED  BY <1>1, <1>2, <3>1, <3>2, <3>3
  <2>5. CASE ClosePool
    BY <1>0, <1>1, <1>2, <2>5 DEF ClosePool
  <2>6. ASSUME \/ ReapIdle \/ Tick \/ UNCHANGED vars
               \/ \E key \in Reaped : ReapCloses(key) \/ ReapRaises(key)
               \/ \E p \in Handlers, k \in Kinds :
                    \/ LeaseExhausted(p, k)
                    \/ \E manifest \in Manifests :
                         \/ UnknownDatabase(p, manifest, k) \/ CachedPool(p, manifest, k)
                         \/ FirstContact(p, manifest, k)
               \/ \E p \in Handlers :
                    \/ ConnectRaises(p)
                    \/ Begin(p) \/ BeginRaises(p) \/ WriteSucceeds(p) \/ WriteRaises(p)
                    \/ Rollback(p) \/ RollbackRaises(p) \/ Commit(p) \/ CommitRaises(p)
                    \/ Cancelled(p) \/ ExecuteMany(p) \/ ExecuteRaises(p)
        PROVE  LeasesAccounted'
    <3>1. UNCHANGED <<pool, opening, closing, size, made>>
      BY <2>6
      DEF ReapIdle, Tick, vars, pools, ReapCloses, ReapRaises, Closes, LeaseExhausted, UnknownDatabase,
          CachedPool, FirstContact, ConnectRaises, Begin, BeginRaises, WriteSucceeds, WriteRaises,
          Rollback, RollbackRaises, Commit, CommitRaises, Cancelled, ExecuteMany, ExecuteRaises
    <3>2. open' \subseteq open
      BY <2>6
      DEF ReapIdle, Tick, vars, pools, ReapCloses, ReapRaises, Closes, LeaseExhausted, UnknownDatabase,
          CachedPool, FirstContact, ConnectRaises, Begin, BeginRaises, WriteSucceeds, WriteRaises,
          Rollback, RollbackRaises, Commit, CommitRaises, Cancelled, ExecuteMany, ExecuteRaises
    <3>3. mishaps' \in {mishaps, mishaps \cup {"registry"}, mishaps \cup {"reap"}}
      BY <2>6
      DEF ReapIdle, Tick, vars, pools, ReapCloses, ReapRaises, KeepRegistry, LeaseExhausted,
          UnknownDatabase, CachedPool, FirstContact, ConnectRaises, Begin, BeginRaises, WriteSucceeds,
          WriteRaises, Rollback, RollbackRaises, Commit, CommitRaises, Cancelled, ExecuteMany,
          ExecuteRaises
    <3>. QED  BY <1>0, <1>1, <1>2, <3>1, <3>2, <3>3 DEF OpeningAccounted
  <2>7. ASSUME NEW p \in Handlers, NEW k \in Kinds, LeaseConnection(p, k) PROVE LeasesAccounted'
    BY <2>7, LeaseMoves
  <2>8. ASSUME NEW p \in Handlers, Release(p) PROVE LeasesAccounted'
    BY <2>8, ReleaseMoves
  <2>. QED
    BY <2>1, <2>2, <2>3, <2>4, <2>5, <2>6, <2>7, <2>8 DEF Next, Starts, Proceeds
<1>3. CASE ~LesseesStay  BY <1>3, LesseesStep, LeaseMoves, ReleaseMoves
<1>. QED  BY <1>2, <1>3

LEMMA LeasesInit == Init => LeasesAccounted
<1>. SUFFICES ASSUME Init PROVE LeasesAccounted
  OBVIOUS
<1>1. Lessees = {}  BY DEF Init, Lessees, Holding
<1>2. pool = None /\ closing = None /\ open = {} /\ opening.opened = << >> /\ opening.phase # "open"
  BY DEF Init, Opening
<1>3. Injective(<< >>)  BY DEF Injective
<1>. QED  BY <1>1, <1>2, <1>3, FS_EmptySet DEF LeasesAccounted, OpeningAccounted

(* What open_pool, lease and release rely on: a connection is idle, leased *)
(* by one handler or being opened or closed, and is counted once.          *)
THEOREM LeasesInvariant == Spec => []LeasesAccounted
<1>1. TypeOK /\ PoolsFit /\ HandlersFit /\ LeasesAccounted /\ [Next]_vars => LeasesAccounted'
  BY LeasesStep
<1>. QED  BY <1>1, LeasesInit, ConnectionsTypeCorrect, RegistryInvariant, PTL DEF Spec

(* Every open connection has exactly one place, and the pool's size is its *)
(* leases and its idle connections, until a call returns a stale value     *)
(* (pool.py; open_pool in connect.py).                                     *)
THEOREM ConnectionsAreAccounted == Spec => []ConnectionsAccounted
<1>1. TypeOK /\ PoolsFit /\ HandlersFit /\ RegistryAccounted /\ LeasesAccounted
        => ConnectionsAccounted
  <2>. SUFFICES ASSUME TypeOK, PoolsFit, HandlersFit, RegistryAccounted, LeasesAccounted
                PROVE  ConnectionsAccounted
    OBVIOUS
  <2>0. /\ open \subseteq Connection /\ Connection = 1..Len(made) /\ OpeningAccounted
    BY DEF TypeOK, DatabaseTyped, LeasesAccounted, Connection
  <2>1. ASSUME "registry" \notin mishaps
        PROVE  \A c \in open : made[c] # Leased =>
                 LET key == <<made[c].database, made[c].credential>>
                 IN key \in DOMAIN registry /\ registry[key].conn = c
    BY <2>1 DEF RegistryAccounted, PoolKey
  <2>2. ASSUME NEW c \in open, made[c] = Leased, "pool" \notin mishaps, opening.phase # "raised"
        PROVE  Places(c) = 1
    <3>. DEFINE L == {p \in Handlers : LeasedBy(p, c)}
                O == {i \in DOMAIN opening.opened : opening.opened[i] = c}
                I == {i \in DOMAIN pool.idle : pool.idle[i] = c}
    <3>1. /\ L = {p \in Lessees : held[p] = c} /\ IsLeased(c, made)
          /\ Places(c) = Cardinality(L) + Cardinality(O) + (IF pool = None THEN 0 ELSE Cardinality(I))
      BY <2>0, <2>2 DEF LeasedBy, Holds, Lessees, Holding, IsLeased, Places
    <3>2. CASE pool = None
      <4>1. L = {}  BY <3>1, <3>2 DEF TypeOK, HandlersTyped, Lessees
      <4>2. PICK i \in DOMAIN opening.opened : opening.opened[i] = c
        BY <2>0, <2>2, <3>1, <3>2 DEF OpeningAccounted, In
      <4>3. O = {i}  BY <2>0, <4>2 DEF OpeningAccounted, Injective
      <4>4. Cardinality(L) = 0 /\ Cardinality(O) = 1  BY <4>1, <4>3, FS_EmptySet, FS_Singleton
      <4>. HIDE DEF L, O, I
      <4>. QED  BY <3>1, <3>2, <4>4
    <3>3. CASE pool # None
      <4>1. O = {}
        <5>1. opening.opened = << >>  BY <2>0, <3>3 DEF OpeningAccounted
        <5>. QED  BY <5>1
      <4>2. LeasesApart  BY <2>2, <3>3 DEF LeasesAccounted
      <4>3. Cardinality(O) = 0  BY <4>1, FS_EmptySet
      <4>4. CASE In(c, pool.idle)
        <5>1. PICK i \in DOMAIN pool.idle : pool.idle[i] = c  BY <4>4 DEF In
        <5>2. I = {i} /\ L = {}  BY <3>1, <4>2, <4>4, <5>1 DEF LeasesApart, Injective
        <5>3. Cardinality(I) = 1 /\ Cardinality(L) = 0  BY <5>2, FS_EmptySet, FS_Singleton
        <5>. HIDE DEF L, O, I
        <5>. QED  BY <3>1, <3>3, <4>3, <5>3
      <4>5. CASE ~In(c, pool.idle)
        <5>1. PICK p \in Lessees : held[p] = c  BY <2>2, <3>1, <4>2, <4>5 DEF LeasesApart
        <5>2. I = {} /\ L = {p}  BY <3>1, <4>2, <4>5, <5>1 DEF LeasesApart, In
        <5>3. Cardinality(I) = 0 /\ Cardinality(L) = 1  BY <5>2, FS_EmptySet, FS_Singleton
        <5>. HIDE DEF L, O, I
        <5>. QED  BY <3>1, <3>3, <4>3, <5>3
      <4>. QED  BY <4>4, <4>5
    <3>. QED  BY <3>2, <3>3
  <2>3. ASSUME "pool" \notin mishaps, pool # None
        PROVE  /\ pool.active = Cardinality({p \in Handlers : \E c \in Connection : LeasedBy(p, c)})
               /\ pool.active + Len(pool.idle) = size
    <3>1. {p \in Handlers : \E c \in Connection : LeasedBy(p, c)} = Lessees
      BY DEF LeasedBy, Holds, Lessees, Holding, HandlersFit
    <3>. QED  BY <2>3, <3>1 DEF LeasesAccounted, LeasesApart
  <2>. QED  BY <2>1, <2>2, <2>3 DEF ConnectionsAccounted
<1>. QED  BY <1>1, ConnectionsTypeCorrect, RegistryInvariant, LeasesInvariant, PTL
=============================================================================
