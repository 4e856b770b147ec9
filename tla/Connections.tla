------------------------------ MODULE Connections ------------------------------
(***************************************************************************)
(* Handlers that get a connection from honest-persist and write with it:   *)
(* get_pool, reap_idle, lease_connection, release_connection, close_pool   *)
(* (pool.py), open_pool and connect_with_retry (connect.py), transaction   *)
(* (transaction.py) and execute_many (execute.py).                         *)
(*                                                                         *)
(* The registry and the pool are values: a call is given the value its     *)
(* caller holds and the caller keeps the one it returns.  A call that      *)
(* awaits nothing is one step; one that awaits is given its value in one   *)
(* step and returns in a later one (given), whatever happened meanwhile.   *)
(*                                                                         *)
(* External: the application that holds the two values and assigns what    *)
(* the calls return, the drivers and their databases.                      *)
(***************************************************************************)
EXTENDS Pool, FiniteSets

CONSTANTS
  Handlers,     \* request handlers, concurrent coroutines
  Manifests,    \* routing keys: [db_id, tenant_id, credential, db_lifecycle]
  Leased,       \* in place of a manifest: a connection leased from the pool
  Sizes,        \* how many connections open_pool is asked for; 0: no pool is opened
  Retries,      \* retries of a connection attempt
  Writes,       \* writes of one transaction
  Threshold,    \* reap_idle's threshold
  Warns,        \* whether drivers may warn where others refuse: a begin inside an open
                \*   transaction, a commit or a rollback outside one; and abort a
                \*   transaction at a failed statement (PostgreSQL, not SQLite)
  MaxNow,       \* bound: the clock
  MaxJobs       \* bound: requests

ASSUME ConnectionsAssumption ==
  /\ Sizes \subseteq Nat /\ Retries \in Nat /\ Writes \in Nat /\ Threshold \in Nat
  /\ Warns \in BOOLEAN
  /\ MaxNow \in Nat /\ MaxJobs \in Nat
  /\ Leased \notin Manifests

(* The values there are; None and Leased are none of them.                 *)
Kinds == {"transaction", "execute"}
Answers == {"ok", "write_failed", "unknown_database", "pool_exhausted", "raised"}
Selectors == {ResolvePoolKey(m) : m \in Manifests} \ {None}
Keys == {PoolKey(s) : s \in Selectors}
Entries == [conn : Nat, lifecycle : {s.lifecycle : s \in Selectors}, last_used : Nat]
Registries(K) == [K -> Entries]
Reaps(K) == [given : Registries(K), now : Nat, left : SUBSET K]
Pools == [size : Nat, idle : Seq(Nat), active : Int]
Transactions == [owner : Nat, writes : SUBSET (Nat \X Nat)]

ASSUME NoneAssumption ==
  /\ None \notin Nat \cup Kinds \cup Answers \cup Pools \cup Transactions
  /\ \A K \in SUBSET Keys : None \notin Registries(K) \cup Reaps(K)
  /\ None # Leased /\ None \notin Manifests
  /\ Leased \notin Selectors

Jobs == 1..MaxJobs
WritesOf(j, kind) == {<<j, i>> : i \in 1..(IF kind = "transaction" THEN Writes ELSE 1)}

VARIABLES
  now,
  registry,     \* the pool registry the application holds
  pool,         \* the pool it holds, None before open_pool returned
  size,         \* the size of the pool
  opening,      \* open_pool: [phase, opened, attempt]
  reaping,      \* reap_idle under way: [given, now, left], or None
  closing,      \* close_pool under way: [given, left], or None
  shut,         \* whether close_pool was called
  made,         \* what each connection was opened for: a selector or Leased
  open,         \* the connections that are open
  tx,           \* the open transaction of each: [owner, writes] or None
  committed,    \* the writes the databases keep
  aborted,      \* the connections whose open transaction takes no more statements
  jobs,         \* requests so far
  pc, job, source, held, since, given, step,   \* of each handler
  kind,         \* of each job
  answer,       \* what each job's call came to, None while it runs
  joined,       \* the job whose open transaction an execute ran in, or None
  entangled,    \* bookkeeping: jobs that shared one open transaction, see Entangles
  mishaps       \* bookkeeping: "registry" / "pool", a returned value replaced a newer
                \* one; "reap", close raised in reap_idle

pools == <<registry, pool, size, opening, reaping, closing, shut>>
database == <<tx, committed, aborted, entangled>>
local == <<job, source, held, since, given, step>>
vars == <<now, pools, made, open, database, jobs, pc, local, kind, answer, joined, mishaps>>

-----------------------------------------------------------------------------
Opening(phase, opened, attempt) == [phase |-> phase, opened |-> opened, attempt |-> attempt]

Init ==
  /\ now = 0
  /\ registry = EmptyPoolRegistry /\ pool = None /\ size \in Sizes
  /\ opening = Opening(IF size = 0 THEN "none" ELSE "connecting", << >>, 0)
  /\ reaping = None /\ closing = None /\ shut = FALSE
  /\ made = << >> /\ open = {} /\ tx = << >> /\ committed = {} /\ aborted = {} /\ entangled = {}
  /\ jobs = 0
  /\ pc = [p \in Handlers |-> "idle"]
  /\ job = [p \in Handlers |-> 0]
  /\ source = [p \in Handlers |-> None]
  /\ held = [p \in Handlers |-> None]
  /\ since = [p \in Handlers |-> 0]
  /\ given = [p \in Handlers |-> None]
  /\ step = [p \in Handlers |-> 0]
  /\ kind = [j \in Jobs |-> None]
  /\ answer = [j \in Jobs |-> None]
  /\ joined = [j \in Jobs |-> None]
  /\ mishaps = {}

(* What the application does with a registry or a pool a call returns.     *)
KeepRegistry(returned, from) ==
  /\ registry' = returned
  /\ mishaps' = IF registry = from THEN mishaps ELSE mishaps \cup {"registry"}
KeepPool(returned, from) ==
  /\ pool' = returned
  /\ mishaps' = IF pool = from THEN mishaps ELSE mishaps \cup {"pool"}

(* A driver opens a connection, or closes one and forgets its transaction. *)
NewConnection == Len(made) + 1
Opens(selector) ==
  /\ made' = Append(made, selector)
  /\ open' = open \cup {NewConnection}
  /\ tx' = Append(tx, None)
  /\ UNCHANGED <<committed, aborted, entangled>>
Closes(c) ==
  /\ open' = open \ {c}
  /\ tx' = [tx EXCEPT ![c] = None] /\ aborted' = aborted \ {c}
  /\ UNCHANGED <<made, committed, entangled>>

-----------------------------------------------------------------------------
(* open_pool: the next connection of the pool is open; the last one makes  *)
(* the pool.                                                               *)
PoolConnects ==
  /\ opening.phase = "connecting"
  /\ Opens(Leased)
  /\ LET opened == Append(opening.opened, NewConnection)
     IN IF Len(opened) = size
        THEN /\ opening' = Opening("open", << >>, 0)
             /\ KeepPool(NewPool(opened), None)
        ELSE /\ opening' = Opening("connecting", opened, 0)
             /\ UNCHANGED <<pool, mishaps>>
  /\ UNCHANGED <<now, registry, size, reaping, closing, shut, jobs, pc, local, kind, answer, joined>>

(* Mutant: open_pool returns the fault without closing what it opened.     *)
AttemptAbandons(code) ==
  /\ opening.phase = "connecting"
  /\ IF ShouldRetry(opening.attempt, Retries, code)
     THEN opening' = Opening("connecting", opening.opened, opening.attempt + 1)
     ELSE opening' = Opening("failed", << >>, opening.attempt)
  /\ UNCHANGED <<now, registry, pool, size, reaping, closing, shut, made, open, database, jobs, pc,
                 local, kind, answer, joined, mishaps>>

(* connect_with_retry: the attempt raised, classified as code: another     *)
(* attempt after the backoff, or the fault, and what is open is closed.    *)
AttemptRaises(code) ==
  /\ opening.phase = "connecting"
  /\ IF ShouldRetry(opening.attempt, Retries, code)
     THEN opening' = Opening("connecting", opening.opened, opening.attempt + 1)
     ELSE opening' = Opening(IF opening.opened = << >> THEN "failed" ELSE "closing",
                             opening.opened, opening.attempt)
  /\ UNCHANGED <<now, registry, pool, size, reaping, closing, shut, made, open, database, jobs, pc,
                 local, kind, answer, joined, mishaps>>

(* open_pool's close of what it opened, one connection after the other.    *)
OpenedCloses ==
  /\ opening.phase = "closing"
  /\ Closes(Head(opening.opened))
  /\ opening' = Opening(IF Tail(opening.opened) = << >> THEN "failed" ELSE "closing",
                        Tail(opening.opened), opening.attempt)
  /\ UNCHANGED <<now, registry, pool, size, reaping, closing, shut, jobs, pc, local, kind, answer, joined,
                 mishaps>>

(* close raises out of open_pool: the rest stays open.                     *)
OpenedCloseRaises ==
  /\ opening.phase = "closing"
  /\ opening' = Opening("raised", opening.opened, opening.attempt)
  /\ UNCHANGED <<now, registry, pool, size, reaping, closing, shut, made, open, database, jobs, pc,
                 local, kind, answer, joined, mishaps>>

-----------------------------------------------------------------------------
(* The start of a job of handler p, whose call of get_pool or              *)
(* lease_connection begins now.                                            *)
Requested(p, src, k) ==
  /\ pc[p] = "idle" /\ jobs < MaxJobs
  /\ jobs' = jobs + 1
  /\ job' = [job EXCEPT ![p] = jobs']
  /\ source' = [source EXCEPT ![p] = src]
  /\ since' = [since EXCEPT ![p] = now]
  /\ step' = [step EXCEPT ![p] = 1]
  /\ kind' = [kind EXCEPT ![jobs'] = k]

FirstStep(k) == IF k = "transaction" THEN "begin" ELSE "execute"

Forgets(p) ==
  /\ job' = [job EXCEPT ![p] = 0]
  /\ source' = [source EXCEPT ![p] = None]
  /\ held' = [held EXCEPT ![p] = None]
  /\ since' = [since EXCEPT ![p] = 0]
  /\ given' = [given EXCEPT ![p] = None]
  /\ step' = [step EXCEPT ![p] = 0]

(* The call of p ends with a; a leased connection is then released.        *)
Ends(p, a) ==
  /\ answer' = [answer EXCEPT ![job[p]] = a]
  /\ IF source[p] = Leased /\ held[p] # None
     THEN pc' = [pc EXCEPT ![p] = "release"] /\ UNCHANGED local
     ELSE pc' = [pc EXCEPT ![p] = "idle"] /\ Forgets(p)

(* get_pool for a manifest that names no database.                         *)
UnknownDatabase(p, manifest, k) ==
  /\ ResolvePoolKey(manifest) = None
  /\ pc[p] = "idle" /\ jobs < MaxJobs
  /\ jobs' = jobs + 1
  /\ kind' = [kind EXCEPT ![jobs'] = k]
  /\ answer' = [answer EXCEPT ![jobs'] = "unknown_database"]
  /\ UNCHANGED <<now, pools, made, open, database, pc, local, joined, mishaps>>

(* Mutant: a pool served from the registry is not touched.                 *)
UntouchedPool(p, manifest, k) ==
  /\ ResolvePoolKey(manifest) # None
  /\ LET key == PoolKey(ResolvePoolKey(manifest))
     IN /\ key \in DOMAIN registry
        /\ held' = [held EXCEPT ![p] = registry[key].conn]
        /\ KeepRegistry(registry, registry)
  /\ Requested(p, manifest, k)
  /\ pc' = [pc EXCEPT ![p] = FirstStep(k)]
  /\ UNCHANGED <<now, pool, size, opening, reaping, closing, shut, made, open, database, given, answer,
                 joined>>

(* get_pool for a pool in the registry: nothing is awaited.                *)
CachedPool(p, manifest, k) ==
  /\ ResolvePoolKey(manifest) # None
  /\ LET key == PoolKey(ResolvePoolKey(manifest))
     IN /\ key \in DOMAIN registry
        /\ held' = [held EXCEPT ![p] = registry[key].conn]
        /\ KeepRegistry(WithEntry(registry, key, Touched(registry[key], now)), registry)
  /\ Requested(p, manifest, k)
  /\ pc' = [pc EXCEPT ![p] = FirstStep(k)]
  /\ UNCHANGED <<now, pool, size, opening, reaping, closing, shut, made, open, database, given, answer,
                 joined>>

(* get_pool on first contact awaits connect.                               *)
FirstContact(p, manifest, k) ==
  /\ ResolvePoolKey(manifest) # None
  /\ PoolKey(ResolvePoolKey(manifest)) \notin DOMAIN registry
  /\ Requested(p, manifest, k)
  /\ given' = [given EXCEPT ![p] = registry]
  /\ pc' = [pc EXCEPT ![p] = "connecting"]
  /\ UNCHANGED <<now, pools, made, open, database, held, answer, joined, mishaps>>

(* connect returned, and the await of the event after it: the new entry on *)
(* top of the registry get_pool was given, with the time it was called at. *)
(* Nobody else sees the connection before that.                            *)
ConnectReturns(p) ==
  /\ pc[p] = "connecting"
  /\ LET selector == ResolvePoolKey(source[p])
     IN /\ Opens(selector)
        /\ KeepRegistry(WithEntry(given[p], PoolKey(selector),
                                  [conn |-> NewConnection, lifecycle |-> selector.lifecycle,
                                   last_used |-> since[p]]), given[p])
  /\ held' = [held EXCEPT ![p] = NewConnection]
  /\ given' = [given EXCEPT ![p] = None]
  /\ pc' = [pc EXCEPT ![p] = FirstStep(kind[job[p]])]
  /\ UNCHANGED <<now, pool, size, opening, reaping, closing, shut, jobs, job, source, since, step, kind,
                 answer, joined>>

ConnectRaises(p) ==
  /\ pc[p] = "connecting"
  /\ Ends(p, "raised")
  /\ UNCHANGED <<now, pools, made, open, database, jobs, kind, joined, mishaps>>

(* lease_connection with an idle connection: nothing is awaited.           *)
LeaseConnection(p, k) ==
  /\ pool # None
  /\ ~Exhausted(pool)
  /\ Requested(p, Leased, k)
  /\ held' = [held EXCEPT ![p] = Head(pool.idle)]
  /\ KeepPool(Acquired(pool), pool)
  /\ pc' = [pc EXCEPT ![p] = FirstStep(k)]
  /\ UNCHANGED <<now, registry, size, opening, reaping, closing, shut, made, open, database, given,
                 answer, joined>>

(* lease_connection with none: the event of the exhausted pool is awaited  *)
(* before the fault and the pool, as it was given, are returned.           *)
LeaseExhausted(p, k) ==
  /\ pool # None
  /\ Exhausted(pool)
  /\ Requested(p, Leased, k)
  /\ held' = [held EXCEPT ![p] = None]
  /\ given' = [given EXCEPT ![p] = pool]
  /\ pc' = [pc EXCEPT ![p] = "refused"]
  /\ UNCHANGED <<now, pools, made, open, database, answer, joined, mishaps>>

LeaseRefused(p) ==
  /\ pc[p] = "refused"
  /\ KeepPool(given[p], given[p])
  /\ Ends(p, "pool_exhausted")
  /\ UNCHANGED <<now, registry, size, opening, reaping, closing, shut, made, open, database, jobs, kind,
                 joined>>

Release(p) ==
  /\ pc[p] = "release"
  /\ KeepPool(ReleaseConnection(pool, held[p]), pool)
  /\ pc' = [pc EXCEPT ![p] = "idle"]
  /\ Forgets(p)
  /\ UNCHANGED <<now, registry, size, opening, reaping, closing, shut, made, open, database, jobs, kind,
                 answer, joined>>

-----------------------------------------------------------------------------
(* reap_idle reads the registry and the clock, and awaits the first close. *)
ReapIdle ==
  /\ reaping = None
  /\ Expired(registry, now, Threshold) # {}
  /\ reaping' = [given |-> registry, now |-> now, left |-> Expired(registry, now, Threshold)]
  /\ UNCHANGED <<now, registry, pool, size, opening, closing, shut, made, open, database, jobs, pc, local, kind,
                 answer, joined, mishaps>>

StillToClose(keys) == [given |-> reaping.given, now |-> reaping.now, left |-> keys]

(* Mutant: the entry of a closed connection is kept.                       *)
ReapKeepsEntry(key) ==
  /\ reaping # None /\ key \in reaping.left
  /\ Closes(reaping.given[key].conn)
  /\ reaping' = IF reaping.left = {key} THEN None ELSE StillToClose(reaping.left \ {key})
  /\ UNCHANGED <<now, registry, mishaps, pool, size, opening, closing, shut, jobs, pc, local, kind, answer,
                 joined>>

(* close returned: the next one, or the registry of what was kept.         *)
ReapCloses(key) ==
  /\ reaping # None /\ key \in reaping.left
  /\ Closes(reaping.given[key].conn)
  /\ IF reaping.left = {key}
     THEN /\ KeepRegistry(Kept(reaping.given, reaping.now, Threshold), reaping.given)
          /\ reaping' = None
     ELSE /\ reaping' = StillToClose(reaping.left \ {key})
          /\ UNCHANGED <<registry, mishaps>>
  /\ UNCHANGED <<now, pool, size, opening, closing, shut, jobs, pc, local, kind, answer, joined>>

(* close raises out of reap_idle: the application keeps the registry it    *)
(* had, with the entries of the connections already closed.                *)
ReapRaises(key) ==
  /\ reaping # None /\ key \in reaping.left
  /\ \/ Closes(reaping.given[key].conn)
     \/ UNCHANGED <<made, open, database>>
  /\ reaping' = None
  /\ mishaps' = mishaps \cup {"reap"}
  /\ UNCHANGED <<now, registry, pool, size, opening, closing, shut, jobs, pc, local, kind, answer, joined>>

(* close_pool, when the server shuts down: it closes what is idle in the   *)
(* pool it was given, and returns that pool.                               *)
ClosePool ==
  /\ pool # None /\ ~shut
  /\ shut' = TRUE
  /\ closing' = [given |-> pool, left |-> pool.idle]
  /\ UNCHANGED <<now, registry, pool, size, opening, reaping, made, open, database, jobs, pc, local, kind, answer,
                 joined, mishaps>>

PoolCloses ==
  /\ closing # None
  /\ IF closing.left # << >>
     THEN /\ Closes(Head(closing.left))
          /\ closing' = [given |-> closing.given, left |-> Tail(closing.left)]
          /\ UNCHANGED <<pool, mishaps>>
     ELSE /\ KeepPool(closing.given, closing.given)
          /\ closing' = None
          /\ UNCHANGED <<made, open, database>>
  /\ UNCHANGED <<now, registry, size, opening, reaping, shut, jobs, pc, local, kind, answer, joined>>

-----------------------------------------------------------------------------
(* Two calls of transaction meet in the open transaction of a connection:  *)
(* the job of p begins, writes, commits or rolls back in that of another.  *)
Entangles(p) ==
  LET t == tx[held[p]]
  IN entangled' = IF t = None \/ t.owner = job[p] THEN entangled
                  ELSE entangled \cup {job[p], t.owner}

(* transaction: begin.  Nothing keeps it off a connection inside an open   *)
(* transaction but the driver: one refuses, and begin raises; another      *)
(* warns, and the call goes on inside the open transaction.                *)
Begin(p) ==
  /\ pc[p] = "begin"
  /\ held[p] \in open
  /\ \/ /\ tx[held[p]] = None
        /\ tx' = [tx EXCEPT ![held[p]] = [owner |-> job[p], writes |-> {}]]
     \/ /\ tx[held[p]] # None /\ Warns /\ held[p] \notin aborted
        /\ UNCHANGED tx
  /\ Entangles(p)
  /\ pc' = [pc EXCEPT ![p] = "writing"]
  /\ UNCHANGED <<now, pools, made, open, committed, aborted, jobs, local, kind, answer, joined, mishaps>>

BeginRaises(p) ==
  /\ pc[p] = "begin"
  /\ Ends(p, "raised")
  /\ UNCHANGED <<now, pools, made, open, database, jobs, kind, joined, mishaps>>

(* What a driver does with a write: it joins the open transaction of the   *)
(* connection, whoever began it, and is kept at once without one.          *)
Execute(c, write) ==
  /\ c \in open /\ c \notin aborted
  /\ IF tx[c] = None
     THEN committed' = committed \cup {write} /\ UNCHANGED tx
     ELSE /\ tx' = [tx EXCEPT ![c] = [owner |-> tx[c].owner, writes |-> tx[c].writes \cup {write}]]
          /\ UNCHANGED committed
  /\ UNCHANGED aborted

(* And with one that fails.                                                *)
Aborts(c) == Warns /\ c \in open /\ tx[c] # None /\ aborted' = aborted \cup {c}

(* execute_many of the next write of the transaction.                      *)
WriteSucceeds(p) ==
  /\ pc[p] = "writing" /\ step[p] <= Writes
  /\ Execute(held[p], <<job[p], step[p]>>)
  /\ Entangles(p)
  /\ step' = [step EXCEPT ![p] = @ + 1]
  /\ UNCHANGED <<now, pools, made, open, jobs, pc, job, source, held, since, given, kind, answer,
                 joined, mishaps>>

(* Mutant: a write that fails is skipped.                                  *)
WriteSkipped(p) ==
  /\ pc[p] = "writing" /\ step[p] <= Writes
  /\ step' = [step EXCEPT ![p] = @ + 1]
  /\ UNCHANGED <<now, pools, made, open, database, jobs, pc, job, source, held, since, given, kind,
                 answer, joined, mishaps>>

(* It raises: the constraint is violated or the connection is closed.      *)
WriteRaises(p) ==
  /\ pc[p] = "writing" /\ step[p] <= Writes
  /\ \/ UNCHANGED <<aborted, entangled>>
     \/ Aborts(held[p]) /\ Entangles(p)
  /\ pc' = [pc EXCEPT ![p] = "rollback"]
  /\ UNCHANGED <<now, pools, made, open, tx, committed, jobs, local, kind, answer, joined, mishaps>>

(* Mutant: the fault is returned without a rollback.                       *)
NoRollback(p) ==
  /\ pc[p] = "rollback"
  /\ Ends(p, "write_failed")
  /\ UNCHANGED <<now, pools, made, open, database, jobs, kind, joined, mishaps>>

(* What a driver does with a rollback, and with a commit: it is the open   *)
(* transaction of the connection that ends, whoever began it; an aborted   *)
(* one is rolled back by a commit, too.                                    *)
RollsBack(c) ==
  /\ c \in open /\ (tx[c] # None \/ Warns)
  /\ tx' = [tx EXCEPT ![c] = None] /\ aborted' = aborted \ {c}
  /\ UNCHANGED committed
Commits(c) ==
  /\ c \in open /\ (tx[c] # None \/ Warns)
  /\ committed' = IF tx[c] = None \/ c \in aborted THEN committed ELSE committed \cup tx[c].writes
  /\ tx' = [tx EXCEPT ![c] = None] /\ aborted' = aborted \ {c}

Rollback(p) ==
  /\ pc[p] = "rollback"
  /\ RollsBack(held[p])
  /\ Entangles(p)
  /\ Ends(p, "write_failed")
  /\ UNCHANGED <<now, pools, made, open, jobs, kind, joined, mishaps>>

(* Mutant: the transaction is answered without its commit.                 *)
NoCommit(p) ==
  /\ pc[p] = "writing" /\ step[p] > Writes
  /\ Ends(p, "ok")
  /\ UNCHANGED <<now, pools, made, open, database, jobs, kind, joined, mishaps>>

Commit(p) ==
  /\ pc[p] = "writing" /\ step[p] > Writes
  /\ Commits(held[p])
  /\ Entangles(p)
  /\ Ends(p, "ok")
  /\ UNCHANGED <<now, pools, made, open, jobs, kind, joined, mishaps>>

(* rollback and commit are not caught: either raises out of transaction,   *)
(* with the transaction as it was, or done with and the answer lost.       *)
RollbackRaises(p) ==
  /\ pc[p] = "rollback"
  /\ \/ UNCHANGED database
     \/ RollsBack(held[p]) /\ Entangles(p)
  /\ Ends(p, "raised")
  /\ UNCHANGED <<now, pools, made, open, jobs, kind, joined, mishaps>>

CommitRaises(p) ==
  /\ pc[p] = "writing" /\ step[p] > Writes
  /\ \/ UNCHANGED database
     \/ Commits(held[p]) /\ Entangles(p)
  /\ Ends(p, "raised")
  /\ UNCHANGED <<now, pools, made, open, jobs, kind, joined, mishaps>>

(* The server cancels the task of p while it awaits a write: a cancelled   *)
(* await raises no Exception, so transaction leaves without a rollback.    *)
Cancelled(p) ==
  /\ pc[p] = "writing"
  /\ Ends(p, "raised")
  /\ UNCHANGED <<now, pools, made, open, database, jobs, kind, joined, mishaps>>

(* execute_many of a write outside a transaction of its own.               *)
ExecuteMany(p) ==
  /\ pc[p] = "execute"
  /\ Execute(held[p], <<job[p], 1>>)
  /\ joined' = [joined EXCEPT ![job[p]] = IF tx[held[p]] = None THEN None ELSE tx[held[p]].owner]
  /\ Ends(p, "ok")
  /\ UNCHANGED <<now, pools, made, open, entangled, jobs, kind, mishaps>>

(* It raises, and may take the open transaction of another with it.        *)
ExecuteRaises(p) ==
  /\ pc[p] = "execute"
  /\ \/ UNCHANGED <<aborted, entangled>>
     \/ Aborts(held[p]) /\ entangled' = entangled \cup {tx[held[p]].owner}
  /\ Ends(p, "raised")
  /\ UNCHANGED <<now, pools, made, open, tx, committed, jobs, kind, joined, mishaps>>

Reaped == IF reaping = None THEN {} ELSE reaping.left

Tick ==
  /\ now < MaxNow /\ now' = now + 1
  /\ UNCHANGED <<pools, made, open, database, jobs, pc, local, kind, answer, joined, mishaps>>

-----------------------------------------------------------------------------
OpenPool ==
  \/ PoolConnects \/ OpenedCloses \/ OpenedCloseRaises
  \/ \E code \in {"unresolvable_dsn", "credential_rejected"} : AttemptRaises(code)

Starts(p) ==
  \E k \in Kinds :
    \/ LeaseConnection(p, k) \/ LeaseExhausted(p, k)
    \/ \E manifest \in Manifests :
         UnknownDatabase(p, manifest, k) \/ CachedPool(p, manifest, k) \/ FirstContact(p, manifest, k)

Proceeds(p) ==
  \/ ConnectReturns(p) \/ ConnectRaises(p) \/ LeaseRefused(p) \/ Release(p)
  \/ Begin(p) \/ BeginRaises(p) \/ WriteSucceeds(p) \/ WriteRaises(p)
  \/ Rollback(p) \/ RollbackRaises(p) \/ Commit(p) \/ CommitRaises(p)
  \/ Cancelled(p) \/ ExecuteMany(p) \/ ExecuteRaises(p)

Next ==
  \/ OpenPool \/ ReapIdle \/ ClosePool \/ PoolCloses \/ Tick
  \/ \E key \in Reaped : ReapCloses(key) \/ ReapRaises(key)
  \/ \E p \in Handlers : Starts(p) \/ Proceeds(p)

Spec == Init /\ [][Next]_vars

-----------------------------------------------------------------------------
Connection == 1..Len(made)
InTransaction(p) == pc[p] \in {"writing", "rollback"}
Holds(p, c) == pc[p] \in {"begin", "writing", "rollback", "execute", "release"} /\ held[p] = c
LeasedBy(p, c) == source[p] = Leased /\ Holds(p, c)

IsRegistry(r) == \E K \in SUBSET Keys : r \in Registries(K)

PoolsTyped ==
  /\ IsRegistry(registry) /\ pool \in Pools \cup {None} /\ size \in Sizes
  /\ opening \in [phase : {"none", "connecting", "open", "closing", "failed", "raised"},
                  opened : Seq(Connection), attempt : 0..Retries]
  /\ opening.phase = "closing" => opening.opened # << >>
  /\ reaping = None \/ \E K \in SUBSET Keys : reaping \in Reaps(K)
  /\ closing = None \/ closing \in [given : Pools, left : Seq(Nat)]
  /\ shut \in BOOLEAN /\ mishaps \subseteq {"registry", "pool", "reap"}

DatabaseTyped ==
  /\ made \in Seq(Selectors \cup {Leased}) /\ open \subseteq Connection
  /\ tx \in Seq(Transactions \cup {None}) /\ Len(tx) = Len(made)
  /\ committed \subseteq Nat \X Nat
  /\ aborted \subseteq Connection /\ entangled \subseteq Nat

HandlersTyped ==
  /\ pc \in [Handlers -> {"idle", "connecting", "refused", "begin", "writing", "rollback",
                          "execute", "release"}]
  /\ job \in [Handlers -> 0..jobs]
  /\ source \in [Handlers -> Manifests \cup {Leased, None}]
  /\ held \in [Handlers -> Nat \cup {None}]
  /\ since \in [Handlers -> 0..now]
  /\ step \in [Handlers -> 0..(Writes + 1)]
  /\ DOMAIN given = Handlers
  /\ \A p \in Handlers :
       /\ pc[p] = "connecting" =>
            IsRegistry(given[p]) /\ source[p] \in Manifests
              /\ ResolvePoolKey(source[p]) \in Selectors
       /\ pc[p] = "refused" => given[p] \in Pools /\ held[p] = None
       /\ pc[p] \in {"connecting", "begin"} => step[p] = 1
       /\ InTransaction(p) => step[p] > 0
       /\ pc[p] = "release" => source[p] = Leased /\ held[p] \in Nat
       /\ source[p] = Leased => pool # None

JobsTyped ==
  /\ now \in 0..MaxNow /\ jobs \in 0..MaxJobs
  /\ kind \in [Jobs -> Kinds \cup {None}]
  /\ answer \in [Jobs -> Answers \cup {None}]
  /\ joined \in [Jobs -> Nat \cup {None}]

(* Every variable has its type.                                            *)
TypeOK == PoolsTyped /\ DatabaseTyped /\ HandlersTyped /\ JobsTyped

(* As long as no call returned a value that a later one had replaced, every *)
(* open connection has exactly one place: the registry's entry for what it *)
(* was opened for, or open_pool's list, the pool's idle list or one lease  *)
(* ("so none leak"; "a connection handed out twice" is "the bug category   *)
(* the design eliminates").  Only a close that raises leaves open_pool's   *)
(* connections behind.                                                     *)
Places(c) ==
  Cardinality({p \in Handlers : LeasedBy(p, c)})
    + Cardinality({i \in DOMAIN opening.opened : opening.opened[i] = c})
    + (IF pool = None THEN 0 ELSE Cardinality({i \in DOMAIN pool.idle : pool.idle[i] = c}))

ConnectionsAccounted ==
  /\ "registry" \notin mishaps =>
       \A c \in open : made[c] # Leased =>
         LET key == <<made[c].database, made[c].credential>>
         IN key \in DOMAIN registry /\ registry[key].conn = c
  /\ "pool" \notin mishaps /\ opening.phase # "raised" =>
       /\ \A c \in open : made[c] = Leased => Places(c) = 1
       /\ pool # None =>
            /\ pool.active = Cardinality({p \in Handlers : \E c \in Connection : LeasedBy(p, c)})
            /\ pool.active + Len(pool.idle) = size

(* What the registry offers is open, but for a connection a reap under way *)
(* is closing, or after a mishap (get_pool never checks what it hands out).*)
RegistryServesOpen ==
  \A k \in DOMAIN registry :
    \/ registry[k].conn \in open
    \/ /\ reaping # None
       /\ k \in Expired(reaping.given, reaping.now, Threshold)
       /\ reaping.given[k].conn = registry[k].conn
    \/ mishaps \cap {"registry", "reap"} # {}

(* reap_idle closes no connection under a handler that got it within the   *)
(* threshold, unless it got it while the reap was under way: only a call   *)
(* that lasts longer than the threshold is hit ("idle past the threshold").*)
ReapStep ==
  \A key \in Reaped :
    LET c == reaping.given[key].conn
    IN c \in open /\ c \notin open' =>
         \A p \in Handlers :
           Holds(p, c) => \/ reaping.now - since[p] > Threshold
                          \/ since[p] >= reaping.now
                          \/ "registry" \in mishaps
ReapSparesRecent == [][ReapStep]_vars

(* At any moment the databases keep all writes of a job or none: all of an *)
(* answered ok, none of a write_failed; whoever closes the connection, and *)
(* whatever single writes share the open transaction.  Only a job whose    *)
(* transaction another call of transaction ran in, or a failed write of    *)
(* another aborted, may be halved, lost or kept by that other: a driver    *)
(* that refuses the second begin keeps both apart, one that only warns     *)
(* does not, and transaction.py does not look.                             *)
WritesAllOrNothing ==
  \A j \in (1..jobs) \ entangled :
    LET kept == WritesOf(j, kind[j]) \cap committed
    IN /\ kept \in {{}, WritesOf(j, kind[j])}
       /\ answer[j] = "write_failed" => kept = {}
       /\ answer[j] = "ok" /\ kind[j] = "transaction" => kept = WritesOf(j, kind[j])

(* A write outside a transaction that was answered ok is kept; or it ran,  *)
(* on a connection two handlers were given, inside another job's           *)
(* transaction, and that job has not been answered ok or was entangled     *)
(* itself.                                                                 *)
AckedWritesStay ==
  \A j \in 1..jobs :
    answer[j] = "ok" /\ kind[j] = "execute" =>
      \/ <<j, 1>> \in committed
      \/ joined[j] # None /\ (answer[joined[j]] # "ok" \/ joined[j] \in entangled)

(* A transaction is open only while its handler is in it, or for good      *)
(* after its commit or rollback raised or its task was cancelled           *)
(* (transaction.py catches none of the three).                             *)
OpenTransactionHasOwner ==
  \A c \in Connection :
    tx[c] # None =>
      \/ \E p \in Handlers : InTransaction(p) /\ held[p] = c /\ job[p] = tx[c].owner
      \/ answer[tx[c].owner] = "raised"
=============================================================================
