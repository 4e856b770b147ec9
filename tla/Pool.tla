--------------------------------- MODULE Pool ---------------------------------
(***************************************************************************)
(* The pure half of honest-persist's pool layer (pool.py): which pool a    *)
(* manifest selects, the registry of pools and a pool of connections, both *)
(* plain values that their callers thread through the calls.               *)
(***************************************************************************)
EXTENDS Integers, Sequences

CONSTANTS
  None       \* no value; also no database, no credential

(* resolve_pool_key: a db_id before a tenant_id; None is the fault         *)
(* unknown_database.                                                       *)
ResolvePoolKey(manifest) ==
  IF manifest.db_id = None /\ manifest.tenant_id = None THEN None
  ELSE [database |-> IF manifest.db_id # None THEN manifest.db_id ELSE manifest.tenant_id,
        credential |-> manifest.credential, lifecycle |-> manifest.db_lifecycle]

(* _pool_key: one pool per database and credential variant.                *)
PoolKey(selector) == <<selector.database, selector.credential>>

EmptyPoolRegistry == [k \in {} |-> None]

(* {**registry, key: entry}                                                *)
WithEntry(registry, key, entry) ==
  [k \in DOMAIN registry \cup {key} |-> IF k = key THEN entry ELSE registry[k]]

(* {**entry, "last_used": now}                                             *)
Touched(entry, now) == [conn |-> entry.conn, lifecycle |-> entry.lifecycle, last_used |-> now]

(* is_idle: strictly longer than the threshold.                            *)
IsIdle(lastUsed, now, threshold) == now - lastUsed > threshold

(* The entries reap_idle closes, and the registry it returns.              *)
Expired(registry, now, threshold) ==
  {k \in DOMAIN registry : /\ registry[k].lifecycle = "on_demand"
                           /\ IsIdle(registry[k].last_used, now, threshold)}
Kept(registry, now, threshold) ==
  [k \in DOMAIN registry \ Expired(registry, now, threshold) |-> registry[k]]

(* should_retry: never for a refused credential.                           *)
ShouldRetry(attempt, retries, code) == attempt < retries /\ code # "credential_rejected"

NewPool(connections) == [size |-> Len(connections), idle |-> connections, active |-> 0]

(* acquire_connection, when a connection is idle: the first one.           *)
Exhausted(pool) == pool.idle = << >>
Acquired(pool) == [size |-> pool.size, idle |-> Tail(pool.idle), active |-> pool.active + 1]

(* release_connection: to the end of the idle ones.                        *)
ReleaseConnection(pool, connection) ==
  [size |-> pool.size, idle |-> Append(pool.idle, connection), active |-> pool.active - 1]
=============================================================================
