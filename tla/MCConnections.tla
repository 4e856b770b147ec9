---------------------------- MODULE MCConnections ----------------------------
(***************************************************************************)
(* Instances of Connections for TLC.                                       *)
(***************************************************************************)
EXTENDS Connections, TLC

CONSTANTS users, ro

Manifest(db, tenant, credential, lifecycle) ==
  [db_id |-> db, tenant_id |-> tenant, credential |-> credential, db_lifecycle |-> lifecycle]

(* One database in two credential variants, one reaped and one kept, and a *)
(* manifest without a database.                                            *)
MCManifests ==
  {Manifest(users, None, None, "on_demand"), Manifest(users, None, ro, "persistent"),
   Manifest(None, None, None, "persistent")}

(* Bounds: get_pool and open_pool share no state, so a behaviour uses one  *)
(* of the two; three requests where one connection is leased, two else.    *)
Bounded ==
  /\ size = 0 \/ (registry = EmptyPoolRegistry /\ \A p \in Handlers : pc[p] # "connecting")
  /\ jobs <= IF size = 1 THEN 3 ELSE 2

Symmetry == Permutations(Handlers)
=============================================================================
