------------------------------- MODULE MCCutover -------------------------------
(***************************************************************************)
(* Instances of Cutover for TLC.                                           *)
(***************************************************************************)
EXTENDS Cutover, TLC

CONSTANTS orders, users, audit

Declared == <<orders, users>>
Schema(refsOfOrders, refsOfUsers) ==
  [tables |-> Declared,
   refs |-> [t \in {orders, users} |-> IF t = orders THEN refsOfOrders ELSE refsOfUsers]]

(* A reference to a table declared later, one out of the schema, one to    *)
(* the table itself, a cycle.                                              *)
MCSchemas ==
  {Schema({users}, {audit}), Schema({users}, {users}), Schema({users}, {orders})}

Symmetry == Permutations(Writers) \cup Permutations(Vals)
=============================================================================
