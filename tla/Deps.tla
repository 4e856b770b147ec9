--------------------------------- MODULE Deps ---------------------------------
(***************************************************************************)
(* topological_sort of honest-persist's deps.py, which orders the          *)
(* operations of a migration and the tables of a cutover.                  *)
(***************************************************************************)
EXTENDS Naturals, Sequences, SequencesExt

(* Always the least index whose dependencies have run; shorter than deps   *)
(* when the graph has a cycle.                                             *)
TopologicalOrder(deps) ==
  LET order[n \in 0..Len(deps)] ==
        IF n = 0 THEN <<>>
        ELSE LET done == order[n - 1]
                 ready == {i \in DOMAIN deps \ ToSet(done) : deps[i] \subseteq ToSet(done)}
             IN IF ready = {} THEN done
                ELSE Append(done, CHOOSE i \in ready : \A j \in ready : i <= j)
  IN order[Len(deps)]
=============================================================================
