-------------------------------- MODULE Store ---------------------------------
(***************************************************************************)
(* What the optimistic write queue promises its application (section 8.6   *)
(* of the persist architecture): a store whose writes take effect at once, *)
(* in the order they were made, and stay.  No backend, no queue, no file:  *)
(* it changes when the application writes and in no other step.            *)
(***************************************************************************)
CONSTANTS Cells, Rows, Absent

VARIABLE store

Init == store \in [Cells -> Rows \cup {Absent}]

(* One write of the application: the row a cell holds from then on.        *)
Write(c, row) == store' = [store EXCEPT ![c] = row]

Next == \E c \in Cells, row \in Rows \cup {Absent} : Write(c, row)

Spec == Init /\ [][Next]_store
=============================================================================
