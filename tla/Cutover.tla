-------------------------------- MODULE Cutover --------------------------------
(***************************************************************************)
(* The move of a live database to a new home (cutover.py): bulk_copy_table *)
(* copies table after table in cutover_plan's order while the application  *)
(* goes on writing, mirror_write then writes to both databases, reads move *)
(* at the promotion, and detach leaves the destination alone.              *)
(*                                                                         *)
(* A row is <<table, key>>.  Copying is inserting a value read before; an  *)
(* execute is one step, so other writers run between the read of a batch   *)
(* and its inserts, and between the two halves of a mirror_write.          *)
(*                                                                         *)
(* External: the two databases, which enforce primary and foreign keys,    *)
(* the operator who calls the phases, the application that writes.         *)
(***************************************************************************)
EXTENDS Deps, FiniteSets

CONSTANTS
  Schemas,      \* schemas: [tables (a sequence), refs (the tables of its references)]
  Keys,         \* primary keys, numbers
  Vals,         \* what a row holds
  Absent,       \* in place of a value: no such row
  None,         \* no copy under way, no query
  BatchSizes,   \* batch_size of a transfer
  Writers,      \* concurrent requests of the application
  MaxWrites,    \* bound: queries of the application
  MaxFaults     \* bound: executes that raise during the transfer

ASSUME CutoverAssumption ==
  /\ Keys \subseteq Nat \ {0} /\ BatchSizes \subseteq Nat \ {0}
  /\ MaxWrites \in Nat /\ MaxFaults \in Nat
  /\ Absent \notin Vals
  /\ \A s \in Schemas :   \* the tables are the keys of a dict, and have their references
       /\ s.tables \in Seq(ToSet(s.tables)) /\ ToSet(s.tables) \subseteq DOMAIN s.refs
       /\ \A i, j \in DOMAIN s.tables : s.tables[i] = s.tables[j] => i = j

QueryOps == {"insert", "update", "delete"}

ASSUME NoneAssumption ==
  \A s \in Schemas :
    None \notin [op : QueryOps, row : ToSet(s.tables) \X Keys, val : Vals \cup {Absent}]

VARIABLES
  schema, batchSize,
  phase,
  source, dest,   \* the databases: a value or Absent for every row
  position,       \* the table of the plan bulk transfer has come to
  copy,           \* bulk_copy_table: [after, last (batch), rows (read, not inserted),
                  \* found (bookkeeping: in dest when it was called)], or None
  query,          \* of each writer: the query mirror_write has yet to send to dest, or None
  strayed,        \* bookkeeping: rows with a reason to differ
  writes, faults

copying == <<position, copy>>
settings == <<schema, batchSize>>
vars == <<settings, phase, source, dest, copying, query, strayed, writes, faults>>

Tables == ToSet(schema.tables)
Rows == Tables \X Keys

-----------------------------------------------------------------------------
CutoverAdvance(p) ==
  CASE p = "bulk_transfer" -> "mirror" [] p = "mirror" -> "promote" [] OTHER -> "detach"

(* Mutant: the tables as they are declared.                                *)
DeclaredPlan == schema.tables

(* cutover_plan: a reference to the table itself or out of the schema is   *)
(* no dependency; a cycle falls back to the declared order.                *)
CutoverPlan ==
  LET names == schema.tables
      deps == [i \in DOMAIN names |->
                 {j \in DOMAIN names \ {i} : names[j] \in schema.refs[names[i]]}]
      order == TopologicalOrder(deps)
  IN IF Len(order) < Len(names) THEN names ELSE [i \in DOMAIN order |-> names[order[i]]]

Table == CutoverPlan[position]
TransferDone == position > Len(CutoverPlan)

(* What a row's columns refer to: the row of its key in another table, the *)
(* next row of its own.                                                    *)
Parents(row) ==
  {<<t, row[2]>> : t \in (schema.refs[row[1]] \cap Tables) \ {row[1]}}
    \cup {<<row[1], k>> : k \in {k \in Keys : k = row[2] + 1 /\ row[1] \in schema.refs[row[1]]}}

(* What a database refuses, and what it does otherwise.                    *)
Refuses(db, q) ==
  \/ /\ q.op = "insert"
     /\ db[q.row] # Absent \/ \E parent \in Parents(q.row) : db[parent] = Absent
  \/ /\ q.op = "delete" /\ db[q.row] # Absent
     /\ \E child \in Rows : q.row \in Parents(child) /\ db[child] # Absent
Execute(db, q) ==
  [db EXCEPT ![q.row] =
     IF q.op = "delete" \/ (q.op = "update" /\ @ = Absent) THEN Absent ELSE q.val]

Insert(row, val) == [op |-> "insert", row |-> row, val |-> val]
Queries ==
  {Insert(row, val) : row \in Rows, val \in Vals}
    \cup {[op |-> "update", row |-> row, val |-> val] : row \in Rows, val \in Vals}
    \cup {[op |-> "delete", row |-> row, val |-> Absent] : row \in Rows}

(* The keys of the next batch in their order: up to batchSize of those     *)
(* after the given one that are there.                                     *)
BatchAfter(after) ==
  LET batch[n \in 0..batchSize] ==
        IF n = 0 THEN <<>>
        ELSE LET done == batch[n - 1]
                 left == {k \in Keys \ ToSet(done) : k > after /\ source[<<Table, k>>] # Absent}
             IN IF left = {} THEN done
                ELSE Append(done, CHOOSE k \in left : \A j \in left : k <= j)
  IN batch[batchSize]

(* Mutant: a batch begins one key late.                                    *)
BatchSkipping(after) == BatchAfter(after + 1)

(* copy_batch_query *)
CopyBatch(after) == BatchAfter(after)

-----------------------------------------------------------------------------
(* A foreign key of the source holds; the destination has the tables.      *)
Init ==
  /\ schema \in Schemas /\ batchSize \in BatchSizes
  /\ phase = "bulk_transfer"
  /\ \E filled \in SUBSET Rows :
       /\ \A row \in filled : Parents(row) \subseteq filled
       /\ \E val \in Vals : source = [row \in Rows |-> IF row \in filled THEN val ELSE Absent]
  /\ dest = [row \in Rows |-> Absent]
  /\ position = 1 /\ copy = None
  /\ query = [w \in Writers |-> None]
  /\ strayed = {}
  /\ writes = 0 /\ faults = 0

(* Nothing is under way that will write the row to the destination.        *)
Settled(row) ==
  /\ \A w \in Writers : query[w] = None \/ query[w].row # row
  /\ copy = None \/ \A i \in DOMAIN copy.rows : copy.rows[i].row # row

(* Bookkeeping: rows stray for a reason, and are forgiven once they agree. *)
Stray(reason) ==
  strayed' = {row \in strayed \cup reason : ~(source'[row] = dest'[row] /\ Settled(row)')}

(* The transfer has read the row, or found that it is not there.           *)
Passed(row) ==
  \/ dest[row] # Absent
  \/ \E i \in 1..(position - 1) : CutoverPlan[i] = row[1]
  \/ ~TransferDone /\ copy # None /\ row[1] = Table /\ (row[2] <= copy.after \/ copy.last)

-----------------------------------------------------------------------------
(* The operator calls bulk_copy_table for the next table, or again for one *)
(* whose copy was interrupted: it begins at the first key.                 *)
StartCopy ==
  /\ phase = "bulk_transfer" /\ ~TransferDone /\ copy = None
  /\ copy' = [after |-> 0, last |-> FALSE, rows |-> <<>>,
              found |-> {row \in Rows : row[1] = Table /\ dest[row] # Absent}]
  /\ UNCHANGED <<settings, phase, source, dest, position, query, strayed, writes, faults>>

(* bulk_copy_table returns.                                                *)
Copied == copy' = None /\ position' = position + 1

(* The batch query returns: the rows as they are now.                      *)
ReadBatch ==
  /\ copy # None /\ copy.rows = <<>>
  /\ LET keys == CopyBatch(copy.after)
     IN IF keys = <<>> THEN Copied
        ELSE /\ copy' = [after |-> keys[Len(keys)], last |-> Len(keys) < batchSize,
                         rows |-> [i \in DOMAIN keys |->
                                     Insert(<<Table, keys[i]>>, source[<<Table, keys[i]>>])],
                         found |-> copy.found]
             /\ UNCHANGED position
  /\ UNCHANGED <<settings, phase, source, dest, query, strayed, writes, faults>>

(* One row is inserted; the last row of a short batch is the last of all.  *)
CopyRow ==
  /\ copy # None /\ copy.rows # <<>>
  /\ ~Refuses(dest, Head(copy.rows))
  /\ dest' = Execute(dest, Head(copy.rows))
  /\ IF Len(copy.rows) = 1 /\ copy.last THEN Copied
     ELSE copy' = [copy EXCEPT !.rows = Tail(@)] /\ UNCHANGED position
  /\ UNCHANGED <<settings, phase, source, query, writes, faults>>
  /\ Stray({})

(* The destination refuses the row: the call raises.                       *)
CopyRefused ==
  /\ copy # None /\ copy.rows # <<>>
  /\ Refuses(dest, Head(copy.rows))
  /\ copy' = None
  /\ UNCHANGED <<settings, phase, source, dest, position, query, writes, faults>>
  /\ Stray({})

(* An execute of the transfer raises for want of a connection.             *)
CopyRaises ==
  /\ copy # None /\ faults < MaxFaults
  /\ faults' = faults + 1
  /\ copy' = None
  /\ UNCHANGED <<settings, phase, source, dest, position, query, writes>>
  /\ Stray({})

(* The operator empties the table an interrupted copy has left.            *)
EmptyTable ==
  /\ copy = None /\ ~TransferDone
  /\ \E key \in Keys : dest[<<Table, key>>] # Absent
  /\ dest' = [row \in Rows |-> IF row[1] = Table THEN Absent ELSE dest[row]]
  /\ UNCHANGED <<settings, phase, source, copying, query, writes, faults>>
  /\ strayed' = {row \in strayed : row[1] # Table}

(* The next phase; the transfer is left when every table is copied.        *)
Advance ==
  /\ phase = "bulk_transfer" => TransferDone
  /\ phase # "detach"
  /\ phase' = CutoverAdvance(phase)
  /\ UNCHANGED <<settings, source, dest, copying, query, strayed, writes, faults>>

-----------------------------------------------------------------------------
Written ==
  /\ writes < MaxWrites
  /\ writes' = writes + 1

(* Before the mirror the application writes to the source; the row strays  *)
(* if the transfer has passed it.                                          *)
WriteSource(q) ==
  /\ phase = "bulk_transfer"
  /\ Written
  /\ ~Refuses(source, q)
  /\ source' = Execute(source, q)
  /\ UNCHANGED <<settings, phase, dest, copying, query, faults>>
  /\ Stray({row \in {q.row} : Passed(row)})

(* mirror_write: the source executed it.  Two writes of a row under way    *)
(* may come to the destination in the other order.                         *)
MirrorSource(w, q) ==
  /\ phase \in {"mirror", "promote"} /\ query[w] = None
  /\ Written
  /\ ~Refuses(source, q)
  /\ source' = Execute(source, q)
  /\ query' = [query EXCEPT ![w] = q]
  /\ UNCHANGED <<settings, phase, dest, copying, faults>>
  /\ Stray({row \in {q.row} : ~Settled(row)})

(* The destination executed it, and mirror_write returns.                  *)
MirrorDest(w) ==
  /\ query[w] # None
  /\ ~Refuses(dest, query[w])
  /\ dest' = Execute(dest, query[w])
  /\ query' = [query EXCEPT ![w] = None]
  /\ UNCHANGED <<settings, phase, source, copying, writes, faults>>
  /\ Stray({})

(* The destination refuses it, cannot be reached, or the process is gone:  *)
(* nothing takes the source's half back.                                   *)
MirrorHalf(w) ==
  /\ query[w] # None
  /\ query' = [query EXCEPT ![w] = None]
  /\ UNCHANGED <<settings, phase, source, dest, copying, writes, faults>>
  /\ Stray({query[w].row})

(* After the detachment the application writes to the destination.         *)
WriteDest(q) ==
  /\ phase = "detach"
  /\ Written
  /\ ~Refuses(dest, q)
  /\ dest' = Execute(dest, q)
  /\ UNCHANGED <<settings, phase, source, copying, query, faults>>
  /\ Stray({q.row})

-----------------------------------------------------------------------------
Transfer == StartCopy \/ ReadBatch \/ CopyRow \/ CopyRefused \/ CopyRaises \/ EmptyTable
Application ==
  \/ \E q \in Queries : WriteSource(q) \/ WriteDest(q)
  \/ \E w \in Writers : MirrorDest(w) \/ MirrorHalf(w) \/ \E q \in Queries : MirrorSource(w, q)

Next == Transfer \/ Advance \/ Application

Spec == Init /\ [][Next]_vars

-----------------------------------------------------------------------------
(* Every variable has its type.                                            *)
TypeOK ==
  /\ phase \in {"bulk_transfer", "mirror", "promote", "detach"}
  /\ {source, dest} \subseteq [Rows -> Vals \cup {Absent}]
  /\ position \in 1..(Len(schema.tables) + 1)
  /\ copy # None => ~TransferDone /\ copy.after \in Keys \cup {0}
  /\ \A w \in Writers : query[w] = None \/ query[w] \in Queries
  /\ strayed \subseteq Rows

(* From the mirror on the destination holds what the source holds, row by  *)
(* row, but for a row with a write under way and one that strayed: written *)
(* to the source after the transfer passed it, half written by a           *)
(* mirror_write, or written by two at once.                                *)
DivergenceExplained ==
  phase \in {"mirror", "promote"} =>
    \A row \in Rows : source[row] # dest[row] => row \in strayed \/ ~Settled(row)

(* The transfer is refused a row only because an interrupted copy left it  *)
(* there, or because it was written after it was read, or because a row it *)
(* refers to strayed, is of a table that refers to itself, or of a cycle   *)
(* (cutover_plan has "each table after every table it references").        *)
Cyclic ==
  \E S \in SUBSET Tables :
    S # {} /\ \A t \in S : \E u \in S \ {t} : u \in schema.refs[t]

CopyRefusedOnlyWhen ==
  copy # None /\ copy.rows # <<>> =>
    LET q == Head(copy.rows)
    IN Refuses(dest, q) =>
         \/ q.row \in copy.found \cup strayed
         \/ \E parent \in Parents(q.row) :
              parent \in strayed \/ parent[1] = q.row[1] \/ Cyclic
=============================================================================
