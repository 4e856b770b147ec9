----------------------------- MODULE MigrationPlan -----------------------------
(***************************************************************************)
(* The pure half of a migration of honest-persist: the diff of two schemas *)
(* (schema.py), the ambiguities that stop it (ambiguity.py), the order of  *)
(* its operations (deps.py) and the statements of a rebuild (apply.py).    *)
(*                                                                         *)
(* A schema is [tables, views].  A table is a function from its columns    *)
(* to their definitions; every table also has a key column id, which no    *)
(* operation touches and every reference points at.  A view reads the      *)
(* table "on".  Left out: indexes, constraints, triggers, procedures,      *)
(* materialized views, renamed tables.                                     *)
(***************************************************************************)
EXTENDS Deps, FiniteSets

CONSTANTS
  Rank,     \* the alphabetical position of every name
  Temp,     \* _hp_tmp_..., the table a rebuild fills
  None

ASSUME NamesAssumption == IsFiniteSet(DOMAIN Rank) /\ Temp # None

(* The names in S by their rank.                                           *)
InOrder(S) ==
  LET names == S \cap DOMAIN Rank
      order[n \in 0..Cardinality(names)] ==
        IF n = 0 THEN <<>>
        ELSE LET done == order[n - 1]
                 left == names \ ToSet(done)
                 first == {x \in left : \A y \in left : Rank[x] <= Rank[y]}
             IN IF first = {} THEN done ELSE Append(done, CHOOSE x \in first : TRUE)
  IN order[Cardinality(names)]
Each(S, F(_)) == LET names == InOrder(S) IN [i \in DOMAIN names |-> F(names[i])]
EachOf(S, F(_)) == FlattenSeq(Each(S, F))

(* _sql_type: what a column of this type is on SQLite and on Turso.        *)
SqlType(type) ==
  CASE type \in {"uuid", "timestamptz", "jsonb"} -> "text"
    [] type = "boolean" -> "integer"
    [] OTHER -> type
(* _column_ddl: the column that is written for a definition.               *)
Written(def) == [def EXCEPT !.type = SqlType(@)]
Declared(table) == [c \in DOMAIN table |-> Written(table[c])]

Refs(table) == {table[c].ref : c \in DOMAIN table} \ {None}

(* An operation: its table (None for a view's), the column or view it      *)
(* names, the definition it brings, the objects its details refer to.      *)
Op(op, table, name, def, refs) ==
  [op |-> op, table |-> table, name |-> name, def |-> def, refs |-> refs]
OnView(op, v, def) == Op(op, None, v, def, {def.on})

-----------------------------------------------------------------------------
(* validate_schema: references and views name tables that exist.           *)
ValidSchema(s) ==
  /\ \A t \in DOMAIN s.tables : Refs(s.tables[t]) \subseteq DOMAIN s.tables
  /\ \A v \in DOMAIN s.views : s.views[v].on \in DOMAIN s.tables

(* _resolve_renames: the added columns whose renamed_from was dropped.     *)
Renames(cur, tgt) ==
  {c \in DOMAIN tgt \ DOMAIN cur : tgt[c].from \in DOMAIN cur \ DOMAIN tgt}

(* detect_ambiguities: a column went, one of its type came, without hint.  *)
(* The types are compared as they are named: an inspected one as written,  *)
(* the target's as declared.                                               *)
Ambiguous(current, target) ==
  \E t \in DOMAIN current.tables \cap DOMAIN target.tables :
    LET cur == current.tables[t]
        tgt == target.tables[t]
        hinted == {tgt[c].from : c \in DOMAIN tgt}
    IN \E gone \in (DOMAIN cur \ DOMAIN tgt) \ hinted, come \in DOMAIN tgt \ DOMAIN cur :
         tgt[come].from = None /\ cur[gone].type = tgt[come].type

DiffColumns(t, cur, tgt) ==
  LET renames == Renames(cur, tgt)
  IN Each((DOMAIN cur \ DOMAIN tgt) \ {tgt[c].from : c \in renames},
          LAMBDA c : Op("drop_column", t, c, None, {}))
     \o Each(renames,
          LAMBDA c : Op("rename_column", t, tgt[c].from, c, {}))
     \o Each((DOMAIN tgt \ DOMAIN cur) \ renames,
          LAMBDA c : Op("add_column", t, c, tgt[c], {}))
     \o Each({c \in DOMAIN cur \cap DOMAIN tgt : cur[c].type # tgt[c].type},
          LAMBDA c : Op("alter_column", t, c, tgt[c], {}))

DiffForeignKeys(t, cur, tgt) ==
  EachOf({c \in DOMAIN cur \cap DOMAIN tgt : cur[c].ref # tgt[c].ref},
    LAMBDA c :
      (IF cur[c].ref = None THEN <<>>
       ELSE <<Op("drop_foreign_key", t, c, None, {cur[c].ref})>>)
      \o (IF tgt[c].ref = None THEN <<>>
          ELSE <<Op("add_foreign_key", t, c, tgt[c], {tgt[c].ref})>>))

DiffViews(cur, tgt) ==
  LET Drop(v) == OnView("drop_view", v, cur[v])
      Create(v) == OnView("create_view", v, tgt[v])
  IN Each(DOMAIN cur \ DOMAIN tgt, Drop)
     \o Each(DOMAIN tgt \ DOMAIN cur, Create)
     \o EachOf({v \in DOMAIN cur \cap DOMAIN tgt : cur[v] # tgt[v]},
               LAMBDA v : <<Drop(v), Create(v)>>)

(* diff: the operations in the order they are found.                       *)
Operations(current, target) ==
  LET cur == current.tables
      tgt == target.tables
  IN Each(DOMAIN cur \ DOMAIN tgt,
          LAMBDA t : Op("drop_table", t, None, None, Refs(cur[t])))
     \o Each(DOMAIN tgt \ DOMAIN cur,
          LAMBDA t : Op("create_table", t, None, tgt[t], Refs(tgt[t])))
     \o EachOf(DOMAIN cur \cap DOMAIN tgt,
          LAMBDA t : DiffColumns(t, cur[t], tgt[t]) \o DiffForeignKeys(t, cur[t], tgt[t]))
     \o DiffViews(current.views, target.views)

-----------------------------------------------------------------------------
(* deps.py.  _DEPENDS_ON and _MUST_PRECEDE, the kinds of this module.      *)
DependsOn(op) ==
  IF op \in {"create_table", "add_foreign_key", "add_column"} THEN {"create_table"}
  ELSE IF op = "create_view" THEN {"create_table", "create_view"}
  ELSE {}
MustPrecede(op) ==
  IF op = "drop_foreign_key" THEN {"drop_table", "drop_column"}
  ELSE IF op \in {"drop_column", "drop_view", "drop_table"} THEN {"drop_table"}
  ELSE {}

Subject(op) == IF op.table = None THEN op.name ELSE op.table

(* Mutant: operations on different tables are never related.               *)
RelatedByTable(a, b) == a.table # None /\ a.table = b.table

Related(a, b) ==
  \/ a.table # None /\ a.table = b.table
  \/ Subject(b) \in a.refs

RunsBefore(a, b) ==
  \/ a.op \in DependsOn(b.op) /\ Related(b, a)
  \/ b.op \in MustPrecede(a.op) /\ Related(a, b)

BuildDependencies(ops) ==
  [i \in DOMAIN ops |-> {j \in DOMAIN ops \ {i} : RunsBefore(ops[j], ops[i])}]

TopologicalSort(ops) == TopologicalOrder(BuildDependencies(ops))

Cyclic(ops) == Len(TopologicalSort(ops)) < Len(ops)
Plan(ops) == LET order == TopologicalSort(ops) IN [i \in DOMAIN order |-> ops[order[i]]]

-----------------------------------------------------------------------------
(* requires_reconstruction, for SQLite and Turso.                          *)
RequiresReconstruction(op) ==
  op.op \in {"alter_column", "add_foreign_key", "drop_foreign_key"}
Rebuilt(plan) == {op.table : op \in {o \in ToSet(plan) : RequiresReconstruction(o)}}

ColumnsAdded(t, plan) ==
  {op.name : op \in {o \in ToSet(plan) : o.op = "add_column" /\ o.table = t}}
DependentViews(t, views) == {v \in DOMAIN views : views[v].on = t}

(* reconstruction_sql: the statements that turn t into its target.         *)
ReconstructionSql(t, target, plan) ==
  LET views == DependentViews(t, target.views)
      common == DOMAIN target.tables[t] \ ColumnsAdded(t, plan)
  IN Each(views, LAMBDA v : OnView("drop_view", v, target.views[v]))
     \o <<Op("create_table", Temp, None, target.tables[t], {}),
          Op("copy", t, None, common, {}),
          Op("drop_table", t, None, None, {}),
          Op("rename_table", Temp, t, None, {})>>
     \o Each(views, LAMBDA v : OnView("create_view", v, target.views[v]))
=============================================================================
