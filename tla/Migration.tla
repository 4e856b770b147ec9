------------------------------- MODULE Migration -------------------------------
(***************************************************************************)
(* Migrations of a live database by honest-persist: migrate (migrate.py),  *)
(* apply and the rebuild of a table (apply.py) on a SQLite connection.     *)
(*                                                                         *)
(* A migrate inspects the database, plans and applies one statement after  *)
(* another, then clears and refills the registry of views.  Every awaited  *)
(* call may raise.  The connection outlives the migrate.                   *)
(*                                                                         *)
(* External: the database, which refuses a statement that contradicts its  *)
(* schema, and the application, which writes rows between migrations.      *)
(***************************************************************************)
EXTENDS MigrationPlan

CONSTANTS
  Targets,     \* the schemas migrate is called with
  MaxFaults    \* bound: calls that raise, foreign keys that dangle, lost connections

ASSUME MigrationAssumption ==
  /\ MaxFaults \in Nat
  /\ \A s \in Targets : Temp \notin DOMAIN s.tables   \* its name is made up for the rebuild

VARIABLES
  db,        \* the committed database: tables, views, which columns hold data, _hp_object
  work,      \* <<what the open transaction sees>>, or << >>
  fkOn,      \* the connection's foreign key checks
  paused,    \* the connection's sync push
  phase,     \* the call that is awaited next, or "idle"
  outcome,   \* of the latest migrate
  target,    \* the schema the latest migrate was called with
  plan,      \* its operations in execution order
  todo,      \* those still to apply
  stmts,     \* the statements, or registry rows, still to execute
  failing,   \* the rebuild has been rolled back
  faults,    \* calls that raised so far
  trusted    \* bookkeeping: "faulted", this migrate met a fault; "broken", a control call
             \* raised since the connection opened; "stray", the registry was out of step

vars == <<db, work, fkOn, paused, phase, outcome, target, plan, todo, stmts, failing,
          faults, trusted>>

-----------------------------------------------------------------------------
(* The database.                                                           *)
Current == IF work = <<>> THEN db ELSE work[1]
Without(f, x) == [y \in DOMAIN f \ {x} |-> f[y]]
With(f, x, e) == [y \in DOMAIN f \cup {x} |-> IF y = x THEN e ELSE f[y]]

ColumnIn(d, t, c) == t \in DOMAIN d.tables /\ c \in DOMAIN d.tables[t]

(* A view whose table or column is gone stops what rewrites the schema.    *)
BrokenView(d) ==
  \E v \in DOMAIN d.views : \E c \in d.views[v].uses : ~ ColumnIn(d, d.views[v].on, c)

ReferringRows(d, t) ==
  \E u \in DOMAIN d.tables \ {t} :
    \E c \in DOMAIN d.tables[u] : d.tables[u][c].ref = t /\ c \in d.filled[u]

RenamedIn(view, st) ==
  IF view.on = st.table /\ st.name \in view.uses
    THEN [view EXCEPT !.uses = (@ \ {st.name}) \cup {st.def}]
    ELSE view

(* A statement's effect on the tables, their data, the views, _hp_object.  *)
TablesAfter(st, d) ==
  LET table == IF st.table \in DOMAIN d.tables THEN d.tables[st.table] ELSE <<>>
  IN CASE st.op = "create_table" -> With(d.tables, st.table, Declared(st.def))
       [] st.op = "drop_table" -> Without(d.tables, st.table)
       [] st.op = "rename_table" -> With(Without(d.tables, st.table), st.name, table)
       [] st.op = "add_column" -> With(d.tables, st.table, With(table, st.name, Written(st.def)))
       [] st.op = "drop_column" -> With(d.tables, st.table, Without(table, st.name))
       [] st.op = "rename_column" ->
            With(d.tables, st.table, With(Without(table, st.name), st.def, table[st.name]))
       [] OTHER -> d.tables

FilledAfter(st, d) ==
  LET filled == IF st.table \in DOMAIN d.filled THEN d.filled[st.table] ELSE {}
  IN CASE st.op = "create_table" -> With(d.filled, st.table, {})
       [] st.op = "drop_table" -> Without(d.filled, st.table)
       [] st.op = "rename_table" -> With(Without(d.filled, st.table), st.name, filled)
       [] st.op = "copy" -> With(d.filled, Temp, st.def \cap filled)
       [] st.op = "drop_column" -> With(d.filled, st.table, filled \ {st.name})
       [] st.op = "rename_column" ->
            With(d.filled, st.table, (filled \ {st.name})
                                       \cup (IF st.name \in filled THEN {st.def} ELSE {}))
       [] OTHER -> d.filled

ViewsAfter(st, d) ==
  CASE st.op = "rename_column" -> [v \in DOMAIN d.views |-> RenamedIn(d.views[v], st)]
    [] st.op = "create_view" -> With(d.views, st.name, st.def)
    [] st.op = "drop_view" -> Without(d.views, st.name)
    [] OTHER -> d.views

RegistryAfter(st, d) ==
  CASE st.op = "clear" -> <<>>
    [] st.op = "record" -> With(d.registry, st.name, st.def)
    [] OTHER -> d.registry

Effect(st, d) ==
  [tables |-> TablesAfter(st, d), filled |-> FilledAfter(st, d),
   views |-> ViewsAfter(st, d), registry |-> RegistryAfter(st, d)]

(* What SQLite answers with an error.                                      *)
Refused(st, d) ==
  CASE st.op = "create_table" -> st.table \in DOMAIN d.tables
    [] st.op = "drop_table" ->
         st.table \notin DOMAIN d.tables \/ (fkOn /\ ReferringRows(d, st.table))
    [] st.op = "rename_table" -> BrokenView(d)
    [] st.op = "copy" -> ~ \A c \in st.def : ColumnIn(d, st.table, c)
    [] st.op = "add_column" ->
         st.table \notin DOMAIN d.tables \/ ColumnIn(d, st.table, st.name)
    [] st.op = "drop_column" ->
         ~ ColumnIn(d, st.table, st.name) \/ BrokenView(Effect(st, d))
    [] st.op = "rename_column" ->
         \/ ~ ColumnIn(d, st.table, st.name)
         \/ ColumnIn(d, st.table, st.def)
         \/ BrokenView(d)
    [] st.op = "create_view" -> st.name \in DOMAIN d.views
    [] st.op = "drop_view" -> st.name \notin DOMAIN d.views
    [] OTHER -> FALSE

(* The statement takes effect, in the transaction if one is open.          *)
Execute(st) ==
  /\ ~ Refused(st, Current)
  /\ IF work = <<>> THEN db' = Effect(st, db) /\ work' = <<>>
                    ELSE work' = <<Effect(st, work[1])>> /\ db' = db

(* An awaited call raises, whatever the database thinks of it.             *)
Fault ==
  /\ faults < MaxFaults
  /\ faults' = faults + 1

-----------------------------------------------------------------------------
Empty == [tables |-> <<>>, views |-> <<>>, filled |-> <<>>, registry |-> <<>>]

Init ==
  /\ db = Empty /\ work = <<>> /\ fkOn = TRUE /\ paused = FALSE
  /\ phase = "idle" /\ outcome = "none" /\ target = [tables |-> <<>>, views |-> <<>>]
  /\ plan = <<>> /\ todo = <<>> /\ stmts = <<>> /\ failing = FALSE
  /\ faults = 0 /\ trusted = {}

(* inspect: the tables from the catalog, their columns' types as they were *)
(* written, the views from the registry.                                   *)
Inspected == [tables |-> Current.tables, views |-> Current.registry]

(* Mutant: ambiguous diffs are applied.                                    *)
RefusalOfInvalid(s) == ~ ValidSchema(s) \/ Cyclic(Operations(Inspected, s))

Refusal(s) ==
  \/ ~ ValidSchema(s)
  \/ Cyclic(Operations(Inspected, s))
  \/ Ambiguous(Inspected, s)

(* migrate up to its first statement: a refusal, or a plan.                *)
Migrate(s) ==
  /\ phase = "idle"
  /\ target' = s
  /\ trusted' = (trusted \cap {"broken"})
                  \cup (IF Current.registry = Current.views THEN {} ELSE {"stray"})
  /\ IF Refusal(s)
       THEN outcome' = "refused" /\ UNCHANGED <<phase, plan, todo>>
       ELSE /\ outcome' = "none"
            /\ phase' = "apply"
            /\ plan' = Plan(Operations(Inspected, s))
            /\ todo' = plan'
  /\ failing' = FALSE
  /\ UNCHANGED <<db, work, fkOn, paused, stmts, faults>>

Returns(result) ==
  /\ phase' = "idle"
  /\ outcome' = result
  /\ todo' = <<>>
  /\ stmts' = <<>>

(* A call that nothing catches raises out of migrate.                      *)
Raises ==
  /\ Fault
  /\ Returns("raised")
  /\ UNCHANGED <<target, plan, failing>>

-----------------------------------------------------------------------------
(* _apply_operations, one statement in place.                              *)
ApplyInPlace ==
  /\ phase = "apply" /\ todo # <<>> /\ Head(todo).table \notin Rebuilt(plan)
  /\ \/ Execute(Head(todo)) /\ todo' = Tail(todo)
        /\ UNCHANGED <<phase, outcome, stmts, faults, trusted>>
     \/ /\ \/ Refused(Head(todo), Current) /\ UNCHANGED <<faults, trusted>>
           \/ Fault /\ trusted' = trusted \cup {"faulted"}
        /\ Returns("failed")
        /\ UNCHANGED <<db, work>>
  /\ UNCHANGED <<fkOn, paused, target, plan, failing>>

(* _reconstruct, up to the transaction.                                    *)
PausePush ==
  /\ phase = "apply" /\ todo # <<>> /\ Head(todo).table \in Rebuilt(plan)
  /\ \/ /\ paused' = TRUE /\ phase' = "disable_foreign_keys"
        /\ UNCHANGED <<outcome, target, plan, todo, stmts, failing, faults, trusted>>
     \/ Raises /\ trusted' = trusted \cup {"faulted"} /\ UNCHANGED paused
  /\ UNCHANGED <<db, work, fkOn>>

(* The pragma does nothing inside a transaction.                           *)
DisableForeignKeys ==
  /\ phase = "disable_foreign_keys"
  /\ \/ /\ fkOn' = IF work = <<>> THEN FALSE ELSE fkOn
        /\ phase' = "begin"
        /\ UNCHANGED <<outcome, target, plan, todo, stmts, failing, faults, trusted>>
     \/ Raises /\ trusted' = trusted \cup {"faulted", "broken"} /\ UNCHANGED fkOn
  /\ UNCHANGED <<db, work, paused>>

(* Mutant: the statements are executed without a transaction.              *)
BeginNothing ==
  /\ phase = "begin"
  /\ phase' = "rebuild"
  /\ stmts' = ReconstructionSql(Head(todo).table, target, plan)
  /\ UNCHANGED <<db, work, fkOn, paused, outcome, target, plan, todo, failing, faults, trusted>>

Begin ==
  /\ phase = "begin"
  /\ \/ /\ work = <<>>
        /\ work' = <<db>>
        /\ phase' = "rebuild"
        /\ stmts' = ReconstructionSql(Head(todo).table, target, plan)
        /\ UNCHANGED <<outcome, target, plan, todo, failing, faults, trusted>>
     \/ Raises /\ trusted' = trusted \cup {"faulted", "broken"} /\ UNCHANGED work
     \/ /\ work # <<>>     \* the transaction an earlier call left open
        /\ Returns("raised")
        /\ trusted' = trusted \cup {"broken"}
        /\ UNCHANGED <<work, target, plan, failing, faults>>
  /\ UNCHANGED <<db, fkOn, paused>>

(* The statements, then verify_foreign_keys.                               *)
Rebuild ==
  /\ phase = "rebuild"
  /\ \/ /\ stmts # <<>> /\ Execute(Head(stmts)) /\ stmts' = Tail(stmts)
        /\ UNCHANGED <<phase, faults, trusted>>
     \/ stmts = <<>> /\ phase' = "commit" /\ UNCHANGED <<db, work, stmts, faults, trusted>>
     \/ /\ \/ /\ stmts # <<>> /\ Refused(Head(stmts), Current)
              /\ UNCHANGED <<faults, trusted>>
           \/ Fault /\ trusted' = trusted \cup {"faulted"}
        /\ phase' = "rollback"
        /\ stmts' = <<>>
        /\ UNCHANGED <<db, work>>
  /\ UNCHANGED <<fkOn, paused, outcome, target, plan, todo, failing>>

(* A commit that raises leaves the transaction open, or closes it.         *)
Commit ==
  /\ phase = "commit"
  /\ \/ /\ db' = work[1] /\ work' = <<>> /\ phase' = "enable_foreign_keys"
        /\ UNCHANGED <<outcome, target, plan, todo, stmts, failing, faults, trusted>>
     \/ /\ Raises /\ trusted' = trusted \cup {"faulted", "broken"}
        /\ work' \in {work, <<>>} /\ UNCHANGED db
  /\ UNCHANGED <<fkOn, paused>>

Rollback ==
  /\ phase = "rollback"
  /\ \/ /\ work' = <<>> /\ phase' = "enable_foreign_keys" /\ failing' = TRUE
        /\ UNCHANGED <<outcome, target, plan, todo, stmts, faults, trusted>>
     \/ /\ Raises /\ trusted' = trusted \cup {"faulted", "broken"}
        /\ work' \in {work, <<>>}
  /\ UNCHANGED <<db, fkOn, paused>>

(* Mutant: a rebuild that was rolled back leaves the checks off.           *)
EnableAfterCommit ==
  /\ phase = "enable_foreign_keys"
  /\ \/ /\ fkOn' = ~ failing /\ phase' = "resume_push"
        /\ UNCHANGED <<outcome, target, plan, todo, stmts, failing, faults, trusted>>
     \/ Raises /\ trusted' = trusted \cup {"faulted", "broken"} /\ UNCHANGED fkOn
  /\ UNCHANGED <<db, work, paused>>

EnableForeignKeys ==
  /\ phase = "enable_foreign_keys"
  /\ \/ /\ fkOn' = TRUE /\ phase' = "resume_push"
        /\ UNCHANGED <<outcome, target, plan, todo, stmts, failing, faults, trusted>>
     \/ Raises /\ trusted' = trusted \cup {"faulted", "broken"} /\ UNCHANGED fkOn
  /\ UNCHANGED <<db, work, paused>>

(* What is left to do but for the operations on one table.                 *)
OnOthers(ops, t) ==
  LET kept[n \in 0..Len(ops)] ==
        IF n = 0 THEN <<>>
        ELSE IF ops[n].table = t THEN kept[n - 1] ELSE Append(kept[n - 1], ops[n])
  IN kept[Len(ops)]

(* The end of _reconstruct: the other operations on the table are skipped. *)
ResumePush ==
  /\ phase = "resume_push"
  /\ \/ /\ paused' = FALSE
        /\ IF failing
             THEN Returns("failed")
             ELSE /\ phase' = "apply"
                  /\ todo' = OnOthers(todo, Head(todo).table)
                  /\ UNCHANGED <<outcome, stmts>>
        /\ UNCHANGED <<target, plan, failing, faults, trusted>>
     \/ Raises /\ trusted' = trusted \cup {"faulted", "broken"} /\ UNCHANGED paused
  /\ UNCHANGED <<db, work, fkOn>>

-----------------------------------------------------------------------------
(* Mutant: the registry keeps the views the schema has dropped.            *)
RegistryUpserts(s) ==
  Each(DOMAIN s.views, LAMBDA v : Op("record", None, v, s.views[v], {}))

(* object_registry_queries: clear the registry, record every view.         *)
RegistryQueries(s) ==
  <<Op("clear", None, None, None, {})>>
  \o Each(DOMAIN s.views, LAMBDA v : Op("record", None, v, s.views[v], {}))

SeedRegistry ==
  /\ phase = "apply" /\ todo = <<>>
  /\ phase' = "seed"
  /\ stmts' = RegistryQueries(target)
  /\ UNCHANGED <<db, work, fkOn, paused, outcome, target, plan, todo, failing, faults, trusted>>

Seed ==
  /\ phase = "seed"
  /\ \/ /\ stmts # <<>> /\ Execute(Head(stmts)) /\ stmts' = Tail(stmts)
        /\ UNCHANGED <<phase, outcome, target, plan, todo, failing, faults, trusted>>
     \/ stmts = <<>> /\ Returns("ok")
        /\ UNCHANGED <<db, work, target, plan, failing, faults, trusted>>
     \/ Raises /\ trusted' = trusted \cup {"faulted"} /\ UNCHANGED <<db, work>>
  /\ UNCHANGED <<fkOn, paused>>

-----------------------------------------------------------------------------
(* The application writes rows with a value in every column.               *)
WriteRows ==
  /\ phase = "idle" /\ work = <<>>
  /\ db' = [db EXCEPT !.filled = [t \in DOMAIN db.tables |-> DOMAIN db.tables[t]]]
  /\ db' # db
  /\ UNCHANGED <<work, fkOn, paused, phase, outcome, target, plan, todo, stmts, failing,
                 faults, trusted>>

(* The process or its connection ends: the next connection begins afresh.  *)
Reconnect ==
  /\ Fault
  /\ work' = <<>> /\ fkOn' = TRUE /\ paused' = FALSE
  /\ Returns(IF phase = "idle" THEN outcome ELSE "raised")
  /\ trusted' = (trusted \ {"broken"}) \cup {"faulted"}
  /\ UNCHANGED <<db, target, plan, failing>>

Next ==
  \/ \E s \in Targets : Migrate(s)
  \/ ApplyInPlace
  \/ PausePush \/ DisableForeignKeys \/ Begin \/ Rebuild \/ Commit \/ Rollback
  \/ EnableForeignKeys \/ ResumePush
  \/ SeedRegistry \/ Seed
  \/ WriteRows \/ Reconnect

Spec == Init /\ [][Next]_vars

-----------------------------------------------------------------------------
Phases == {"idle", "apply", "disable_foreign_keys", "begin", "rebuild", "commit", "rollback",
           "enable_foreign_keys", "resume_push", "seed"}
IsDatabase(d) ==
  /\ \A t \in DOMAIN d.tables : \A c \in DOMAIN d.tables[t] :
       DOMAIN d.tables[t][c] = {"type", "ref", "from"}
  /\ DOMAIN d.filled = DOMAIN d.tables
  /\ \A t \in DOMAIN d.tables : d.filled[t] \subseteq DOMAIN d.tables[t]
  /\ \A v \in DOMAIN d.views : d.views[v].uses # {} /\ DOMAIN d.views[v] = {"on", "uses"}
  /\ \A v \in DOMAIN d.registry : DOMAIN d.registry[v] = {"on", "uses"}

(* Every variable has its type; data lies in columns that exist.           *)
TypeOK ==
  /\ IsDatabase(db) /\ (work = <<>> \/ IsDatabase(work[1]))
  /\ fkOn \in BOOLEAN /\ paused \in BOOLEAN /\ failing \in BOOLEAN
  /\ phase \in Phases
  /\ outcome \in {"none", "ok", "refused", "failed", "raised"}
  /\ target \in Targets \cup {[tables |-> <<>>, views |-> <<>>]}
  /\ faults \in 0..MaxFaults
  /\ trusted \subseteq {"faulted", "broken", "stray"}

(* A table is what its definition makes of it.                             *)
SameTable(a, b) ==
  /\ DOMAIN a = DOMAIN b
  /\ \A c \in DOMAIN a : a[c].type = SqlType(b[c].type) /\ a[c].ref = b[c].ref
Matches(d, s) ==
  /\ DOMAIN d.tables = DOMAIN s.tables
  /\ \A t \in DOMAIN s.tables : SameTable(d.tables[t], s.tables[t])
  /\ d.views = s.views

(* What the diff of a renamed column does not carry: its new type or       *)
(* reference.  A further migrate finds it as an alteration.                *)
ChangedInRename ==
  \E i \in DOMAIN plan :
    /\ plan[i].op = "rename_column"
    /\ LET new == target.tables[plan[i].table][plan[i].def]
           old == Current.tables[plan[i].table][plan[i].def]
       IN SqlType(new.type) # old.type \/ new.ref # old.ref

(* A migrate that reports success has made the database its target, and    *)
(* the registry says so ("after apply(), the database matches the target   *)
(* schema"), whatever the migrations before it left behind, as long as the *)
(* registry it started from named the views there were.                    *)
SuccessMatchesTarget ==
  phase = "idle" /\ outcome = "ok" /\ "stray" \notin trusted =>
    /\ Current.registry = target.views
    /\ Matches(Current, target) \/ ChangedInRename

(* The plans the code cannot carry out on SQLite: what goes and comes      *)
(* around a rebuilt table, and a column dropped after what depends on it.  *)
Unworkable ==
  \E i \in DOMAIN plan :
    LET op == plan[i] IN
      \/ op.op = "rename_column" /\ op.table \in Rebuilt(plan)
      \/ /\ op.op = "create_view" /\ op.def.on \in Rebuilt(plan)
         /\ ~ \E j \in DOMAIN plan : plan[j].op = "drop_view" /\ plan[j].name = op.name
      \/ /\ op.op = "drop_view" /\ op.def.on \in Rebuilt(plan)
         /\ op.name \in DOMAIN target.views => target.views[op.name].on # op.def.on
      \/ /\ op.op = "drop_column"
         /\ \E j \in DOMAIN plan :
              \/ plan[j].op = "drop_view" /\ op.name \in plan[j].def.uses
              \/ /\ plan[j].op = "drop_table" /\ ColumnIn(Current, op.table, op.name)
                 /\ Current.tables[op.table][op.name].ref = plan[j].table

(* A migrate that meets no fault on a sound connection succeeds, except    *)
(* for those plans: the order of the operations keeps every statement      *)
(* after what it needs and before what takes that away.                    *)
OnlyUnworkableFails ==
  phase = "idle" /\ outcome \in {"failed", "raised"} /\ trusted = {} => Unworkable

(* "the connection is never left with them off": whatever a rebuild met,   *)
(* the checks are on, the push runs and no transaction is open when        *)
(* migrate is over, unless a call that controls them raised itself.        *)
ConnectionRestored ==
  phase = "idle" /\ "broken" \notin trusted => fkOn /\ ~ paused /\ work = <<>>

(* "a table is never left half-migrated": no committed state lacks a table *)
(* that was there and is wanted, or holds the rebuild's temporary one.     *)
RebuildStep ==
  /\ Temp \notin DOMAIN db'.tables
  /\ DOMAIN db.tables \cap DOMAIN target.tables \subseteq DOMAIN db'.tables
RebuildIsAtomic == [][RebuildStep]_vars

(* The columns that came to table t without a hint and are written in the  *)
(* type of its column c: c may have been renamed to one of them.           *)
MayBe(t, c) ==
  {n \in DOMAIN target.tables[t] \ DOMAIN db.tables[t] :
     /\ target.tables[t][n].from = None
     /\ SqlType(target.tables[t][n].type) = db.tables[t][c].type}

(* The target asks for the loss of column c: by a hint, or nothing came    *)
(* that it may be, but for the columns named.                              *)
AskedFor(t, c, but) ==
  /\ c \notin DOMAIN target.tables[t] /\ c \notin DOMAIN db'.tables[t]
  /\ \/ \E n \in DOMAIN target.tables[t] : target.tables[t][n].from = c
     \/ MayBe(t, c) \subseteq but

(* The data of column c is in it still, or in the column it is renamed to, *)
(* or went with a table the target does not have.                          *)
DataIsKept(t, c) ==
  \/ t \notin DOMAIN db'.tables /\ t \notin DOMAIN target.tables
  \/ c \in db'.filled[t]
  \/ \E n \in db'.filled[t] \ DOMAIN db.tables[t] : target.tables[t][n].from = c

(* The columns of table t that SQLite knows under another type's name.     *)
Renamings(t) ==
  {n \in DOMAIN target.tables[t] : SqlType(target.tables[t][n].type) # target.tables[t][n].type}

(* The data of a column goes only with the column: it survives every       *)
(* rebuild and rename, and a drop must be what the target asks for: a hint *)
(* says what became of it, or no column came that may be the old one.      *)
(* Exempt is what DropsAreAsked claims and the code does not do: a column  *)
(* that came with a type SQLite has another name for is not recognised.    *)
RowsStep ==
  \A t \in DOMAIN db.tables : \A c \in db.filled[t] :
    DataIsKept(t, c) \/ AskedFor(t, c, Renamings(t))
RowsSurvive == [][RowsStep]_vars

(* "If both columns have the same type, this might be a rename -- or it    *)
(* might be a genuine drop and add" and "honest-persist cannot resolve     *)
(* that safely without human input, so it reports it as an ambiguity":     *)
(* data is never dropped with a column while one that is written in the    *)
(* same type comes unhinted, whatever the type is called.                  *)
DropStep ==
  \A t \in DOMAIN db.tables : \A c \in db.filled[t] : DataIsKept(t, c) \/ AskedFor(t, c, {})
DropsAreAsked == [][DropStep]_vars

(* "after apply(), the database matches the target schema": a migrate that *)
(* meets no fault and is not refused succeeds.                             *)
MigrationCompletes ==
  phase = "idle" /\ trusted = {} => outcome \in {"none", "refused", "ok"}

-----------------------------------------------------------------------------
(* The inductive invariant behind RebuildIsAtomic.  A plan made in a       *)
(* transaction that was left open may name anything: it is never committed.*)
PlannedOps ==
  {"create_table", "drop_table", "add_column", "drop_column", "rename_column", "alter_column",
   "add_foreign_key", "drop_foreign_key", "create_view", "drop_view"}
KeepsWanted(op, wanted) ==
  /\ op.op \in PlannedOps /\ op.table # Temp
  /\ op.op = "drop_table" => op.table \notin DOMAIN wanted
  /\ op.op = "create_table" => op.table \in DOMAIN wanted /\ op.def = wanted[op.table]
  /\ op.op \in PlannedOps \ {"create_table", "drop_table", "create_view", "drop_view"} =>
       op.table \in DOMAIN wanted
  /\ op.op = "add_column" => op.name \in DOMAIN wanted[op.table]
  /\ op.op = "drop_column" => op.name \notin DOMAIN wanted[op.table]
  /\ op.op = "rename_column" =>
       /\ op.name \notin DOMAIN wanted[op.table] /\ op.def \in DOMAIN wanted[op.table]
       /\ wanted[op.table][op.def].from = op.name

InTransaction == phase \in {"rebuild", "commit", "rollback"}
RebuildPhases == {"disable_foreign_keys", "begin", "rebuild", "commit", "rollback",
                  "enable_foreign_keys", "resume_push"}

PlanIsSafe ==
  phase # "idle" /\ (work = <<>> \/ InTransaction) =>
    /\ todo \in Seq(ToSet(plan))
    /\ \A op \in ToSet(plan) : KeepsWanted(op, target.tables)
    /\ phase \in RebuildPhases => todo # <<>>

(* The tables in the transaction after n statements of a rebuild of t.     *)
ViewCount(t, s) == Len(InOrder(DependentViews(t, s.views)))
TablesAt(n, t) ==
  LET views == ViewCount(t, target)
      before == DOMAIN db.tables
  IN IF n <= views THEN before
     ELSE IF n <= views + 2 THEN before \cup {Temp}
     ELSE IF n = views + 3 THEN (before \ {t}) \cup {Temp}
     ELSE before

RebuildGoesOn ==
  phase = "rebuild" =>
    LET t == Head(todo).table
        statements == ReconstructionSql(t, target, plan)
    IN \E n \in 0..Len(statements) :
         /\ stmts = SubSeq(statements, n + 1, Len(statements))
         /\ DOMAIN work[1].tables = TablesAt(n, t)
         /\ n = ViewCount(t, target) + 3 => t \in DOMAIN db.tables

CommitIsWhole == phase = "commit" => DOMAIN work[1].tables = DOMAIN db.tables

SeedIsHarmless ==
  phase = "seed" =>
    stmts \in Seq(ToSet(stmts)) /\ \A st \in ToSet(stmts) : st.op \in {"clear", "record"}

HasParts(d) == DOMAIN d = {"tables", "filled", "views", "registry"}
DatabasesFit ==
  /\ HasParts(db) /\ Temp \notin DOMAIN db.tables
  /\ work # <<>> => work = <<work[1]>> /\ HasParts(work[1])
  /\ InTransaction => work # <<>>
  /\ Temp \notin DOMAIN target.tables
  /\ phase \in Phases

AtomicInv == PlanIsSafe /\ RebuildGoesOn /\ CommitIsWhole /\ SeedIsHarmless /\ DatabasesFit

-----------------------------------------------------------------------------
(* The inductive invariant behind RowsSurvive, beside AtomicInv.           *)
Applying == phase # "idle" /\ (work = <<>> \/ InTransaction)

FilledFits(d) ==
  /\ DOMAIN d.filled = DOMAIN d.tables
  /\ \A t \in DOMAIN d.tables : d.filled[t] \subseteq DOMAIN d.tables[t]

(* No column that a rebuild leaves out of its copy is in the table yet.    *)
IsFresh(op) ==
  op.table \in Rebuilt(plan) \cap DOMAIN db.tables =>
    ColumnsAdded(op.table, plan) \cap DOMAIN db.tables[op.table] = {}

(* What is still to do was planned for the database as it is, but for the  *)
(* operations on a table that has just been rebuilt.                       *)
PlanIsFresh ==
  /\ ~ Ambiguous(db, target)
  /\ phase \in RebuildPhases => Head(todo).table \in Rebuilt(plan)
  /\ \A op \in ToSet(todo) :
       \/ IsFresh(op)
       \/ phase \in {"enable_foreign_keys", "resume_push"} /\ op.table = Head(todo).table

(* In d, table name is what a rebuild makes of t; the others are as ever.  *)
Renewed(d, name, t) ==
  /\ name \in DOMAIN d.tables
  /\ d.tables[name] = Declared(target.tables[t])
  /\ t \in DOMAIN db.tables =>
       d.filled[name] = (DOMAIN target.tables[t] \ ColumnsAdded(t, plan)) \cap db.filled[t]
SameIn(d, u) == u \in DOMAIN d.tables /\ d.tables[u] = db.tables[u] /\ d.filled[u] = db.filled[u]
OthersSame(d, t) ==
  /\ DOMAIN d.filled = DOMAIN d.tables
  /\ \A u \in DOMAIN db.tables \ {t} : SameIn(d, u)

(* The transaction after n statements of a rebuild of t, views before it.  *)
RowsAt(d, n, views, t) ==
  /\ OthersSame(d, t)
  /\ n <= views + 2 /\ t \in DOMAIN db.tables => SameIn(d, t)
  /\ n = views + 1 => Temp \in DOMAIN d.tables /\ d.tables[Temp] = Declared(target.tables[t])
  /\ n \in {views + 2, views + 3} => Renewed(d, Temp, t)
  /\ n >= views + 4 => Renewed(d, t, t)

CopyGoesOn ==
  phase = "rebuild" =>
    LET t == Head(todo).table
        statements == ReconstructionSql(t, target, plan)
    IN \E n \in 0..Len(statements) :
         /\ stmts = SubSeq(statements, n + 1, Len(statements))
         /\ RowsAt(work[1], n, ViewCount(t, target), t)

CopyIsWhole ==
  phase = "commit" =>
    LET t == Head(todo).table IN OthersSame(work[1], t) /\ Renewed(work[1], t, t)

RowsInv == FilledFits(db) /\ (Applying => PlanIsFresh) /\ CopyGoesOn /\ CopyIsWhole
=============================================================================
