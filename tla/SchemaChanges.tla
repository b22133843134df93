--------------------------- MODULE SchemaChanges ---------------------------
(***************************************************************************)
(* What PostgreSQL does with the schema changes the migrations issue       *)
(* through alembic's op.*: which change a schema accepts, and the schema   *)
(* it leaves.  Nothing here is code of the repository: it is the meaning   *)
(* src/alembic/versions relies on.                                         *)
(*                                                                         *)
(* A database is a record                                                  *)
(*   ok      FALSE once a statement failed: the transaction is aborted     *)
(*   tables  name |-> [cols, fks, checks, idx]                             *)
(*   enums   name |-> set of labels                                        *)
(*   rows    what the tables hold, a matter of the migrations' module      *)
(* A column is "uuid", "int", "data" (text, numbers, times) or an enum.    *)
(* An index is <<kind, owner, columns>>; kind and owner are the parts of   *)
(* its NAME, which is global to the schema and outlives a table's rename.  *)
(***************************************************************************)
EXTENDS TLC, Sequences, SequencesExt, FiniteSets

Abort(db) == [db EXCEPT !.ok = FALSE]

-----------------------------------------------------------------------------
(* Tables as the migrations and the models write them.                     *)

ToUuid(table) == <<"uuid", {table}>>     \* a foreign key of each key type
ToInt(table)  == <<"int", {table}>>
Typed(type)   == <<type, {}>>            \* a typed column without a target

\* A table with an "id" of the given type: data columns, typed columns
\* (name |-> ToUuid / ToInt / Typed), unique constraints and further indexes.
Table(key, data, typed, uniques, indexes) ==
    [cols    |-> ("id" :> key) @@ [c \in data |-> "data"]
                 @@ [c \in DOMAIN typed |-> typed[c][1]],
     fks     |-> UNION {{<<c, t>> : t \in typed[c][2]} : c \in DOMAIN typed},
     checks  |-> {},
     keys    |-> {<<"pk", {"id"}>>} \union {<<"uq", u>> : u \in uniques}
                 \union {<<"ix", i>> : i \in indexes}]

WithChecks(table, checks) == [table EXCEPT !.checks = checks]

\* A link table: no id, its primary key is the pair of its references.
LinkTable(typed, indexes) ==
    LET t == Table("uuid", {}, typed, {}, indexes)
    IN  [t EXCEPT !.cols = [c \in DOMAIN typed |-> typed[c][1]],
                  !.keys = {<<"pk", DOMAIN typed>>} \union {<<"ix", i>> : i \in indexes}]

\* The table as the database stores it: its indexes carry its name.
Stored(name, table) ==
    [cols |-> table.cols, fks |-> table.fks, checks |-> table.checks,
     idx  |-> {<<k[1], name, k[2]>> : k \in table.keys}]

-----------------------------------------------------------------------------
(* One record per statement.                                               *)

CreateTable(t, def)        == [op |-> "create_table", t |-> t, def |-> def]
DropTable(t)               == [op |-> "drop_table", t |-> t]
RenameTable(t, new)        == [op |-> "rename_table", t |-> t, new |-> new]
RenameIndex(t, kind, cols, new) ==
    [op |-> "rename_index", t |-> t, kind |-> kind, cols |-> cols, new |-> new]
AddColumn(t, c, type)      == [op |-> "add_column", t |-> t, c |-> c, type |-> type]
DropColumn(t, c)           == [op |-> "drop_column", t |-> t, c |-> c]
AddForeignKey(t, c, to)    == [op |-> "add_fk", t |-> t, c |-> c, to |-> to]
DropForeignKey(t, c)       == [op |-> "drop_fk", t |-> t, c |-> c]
AddIndex(t, kind, cols)    == [op |-> "add_index", t |-> t, kind |-> kind, cols |-> cols]
DropIndex(t, kind, cols)   == [op |-> "drop_index", t |-> t, kind |-> kind, cols |-> cols]
CreateType(e, labels)      == [op |-> "create_type", e |-> e, labels |-> labels]
DropType(e)                == [op |-> "drop_type", e |-> e]
AddLabels(e, labels)       == [op |-> "add_labels", e |-> e, labels |-> labels]

-----------------------------------------------------------------------------
(* What a schema accepts.                                                  *)

IsEnum(type) == type \notin {"uuid", "int", "data"}

IndexNames(db) == UNION {db.tables[t].idx : t \in DOMAIN db.tables}

\* Does some other table have a foreign key to t?
Referenced(db, t) ==
    \E u \in DOMAIN db.tables \ {t} : \E fk \in db.tables[u].fks : fk[2] = t

\* A foreign key needs its target, with a key of the column's own type.
KeyFits(type, target, tables) ==
    target \in DOMAIN tables /\ tables[target].cols["id"] = type

Accepts(db, s) ==
    LET tables   == db.tables
        has(t)   == t \in DOMAIN tables
        old      == tables[s.t]
        name     == <<s.kind, s.t, s.cols>>
    IN  CASE s.op = "create_table" ->
               LET new == Stored(s.t, s.def)
               IN  /\ ~has(s.t)
                   /\ new.idx \intersect IndexNames(db) = {}
                   /\ \A c \in DOMAIN new.cols : IsEnum(new.cols[c]) => new.cols[c] \in DOMAIN db.enums
                   /\ \A fk \in new.fks : KeyFits(new.cols[fk[1]], fk[2], (s.t :> new) @@ tables)
          [] s.op = "drop_table"   -> has(s.t) /\ ~Referenced(db, s.t)
          [] s.op = "rename_table" -> has(s.t) /\ ~has(s.new)
          [] s.op = "rename_index" ->
               /\ has(s.t)
               /\ \E i \in old.idx : i[1] = s.kind /\ i[3] = s.cols
               /\ <<s.kind, s.new, s.cols>> \notin IndexNames(db)
          [] s.op = "add_column"   ->
               has(s.t) /\ s.c \notin DOMAIN old.cols /\ (IsEnum(s.type) => s.type \in DOMAIN db.enums)
          [] s.op = "drop_column"  -> has(s.t) /\ s.c \in DOMAIN old.cols
          [] s.op = "add_fk"       ->
               /\ has(s.t) /\ s.c \in DOMAIN old.cols
               /\ ~\E fk \in old.fks : fk[1] = s.c
               /\ KeyFits(old.cols[s.c], s.to, tables)
          [] s.op = "drop_fk"      -> has(s.t) /\ \E fk \in old.fks : fk[1] = s.c
          [] s.op = "add_index"    ->
               has(s.t) /\ s.cols \subseteq DOMAIN old.cols /\ name \notin IndexNames(db)
          [] s.op = "drop_index"   -> has(s.t) /\ name \in old.idx
          [] s.op = "create_type"  -> s.e \notin DOMAIN db.enums
          [] s.op = "drop_type"    ->
               /\ s.e \in DOMAIN db.enums
               /\ \A t \in DOMAIN tables : \A c \in DOMAIN tables[t].cols : tables[t].cols[c] # s.e
          [] s.op = "add_labels"   -> s.e \in DOMAIN db.enums

(* The schema a statement leaves.  Dropping a column takes every check, key *)
(* and index it is part of; references follow a renamed table.              *)

Forget(f, x) == [y \in DOMAIN f \ {x} |-> f[y]]

WithoutColumn(table, c) ==
    [cols   |-> Forget(table.cols, c),
     fks    |-> {fk \in table.fks : fk[1] # c},
     checks |-> {k \in table.checks : c \notin k},
     idx    |-> {i \in table.idx : c \notin i[3]}]

Retarget(table, from, to) ==
    [table EXCEPT !.fks = {IF fk[2] = from THEN <<fk[1], to>> ELSE fk : fk \in @}]

Effect(db, s) ==
    LET tables == db.tables
        put(t, def) == [db EXCEPT !.tables = (t :> def) @@ @]
        name   == <<s.kind, s.t, s.cols>>
        old    == tables[s.t]
    IN  CASE s.op = "create_table" -> put(s.t, Stored(s.t, s.def))
          [] s.op = "drop_table"   ->
               [db EXCEPT !.tables = Forget(@, s.t), !.rows.filled = @ \ {s.t}]
          [] s.op = "rename_table" ->
               [db EXCEPT !.tables =
                   [t \in (DOMAIN @ \ {s.t}) \union {s.new} |->
                       Retarget(IF t = s.new THEN old ELSE tables[t], s.t, s.new)]]
          [] s.op = "rename_index" ->
               put(s.t, [old EXCEPT !.idx =
                   {IF i[1] = s.kind /\ i[3] = s.cols THEN <<s.kind, s.new, s.cols>> ELSE i : i \in @}])
          [] s.op = "add_column"   -> put(s.t, [old EXCEPT !.cols = (s.c :> s.type) @@ @])
          [] s.op = "drop_column"  -> put(s.t, WithoutColumn(old, s.c))
          [] s.op = "add_fk"       -> put(s.t, [old EXCEPT !.fks = @ \union {<<s.c, s.to>>}])
          [] s.op = "drop_fk"      -> put(s.t, [old EXCEPT !.fks = {fk \in @ : fk[1] # s.c}])
          [] s.op = "add_index"    -> put(s.t, [old EXCEPT !.idx = @ \union {name}])
          [] s.op = "drop_index"   -> put(s.t, [old EXCEPT !.idx = @ \ {name}])
          [] s.op = "create_type"  -> [db EXCEPT !.enums = (s.e :> s.labels) @@ @]
          [] s.op = "drop_type"    -> [db EXCEPT !.enums = Forget(@, s.e)]
          [] s.op = "add_labels"   -> [db EXCEPT !.enums[s.e] = @ \union s.labels]

\* A statement after a failed one does nothing: the transaction is aborted.
Apply(db, s) ==
    IF db.ok /\ Accepts(db, s) THEN Effect(db, s) ELSE Abort(db)

Run(db, statements) == FoldLeft(Apply, db, statements)

\* The checkfirst=True forms, as the statements they come down to.
CreateTypeIfMissing(db, e, labels) ==
    IF e \in DOMAIN db.enums THEN db ELSE Run(db, <<CreateType(e, labels)>>)

DropTypeIfPresent(db, e) ==
    IF e \in DOMAIN db.enums THEN Run(db, <<DropType(e)>>) ELSE db
=============================================================================
