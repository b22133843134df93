-------------------------------- MODULE Seed --------------------------------
(***************************************************************************)
(* app/db/seed.py: "python -m app.db.seed" puts the demo configuration in  *)
(* place, item by item, in one transaction: each item is looked up by its  *)
(* key, inserted and flushed when missing, overwritten when found.         *)
(*                                                                         *)
(* Several runs may overlap, an operator edits the live configuration by   *)
(* SQL meanwhile, and a run may die.  The session does not autoflush       *)
(* (db/session.py): what a run overwrites is written, and its row locked,  *)
(* only by the flush of the next insert or by the commit.  PostgreSQL lets *)
(* a select see committed rows and the run's own; a flush waits for the    *)
(* rows and unique keys another run has written, and fails on a key that   *)
(* is committed by then.                                                   *)
(*                                                                         *)
(* A row is named <<item, author>>, an item <<table, key>>; it keeps the   *)
(* rows it is looked up BY, the rows it LINKS to and a value, "demo" being *)
(* what the script says.  Password hashes are left out.                    *)
(***************************************************************************)
EXTENDS DomainModels, Naturals

CONSTANTS
    Runners,    \* the runs of the script
    Initial,    \* the contents it may find: by migrations or an earlier run
    Editable,   \* tables the operator edits
    Kept(_),    \* bound: the names of items a check keeps
    MaxEdits    \* bound on the operator's edits

Operator == "operator"
ASSUME RunnersAssumption == Operator \notin Runners
ASSUME MaxEditsAssumption == MaxEdits \in Nat

\* Rows by runs, the operator and whoever filled the database before.
Authors == Runners \union {Operator, "before"}
Names   == STRING \X STRING
RowIds  == Names \X Authors
\* What a row says: what the script does, a migration did, an operator does.
Values == {"demo", "migrated", "edited"}
Rows == [by : SUBSET RowIds, links : SUBSET RowIds, value : Values]

ASSUME InitialAssumption ==
    \A rows \in Initial :
        /\ rows = [id \in DOMAIN rows |-> rows[id]]
        /\ \A id \in DOMAIN rows :
               id \in RowIds /\ id[2] \notin Runners /\ rows[id] \in Rows

\* f, and g where f is not defined.
Over(f, g) == [x \in DOMAIN f \union DOMAIN g |-> IF x \in DOMAIN f THEN f[x] ELSE g[x]]

\* f, with v for x.
Put(x, v, f) == Over([y \in {x} |-> v], f)

-----------------------------------------------------------------------------
(* The script.                                                             *)

\* by: parents in the lookup; links: foreign keys written besides them;
\* updates: whether a found row is overwritten.
Ensure(table, key, by, links) ==
    [name |-> <<table, key>>, by |-> by, links |-> links, updates |-> TRUE]

EnsureOnce(table, key, by) == [Ensure(table, key, by, {}) EXCEPT !.updates = FALSE]

EnsureEach(table, keys, by) == [i \in DOMAIN keys |-> Ensure(table, keys[i], by, {})]

RoleSpecs == <<"employee", "approver", "admin">>

StatusSpecs == <<"draft", "in_approval", "returned", "approved", "rejected", "cancelled">>

ActionSpecs == <<"submit", "cancel", "approve", "reject", "return">>

\* action, from, to, role
TransitionSpecs ==
    <<<<"submit",  "draft",       "in_approval", "employee">>,
      <<"submit",  "returned",    "in_approval", "employee">>,
      <<"cancel",  "draft",       "cancelled",   "employee">>,
      <<"cancel",  "returned",    "cancelled",   "employee">>,
      <<"approve", "in_approval", "approved",    "approver">>,
      <<"reject",  "in_approval", "rejected",    "approver">>,
      <<"return",  "in_approval", "returned",    "approver">>>>

\* login, role, department
DemoPeople ==
    <<<<"employee.demo", "employee", "IT">>,
      <<"approver.demo", "approver", "IT">>,
      <<"admin.demo",    "admin",    "HR">>>>

DemoCompany == <<"companies", "Demo Company">>
DemoProcess == <<"processes", "employee_requests">>
Dictionary1 == <<"dictionaries", "certificate kinds">>
Vacation    == <<"request_types", "vacation">>
Certificate == <<"request_types", "certificate">>

EnsurePerson(p) ==
    <<Ensure("employees", p[1], {}, {<<"departments", p[3]>>}),
      Ensure("users", p[1], {}, {<<"roles", p[2]>>, <<"employees", p[1]>>})>>

\* The lookup names every reference of a transition; a found one gets its
\* effect, order and activity back.
EnsureTransition(i) ==
    LET t == TransitionSpecs[i]
    IN  Ensure("process_transitions", ToString(i),
               {DemoProcess, <<"actions", t[1]>>, <<"statuses", t[2]>>, <<"statuses", t[3]>>,
                <<"roles", t[4]>>}, {})

EnsureFields(type, codes, links) ==
    [i \in DOMAIN codes |-> Ensure("request_field_definitions", codes[i], {type}, links)]

\* Route and stage 1 by their keys; the assignment by its stage alone.
EnsureRouteWithApprover(type) ==
    LET route == <<"approval_routes", type[2]>>
        stage == <<"approval_stages", type[2]>>
    IN  <<EnsureOnce("approval_routes", type[2], {type}),
          Ensure("approval_stages", type[2], {route}, {}),
          Ensure("stage_assignments", type[2], {stage}, {<<"users", "approver.demo">>})>>

WholeScript ==
    EnsureEach("roles", RoleSpecs, {})
    \o <<Ensure("companies", DemoCompany[2], {}, {})>>
    \o EnsureEach("departments", <<"IT", "HR">>, {DemoCompany})
    \o FlattenSeq([i \in DOMAIN DemoPeople |-> EnsurePerson(DemoPeople[i])])
    \o <<Ensure("processes", DemoProcess[2], {}, {})>>
    \o EnsureEach("statuses", StatusSpecs, {})
    \o EnsureEach("actions", ActionSpecs, {})
    \o [i \in DOMAIN TransitionSpecs |-> EnsureTransition(i)]
    \o <<EnsureOnce("dictionaries", Dictionary1[2], {})>>
    \o EnsureEach("dictionary_items", <<"employment", "income">>, {Dictionary1})
    \o <<Ensure("request_types", "vacation", {}, {DemoProcess})>>
    \o EnsureFields(Vacation, <<"date_from", "date_to", "comment">>, {})
    \o <<Ensure("request_types", "certificate", {}, {DemoProcess})>>
    \o EnsureFields(Certificate, <<"certificate_kind">>, {Dictionary1})
    \o EnsureFields(Certificate, <<"note">>, {})
    \o EnsureRouteWithApprover(Vacation)
    \o EnsureRouteWithApprover(Certificate)

Script == SelectSeq(WholeScript, LAMBDA item : Kept(item.name))

\* An item comes once, and after the items it refers to.
InOrder(script) ==
    /\ script \in Seq([name : Names, by : SUBSET Names, links : SUBSET Names,
                       updates : BOOLEAN])
    /\ \A i, j \in DOMAIN script : script[i].name = script[j].name => i = j
    /\ \A i \in DOMAIN script : \A name \in script[i].by \union script[i].links :
           \E j \in 1..(i - 1) : script[j].name = name

ASSUME ScriptAssumption == InOrder(Script)

\* Does the schema refuse a second row with an item's key?
Unique(name) == \E k \in Models[name[1]].keys : k[1] = "uq"

-----------------------------------------------------------------------------
VARIABLES
    committed,  \* row name |-> row
    run,        \* runner |-> its session
    edits       \* how many times the operator has edited

vars == <<committed, run, edits>>

\* at: the item in hand; phase; found: item |-> the row it stands for; pending:
\* row |-> overwritten fields not yet flushed; own: rows flushed, uncommitted;
\* since: the edits before it started; alone: no run overlapped it; rerun: it
\* started on what an earlier run left.
Idle == [at |-> 0, phase |-> "ready", found |-> <<>>, pending |-> <<>>, own |-> <<>>,
         since |-> 0, alone |-> TRUE, rerun |-> FALSE]

Init ==
    /\ committed \in Initial
    /\ run = [r \in Runners |-> Idle]
    /\ edits = 0

Running(r) == run[r].phase \in {"select", "insert"}

Item(r) == Script[run[r].at]

Visible(r) == Over(run[r].own, committed)

Ids(r, names) == {run[r].found[n] : n \in names}

\* Mutation: the assignment of a stage is not looked up.
MatchesButAssignments(r) ==
    {id \in DOMAIN Visible(r) :
        /\ id[1] = Item(r).name /\ Visible(r)[id].by = Ids(r, Item(r).by)
        /\ id[1][1] # "stage_assignments"}

\* The rows a lookup can return: none of them orders its result.
Matches(r) ==
    {id \in DOMAIN Visible(r) :
        id[1] = Item(r).name /\ Visible(r)[id].by = Ids(r, Item(r).by)}

\* Mutation: a row found inactive or under another name stays so.
ChangesLinks(r, row) ==
    LET asked == [links |-> Ids(r, Item(r).links)]
    IN  [f \in {f \in DOMAIN asked : row[f] # asked[f]} |-> asked[f]]

\* The fields an else branch changes in a row it loaded; none when it is
\* already as the script says (the session writes net changes only).
Changes(r, row) ==
    LET asked == [value |-> "demo", links |-> Ids(r, Item(r).links)]
    IN  [f \in {f \in DOMAIN asked : row[f] # asked[f]} |-> asked[f]]

Start(r) ==
    /\ run[r].phase = "ready"
    /\ LET others == {q \in Runners \ {r} : Running(q)}
       IN  run' = [q \in Runners |->
                     IF q = r
                     THEN [Idle EXCEPT !.at = 1, !.phase = "select", !.since = edits,
                                       !.alone = others = {},
                                       !.rerun = edits = 0 /\ \E p \in Runners :
                                                                 run[p].phase = "committed"]
                     ELSE IF q \in others THEN [run[q] EXCEPT !.alone = FALSE] ELSE run[q]]
    /\ UNCHANGED <<committed, edits>>

Advance(r, id) ==
    [run[r] EXCEPT !.at = @ + 1, !.phase = "select", !.found = Put(Item(r).name, id, @)]

\* The lookup finds a row: overwrite it, in the session.
Reuse(r) ==
    /\ run[r].phase = "select" /\ run[r].at <= Len(Script)
    /\ \E id \in Matches(r) :
         LET changes == Changes(r, Visible(r)[id])
         IN  run' = [run EXCEPT ![r] =
                [Advance(r, id) EXCEPT !.pending =
                    IF Item(r).updates /\ DOMAIN changes # {} THEN Put(id, changes, @) ELSE @]]
    /\ UNCHANGED <<committed, edits>>

\* The lookup finds none: add a row, to be flushed at once.
Miss(r) ==
    /\ run[r].phase = "select" /\ run[r].at <= Len(Script)
    /\ Matches(r) = {}
    /\ run' = [run EXCEPT ![r].phase = "insert"]
    /\ UNCHANGED <<committed, edits>>

\* Rows another run has written and not committed: locked.
Locked(r) == UNION {DOMAIN run[q].own : q \in Runners \ {r}}

\* What the flush writes: the pending fields over the rows as they are now.
Flushed(r) ==
    Over([id \in DOMAIN run[r].pending |-> Over(run[r].pending[id], Visible(r)[id])], run[r].own)

\* The rows of a table with the key of the item in hand.
SameKey(r, rows) ==
    {id \in DOMAIN rows :
        Unique(id[1]) /\ id[1] = Item(r).name /\ rows[id].by = Ids(r, Item(r).by)}

Waits(r) ==
    \/ DOMAIN run[r].pending \intersect Locked(r) # {}
    \/ \E q \in Runners \ {r} : SameKey(r, run[q].own) # {}

Flush(r) ==
    /\ run[r].phase = "insert"
    /\ ~Waits(r)
    /\ SameKey(r, committed) = {}
    /\ LET id  == <<Item(r).name, r>>
           row == [by |-> Ids(r, Item(r).by), links |-> Ids(r, Item(r).links), value |-> "demo"]
       IN  run' = [run EXCEPT ![r] =
                [Advance(r, id) EXCEPT !.own = Put(id, row, Flushed(r)), !.pending = <<>>]]
    /\ UNCHANGED <<committed, edits>>

\* Mutation: the session is not closed, its locks stay.
EndedOpen(r, phase) == [run[r] EXCEPT !.phase = phase, !.pending = <<>>]

Ended(r, phase) == [run[r] EXCEPT !.phase = phase, !.pending = <<>>, !.own = <<>>]

\* IntegrityError: main rolls back and the script ends with the error.
Refused(r) ==
    /\ run[r].phase = "insert"
    /\ ~Waits(r)
    /\ SameKey(r, committed) # {}
    /\ run' = [run EXCEPT ![r] = Ended(r, "failed")]
    /\ UNCHANGED <<committed, edits>>

\* The process or its connection dies: PostgreSQL rolls back.
Die(r) ==
    /\ Running(r)
    /\ run' = [run EXCEPT ![r] = Ended(r, "failed")]
    /\ UNCHANGED <<committed, edits>>

\* main commits: what is pending is flushed first.
Commit(r) ==
    /\ run[r].phase = "select" /\ run[r].at > Len(Script)
    /\ DOMAIN run[r].pending \intersect Locked(r) = {}
    /\ committed' = Over(Flushed(r), committed)
    /\ run' = [run EXCEPT ![r] = Ended(r, "committed")]
    /\ UNCHANGED edits

\* The operator deactivates or renames a row of the live configuration, or
\* assigns one more user to a stage.
Edit ==
    /\ edits < MaxEdits
    /\ edits' = edits + 1
    /\ \E id \in DOMAIN committed :
         /\ id[1][1] \in Editable
         /\ id \notin UNION {DOMAIN run[r].own : r \in Runners}
         /\ committed' = [committed EXCEPT ![id].value = "edited"]
    /\ UNCHANGED run

Assign ==
    /\ edits < MaxEdits
    /\ edits' = edits + 1
    /\ \E id \in DOMAIN committed, user \in DOMAIN committed :
         LET extra == <<id[1], Operator>>
         IN  /\ id[1][1] = "stage_assignments"
             /\ user[1][1] = "users" /\ user \notin committed[id].links
             /\ extra \notin DOMAIN committed
             /\ committed' = Put(extra, [committed[id] EXCEPT !.links = {user}], committed)
    /\ UNCHANGED run

Step(r) == Reuse(r) \/ Miss(r) \/ Flush(r) \/ Refused(r) \/ Commit(r)

Finished ==
    /\ \A r \in Runners : run[r].phase \in {"committed", "failed"}
    /\ UNCHANGED vars

Next ==
    \/ \E r \in Runners : Start(r) \/ Step(r) \/ Die(r)
    \/ Edit \/ Assign
    \/ Finished

\* A started script keeps running; PostgreSQL serves the waits it can.
Spec == Init /\ [][Next]_vars /\ \A r \in Runners : WF_vars(Step(r))

-----------------------------------------------------------------------------
(* Properties.                                                             *)

Commits(r) == run[r].phase # "committed" /\ run'[r].phase = "committed"

\* As the script wants a row: its value, and links to rows of the named items.
AsScripted(item, row) == row.value = "demo" /\ {id[1] : id \in row.links} = item.links

\* What seed.py:461 promises: when a run commits and nobody edited the
\* configuration since it started, every item it updates is committed as the
\* script says - whatever was found, and whatever other runs wrote meanwhile
\* into the rows this one had looked up.
SeedInstalls ==
    [][\A r \in Runners : Commits(r) /\ edits = run[r].since =>
           \A i \in DOMAIN Script : Script[i].updates =>
               AsScripted(Script[i], committed'[run[r].found[Script[i].name]])]_vars

\* Rows as the schema and the script keep them: an item is there once, and the
\* rows it is looked up by are those of its parents.
NamedOnce(rows) == \A x, y \in DOMAIN rows : x[1] = y[1] => x = y

Refers(rows, names, ids) == ids \subseteq DOMAIN rows /\ {x[1] : x \in ids} = names

Tidy(rows) ==
    /\ NamedOnce(rows)
    /\ \A i \in DOMAIN Script, x \in DOMAIN rows :
           x[1] = Script[i].name => Refers(rows, Script[i].by, rows[x].by)

\* "Safe to run repeatedly" (seed.py:461): a run on what an earlier run left
\* changes nothing, as long as no two runs ever overlapped.  (With the two
\* "IT" departments of overlapping runs the next one may move the people.)
RerunChangesNothing ==
    [][\A r \in Runners :
           Commits(r) /\ run[r].rerun /\ edits = 0 /\ (\A q \in Runners : run[q].alone)
               => committed' = committed]_vars

\* Items that are looked up by, or locked: neither may have two rows.
Firm(name) == name[1] \notin {"departments", "stage_assignments"}

\* The k-th item is the first that rows miss, and two runs cannot both add it:
\* it has a unique key, or it is a department and the flush that adds it also
\* writes the j-th item, which all of them have overwritten.
Leads(rows, k, j) ==
    /\ \A i \in 1..(k - 1) : \E x \in DOMAIN rows : x[1] = Script[i].name
    /\ k <= Len(Script) =>
          /\ \A x \in DOMAIN rows : x[1] # Script[k].name
          /\ \/ Unique(Script[k].name)
             \/ /\ Script[k].name[1] = "departments"
                /\ j < k /\ Script[j].updates /\ Firm(Script[j].name)
                /\ \A x \in DOMAIN rows : x[1] = Script[j].name => rows[x].value # "demo"

Led(rows) == \E k, j \in 1..(Len(Script) + 1) : Leads(rows, k, j)

\* Items are looked up by items with one row.
FirmParents(script) == \A i \in DOMAIN script : \A name \in script[i].by : Firm(name)

\* No item is there twice, overlapping runs or not, but for departments, whose
\* name no unique key protects (domain/org.py).  Transitions, dictionaries and
\* assignments have none either: what saves them is that a run which misses one
\* has waited before, for a row or a key of the run that adds it.  The
\* operator's rows aside.
OnlyDepartmentsTwice ==
    \A id1, id2 \in DOMAIN committed :
        id1[1] = id2[1] /\ id1 # id2 /\ Operator \notin {id1[2], id2[2]}
            => id1[1][1] = "departments"

\* Overlapping runs wait for each other's rows and keys, and never in a
\* circle, because all of them write in the order of the script: each ends.
RunsEnd == \A r \in Runners : Running(r) ~> ~Running(r)
=============================================================================
