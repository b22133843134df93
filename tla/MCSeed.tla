------------------------------- MODULE MCSeed -------------------------------
(***************************************************************************)
(* Two runs over what the migrations or an earlier run left.               *)
(***************************************************************************)
EXTENDS Seed

\* Every table and every kind of reference: what one person, the first
\* transition and a request type with a dictionary field need.
Some ==
    {<<"roles", "employee">>, <<"roles", "approver">>, DemoCompany, <<"departments", "IT">>,
     <<"employees", "approver.demo">>, <<"users", "approver.demo">>, DemoProcess,
     <<"statuses", "draft">>, <<"statuses", "in_approval">>, <<"actions", "submit">>,
     <<"process_transitions", "1">>, Dictionary1, <<"dictionary_items", "income">>,
     Certificate, <<"request_field_definitions", "certificate_kind">>,
     <<"approval_routes", "certificate">>, <<"approval_stages", "certificate">>,
     <<"stage_assignments", "certificate">>}

MCKept(name) == name \in Some

\* The rows of some items, as the migrations or an earlier application wrote
\* them: value |-> what they say, in the order of the script.
Before(items, value(_)) ==
    [id \in {<<items[i].name, "before">> : i \in DOMAIN items} |->
        LET item == items[CHOOSE i \in DOMAIN items : items[i].name = id[1]]
        IN  [by    |-> {<<n, "before">> : n \in item.by},
             links |-> {<<n, "before">> : n \in item.links},
             value |-> value(id[1])]]

Items(tables) == SelectSeq(Script, LAMBDA item : item.name[1] \in tables)

\* 0005 to 0007 leave roles, statuses and types under other names, and a
\* company, a process and a department of people who had none.
Value(name) == IF name[1] \in {"roles", "statuses", "request_types"} THEN "migrated" ELSE "demo"

General == Ensure("departments", "General", {DemoCompany}, {})

InGeneral(item) ==
    IF item.name[1] = "employees" THEN [item EXCEPT !.links = {General.name}] ELSE item

\* A new database, migrated.
Fresh ==
    Before(<<General>> \o Items({"roles", "companies", "processes", "statuses"}), Value)

\* A second approver the operator can assign.
Other == Ensure("users", "other", {}, {<<"roles", "approver">>})

\* A database with a catalog and people of the first application.
Migrated ==
    LET items == Items({item.name[1] : item \in Range(Script)}
                       \ {"departments", "actions", "process_transitions"})
    IN  Before(<<General, Other>> \o [i \in DOMAIN items |-> InGeneral(items[i])], Value)

\* A seeded database, from which the operator has removed catalog entries.
Trimmed ==
    Before(Items({item.name[1] : item \in Range(Script)}
                 \ {"dictionary_items", "request_field_definitions"}),
           LAMBDA name : "demo")

\* What is assumed of Script, of all the items the script has.
ASSUME WholeScriptInOrder == InOrder(WholeScript) /\ FirmParents(WholeScript)

MCInitial == {Fresh, Migrated, Trimmed}

\* The hypotheses of the theorems about reruns and doubles, of all three.
ASSUME InitialIsLed == \A rows \in MCInitial : Tidy(rows) /\ Led(rows)
=============================================================================
