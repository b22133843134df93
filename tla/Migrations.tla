----------------------------- MODULE Migrations -----------------------------
(***************************************************************************)
(* src/alembic: the ten revisions that take the database from the first    *)
(* schema (uuid keys, snapshots of routes and values) to the one the ORM   *)
(* models describe (integer keys, live routes), and back.  env.py runs a   *)
(* whole "alembic upgrade" or "downgrade" command in ONE transaction, so a *)
(* revision that fails undoes every revision of its command.               *)
(*                                                                         *)
(* A revision is a sequence of schema statements (SchemaChanges) around    *)
(* the moves of data it makes.  Of the rows, the model keeps               *)
(*   users      user |-> the roles it has                                  *)
(*   types      the request types in order of name: [name, code, routed,   *)
(*              stages], a stage being its set of assignments              *)
(*   processes, statuses    the codes present                              *)
(*   filled     the runtime tables that hold rows                          *)
(*   events     the event types of the notifications                       *)
(***************************************************************************)
EXTENDS DomainModels, Naturals

CONSTANTS
    Slug,        \* type name |-> what 0006 makes a code of, "" when nothing is left
    LegacyData,  \* contents the first application may have left: [users, types]
    Commands     \* the revisions a command may aim at

NoRole == "no role"
NoUser == "no user"

HeadRevision == 10      \* the last revision

-----------------------------------------------------------------------------
(* 0001: the first schema.                                                 *)

Legacy(data, typed, uniques, indexes) == Table("uuid", data, typed, uniques, indexes)

LegacyEnums ==
    [role_code               |-> {"employee", "approver", "admin"},
     request_status          |-> RequestStatus,
     field_data_type         |-> {"text", "date", "number", "catalog"},
     assignment_kind         |-> {"role", "user", "role_and_user"},
     approval_task_status    |-> {"open", "completed", "cancelled"},
     approval_decision       |-> {"approve", "reject", "return"},
     comment_kind            |-> {"free", "decision"},
     notification_event_type |-> {"new_task", "status_change"}]

EnumNames == <<"role_code", "request_status", "field_data_type", "assignment_kind",
               "approval_task_status", "approval_decision", "comment_kind",
               "notification_event_type">>

UserRoles == LinkTable([user_id |-> ToUuid("users"), role_id |-> ToUuid("roles")], Each({"role_id"}))

LegacyIdentity ==
    <<CreateTable("roles", Legacy({}, [code |-> Typed("role_code")], {{"code"}}, {})),
      CreateTable("users", Legacy({"login", "password_hash", "full_name", "email", "position",
                                   "department", "is_active"}, <<>>, {{"login"}}, {})),
      CreateTable("user_roles", UserRoles)>>

LegacyCatalog ==
    <<CreateTable("dictionaries", Legacy({"name"}, <<>>, {}, {})),
      CreateTable("dictionary_items",
          Legacy({"code", "name", "is_active"}, [dictionary_id |-> ToUuid("dictionaries")],
                 {{"dictionary_id", "code"}}, {})),
      CreateTable("request_types", Legacy({"name", "description", "is_active"}, <<>>, {}, {})),
      CreateTable("request_field_definitions",
          WithChecks(
              Legacy({"code", "name", "required", "order_no"},
                     [request_type_id |-> ToUuid("request_types"),
                      dictionary_id   |-> ToUuid("dictionaries"),
                      data_type       |-> Typed("field_data_type")],
                     {{"request_type_id", "code"}}, Each({"dictionary_id"})),
              {{"dictionary_id", "data_type"}}))>>

\* The two checks on who is assigned; an assignment's table, given its parent.
AssignmentChecks == {{"role_id", "user_id"}, {"assignment_kind", "role_id", "user_id"}}

Assignments(stageColumn, stages, roleColumn) ==
    LET refs == (stageColumn :> ToUuid(stages)) @@ [role_id |-> roleColumn, user_id |-> ToUuid("users")]
    IN  WithChecks(Legacy({}, refs @@ [assignment_kind |-> Typed("assignment_kind")],
                          {}, Each(DOMAIN refs)),
                   AssignmentChecks)

LegacyRouting(roleColumn) ==
    <<CreateTable("approval_routes",
          Legacy({}, [request_type_id |-> ToUuid("request_types")], {{"request_type_id"}}, {})),
      CreateTable("approval_stages",
          Legacy({"name", "sequence_no"}, [route_id |-> ToUuid("approval_routes")],
                 {{"route_id", "sequence_no"}}, {})),
      CreateTable("stage_assignments", Assignments("stage_id", "approval_stages", roleColumn))>>

\* typeColumn: the type of requests.request_type_id, with or without its target.
LegacyRequests(typeColumn) ==
    <<CreateTable("requests",
          Legacy({"current_stage_number", "created_at", "updated_at"},
                 [initiator_id |-> ToUuid("users"), request_type_id |-> typeColumn,
                  status |-> Typed("request_status")],
                 {}, Each({"initiator_id", "request_type_id", "status"}))),
      CreateTable("request_field_values",
          Legacy({"field_code", "value"}, [request_id |-> ToUuid("requests")],
                 {{"request_id", "field_code"}}, {}))>>

Snapshots ==
    <<CreateTable("route_instances",
          Legacy({"created_at"}, [request_id |-> ToUuid("requests")], {{"request_id"}}, {})),
      CreateTable("route_instance_stages",
          Legacy({"name", "sequence_no"}, [route_instance_id |-> ToUuid("route_instances")],
                 {{"route_instance_id", "sequence_no"}}, {})),
      CreateTable("route_instance_assignments",
          Assignments("instance_stage_id", "route_instance_stages", ToUuid("roles"))),
      CreateTable("field_value_versions",
          Legacy({"submit_number", "schema_document", "values_document", "created_at"},
                 [request_id |-> ToUuid("requests")], {{"request_id", "submit_number"}}, {}))>>

\* The approval tasks, with the columns a revision adds or leaves out.
LegacyTasks(data, versions, versionIndex) ==
    <<CreateTable("approval_tasks",
          Legacy({"stage_number", "decided_at"} \union data,
                 [request_id |-> ToUuid("requests"), assignee_id |-> ToUuid("users"),
                  status |-> Typed("approval_task_status"),
                  decision |-> Typed("approval_decision")] @@ versions,
                 {}, {{"request_id"}, {"assignee_id", "status"}} \union versionIndex))>>

\* Comments, history and notifications; toRequest and toTask are the types of
\* their references to requests and tasks, with or without the targets.
LegacyAudit(toRequest, toTask) ==
    <<CreateTable("comments",
          Legacy({"text", "created_at"},
                 [request_id |-> toRequest, author_id |-> ToUuid("users"),
                  approval_task_id |-> toTask, kind |-> Typed("comment_kind")],
                 {}, Each({"request_id", "author_id", "approval_task_id"}))),
      CreateTable("history_events",
          Legacy({"action", "from_state", "to_state", "comment", "at"},
                 [request_id |-> toRequest, actor_id |-> ToUuid("users")],
                 {}, Each({"request_id", "actor_id"}))),
      CreateTable("notifications",
          Legacy({"text", "read", "created_at"},
                 [recipient_id |-> ToUuid("users"), request_id |-> toRequest,
                  approval_task_id |-> toTask, event_type |-> Typed("notification_event_type")],
                 {}, Each({"recipient_id", "request_id", "approval_task_id"})))>>

Up1(db) ==
    Run(db, [i \in DOMAIN EnumNames |-> CreateType(EnumNames[i], LegacyEnums[EnumNames[i]])]
            \o LegacyIdentity \o LegacyCatalog \o LegacyRouting(ToUuid("roles"))
            \o LegacyRequests(ToUuid("request_types")) \o Snapshots
            \o LegacyTasks({}, [value_version_id |-> ToUuid("field_value_versions")],
                           {{"value_version_id"}})
            \o LegacyAudit(ToUuid("requests"), ToUuid("approval_tasks")))

TablesDropOrder ==
    <<"notifications", "history_events", "comments", "approval_tasks", "field_value_versions",
      "route_instance_assignments", "route_instance_stages", "route_instances",
      "request_field_values", "requests", "stage_assignments", "approval_stages",
      "approval_routes", "request_field_definitions", "dictionary_items", "dictionaries",
      "request_types", "user_roles", "users", "roles">>

DropTables(names) == [i \in DOMAIN names |-> DropTable(names[i])]

Down1(db) ==
    [Run(db, DropTables(TablesDropOrder)
             \o [i \in DOMAIN EnumNames |-> DropType(Reverse(EnumNames)[i])])
        EXCEPT !.rows.users = <<>>, !.rows.types = <<>>]

-----------------------------------------------------------------------------
(* 0002: the creation time of a task.                                      *)

Up2(db)   == Run(db, <<AddColumn("approval_tasks", "created_at", "data")>>)
Down2(db) == Run(db, <<DropColumn("approval_tasks", "created_at")>>)

(* 0003: the runtime rows are wiped and the snapshot tables go.            *)

RuntimeTruncateOrder ==
    {"notifications", "history_events", "comments", "approval_tasks",
     "request_field_values", "requests"}

\* CASCADE empties the tables that refer to these too; filled does not count them.
Truncate(db, tables) == [db EXCEPT !.rows.filled = @ \ tables]

Up3(db) ==
    Run(Truncate(db, RuntimeTruncateOrder),
        <<DropForeignKey("approval_tasks", "value_version_id"),
          DropIndex("approval_tasks", "ix", {"value_version_id"}),
          DropColumn("approval_tasks", "value_version_id")>>
        \o DropTables(<<"route_instance_assignments", "route_instance_stages",
                        "route_instances", "field_value_versions">>))

Down3(db) ==
    Run(CreateTypeIfMissing(db, "assignment_kind", LegacyEnums["assignment_kind"]),
        Snapshots \o
        <<AddColumn("approval_tasks", "value_version_id", "uuid"),
          AddIndex("approval_tasks", "ix", {"value_version_id"}),
          AddForeignKey("approval_tasks", "value_version_id", "field_value_versions")>>)

(* 0004: organisation and process tables; the transitions' role_id waits   *)
(* for integer roles and has no foreign key yet.                           *)

New(data, typed, uniques, indexes) == Table("int", data, typed, uniques, indexes)

OrgTables ==
    <<CreateTable("companies", New({"name", "active"}, <<>>, {}, {})),
      CreateTable("departments",
          New({"name", "active"}, [company_id |-> ToInt("companies")], {}, {{"company_id"}})),
      CreateTable("employees",
          New({"employee_number", "first_name", "last_name", "middle_name", "position", "active"},
              [department_id |-> ToInt("departments"), manager_employee_id |-> ToInt("employees")],
              {{"employee_number"}}, {{"department_id"}, {"manager_employee_id"}}))>>

CodeTable == New({"code", "name", "description", "active"}, <<>>, {{"code"}}, {})

ProcessTables ==
    <<CreateTable("processes", CodeTable),
      CreateTable("statuses", CodeTable),
      CreateTable("actions", CodeTable),
      CreateTable("process_transitions",
          New({"is_active", "sort_order"},
              [process_id   |-> ToInt("processes"), from_status_id |-> ToInt("statuses"),
               action_id    |-> ToInt("actions"),   to_status_id   |-> ToInt("statuses"),
               role_id      |-> Typed("int"), effect |-> Typed("process_transition_effect")],
              {}, Each({"process_id", "from_status_id", "action_id", "to_status_id", "role_id"})))>>

Up4(db) ==
    Run(db, <<CreateType("process_transition_effect", {"status_only", "approve_advance"})>>
            \o OrgTables \o ProcessTables)

\* Mutation: the enum of the transitions is not dropped.
Down4LeavingType(db) ==
    [Run(db, [i \in 1..5 |->
                 DropIndex("process_transitions", "ix",
                           {<<"role_id", "to_status_id", "action_id", "from_status_id",
                              "process_id">>[i]})]
             \o DropTables(<<"process_transitions", "actions", "statuses", "processes">>)
             \o <<DropIndex("employees", "ix", {"manager_employee_id"}),
                  DropIndex("employees", "ix", {"department_id"}), DropTable("employees"),
                  DropIndex("departments", "ix", {"company_id"}), DropTable("departments"),
                  DropTable("companies")>>)
        EXCEPT !.rows.processes = {}, !.rows.statuses = {}]

Down4(db) ==
    [Run(db, [i \in 1..5 |->
                 DropIndex("process_transitions", "ix",
                           {<<"role_id", "to_status_id", "action_id", "from_status_id",
                              "process_id">>[i]})]
             \o DropTables(<<"process_transitions", "actions", "statuses", "processes">>)
             \o <<DropIndex("employees", "ix", {"manager_employee_id"}),
                  DropIndex("employees", "ix", {"department_id"}), DropTable("employees"),
                  DropIndex("departments", "ix", {"company_id"}), DropTable("departments"),
                  DropTable("companies"), DropType("process_transition_effect")>>)
        EXCEPT !.rows.processes = {}, !.rows.statuses = {}]

-----------------------------------------------------------------------------
(* 0005: one integer role per user, an employee per user.                  *)

\* users.role_id takes the first of a user's roles in this order.
Priority == [admin |-> 1, approver |-> 2, employee |-> 3]

\* Mutation: the order is turned round.
LowestRole(roles) == {r \in roles : \A s \in roles : Priority[r] >= Priority[s]}

TopRole(roles) == {r \in roles : \A s \in roles : Priority[r] <= Priority[s]}

\* The move of the users; a user without any role raises RuntimeError.
OneRoleEach(db) ==
    LET users == db.rows.users
    IN  IF \E u \in DOMAIN users : users[u] = {}
        THEN Abort(db)
        ELSE [db EXCEPT !.rows.users = [u \in DOMAIN users |-> TopRole(users[u])]]

\* Dropping stage_assignments.role_id forgets the assigned roles.
ForgetRoles(stage) == {[a EXCEPT !.role = NoRole] : a \in stage}

ForgetAssignedRoles(db) ==
    [db EXCEPT !.rows.types =
        [i \in DOMAIN @ |-> [@[i] EXCEPT !.stages = [n \in DOMAIN @ |-> ForgetRoles(@[n])]]]]

RolesAndUsers ==
    <<CreateTable("roles_new", New({"name"}, [code |-> Typed("role_code")], {{"code"}}, {})),
      AddColumn("users", "role_id", "int"),
      AddColumn("users", "employee_id", "int")>>

AssignmentsToIntRoles ==
    <<DropForeignKey("stage_assignments", "role_id"),
      DropIndex("stage_assignments", "ix", {"role_id"}),
      DropColumn("stage_assignments", "role_id"),
      AddColumn("stage_assignments", "role_id", "int"),
      AddIndex("stage_assignments", "ix", {"role_id"})>>

SwapRoles ==
    <<DropTable("user_roles"), DropTable("roles"),
      RenameTable("roles_new", "roles"),
      RenameIndex("roles", "pk", {"id"}, "roles"),
      RenameIndex("roles", "uq", {"code"}, "roles")>>

FinishUsers ==
    <<AddIndex("users", "ix", {"role_id"}), AddIndex("users", "ix", {"employee_id"}),
      AddIndex("users", "uq", {"employee_id"}),
      AddForeignKey("users", "role_id", "roles"),
      AddForeignKey("users", "employee_id", "employees"),
      DropColumn("users", "full_name"), DropColumn("users", "email"),
      DropColumn("users", "position"), DropColumn("users", "department"),
      AddForeignKey("stage_assignments", "role_id", "roles"),
      AddForeignKey("process_transitions", "role_id", "roles")>>

Up5(db) ==
    Run(ForgetAssignedRoles(OneRoleEach(Run(db, RolesAndUsers))),
        AssignmentsToIntRoles \o SwapRoles \o FinishUsers)

\* The renamed table keeps the names pk_roles and uq_roles_code, which the
\* new table "roles" then asks for.
Down5(db) ==
    Run(db,
        <<DropForeignKey("process_transitions", "role_id"),
          DropForeignKey("stage_assignments", "role_id"),
          AddColumn("users", "full_name", "data"), AddColumn("users", "email", "data"),
          AddColumn("users", "position", "data"), AddColumn("users", "department", "data"),
          DropForeignKey("users", "employee_id"), DropForeignKey("users", "role_id"),
          DropIndex("users", "uq", {"employee_id"}),
          DropIndex("users", "ix", {"employee_id"}), DropIndex("users", "ix", {"role_id"}),
          DropColumn("users", "employee_id"), DropColumn("users", "role_id"),
          RenameTable("roles", "roles_new"),
          CreateTable("roles", Legacy({}, [code |-> Typed("role_code")], {{"code"}}, {})),
          CreateTable("user_roles", UserRoles),
          DropTable("roles_new"),
          DropIndex("stage_assignments", "ix", {"role_id"}),
          DropColumn("stage_assignments", "role_id"),
          AddColumn("stage_assignments", "role_id", "uuid"),
          AddIndex("stage_assignments", "ix", {"role_id"}),
          AddForeignKey("stage_assignments", "role_id", "roles")>>)

-----------------------------------------------------------------------------
(* 0006: catalog and routing are read, dropped, recreated with integer     *)
(* keys and written back; every type gets a code and a process.            *)

EnsureProcess(db) ==
    [db EXCEPT !.rows.processes = IF @ = {} THEN {"employee_requests"} ELSE @]

\* _type_code: the name's slug, or the type's place in the order of names.
TypeCode(types, i) ==
    IF Slug[types[i].name] = "" THEN "type_" \o ToString(i) ELSE Slug[types[i].name]

\* A route without stages does not survive the join of the snapshot.
Reloaded(types) ==
    [i \in DOMAIN types |->
        [types[i] EXCEPT !.code = TypeCode(types, i),
                         !.routed = @ /\ types[i].stages # <<>>]]

\* ASSIGNMENT_KIND_CHECK.
KindMatches(a) ==
    CASE a.kind = "role"          -> a.role # NoRole /\ a.user = NoUser
      [] a.kind = "user"          -> a.user # NoUser /\ a.role = NoRole
      [] a.kind = "role_and_user" -> a.role # NoRole /\ a.user # NoUser

\* The inserts fail on two equal codes and on an assignment that lost its role.  Those
\* of dictionaries, items and fields are not kept: they go back under the constraints
\* they were under before, so they neither fail nor decide what another insert does.
WriteBack(db) ==
    LET types == Reloaded(db.rows.types)
        distinct == \A i, j \in DOMAIN types : types[i].code = types[j].code => i = j
        legal == \A i \in DOMAIN types : \A n \in DOMAIN types[i].stages :
                     \A a \in types[i].stages[n] : KindMatches(a)
    IN  IF distinct /\ legal THEN [db EXCEPT !.rows.types = types] ELSE Abort(db)

CatalogDropOrder ==
    <<"stage_assignments", "approval_stages", "approval_routes", "request_field_definitions",
      "dictionary_items", "dictionaries", "request_types">>

IntCatalog ==
    <<CreateTable("dictionaries", New({"name"}, <<>>, {}, {})),
      CreateTable("dictionary_items",
          New({"code", "name", "active"}, [dictionary_id |-> ToInt("dictionaries")],
              {{"dictionary_id", "code"}}, {})),
      CreateTable("request_types",
          New({"code", "name", "description", "active"}, [process_id |-> ToInt("processes")],
              {{"code"}}, {{"process_id"}})),
      CreateTable("request_field_definitions",
          WithChecks(
              New({"code", "name", "required", "order_no"},
                  [request_type_id |-> ToInt("request_types"),
                   dictionary_id   |-> ToInt("dictionaries"),
                   data_type       |-> Typed("field_data_type")],
                  {{"request_type_id", "code"}}, {{"dictionary_id"}}),
              {{"dictionary_id", "data_type"}}))>>

IntRouting ==
    <<CreateTable("approval_routes",
          New({}, [request_type_id |-> ToInt("request_types")], {{"request_type_id"}}, {})),
      CreateTable("approval_stages",
          New({"name", "sequence_no"}, [route_id |-> ToInt("approval_routes")],
              {{"route_id", "sequence_no"}}, {})),
      CreateTable("stage_assignments",
          WithChecks(
              New({}, [stage_id |-> ToInt("approval_stages"), role_id |-> ToInt("roles"),
                       user_id  |-> ToUuid("users"), assignment_kind |-> Typed("assignment_kind")],
                  {}, Each({"stage_id", "role_id", "user_id"})),
              AssignmentChecks))>>

Up6(db) ==
    LET read  == EnsureProcess(db)
        empty == Run(read, <<DropForeignKey("requests", "request_type_id")>>
                           \o DropTables(CatalogDropOrder))
        typed == CreateTypeIfMissing(
                     CreateTypeIfMissing(empty, "field_data_type", LegacyEnums["field_data_type"]),
                     "assignment_kind", LegacyEnums["assignment_kind"])
    IN  WriteBack(Run(typed, IntCatalog \o IntRouting))

\* Mutation: requests.request_type_id gets no foreign key back.
Down6Detached(db) ==
    [Run(db, DropTables(<<"stage_assignments", "approval_stages", "approval_routes",
                          "request_field_definitions", "request_types", "dictionary_items",
                          "dictionaries">>)
             \o LegacyCatalog \o LegacyRouting(ToInt("roles")))
        EXCEPT !.rows.types = <<>>]

\* Empty tables of the first schema's shape, with the integer role_id of 0005.
Down6(db) ==
    [Run(db, DropTables(<<"stage_assignments", "approval_stages", "approval_routes",
                          "request_field_definitions", "request_types", "dictionary_items",
                          "dictionaries">>)
             \o LegacyCatalog \o LegacyRouting(ToInt("roles"))
             \o <<AddForeignKey("requests", "request_type_id", "request_types")>>)
        EXCEPT !.rows.types = <<>>]

-----------------------------------------------------------------------------
(* 0007: requests, their values and the tasks with integer keys.  Audit    *)
(* and notifications keep uuid references and lose their foreign keys.     *)

EnsureStatuses(db) == [db EXCEPT !.rows.statuses = @ \union RequestStatus]

RequestTables ==
    <<CreateTable("requests",
          New({"created_at", "updated_at"},
              [request_type_id  |-> ToInt("request_types"), initiator_user_id |-> ToUuid("users"),
               status_id        |-> ToInt("statuses"), current_stage_id |-> ToInt("approval_stages")],
              {}, Each({"request_type_id", "initiator_user_id", "status_id", "current_stage_id"}))),
      CreateTable("request_field_values",
          New({"field_code", "value"}, [request_id |-> ToInt("requests")],
              {{"request_id", "field_code"}}, {}))>>

\* Mutation: the index on stage_id is forgotten.
TaskTableLessIndexed ==
    CreateTable("approval_tasks",
        New({"comment", "completed_at", "created_at"},
            [request_id |-> ToInt("requests"), stage_id |-> ToInt("approval_stages"),
             assignee_user_id |-> ToUuid("users"), status |-> Typed("approval_task_status")],
            {}, {{"request_id"}, {"assignee_user_id", "status"}}))

TaskTable ==
    CreateTable("approval_tasks",
        New({"comment", "completed_at", "created_at"},
            [request_id |-> ToInt("requests"), stage_id |-> ToInt("approval_stages"),
             assignee_user_id |-> ToUuid("users"), status |-> Typed("approval_task_status")],
            {}, {{"request_id"}, {"stage_id"}, {"assignee_user_id", "status"}}))

DetachAudit ==
    <<DropForeignKey("comments", "approval_task_id"), DropForeignKey("comments", "request_id"),
      DropForeignKey("history_events", "request_id"),
      DropForeignKey("notifications", "approval_task_id"),
      DropForeignKey("notifications", "request_id")>>

DropRequests == DropTables(<<"approval_tasks", "request_field_values", "requests">>)

Up7(db) ==
    LET empty == Run(EnsureStatuses(db), DetachAudit \o DropRequests)
    IN  Run(CreateTypeIfMissing(empty, "approval_task_status", LegacyEnums["approval_task_status"]),
            Append(RequestTables, TaskTable))

AttachAudit ==
    <<AddForeignKey("comments", "request_id", "requests"),
      AddForeignKey("comments", "approval_task_id", "approval_tasks"),
      AddForeignKey("history_events", "request_id", "requests"),
      AddForeignKey("notifications", "request_id", "requests"),
      AddForeignKey("notifications", "approval_task_id", "approval_tasks")>>

Down7(db) ==
    LET typed == FoldLeft(LAMBDA d, e : CreateTypeIfMissing(d, e, LegacyEnums[e]), db,
                          <<"request_status", "approval_task_status", "approval_decision">>)
    IN  Run(typed, DropRequests \o LegacyRequests(Typed("uuid"))
                   \o LegacyTasks({"created_at"}, <<>>, {}) \o AttachAudit)

-----------------------------------------------------------------------------
(* 0008: comments, history and notifications with integer keys.            *)

EnsureAuditTypes(db) ==
    FoldLeft(LAMBDA d, e : CreateTypeIfMissing(d, e, LegacyEnums[e]), db,
             <<"comment_kind", "notification_event_type">>)

DropAudit == DropTables(<<"notifications", "history_events", "comments">>)

AuditTables ==
    <<CreateTable("comments",
          New({"text", "created_at"},
              [request_id |-> ToInt("requests"), author_id |-> ToUuid("users"),
               approval_task_id |-> ToInt("approval_tasks"), kind |-> Typed("comment_kind")],
              {}, Each({"request_id", "author_id", "approval_task_id"}))),
      CreateTable("history_events",
          New({"action", "from_state", "to_state", "comment", "at"},
              [request_id |-> ToInt("requests"), actor_id |-> ToUuid("users")],
              {}, Each({"request_id", "actor_id"}))),
      CreateTable("notifications",
          New({"text", "read", "created_at"},
              [recipient_id |-> ToUuid("users"), request_id |-> ToInt("requests"),
               approval_task_id |-> ToInt("approval_tasks"),
               event_type |-> Typed("notification_event_type")],
              {}, Each({"recipient_id", "request_id", "approval_task_id"})))>>

Up8(db)   == Run(EnsureAuditTypes(db), DropAudit \o AuditTables)
Down8(db) == Run(EnsureAuditTypes(db), DropAudit \o LegacyAudit(Typed("uuid"), Typed("uuid")))

(* 0009: two enums no column uses any more.                                *)

UnusedEnums == <<"request_status", "approval_decision">>

Up9(db)   == FoldLeft(DropTypeIfPresent, db, UnusedEnums)
Down9(db) == FoldLeft(LAMBDA d, e : CreateTypeIfMissing(d, e, LegacyEnums[e]), db, UnusedEnums)

(* 0010: the event types of the action engine.                             *)

NewValues == {"request_submitted", "request_approved", "request_rejected",
              "request_returned", "request_cancelled"}

\* The event types present; rows of a dropped or truncated table are gone.
Events(db) == IF "notifications" \in db.rows.filled THEN db.rows.events ELSE {}

Up10(db) == Run(db, <<AddLabels("notification_event_type", NewValues)>>)

\* RuntimeError while a notification uses an extended value; else the type is
\* recreated with the two first values.
Down10(db) ==
    IF Events(db) \intersect NewValues # {}
    THEN Abort(db)
    ELSE [db EXCEPT !.enums["notification_event_type"] = {"new_task", "status_change"}]

-----------------------------------------------------------------------------
(* The commands.                                                           *)

UpStep(db, n) ==
    CASE n = 1 -> Up1(db) [] n = 2 -> Up2(db) [] n = 3 -> Up3(db) [] n = 4 -> Up4(db)
      [] n = 5 -> Up5(db) [] n = 6 -> Up6(db) [] n = 7 -> Up7(db) [] n = 8 -> Up8(db)
      [] n = 9 -> Up9(db) [] n = 10 -> Up10(db)

DownStep(db, n) ==
    CASE n = 1 -> Down1(db) [] n = 2 -> Down2(db) [] n = 3 -> Down3(db) [] n = 4 -> Down4(db)
      [] n = 5 -> Down5(db) [] n = 6 -> Down6(db) [] n = 7 -> Down7(db) [] n = 8 -> Down8(db)
      [] n = 9 -> Down9(db) [] n = 10 -> Down10(db)

\* The database after the revisions of a command, one after the other.
Upgraded(db, from, to) ==
    FoldLeft(LAMBDA d, n : IF d.ok THEN UpStep(d, n) ELSE d, db,
             [i \in 1..(to - from) |-> from + i])

Downgraded(db, from, to) ==
    FoldLeft(LAMBDA d, n : IF d.ok THEN DownStep(d, n) ELSE d, db,
             [i \in 1..(from - to) |-> from + 1 - i])

Empty ==
    [ok |-> TRUE, tables |-> <<>>, enums |-> <<>>,
     rows |-> [users |-> <<>>, types |-> <<>>, processes |-> {}, statuses |-> {},
               filled |-> {}, events |-> {}]]

VARIABLES
    db,         \* the database as committed
    revision,   \* alembic_version, committed with it
    command     \* the last command: its kind, where it started, whether it succeeded

vars == <<db, revision, command>>

Init ==
    /\ db = Empty
    /\ revision = 0
    /\ command = [kind |-> "none", from |-> 0, ok |-> TRUE]

\* A command commits all of its revisions or none of them.
Commit(kind, result, to) ==
    /\ db' = IF result.ok THEN result ELSE db
    /\ revision' = IF result.ok THEN to ELSE revision
    /\ command' = [kind |-> kind, from |-> revision, ok |-> result.ok]

Upgrade(to) ==
    /\ revision < to
    /\ Commit("upgrade", Upgraded(db, revision, to), to)

Downgrade(to) ==
    /\ revision > to
    /\ Commit("downgrade", Downgraded(db, revision, to), to)

\* The first application fills the database it was written for.
LegacyUse(data) ==
    /\ revision \in {1, 2}
    /\ db' = [db EXCEPT !.rows.users = data.users, !.rows.types = data.types,
                        !.rows.filled = RuntimeTruncateOrder,
                        !.rows.events = {"new_task"}]
    /\ UNCHANGED <<revision, command>>

\* Today's application files a request and notifies about it.
Serve(event) ==
    /\ revision = HeadRevision
    /\ db.rows.types # <<>>
    /\ event \in db.enums["notification_event_type"]
    /\ db' = [db EXCEPT !.rows.filled = RuntimeTruncateOrder, !.rows.events = Events(db) \union {event}]
    /\ UNCHANGED <<revision, command>>

\* The way out that 0010 names: "Remap or delete those rows first".
Remap ==
    /\ revision = HeadRevision
    /\ Events(db) \intersect NewValues # {}
    /\ db' = [db EXCEPT !.rows.events = (@ \ NewValues) \union {"status_change"}]
    /\ UNCHANGED <<revision, command>>

Next ==
    \/ \E to \in Commands : Upgrade(to) \/ Downgrade(to)
    \/ \E data \in LegacyData : LegacyUse(data)
    \/ \E event \in {"new_task", "request_submitted"} : Serve(event)
    \/ Remap

Spec == Init /\ [][Next]_vars

-----------------------------------------------------------------------------
(* Properties.                                                             *)

\* At the head revision, however it was reached, the tables, foreign keys,
\* checks and indexes are those of the ORM models, the enums have the labels
\* the code uses (but "boolean", which no revision adds to field_data_type),
\* and the rows a first request needs are there: six statuses and a process.
HeadMatchesModels ==
    revision = HeadRevision =>
        /\ db.tables = ModelTables
        /\ DOMAIN db.enums = DOMAIN ModelEnums
        /\ \A e \in DOMAIN ModelEnums : db.enums[e] = ModelEnums[e] \ {"boolean"}
        /\ RequestStatus \subseteq db.rows.statuses
        /\ db.rows.processes # {}

\* What the schema of a revision is, upgraded to from nothing.
FreshAt == [r \in 0..HeadRevision |-> Upgraded(Empty, 0, r)]

\* The checks on assignments vanish with the column in 0005 and come back with
\* the table in 0006's downgrade: revision 5 has two shapes.
Shape(d, r) ==
    IF r = 5 THEN [d.tables EXCEPT !["stage_assignments"].checks = {}] ELSE d.tables

\* The schema depends on the revision alone, not on the upgrades, downgrades
\* and failed commands that led to it: each downgrade undoes its upgrade.
SchemaByRevision ==
    /\ Shape(db, revision) = Shape(FreshAt[revision], revision)
    /\ db.enums = FreshAt[revision].enums

\* What the revisions still ahead ask of the data.
Sound ==
    /\ revision < 5 => \A u \in DOMAIN db.rows.users : db.rows.users[u] # {}
    /\ revision < 6 =>
        /\ \A i \in DOMAIN db.rows.types : \A n \in DOMAIN db.rows.types[i].stages :
               \A a \in db.rows.types[i].stages[n] : a.kind = "user"
        /\ \A i, j \in DOMAIN db.rows.types :
               TypeCode(db.rows.types, i) = TypeCode(db.rows.types, j) => i = j

\* From every reachable database, "alembic upgrade head" succeeds exactly when
\* the data is sound: no failed or partial command ever leaves a schema that
\* the next upgrade trips over.
HeadReachable == Upgraded(db, revision, HeadRevision).ok <=> Sound

AssignedUsers(stage) == {a.user : a \in {b \in stage : b.kind = "user"}}

\* An upgrade loses no configuration: every user keeps exactly one of its
\* roles, none above the ones it had being lost; every type keeps its name,
\* its stages in order and who is assigned to them by name, and a type with
\* stages keeps its route.
ConfigurationSurvives ==
    [][ revision' > revision =>
          /\ DOMAIN db'.rows.users = DOMAIN db.rows.users
          /\ \A u \in DOMAIN db.rows.users :
                 LET had == db.rows.users[u]  has == db'.rows.users[u]
                 IN  /\ has \subseteq had
                     /\ "admin" \in had => "admin" \in has
                     /\ "approver" \in had => has \intersect {"admin", "approver"} # {}
                     /\ revision' >= 5 => Cardinality(has) = 1
          /\ DOMAIN db'.rows.types = DOMAIN db.rows.types
          /\ \A i \in DOMAIN db.rows.types :
                 LET old == db.rows.types[i]  new == db'.rows.types[i]
                 IN  /\ new.name = old.name
                     /\ DOMAIN new.stages = DOMAIN old.stages
                     /\ \A n \in DOMAIN old.stages :
                            AssignedUsers(new.stages[n]) = AssignedUsers(old.stages[n])
                     /\ old.stages # <<>> => new.routed ]_vars

\* The one refusal a downgrade documents is 0010's, over notifications that
\* use its values; every other downgrade describes what it restores.
DowngradeRefusesOnlyEvents ==
    [][ command' # command /\ command'.kind = "downgrade" /\ ~command'.ok
          => Events(db) \intersect NewValues # {} ]_vars
=============================================================================
