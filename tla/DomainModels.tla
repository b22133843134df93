---------------------------- MODULE DomainModels ----------------------------
(***************************************************************************)
(* The tables the application expects: the ORM classes of src/app/domain,  *)
(* in the vocabulary of SchemaChanges.  index=True on a column is an "ix"  *)
(* index, a ForeignKey takes the type of its target's key, and the mixins  *)
(* give every entity an integer id, User a uuid (ADR-ID-01).               *)
(***************************************************************************)
EXTENDS SchemaChanges

Entity(data, typed, uniques, indexes) == Table("int", data, typed, uniques, indexes)

Each(cols) == {{c} : c \in cols}      \* one single-column index per column

Role == Entity({"name"}, [code |-> Typed("role_code")], {{"code"}}, {})

User == Table("uuid", {"login", "password_hash", "is_active"},
              [role_id |-> ToInt("roles"), employee_id |-> ToInt("employees")],
              {{"login"}, {"employee_id"}}, Each({"role_id", "employee_id"}))

Company == Entity({"name", "active"}, <<>>, {}, {})

Department == Entity({"name", "active"}, [company_id |-> ToInt("companies")],
                     {}, Each({"company_id"}))

Employee ==
    Entity({"employee_number", "first_name", "last_name", "middle_name", "position", "active"},
           [department_id |-> ToInt("departments"), manager_employee_id |-> ToInt("employees")],
           {{"employee_number"}}, Each({"department_id", "manager_employee_id"}))

Named == Entity({"code", "name", "description", "active"}, <<>>, {{"code"}}, {})
Process == Named
Status  == Named
Action  == Named

ProcessTransition ==
    LET refs == [process_id     |-> ToInt("processes"), from_status_id |-> ToInt("statuses"),
                 action_id      |-> ToInt("actions"),   to_status_id   |-> ToInt("statuses"),
                 role_id        |-> ToInt("roles")]
    IN  Entity({"is_active", "sort_order"},
               refs @@ [effect |-> Typed("process_transition_effect")], {}, Each(DOMAIN refs))

Dictionary == Entity({"name"}, <<>>, {}, {})

DictionaryItem == Entity({"code", "name", "active"}, [dictionary_id |-> ToInt("dictionaries")],
                         {{"dictionary_id", "code"}}, {})

RequestType == Entity({"code", "name", "description", "active"},
                      [process_id |-> ToInt("processes")], {{"code"}}, Each({"process_id"}))

RequestFieldDefinition ==
    WithChecks(
        Entity({"code", "name", "required", "order_no"},
               [request_type_id |-> ToInt("request_types"), dictionary_id |-> ToInt("dictionaries"),
                data_type |-> Typed("field_data_type")],
               {{"request_type_id", "code"}}, Each({"dictionary_id"})),
        {{"dictionary_id", "data_type"}})

ApprovalRoute == Entity({}, [request_type_id |-> ToInt("request_types")], {{"request_type_id"}}, {})

ApprovalStage == Entity({"name", "sequence_no"}, [route_id |-> ToInt("approval_routes")],
                        {{"route_id", "sequence_no"}}, {})

StageAssignment ==
    LET refs == [stage_id |-> ToInt("approval_stages"), role_id |-> ToInt("roles"),
                 user_id  |-> ToUuid("users")]
    IN  WithChecks(Entity({}, refs @@ [assignment_kind |-> Typed("assignment_kind")],
                          {}, Each(DOMAIN refs)),
                   {{"role_id", "user_id"}, {"assignment_kind", "role_id", "user_id"}})

Request ==
    LET refs == [request_type_id   |-> ToInt("request_types"), status_id |-> ToInt("statuses"),
                 initiator_user_id |-> ToUuid("users"),
                 current_stage_id  |-> ToInt("approval_stages")]
    IN  Entity({"created_at", "updated_at"}, refs, {}, Each(DOMAIN refs))

RequestFieldValue == Entity({"field_code", "value"}, [request_id |-> ToInt("requests")],
                            {{"request_id", "field_code"}}, {})

ApprovalTask ==
    Entity({"comment", "completed_at", "created_at"},
           [request_id |-> ToInt("requests"), stage_id |-> ToInt("approval_stages"),
            assignee_user_id |-> ToUuid("users"), status |-> Typed("approval_task_status")],
           {}, Each({"request_id", "stage_id"}) \union {{"assignee_user_id", "status"}})

Comment ==
    LET refs == [request_id |-> ToInt("requests"), author_id |-> ToUuid("users"),
                 approval_task_id |-> ToInt("approval_tasks")]
    IN  Entity({"text", "created_at"}, refs @@ [kind |-> Typed("comment_kind")],
               {}, Each(DOMAIN refs))

HistoryEvent ==
    LET refs == [request_id |-> ToInt("requests"), actor_id |-> ToUuid("users")]
    IN  Entity({"action", "from_state", "to_state", "comment", "at"}, refs, {}, Each(DOMAIN refs))

Notification ==
    LET refs == [recipient_id |-> ToUuid("users"), request_id |-> ToInt("requests"),
                 approval_task_id |-> ToInt("approval_tasks")]
    IN  Entity({"text", "read", "created_at"},
               refs @@ [event_type |-> Typed("notification_event_type")], {}, Each(DOMAIN refs))

-----------------------------------------------------------------------------
(* Base.metadata: every class under its __tablename__.                     *)

Models ==
    [roles |-> Role, users |-> User, companies |-> Company, departments |-> Department,
     employees |-> Employee, processes |-> Process, statuses |-> Status, actions |-> Action,
     process_transitions |-> ProcessTransition, dictionaries |-> Dictionary,
     dictionary_items |-> DictionaryItem, request_types |-> RequestType,
     request_field_definitions |-> RequestFieldDefinition, approval_routes |-> ApprovalRoute,
     approval_stages |-> ApprovalStage, stage_assignments |-> StageAssignment,
     requests |-> Request, request_field_values |-> RequestFieldValue,
     approval_tasks |-> ApprovalTask, comments |-> Comment, history_events |-> HistoryEvent,
     notifications |-> Notification]

ModelTables == [t \in DOMAIN Models |-> Stored(t, Models[t])]

\* The closed enumerations bound to PostgreSQL types.
ModelEnums ==
    [role_code            |-> {"employee", "approver", "admin"},
     field_data_type      |-> {"text", "date", "number", "catalog", "boolean"},
     assignment_kind      |-> {"role", "user", "role_and_user"},
     approval_task_status |-> {"open", "completed", "cancelled"},
     comment_kind         |-> {"free", "decision"},
     notification_event_type |->
         {"new_task", "status_change", "request_submitted", "request_approved",
          "request_rejected", "request_returned", "request_cancelled"},
     process_transition_effect |-> {"status_only", "approve_advance"}]

RequestStatus == {"draft", "in_approval", "returned", "approved", "rejected", "cancelled"}
=============================================================================
