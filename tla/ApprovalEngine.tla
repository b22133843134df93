--------------------------- MODULE ApprovalEngine ---------------------------
(***************************************************************************)
(* The request lifecycle of the Employee Service: creation and editing of  *)
(* requests (app/services/request_service.py) and the Action Engine        *)
(* (app/services/action_engine.py), which executes configured actions      *)
(* against the live process and route configuration.                       *)
(*                                                                         *)
(* Granularity.  execute_action holds the row lock of its request from     *)
(* _lock_request to its commit, so one execution is one step; a failed one *)
(* rolls back and changes nothing.  update_working_values takes no lock    *)
(* before it checks the status, so a PATCH is two steps, PatchRead and     *)
(* PatchCommit, between which anything may happen.                         *)
(*                                                                         *)
(* One request type, hence one route and one process.  A stage is named by *)
(* its id and placed by its number, which may change; a batch is one       *)
(* committed call of _create_tasks_for_stage, and a task is named by       *)
(* <<batch, assignee>>.                                                    *)
(***************************************************************************)
EXTENDS Naturals, Sequences, FiniteSets

CONSTANTS
  Users, Requests,
  ActionCodes, \* actions.code
  Fields,      \* field codes of the request type
  Vals,        \* canonical field values
  Null,        \* a stored value that is SQL NULL
  NoRow,       \* no request_field_values row
  Workers,     \* threads that serve PATCH calls
  NoPatch,     \* the worker serves none
  Configs,     \* the live configurations the tables may hold
  MaxEvents    \* bound: history length beyond which initiators stop acting

RoleCodes == {"employee", "approver", "admin"}
Statuses == {"draft", "in_approval", "returned", "approved", "rejected", "cancelled"}
NoRequest == "none"       \* the requests row does not exist yet
NoStage == 0              \* current_stage_id IS NULL
NoTask == <<0, "none">>   \* approval_task_id IS NULL
Stages == Nat \ {0}

Assignments ==
  [kind: {"user"}, user: Users] \cup [kind: {"role"}, role: RoleCodes]
    \cup [kind: {"role_and_user"}, role: RoleCodes, user: Users]

\* process_transitions rows that are active and whose action is active.
Transitions ==
  [from: Statuses, action: ActionCodes, role: RoleCodes, to: Statuses,
   effect: {"status_only", "approve_advance"}, sort: Nat]

(* What the engine relies on in a transition matrix: a request leaves       *)
(* in_approval only through an effect that closes the open tasks, and a     *)
(* final approval does not end in a status that keeps its stage.            *)
WellFormedMatrix(T) ==
  \A t \in T :
    /\ t.from = "in_approval" =>
         t.effect = "approve_advance" \/ t.to \in {"rejected", "returned"}
    /\ t.effect = "approve_advance" =>
         t.to \notin {"in_approval", "rejected", "returned"}

IsConfig(c) ==
  /\ c.stages \subseteq Stages /\ IsFiniteSet(c.stages)
  /\ \A s \in c.stages : c.number[s] \in Nat /\ c.assigned[s] \subseteq Assignments
  /\ \A s, x \in c.stages : c.number[s] = c.number[x] => s = x
  /\ c.typeActive \in BOOLEAN
  /\ c.role \in [Users -> RoleCodes]
  /\ c.activeUsers \subseteq Users
  /\ c.required \subseteq Fields
  /\ \A f \in Fields : c.accepts[f] \subseteq Vals
  /\ c.transitions \subseteq Transitions
  /\ WellFormedMatrix(c.transitions)

ASSUME ActionsAssumption == "update_values" \notin ActionCodes
ASSUME ConfigsAssumption == \A c \in Configs : IsConfig(c)
ASSUME BoundsAssumption == MaxEvents \in Nat
ASSUME NullsAssumption ==
  /\ NoRow # Null
  /\ NoRow \notin Vals
  /\ Null \notin Vals
  /\ Null \notin Users

VARIABLES
  config,     \* the live configuration rows
  status,     \* requests.status_id
  stage,      \* requests.current_stage_id
  initiator,  \* requests.initiator_user_id
  values,     \* request_field_values
  tasks,      \* approval_tasks of a request
  batch,      \* number of batches of tasks created for a request
  history,    \* history_events of a request, in commit order
  comments,   \* comments of kind decision
  notes,      \* notifications
  patch       \* the PATCH a worker has read for and not yet committed

requestVars == <<status, stage, initiator, values, tasks, batch, history, comments, notes>>
vars == <<config, requestVars, patch>>

Cells == Vals \cup {Null, NoRow}
Writes == UNION {[D -> Vals \cup {Null}] : D \in SUBSET Fields}
TaskStatuses == {"open", "completed", "cancelled"}
TaskKeys == (Nat \X Users) \cup {NoTask}
Tasks == [batch: Nat, stage: Stages, assignee: Users, status: TaskStatuses]
Events ==
  [actor: Users, action: ActionCodes \cup {"create", "update_values"},
   from: Statuses \cup {NoRequest}, to: Statuses]
Patches ==
  [user: Users, req: Requests, seen: Statuses, loaded: [Fields -> Cells], write: Writes]
-----------------------------------------------------------------------------
(* Reading the live configuration.                                         *)

\* The active transitions for a role, the lowest sort_order first.
FindTransition(role, r, a) ==
  LET Matching == {t \in config.transitions :
                     t.from = status[r] /\ t.action = a /\ t.role = role}
  IN  {t \in Matching : \A x \in Matching : t.sort <= x.sort}

\* Mutation: the users of a role are not asked where a user is named.
ResolveNamedFirst(s) ==
  {u \in Users :
    \E a \in config.assigned[s] :
      \/ a.kind \in {"user", "role_and_user"} /\ a.user = u
      \/ /\ \A x \in config.assigned[s] : x.kind = "role"
         /\ a.role = config.role[u] /\ u \in config.activeUsers}

\* ROLE names the active users of a role; the other kinds name their user,
\* whether it is active or not and whatever its role.
ResolveAssignees(s) ==
  {u \in Users :
    \E a \in config.assigned[s] :
      \/ a.kind \in {"user", "role_and_user"} /\ a.user = u
      \/ a.kind = "role" /\ a.role = config.role[u] /\ u \in config.activeUsers}

\* Mutation: the stages are not sorted.
AnyStage == config.stages

\* By the numbers the stages have now.
Precedes(s, x) == config.number[s] < config.number[x]

FirstStages == {s \in config.stages : \A x \in config.stages : ~Precedes(x, s)}
Later(s) == {x \in config.stages : Precedes(s, x)}
NextStages(s) == {x \in Later(s) : \A y \in Later(s) : ~Precedes(y, x)}

ValidateSubmit(r) ==
  /\ config.typeActive
  /\ \A f \in Fields :
       \/ values[r][f] \in {NoRow, Null} /\ f \notin config.required
       \/ values[r][f] \in config.accepts[f]

\* Present values are checked against the live definitions; blank ones are not.
Acceptable(write) ==
  \A f \in DOMAIN write : write[f] = Null \/ write[f] \in config.accepts[f]
-----------------------------------------------------------------------------
(* Tasks.                                                                  *)

Key(t) == <<t.batch, t.assignee>>

\* Mutation: the assignee is not compared.
OpenTasksOfAnyone(u, r) == {t \in tasks[r] : t.stage = stage[r] /\ t.status = "open"}

\* The user's open task on the current stage, the oldest first.
OpenTasksOf(u, r) ==
  {t \in tasks[r] : t.stage = stage[r] /\ t.assignee = u /\ t.status = "open"}
RequireOpenTask(u, r) ==
  {t \in OpenTasksOf(u, r) : \A x \in OpenTasksOf(u, r) : t.batch <= x.batch}

\* Mutations: a wrong status, siblings left open, siblings of any status cancelled.
ClosedAsDone(x, t) == IF x = t THEN [x EXCEPT !.status = "done"] ELSE x
ClosedAlone(x, t) == IF x = t THEN [x EXCEPT !.status = "completed"] ELSE x
ClosedAgain(x, t) ==
  IF x = t THEN [x EXCEPT !.status = "completed"]
  ELSE IF x.stage = t.stage THEN [x EXCEPT !.status = "cancelled"] ELSE x

Closed(x, t) ==
  IF x = t THEN [x EXCEPT !.status = "completed"]
  ELSE IF x.stage = t.stage /\ x.status = "open"
       THEN [x EXCEPT !.status = "cancelled"] ELSE x

\* Complete the actor's task and cancel its open siblings on the stage.
CloseStage(r, t) == {Closed(x, t) : x \in tasks[r]}

CreateTasks(r, s) ==
  [batch: {batch[r] + 1}, stage: {s}, assignee: ResolveAssignees(s), status: {"open"}]
-----------------------------------------------------------------------------
(* What every successful action writes in its transaction.                 *)

\* Mutation: an approval is reported to the initiator only.
TargetsOfOutcome(r, a, closed, created) ==
  CASE a = "submit" -> {<<t.assignee, Key(t)>> : t \in created}
    [] a \in {"approve", "reject", "return"} -> {<<initiator[r], closed>>}
    [] a = "cancel" -> {<<initiator[r], NoTask>>}
    [] OTHER -> {}

\* Recipients with the task their notification refers to.
Targets(r, a, closed, created) ==
  CASE a = "submit" \/ (a = "approve" /\ created # {}) -> {<<t.assignee, Key(t)>> : t \in created}
    [] a \in {"reject", "return"} \/ (a = "approve" /\ created = {}) -> {<<initiator[r], closed>>}
    [] a = "cancel" -> {<<initiator[r], NoTask>>}
    [] OTHER -> {}

Event(u, a, from, to) == [actor |-> u, action |-> a, from |-> from, to |-> to]

\* Mutations: from_state is read after the change; a step within a status is not recorded.
RecordLate(u, r, a, to, closed, created) ==
  /\ history' = [history EXCEPT ![r] = Append(@, Event(u, a, to, to))]
  /\ UNCHANGED notes
RecordChanges(u, r, a, to, closed, created) ==
  /\ history' = [history EXCEPT ![r] =
       IF to = status[r] THEN @ ELSE Append(@, Event(u, a, status[r], to))]
  /\ UNCHANGED notes

\* The history event and the notifications of an executed action.
RecordFrom(from, u, r, a, to, closed, created) ==
  /\ history' = [history EXCEPT ![r] = Append(@, Event(u, a, from, to))]
  /\ notes' = [notes EXCEPT ![r] = @ \cup
       {[ev |-> Len(history[r]) + 1, to |-> n[1], task |-> n[2]] :
          n \in Targets(r, a, closed, created)}]
Record(u, r, a, to, closed, created) == RecordFrom(status[r], u, r, a, to, closed, created)

\* Mutation: current_stage_id is not cleared.
SetRequestKeepingStage(r, to, s) ==
  /\ status' = [status EXCEPT ![r] = to]
  /\ stage' = [stage EXCEPT ![r] = IF s = NoStage THEN @ ELSE s]

SetRequest(r, to, s) ==
  /\ status' = [status EXCEPT ![r] = to]
  /\ stage' = [stage EXCEPT ![r] = s]

\* Mutation: the new tasks are not added to the session.
SetTasksClosedOnly(r, new, created) ==
  /\ tasks' = [tasks EXCEPT ![r] = new]
  /\ batch' = [batch EXCEPT ![r] = IF created = {} THEN @ ELSE @ + 1]

SetTasks(r, new, created) ==
  /\ tasks' = [tasks EXCEPT ![r] = new \cup created]
  /\ batch' = [batch EXCEPT ![r] = IF created = {} THEN @ ELSE @ + 1]
-----------------------------------------------------------------------------
(* Requests before submission: create_draft, update_working_values.        *)

\* Bound: an initiator stops acting on a request with MaxEvents events.
Fresh(r) == Len(history[r]) < MaxEvents

Create(u, r, write) ==
  /\ status[r] = NoRequest
  /\ config.role[u] = "employee"
  /\ config.typeActive
  /\ Acceptable(write)
  /\ SetRequest(r, "draft", NoStage)
  /\ initiator' = [initiator EXCEPT ![r] = u]
  /\ values' = [values EXCEPT ![r] =
       [f \in Fields |-> IF f \in DOMAIN write THEN write[f] ELSE NoRow]]
  /\ history' = [history EXCEPT ![r] = Append(@, Event(u, "create", NoRequest, "draft"))]
  /\ UNCHANGED <<config, tasks, batch, comments, notes, patch>>

Editable == {"draft", "returned"}

\* The ownership and status checks, and the rows as this session loads them.
PatchRead(w, u, r, write) ==
  /\ patch[w] = NoPatch
  /\ DOMAIN write # {}
  /\ config.role[u] = "employee"
  /\ initiator[r] = u
  /\ status[r] \in Editable
  /\ Fresh(r)
  /\ Acceptable(write)
  /\ patch' = [patch EXCEPT ![w] =
       [user |-> u, req |-> r, seen |-> status[r], loaded |-> values[r], write |-> write]]
  /\ UNCHANGED <<config, requestVars>>

\* The flush updates a row only where the value differs from the loaded one.
Dirty(p) == {f \in DOMAIN p.write : p.write[f] # p.loaded[f]}

\* Mutations: a full replace by the loaded card; only missing rows are written.
ReplacedBy(p, current) ==
  [f \in Fields |-> IF f \in DOMAIN p.write THEN p.write[f] ELSE p.loaded[f]]
InsertedBy(p, current) ==
  [f \in Fields |-> IF f \in Dirty(p) /\ p.loaded[f] = NoRow THEN p.write[f] ELSE current[f]]

\* The fields of the request once the patch is flushed.
UpsertedBy(p, current) == [f \in Fields |-> IF f \in Dirty(p) THEN p.write[f] ELSE current[f]]

\* The status is not checked again, and an INSERT needs the row to be missing still.
PatchCommit(w) ==
  LET p == patch[w] IN
  /\ p # NoPatch
  /\ \A f \in DOMAIN p.write : p.loaded[f] = NoRow => values[p.req][f] = NoRow
  /\ values' = [values EXCEPT ![p.req] = UpsertedBy(p, @)]
  /\ history' = [history EXCEPT ![p.req] =
       Append(@, Event(p.user, "update_values", p.seen, p.seen))]
  /\ patch' = [patch EXCEPT ![w] = NoPatch]
  /\ UNCHANGED <<config, status, stage, initiator, tasks, batch, comments, notes>>

\* The unique key of request_field_values, or the death of the process.
PatchRollback(w) ==
  /\ patch[w] # NoPatch
  /\ patch' = [patch EXCEPT ![w] = NoPatch]
  /\ UNCHANGED <<config, requestVars>>
-----------------------------------------------------------------------------
(* execute_action: each disjunct is one successful execution of the         *)
(* transition t by u; every refused one rolls back and changes nothing.     *)

\* Mutation: the check is missing.
AnyApproval(u, r) == TRUE

NotSelfApproval(u, r) == initiator[r] # u

\* Employees act on their own requests; then the live matrix decides.  The role
\* is the one the session loaded with the user.
MayExecute(u, role, r, t) ==
  /\ status[r] # NoRequest
  /\ role = "employee" => initiator[r] = u
  /\ t \in FindTransition(role, r, t.action)

Submit(u, role, r, t) ==
  /\ MayExecute(u, role, r, t)
  /\ t.effect = "status_only" /\ t.to = "in_approval"
  /\ Fresh(r)
  /\ ValidateSubmit(r)
  /\ \E s \in FirstStages :
       LET created == CreateTasks(r, s) IN
       /\ created # {}
       /\ SetRequest(r, t.to, s)
       /\ SetTasks(r, tasks[r], created)
       /\ Record(u, r, t.action, t.to, NoTask, created)
  /\ UNCHANGED <<config, initiator, values, comments, patch>>

\* approve_advance with a stage to follow: the transition's to_status waits.
ApproveNext(u, role, r, t) ==
  /\ MayExecute(u, role, r, t)
  /\ t.effect = "approve_advance"
  /\ NotSelfApproval(u, r)
  /\ \E x \in RequireOpenTask(u, r) : \E s \in NextStages(x.stage) :
       LET created == CreateTasks(r, s) IN
       /\ created # {}
       /\ SetRequest(r, "in_approval", s)
       /\ SetTasks(r, CloseStage(r, x), created)
       /\ Record(u, r, t.action, "in_approval", Key(x), created)
  /\ UNCHANGED <<config, initiator, values, comments, patch>>

ApproveFinal(u, role, r, t) ==
  /\ MayExecute(u, role, r, t)
  /\ t.effect = "approve_advance"
  /\ NotSelfApproval(u, r)
  /\ \E x \in RequireOpenTask(u, r) :
       /\ NextStages(x.stage) = {}
       /\ SetRequest(r, t.to, NoStage)
       /\ SetTasks(r, CloseStage(r, x), {})
       /\ Record(u, r, t.action, t.to, Key(x), {})
  /\ UNCHANGED <<config, initiator, values, comments, patch>>

\* Reject and return, called with a comment; the stage is kept.
Decide(u, role, r, t) ==
  /\ MayExecute(u, role, r, t)
  /\ t.effect = "status_only" /\ t.to \in {"rejected", "returned"}
  /\ NotSelfApproval(u, r)
  /\ \E x \in RequireOpenTask(u, r) :
       /\ SetRequest(r, t.to, stage[r])
       /\ SetTasks(r, CloseStage(r, x), {})
       /\ comments' = [comments EXCEPT ![r] = @ \cup
            {[ev |-> Len(history[r]) + 1, author |-> u, task |-> Key(x)]}]
       /\ Record(u, r, t.action, t.to, Key(x), {})
  /\ UNCHANGED <<config, initiator, values, patch>>

\* Cancel, and the generic status_only fallback: only the request row changes.
Leave(u, role, r, t) ==
  /\ MayExecute(u, role, r, t)
  /\ t.effect = "status_only" /\ t.to \in {"cancelled", "draft", "approved"}
  /\ Fresh(r)
  /\ SetRequest(r, t.to, NoStage)
  /\ Record(u, r, t.action, t.to, NoTask, {})
  /\ UNCHANGED <<config, initiator, values, tasks, batch, comments, patch>>

Execute(u, role, r, t) ==
  \/ Submit(u, role, r, t)
  \/ ApproveNext(u, role, r, t)
  \/ ApproveFinal(u, role, r, t)
  \/ Decide(u, role, r, t)
  \/ Leave(u, role, r, t)
-----------------------------------------------------------------------------
\* Stages that a request or a task refers to cannot be deleted.
Referenced == {stage[r] : r \in Requests} \cup UNION {{t.stage : t \in tasks[r]} : r \in Requests}

\* The administration of the live tables, outside the service.
\* Bound: the stages keep their numbers once a request has MaxEvents events.
Reconfigure(c) ==
  /\ c # config
  /\ Referenced \ {NoStage} \subseteq c.stages
  /\ c.number = config.number \/ \A r \in Requests : Fresh(r)
  /\ config' = c
  /\ UNCHANGED <<requestVars, patch>>

Init ==
  /\ config \in Configs
  /\ status = [r \in Requests |-> NoRequest]
  /\ stage = [r \in Requests |-> NoStage]
  /\ initiator = [r \in Requests |-> Null]
  /\ values = [r \in Requests |-> [f \in Fields |-> NoRow]]
  /\ tasks = [r \in Requests |-> {}]
  /\ batch = [r \in Requests |-> 0]
  /\ history = [r \in Requests |-> <<>>]
  /\ comments = [r \in Requests |-> {}]
  /\ notes = [r \in Requests |-> {}]
  /\ patch = [w \in Workers |-> NoPatch]

\* The service's own steps.
Serve ==
  \/ \E u \in Users, r \in Requests :
       \/ \E write \in Writes : Create(u, r, write)
       \/ \E w \in Workers, write \in Writes : PatchRead(w, u, r, write)
       \/ \E t \in config.transitions : Execute(u, config.role[u], r, t)
  \/ \E w \in Workers : PatchCommit(w) \/ PatchRollback(w)

Next == Serve \/ \E c \in Configs : Reconfigure(c)

Spec == Init /\ [][Next]_vars

\* The configuration is whatever it is, and stays so.
StableSpec == Init /\ [][Serve]_vars
-----------------------------------------------------------------------------
(* Properties.                                                             *)

\* Every row has the shape of its table.
TypeOK ==
  /\ config \in Configs
  /\ status \in [Requests -> Statuses \cup {NoRequest}]
  /\ stage \in [Requests -> Stages \cup {NoStage}]
  /\ initiator \in [Requests -> Users \cup {Null}]
  /\ values \in [Requests -> [Fields -> Cells]]
  /\ tasks \in [Requests -> SUBSET Tasks]
  /\ batch \in [Requests -> Nat]
  /\ history \in [Requests -> Seq(Events)]
  /\ comments \in [Requests -> SUBSET [ev: Nat, author: Users, task: TaskKeys]]
  /\ notes \in [Requests -> SUBSET [ev: Nat, to: Users, task: TaskKeys]]
  /\ patch \in [Workers -> Patches \cup {NoPatch}]
  /\ \A r \in Requests : status[r] # NoRequest => initiator[r] \in Users

\* NFR-REL-03: an open task belongs to a request in approval, to its current
\* stage and to the latest batch, and bears a number the request has reached.
OpenTasksAtCurrentStage ==
  \A r \in Requests : \A t \in tasks[r] :
    /\ t.batch <= batch[r]
    /\ t.status = "open" =>
         status[r] = "in_approval" /\ t.stage = stage[r] /\ t.batch = batch[r]

\* A request in approval always has an open task: no execution ends between
\* two stages with nobody to decide.
InApprovalHasOpenTask ==
  \A r \in Requests :
    status[r] = "in_approval" => \E t \in tasks[r] : t.status = "open"

\* BR-05: the stage is set exactly while the request is in approval or was
\* sent back or rejected from it.
StagePresence ==
  \A r \in Requests : stage[r] # NoStage <=> status[r] \in {"in_approval", "returned", "rejected"}

\* The events that decided an approval, and the how many-th such event i is.
DecisionEvents(r) == {i \in DOMAIN history[r] : history[r][i].from = "in_approval"}
Nth(r, i) == Cardinality({j \in DecisionEvents(r) : j <= i})

BatchOf(r, b) == {t \in tasks[r] : t.batch = b}
DecidedBy(r, b, u) ==
  /\ \A t \in BatchOf(r, b) : t.status = IF t.assignee = u THEN "completed" ELSE "cancelled"
  /\ \E t \in BatchOf(r, b) : t.assignee = u

\* BR-03, BR-15: the k-th decision in the history closed the k-th batch: its
\* actor holds the one completed task, every other task was cancelled, and only
\* the batch of a request still in approval is undecided.
BatchesDecided(r) ==
  /\ Cardinality(DecisionEvents(r)) = IF status[r] = "in_approval" THEN batch[r] - 1 ELSE batch[r]
  /\ \A i \in DecisionEvents(r) : DecidedBy(r, Nth(r, i), history[r][i].actor)
DecisionsCloseBatches == \A r \in Requests : BatchesDecided(r)

\* BR-21, also when the initiator has become an approver since: nobody
\* completes a task of a request of their own.
NoSelfApproval ==
  \A r \in Requests : \A t \in tasks[r] : t.status = "completed" => t.assignee # initiator[r]

Moves(r) == {i \in DOMAIN history[r] : history[r][i].action # "update_values"}

\* The events other than edits chain from the creation to the current status.
Explained(r) ==
  /\ Moves(r) # {}
  /\ \A j \in Moves(r) :
       /\ (\A i \in Moves(r) : j <= i) => history[r][j].from = NoRequest
       /\ (\A i \in Moves(r) : i <= j) => history[r][j].to = status[r]
       /\ \A i \in Moves(r) :
            i < j /\ (\A k \in Moves(r) : k <= i \/ j <= k) =>
              history[r][j].from = history[r][i].to
HistoryExplainsStatus == \A r \in Requests : status[r] # NoRequest => Explained(r)

\* BR-25: the decision comments are those of the rejections and returns, each by
\* the actor and on the task that the actor completed.
Commented(r) ==
  /\ {c.ev : c \in comments[r]} =
       {i \in DOMAIN history[r] : history[r][i].action \in {"reject", "return"}}
  /\ \A c \in comments[r] :
       /\ c.author = history[r][c.ev].actor
       /\ \E t \in tasks[r] : Key(t) = c.task /\ t.assignee = c.author /\ t.status = "completed"
DecisionsCommented == \A r \in Requests : Commented(r)

\* BR-29: each task was announced once to its assignee, and each event that ends
\* or sends back an approval was reported to the initiator.
Notified(r) ==
  /\ \A t \in tasks[r] : \E n \in notes[r] : n.to = t.assignee /\ n.task = Key(t)
  /\ \A i \in DOMAIN history[r] :
       history[r][i].from = "in_approval" /\ history[r][i].to # "in_approval" =>
         \E n \in notes[r] : n.ev = i /\ n.to = initiator[r]
  /\ \A m, n \in notes[r] : m.to = n.to /\ m.task = n.task /\ m.task # NoTask => m = n
EveryoneNotified == \A r \in Requests : Notified(r)

\* The actions are named as in TRANSITION_SPECS: the properties of comments and of
\* notifications, which the code chooses by the action's code, are about such rows.
NamedActions ==
  \A c \in Configs : \A t \in c.transitions :
    /\ t.effect = "approve_advance" => t.action = "approve"
    /\ t.to = "in_approval" => t.action = "submit"
    /\ t.action \in {"reject", "return"} <=>
         t.effect = "status_only" /\ t.to \in {"rejected", "returned"}

\* Only the approve action approves, as in TRANSITION_SPECS: an approval by a
\* status_only row asks nobody.
OnlyAdvanceApproves ==
  \A c \in Configs : \A t \in c.transitions : t.to = "approved" => t.effect = "approve_advance"

\* The roles are those of TRANSITION_SPECS: what approvers do takes a task.
ApproversDecide ==
  \A c \in Configs : \A t \in c.transitions :
    /\ t.role # "admin"
    /\ t.role = "approver" => t.effect = "approve_advance" \/ t.to \in {"rejected", "returned"}

\* Under a configuration that stays, an approved request was approved at every
\* stage, in order, since it was last submitted.
ApprovedByEveryStage ==
  \A r \in Requests :
    status[r] = "approved" =>
      \A s \in config.stages : \E t \in tasks[r] :
        /\ t.stage = s /\ t.status = "completed"
        /\ batch[r] - t.batch = Cardinality(Later(s))

\* The stage is assigned to an active approver, by name or by role, whoever else
\* it is assigned to.
Staffed(s) ==
  \E a \in config.assigned[s], u \in config.activeUsers :
    /\ config.role[u] = "approver"
    /\ IF a.kind = "role" THEN a.role = "approver" ELSE a.user = u

\* Under a configuration that stays, a request that waits at a staffed stage can be
\* decided: an active approver other than the initiator has an open task.
Decidable ==
  \A r \in Requests :
    status[r] = "in_approval" /\ Staffed(stage[r]) =>
      \E u \in config.activeUsers :
        config.role[u] = "approver" /\ NotSelfApproval(u, r) /\ RequireOpenTask(u, r) # {}

\* NFR-REL-02: a closed task is never changed, and no task disappears.
TasksKept(r) ==
  \A t \in tasks[r] :
    IF t.status = "open" THEN \E x \in tasks'[r] : Key(x) = Key(t) ELSE t \in tasks'[r]
AllTasksKept == \A r \in Requests : TasksKept(r)
ClosedTasksStay == [][AllTasksKept]_vars

\* NFR-REL-01: whatever changes of a request in a step, exactly one event is
\* appended with it, from the status before to the status after, and by the
\* user whose task was completed if one was.
ChangeRecorded(r) ==
  (<<status[r], stage[r], tasks[r]>> # <<status'[r], stage'[r], tasks'[r]>>) =>
    \E ev \in Events :
      /\ history'[r] = Append(history[r], ev)
      /\ ev.from = status[r] /\ ev.to = status'[r]
      /\ \A t \in tasks'[r] \ tasks[r] : t.status = "completed" => t.assignee = ev.actor
AllChangesRecorded == \A r \in Requests : ChangeRecorded(r)
ChangesAreRecorded == [][AllChangesRecorded]_vars

\* What GET available-actions would have offered: can_view_request, then the matrix.
CanView(u, r) ==
  CASE config.role[u] = "employee" -> initiator[r] = u
    [] config.role[u] = "approver" -> \E t \in tasks[r] : t.assignee = u
    [] OTHER -> FALSE

\* Whoever executes an action could see the request it was executed on.
Visible(r) ==
  status[r] # NoRequest =>
    \A ev \in Events :
      history'[r] = Append(history[r], ev) /\ ev.action \in ActionCodes => CanView(ev.actor, r)
ExecutedWasVisible == [][\A r \in Requests : Visible(r)]_vars

\* The PATCH that the worker serves ends and leaves something behind.
Commits(w) ==
  /\ patch[w] # NoPatch /\ patch'[w] = NoPatch
  /\ LET r == patch[w].req IN values'[r] # values[r] \/ history'[r] # history[r]

\* update_working_values, "Fields omitted from the payload are intentionally left
\* unchanged": a commit touches no other field, whoever wrote it meanwhile.
OmittedKept ==
  \A w \in Workers :
    Commits(w) =>
      \A f \in Fields \ DOMAIN patch[w].write :
        values'[patch[w].req][f] = values[patch[w].req][f]
OmittedFieldsStay == [][OmittedKept]_vars

\* update_working_values, "draft|returned only" (BR-19).
EditedOnlyWhileEditable ==
  [][\A r \in Requests : status[r] # NoRequest /\ values'[r] # values[r] => status[r] \in Editable]_vars

\* update_working_values, "Partial upsert": a commit leaves the values it was
\* given, but for a field whose row another PATCH has updated since the worker loaded
\* it.  A PATCH whose insert of a row came second leaves nothing behind.
WrittenUnlessStale ==
  \A w \in Workers :
    Commits(w) =>
      \A f \in DOMAIN patch[w].write :
        values'[patch[w].req][f] # patch[w].write[f] =>
          patch[w].loaded[f] \notin {NoRow, values[patch[w].req][f]}
OnlyStaleWritesLost == [][WrittenUnlessStale]_vars

\* The users asked to decide a request are the assignees of its open tasks.
Pending == [r \in Requests |-> {t.assignee : t \in {x \in tasks[r] : x.status = "open"}}]

\* Those who have decided are the actors of the events that left in_approval.
Decided == [r \in Requests |-> {history[r][i].actor : i \in DecisionEvents(r)}]

Lifecycle == INSTANCE RequestLifecycle WITH pending <- Pending, decided <- Decided

\* The engine keeps the promise of RequestLifecycle: an approval is passed on or
\* ended by one of the users it waits for, who is the actor that history names, and
\* then waits for none of the others, whatever the live configuration does.
KeepsLifecycle == Lifecycle!Spec

\* A request that was never created has no tasks.
AbsentHasNoTasks == \A r \in Requests : status[r] = NoRequest => tasks[r] = {}

\* The inductive invariant of the engine.
EngineInv ==
  /\ TypeOK
  /\ OpenTasksAtCurrentStage
  /\ InApprovalHasOpenTask
  /\ StagePresence
  /\ NoSelfApproval
  /\ AbsentHasNoTasks
=============================================================================
