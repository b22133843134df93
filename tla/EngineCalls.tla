----------------------------- MODULE EngineCalls -----------------------------
(***************************************************************************)
(* How the calls of POST /requests/{id}/actions/{id} carry the steps of    *)
(* ApprovalEngine out: from a page of the web client that shows a button,  *)
(* through the authentication of the session, the row lock, the reads and  *)
(* the commit of the transaction, to an answer that may get lost and a     *)
(* second click on a page that was not reloaded.                           *)
(*                                                                         *)
(* A transaction is two steps: Prepare takes the row lock and makes every  *)
(* read of execute_action, Commit writes and releases the lock.            *)
(***************************************************************************)
EXTENDS ApprovalEngine

CONSTANTS
  Clients,   \* open pages
  Free,      \* no session holds the row lock
  Idle,      \* the page is closed
  MaxClicks  \* bound: clicks on one page

ASSUME ClicksAssumption == MaxClicks \in Nat
ASSUME LocksAssumption == Free \notin Clients
ASSUME FiniteAssumption == IsFiniteSet(Clients) /\ IsFiniteSet(Workers)

VARIABLES
  call,  \* what a page shows, and its call if there is one
  lock   \* the session that holds the lock of a requests row

callVars == <<call, lock>>
allVars == <<vars, callVars>>

Phases == {"shown", "sent", "authenticated", "prepared", "committed", "answered", "unanswered"}
Waiting == {"shown", "answered", "unanswered"}       \* no call is in flight
Uncommitted == {"sent", "authenticated", "prepared"}     \* a call that has not committed
DecisionCodes == {"approve", "reject", "return"}
-----------------------------------------------------------------------------
(* What a transaction decides to write.                                    *)

Siblings(r, x) == {y \in tasks[r] : y.stage = x.stage /\ y.status = "open" /\ y # x}

PlanFor(r, to, s, done, siblings, assignees) ==
  [from |-> status[r], to |-> to, stage |-> s, done |-> done,
   siblings |-> {Key(y) : y \in siblings}, assignees |-> assignees]

SubmitPlans(r, t) ==
  {PlanFor(r, t.to, s, NoTask, {}, ResolveAssignees(s)) :
     s \in {x \in FirstStages : ValidateSubmit(r) /\ ResolveAssignees(x) # {}}}

AdvancePlans(u, r, t) ==
  UNION {
    IF NextStages(x.stage) = {}
    THEN {PlanFor(r, t.to, NoStage, Key(x), Siblings(r, x), {})}
    ELSE {PlanFor(r, "in_approval", s, Key(x), Siblings(r, x), ResolveAssignees(s)) :
            s \in {y \in NextStages(x.stage) : ResolveAssignees(y) # {}}} :
    x \in RequireOpenTask(u, r)}

DecidePlans(u, r, t) ==
  {PlanFor(r, t.to, stage[r], Key(x), Siblings(r, x), {}) : x \in RequireOpenTask(u, r)}

\* The page sends a comment with the actions it knows to need one, and with no other.
SentWithComment(a) == a \in {"reject", "return"}

LeavePlans(r, t) == {PlanFor(r, t.to, NoStage, NoTask, {}, {})}

Plans(u, role, r, t) ==
  CASE t.effect = "approve_advance" ->
         IF NotSelfApproval(u, r) THEN AdvancePlans(u, r, t) ELSE {}
    [] t.effect = "status_only" /\ t.to \in {"rejected", "returned"} ->
         IF NotSelfApproval(u, r) /\ SentWithComment(t.action) THEN DecidePlans(u, r, t) ELSE {}
    [] t.effect = "status_only" /\ t.to = "in_approval" -> SubmitPlans(r, t)
    [] OTHER -> LeavePlans(r, t)

\* What the transaction of c would find and write now.
Found(c) ==
  {t \in FindTransition(c.role, c.req, c.action) :
     c.role = "employee" => initiator[c.req] = c.user}
Executable(c) == UNION {Plans(c.user, c.role, c.req, t) : t \in Found(c)}
-----------------------------------------------------------------------------
(* Why execute_action refuses.                                             *)

\* Mutation: only a completed task counts.
HasCompletedTask(u, r, stages) ==
  \E t \in tasks[r] : t.assignee = u /\ t.status = "completed" /\ t.stage \in stages

HasClosedTask(u, r, stages) ==
  \E t \in tasks[r] : t.assignee = u /\ t.status # "open" /\ t.stage \in stages

\* _require_open_task found none: done already, or never the actor's.
MissingTask(u, r) ==
  IF HasClosedTask(u, r, IF stage[r] = NoStage THEN Stages ELSE {stage[r]})
  THEN "TASK_DONE" ELSE "FORBIDDEN_APPROVAL"

\* Of an action on a request that may be acted on.
Refusal(c) ==
  IF Found(c) = {} THEN
    IF c.action \in DecisionCodes /\ HasClosedTask(c.user, c.req, Stages)
    THEN "TASK_DONE" ELSE "REQUEST_ACTION_NOT_ALLOWED"
  ELSE IF \E t \in Found(c) : t.to = "in_approval" THEN
    IF ~config.typeActive THEN "INACTIVE_TYPE"
    ELSE IF ~ValidateSubmit(c.req) THEN "VALIDATION" ELSE "ROUTE_CONFIG"
  ELSE IF ~NotSelfApproval(c.user, c.req) THEN "FORBIDDEN_APPROVAL"
  ELSE IF /\ ~SentWithComment(c.action)
          /\ \E t \in Found(c) : t.effect = "status_only" THEN "COMMENT_REQUIRED"
  ELSE IF RequireOpenTask(c.user, c.req) = {} THEN MissingTask(c.user, c.req)
  ELSE "ROUTE_CONFIG"

\* An action that no live row names may have been deactivated since the page showed it.
Refusals(c) ==
  IF c.role = "employee" /\ initiator[c.req] # c.user THEN {"NOT_FOUND"}
  ELSE {Refusal(c)} \cup
         IF \A t \in config.transitions : t.action # c.action THEN {"ACTION_NOT_FOUND"} ELSE {}
-----------------------------------------------------------------------------
(* The page.                                                               *)

\* The card and its available actions are loaded; the user is to choose a.
Open(c, u, r, a) ==
  /\ call[c] = Idle
  /\ status[r] # NoRequest
  /\ u \in config.activeUsers
  /\ CanView(u, r)
  /\ \E t \in config.transitions :
       t.from = status[r] /\ t.role = config.role[u] /\ t.action = a
  /\ call' = [call EXCEPT ![c] =
       [phase |-> "shown", user |-> u, req |-> r, action |-> a, role |-> config.role[u],
        about |-> {Key(t) : t \in OpenTasksOf(u, r)}, took |-> {}, plan |-> {},
        answer |-> "", clicks |-> 0]]
  /\ UNCHANGED <<vars, lock>>

\* Bound: with the calls in flight the history may not outgrow MaxEvents.
InFlight(r) ==
  Cardinality({c \in Clients : call[c] # Idle /\ call[c].req = r /\ call[c].phase \in Uncommitted})
    + Cardinality({w \in Workers : patch[w] # NoPatch /\ patch[w].req = r})
Room(r) == Len(history[r]) + InFlight(r) < MaxEvents

\* actionBusy is off: the first click, or another one on a page that an error
\* or a lost answer left as it was.
Click(c) ==
  /\ call[c] # Idle
  /\ call[c].phase \in Waiting
  /\ call[c].clicks < MaxClicks
  /\ Room(call[c].req)
  /\ call' = [call EXCEPT ![c].phase = "sent", ![c].answer = "", ![c].clicks = @ + 1]
  /\ UNCHANGED <<vars, lock>>

Close(c) ==
  /\ call[c] # Idle
  /\ call[c].phase \in Waiting
  /\ call' = [call EXCEPT ![c] = Idle]
  /\ UNCHANGED <<vars, lock>>
-----------------------------------------------------------------------------
(* The session.                                                            *)

InPhase(c, phase) == call[c] # Idle /\ call[c].phase = phase

\* get_current_user: the role is the one this session works with to its end.
\* On 401 the page drops its token and leaves for the login page.
Authenticate(c) ==
  /\ InPhase(c, "sent")
  /\ LET u == call[c].user IN
       call' = IF u \in config.activeUsers
               THEN [call EXCEPT ![c].phase = "authenticated", ![c].role = config.role[u]]
               ELSE [call EXCEPT ![c] = Idle]
  /\ UNCHANGED <<vars, lock>>

\* Mutation: the row is read without FOR UPDATE.
AnyRow(r) == TRUE
RowFree(r) == lock[r] = Free

Prepare(c) ==
  /\ InPhase(c, "authenticated")
  /\ RowFree(call[c].req)
  /\ \E p \in Executable(call[c]) :
       call' = [call EXCEPT ![c].phase = "prepared", ![c].plan = {p}]
  /\ lock' = [lock EXCEPT ![call[c].req] = c]
  /\ UNCHANGED vars

\* Lock, refuse and roll back.
Refuse(c) ==
  /\ InPhase(c, "authenticated")
  /\ RowFree(call[c].req)
  /\ Executable(call[c]) = {}
  /\ \E answer \in Refusals(call[c]) :
       call' = [call EXCEPT ![c].phase = "answered", ![c].answer = answer]
  /\ UNCHANGED <<vars, lock>>

Written(x, p) ==
  IF Key(x) = p.done THEN [x EXCEPT !.status = "completed"]
  ELSE IF Key(x) \in p.siblings THEN [x EXCEPT !.status = "cancelled"] ELSE x

\* Mutation: the lock outlives its session.
KeepLock(c, r) == lock

Released(c, r) == [lock EXCEPT ![r] = IF @ = c THEN Free ELSE @]

Commit(c) ==
  /\ InPhase(c, "prepared")
  /\ \E p \in call[c].plan :
       LET r == call[c].req
           u == call[c].user
           created == [batch: {batch[r] + 1}, stage: {p.stage}, assignee: p.assignees,
                       status: {"open"}]
       IN
       /\ SetRequest(r, p.to, p.stage)
       /\ SetTasks(r, {Written(x, p) : x \in tasks[r]}, created)
       /\ RecordFrom(p.from, u, r, call[c].action, p.to, p.done, created)
       /\ comments' = IF p.to \in {"rejected", "returned"}
                      THEN [comments EXCEPT ![r] = @ \cup
                             {[ev |-> Len(history[r]) + 1, author |-> u, task |-> p.done]}]
                      ELSE comments
       /\ call' = [call EXCEPT ![c].phase = "committed", ![c].plan = {},
                               ![c].took = @ \cup {p.done}]
       /\ lock' = Released(c, r)
  /\ UNCHANGED <<config, initiator, values, patch>>

\* The process or its connection dies; the database rolls back.
Crash(c) ==
  /\ call[c] # Idle
  /\ call[c].phase \in Uncommitted
  /\ call' = [call EXCEPT ![c].phase = "unanswered", ![c].plan = {}]
  /\ lock' = Released(c, call[c].req)
  /\ UNCHANGED vars

\* The page reloads itself on success.
Answer(c) ==
  /\ InPhase(c, "committed")
  /\ call' = [call EXCEPT ![c] = Idle]
  /\ UNCHANGED <<vars, lock>>

\* The answer is lost, or the reload that follows it fails: the buttons stay.
LoseAnswer(c) ==
  /\ InPhase(c, "committed")
  /\ call' = [call EXCEPT ![c].phase = "unanswered"]
  /\ UNCHANGED <<vars, lock>>
-----------------------------------------------------------------------------
\* The UPDATE of requests.updated_at waits for the row.
PatchUpdate(w) == RowFree(patch[w].req) /\ PatchCommit(w)

\* Creation and edits; neither is bound to an action call.
Edit ==
  /\ \/ \E u \in Users, r \in Requests, write \in Writes :
          Create(u, r, write) \/ (Room(r) /\ \E w \in Workers : PatchRead(w, u, r, write))
     \/ \E w \in Workers : patch[w] # NoPatch /\ (PatchUpdate(w) \/ PatchRollback(w))
  /\ UNCHANGED callVars

\* A stage that a prepared transaction refers to cannot be deleted either.
ReconfigureBesides(c) ==
  /\ Reconfigure(c)
  /\ \A k \in Clients : call[k] # Idle =>
       \A p \in call[k].plan : p.stage = NoStage \/ p.stage \in c.stages
  /\ UNCHANGED callVars

Session(c) == Authenticate(c) \/ Prepare(c) \/ Refuse(c) \/ Commit(c) \/ Answer(c)

CallStep(c) ==
  \/ \E u \in Users, r \in Requests, a \in ActionCodes : Open(c, u, r, a)
  \/ Click(c) \/ Close(c)
  \/ Session(c) \/ Crash(c) \/ LoseAnswer(c)

CallsInit ==
  /\ Init
  /\ call = [c \in Clients |-> Idle]
  /\ lock = [r \in Requests |-> Free]

CallsServe == Edit \/ \E c \in Clients : CallStep(c)
CallsNext == CallsServe \/ \E c \in Configs : ReconfigureBesides(c)

\* The server keeps working on a call; the row lock is granted in queue order.
ServerFairness ==
  \A c \in Clients : /\ WF_allVars(Authenticate(c)) /\ WF_allVars(Commit(c)) /\ WF_allVars(Answer(c))
                     /\ SF_allVars(Prepare(c) \/ Refuse(c))

CallsSpec == CallsInit /\ [][CallsNext]_allVars
StableCallsSpec == CallsInit /\ [][CallsServe]_allVars /\ ServerFairness
-----------------------------------------------------------------------------
(* Properties.                                                             *)

\* The pending transactions of a request hold what they read: while one is
\* prepared, its request keeps the status it left from, the task it completes is
\* its actor's and open, and the tasks it cancels are all the other open ones.
PreparedReadsHold ==
  \A c \in Clients : InPhase(c, "prepared") =>
    \A p \in call[c].plan :
      LET r == call[c].req
          open == {Key(t) : t \in {x \in tasks[r] : x.status = "open"}}
      IN  /\ status[r] = p.from
          /\ IF p.done = NoTask THEN open = {}
             ELSE p.done[2] = call[c].user /\ open = p.siblings \cup {p.done}

\* The calls of a system that is not being reconfigured do what ApprovalEngine
\* says: every transaction is one of its steps, the rest changes nothing.
CallsRefineEngine == StableSpec

\* Every call comes to its end: nothing waits for a row lock forever.
CallsSettle ==
  \A c \in Clients :
    InPhase(c, "sent") ~> (call[c] = Idle \/ InPhase(c, "answered") \/ InPhase(c, "unanswered"))

\* AC-APP-09: an approver whose task was cancelled because a colleague decided,
\* and who then tries to approve, is told that the task is done.
LoserGetsTaskDone ==
  \A c \in Clients :
    /\ InPhase(c, "answered")
    /\ call[c].action = "approve" /\ call[c].took = {} /\ call[c].about # {}
    /\ \A t \in tasks[call[c].req] : Key(t) \in call[c].about => t.status = "cancelled"
    => call[c].answer = "TASK_DONE"

\* A route of one stage, and an approve action as in TRANSITION_SPECS: it is the
\* approvers', and it advances.
DecidedInOneRound(c) ==
  /\ \A s, x \in c.stages : s = x
  /\ \A t \in c.transitions :
       t.action = "approve" => t.effect = "approve_advance" /\ t.role = "approver"

\* NFR-REL-02: a decision repeated on the page that made it changes nothing.
RepeatIsRefused ==
  \A c \in Clients : call[c] # Idle => Cardinality(call[c].took \ {NoTask}) <= 1
=============================================================================
