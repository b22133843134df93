-------------------------- MODULE EngineCallsProofs --------------------------
(* The transactions of EngineCalls take the steps of EngineStepProofs: what *)
(* one has read under the row lock still holds when it commits, whatever    *)
(* other sessions and the administrators do in between.                     *)
(* While nobody reconfigures the system, every one of them is one of the    *)
(* executions that ApprovalEngine describes.                                *)
EXTENDS EngineCalls, OutcomeProofs

Answers ==
  {"", "NOT_FOUND", "TASK_DONE", "REQUEST_ACTION_NOT_ALLOWED", "INACTIVE_TYPE", "VALIDATION",
   "ROUTE_CONFIG", "FORBIDDEN_APPROVAL", "COMMENT_REQUIRED", "ACTION_NOT_FOUND"}
PlanRows ==
  [from: Statuses \cup {NoRequest}, to: Statuses, stage: Stages \cup {NoStage}, done: TaskKeys,
   siblings: SUBSET TaskKeys, assignees: SUBSET Users]
CallRows ==
  [phase: Phases, user: Users, req: Requests, action: ActionCodes, role: RoleCodes,
   about: SUBSET TaskKeys, took: SUBSET TaskKeys, plan: SUBSET PlanRows, answer: Answers,
   clicks: Nat]

CallsTyped ==
  /\ call \in [Clients -> CallRows \cup {Idle}]
  /\ lock \in [Requests -> Clients \cup {Free}]

\* A plan completes an open task of the actor and cancels the other open ones of its stage.
Closes(u, r, p) ==
  \E x \in OpenTasks(u, r) :
    p.done = Key(x) /\ p.siblings = {Key(y) : y \in Siblings(r, x)}

\* A plan completes and cancels nothing.
ClosesNothing(p) == p.done = NoTask /\ p.siblings = {}

PlanAsks(r, t, p) ==
  /\ t.effect = "status_only" /\ t.to = "in_approval" /\ p.to = "in_approval"
  /\ ClosesNothing(p) /\ p.stage \in Stages /\ p.assignees \in Rounds
PlanPasses(u, r, t, p) ==
  /\ t.effect = "approve_advance" /\ NotSelfApproval(u, r) /\ p.to = "in_approval"
  /\ Closes(u, r, p) /\ p.stage \in Stages /\ p.assignees \in Rounds
PlanEnds(u, r, t, p) ==
  /\ t.effect = "approve_advance" /\ NotSelfApproval(u, r) /\ p.to = t.to
  /\ Closes(u, r, p) /\ p.stage = NoStage /\ p.assignees = {}
PlanRefuses(u, r, t, p) ==
  /\ t.effect = "status_only" /\ t.to \in {"rejected", "returned"} /\ NotSelfApproval(u, r)
  /\ p.to = t.to /\ Closes(u, r, p) /\ p.stage = stage[r] /\ p.assignees = {}
PlanMoves(r, t, p) ==
  /\ t.effect = "status_only" /\ t.to \in {"cancelled", "draft", "approved"} /\ p.to = t.to
  /\ ClosesNothing(p) /\ p.stage = NoStage /\ p.assignees = {}

\* The plan is one that the rows of its request still call for.
PlanHolds(u, r, a, p) ==
  /\ p \in PlanRows /\ p.from = status[r]
  /\ \E t \in Rows :
       /\ t.action = a /\ t.from = status[r]
       /\ \/ PlanAsks(r, t, p) \/ PlanPasses(u, r, t, p) \/ PlanEnds(u, r, t, p)
          \/ PlanRefuses(u, r, t, p) \/ PlanMoves(r, t, p)

\* A prepared transaction has the lock of its request, and its plan holds.
Prepared(c) ==
  InPhase(c, "prepared") =>
    /\ lock[call[c].req] = c
    /\ \A p \in call[c].plan : PlanHolds(call[c].user, call[c].req, call[c].action, p)

CallsInv == HistoryInv /\ CallsTyped /\ \A c \in Clients : Prepared(c)
-----------------------------------------------------------------------------
(* What Prepare reads.                                                     *)

\* A stage in a plan for new tasks is a stage of the route.
LEMMA PlannedStages ==
  ASSUME config \in Configs, NEW s
  PROVE  /\ s \in FirstStages => s \in Stages
         /\ \A n : s \in NextStages(n) => s \in Stages
         /\ ResolveAssignees(s) \subseteq Users
BY ConfigFacts DEF FirstStages, NextStages, Later, ResolveAssignees

\* What PlanFor records of a task that the transaction is to complete.
LEMMA PlanForClosing ==
  ASSUME TypeOK, NEW u \in Users, NEW r \in Requests, NEW x \in RequireOpenTask(u, r),
         NEW to \in Statuses, NEW s \in Stages \cup {NoStage}, NEW who \in SUBSET Users,
         NEW p, p = PlanFor(r, to, s, Key(x), Siblings(r, x), who)
  PROVE  /\ p \in PlanRows /\ p.from = status[r] /\ p.to = to /\ p.stage = s /\ p.assignees = who
         /\ Closes(u, r, p)
<1>1. x \in OpenTasks(u, r) /\ x \in Tasks /\ Siblings(r, x) \subseteq Tasks
  BY FoundTask DEF OpenTasks, Siblings, TypeOK
<1>2. Key(x) \in TaskKeys /\ {Key(y) : y \in Siblings(r, x)} \in SUBSET TaskKeys
  BY <1>1, KeyType
<1>3. status[r] \in Statuses \cup {NoRequest}
  BY DEF TypeOK
<1>4. /\ p.from = status[r] /\ p.to = to /\ p.stage = s /\ p.assignees = who
      /\ p.done = Key(x) /\ p.siblings = {Key(y) : y \in Siblings(r, x)}
  BY DEF PlanFor
<1>5. p \in PlanRows
  BY <1>2, <1>3 DEF PlanFor, PlanRows
<1> QED
  BY <1>1, <1>4, <1>5 DEF Closes

\* What PlanFor records when there is no task to complete.
LEMMA PlanForNothing ==
  ASSUME TypeOK, NEW r \in Requests,
         NEW to \in Statuses, NEW s \in Stages \cup {NoStage}, NEW who \in SUBSET Users,
         NEW p, p = PlanFor(r, to, s, NoTask, {}, who)
  PROVE  /\ p \in PlanRows /\ p.from = status[r] /\ p.to = to /\ p.stage = s /\ p.assignees = who
         /\ ClosesNothing(p)
<1>1. NoTask \in TaskKeys /\ {Key(y) : y \in {}} = {}
  BY DEF TaskKeys
<1>2. status[r] \in Statuses \cup {NoRequest}
  BY DEF TypeOK
<1>3. /\ p.from = status[r] /\ p.to = to /\ p.stage = s /\ p.assignees = who
      /\ p.done = NoTask /\ p.siblings = {}
  BY <1>1 DEF PlanFor
<1>4. p \in PlanRows
  BY <1>1, <1>2 DEF PlanFor, PlanRows
<1> QED
  BY <1>3, <1>4 DEF ClosesNothing

\* Whatever plan a transaction makes holds when it is made.
LEMMA PlansHold ==
  ASSUME TypeOK, NEW u \in Users, NEW role, NEW r \in Requests, NEW a,
         NEW t \in FindTransition(role, r, a), NEW p \in Plans(u, role, r, t)
  PROVE  PlanHolds(u, r, a, p)
<1>1. /\ config \in Configs /\ t \in Rows /\ t.action = a /\ t.from = status[r]
  BY ConfigFacts DEF TypeOK, FindTransition
<1>2. /\ t.to \in Statuses /\ "in_approval" \in Statuses /\ stage[r] \in Stages \cup {NoStage}
      /\ t.effect \in {"status_only", "approve_advance"} /\ {} \in SUBSET Users
  <2>1. t \in Transitions
    BY <1>1, ConfigsAssumption DEF Rows, IsConfig
  <2> QED
    BY <2>1 DEF Transitions, TypeOK, Statuses
<1>3. CASE t.effect = "approve_advance"
  <2>1. NotSelfApproval(u, r) /\ p \in AdvancePlans(u, r, t)
    BY <1>3 DEF Plans
  <2>2. PICK x \in RequireOpenTask(u, r) :
          p \in IF NextStages(x.stage) = {}
                THEN {PlanFor(r, t.to, NoStage, Key(x), Siblings(r, x), {})}
                ELSE {PlanFor(r, "in_approval", s, Key(x), Siblings(r, x), ResolveAssignees(s)) :
                        s \in {y \in NextStages(x.stage) : ResolveAssignees(y) # {}}}
    BY <2>1 DEF AdvancePlans
  <2>3. CASE p = PlanFor(r, t.to, NoStage, Key(x), Siblings(r, x), {})
    <3>1. PICK to \in Statuses, s \in Stages \cup {NoStage}, who \in SUBSET Users :
            to = t.to /\ s = NoStage /\ who = {}
      BY <1>2
    <3>2. p = PlanFor(r, to, s, Key(x), Siblings(r, x), who)
      BY <2>3, <3>1
    <3>3. /\ p \in PlanRows /\ p.from = status[r] /\ p.to = to /\ p.stage = s /\ p.assignees = who
          /\ Closes(u, r, p)
      BY <3>2, PlanForClosing
    <3>4. PlanEnds(u, r, t, p)
      BY <1>3, <2>1, <3>1, <3>3 DEF PlanEnds
    <3> QED
      BY <1>1, <3>3, <3>4 DEF PlanHolds
  <2>4. ASSUME NEW s \in NextStages(x.stage), ResolveAssignees(s) # {},
               p = PlanFor(r, "in_approval", s, Key(x), Siblings(r, x), ResolveAssignees(s))
        PROVE  PlanHolds(u, r, a, p)
    <3>1. s \in Stages /\ ResolveAssignees(s) \in SUBSET Users /\ ResolveAssignees(s) \in Rounds
      BY <1>1, <2>4, PlannedStages DEF Rounds
    <3>2. PICK to \in Statuses, who \in SUBSET Users : to = "in_approval" /\ who = ResolveAssignees(s)
      BY <1>2, <3>1
    <3>3. s \in Stages \cup {NoStage} /\ p = PlanFor(r, to, s, Key(x), Siblings(r, x), who)
      BY <2>4, <3>1, <3>2
    <3>4. /\ p \in PlanRows /\ p.from = status[r] /\ p.to = to /\ p.stage = s /\ p.assignees = who
          /\ Closes(u, r, p)
      BY <3>3, PlanForClosing
    <3>5. PlanPasses(u, r, t, p)
      BY <1>3, <2>1, <3>1, <3>2, <3>4 DEF PlanPasses
    <3> QED
      BY <1>1, <3>4, <3>5 DEF PlanHolds
  <2> QED
    BY <2>2, <2>3, <2>4
<1>4. CASE t.effect = "status_only" /\ t.to \in {"rejected", "returned"}
  <2>1. NotSelfApproval(u, r) /\ p \in DecidePlans(u, r, t)
    BY <1>4 DEF Plans
  <2>2. PICK x \in RequireOpenTask(u, r) :
          p = PlanFor(r, t.to, stage[r], Key(x), Siblings(r, x), {})
    BY <2>1 DEF DecidePlans
  <2>3. PICK to \in Statuses, s \in Stages \cup {NoStage}, who \in SUBSET Users :
          to = t.to /\ s = stage[r] /\ who = {}
    BY <1>2
  <2>4. p = PlanFor(r, to, s, Key(x), Siblings(r, x), who)
    BY <2>2, <2>3
  <2>5. /\ p \in PlanRows /\ p.from = status[r] /\ p.to = to /\ p.stage = s /\ p.assignees = who
        /\ Closes(u, r, p)
    BY <2>4, PlanForClosing
  <2>6. PlanRefuses(u, r, t, p)
    BY <1>4, <2>1, <2>3, <2>5 DEF PlanRefuses
  <2> QED
    BY <1>1, <2>5, <2>6 DEF PlanHolds
<1>5. CASE t.effect = "status_only" /\ t.to = "in_approval"
  <2>1. p \in SubmitPlans(r, t)
    BY <1>5 DEF Plans
  <2>2. PICK s \in FirstStages :
          /\ ResolveAssignees(s) # {}
          /\ p = PlanFor(r, t.to, s, NoTask, {}, ResolveAssignees(s))
    BY <2>1 DEF SubmitPlans
  <2>3. s \in Stages /\ ResolveAssignees(s) \in SUBSET Users /\ ResolveAssignees(s) \in Rounds
    BY <1>1, <2>2, PlannedStages DEF Rounds
  <2>4. PICK to \in Statuses, who \in SUBSET Users : to = t.to /\ who = ResolveAssignees(s)
    BY <1>2, <2>3
  <2>5. s \in Stages \cup {NoStage} /\ p = PlanFor(r, to, s, NoTask, {}, who)
    BY <2>2, <2>3, <2>4
  <2>6. /\ p \in PlanRows /\ p.from = status[r] /\ p.to = to /\ p.stage = s /\ p.assignees = who
        /\ ClosesNothing(p)
    BY <2>5, PlanForNothing
  <2>7. PlanAsks(r, t, p)
    BY <1>5, <2>3, <2>4, <2>6 DEF PlanAsks
  <2> QED
    BY <1>1, <2>6, <2>7 DEF PlanHolds
<1>6. CASE t.effect = "status_only" /\ t.to \in {"cancelled", "draft", "approved"}
  <2>1. p = PlanFor(r, t.to, NoStage, NoTask, {}, {})
    BY <1>6 DEF Plans, LeavePlans
  <2>2. PICK to \in Statuses, s \in Stages \cup {NoStage}, who \in SUBSET Users :
          to = t.to /\ s = NoStage /\ who = {}
    BY <1>2
  <2>3. p = PlanFor(r, to, s, NoTask, {}, who)
    BY <2>1, <2>2
  <2>4. /\ p \in PlanRows /\ p.from = status[r] /\ p.to = to /\ p.stage = s /\ p.assignees = who
        /\ ClosesNothing(p)
    BY <2>3, PlanForNothing
  <2>5. PlanMoves(r, t, p)
    BY <1>6, <2>2, <2>4 DEF PlanMoves
  <2> QED
    BY <1>1, <2>4, <2>5 DEF PlanHolds
<1> QED
  BY <1>2, <1>3, <1>4, <1>5, <1>6 DEF Statuses

\* A plan holds as long as its request's own rows stay.
LEMMA PlanKeepsHolding ==
  ASSUME NEW u, NEW r, NEW a, NEW p, PlanHolds(u, r, a, p),
         status'[r] = status[r], stage'[r] = stage[r], tasks'[r] = tasks[r],
         initiator'[r] = initiator[r]
  PROVE  PlanHolds(u, r, a, p)'
BY DEF PlanHolds, PlanAsks, PlanPasses, PlanEnds, PlanRefuses, PlanMoves, Closes, Siblings,
       OpenTasks, NotSelfApproval
-----------------------------------------------------------------------------
(* What Commit writes.                                                     *)

WrittenTasks(r, p) == {Written(y, p) : y \in tasks[r]}

\* The tasks of the latest batch are told apart by their keys.
LEMMA LatestTask ==
  ASSUME TypeOK, NEW r \in Requests, RequestInv(r), RequestHistory(r), status[r] = "in_approval",
         NEW x \in tasks[r], NEW y \in tasks[r], x.batch = batch[r], Key(x) = Key(y)
  PROVE  x = y
<1>1. x \in Tasks /\ y \in Tasks
  BY DEF TypeOK
<1>2. y.batch = batch[r] /\ y.assignee = x.assignee
  BY DEF Key
<1>3. x.status = "open" /\ y.status = "open"
  BY <1>2 DEF RequestHistory
<1>4. x.stage = stage[r] /\ y.stage = stage[r]
  BY <1>3 DEF RequestInv
<1> QED
  BY <1>1, <1>2, <1>3, <1>4 DEF Tasks

\* Writing the keys that were read closes the stage of the actor's task.
LEMMA WrittenCloses ==
  ASSUME TypeOK, NEW u \in Users, NEW r \in Requests, RequestInv(r), RequestHistory(r),
         NotSelfApproval(u, r), NEW x \in OpenTasks(u, r), NEW p,
         p.done = Key(x), p.siblings = {Key(y) : y \in Siblings(r, x)}
  PROVE  WrittenTasks(r, p) = CloseStage(r, x)
<1>1. /\ x \in tasks[r] /\ x.status = "open" /\ status[r] = "in_approval"
      /\ x.batch = batch[r] /\ x.stage = stage[r]
  BY DEF OpenTasks, RequestInv
<1>2. ASSUME NEW y \in tasks[r]
      PROVE  Written(y, p) = Closed(y, x)
  <2>1. CASE y = x
    <3>1. Key(y) = p.done
      BY <2>1
    <3>2. Written(y, p) = [y EXCEPT !.status = "completed"]
      BY <3>1 DEF Written
    <3> QED
      BY <2>1, <3>2 DEF Closed
  <2>2. CASE y \in Siblings(r, x)
    <3>1. Key(y) # Key(x)
      BY <1>1, <2>2, LatestTask DEF Siblings
    <3>2. Key(y) \in p.siblings
      BY <2>2
    <3> QED
      BY <2>2, <3>1, <3>2 DEF Written, Closed, Siblings
  <2>3. CASE y # x /\ y \notin Siblings(r, x)
    <3>1. Key(y) # Key(x)
      BY <1>1, <2>3, LatestTask
    <3>2. ASSUME NEW z \in Siblings(r, x), Key(z) = Key(y)
          PROVE  FALSE
      <4>1. z \in tasks[r] /\ z.batch = batch[r]
        BY <1>1 DEF Siblings, RequestInv
      <4>2. z = y
        BY <1>1, <3>2, <4>1, LatestTask
      <4> QED
        BY <2>3, <4>2
    <3>3. Key(y) \notin p.siblings
      BY <3>2
    <3>4. ~(y.stage = x.stage /\ y.status = "open")
      BY <2>3 DEF Siblings
    <3> QED
      BY <2>3, <3>1, <3>3, <3>4 DEF Written, Closed
  <2> QED
    BY <2>1, <2>2, <2>3
<1> QED
  BY <1>2 DEF WrittenTasks, CloseStage

\* A plan that completes nothing writes no task.
LEMMA WrittenNothing ==
  ASSUME TypeOK, NEW r \in Requests, RequestHistory(r), NEW p, ClosesNothing(p)
  PROVE  WrittenTasks(r, p) = tasks[r]
<1>1. ASSUME NEW y \in tasks[r]
      PROVE  Written(y, p) = y
  <2>1. y.batch >= 1
    BY DEF RequestHistory
  <2>2. Key(y) # NoTask
    BY <2>1 DEF Key, NoTask
  <2> QED
    BY <2>2 DEF Written, ClosesNothing
<1> QED
  BY <1>1 DEF WrittenTasks

\* The commit of a plan that holds, without its session.
CommitRows(u, r, a, p) ==
  /\ SetRequest(r, p.to, p.stage)
  /\ SetTasks(r, WrittenTasks(r, p), NewTasks(r, p.stage, p.assignees))
  /\ RecordFrom(p.from, u, r, a, p.to, p.done, NewTasks(r, p.stage, p.assignees))
  /\ comments' = IF p.to \in {"rejected", "returned"}
                 THEN [comments EXCEPT ![r] = @ \cup
                        {[ev |-> Len(history[r]) + 1, author |-> u, task |-> p.done]}]
                 ELSE comments
  /\ UNCHANGED <<config, initiator, values, patch>>

\* It is a step of the engine.
LEMMA CommitSteps ==
  ASSUME HistoryInv, NEW u \in Users, NEW r \in Requests, NEW a, NEW p,
         PlanHolds(u, r, a, p), CommitRows(u, r, a, p)
  PROVE  \E t \in Rows : EngineStep(u, r, t)
<1>1. TypeOK /\ RequestInv(r) /\ RequestHistory(r)
  BY EngineInvByRequest DEF HistoryInv
<1>2. PICK t \in Rows :
        /\ t.action = a /\ t.from = status[r]
        /\ \/ PlanAsks(r, t, p) \/ PlanPasses(u, r, t, p) \/ PlanEnds(u, r, t, p)
           \/ PlanRefuses(u, r, t, p) \/ PlanMoves(r, t, p)
  BY DEF PlanHolds
<1>3. status[r] # NoRequest /\ UNCHANGED <<config, initiator, values, patch>>
  BY <1>2, RowFacts DEF CommitRows, Statuses, NoRequest
<1>4. ASSUME p.assignees = {}
      PROVE  NewTasks(r, p.stage, p.assignees) = {}
  BY <1>4 DEF NewTasks
<1>5. Update(u, r, a, p.to, p.stage, p.done, WrittenTasks(r, p), NewTasks(r, p.stage, p.assignees))
  BY DEF Update, Record, CommitRows, PlanHolds
<1>6. CASE PlanAsks(r, t, p)
  <2>1. /\ p.done = NoTask /\ WrittenTasks(r, p) = tasks[r] /\ p.to = "in_approval"
        /\ p.stage \in Stages /\ p.assignees \in Rounds
    BY <1>1, <1>6, WrittenNothing DEF PlanAsks, ClosesNothing
  <2>2. comments' = comments
    BY <2>1 DEF CommitRows
  <2>3. AskStep(u, r, t)
    BY <1>2, <1>5, <1>6, <2>1, <2>2 DEF AskStep, PlanAsks
  <2> QED
    BY <1>2, <1>3, <2>3 DEF EngineStep
<1>7. CASE PlanMoves(r, t, p)
  <2>1. /\ p.done = NoTask /\ WrittenTasks(r, p) = tasks[r] /\ p.to = t.to /\ p.stage = NoStage
        /\ NewTasks(r, p.stage, p.assignees) = {} /\ p.to \notin {"rejected", "returned"}
    BY <1>1, <1>4, <1>7, WrittenNothing DEF PlanMoves, ClosesNothing
  <2>2. comments' = comments
    BY <2>1 DEF CommitRows
  <2>3. MoveStep(u, r, t)
    BY <1>2, <1>5, <1>7, <2>1, <2>2 DEF MoveStep, PlanMoves
  <2> QED
    BY <1>2, <1>3, <2>3 DEF EngineStep
<1>8. CASE PlanPasses(u, r, t, p) \/ PlanEnds(u, r, t, p) \/ PlanRefuses(u, r, t, p)
  <2>1. NotSelfApproval(u, r) /\ Closes(u, r, p)
    BY <1>8 DEF PlanPasses, PlanEnds, PlanRefuses
  <2>2. PICK x \in OpenTasks(u, r) :
          p.done = Key(x) /\ p.siblings = {Key(y) : y \in Siblings(r, x)}
    BY <2>1 DEF Closes
  <2>3. WrittenTasks(r, p) = CloseStage(r, x)
    BY <1>1, <2>1, <2>2, WrittenCloses
  <2>4. CASE PlanPasses(u, r, t, p)
    <3>1. /\ p.to = "in_approval" /\ p.stage \in Stages /\ p.assignees \in Rounds
          /\ comments' = comments
      BY <2>4 DEF PlanPasses, CommitRows
    <3>2. PassStep(u, r, t)
      BY <1>2, <1>5, <2>1, <2>2, <2>3, <2>4, <3>1 DEF PassStep, PlanPasses
    <3> QED
      BY <1>2, <1>3, <3>2 DEF EngineStep
  <2>5. CASE PlanEnds(u, r, t, p)
    <3>1. t.to \notin {"rejected", "returned"}
      BY <2>5, RowFacts DEF PlanEnds
    <3>2. /\ p.to = t.to /\ p.stage = NoStage /\ NewTasks(r, p.stage, p.assignees) = {}
          /\ comments' = comments
      BY <1>4, <2>5, <3>1 DEF PlanEnds, CommitRows
    <3>3. FinalStep(u, r, t)
      BY <1>2, <1>5, <2>1, <2>2, <2>3, <2>5, <3>2 DEF FinalStep, PlanEnds
    <3> QED
      BY <1>2, <1>3, <3>3 DEF EngineStep
  <2>6. CASE PlanRefuses(u, r, t, p)
    <3>1. /\ p.to = t.to /\ p.stage = stage[r] /\ NewTasks(r, p.stage, p.assignees) = {}
          /\ comments' = [comments EXCEPT ![r] = @ \cup
                {[ev |-> Len(history[r]) + 1, author |-> u, task |-> Key(x)]}]
      BY <1>4, <2>2, <2>6 DEF PlanRefuses, CommitRows
    <3>2. RefuseStep(u, r, t)
      BY <1>2, <1>5, <2>1, <2>2, <2>3, <2>6, <3>1 DEF RefuseStep, PlanRefuses
    <3> QED
      BY <1>2, <1>3, <3>2 DEF EngineStep
  <2> QED
    BY <1>8, <2>4, <2>5, <2>6
<1> QED
  BY <1>2, <1>6, <1>7, <1>8
-----------------------------------------------------------------------------
(* The sessions.                                                           *)

\* The step leaves c idle or in a phase in which it holds no lock.
Unprepared(x) == x = Idle \/ x.phase # "prepared"
Quiet(c) ==
  \E x \in CallRows \cup {Idle} : call' = [call EXCEPT ![c] = x] /\ Unprepared(x)

\* The lock stays, or c gives it up.
LockKept(c) == lock' = lock \/ \E r \in Requests : lock' = Released(c, r)

\* A page that opens shows the tasks of its user.
LEMMA OpenQuiet ==
  ASSUME TypeOK, CallsTyped, NEW c \in Clients, NEW u \in Users, NEW r \in Requests,
         NEW a \in ActionCodes, Open(c, u, r, a)
  PROVE  Quiet(c) /\ LockKept(c) /\ UNCHANGED vars
<1> DEFINE x == [phase |-> "shown", user |-> u, req |-> r, action |-> a, role |-> config.role[u],
                 about |-> {Key(t) : t \in OpenTasksOf(u, r)}, took |-> {}, plan |-> {},
                 answer |-> "", clicks |-> 0]
<1>1. config.role[u] \in RoleCodes
  BY ConfigFacts DEF TypeOK
<1>2. {Key(t) : t \in OpenTasksOf(u, r)} \in SUBSET TaskKeys
  BY KeyType DEF OpenTasksOf, TypeOK
<1>3. x \in CallRows
  BY <1>1, <1>2 DEF CallRows, Phases, Answers
<1>4. x.phase = "shown" /\ call' = [call EXCEPT ![c] = x]
  BY DEF Open
<1>5. lock' = lock /\ UNCHANGED vars
  BY DEF Open
<1> HIDE DEF x
<1> QED
  BY <1>3, <1>4, <1>5 DEF Quiet, Unprepared, LockKept

\* A refusal is one of the answers.
LEMMA RefusalTypes == ASSUME NEW c PROVE Refusals(c) \subseteq Answers
<1>1. Refusal(c) \in Answers
  BY DEF Refusal, MissingTask, Answers
<1> QED
  BY <1>1 DEF Refusals, Answers

\* The steps of a call that neither prepare nor commit change no row.
LEMMA CallQuiet ==
  ASSUME TypeOK, CallsTyped, NEW c \in Clients,
         \/ Click(c) \/ Close(c) \/ Authenticate(c) \/ Refuse(c) \/ Answer(c)
         \/ Crash(c) \/ LoseAnswer(c)
  PROVE  Quiet(c) /\ LockKept(c) /\ UNCHANGED vars
<1>1. /\ call[c] # Idle /\ call[c] \in CallRows /\ call[c].clicks + 1 \in Nat
      /\ call[c].req \in Requests /\ call[c].user \in Users
  <2>1. call[c] # Idle
    BY DEF Click, Close, Authenticate, Refuse, Answer, Crash, LoseAnswer, InPhase
  <2>2. call[c] \in CallRows
    BY <2>1 DEF CallsTyped
  <2> QED
    BY <2>1, <2>2 DEF CallRows
<1>2. config.role[call[c].user] \in RoleCodes
  BY <1>1, ConfigFacts DEF TypeOK
<1>3. UNCHANGED vars /\ LockKept(c)
  BY <1>1 DEF LockKept, Click, Close, Authenticate, Refuse, Answer, Crash, LoseAnswer
<1>4. CASE Click(c)
  <2> DEFINE x == [call[c] EXCEPT !.phase = "sent", !.answer = "", !.clicks = @ + 1]
  <2>1. x \in CallRows /\ x.phase = "sent"
    BY <1>1 DEF CallRows, Phases, Answers
  <2>2. call' = [call EXCEPT ![c] = x]
    BY <1>4 DEF Click, CallsTyped
  <2> HIDE DEF x
  <2> QED
    BY <1>3, <2>1, <2>2 DEF Quiet, Unprepared
<1>5. CASE Authenticate(c)
  <2> DEFINE x == [call[c] EXCEPT !.phase = "authenticated", !.role = config.role[call[c].user]]
  <2>1. x \in CallRows /\ x.phase = "authenticated"
    BY <1>1, <1>2 DEF CallRows, Phases
  <2>2. call' = [call EXCEPT ![c] = x] \/ call' = [call EXCEPT ![c] = Idle]
    BY <1>5 DEF Authenticate, CallsTyped
  <2> HIDE DEF x
  <2> QED
    BY <1>3, <2>1, <2>2 DEF Quiet, Unprepared
<1>6. CASE Refuse(c)
  <2>3. PICK answer \in Refusals(call[c]) :
          call' = [call EXCEPT ![c].phase = "answered", ![c].answer = answer]
    BY <1>6 DEF Refuse
  <2>4. answer \in Answers
    BY RefusalTypes
  <2> DEFINE x == [call[c] EXCEPT !.phase = "answered", !.answer = answer]
  <2>1. x \in CallRows /\ x.phase = "answered"
    BY <1>1, <2>4 DEF CallRows, Phases
  <2>2. call' = [call EXCEPT ![c] = x]
    BY <2>3 DEF CallsTyped
  <2> HIDE DEF x
  <2> QED
    BY <1>3, <2>1, <2>2 DEF Quiet, Unprepared
<1>7. CASE Crash(c)
  <2> DEFINE x == [call[c] EXCEPT !.phase = "unanswered", !.plan = {}]
  <2>1. x \in CallRows /\ x.phase = "unanswered"
    BY <1>1 DEF CallRows, Phases
  <2>2. call' = [call EXCEPT ![c] = x]
    BY <1>7 DEF Crash, CallsTyped
  <2> HIDE DEF x
  <2> QED
    BY <1>3, <2>1, <2>2 DEF Quiet, Unprepared
<1>8. CASE LoseAnswer(c)
  <2> DEFINE x == [call[c] EXCEPT !.phase = "unanswered"]
  <2>1. x \in CallRows /\ x.phase = "unanswered"
    BY <1>1 DEF CallRows, Phases
  <2>2. call' = [call EXCEPT ![c] = x]
    BY <1>8 DEF LoseAnswer, CallsTyped
  <2> HIDE DEF x
  <2> QED
    BY <1>3, <2>1, <2>2 DEF Quiet, Unprepared
<1>9. CASE Close(c) \/ Answer(c)
  BY <1>3, <1>9 DEF Close, Answer, Quiet, Unprepared
<1> QED
  BY <1>4, <1>5, <1>6, <1>7, <1>8, <1>9

\* Prepare finds a plan that holds, and takes the lock.
LEMMA PrepareHolds ==
  ASSUME TypeOK, CallsTyped, NEW c \in Clients, Prepare(c)
  PROVE  /\ UNCHANGED vars /\ lock[call[c].req] = Free /\ lock' = [lock EXCEPT ![call[c].req] = c]
         /\ \E x \in CallRows :
              /\ call' = [call EXCEPT ![c] = x] /\ x.req = call[c].req
              /\ \A p \in x.plan : PlanHolds(x.user, x.req, x.action, p)
<1>1. /\ call[c] \in CallRows /\ call[c].req \in Requests /\ call[c].user \in Users
  BY DEF CallsTyped, CallRows, Prepare, InPhase
<1>2. PICK p \in Executable(call[c]) :
        call' = [call EXCEPT ![c].phase = "prepared", ![c].plan = {p}]
  BY DEF Prepare
<1>3. PlanHolds(call[c].user, call[c].req, call[c].action, p)
  BY <1>1, PlansHold DEF Executable, Found
<1> DEFINE x == [call[c] EXCEPT !.phase = "prepared", !.plan = {p}]
<1>4. p \in PlanRows
  BY <1>3 DEF PlanHolds
<1>5. /\ x \in CallRows /\ x.req = call[c].req /\ x.plan = {p}
      /\ x.user = call[c].user /\ x.action = call[c].action
  BY <1>1, <1>4 DEF CallRows, Phases
<1>6. call' = [call EXCEPT ![c] = x]
  BY <1>2 DEF CallsTyped
<1>7. UNCHANGED vars /\ lock[call[c].req] = Free /\ lock' = [lock EXCEPT ![call[c].req] = c]
  BY DEF Prepare, RowFree
<1> HIDE DEF x
<1> QED
  BY <1>3, <1>5, <1>6, <1>7

\* Commit is a step of the engine on the request that c has locked.
LEMMA CommitIsStep ==
  ASSUME CallsInv, NEW c \in Clients, Commit(c)
  PROVE  /\ Quiet(c) /\ LockKept(c) /\ lock[call[c].req] = c
         /\ call[c].user \in Users /\ call[c].req \in Requests
         /\ \E t \in Rows : EngineStep(call[c].user, call[c].req, t)
<1>1. /\ call[c] \in CallRows /\ call[c].req \in Requests /\ call[c].user \in Users
      /\ lock[call[c].req] = c
      /\ \A p \in call[c].plan : PlanHolds(call[c].user, call[c].req, call[c].action, p)
  BY DEF CallsInv, CallsTyped, CallRows, Commit, InPhase, Prepared
<1>2. PICK p \in call[c].plan :
        /\ CommitRows(call[c].user, call[c].req, call[c].action, p)
        /\ call' = [call EXCEPT ![c].phase = "committed", ![c].plan = {}, ![c].took = @ \cup {p.done}]
        /\ lock' = Released(c, call[c].req)
  BY DEF Commit, CommitRows, WrittenTasks, NewTasks
<1>3. PlanHolds(call[c].user, call[c].req, call[c].action, p) /\ HistoryInv
  BY <1>1 DEF CallsInv
<1>4. \E t \in Rows : EngineStep(call[c].user, call[c].req, t)
  BY <1>1, <1>2, <1>3, CommitSteps
<1> DEFINE x == [call[c] EXCEPT !.phase = "committed", !.plan = {}, !.took = @ \cup {p.done}]
<1>5. p.done \in TaskKeys
  BY <1>3 DEF PlanHolds, PlanRows
<1>6. x \in CallRows /\ x.phase = "committed"
  BY <1>1, <1>5 DEF CallRows, Phases
<1>7. call' = [call EXCEPT ![c] = x]
  BY <1>2 DEF CallsInv, CallsTyped
<1> HIDE DEF x
<1>8. Quiet(c)
  BY <1>6, <1>7 DEF Quiet, Unprepared
<1>9. LockKept(c)
  BY <1>1, <1>2 DEF LockKept
<1> QED
  BY <1>1, <1>4, <1>8, <1>9
-----------------------------------------------------------------------------
(* The system of calls.                                                    *)

\* A quiet step of one session keeps the types and what the others prepared.
LEMMA QuietKeeps ==
  ASSUME CallsTyped, NEW c \in Clients, Quiet(c), LockKept(c)
  PROVE  /\ CallsTyped' /\ ~InPhase(c, "prepared")'
         /\ \A d \in Clients \ {c} :
              /\ call'[d] = call[d]
              /\ \A r \in Requests : lock[r] = d => lock'[r] = d
<1>1. PICK x \in CallRows \cup {Idle} : call' = [call EXCEPT ![c] = x] /\ Unprepared(x)
  BY DEF Quiet
<1>2. call' \in [Clients -> CallRows \cup {Idle}] /\ call'[c] = x
  BY <1>1 DEF CallsTyped
<1>3. lock' \in [Requests -> Clients \cup {Free}]
  BY DEF CallsTyped, LockKept, Released
<1>4. \A d \in Clients \ {c} : \A r \in Requests : lock[r] = d => lock'[r] = d
  BY DEF CallsTyped, LockKept, Released
<1>5. \A d \in Clients \ {c} : call'[d] = call[d]
  BY <1>1 DEF CallsTyped
<1>6. ~InPhase(c, "prepared")'
  BY <1>1, <1>2 DEF InPhase, Unprepared
<1> QED
  BY <1>2, <1>3, <1>4, <1>5, <1>6 DEF CallsTyped

\* What a session has prepared lasts while its request's rows and its lock do.
LEMMA PreparedLasts ==
  ASSUME CallsTyped, NEW d \in Clients, Prepared(d), call'[d] = call[d],
         InPhase(d, "prepared") =>
           LET r == call[d].req IN
           /\ lock[r] = d => lock'[r] = d
           /\ status'[r] = status[r] /\ stage'[r] = stage[r] /\ tasks'[r] = tasks[r]
           /\ initiator'[r] = initiator[r]
  PROVE  Prepared(d)'
<1> SUFFICES ASSUME InPhase(d, "prepared")'
             PROVE  (/\ lock[call[d].req] = d
                     /\ \A p \in call[d].plan :
                          PlanHolds(call[d].user, call[d].req, call[d].action, p))'
  BY DEF Prepared
<1>1. InPhase(d, "prepared")
  BY DEF InPhase
<1>2. PICK u, r, a, plan :
        u = call[d].user /\ r = call[d].req /\ a = call[d].action /\ plan = call[d].plan
  OBVIOUS
<1>3. lock[r] = d /\ \A p \in plan : PlanHolds(u, r, a, p)
  BY <1>1, <1>2 DEF Prepared
<1>4. /\ lock'[r] = d
      /\ status'[r] = status[r] /\ stage'[r] = stage[r] /\ tasks'[r] = tasks[r]
      /\ initiator'[r] = initiator[r]
  BY <1>1, <1>2, <1>3
<1>5. ASSUME NEW p \in plan
      PROVE  PlanHolds(u, r, a, p)'
  BY <1>3, <1>4, PlanKeepsHolding
<1>6. (u = call[d].user /\ r = call[d].req /\ a = call[d].action /\ plan = call[d].plan)'
  BY <1>2
<1> QED
  BY <1>4, <1>5, <1>6

\* The rows of a request, but for the fields and the history that a PATCH may touch.
SameRows(r) ==
  /\ status'[r] = status[r] /\ stage'[r] = stage[r] /\ tasks'[r] = tasks[r]
  /\ initiator'[r] = initiator[r]

\* Creation and edits leave what sessions have prepared as it is: a request that is
\* being created has no prepared transaction.
LEMMA EditKeeps ==
  ASSUME TypeOK, CallsTyped, NEW d \in Clients, Prepared(d), Edit
  PROVE  StepNext /\ Prepared(d)'
<1>1. UNCHANGED callVars
  BY DEF Edit
<1>2. ASSUME NEW u \in Users, NEW r \in Requests, NEW write \in Writes, Create(u, r, write)
      PROVE  Prepared(d)'
  <2>1. \A q \in Requests \ {r} : SameRows(q)
    <3>1. tasks' = tasks
      BY <1>2 DEF Create
    <3>2. \A q \in Requests \ {r} :
            status'[q] = status[q] /\ stage'[q] = stage[q] /\ initiator'[q] = initiator[q]
      BY <1>2, CreateEvent
    <3> QED
      BY <3>1, <3>2 DEF SameRows
  <2>2. status[r] = NoRequest
    BY <1>2, CreateEvent
  <2>3. ASSUME InPhase(d, "prepared"), call[d].req = r
        PROVE  Prepared(d)'
    <3>1. ASSUME NEW p \in call[d].plan
          PROVE  FALSE
      <4>1. PICK t \in Rows : t.from = status[r]
        BY <2>3 DEF Prepared, PlanHolds
      <4> QED
        BY <2>2, <4>1, RowFacts DEF Statuses, NoRequest
    <3>2. call'[d] = call[d] /\ lock' = lock
      BY <1>1 DEF callVars
    <3> QED
      BY <2>3, <3>1, <3>2 DEF Prepared, InPhase
  <2>4. ASSUME InPhase(d, "prepared") => call[d].req # r
        PROVE  Prepared(d)'
    <3>1. InPhase(d, "prepared") => call[d].req \in Requests
      BY DEF InPhase, CallsTyped, CallRows
    <3>2. call'[d] = call[d] /\ lock' = lock
      BY <1>1 DEF callVars
    <3> QED
      BY <2>1, <2>4, <3>1, <3>2, PreparedLasts DEF SameRows
  <2> QED
    BY <2>3, <2>4
<1>3. ASSUME \/ \E u \in Users, r \in Requests, write \in Writes, w \in Workers :
                  PatchRead(w, u, r, write)
             \/ \E w \in Workers : PatchCommit(w) \/ PatchRollback(w)
      PROVE  Prepared(d)'
  <2>1. UNCHANGED <<status, stage, tasks, initiator>>
    BY <1>3 DEF PatchRead, PatchCommit, PatchRollback, requestVars
  <2>2. call'[d] = call[d] /\ lock' = lock
    BY <1>1 DEF callVars
  <2> QED
    BY <2>1, <2>2, PreparedLasts
<1>4. \/ \E u \in Users, r \in Requests, write \in Writes :
           Create(u, r, write) \/ \E w \in Workers : PatchRead(w, u, r, write)
      \/ \E w \in Workers : PatchCommit(w) \/ PatchRollback(w)
  BY DEF Edit, PatchUpdate
<1>5. StepNext
  BY <1>4 DEF StepNext
<1> QED
  BY <1>2, <1>3, <1>4, <1>5

\* A step of a session that changes no row keeps everything that is prepared.
LEMMA QuietCalls ==
  ASSUME CallsInv, NEW c \in Clients, Quiet(c), LockKept(c), UNCHANGED vars
  PROVE  CallsTyped' /\ \A d \in Clients : Prepared(d)'
<1>1. CallsTyped /\ \A d \in Clients : Prepared(d)
  BY DEF CallsInv
<1>2. Prepared(c)'
  BY <1>1, QuietKeeps DEF Prepared
<1>3. ASSUME NEW d \in Clients \ {c}
      PROVE  Prepared(d)'
  <2>1. call'[d] = call[d] /\ \A r \in Requests : lock[r] = d => lock'[r] = d
    BY <1>1, QuietKeeps
  <2>2. UNCHANGED <<status, stage, tasks, initiator>>
    BY DEF vars, requestVars
  <2>3. InPhase(d, "prepared") => call[d].req \in Requests
    BY <1>1 DEF InPhase, CallsTyped, CallRows
  <2> QED
    BY <1>1, <2>1, <2>2, <2>3, PreparedLasts
<1> QED
  BY <1>1, <1>2, <1>3, QuietKeeps

\* While c holds the lock of a request, its commit concerns no other session's plan.
LEMMA CommitCalls ==
  ASSUME CallsInv, NEW c \in Clients, Commit(c)
  PROVE  StepNext /\ CallsTyped' /\ \A d \in Clients : Prepared(d)'
<1>1. TypeOK /\ CallsTyped /\ \A d \in Clients : Prepared(d)
  BY DEF CallsInv, HistoryInv, EngineInv
<1>2. PICK u \in Users, r \in Requests, t \in Rows :
        u = call[c].user /\ r = call[c].req /\ EngineStep(u, r, t)
  BY CommitIsStep
<1>3. Quiet(c) /\ LockKept(c) /\ lock[r] = c
  BY <1>2, CommitIsStep
<1>4. StepNext
  BY <1>2 DEF StepNext
<1>5. Prepared(c)'
  BY <1>1, <1>3, QuietKeeps DEF Prepared
<1>6. ASSUME NEW d \in Clients \ {c}
      PROVE  Prepared(d)'
  <2>1. call'[d] = call[d] /\ \A q \in Requests : lock[q] = d => lock'[q] = d
    BY <1>1, <1>3, QuietKeeps
  <2>2. InPhase(d, "prepared") => call[d].req \in Requests /\ call[d].req # r
    BY <1>1, <1>3 DEF InPhase, CallsTyped, CallRows, Prepared
  <2>3. \A q \in Requests \ {r} : SameRows(q)
    BY <1>1, <1>2, StepEvent DEF EngineStep, SameRows
  <2> QED
    BY <1>1, <2>1, <2>2, <2>3, PreparedLasts DEF SameRows
<1> QED
  BY <1>1, <1>3, <1>4, <1>5, <1>6, QuietKeeps

\* The lock keeps a second session from preparing for the same request.
LEMMA PrepareCalls ==
  ASSUME CallsInv, NEW c \in Clients, Prepare(c)
  PROVE  CallsTyped' /\ \A d \in Clients : Prepared(d)'
<1>1. TypeOK /\ CallsTyped /\ \A d \in Clients : Prepared(d)
  BY DEF CallsInv, HistoryInv, EngineInv
<1>2. PICK x \in CallRows :
        /\ call' = [call EXCEPT ![c] = x] /\ x.req = call[c].req
        /\ \A p \in x.plan : PlanHolds(x.user, x.req, x.action, p)
  BY <1>1, PrepareHolds
<1>3. /\ UNCHANGED vars /\ lock[x.req] = Free /\ lock' = [lock EXCEPT ![x.req] = c]
      /\ x.req \in Requests
  BY <1>1, <1>2, PrepareHolds DEF CallRows
<1>4. CallsTyped'
  BY <1>1, <1>2, <1>3 DEF CallsTyped
<1>5. UNCHANGED <<status, stage, tasks, initiator>>
  BY <1>3 DEF vars, requestVars
<1>6. Prepared(c)'
  <2>1. PICK u, r, a, plan : u = x.user /\ r = x.req /\ a = x.action /\ plan = x.plan
    OBVIOUS
  <2>2. \A p \in plan : PlanHolds(u, r, a, p)'
    <3>1. ASSUME NEW p \in plan
          PROVE  PlanHolds(u, r, a, p)'
      BY <1>2, <1>5, <2>1, PlanKeepsHolding
    <3> QED
      BY <3>1
  <2>3. (u = call[c].user /\ r = call[c].req /\ a = call[c].action /\ plan = call[c].plan)'
    BY <1>1, <1>2, <2>1 DEF CallsTyped
  <2>4. lock'[r] = c
    BY <1>1, <1>3, <2>1 DEF CallsTyped
  <2> QED
    BY <2>2, <2>3, <2>4 DEF Prepared
<1>7. ASSUME NEW d \in Clients \ {c}
      PROVE  Prepared(d)'
  <2>1. call'[d] = call[d]
    BY <1>1, <1>2 DEF CallsTyped
  <2>2. \A r \in Requests : lock[r] = d => lock'[r] = d
    BY <1>1, <1>3, LocksAssumption DEF CallsTyped
  <2>3. InPhase(d, "prepared") => call[d].req \in Requests
    BY <1>1 DEF InPhase, CallsTyped, CallRows
  <2> QED
    BY <1>1, <1>5, <2>1, <2>2, <2>3, PreparedLasts
<1> QED
  BY <1>4, <1>6, <1>7

\* Every step of the system is one of the engine's, and keeps what is prepared.
LEMMA CallsNextInv ==
  ASSUME CallsInv, [CallsNext]_allVars
  PROVE  [StepNext]_vars /\ CallsInv'
<1>1. TypeOK /\ HistoryInv /\ CallsTyped /\ \A d \in Clients : Prepared(d)
  BY DEF CallsInv, HistoryInv, EngineInv
<1> DEFINE Goal == [StepNext]_vars /\ CallsTyped' /\ \A d \in Clients : Prepared(d)'
<1>2. ASSUME Edit
      PROVE  Goal
  <2>1. CallsTyped'
    BY <1>1, <1>2 DEF Edit, callVars, CallsTyped
  <2>2. ASSUME NEW d \in Clients
        PROVE  Prepared(d)'
    BY <1>1, <1>2, EditKeeps
  <2>3. StepNext
    <3>1. \/ \E u \in Users, r \in Requests, write \in Writes :
               Create(u, r, write) \/ \E w \in Workers : PatchRead(w, u, r, write)
          \/ \E w \in Workers : PatchCommit(w) \/ PatchRollback(w)
      BY <1>2 DEF Edit, PatchUpdate
    <3> QED
      BY <3>1 DEF StepNext
  <2> QED
    BY <2>1, <2>2, <2>3
<1>3. ASSUME NEW c \in Clients, CallStep(c)
      PROVE  Goal
  <2>1. CASE Commit(c)
    BY <2>1, CommitCalls
  <2>2. CASE Prepare(c)
    <3>1. UNCHANGED vars
      BY <2>2 DEF Prepare
    <3> QED
      BY <2>2, <3>1, PrepareCalls
  <2>3. CASE \E u \in Users, r \in Requests, a \in ActionCodes : Open(c, u, r, a)
    <3>1. Quiet(c) /\ LockKept(c) /\ UNCHANGED vars
      BY <1>1, <2>3, OpenQuiet
    <3> QED
      BY <3>1, QuietCalls
  <2>4. CASE \/ Click(c) \/ Close(c) \/ Authenticate(c) \/ Refuse(c) \/ Answer(c)
             \/ Crash(c) \/ LoseAnswer(c)
    <3>1. Quiet(c) /\ LockKept(c) /\ UNCHANGED vars
      BY <1>1, <2>4, CallQuiet
    <3> QED
      BY <3>1, QuietCalls
  <2> QED
    BY <1>3, <2>1, <2>2, <2>3, <2>4 DEF CallStep, Session
<1>4. ASSUME UNCHANGED callVars, UNCHANGED <<status, stage, tasks, initiator>>
      PROVE  CallsTyped' /\ \A d \in Clients : Prepared(d)'
  <2>1. CallsTyped'
    BY <1>1, <1>4 DEF callVars, CallsTyped
  <2>2. ASSUME NEW d \in Clients
        PROVE  Prepared(d)'
    BY <1>1, <1>4, PreparedLasts DEF callVars
  <2> QED
    BY <2>1, <2>2
<1>5. ASSUME \E c \in Configs : ReconfigureBesides(c)
      PROVE  Goal
  <2>1. StepNext /\ UNCHANGED callVars /\ UNCHANGED <<status, stage, tasks, initiator>>
    BY <1>5 DEF ReconfigureBesides, StepNext, Reconfigure, requestVars
  <2> QED
    BY <1>4, <2>1
<1>6. ASSUME UNCHANGED allVars
      PROVE  Goal
  <2>1. UNCHANGED vars /\ UNCHANGED callVars /\ UNCHANGED <<status, stage, tasks, initiator>>
    BY <1>6 DEF allVars, vars, requestVars
  <2> QED
    BY <1>4, <2>1
<1>7. Goal
  BY <1>2, <1>3, <1>5, <1>6 DEF CallsNext, CallsServe
<1>8. HistoryInv'
  BY <1>1, <1>7, NextHistory
<1> QED
  BY <1>7, <1>8 DEF CallsInv

\* A plan that holds names all the open tasks of its request.
LEMMA PlanNamesOpenTasks ==
  ASSUME TypeOK, NEW u \in Users, NEW r \in Requests, RequestInv(r), RequestHistory(r),
         NEW a, NEW p, PlanHolds(u, r, a, p),
         NEW open, open = {Key(t) : t \in {x \in tasks[r] : x.status = "open"}}
  PROVE  IF p.done = NoTask THEN open = {}
         ELSE p.done[2] = u /\ open = p.siblings \cup {p.done}
<1>1. PICK t \in Rows :
        /\ t.from = status[r]
        /\ \/ PlanAsks(r, t, p) \/ PlanPasses(u, r, t, p) \/ PlanEnds(u, r, t, p)
           \/ PlanRefuses(u, r, t, p) \/ PlanMoves(r, t, p)
  BY DEF PlanHolds
<1>2. CASE PlanAsks(r, t, p) \/ PlanMoves(r, t, p)
  <2>1. p.done = NoTask
    BY <1>2 DEF PlanAsks, PlanMoves, ClosesNothing
  <2>2. \A x \in tasks[r] : x.status # "open"
    BY <1>1, <1>2, NoneOpenElsewhere DEF PlanAsks, PlanMoves
  <2> QED
    BY <2>1, <2>2
<1>3. CASE Closes(u, r, p)
  <2>1. PICK x \in OpenTasks(u, r) :
          p.done = Key(x) /\ p.siblings = {Key(y) : y \in Siblings(r, x)}
    BY <1>3 DEF Closes
  <2>2. x \in tasks[r] /\ x.status = "open" /\ x.assignee = u /\ x.stage = stage[r]
    BY DEF OpenTasks, RequestInv
  <2>3. p.done # NoTask /\ p.done[2] = u
    <3>1. x.batch >= 1
      BY <2>2 DEF RequestHistory
    <3> QED
      BY <2>1, <2>2, <3>1 DEF Key, NoTask
  <2>4. {y \in tasks[r] : y.status = "open"} = Siblings(r, x) \cup {x}
    BY <2>2 DEF Siblings, RequestInv
  <2>5. open = {Key(y) : y \in Siblings(r, x)} \cup {Key(x)}
    BY <2>4
  <2> QED
    BY <2>1, <2>3, <2>5
<1> QED
  BY <1>1, <1>2, <1>3 DEF PlanPasses, PlanEnds, PlanRefuses

\* What is prepared is what the rows say.
LEMMA PreparedHolds == CallsInv => PreparedReadsHold
<1> SUFFICES ASSUME CallsInv, NEW c \in Clients, InPhase(c, "prepared"), NEW p \in call[c].plan
             PROVE  LET r == call[c].req
                        open == {Key(t) : t \in {x \in tasks[r] : x.status = "open"}}
                    IN  /\ status[r] = p.from
                        /\ IF p.done = NoTask THEN open = {}
                           ELSE p.done[2] = call[c].user /\ open = p.siblings \cup {p.done}
  BY DEF PreparedReadsHold
<1>1. /\ TypeOK /\ call[c].req \in Requests /\ call[c].user \in Users
      /\ RequestInv(call[c].req) /\ RequestHistory(call[c].req)
      /\ PlanHolds(call[c].user, call[c].req, call[c].action, p)
  <2>1. call[c] \in CallRows
    BY DEF CallsInv, CallsTyped, InPhase
  <2>2. call[c].req \in Requests /\ call[c].user \in Users
    BY <2>1 DEF CallRows
  <2>3. TypeOK /\ \A q \in Requests : RequestInv(q) /\ RequestHistory(q)
    BY EngineInvByRequest DEF CallsInv, HistoryInv
  <2>4. PlanHolds(call[c].user, call[c].req, call[c].action, p)
    BY DEF CallsInv, Prepared
  <2> QED
    BY <2>2, <2>3, <2>4
<1>2. status[call[c].req] = p.from
  BY <1>1 DEF PlanHolds
<1>3. PICK open : open = {Key(t) : t \in {x \in tasks[call[c].req] : x.status = "open"}}
  OBVIOUS
<1>4. IF p.done = NoTask THEN open = {}
      ELSE p.done[2] = call[c].user /\ open = p.siblings \cup {p.done}
  <2>1. PICK u \in Users, r \in Requests : u = call[c].user /\ r = call[c].req
    BY <1>1
  <2> QED
    BY <1>1, <1>3, <2>1, PlanNamesOpenTasks, SMTT(30)
<1> QED
  BY <1>2, <1>3, <1>4

\* The locks, the phases and the plans of the calls are right, whoever else acts.
THEOREM CallsInvariant == CallsSpec => []CallsInv
<1>1. CallsInit => CallsInv
  BY InitHistory DEF CallsInit, CallsInv, CallsTyped, Prepared, InPhase
<1>2. CallsInv /\ [CallsNext]_allVars => CallsInv'
  BY CallsNextInv
<1> QED
  BY <1>1, <1>2, PTL DEF CallsSpec

\* Every transaction of the calls is one step of the engine when it commits, although it
\* has read its rows and the live configuration before, and although sessions crash.
THEOREM CallsTakeSteps == CallsSpec => StepSpec
<1>1. CallsInit => Init
  BY DEF CallsInit
<1>2. CallsInv /\ [CallsNext]_allVars => [StepNext]_vars
  BY CallsNextInv
<1> QED
  BY <1>1, <1>2, CallsInvariant, PTL DEF CallsSpec, StepSpec

\* Under the row lock, what _load_request and _require_open_task read holds to the commit.
THEOREM PreparedReadsStay == CallsSpec => []PreparedReadsHold
BY CallsInvariant, PreparedHolds, PTL

\* NFR-REL-03 with sessions that overlap: the open tasks belong to the current stage.
THEOREM CallsKeepTasks == CallsSpec => []OpenTasksAtCurrentStage
<1>1. EngineInv => OpenTasksAtCurrentStage
  BY DEF EngineInv
<1> QED
  BY <1>1, CallsTakeSteps, StepInvariant, PTL

\* BR-21 with sessions that overlap: nobody completes a task of a request of their own.
THEOREM CallsExcludeSelfApproval == CallsSpec => []NoSelfApproval
<1>1. EngineInv => NoSelfApproval
  BY DEF EngineInv
<1> QED
  BY <1>1, CallsTakeSteps, StepInvariant, PTL

\* BR-03 with sessions that overlap: two approvers of a stage never both decide it.
THEOREM CallsDecideOnce == CallsSpec => []DecisionsCloseBatches
BY CallsTakeSteps, StepHistories, HistoryImplies, PTL

\* The calls keep the promise of RequestLifecycle as well.
THEOREM CallsImplementLifecycle == CallsSpec => KeepsLifecycle
BY CallsTakeSteps, StepsImplementLifecycle, PTL
-----------------------------------------------------------------------------
(* While the configuration stays, a prepared plan is one that its           *)
(* transaction would make again, and so its commit is an execution.         *)

\* The rows that a transaction reads.
SameReads(r) == SameRows(r) /\ values'[r] = values[r] /\ config' = config

\* What is read of the configuration alone.
LEMMA SameRoute ==
  ASSUME config' = config
  PROVE  /\ FirstStages' = FirstStages
         /\ \A s : NextStages(s)' = NextStages(s) /\ ResolveAssignees(s)' = ResolveAssignees(s)
<1>1. FirstStages' = FirstStages
  BY DEF FirstStages, Precedes
<1>2. ASSUME NEW s
      PROVE  NextStages(s)' = NextStages(s) /\ ResolveAssignees(s)' = ResolveAssignees(s)
  BY DEF NextStages, Later, Precedes, ResolveAssignees
<1> QED
  BY <1>1, <1>2

\* The plans for an approval that closes the task x.
PlansToAdvance(r, t, x) ==
  IF NextStages(x.stage) = {}
  THEN {PlanFor(r, t.to, NoStage, Key(x), Siblings(r, x), {})}
  ELSE {PlanFor(r, "in_approval", s, Key(x), Siblings(r, x), ResolveAssignees(s)) :
          s \in {y \in NextStages(x.stage) : ResolveAssignees(y) # {}}}

\* The plans depend on these rows only.
LEMMA SamePlans ==
  ASSUME NEW u, NEW role, NEW r, NEW t, SameReads(r)
  PROVE  Plans(u, role, r, t)' = Plans(u, role, r, t)
<1>1. /\ status'[r] = status[r] /\ stage'[r] = stage[r] /\ tasks'[r] = tasks[r]
      /\ initiator'[r] = initiator[r] /\ values'[r] = values[r] /\ config' = config
  BY DEF SameReads, SameRows
<1>2. NotSelfApproval(u, r)' = NotSelfApproval(u, r)
  BY <1>1 DEF NotSelfApproval
<1>3. RequireOpenTask(u, r)' = RequireOpenTask(u, r)
  BY <1>1 DEF RequireOpenTask, OpenTasksOf
<1>4. ASSUME NEW to, NEW s, NEW done, NEW siblings, NEW who
      PROVE  PlanFor(r, to, s, done, siblings, who)' = PlanFor(r, to, s, done, siblings, who)
  BY <1>1 DEF PlanFor
<1>5. ASSUME NEW x
      PROVE  Siblings(r, x)' = Siblings(r, x)
  BY <1>1 DEF Siblings
<1>6. ValidateSubmit(r)' = ValidateSubmit(r)
  BY <1>1 DEF ValidateSubmit
<1>7. DecidePlans(u, r, t)' = DecidePlans(u, r, t)
  BY <1>1, <1>3, <1>5 DEF DecidePlans, PlanFor
<1>8. SubmitPlans(r, t)' = SubmitPlans(r, t)
  BY <1>1, <1>6, SameRoute DEF SubmitPlans, PlanFor
<1>9. AdvancePlans(u, r, t)' = AdvancePlans(u, r, t)
  <2>1. ASSUME NEW x
        PROVE  PlansToAdvance(r, t, x)' = PlansToAdvance(r, t, x)
    <3>1. {PlanFor(r, t.to, NoStage, Key(x), Siblings(r, x), {})}' =
            {PlanFor(r, t.to, NoStage, Key(x), Siblings(r, x), {})}
      BY <1>1, <1>5 DEF PlanFor
    <3>2. {PlanFor(r, "in_approval", s, Key(x), Siblings(r, x), ResolveAssignees(s)) :
             s \in {y \in NextStages(x.stage) : ResolveAssignees(y) # {}}}' =
          {PlanFor(r, "in_approval", s, Key(x), Siblings(r, x), ResolveAssignees(s)) :
             s \in {y \in NextStages(x.stage) : ResolveAssignees(y) # {}}}
      BY <1>1, <1>5, SameRoute DEF PlanFor
    <3>3. NextStages(x.stage)' = NextStages(x.stage)
      BY <1>1, SameRoute
    <3> QED
      BY <3>1, <3>2, <3>3 DEF PlansToAdvance
  <2>2. /\ AdvancePlans(u, r, t) = UNION {PlansToAdvance(r, t, x) : x \in RequireOpenTask(u, r)}
        /\ AdvancePlans(u, r, t)' = UNION {PlansToAdvance(r, t, x) : x \in RequireOpenTask(u, r)}'
    BY DEF AdvancePlans, PlansToAdvance
  <2> QED
    BY <1>3, <2>1, <2>2
<1>10. LeavePlans(r, t)' = LeavePlans(r, t)
  BY <1>1 DEF LeavePlans, PlanFor
<1> QED
  BY <1>2, <1>7, <1>8, <1>9, <1>10 DEF Plans

\* So does what a transaction finds.
LEMMA SameExecutable ==
  ASSUME NEW x, SameReads(x.req)
  PROVE  Executable(x)' = Executable(x)
<1>1. PICK r : r = x.req
  OBVIOUS
<1>2. Found(x)' = Found(x)
  BY DEF SameReads, SameRows, Found, FindTransition
<1>3. \A t : Plans(x.user, x.role, r, t)' = Plans(x.user, x.role, r, t)
  BY <1>1, SamePlans
<1> QED
  BY <1>1, <1>2, <1>3 DEF Executable

\* What a transaction finds does not depend on how far it has come.
LEMMA ExecutableByCall ==
  ASSUME NEW x, NEW y,
         y.user = x.user, y.role = x.role, y.req = x.req, y.action = x.action
  PROVE  Executable(y) = Executable(x)
BY DEF Executable, Found

\* The commit of a plan that the live rows call for is an execution.
LEMMA PlanExecutes ==
  ASSUME HistoryInv, NEW u \in Users, NEW r \in Requests, NEW role, NEW a,
         status[r] # NoRequest, Fresh(r), role = "employee" => initiator[r] = u,
         NEW t \in FindTransition(role, r, a),
         NEW p \in Plans(u, role, r, t), CommitRows(u, r, a, p)
  PROVE  t \in config.transitions /\ Execute(u, role, r, t)
<1>1. TypeOK /\ RequestInv(r) /\ RequestHistory(r)
  BY EngineInvByRequest DEF HistoryInv
<1>2. /\ t \in config.transitions /\ t.action = a /\ t \in Rows /\ config \in Configs
      /\ MayExecute(u, role, r, t)
  BY <1>1, ConfigFacts DEF TypeOK, FindTransition, MayExecute
<1>3. t.effect \in {"status_only", "approve_advance"} /\ t.to \in Statuses
  BY <1>2, ConfigsAssumption DEF IsConfig, Transitions
<1>4. /\ SetRequest(r, p.to, p.stage)
      /\ SetTasks(r, WrittenTasks(r, p), NewTasks(r, p.stage, p.assignees))
      /\ RecordFrom(p.from, u, r, t.action, p.to, p.done, NewTasks(r, p.stage, p.assignees))
      /\ comments' = IF p.to \in {"rejected", "returned"}
                     THEN [comments EXCEPT ![r] = @ \cup
                            {[ev |-> Len(history[r]) + 1, author |-> u, task |-> p.done]}]
                     ELSE comments
      /\ UNCHANGED <<config, initiator, values, patch>>
  BY <1>2 DEF CommitRows
<1>5. \A s : NewTasks(r, s, {}) = {} /\ NewTasks(r, s, ResolveAssignees(s)) = CreateTasks(r, s)
  BY DEF NewTasks, CreateTasks
<1>6. ASSUME NEW s, ResolveAssignees(s) # {}
      PROVE  CreateTasks(r, s) # {}
  <2>1. PICK v \in ResolveAssignees(s) : TRUE
    BY <1>6
  <2>2. [batch |-> batch[r] + 1, stage |-> s, assignee |-> v, status |-> "open"] \in CreateTasks(r, s)
    BY DEF CreateTasks
  <2> QED
    BY <2>2
<1>7. CASE t.effect = "approve_advance"
  <2>1. NotSelfApproval(u, r) /\ p \in AdvancePlans(u, r, t)
    BY <1>7 DEF Plans
  <2>2. PICK x \in RequireOpenTask(u, r) :
          p \in IF NextStages(x.stage) = {}
                THEN {PlanFor(r, t.to, NoStage, Key(x), Siblings(r, x), {})}
                ELSE {PlanFor(r, "in_approval", s, Key(x), Siblings(r, x), ResolveAssignees(s)) :
                        s \in {y \in NextStages(x.stage) : ResolveAssignees(y) # {}}}
    BY <2>1 DEF AdvancePlans
  <2>3. ASSUME p.done = Key(x), p.siblings = {Key(y) : y \in Siblings(r, x)}
        PROVE  WrittenTasks(r, p) = CloseStage(r, x)
    BY <1>1, <2>1, <2>3, FoundTask, WrittenCloses
  <2>4. CASE NextStages(x.stage) = {} /\ p = PlanFor(r, t.to, NoStage, Key(x), Siblings(r, x), {})
    <3>1. /\ p.from = status[r] /\ p.to = t.to /\ p.stage = NoStage /\ p.done = Key(x)
          /\ p.siblings = {Key(y) : y \in Siblings(r, x)} /\ p.assignees = {}
      BY <2>4 DEF PlanFor
    <3>2. /\ SetRequest(r, t.to, NoStage) /\ SetTasks(r, CloseStage(r, x), {})
          /\ Record(u, r, t.action, t.to, Key(x), {})
      BY <1>4, <1>5, <2>3, <3>1 DEF Record
    <3>3. comments' = comments
      BY <1>2, <1>4, <1>7, <3>1, RowFacts
    <3>4. ApproveFinal(u, role, r, t)
      BY <1>2, <1>4, <1>7, <2>1, <2>4, <3>2, <3>3 DEF ApproveFinal
    <3> QED
      BY <1>2, <3>4 DEF Execute
  <2>5. ASSUME NEW s \in NextStages(x.stage), ResolveAssignees(s) # {},
               p = PlanFor(r, "in_approval", s, Key(x), Siblings(r, x), ResolveAssignees(s))
        PROVE  Execute(u, role, r, t)
    <3>1. /\ p.from = status[r] /\ p.to = "in_approval" /\ p.stage = s /\ p.done = Key(x)
          /\ p.siblings = {Key(y) : y \in Siblings(r, x)} /\ p.assignees = ResolveAssignees(s)
      BY <2>5 DEF PlanFor
    <3>2. /\ SetRequest(r, "in_approval", s) /\ SetTasks(r, CloseStage(r, x), CreateTasks(r, s))
          /\ Record(u, r, t.action, "in_approval", Key(x), CreateTasks(r, s))
      BY <1>4, <1>5, <2>3, <3>1 DEF Record
    <3>3. comments' = comments
      BY <1>4, <3>1
    <3>4. ApproveNext(u, role, r, t)
      BY <1>2, <1>4, <1>6, <1>7, <2>1, <2>5, <3>2, <3>3 DEF ApproveNext
    <3> QED
      BY <3>4 DEF Execute
  <2> QED
    BY <1>2, <2>2, <2>4, <2>5
<1>8. CASE t.effect = "status_only" /\ t.to \in {"rejected", "returned"}
  <2>1. NotSelfApproval(u, r) /\ p \in DecidePlans(u, r, t)
    BY <1>8 DEF Plans
  <2>2. PICK x \in RequireOpenTask(u, r) :
          p = PlanFor(r, t.to, stage[r], Key(x), Siblings(r, x), {})
    BY <2>1 DEF DecidePlans
  <2>3. /\ p.from = status[r] /\ p.to = t.to /\ p.stage = stage[r] /\ p.done = Key(x)
        /\ p.siblings = {Key(y) : y \in Siblings(r, x)} /\ p.assignees = {}
    BY <2>2 DEF PlanFor
  <2>4. WrittenTasks(r, p) = CloseStage(r, x)
    BY <1>1, <2>1, <2>3, FoundTask, WrittenCloses
  <2>5. /\ SetRequest(r, t.to, stage[r]) /\ SetTasks(r, CloseStage(r, x), {})
        /\ Record(u, r, t.action, t.to, Key(x), {})
    BY <1>4, <1>5, <2>3, <2>4 DEF Record
  <2>6. comments' = [comments EXCEPT ![r] = @ \cup
          {[ev |-> Len(history[r]) + 1, author |-> u, task |-> Key(x)]}]
    BY <1>4, <1>8, <2>3
  <2>7. Decide(u, role, r, t)
    BY <1>2, <1>4, <1>8, <2>1, <2>5, <2>6 DEF Decide
  <2> QED
    BY <1>2, <2>7 DEF Execute
<1>9. CASE t.effect = "status_only" /\ t.to = "in_approval"
  <2>1. p \in SubmitPlans(r, t)
    BY <1>9 DEF Plans
  <2>2. PICK s \in FirstStages :
          /\ ValidateSubmit(r) /\ ResolveAssignees(s) # {}
          /\ p = PlanFor(r, t.to, s, NoTask, {}, ResolveAssignees(s))
    BY <2>1 DEF SubmitPlans
  <2>3. /\ p.from = status[r] /\ p.to = t.to /\ p.stage = s /\ p.done = NoTask
        /\ p.siblings = {} /\ p.assignees = ResolveAssignees(s)
    BY <2>2 DEF PlanFor
  <2>4. WrittenTasks(r, p) = tasks[r]
    BY <1>1, <2>3, WrittenNothing DEF ClosesNothing
  <2>5. /\ SetRequest(r, t.to, s) /\ SetTasks(r, tasks[r], CreateTasks(r, s))
        /\ Record(u, r, t.action, t.to, NoTask, CreateTasks(r, s))
    BY <1>4, <1>5, <2>3, <2>4 DEF Record
  <2>6. comments' = comments
    BY <1>4, <1>9, <2>3
  <2>7. Submit(u, role, r, t)
    BY <1>2, <1>4, <1>6, <1>9, <2>2, <2>5, <2>6 DEF Submit
  <2> QED
    BY <1>2, <2>7 DEF Execute
<1>10. CASE t.effect = "status_only" /\ t.to \in {"cancelled", "draft", "approved"}
  <2>1. p = PlanFor(r, t.to, NoStage, NoTask, {}, {})
    BY <1>10 DEF Plans, LeavePlans
  <2>2. /\ p.from = status[r] /\ p.to = t.to /\ p.stage = NoStage /\ p.done = NoTask
        /\ p.siblings = {} /\ p.assignees = {}
    BY <2>1 DEF PlanFor
  <2>3. WrittenTasks(r, p) = tasks[r]
    BY <1>1, <2>2, WrittenNothing DEF ClosesNothing
  <2>4. /\ SetRequest(r, t.to, NoStage) /\ SetTasks(r, tasks[r], {})
        /\ Record(u, r, t.action, t.to, NoTask, {})
    BY <1>4, <1>5, <2>2, <2>3 DEF Record
  <2>5. tasks' = tasks /\ batch' = batch /\ comments' = comments
    BY <1>1, <1>4, <1>10, <2>2, <2>4 DEF SetTasks, TypeOK
  <2>6. Leave(u, role, r, t)
    BY <1>2, <1>4, <1>10, <2>4, <2>5 DEF Leave
  <2> QED
    BY <1>2, <2>6 DEF Execute
<1> QED
  BY <1>2, <1>3, <1>7, <1>8, <1>9, <1>10 DEF Statuses
-----------------------------------------------------------------------------
(* The bound: the events of a request and those that are in flight for it.  *)

CallsIn(r) ==
  {c \in Clients : call[c] # Idle /\ call[c].req = r /\ call[c].phase \in Uncommitted}
PatchesIn(r) == {w \in Workers : patch[w] # NoPatch /\ patch[w].req = r}

\* Room was found for what is in flight.
WithinBound(r) == InFlight(r) = 0 \/ Len(history[r]) + InFlight(r) <= MaxEvents

\* What the size of a set becomes when it loses or gains members.
LEMMA Sizes ==
  ASSUME NEW S, IsFiniteSet(S), NEW T
  PROVE  /\ Cardinality(S) \in Nat
         /\ T \subseteq S => Cardinality(T) \in Nat /\ Cardinality(T) <= Cardinality(S)
         /\ T \subseteq S /\ T # S => Cardinality(T) + 1 <= Cardinality(S)
         /\ \A x : T \subseteq S \cup {x} => Cardinality(T) \in Nat /\ Cardinality(T) <= Cardinality(S) + 1
<1>1. Cardinality(S) \in Nat
  BY FS_CardinalityType
<1>2. ASSUME T \subseteq S
      PROVE  Cardinality(T) \in Nat /\ Cardinality(T) <= Cardinality(S)
  BY <1>2, FS_Subset, FS_CardinalityType
<1>3. ASSUME T \subseteq S, T # S
      PROVE  Cardinality(T) + 1 <= Cardinality(S)
  <2>1. PICK n, m \in Nat : n = Cardinality(S) /\ m = Cardinality(T)
    BY <1>1, <1>2, <1>3
  <2>2. m <= n /\ m # n
    BY <1>3, <2>1, FS_Subset
  <2> QED
    BY <2>1, <2>2
<1>4. ASSUME NEW x, T \subseteq S \cup {x}
      PROVE  Cardinality(T) \in Nat /\ Cardinality(T) <= Cardinality(S) + 1
  <2>1. /\ IsFiniteSet(S \cup {x}) /\ Cardinality(S \cup {x}) \in Nat
        /\ Cardinality(S \cup {x}) <= Cardinality(S) + 1
    <3>1. PICK n \in Nat : n = Cardinality(S)
      BY <1>1
    <3>2. IsFiniteSet(S \cup {x}) /\ Cardinality(S \cup {x}) \in {n, n + 1}
      BY <3>1, FS_AddElement
    <3> QED
      BY <3>1, <3>2
  <2>2. Cardinality(T) \in Nat /\ Cardinality(T) <= Cardinality(S \cup {x})
    BY <1>4, <2>1, FS_Subset, FS_CardinalityType
  <2> QED
    BY <1>1, <2>1, <2>2
<1> QED
  BY <1>1, <1>2, <1>3, <1>4

\* Calls and edits in flight are finitely many.
LEMMA InFlightIs ==
  ASSUME NEW r
  PROVE  /\ IsFiniteSet(CallsIn(r)) /\ IsFiniteSet(PatchesIn(r))
         /\ Cardinality(CallsIn(r)) \in Nat /\ Cardinality(PatchesIn(r)) \in Nat
         /\ InFlight(r) = Cardinality(CallsIn(r)) + Cardinality(PatchesIn(r))
<1>1. CallsIn(r) \subseteq Clients /\ PatchesIn(r) \subseteq Workers
  BY DEF CallsIn, PatchesIn
<1>2. IsFiniteSet(CallsIn(r)) /\ IsFiniteSet(PatchesIn(r))
  BY <1>1, FiniteAssumption, FS_Subset
<1>3. Cardinality(CallsIn(r)) \in Nat /\ Cardinality(PatchesIn(r)) \in Nat
  BY <1>2, FS_CardinalityType
<1> QED
  BY <1>2, <1>3 DEF InFlight, CallsIn, PatchesIn

\* The sizes n and m of what is in flight, next to those before.
Counts(r, n, m, k, l) ==
  /\ n = Cardinality(CallsIn(r)) /\ m = Cardinality(PatchesIn(r))
  /\ k = Cardinality(CallsIn(r)') /\ l = Cardinality(PatchesIn(r)')

\* InFlight before and after, as numbers.
LEMMA Counted ==
  ASSUME NEW r, IsFiniteSet(CallsIn(r)'), IsFiniteSet(PatchesIn(r)')
  PROVE  \E n, m, k, l \in Nat :
           /\ Counts(r, n, m, k, l)
           /\ InFlight(r) = n + m /\ InFlight(r)' = k + l
<1>1. Cardinality(CallsIn(r)') \in Nat /\ Cardinality(PatchesIn(r)') \in Nat
  BY FS_CardinalityType
<1>2. InFlight(r)' = Cardinality(CallsIn(r)') + Cardinality(PatchesIn(r)')
  BY DEF InFlight, CallsIn, PatchesIn
<1> QED
  BY <1>1, <1>2, InFlightIs DEF Counts

\* What stays in flight, or ends there, or leaves its event, stays within the bound.
LEMMA BoundLasts ==
  ASSUME NEW r, Len(history[r]) \in Nat, WithinBound(r),
         CallsIn(r)' \subseteq CallsIn(r), PatchesIn(r)' \subseteq PatchesIn(r),
         \/ Len(history[r])' = Len(history[r])
         \/ Len(history[r])' = Len(history[r]) + 1 /\ CallsIn(r)' # CallsIn(r)
         \/ Len(history[r])' = Len(history[r]) + 1 /\ PatchesIn(r)' # PatchesIn(r)
         \/ Len(history[r])' \in Nat /\ CallsIn(r) = {} /\ PatchesIn(r) = {}
  PROVE  WithinBound(r)'
<1>1. IsFiniteSet(CallsIn(r)') /\ IsFiniteSet(PatchesIn(r)')
  BY InFlightIs, FS_Subset
<1>2. PICK n, m, k, l \in Nat :
        Counts(r, n, m, k, l) /\ InFlight(r) = n + m /\ InFlight(r)' = k + l
  BY <1>1, Counted
<1>3. k <= n /\ l <= m
  BY <1>2, InFlightIs, Sizes DEF Counts
<1>4. /\ CallsIn(r)' # CallsIn(r) => k + 1 <= n
      /\ PatchesIn(r)' # PatchesIn(r) => l + 1 <= m
  BY <1>2, InFlightIs, Sizes DEF Counts
<1>5. CallsIn(r) = {} /\ PatchesIn(r) = {} => n = 0 /\ m = 0
  BY <1>2, FS_EmptySet DEF Counts
<1>6. PICK e \in Nat, f \in Nat : e = Len(history[r]) /\ f = Len(history[r])'
  OBVIOUS
<1>7. n + m = 0 \/ e + (n + m) <= MaxEvents
  BY <1>2, <1>6 DEF WithinBound
<1>8. \/ f = e
      \/ f = e + 1 /\ k + 1 <= n
      \/ f = e + 1 /\ l + 1 <= m
      \/ n = 0 /\ m = 0
  <2>1. CASE Len(history[r])' = Len(history[r])
    <3>1. f = e
      BY <1>6, <2>1, Zenon
    <3> QED
      BY <3>1
  <2>2. CASE Len(history[r])' = Len(history[r]) + 1 /\ CallsIn(r)' # CallsIn(r)
    <3>1. f = e + 1 /\ k + 1 <= n
      BY <1>4, <1>6, <2>2, Zenon
    <3> QED
      BY <3>1
  <2>3. CASE Len(history[r])' = Len(history[r]) + 1 /\ PatchesIn(r)' # PatchesIn(r)
    <3>1. f = e + 1 /\ l + 1 <= m
      BY <1>4, <1>6, <2>3, Zenon
    <3> QED
      BY <3>1
  <2>4. CASE CallsIn(r) = {} /\ PatchesIn(r) = {}
    BY <1>5, <2>4
  <2> QED
    BY <2>1, <2>2, <2>3, <2>4
<1>9. k + l = 0 \/ f + (k + l) <= MaxEvents
  BY <1>3, <1>7, <1>8, BoundsAssumption
<1> QED
  BY <1>2, <1>6, <1>9 DEF WithinBound

\* One more call or edit is within the bound if there was room for it.
LEMMA BoundTakes ==
  ASSUME NEW r, Len(history[r]) \in Nat, Room(r), Len(history[r])' = Len(history[r]),
         \/ PatchesIn(r)' = PatchesIn(r) /\ \E c : CallsIn(r)' \subseteq CallsIn(r) \cup {c}
         \/ CallsIn(r)' = CallsIn(r) /\ \E w : PatchesIn(r)' \subseteq PatchesIn(r) \cup {w}
  PROVE  WithinBound(r)'
<1>1. IsFiniteSet(CallsIn(r)') /\ IsFiniteSet(PatchesIn(r)')
  <2>1. \A S, T, x : IsFiniteSet(S) /\ T \subseteq S \cup {x} => IsFiniteSet(T)
    BY FS_Subset, FS_AddElement
  <2>2. IsFiniteSet(CallsIn(r)) /\ IsFiniteSet(PatchesIn(r))
    BY InFlightIs
  <2>3. CASE PatchesIn(r)' = PatchesIn(r) /\ \E c : CallsIn(r)' \subseteq CallsIn(r) \cup {c}
    BY <2>1, <2>2, <2>3
  <2>4. CASE CallsIn(r)' = CallsIn(r) /\ \E w : PatchesIn(r)' \subseteq PatchesIn(r) \cup {w}
    BY <2>1, <2>2, <2>4
  <2> QED
    BY <2>3, <2>4
<1>2. PICK n, m, k, l \in Nat :
        Counts(r, n, m, k, l) /\ InFlight(r) = n + m /\ InFlight(r)' = k + l
  BY <1>1, Counted
<1>3. k + l <= n + m + 1
  <2>1. CASE PatchesIn(r)' = PatchesIn(r) /\ \E c : CallsIn(r)' \subseteq CallsIn(r) \cup {c}
    <3>1. l = m /\ k <= n + 1
      BY <1>2, <2>1, InFlightIs, Sizes DEF Counts
    <3> QED
      BY <3>1
  <2>2. CASE CallsIn(r)' = CallsIn(r) /\ \E w : PatchesIn(r)' \subseteq PatchesIn(r) \cup {w}
    <3>1. k = n /\ l <= m + 1
      BY <1>2, <2>2, InFlightIs, Sizes DEF Counts
    <3> QED
      BY <3>1
  <2> QED
    BY <2>1, <2>2
<1>4. PICK e \in Nat : e = Len(history[r])
  OBVIOUS
<1>5. e + (n + m) < MaxEvents
  BY <1>2, <1>4 DEF Room
<1>6. e + (k + l) <= MaxEvents
  BY <1>3, <1>5, BoundsAssumption
<1> QED
  BY <1>2, <1>4, <1>6 DEF WithinBound

\* A call that has not committed may still act.
LEMMA StillFresh ==
  ASSUME NEW r, Len(history[r]) \in Nat, WithinBound(r), CallsIn(r) # {}
  PROVE  Fresh(r)
<1>1. PICK n, m \in Nat : n = Cardinality(CallsIn(r)) /\ m = Cardinality(PatchesIn(r))
                          /\ InFlight(r) = n + m
  BY InFlightIs
<1>2. n # 0
  BY <1>1, InFlightIs, FS_EmptySet
<1>3. PICK e \in Nat : e = Len(history[r])
  OBVIOUS
<1>4. e + (n + m) <= MaxEvents
  BY <1>1, <1>2, <1>3 DEF WithinBound
<1>5. e < MaxEvents
  BY <1>2, <1>4, BoundsAssumption
<1> QED
  BY <1>3, <1>5 DEF Fresh
-----------------------------------------------------------------------------
(* The invariant of a system that is not being reconfigured: its sessions   *)
(* are up to date.                                                          *)

\* The session of c works with the role its user has, and its plan is one that it
\* would make again.
UpToDate(c) ==
  call[c] # Idle =>
    /\ status[call[c].req] # NoRequest
    /\ call[c].phase \in {"authenticated", "prepared"} => call[c].role = config.role[call[c].user]
    /\ call[c].phase = "prepared" => call[c].plan \subseteq Executable(call[c])

StableInv ==
  /\ CallsInv
  /\ \A c \in Clients : UpToDate(c)
  /\ \A r \in Requests : WithinBound(r)

\* What is needed of the invariant everywhere.
LEMMA StableFacts ==
  ASSUME StableInv
  PROVE  /\ TypeOK /\ HistoryInv /\ PatchesSeen /\ CallsTyped /\ config \in Configs
         /\ \A c \in Clients : Prepared(c) /\ UpToDate(c)
         /\ \A c \in Clients : call[c] # Idle =>
              call[c] \in CallRows /\ call[c].req \in Requests /\ call[c].user \in Users
         /\ \A r \in Requests : WithinBound(r) /\ history[r] \in Seq(Events) /\ Len(history[r]) \in Nat
<1>1. TypeOK /\ HistoryInv /\ PatchesSeen /\ CallsTyped
  BY DEF StableInv, CallsInv, HistoryInv, EngineInv
<1>2. \A r \in Requests : history[r] \in Seq(Events) /\ Len(history[r]) \in Nat
  <2>1. \A r \in Requests : history[r] \in Seq(Events)
    BY <1>1 DEF TypeOK
  <2> QED
    BY <2>1, LenProperties
<1>3. \A c \in Clients : call[c] # Idle =>
        call[c] \in CallRows /\ call[c].req \in Requests /\ call[c].user \in Users
  BY <1>1 DEF CallsTyped, CallRows
<1> QED
  BY <1>1, <1>2, <1>3 DEF StableInv, CallsInv, TypeOK

\* A session that does nothing stays up to date while its request is there and,
\* if it is prepared, the rows that it has read.
LEMMA UpToDateLasts ==
  ASSUME NEW d, UpToDate(d), call'[d] = call[d], config' = config,
         call[d] # Idle => status'[call[d].req] # NoRequest,
         InPhase(d, "prepared") => SameReads(call[d].req)
  PROVE  UpToDate(d)'
<1> SUFFICES ASSUME call'[d] # Idle
             PROVE  (/\ status[call[d].req] # NoRequest
                     /\ call[d].phase \in {"authenticated", "prepared"} =>
                          call[d].role = config.role[call[d].user]
                     /\ call[d].phase = "prepared" => call[d].plan \subseteq Executable(call[d]))'
  BY DEF UpToDate
<1>1. PICK x : x = call[d]
  OBVIOUS
<1>2. /\ x # Idle /\ status'[x.req] # NoRequest
      /\ x.phase \in {"authenticated", "prepared"} => x.role = config.role[x.user]
      /\ x.phase = "prepared" => x.plan \subseteq Executable(x) /\ SameReads(x.req)
  BY <1>1 DEF UpToDate, InPhase
<1>3. x.phase = "prepared" => x.plan \subseteq Executable(x)'
  BY <1>2, SameExecutable
<1>4. (x = call[d])'
  BY <1>1
<1> QED
  BY <1>2, <1>3, <1>4

\* A session that has prepared nothing is up to date if its role is and its request exists.
LEMMA UpToDateAgain ==
  ASSUME NEW c, NEW x, call'[c] = x,
         x # Idle => /\ status'[x.req] # NoRequest /\ x.phase # "prepared"
                     /\ x.phase = "authenticated" => x.role = config'.role[x.user]
  PROVE  UpToDate(c)'
BY DEF UpToDate

\* While only c moves, the calls in flight for a request are as many, but for c.
LEMMA CallsInAfter ==
  ASSUME NEW c \in Clients, \A d \in Clients \ {c} : call'[d] = call[d], NEW r
  PROVE  /\ CallsIn(r)' \subseteq CallsIn(r) \cup {c}
         /\ c \notin CallsIn(r)' \/ c \in CallsIn(r) => CallsIn(r)' \subseteq CallsIn(r)
BY DEF CallsIn

\* The steps that change no row but a page's own.
SmallStep(c) ==
  \/ \E u \in Users, r \in Requests, a \in ActionCodes : Open(c, u, r, a)
  \/ Click(c) \/ Close(c) \/ Authenticate(c) \/ Refuse(c) \/ Answer(c) \/ Crash(c) \/ LoseAnswer(c)

\* After such a step the session of c is up to date, and in flight only if it was
\* before or has been clicked.
LEMMA SmallSteps ==
  ASSUME StableInv, NEW c \in Clients, SmallStep(c)
  PROVE  /\ UNCHANGED vars /\ UpToDate(c)'
         /\ \A d \in Clients \ {c} : call'[d] = call[d]
         /\ \A r \in Requests : c \in CallsIn(r)' => c \in CallsIn(r) \/ (Click(c) /\ Room(r))
<1>1. /\ TypeOK /\ CallsTyped /\ UpToDate(c)
      /\ call[c] # Idle => call[c] \in CallRows
  BY StableFacts
<1>2. UNCHANGED vars /\ \A d \in Clients \ {c} : call'[d] = call[d]
  BY <1>1 DEF SmallStep, Open, Click, Close, Authenticate, Refuse, Answer, Crash, LoseAnswer, CallsTyped
<1>3. UNCHANGED <<config, status>>
  BY <1>2 DEF vars, requestVars
<1> DEFINE Goal ==
      UpToDate(c)' /\ \A r \in Requests : c \in CallsIn(r)' => c \in CallsIn(r) \/ (Click(c) /\ Room(r))
<1>4. ASSUME NEW x, call'[c] = x,
             x # Idle => /\ status[x.req] # NoRequest /\ x.phase # "prepared"
                         /\ x.phase = "authenticated" => x.role = config.role[x.user]
                         /\ x.phase \in Uncommitted => c \in CallsIn(x.req) \/ (Click(c) /\ Room(x.req))
      PROVE  Goal
  <2>1. UpToDate(c)'
    BY <1>3, <1>4, UpToDateAgain
  <2>2. \A r \in Requests : c \in CallsIn(r)' => x # Idle /\ x.req = r /\ x.phase \in Uncommitted
    BY <1>4 DEF CallsIn
  <2> QED
    BY <1>4, <2>1, <2>2
<1> HIDE DEF Goal
<1>5. ASSUME NEW u \in Users, NEW r \in Requests, NEW a \in ActionCodes, Open(c, u, r, a)
      PROVE  Goal
  <2> DEFINE x == [phase |-> "shown", user |-> u, req |-> r, action |-> a, role |-> config.role[u],
                   about |-> {Key(t) : t \in OpenTasksOf(u, r)}, took |-> {}, plan |-> {},
                   answer |-> "", clicks |-> 0]
  <2>1. call'[c] = x
    BY <1>1, <1>5 DEF Open, CallsTyped
  <2>2. status[r] # NoRequest
    BY <1>5 DEF Open
  <2>3. x.req = r /\ x.phase = "shown"
    OBVIOUS
  <2> HIDE DEF x
  <2> QED
    BY <1>4, <2>1, <2>2, <2>3 DEF Uncommitted
<1>6. ASSUME Click(c) \/ Close(c) \/ Authenticate(c) \/ Refuse(c) \/ Answer(c) \/ Crash(c) \/ LoseAnswer(c)
      PROVE  Goal
  <2>1. call[c] # Idle /\ call[c] \in CallRows /\ status[call[c].req] # NoRequest
    <3>1. call[c] # Idle
      BY <1>6 DEF Click, Close, Authenticate, Refuse, Answer, Crash, LoseAnswer, InPhase
    <3> QED
      BY <1>1, <3>1 DEF UpToDate
  <2>2. CASE Click(c)
    <3> DEFINE x == [call[c] EXCEPT !.phase = "sent", !.answer = "", !.clicks = @ + 1]
    <3>1. x.req = call[c].req /\ x.phase = "sent"
      BY <2>1 DEF CallRows
    <3>2. call'[c] = x
      BY <1>1, <2>2 DEF Click, CallsTyped
    <3>3. Room(call[c].req)
      BY <2>2 DEF Click
    <3> HIDE DEF x
    <3> QED
      BY <1>4, <2>1, <2>2, <3>1, <3>2, <3>3
  <2>3. CASE Authenticate(c)
    <3>1. c \in CallsIn(call[c].req)
      BY <2>1, <2>3 DEF Authenticate, InPhase, CallsIn, Uncommitted
    <3> DEFINE x == [call[c] EXCEPT !.phase = "authenticated", !.role = config.role[call[c].user]]
    <3>2. x.req = call[c].req /\ x.phase = "authenticated" /\ x.role = config.role[x.user]
      BY <2>1 DEF CallRows
    <3>3. call'[c] = x \/ call'[c] = Idle
      BY <1>1, <2>3 DEF Authenticate, CallsTyped
    <3> HIDE DEF x
    <3>4. CASE call'[c] = x
      BY <1>4, <2>1, <3>1, <3>2, <3>4
    <3>5. CASE call'[c] = Idle
      BY <1>4, <3>5
    <3> QED
      BY <3>3, <3>4, <3>5
  <2>4. CASE Refuse(c) \/ Crash(c) \/ LoseAnswer(c)
    <3>1. PICK x : call'[c] = x /\ x.req = call[c].req /\ x.phase \in {"answered", "unanswered"}
      BY <1>1, <2>1, <2>4 DEF Refuse, Crash, LoseAnswer, CallsTyped, CallRows
    <3> QED
      BY <1>4, <2>1, <3>1 DEF Uncommitted
  <2>5. CASE Close(c) \/ Answer(c)
    <3>1. call'[c] = Idle
      BY <1>1, <2>5 DEF Close, Answer, CallsTyped
    <3> QED
      BY <1>4, <3>1
  <2> QED
    BY <1>6, <2>2, <2>3, <2>4, <2>5
<1>7. Goal
  BY <1>5, <1>6 DEF SmallStep
<1> QED
  BY <1>2, <1>7 DEF Goal

\* Such a step keeps every session up to date and the bound.
LEMMA SmallStepKeeps ==
  ASSUME StableInv, NEW c \in Clients, SmallStep(c)
  PROVE  (\A d \in Clients : UpToDate(d)') /\ \A r \in Requests : WithinBound(r)'
<1>1. /\ UNCHANGED vars /\ UpToDate(c)'
      /\ \A d \in Clients \ {c} : call'[d] = call[d]
      /\ \A r \in Requests : c \in CallsIn(r)' => c \in CallsIn(r) \/ (Click(c) /\ Room(r))
  BY SmallSteps
<1>2. UNCHANGED <<config, status, stage, tasks, initiator, values, history, patch>>
  BY <1>1 DEF vars, requestVars
<1>3. ASSUME NEW d \in Clients \ {c}
      PROVE  UpToDate(d)'
  <2>1. UpToDate(d)
    BY StableFacts
  <2>2. call[d] # Idle => status'[call[d].req] # NoRequest
    BY <1>2, <2>1 DEF UpToDate
  <2>3. SameReads(call[d].req)
    BY <1>2 DEF SameReads, SameRows
  <2> QED
    BY <1>1, <1>2, <2>1, <2>2, <2>3, UpToDateLasts
<1>4. ASSUME NEW r \in Requests
      PROVE  WithinBound(r)'
  <2>1. /\ WithinBound(r) /\ Len(history[r]) \in Nat
        /\ Len(history[r])' = Len(history[r]) /\ PatchesIn(r)' = PatchesIn(r)
    BY <1>2, StableFacts DEF PatchesIn
  <2>2. CASE Click(c) /\ Room(r)
    BY <1>1, <2>1, <2>2, CallsInAfter, BoundTakes
  <2>3. CASE c \notin CallsIn(r)' \/ c \in CallsIn(r)
    BY <1>1, <2>1, <2>3, CallsInAfter, BoundLasts
  <2> QED
    BY <1>1, <2>2, <2>3
<1> QED
  BY <1>1, <1>3, <1>4

\* Prepare keeps the plan that it has found.
LEMMA PrepareKeeps ==
  ASSUME StableInv, NEW c \in Clients, Prepare(c)
  PROVE  /\ UNCHANGED vars
         /\ (\A d \in Clients : UpToDate(d)') /\ \A r \in Requests : WithinBound(r)'
<1>1. /\ TypeOK /\ CallsTyped /\ UpToDate(c) /\ call[c] # Idle /\ call[c] \in CallRows
      /\ call[c].phase = "authenticated"
  BY StableFacts DEF Prepare, InPhase
<1>2. /\ UNCHANGED <<config, status, stage, tasks, initiator, values, history, patch>>
      /\ UNCHANGED vars
  BY DEF Prepare, vars, requestVars
<1>3. \A d \in Clients \ {c} : call'[d] = call[d]
  BY <1>1 DEF Prepare, CallsTyped
<1>4. PICK p \in Executable(call[c]) :
        call' = [call EXCEPT ![c].phase = "prepared", ![c].plan = {p}]
  BY DEF Prepare
<1>5. PICK x, y :
        /\ x = call[c]
        /\ y = call'[c]
        /\ y.plan = {p} /\ y.phase = "prepared"
        /\ y.user = x.user /\ y.role = x.role /\ y.req = x.req /\ y.action = x.action
  <2> DEFINE y == [call[c] EXCEPT !.phase = "prepared", !.plan = {p}]
  <2>1. /\ y.plan = {p} /\ y.phase = "prepared" /\ y.user = call[c].user /\ y.role = call[c].role
        /\ y.req = call[c].req /\ y.action = call[c].action
    BY <1>1 DEF CallRows
  <2>2. call'[c] = y
    BY <1>1, <1>4 DEF CallsTyped
  <2> HIDE DEF y
  <2> QED
    BY <2>1, <2>2
<1>6. UpToDate(c)'
  <2>1. SameReads(y.req)
    BY <1>2 DEF SameReads, SameRows
  <2>2. Executable(y)' = Executable(x)
    BY <1>5, <2>1, SameExecutable, ExecutableByCall
  <2>3. p \in Executable(x)
    BY <1>4, <1>5
  <2>4. status[x.req] # NoRequest /\ x.role = config.role[x.user]
    BY <1>1, <1>5 DEF UpToDate
  <2>5. (y = call[c])'
    BY <1>5
  <2>6. y # Idle => /\ status'[y.req] # NoRequest /\ y.role = config'.role[y.user]
                    /\ y.plan \subseteq Executable(y)'
    BY <1>2, <1>5, <2>2, <2>3, <2>4
  <2> QED
    BY <2>5, <2>6 DEF UpToDate
<1>7. ASSUME NEW d \in Clients \ {c}
      PROVE  UpToDate(d)'
  <2>1. UpToDate(d)
    BY StableFacts
  <2>2. call[d] # Idle => status'[call[d].req] # NoRequest
    BY <1>2, <2>1 DEF UpToDate
  <2>3. SameReads(call[d].req)
    BY <1>2 DEF SameReads, SameRows
  <2> QED
    BY <1>2, <1>3, <2>1, <2>2, <2>3, UpToDateLasts
<1>8. ASSUME NEW r \in Requests
      PROVE  WithinBound(r)'
  <2>1. c \in CallsIn(r)' => c \in CallsIn(r)
    BY <1>1, <1>5 DEF CallsIn, Uncommitted
  <2>2. CallsIn(r)' \subseteq CallsIn(r)
    BY <1>3, <2>1, CallsInAfter
  <2>3. /\ WithinBound(r) /\ Len(history[r]) \in Nat
        /\ Len(history[r])' = Len(history[r]) /\ PatchesIn(r)' = PatchesIn(r)
    BY <1>2, StableFacts DEF PatchesIn
  <2> QED
    BY <2>2, <2>3, BoundLasts
<1> QED
  BY <1>2, <1>6, <1>7, <1>8

-----------------------------------------------------------------------------
(* Commits and edits.                                                      *)

\* The request of a call that has not committed is there.
LEMMA CallsExist ==
  ASSUME StableInv, NEW d \in Clients, call[d] # Idle
  PROVE  status[call[d].req] # NoRequest
BY StableFacts DEF UpToDate

\* Commit carries out the transition that its plan was made for.
LEMMA CommitServes ==
  ASSUME StableInv, NEW c \in Clients, Commit(c)
  PROVE  Serve
<1>1. call[c] # Idle /\ call[c].phase = "prepared"
  BY DEF Commit, InPhase
<1>2. call[c].user \in Users /\ call[c].req \in Requests
  BY <1>1, StableFacts
<1>3. PICK u, r, role, a, plan :
      /\ u = call[c].user /\ r = call[c].req /\ role = call[c].role
      /\ a = call[c].action /\ plan = call[c].plan
  OBVIOUS
<1>4. /\ status[r] # NoRequest /\ role = config.role[u] /\ plan \subseteq Executable(call[c])
      /\ c \in CallsIn(r)
  BY <1>1, <1>2, <1>3, StableFacts DEF UpToDate, CallsIn, Uncommitted
<1>5. PICK p \in plan : CommitRows(u, r, a, p)
  BY <1>3 DEF Commit, CommitRows, WrittenTasks, NewTasks
<1>6. PICK t \in Found(call[c]) : p \in Plans(u, role, r, t)
  <2>1. p \in Executable(call[c])
    BY <1>4, <1>5
  <2> QED
    BY <1>3, <2>1 DEF Executable
<1>7. t \in FindTransition(role, r, a) /\ (role = "employee" => initiator[r] = u)
  BY <1>3, <1>6 DEF Found
<1>8. HistoryInv /\ Fresh(r)
  BY <1>2, <1>3, <1>4, StableFacts, StillFresh
<1>9. t \in config.transitions /\ Execute(u, role, r, t)
  BY <1>2, <1>3, <1>4, <1>5, <1>6, <1>7, <1>8, PlanExecutes
<1> QED
  BY <1>2, <1>3, <1>4, <1>9 DEF Serve

\* A step of the engine adds one event to the history of its request, which keeps existing.
LEMMA StepLength ==
  ASSUME TypeOK, NEW u \in Users, NEW r \in Requests, NEW t \in Rows, EngineStep(u, r, t)
  PROVE  /\ Len(history[r])' = Len(history[r]) + 1
         /\ \A q \in Requests : status[q] # NoRequest => status'[q] # NoRequest
         /\ \A q \in Requests \ {r} : SameReads(q) /\ history'[q] = history[q]
<1>1. Len(history[r])' = Len(history[r]) + 1
  <2>1. PICK ev \in Events : history'[r] = Append(history[r], ev)
    BY StepEvent
  <2>2. history[r] \in Seq(Events)
    BY DEF TypeOK
  <2>3. Len(Append(history[r], ev)) = Len(history[r]) + 1
    BY <2>2
  <2> QED
    BY <2>1, <2>3
<1>2. \A q \in Requests : status[q] # NoRequest => status'[q] # NoRequest
  BY StepEvent DEF Statuses, NoRequest
<1>3. \A q \in Requests \ {r} : SameReads(q) /\ history'[q] = history[q]
  <2>1. UNCHANGED <<config, initiator, values>>
    BY DEF EngineStep
  <2> QED
    BY <2>1, StepEvent DEF SameReads, SameRows
<1> QED
  BY <1>1, <1>2, <1>3

\* Commit keeps the other sessions up to date and takes its own out of flight.
LEMMA CommitKeeps ==
  ASSUME StableInv, NEW c \in Clients, Commit(c)
  PROVE  (\A d \in Clients : UpToDate(d)') /\ \A r \in Requests : WithinBound(r)'
<1>1. /\ TypeOK /\ CallsTyped /\ CallsInv /\ call[c] # Idle /\ call[c] \in CallRows
      /\ call[c].phase = "prepared"
  BY StableFacts DEF Commit, InPhase, StableInv
<1>2. PICK u \in Users, r \in Requests, t \in Rows :
        u = call[c].user /\ r = call[c].req /\ EngineStep(u, r, t)
  BY <1>1, CommitIsStep
<1>3. Quiet(c) /\ LockKept(c) /\ lock[r] = c
  BY <1>1, <1>2, CommitIsStep
<1>4. UNCHANGED <<config, patch>>
  BY <1>2 DEF EngineStep
<1>5. \A d \in Clients \ {c} : call'[d] = call[d]
  BY <1>1, <1>3, QuietKeeps
<1>6. /\ Len(history[r])' = Len(history[r]) + 1
      /\ \A q \in Requests : status[q] # NoRequest => status'[q] # NoRequest
      /\ \A q \in Requests \ {r} : SameReads(q) /\ history'[q] = history[q]
  BY <1>1, <1>2, StepLength
<1>7. PICK x : call'[c] = x /\ x.req = r /\ x.phase = "committed"
  <2>1. PICK p : call' = [call EXCEPT ![c].phase = "committed", ![c].plan = {}, ![c].took = @ \cup {p.done}]
    BY DEF Commit
  <2> DEFINE y == [call[c] EXCEPT !.phase = "committed", !.plan = {}, !.took = @ \cup {p.done}]
  <2>2. y.req = r /\ y.phase = "committed"
    BY <1>1, <1>2 DEF CallRows
  <2>3. call'[c] = y
    BY <1>1, <2>1 DEF CallsTyped
  <2> HIDE DEF y
  <2> QED
    BY <2>2, <2>3
<1>8. UpToDate(c)'
  <2>1. status'[x.req] # NoRequest
    BY <1>1, <1>2, <1>6, <1>7, CallsExist
  <2> QED
    BY <1>7, <2>1, UpToDateAgain
<1>9. ASSUME NEW d \in Clients \ {c}
      PROVE  UpToDate(d)'
  <2>1. UpToDate(d) /\ Prepared(d)
    BY StableFacts
  <2>2. call[d] # Idle => call[d].req \in Requests /\ status[call[d].req] # NoRequest
    BY <2>1, StableFacts DEF UpToDate
  <2>3. call[d] # Idle => status'[call[d].req] # NoRequest
    BY <1>6, <2>2
  <2>4. InPhase(d, "prepared") => call[d].req # r
    BY <1>3, <2>1 DEF Prepared
  <2>5. InPhase(d, "prepared") => SameReads(call[d].req)
    BY <1>6, <2>2, <2>4 DEF InPhase
  <2> QED
    BY <1>4, <1>5, <2>1, <2>3, <2>5, UpToDateLasts
<1>10. ASSUME NEW q \in Requests
       PROVE  WithinBound(q)'
  <2>1. /\ WithinBound(q) /\ Len(history[q]) \in Nat /\ PatchesIn(q)' = PatchesIn(q)
    BY <1>4, StableFacts DEF PatchesIn
  <2>2. c \notin CallsIn(q)'
    BY <1>7 DEF CallsIn, Uncommitted
  <2>3. CallsIn(q)' \subseteq CallsIn(q)
    BY <1>5, <2>2, CallsInAfter
  <2>4. CASE q = r
    <3>1. c \in CallsIn(r)
      BY <1>1, <1>2 DEF CallsIn, Uncommitted
    <3> QED
      BY <1>6, <2>1, <2>2, <2>3, <2>4, <3>1, BoundLasts
  <2>5. CASE q # r
    <3>1. Len(history[q])' = Len(history[q])
      BY <1>6, <2>5
    <3> QED
      BY <2>1, <2>3, <3>1, BoundLasts
  <2> QED
    BY <2>4, <2>5
<1> QED
  BY <1>8, <1>9, <1>10

\* Edits of a system of calls are edits of the engine.
LEMMA EditServes ==
  ASSUME Edit
  PROVE  Serve
<1>1. \/ \E u \in Users, r \in Requests, write \in Writes :
           Create(u, r, write) \/ \E w \in Workers : PatchRead(w, u, r, write)
      \/ \E w \in Workers : PatchCommit(w) \/ PatchRollback(w)
  BY DEF Edit, PatchUpdate
<1> QED
  BY <1>1 DEF Serve

\* A session is up to date after an edit that leaves the rows of its request, or that
\* leaves all but the values while nothing is prepared for it.
LEMMA EditedUpToDate ==
  ASSUME StableInv, UNCHANGED callVars, config' = config,
         NEW d \in Clients,
         call[d] # Idle => status'[call[d].req] = status[call[d].req],
         InPhase(d, "prepared") => SameReads(call[d].req)
  PROVE  UpToDate(d)'
<1>1. UpToDate(d) /\ call'[d] = call[d]
  BY StableFacts DEF callVars
<1>2. call[d] # Idle => status'[call[d].req] # NoRequest
  BY CallsExist
<1> QED
  BY <1>1, <1>2, UpToDateLasts

\* The creation of a request concerns no session: nobody is at work on it.
LEMMA CreateKeeps ==
  ASSUME StableInv, UNCHANGED callVars,
         NEW u \in Users, NEW r \in Requests, NEW write \in Writes, Create(u, r, write)
  PROVE  (\A d \in Clients : UpToDate(d)') /\ \A q \in Requests : WithinBound(q)'
<1>1. TypeOK /\ PatchesSeen
  BY StableFacts
<1>2. UNCHANGED <<config, tasks, patch, call>>
  BY DEF Create, callVars
<1>3. status[r] = NoRequest
  BY <1>1, CreateEvent
<1>4. \A q \in Requests \ {r} : SameReads(q) /\ history'[q] = history[q]
  <2>1. \A q \in Requests \ {r} : values'[q] = values[q]
    BY <1>1 DEF Create, TypeOK
  <2> QED
    BY <1>1, <1>2, <2>1, CreateEvent DEF SameReads, SameRows
<1>5. ASSUME NEW d \in Clients
      PROVE  UpToDate(d)'
  <2>1. call[d] # Idle => call[d].req \in Requests \ {r}
    BY <1>3, StableFacts, CallsExist
  <2>2. call[d] # Idle => SameReads(call[d].req)
    BY <1>4, <2>1
  <2> QED
    BY <1>2, <2>2, EditedUpToDate DEF SameReads, SameRows, InPhase
<1>6. ASSUME NEW q \in Requests
      PROVE  WithinBound(q)'
  <2>1. /\ WithinBound(q) /\ Len(history[q]) \in Nat
        /\ PatchesIn(q)' = PatchesIn(q) /\ CallsIn(q)' = CallsIn(q)
    BY <1>2, StableFacts DEF PatchesIn, CallsIn
  <2>2. CASE q = r
    <3>1. CallsIn(r) = {} /\ PatchesIn(r) = {}
      BY <1>1, <1>3, CallsExist DEF CallsIn, PatchesIn, PatchesSeen
    <3>2. Len(history[r])' \in Nat
      <4>1. PICK ev \in Events : history'[r] = Append(history[r], ev)
        BY <1>1, CreateEvent
      <4>2. history[r] \in Seq(Events)
        BY StableFacts
      <4>3. Len(Append(history[r], ev)) \in Nat
        BY <4>2
      <4> QED
        BY <4>1, <4>3
    <3> QED
      BY <2>1, <2>2, <3>1, <3>2, BoundLasts
  <2>3. CASE q # r
    <3>1. Len(history[q])' = Len(history[q])
      BY <1>4, <2>3
    <3> QED
      BY <2>1, <3>1, BoundLasts
  <2> QED
    BY <2>2, <2>3
<1> QED
  BY <1>5, <1>6

\* A PATCH that begins while there is room for it concerns no session.
LEMMA PatchReadKeeps ==
  ASSUME StableInv, UNCHANGED callVars, NEW w \in Workers,
         NEW u \in Users, NEW r \in Requests, NEW write \in Writes, PatchRead(w, u, r, write), Room(r)
  PROVE  (\A d \in Clients : UpToDate(d)') /\ \A q \in Requests : WithinBound(q)'
<1>1. UNCHANGED <<config, status, stage, tasks, initiator, values, history, call>>
  BY DEF PatchRead, requestVars, callVars
<1>2. \A d \in Clients : UpToDate(d)'
  BY <1>1, EditedUpToDate DEF SameReads, SameRows
<1>3. /\ patch[w] = NoPatch /\ \A v \in Workers \ {w} : patch'[v] = patch[v]
      /\ patch'[w].req = r
  BY StableFacts DEF PatchRead, TypeOK
<1>4. ASSUME NEW q \in Requests
      PROVE  WithinBound(q)'
  <2>1. /\ WithinBound(q) /\ Len(history[q]) \in Nat
        /\ Len(history[q])' = Len(history[q]) /\ CallsIn(q)' = CallsIn(q)
    BY <1>1, StableFacts DEF CallsIn
  <2>2. CASE q = r
    <3>1. PatchesIn(r)' \subseteq PatchesIn(r) \cup {w}
      BY <1>3 DEF PatchesIn
    <3> QED
      BY <2>1, <2>2, <3>1, BoundTakes
  <2>3. CASE q # r
    <3>1. PatchesIn(q)' \subseteq PatchesIn(q)
      BY <1>3, <2>3 DEF PatchesIn
    <3> QED
      BY <2>1, <3>1, BoundLasts
  <2> QED
    BY <2>2, <2>3
<1> QED
  BY <1>2, <1>4

\* The flush of a PATCH waits for the row, so that no plan rests on the values it changes.
LEMMA PatchUpdateKeeps ==
  ASSUME StableInv, UNCHANGED callVars, NEW w \in Workers, PatchUpdate(w)
  PROVE  (\A d \in Clients : UpToDate(d)') /\ \A q \in Requests : WithinBound(q)'
<1>1. PICK r \in Requests : r = patch[w].req
  BY StableFacts DEF PatchUpdate, PatchCommit, TypeOK, Patches
<1>2. TypeOK /\ lock[r] = Free /\ PatchCommit(w)
  BY <1>1, StableFacts DEF PatchUpdate, RowFree
<1>3. UNCHANGED <<config, status, stage, tasks, initiator, call>>
  BY <1>2 DEF PatchCommit, callVars
<1>4. \A q \in Requests \ {r} : values'[q] = values[q] /\ history'[q] = history[q]
  BY <1>1, <1>2 DEF PatchCommit, TypeOK
<1>5. ASSUME NEW d \in Clients
      PROVE  UpToDate(d)'
  <2>1. InPhase(d, "prepared") => call[d].req \in Requests \ {r}
    BY <1>2, LocksAssumption, StableFacts DEF InPhase, Prepared
  <2>2. InPhase(d, "prepared") => SameReads(call[d].req)
    BY <1>3, <1>4, <2>1 DEF SameReads, SameRows
  <2> QED
    BY <1>3, <2>2, EditedUpToDate
<1>6. /\ patch[w] # NoPatch /\ patch'[w] = NoPatch
      /\ \A v \in Workers \ {w} : patch'[v] = patch[v]
  BY <1>2 DEF PatchCommit, TypeOK
<1>7. ASSUME NEW q \in Requests
      PROVE  WithinBound(q)'
  <2>1. WithinBound(q) /\ Len(history[q]) \in Nat /\ CallsIn(q)' = CallsIn(q)
    BY <1>3, StableFacts DEF CallsIn
  <2>2. PatchesIn(q)' \subseteq PatchesIn(q) /\ w \notin PatchesIn(q)'
    BY <1>6 DEF PatchesIn
  <2>3. CASE q = r
    <3>1. w \in PatchesIn(r)
      BY <1>1, <1>6 DEF PatchesIn
    <3>2. Len(history[r])' = Len(history[r]) + 1
      <4>1. PICK ev \in Events : history'[r] = Append(history[r], ev)
        BY <1>1, <1>2, PatchEvent
      <4>2. history[r] \in Seq(Events)
        BY StableFacts
      <4>3. Len(Append(history[r], ev)) = Len(history[r]) + 1
        BY <4>2
      <4> QED
        BY <4>1, <4>3
    <3> QED
      BY <2>1, <2>2, <2>3, <3>1, <3>2, BoundLasts
  <2>4. CASE q # r
    <3>1. Len(history[q])' = Len(history[q])
      BY <1>4, <2>4
    <3> QED
      BY <2>1, <2>2, <3>1, BoundLasts
  <2> QED
    BY <2>3, <2>4
<1> QED
  BY <1>5, <1>7

\* A PATCH that is rolled back leaves the flight.
LEMMA PatchRollbackKeeps ==
  ASSUME StableInv, UNCHANGED callVars, NEW w \in Workers, PatchRollback(w)
  PROVE  (\A d \in Clients : UpToDate(d)') /\ \A q \in Requests : WithinBound(q)'
<1>1. UNCHANGED <<config, status, stage, tasks, initiator, values, history, call>>
  BY DEF PatchRollback, requestVars, callVars
<1>2. \A d \in Clients : UpToDate(d)'
  BY <1>1, EditedUpToDate DEF SameReads, SameRows
<1>3. patch'[w] = NoPatch /\ \A v \in Workers \ {w} : patch'[v] = patch[v]
  BY StableFacts DEF PatchRollback, TypeOK
<1>4. ASSUME NEW q \in Requests
      PROVE  WithinBound(q)'
  <2>1. /\ WithinBound(q) /\ Len(history[q]) \in Nat
        /\ Len(history[q])' = Len(history[q]) /\ CallsIn(q)' = CallsIn(q)
    BY <1>1, StableFacts DEF CallsIn
  <2>2. PatchesIn(q)' \subseteq PatchesIn(q)
    BY <1>3 DEF PatchesIn
  <2> QED
    BY <2>1, <2>2, BoundLasts
<1> QED
  BY <1>2, <1>4

\* Every step of a system that is not being reconfigured is one of the service's own.
LEMMA StableNext ==
  ASSUME StableInv, [CallsServe]_allVars
  PROVE  [Serve]_vars /\ StableInv'
<1>1. CallsInv'
  BY CallsNextInv DEF StableInv, CallsNext
<1> DEFINE Goal ==
      /\ [Serve]_vars
      /\ \A d \in Clients : UpToDate(d)'
      /\ \A r \in Requests : WithinBound(r)'
<1>2. ASSUME Edit
      PROVE  Goal
  <2>1. UNCHANGED callVars
    BY <1>2 DEF Edit
  <2>2. \/ \E u \in Users, r \in Requests, write \in Writes : Create(u, r, write)
        \/ \E u \in Users, r \in Requests, write \in Writes, w \in Workers :
             Room(r) /\ PatchRead(w, u, r, write)
        \/ \E w \in Workers : PatchUpdate(w) \/ PatchRollback(w)
    BY <1>2 DEF Edit
  <2> QED
    BY <1>2, <2>1, <2>2, EditServes, CreateKeeps, PatchReadKeeps, PatchUpdateKeeps, PatchRollbackKeeps
<1>3. ASSUME NEW c \in Clients, CallStep(c)
      PROVE  Goal
  <2>1. CASE Commit(c)
    BY <2>1, CommitServes, CommitKeeps
  <2>2. CASE Prepare(c)
    BY <2>2, PrepareKeeps
  <2>3. CASE SmallStep(c)
    BY <2>3, SmallSteps, SmallStepKeeps
  <2> QED
    BY <1>3, <2>1, <2>2, <2>3 DEF CallStep, Session, SmallStep
<1>4. ASSUME UNCHANGED allVars
      PROVE  Goal
  <2>1. UNCHANGED vars /\ UNCHANGED callVars
    BY <1>4 DEF allVars
  <2>2. UNCHANGED <<config, status, stage, tasks, initiator, values, history, patch, call>>
    BY <2>1 DEF vars, requestVars, callVars
  <2>3. \A d \in Clients : UpToDate(d)'
    BY <2>1, <2>2, EditedUpToDate DEF SameReads, SameRows
  <2>4. ASSUME NEW r \in Requests
        PROVE  WithinBound(r)'
    <3>1. /\ WithinBound(r) /\ Len(history[r]) \in Nat /\ Len(history[r])' = Len(history[r])
          /\ CallsIn(r)' = CallsIn(r) /\ PatchesIn(r)' = PatchesIn(r)
      BY <2>2, StableFacts DEF CallsIn, PatchesIn
    <3> QED
      BY <3>1, BoundLasts
  <2> QED
    BY <2>1, <2>3, <2>4
<1>5. Goal
  BY <1>2, <1>3, <1>4 DEF CallsServe
<1> QED
  BY <1>1, <1>5 DEF StableInv

\* In the beginning no session and no edit is in flight.
LEMMA StableStart == CallsInit => StableInv
<1> SUFFICES ASSUME CallsInit
             PROVE  StableInv
  OBVIOUS
<1>1. CallsInv
  BY InitHistory DEF CallsInit, CallsInv, CallsTyped, Prepared, InPhase
<1>2. \A c \in Clients : UpToDate(c)
  BY DEF CallsInit, UpToDate
<1>3. ASSUME NEW r \in Requests
      PROVE  WithinBound(r)
  <2>1. CallsIn(r) = {} /\ PatchesIn(r) = {}
    BY DEF CallsInit, Init, CallsIn, PatchesIn
  <2>2. InFlight(r) = 0
    BY <2>1, InFlightIs, FS_EmptySet
  <2> QED
    BY <2>2 DEF WithinBound
<1> QED
  BY <1>1, <1>2, <1>3 DEF StableInv

\* While nobody reconfigures the system, every prepared plan is one that its transaction
\* would make again, and what is in flight fits the bound on the histories.
THEOREM CallsStayUpToDate == StableCallsSpec => []StableInv
<1>1. StableInv /\ [CallsServe]_allVars => StableInv'
  BY StableNext
<1> QED
  BY <1>1, StableStart, PTL DEF StableCallsSpec

\* With sessions that overlap, crash and repeat themselves: in a system that is not being
\* reconfigured every transaction of execute_action is one execution of a live
\* transition by the actor in the role they have, as ApprovalEngine describes it.
THEOREM CallsImplementEngine == StableCallsSpec => CallsRefineEngine
<1>1. CallsInit => Init
  BY DEF CallsInit
<1>2. StableInv /\ [CallsServe]_allVars => [Serve]_vars
  BY StableNext
<1> QED
  BY <1>1, <1>2, CallsStayUpToDate, PTL DEF StableCallsSpec, CallsRefineEngine, StableSpec
-----------------------------------------------------------------------------
(* The approver who comes second.                                          *)

\* The stages of a request and of its tasks are stages of the route.
StagesExist(r) ==
  /\ stage[r] \in config.stages \cup {NoStage}
  /\ \A t \in tasks[r] : t.stage \in config.stages

\* An execution takes the stages that it writes from the route.
LEMMA ExecuteStages ==
  ASSUME TypeOK, NEW u \in Users, NEW role, NEW r \in Requests, NEW t, Execute(u, role, r, t),
         StagesExist(r)
  PROVE  StagesExist(r)'
<1>1. config' = config
  BY ExecuteSteps DEF EngineStep
<1>2. ASSUME NEW x, NEW y \in CloseStage(r, x)
      PROVE  y.stage \in config.stages
  <2>1. PICK z \in tasks[r] : y = Closed(z, x)
    BY DEF CloseStage
  <2>2. z \in Tasks
    BY DEF TypeOK
  <2> QED
    BY <2>1, <2>2, ClosedTask DEF StagesExist
<1>3. ASSUME NEW s \in config.stages, NEW y \in CreateTasks(r, s)
      PROVE  y.stage \in config.stages
  BY DEF CreateTasks
<1>4. CASE Submit(u, role, r, t)
  <2>1. PICK s \in FirstStages : SetRequest(r, t.to, s) /\ SetTasks(r, tasks[r], CreateTasks(r, s))
    BY <1>4 DEF Submit
  <2>2. s \in config.stages
    BY DEF FirstStages
  <2>3. stage'[r] = s /\ tasks'[r] = tasks[r] \cup CreateTasks(r, s)
    BY <2>1 DEF SetRequest, SetTasks, TypeOK
  <2> QED
    BY <1>1, <1>3, <2>2, <2>3 DEF StagesExist
<1>5. CASE ApproveNext(u, role, r, t)
  <2>1. PICK x \in RequireOpenTask(u, r) : \E s \in NextStages(x.stage) :
          SetRequest(r, "in_approval", s) /\ SetTasks(r, CloseStage(r, x), CreateTasks(r, s))
    BY <1>5 DEF ApproveNext
  <2>2. PICK s \in NextStages(x.stage) :
          SetRequest(r, "in_approval", s) /\ SetTasks(r, CloseStage(r, x), CreateTasks(r, s))
    BY <2>1
  <2>3. s \in config.stages
    BY DEF NextStages, Later
  <2>4. stage'[r] = s /\ tasks'[r] = CloseStage(r, x) \cup CreateTasks(r, s)
    BY <2>2 DEF SetRequest, SetTasks, TypeOK
  <2> QED
    BY <1>1, <1>2, <1>3, <2>3, <2>4 DEF StagesExist
<1>6. CASE ApproveFinal(u, role, r, t) \/ Decide(u, role, r, t)
  <2>1. PICK x \in RequireOpenTask(u, r), s \in {NoStage, stage[r]} :
          SetRequest(r, t.to, s) /\ SetTasks(r, CloseStage(r, x), {})
    BY <1>6 DEF ApproveFinal, Decide
  <2>2. stage'[r] \in {NoStage, stage[r]} /\ tasks'[r] = CloseStage(r, x)
    BY <2>1 DEF SetRequest, SetTasks, TypeOK
  <2> QED
    BY <1>1, <1>2, <2>2 DEF StagesExist
<1>7. CASE Leave(u, role, r, t)
  <2>1. stage'[r] = NoStage /\ tasks'[r] = tasks[r]
    BY <1>7 DEF Leave, SetRequest, TypeOK
  <2> QED
    BY <1>1, <2>1 DEF StagesExist
<1> QED
  BY <1>4, <1>5, <1>6, <1>7 DEF Execute

\* So does every step of the service.
LEMMA ServeStages ==
  ASSUME EngineInv, \A r \in Requests : StagesExist(r), [Serve]_vars
  PROVE  \A r \in Requests : StagesExist(r)'
<1> SUFFICES ASSUME NEW q \in Requests
             PROVE  StagesExist(q)'
  OBVIOUS
<1>1. TypeOK /\ config' = config /\ StagesExist(q)
  BY ServeInv DEF EngineInv
<1>2. ASSUME NEW u \in Users, NEW r \in Requests, NEW write \in Writes, Create(u, r, write)
      PROVE  StagesExist(q)'
  <2>1. tasks' = tasks /\ stage'[q] \in {NoStage, stage[q]}
    BY <1>1, <1>2 DEF Create, SetRequest, TypeOK
  <2> QED
    BY <1>1, <2>1 DEF StagesExist
<1>3. ASSUME NEW u \in Users, NEW r \in Requests, NEW t \in config.transitions,
             Execute(u, config.role[u], r, t)
      PROVE  StagesExist(q)'
  <2>1. PICK role : role = config.role[u]
    OBVIOUS
  <2>2. Execute(u, role, r, t)
    BY <1>3, <2>1
  <2>3. EngineStep(u, r, t) /\ t \in Rows
    BY <1>1, <2>2, ExecuteSteps
  <2>4. q # r => stage'[q] = stage[q] /\ tasks'[q] = tasks[q]
    BY <1>1, <2>3, StepEvent
  <2> QED
    BY <1>1, <2>2, <2>4, ExecuteStages DEF StagesExist
<1>4. ASSUME \/ \E w \in Workers, u \in Users, r \in Requests, write \in Writes : PatchRead(w, u, r, write)
             \/ \E w \in Workers : PatchCommit(w) \/ PatchRollback(w)
             \/ UNCHANGED vars
      PROVE  UNCHANGED <<stage, tasks>>
  BY <1>4 DEF PatchRead, PatchCommit, PatchRollback, vars, requestVars
<1>5. UNCHANGED <<stage, tasks>> => StagesExist(q)'
  BY <1>1 DEF StagesExist
<1> QED
  BY <1>2, <1>3, <1>4, <1>5 DEF Serve

\* What a page that shows the approve action says of its user, and of the task it showed.
MayApprove(t) == t.from = "in_approval" /\ t.role = "approver" /\ t.action = "approve"
HasTask(u, r) == \E x \in tasks[r] : x.assignee = u
PageKnows(c) ==
  call[c] # Idle /\ call[c].action = "approve" =>
    /\ config.role[call[c].user] = "approver"
    /\ call[c].about # {} =>
         /\ \E t \in config.transitions : MayApprove(t)
         /\ HasTask(call[c].user, call[c].req)
         /\ call[c].phase = "answered" => call[c].answer = "TASK_DONE"

LoserInv ==
  /\ StableInv /\ StaffingInv
  /\ \A r \in Requests : StagesExist(r)
  /\ \A c \in Clients : PageKnows(c)

\* What a page knows lasts: its user keeps the role, and no task disappears.
LEMMA KnowledgeLasts ==
  ASSUME NEW d \in Clients, PageKnows(d), NEW x, NEW y, call[d] = x, call'[d] = y, config' = config,
         x # Idle => TasksKept(x.req),
         y # Idle =>
           /\ x # Idle
           /\ y.user = x.user /\ y.req = x.req /\ y.action = x.action /\ y.about = x.about
           /\ y.phase = "answered" /\ y.action = "approve" /\ y.about # {} =>
                y.answer = "TASK_DONE" \/ (x.phase = "answered" /\ y.answer = x.answer)
  PROVE  PageKnows(d)'
<1> SUFFICES ASSUME y # Idle, y.action = "approve"
             PROVE  /\ config'.role[y.user] = "approver"
                    /\ y.about # {} =>
                         /\ \E t \in config'.transitions : MayApprove(t)
                         /\ HasTask(y.user, y.req)'
                         /\ y.phase = "answered" => y.answer = "TASK_DONE"
  BY DEF PageKnows, HasTask, MayApprove
<1>1. /\ config.role[x.user] = "approver"
      /\ x.about # {} =>
           /\ \E t \in config.transitions : MayApprove(t)
           /\ HasTask(x.user, x.req)
           /\ x.phase = "answered" => x.answer = "TASK_DONE"
  BY DEF PageKnows
<1>2. HasTask(x.user, x.req) => HasTask(x.user, x.req)'
  <2> SUFFICES ASSUME NEW k \in tasks[x.req], k.assignee = x.user
               PROVE  \E z \in tasks'[x.req] : z.assignee = x.user
    BY DEF HasTask
  <2>1. PICK z \in tasks'[x.req] : Key(z) = Key(k)
    BY DEF TasksKept
  <2>2. z.assignee = k.assignee
    BY <2>1 DEF Key
  <2> QED
    BY <2>2
<1> QED
  BY <1>1, <1>2

\* A page that shows an approve action has an approver for its user, and shows the
\* user's task on a request in approval.
LEMMA OpenKnows ==
  ASSUME TypeOK, CallsTyped, OpenTasksAtCurrentStage, DecidedInOneRound(config),
         NEW c \in Clients, NEW u \in Users, NEW r \in Requests, NEW a \in ActionCodes,
         Open(c, u, r, a)
  PROVE  PageKnows(c)'
<1> DEFINE y == [phase |-> "shown", user |-> u, req |-> r, action |-> a, role |-> config.role[u],
                 about |-> {Key(t) : t \in OpenTasksOf(u, r)}, took |-> {}, plan |-> {},
                 answer |-> "", clicks |-> 0]
<1>1. call'[c] = y
  BY DEF Open, CallsTyped
<1>2. /\ y.user = u /\ y.req = r /\ y.action = a /\ y.phase = "shown"
      /\ y.about = {Key(t) : t \in OpenTasksOf(u, r)}
  OBVIOUS
<1>3. config' = config /\ tasks' = tasks
  BY DEF Open, vars, requestVars
<1>4. PICK t \in config.transitions :
        t.from = status[r] /\ t.role = config.role[u] /\ t.action = a
  BY DEF Open
<1>5. a = "approve" => config.role[u] = "approver" /\ t.role = "approver"
  BY <1>4 DEF DecidedInOneRound
<1>6. ASSUME a = "approve", NEW k \in OpenTasksOf(u, r)
      PROVE  MayApprove(t) /\ HasTask(u, r)
  <2>1. k \in tasks[r] /\ k.assignee = u /\ k.status = "open"
    BY DEF OpenTasksOf
  <2>2. status[r] = "in_approval"
    BY <2>1 DEF OpenTasksAtCurrentStage
  <2> QED
    BY <1>4, <1>5, <1>6, <2>1, <2>2 DEF MayApprove, HasTask
<1> HIDE DEF y
<1>7. y.about # {} => \E k : k \in OpenTasksOf(u, r)
  BY <1>2
<1>8. a = "approve" /\ y.about # {} => (\E z \in config.transitions : MayApprove(z)) /\ HasTask(u, r)
  BY <1>6, <1>7
<1>9. HasTask(u, r)' = HasTask(u, r)
  BY <1>3 DEF HasTask
<1> QED
  BY <1>1, <1>2, <1>3, <1>5, <1>8, <1>9 DEF PageKnows, MayApprove

\* A row that the approvers may follow is found, the first of them.
LEMMA ApprovalFound ==
  ASSUME TypeOK, NEW r \in Requests, status[r] = "in_approval",
         NEW t \in config.transitions, MayApprove(t)
  PROVE  FindTransition("approver", r, "approve") # {}
<1> DEFINE M == {x \in config.transitions :
                   x.from = status[r] /\ x.action = "approve" /\ x.role = "approver"}
<1>1. t \in M
  BY DEF MayApprove
<1>2. \A x \in M : x.sort \in Nat
  BY ConfigsAssumption DEF IsConfig, Transitions, TypeOK
<1> DEFINE S == {x.sort : x \in M}
<1>3. S \subseteq Nat /\ S # {}
  BY <1>1, <1>2
<1>4. PICK n \in S : \A k \in S : n <= k
  BY <1>3, LeastNumber
<1>5. PICK x \in M : x.sort = n
  OBVIOUS
<1>6. \A z \in M : x.sort <= z.sort
  BY <1>4, <1>5
<1>7. FindTransition("approver", r, "approve") = {z \in M : \A k \in M : z.sort <= k.sort}
  BY DEF FindTransition
<1> QED
  BY <1>6, <1>7

\* An open task of an approver who is not the initiator lets the approve action succeed.
LEMMA ApprovalExecutes ==
  ASSUME TypeOK, OpenTasksAtCurrentStage, DecidedInOneRound(config),
         NEW x, NEW r \in Requests, x.req = r, x.role = "approver", x.action = "approve",
         NotSelfApproval(x.user, r), StagesExist(r),
         NEW t \in config.transitions, MayApprove(t), NEW k \in RequireOpenTask(x.user, r)
  PROVE  Executable(x) # {}
<1>1. k \in tasks[r] /\ k.status = "open"
  BY DEF RequireOpenTask, OpenTasksOf
<1>2. status[r] = "in_approval" /\ k.stage \in config.stages
  BY <1>1 DEF OpenTasksAtCurrentStage, StagesExist
<1>3. PICK z : z \in FindTransition("approver", r, "approve")
  BY <1>2, ApprovalFound
<1>4. z \in Found(x) /\ z.effect = "approve_advance"
  BY <1>3 DEF Found, FindTransition, DecidedInOneRound
<1>5. NextStages(k.stage) = {}
  <2>1. \A y \in config.stages : ~Precedes(k.stage, y)
    <3>1. \A y \in config.stages : config.number[y] \in Nat
      BY ConfigFacts DEF TypeOK
    <3> QED
      BY <1>2, <3>1 DEF DecidedInOneRound, Precedes
  <2> QED
    BY <2>1 DEF NextStages, Later
<1>6. PlanFor(r, z.to, NoStage, Key(k), Siblings(r, k), {}) \in AdvancePlans(x.user, r, z)
  BY <1>5 DEF AdvancePlans
<1>7. AdvancePlans(x.user, r, z) = Plans(x.user, x.role, r, z)
  BY <1>4 DEF Plans
<1> QED
  BY <1>4, <1>6, <1>7 DEF Executable

\* The refusal of an approve action on a page that showed a task says that it is done.
LEMMA RefusedIsDone ==
  ASSUME LoserInv, DecidedInOneRound(config), NEW c \in Clients, Refuse(c),
         call[c].action = "approve", call[c].about # {}
  PROVE  Refusals(call[c]) = {"TASK_DONE"}
<1>1. PICK x, u, r : x = call[c] /\ u = x.user /\ r = x.req
  OBVIOUS
<1>2. /\ x # Idle /\ x.phase = "authenticated" /\ Executable(x) = {}
      /\ x.action = "approve" /\ x.about # {} /\ r \in Requests /\ u \in Users
  BY <1>1, StableFacts DEF LoserInv, Refuse, InPhase
<1>3. /\ TypeOK /\ OpenTasksAtCurrentStage /\ batch[r] \in Nat /\ StagesExist(r) /\ Staffing(r)
      /\ UpToDate(c) /\ PageKnows(c)
  BY <1>2, StableFacts DEF LoserInv, StaffingInv, EngineInv, TypeOK
<1>4. /\ status[r] # NoRequest /\ x.role = "approver"
      /\ (\E t \in config.transitions : MayApprove(t)) /\ HasTask(u, r)
  BY <1>1, <1>2, <1>3 DEF UpToDate, PageKnows
<1>5. NotSelfApproval(u, r)
  <2>1. config.role[u] = "approver" /\ config.role[initiator[r]] = "employee"
    BY <1>1, <1>2, <1>3, <1>4 DEF PageKnows, Staffing
  <2> QED
    BY <2>1 DEF NotSelfApproval
<1>6. RequireOpenTask(u, r) = {}
  BY <1>1, <1>2, <1>3, <1>4, <1>5, ApprovalExecutes
<1>7. PICK k \in tasks[r] : k.assignee = u
  BY <1>4 DEF HasTask
<1>8. k.status # "open"
  <2> SUFFICES ASSUME k.status = "open"
               PROVE  FALSE
    OBVIOUS
  <2>1. k \in OpenTasksOf(u, r) /\ k.batch = batch[r]
    BY <1>2, <1>3, <1>7 DEF OpenTasksAtCurrentStage, OpenTasksOf
  <2>2. \A y \in OpenTasksOf(u, r) : y.batch = batch[r]
    BY <1>2, <1>3 DEF OpenTasksAtCurrentStage, OpenTasksOf
  <2>3. k \in RequireOpenTask(u, r)
    BY <1>3, <2>1, <2>2 DEF RequireOpenTask
  <2> QED
    BY <1>6, <2>3
<1>9. k.stage \in config.stages /\ k.stage \in Stages
  BY <1>3, <1>7, ConfigFacts DEF StagesExist, TypeOK
<1>10. HasClosedTask(u, r, Stages)
  BY <1>7, <1>8, <1>9 DEF HasClosedTask
<1>11. MissingTask(u, r) = "TASK_DONE"
  <2>1. stage[r] # NoStage => k.stage = stage[r]
    BY <1>3, <1>9 DEF StagesExist, DecidedInOneRound
  <2>2. stage[r] # NoStage => HasClosedTask(u, r, {stage[r]})
    BY <1>7, <1>8, <2>1 DEF HasClosedTask
  <2> QED
    BY <1>10, <2>2 DEF MissingTask
<1>12. \A t \in Found(x) : t.to # "in_approval"
  <2> SUFFICES ASSUME NEW t \in Found(x)
               PROVE  t.to # "in_approval"
    OBVIOUS
  <2>1. t \in config.transitions /\ t.action = "approve"
    BY <1>2 DEF Found, FindTransition
  <2>2. t \in Rows /\ t.effect = "approve_advance"
    BY <1>3, <2>1, ConfigFacts DEF DecidedInOneRound, TypeOK
  <2> QED
    BY <2>2, RowFacts
<1>13. ASSUME Found(x) = {}
       PROVE  Refusal(x) = "TASK_DONE"
  BY <1>1, <1>2, <1>4, <1>10, <1>13 DEF Refusal, DecisionCodes
<1>14. ASSUME Found(x) # {}
       PROVE  Refusal(x) = "TASK_DONE"
  <2>1. \A t \in Found(x) : t.effect # "status_only"
    BY <1>2, <1>3 DEF Found, FindTransition, DecidedInOneRound
  <2> QED
    BY <1>1, <1>4, <1>5, <1>6, <1>11, <1>12, <1>14, <2>1 DEF Refusal
<1>15. Refusal(x) = "TASK_DONE"
  BY <1>1, <1>13, <1>14
<1>16. \E t \in config.transitions : t.action = x.action
  BY <1>2, <1>4 DEF MayApprove
<1>17. Refusals(x) = {Refusal(x)}
  BY <1>4, <1>16 DEF Refusals
<1> QED
  BY <1>1, <1>15, <1>17

\* The other steps of a call leave what its page shows, or close it.
LEMMA CallsShowTheSame ==
  ASSUME CallsTyped, NEW c \in Clients,
         \/ Click(c) \/ Close(c) \/ Authenticate(c) \/ Prepare(c) \/ Commit(c)
         \/ Answer(c) \/ Crash(c) \/ LoseAnswer(c)
  PROVE  /\ call[c] # Idle
         /\ \/ call'[c] = Idle
            \/ \E y : /\ call'[c] = y /\ y.phase # "answered"
                      /\ y.user = call[c].user /\ y.req = call[c].req
                      /\ y.action = call[c].action /\ y.about = call[c].about
<1>1. call[c] # Idle /\ call[c] \in CallRows
  <2>1. call[c] # Idle
    BY DEF Click, Close, Authenticate, Prepare, Commit, Answer, Crash, LoseAnswer, InPhase
  <2> QED
    BY <2>1 DEF CallsTyped
<1> SUFFICES \/ call'[c] = Idle
             \/ \E y : /\ call'[c] = y /\ y.phase # "answered"
                       /\ y.user = call[c].user /\ y.req = call[c].req
                       /\ y.action = call[c].action /\ y.about = call[c].about
  BY <1>1
<1>2. CASE Click(c)
  <2> DEFINE y == [call[c] EXCEPT !.phase = "sent", !.answer = "", !.clicks = @ + 1]
  <2>1. /\ y.phase = "sent" /\ y.user = call[c].user /\ y.req = call[c].req
        /\ y.action = call[c].action /\ y.about = call[c].about
    BY <1>1 DEF CallRows
  <2>2. call'[c] = y
    BY <1>2 DEF Click, CallsTyped
  <2> HIDE DEF y
  <2> QED
    BY <2>1, <2>2
<1>3. CASE Authenticate(c)
  <2> DEFINE y == [call[c] EXCEPT !.phase = "authenticated", !.role = config.role[call[c].user]]
  <2>1. /\ y.phase = "authenticated" /\ y.user = call[c].user /\ y.req = call[c].req
        /\ y.action = call[c].action /\ y.about = call[c].about
    BY <1>1 DEF CallRows
  <2>2. call'[c] = y \/ call'[c] = Idle
    BY <1>3 DEF Authenticate, CallsTyped
  <2> HIDE DEF y
  <2> QED
    BY <2>1, <2>2
<1>4. CASE Prepare(c)
  <2>1. PICK p : call' = [call EXCEPT ![c].phase = "prepared", ![c].plan = {p}]
    BY <1>4 DEF Prepare
  <2> DEFINE y == [call[c] EXCEPT !.phase = "prepared", !.plan = {p}]
  <2>2. /\ y.phase = "prepared" /\ y.user = call[c].user /\ y.req = call[c].req
        /\ y.action = call[c].action /\ y.about = call[c].about
    BY <1>1 DEF CallRows
  <2>3. call'[c] = y
    BY <2>1 DEF CallsTyped
  <2> HIDE DEF y
  <2> QED
    BY <2>2, <2>3
<1>5. CASE Commit(c)
  <2>1. PICK p : call' = [call EXCEPT ![c].phase = "committed", ![c].plan = {}, ![c].took = @ \cup {p.done}]
    BY <1>5 DEF Commit
  <2> DEFINE y == [call[c] EXCEPT !.phase = "committed", !.plan = {}, !.took = @ \cup {p.done}]
  <2>2. /\ y.phase = "committed" /\ y.user = call[c].user /\ y.req = call[c].req
        /\ y.action = call[c].action /\ y.about = call[c].about
    BY <1>1 DEF CallRows
  <2>3. call'[c] = y
    BY <2>1 DEF CallsTyped
  <2> HIDE DEF y
  <2> QED
    BY <2>2, <2>3
<1>6. CASE Crash(c)
  <2> DEFINE y == [call[c] EXCEPT !.phase = "unanswered", !.plan = {}]
  <2>1. /\ y.phase = "unanswered" /\ y.user = call[c].user /\ y.req = call[c].req
        /\ y.action = call[c].action /\ y.about = call[c].about
    BY <1>1 DEF CallRows
  <2>2. call'[c] = y
    BY <1>6 DEF Crash, CallsTyped
  <2> HIDE DEF y
  <2> QED
    BY <2>1, <2>2
<1>7. CASE LoseAnswer(c)
  <2> DEFINE y == [call[c] EXCEPT !.phase = "unanswered"]
  <2>1. /\ y.phase = "unanswered" /\ y.user = call[c].user /\ y.req = call[c].req
        /\ y.action = call[c].action /\ y.about = call[c].about
    BY <1>1 DEF CallRows
  <2>2. call'[c] = y
    BY <1>7 DEF LoseAnswer, CallsTyped
  <2> HIDE DEF y
  <2> QED
    BY <2>1, <2>2
<1>8. CASE Close(c) \/ Answer(c)
  BY <1>8 DEF Close, Answer, CallsTyped
<1> QED
  BY <1>2, <1>3, <1>4, <1>5, <1>6, <1>7, <1>8

\* A step of c keeps what its page knows.
LEMMA StepKnows ==
  ASSUME LoserInv, DecidedInOneRound(config), NEW c \in Clients, CallStep(c),
         config' = config, AllTasksKept
  PROVE  PageKnows(c)'
<1>1. /\ TypeOK /\ CallsTyped /\ OpenTasksAtCurrentStage /\ PageKnows(c)
      /\ call[c] # Idle => call[c] \in CallRows /\ call[c].req \in Requests
  BY StableFacts DEF LoserInv, StaffingInv, EngineInv
<1>2. ASSUME NEW u \in Users, NEW r \in Requests, NEW a \in ActionCodes, Open(c, u, r, a)
      PROVE  PageKnows(c)'
  BY <1>1, <1>2, OpenKnows
<1>3. call[c] # Idle => TasksKept(call[c].req)
  BY <1>1 DEF AllTasksKept
<1>4. CASE Refuse(c)
  <2>5. PICK answer \in Refusals(call[c]) :
          call' = [call EXCEPT ![c].phase = "answered", ![c].answer = answer]
    BY <1>4 DEF Refuse
  <2> DEFINE y == [call[c] EXCEPT !.phase = "answered", !.answer = answer]
  <2>1. call[c] # Idle
    BY <1>4 DEF Refuse, InPhase
  <2>2. /\ y.user = call[c].user /\ y.req = call[c].req /\ y.action = call[c].action
        /\ y.about = call[c].about /\ y.answer \in Refusals(call[c])
    BY <1>1, <2>1 DEF CallRows
  <2>3. call'[c] = y
    BY <1>1, <2>5 DEF CallsTyped
  <2> HIDE DEF y
  <2>4. y.action = "approve" /\ y.about # {} => y.answer = "TASK_DONE"
    BY <1>4, <2>2, RefusedIsDone
  <2> QED
    BY <1>1, <1>3, <2>1, <2>2, <2>3, <2>4, KnowledgeLasts
<1>5. CASE \/ Click(c) \/ Close(c) \/ Authenticate(c) \/ Prepare(c) \/ Commit(c)
           \/ Answer(c) \/ Crash(c) \/ LoseAnswer(c)
  <2>1. /\ call[c] # Idle
        /\ \/ call'[c] = Idle
           \/ \E y : /\ call'[c] = y /\ y.phase # "answered"
                     /\ y.user = call[c].user /\ y.req = call[c].req
                     /\ y.action = call[c].action /\ y.about = call[c].about
    BY <1>1, <1>5, CallsShowTheSame
  <2> QED
    BY <1>1, <1>3, <2>1, KnowledgeLasts
<1> QED
  BY <1>2, <1>4, <1>5 DEF CallStep, Session

\* A step of c, or an edit, leaves the pages of the others.
LEMMA OthersShowTheSame ==
  ASSUME CallsTyped, NEW c \in Clients, CallStep(c), NEW d \in Clients \ {c}
  PROVE  call'[d] = call[d]
BY DEF CallsTyped, CallStep, Session, Open, Click, Close, Authenticate, Prepare, Refuse, Commit,
       Answer, Crash, LoseAnswer

\* Every step of a system of calls keeps what pages know.
LEMMA LoserNext ==
  ASSUME LoserInv, DecidedInOneRound(config), [CallsServe]_allVars
  PROVE  LoserInv'
<1>1. StableInv /\ StaffingInv /\ EngineInv /\ TypeOK /\ CallsTyped
  BY StableFacts DEF LoserInv, StaffingInv
<1>2. StableInv' /\ [Serve]_vars
  BY <1>1, StableNext
<1>3. StaffingInv' /\ config' = config /\ \A r \in Requests : StagesExist(r)'
  BY <1>1, <1>2, ServeStaffing, ServeInv, ServeStages DEF LoserInv
<1>4. AllTasksKept
  BY <1>1, <1>2, NextIsStep, StepKeepsTasks DEF Next
<1>5. ASSUME NEW d \in Clients, call'[d] = call[d]
      PROVE  PageKnows(d)'
  <2>1. PageKnows(d) /\ (call[d] # Idle => TasksKept(call[d].req))
    BY <1>1, <1>4, StableFacts DEF LoserInv, AllTasksKept
  <2> QED
    BY <1>3, <1>5, <2>1, KnowledgeLasts
<1>6. ASSUME NEW c \in Clients, CallStep(c), NEW d \in Clients
      PROVE  PageKnows(d)'
  <2>1. CASE d = c
    BY <1>3, <1>4, <1>6, <2>1, StepKnows
  <2>2. CASE d # c
    BY <1>1, <1>5, <1>6, <2>2, OthersShowTheSame
  <2> QED
    BY <2>1, <2>2
<1>7. ASSUME Edit \/ UNCHANGED allVars, NEW d \in Clients
      PROVE  PageKnows(d)'
  BY <1>5, <1>7 DEF Edit, allVars, callVars
<1>8. \A d \in Clients : PageKnows(d)'
  BY <1>6, <1>7 DEF CallsServe
<1> QED
  BY <1>2, <1>3, <1>8 DEF LoserInv

\* In the beginning no page is open and no request there.
LEMMA LoserStart == CallsInit => LoserInv
<1> SUFFICES ASSUME CallsInit
             PROVE  LoserInv
  OBVIOUS
<1>1. StableInv /\ StaffingInv
  BY StableStart, InitInv DEF CallsInit, Init, StaffingInv, Staffing, NoRequest
<1>2. \A r \in Requests : StagesExist(r)
  BY DEF CallsInit, Init, StagesExist
<1>3. \A c \in Clients : PageKnows(c)
  BY DEF CallsInit, PageKnows
<1> QED
  BY <1>1, <1>2, <1>3 DEF LoserInv

\* On a route of one stage, an approver who was shown a task and whose approval is
\* refused learns that it is done, however the calls of all pages overlap and fail.
THEOREM RefusalsAreExplained ==
  ASSUME \A c \in Configs : DecidedInOneRound(c)
  PROVE  StableCallsSpec => []LoserInv
<1>1. LoserInv => DecidedInOneRound(config)
  BY StableFacts DEF LoserInv
<1>2. LoserInv /\ [CallsServe]_allVars => LoserInv'
  BY <1>1, LoserNext
<1> QED
  BY <1>2, LoserStart, PTL DEF StableCallsSpec

\* AC-APP-09 for routes of one stage: the approver whose task a colleague's decision
\* cancelled gets TASK_DONE from execute_action.
THEOREM LosersAreTold ==
  ASSUME \A c \in Configs : DecidedInOneRound(c)
  PROVE  StableCallsSpec => []LoserGetsTaskDone
<1>1. LoserInv => LoserGetsTaskDone
  BY DEF LoserInv, PageKnows, LoserGetsTaskDone, InPhase
<1> QED
  BY <1>1, RefusalsAreExplained, PTL
=============================================================================
