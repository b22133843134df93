------------------------ MODULE ApprovalEngineProofs ------------------------
(* Every execution of an action is a step of EngineStepProofs, whatever the *)
(* live configuration is when it runs; so what is proved of those steps     *)
(* holds of the engine under Spec.                                          *)
EXTENDS EngineStepProofs, FiniteSetTheorems, WellFoundedInduction

\* A transition that is found is a live row that leaves the current status.
LEMMA FoundTransition ==
  ASSUME config \in Configs, NEW u, NEW role, NEW r, NEW t, MayExecute(u, role, r, t)
  PROVE  t \in Rows /\ t.from = status[r] /\ status[r] # NoRequest
BY ConfigFacts DEF MayExecute, FindTransition

\* The task found is an open one of the user on the current stage.
LEMMA FoundTask ==
  ASSUME NEW u, NEW r, NEW x \in RequireOpenTask(u, r)
  PROVE  x \in OpenTasks(u, r) /\ x.stage = stage[r]
BY DEF RequireOpenTask, OpenTasksOf, OpenTasks

\* A stage that resolves to somebody gets new tasks, one for each of them.
LEMMA ResolvedTasks ==
  ASSUME NEW r, NEW s, CreateTasks(r, s) # {}
  PROVE  /\ ResolveAssignees(s) \in Rounds
         /\ CreateTasks(r, s) = NewTasks(r, s, ResolveAssignees(s))
<1>1. ResolveAssignees(s) \subseteq Users
  BY DEF ResolveAssignees
<1>2. CreateTasks(r, s) = NewTasks(r, s, ResolveAssignees(s))
  BY DEF CreateTasks, NewTasks
<1>3. ASSUME ResolveAssignees(s) = {}
      PROVE  CreateTasks(r, s) = {}
  BY <1>3 DEF CreateTasks
<1> QED
  BY <1>1, <1>2, <1>3 DEF Rounds

\* A submission asks the assignees of the first stage.
LEMMA SubmitSteps ==
  ASSUME TypeOK, NEW u \in Users, NEW role, NEW r \in Requests, NEW t, Submit(u, role, r, t)
  PROVE  EngineStep(u, r, t)
<1>1. config \in Configs /\ MayExecute(u, role, r, t)
  BY DEF Submit, TypeOK
<1>2. PICK s \in FirstStages :
        /\ CreateTasks(r, s) # {}
        /\ Update(u, r, t.action, "in_approval", s, NoTask, tasks[r], CreateTasks(r, s))
  BY DEF Submit, Update
<1>3. s \in Stages
  BY <1>1, ConfigFacts DEF FirstStages
<1>4. AskStep(u, r, t)
  BY <1>2, <1>3, ResolvedTasks DEF AskStep, Submit
<1> QED
  BY <1>1, <1>4, FoundTransition DEF EngineStep, Submit

\* An approval before the last stage passes the request on.
LEMMA ApproveNextSteps ==
  ASSUME TypeOK, NEW u \in Users, NEW role, NEW r \in Requests, NEW t, ApproveNext(u, role, r, t)
  PROVE  EngineStep(u, r, t)
<1>1. config \in Configs /\ MayExecute(u, role, r, t)
  BY DEF ApproveNext, TypeOK
<1>2. PICK x \in RequireOpenTask(u, r) : \E s \in NextStages(x.stage) :
        /\ CreateTasks(r, s) # {}
        /\ Update(u, r, t.action, "in_approval", s, Key(x), CloseStage(r, x), CreateTasks(r, s))
  BY DEF ApproveNext, Update
<1>3. PICK s \in NextStages(x.stage) :
        /\ CreateTasks(r, s) # {}
        /\ Update(u, r, t.action, "in_approval", s, Key(x), CloseStage(r, x), CreateTasks(r, s))
  BY <1>2
<1>4. s \in Stages
  BY <1>1, ConfigFacts DEF NextStages, Later
<1>5. PassStep(u, r, t)
  BY <1>3, <1>4, FoundTask, ResolvedTasks DEF PassStep, ApproveNext
<1> QED
  BY <1>1, <1>5, FoundTransition DEF EngineStep, ApproveNext

\* An approval of the last stage, a rejection and a return end the approval.
LEMMA DecisionSteps ==
  ASSUME TypeOK, NEW u \in Users, NEW role, NEW r \in Requests, NEW t,
         ApproveFinal(u, role, r, t) \/ Decide(u, role, r, t)
  PROVE  EngineStep(u, r, t)
<1>1. config \in Configs /\ MayExecute(u, role, r, t)
  BY DEF ApproveFinal, Decide, TypeOK
<1>2. CASE ApproveFinal(u, role, r, t)
  <2>1. PICK x \in RequireOpenTask(u, r) :
          Update(u, r, t.action, t.to, NoStage, Key(x), CloseStage(r, x), {})
    BY <1>2 DEF ApproveFinal, Update
  <2>2. FinalStep(u, r, t)
    BY <1>2, <2>1, FoundTask DEF FinalStep, ApproveFinal
  <2> QED
    BY <1>1, <1>2, <2>2, FoundTransition DEF EngineStep, ApproveFinal
<1>3. CASE Decide(u, role, r, t)
  <2>1. PICK x \in RequireOpenTask(u, r) :
          /\ Update(u, r, t.action, t.to, stage[r], Key(x), CloseStage(r, x), {})
          /\ comments' = [comments EXCEPT ![r] = @ \cup
               {[ev |-> Len(history[r]) + 1, author |-> u, task |-> Key(x)]}]
    BY <1>3 DEF Decide, Update
  <2>2. RefuseStep(u, r, t)
    BY <1>3, <2>1, FoundTask DEF RefuseStep, Decide
  <2> QED
    BY <1>1, <1>3, <2>2, FoundTransition DEF EngineStep, Decide
<1> QED
  BY <1>2, <1>3

\* A cancellation and the generic fallback move the request and leave its tasks.
LEMMA LeaveSteps ==
  ASSUME TypeOK, NEW u \in Users, NEW role, NEW r \in Requests, NEW t, Leave(u, role, r, t)
  PROVE  EngineStep(u, r, t)
<1>1. config \in Configs /\ MayExecute(u, role, r, t) /\ UNCHANGED <<tasks, batch>>
  BY DEF Leave, TypeOK
<1>2. SetTasks(r, tasks[r], {})
  BY <1>1 DEF SetTasks, TypeOK
<1>3. MoveStep(u, r, t)
  BY <1>2 DEF MoveStep, Leave, Update
<1> QED
  BY <1>1, <1>3, FoundTransition DEF EngineStep, Leave

\* Every step of the service or of its administrators is one of those steps.
LEMMA NextIsStep == TypeOK /\ [Next]_vars => [StepNext]_vars
<1> SUFFICES ASSUME TypeOK, Next
             PROVE  StepNext
  OBVIOUS
<1>1. ASSUME NEW u \in Users, NEW r \in Requests, NEW t \in config.transitions,
             Execute(u, config.role[u], r, t)
      PROVE  StepNext
  <2>1. t \in Rows
    BY ConfigFacts DEF TypeOK
  <2>2. EngineStep(u, r, t)
    BY <1>1, SubmitSteps, ApproveNextSteps, DecisionSteps, LeaveSteps DEF Execute
  <2> QED
    BY <2>1, <2>2 DEF StepNext
<1> QED
  BY <1>1 DEF Next, Serve, StepNext

\* Every behaviour of the engine is one of its committed steps.
THEOREM EngineTakesSteps == Spec => StepSpec
<1>1. Init => TypeOK
  BY InitTypes
<1>2. TypeOK /\ [Next]_vars => TypeOK'
  BY NextIsStep, NextTypes
<1>3. TypeOK /\ [Next]_vars => [StepNext]_vars
  BY NextIsStep
<1> QED
  BY <1>1, <1>2, <1>3, PTL DEF Spec, StepSpec

\* Every reachable state of the tables has the shape the source gives them,
\* for any users, requests, live configurations and history length.
THEOREM TypeCorrect == Spec => []TypeOK
BY EngineTakesSteps, StepInvariant, PTL DEF EngineInv

\* The rows of every request stay consistent with one another: open tasks, status,
\* stage and initiator, whatever the interleaving and the live configurations.
THEOREM EngineInvariant == Spec => []EngineInv
BY EngineTakesSteps, StepInvariant, PTL

\* NFR-REL-03: at every moment the open tasks are those of the request's current
\* stage, under any change of the live configuration.
THEOREM OpenTasksConsistent == Spec => []OpenTasksAtCurrentStage
BY EngineInvariant, PTL DEF EngineInv

\* No request in approval is ever left without an open task.
THEOREM ApprovalHasTask == Spec => []InApprovalHasOpenTask
BY EngineInvariant, PTL DEF EngineInv

\* BR-05: the current stage is set exactly in approval and after a refusal.
THEOREM StageConsistent == Spec => []StagePresence
BY EngineInvariant, PTL DEF EngineInv

\* BR-21: no task is ever completed by the initiator of its request.
THEOREM SelfApprovalExcluded == Spec => []NoSelfApproval
BY EngineInvariant, PTL DEF EngineInv

\* NFR-REL-02: a closed task is immutable, and no task is ever removed.
THEOREM ClosedTasksImmutable == Spec => ClosedTasksStay
<1>1. TypeOK /\ [StepNext]_vars => [AllTasksKept]_vars
  BY StepKeepsTasks
<1> QED
  BY <1>1, EngineTakesSteps, TypeCorrect, PTL DEF StepSpec, ClosedTasksStay

\* NFR-REL-01: no change of a request goes without the one event that explains it.
THEOREM AuditComplete == Spec => ChangesAreRecorded
<1>1. TypeOK /\ [StepNext]_vars => [AllChangesRecorded]_vars
  BY StepRecorded
<1> QED
  BY <1>1, EngineTakesSteps, TypeCorrect, PTL DEF StepSpec, ChangesAreRecorded

\* update_working_values: a commit leaves every field that its payload omits as it is,
\* whatever the workers and the engine have done since the rows were loaded.
THEOREM OmittedUntouched == Spec => OmittedFieldsStay
<1>1. TypeOK /\ [StepNext]_vars => [OmittedKept]_vars
  BY StepKeepsOmitted
<1> QED
  BY <1>1, EngineTakesSteps, TypeCorrect, PTL DEF StepSpec, OmittedFieldsStay

\* update_working_values: a value given to a commit is stored, unless another PATCH
\* has changed that field since.
THEOREM WritesLostOnlyIfStale == Spec => OnlyStaleWritesLost
<1>1. TypeOK /\ [StepNext]_vars => [WrittenUnlessStale]_vars
  BY StepWrites
<1> QED
  BY <1>1, EngineTakesSteps, TypeCorrect, PTL DEF StepSpec, OnlyStaleWritesLost
-----------------------------------------------------------------------------
(* A configuration that stays.                                             *)

\* The steps of the service are steps of the engine.
LEMMA ServeInv ==
  ASSUME EngineInv, [Serve]_vars
  PROVE  EngineInv' /\ config' = config
<1>1. TypeOK /\ [Next]_vars
  BY DEF EngineInv, Next
<1>2. EngineInv'
  BY <1>1, NextIsStep, NextInv
<1>3. ASSUME NEW u \in Users, NEW r \in Requests, NEW t \in config.transitions,
             Execute(u, config.role[u], r, t)
      PROVE  config' = config
  BY <1>3 DEF Execute, Submit, ApproveNext, ApproveFinal, Decide, Leave
<1>4. config' = config
  BY <1>3 DEF Serve, Create, PatchRead, PatchCommit, PatchRollback, vars
<1> QED
  BY <1>2, <1>4

\* Every execution is an engine step by a live row.
LEMMA ExecuteSteps ==
  ASSUME TypeOK, NEW u \in Users, NEW role, NEW r \in Requests, NEW t, Execute(u, role, r, t)
  PROVE  EngineStep(u, r, t) /\ t \in Rows /\ MayExecute(u, role, r, t)
<1>1. MayExecute(u, role, r, t) /\ config \in Configs
  BY DEF Execute, Submit, ApproveNext, ApproveFinal, Decide, Leave, TypeOK
<1>2. EngineStep(u, r, t)
  BY SubmitSteps, ApproveNextSteps, DecisionSteps, LeaveSteps DEF Execute
<1> QED
  BY <1>1, <1>2, FoundTransition

\* Those who are asked to decide a stage are assigned to it.
Asked(y) == y.stage \in config.stages /\ y.assignee \in ResolveAssignees(y.stage)

\* A task left open by a closed stage is one that was there.
LEMMA OpenAfterClose ==
  ASSUME TypeOK, NEW r \in Requests, NEW x, NEW y \in CloseStage(r, x), y.status = "open"
  PROVE  y \in tasks[r]
<1>1. PICK z \in tasks[r] : y = Closed(z, x)
  BY DEF CloseStage
<1>2. z \in Tasks
  BY DEF TypeOK
<1> QED
  BY <1>1, <1>2 DEF Closed, Tasks

\* The tasks that an execution leaves open were open before or are those of a stage.
LEMMA ExecuteAsks ==
  ASSUME TypeOK, NEW u \in Users, NEW role, NEW r \in Requests, NEW t, Execute(u, role, r, t),
         NEW y \in tasks'[r], y.status = "open"
  PROVE  y \in tasks[r] \/ Asked(y)
<1>1. ASSUME NEW s \in config.stages, y \in CreateTasks(r, s)
      PROVE  Asked(y)
  BY <1>1 DEF CreateTasks, Asked
<1>2. CASE Submit(u, role, r, t)
  <2>1. PICK s \in FirstStages : SetTasks(r, tasks[r], CreateTasks(r, s))
    BY <1>2 DEF Submit
  <2>2. s \in config.stages
    BY DEF FirstStages
  <2> QED
    BY <1>1, <2>1, <2>2 DEF SetTasks, TypeOK
<1>3. CASE ApproveNext(u, role, r, t)
  <2>1. PICK x \in RequireOpenTask(u, r) : \E s \in NextStages(x.stage) :
          SetTasks(r, CloseStage(r, x), CreateTasks(r, s))
    BY <1>3 DEF ApproveNext
  <2>2. PICK s \in NextStages(x.stage) : SetTasks(r, CloseStage(r, x), CreateTasks(r, s))
    BY <2>1
  <2>3. s \in config.stages
    BY DEF NextStages, Later
  <2>4. y \in CloseStage(r, x) \/ y \in CreateTasks(r, s)
    BY <2>2 DEF SetTasks, TypeOK
  <2> QED
    BY <1>1, <2>3, <2>4, OpenAfterClose
<1>4. CASE ApproveFinal(u, role, r, t) \/ Decide(u, role, r, t)
  <2>1. PICK x \in RequireOpenTask(u, r) : SetTasks(r, CloseStage(r, x), {})
    BY <1>4 DEF ApproveFinal, Decide
  <2>2. y \in CloseStage(r, x)
    BY <2>1 DEF SetTasks, TypeOK
  <2> QED
    BY <2>2, OpenAfterClose
<1>5. CASE Leave(u, role, r, t)
  BY <1>5 DEF Leave
<1> QED
  BY <1>2, <1>3, <1>4, <1>5 DEF Execute

\* An execution that leaves a request in approval asks everybody whom its stage resolves to.
LEMMA ExecuteAsksAll ==
  ASSUME TypeOK, NEW u \in Users, NEW role, NEW r \in Requests, NEW t, Execute(u, role, r, t),
         status'[r] = "in_approval", NEW v \in ResolveAssignees(stage'[r])
  PROVE  \E y \in tasks'[r] : y.status = "open" /\ y.stage = stage'[r] /\ y.assignee = v
<1>1. ASSUME NEW s, NEW new, SetRequest(r, "in_approval", s), SetTasks(r, new, CreateTasks(r, s))
      PROVE  \E y \in tasks'[r] : y.status = "open" /\ y.stage = stage'[r] /\ y.assignee = v
  <2>1. stage'[r] = s /\ v \in Users
    BY <1>1 DEF SetRequest, TypeOK, ResolveAssignees
  <2>2. PICK y : y = [batch |-> batch[r] + 1, stage |-> s, assignee |-> v, status |-> "open"]
    OBVIOUS
  <2>3. y \in CreateTasks(r, s)
    BY <2>1, <2>2 DEF CreateTasks
  <2>4. y \in tasks'[r]
    BY <1>1, <2>3 DEF SetTasks, TypeOK
  <2> QED
    BY <2>1, <2>2, <2>4
<1>2. CASE Submit(u, role, r, t)
  <2>1. PICK s \in FirstStages : SetRequest(r, t.to, s) /\ SetTasks(r, tasks[r], CreateTasks(r, s))
    BY <1>2 DEF Submit
  <2>2. t.to = "in_approval"
    BY <1>2 DEF Submit
  <2> QED
    BY <1>1, <2>1, <2>2
<1>3. CASE ApproveNext(u, role, r, t)
  <2>1. PICK x \in RequireOpenTask(u, r) : \E s \in NextStages(x.stage) :
          SetRequest(r, "in_approval", s) /\ SetTasks(r, CloseStage(r, x), CreateTasks(r, s))
    BY <1>3 DEF ApproveNext
  <2> QED
    BY <1>1, <2>1
<1>4. ASSUME ApproveFinal(u, role, r, t) \/ Decide(u, role, r, t) \/ Leave(u, role, r, t)
      PROVE  FALSE
  <2>1. status'[r] = t.to
    BY <1>4 DEF ApproveFinal, Decide, Leave, SetRequest, TypeOK
  <2>2. t \in Rows
    BY ExecuteSteps
  <2>3. t.to # "in_approval"
    BY <1>4, <2>2, RowFacts DEF ApproveFinal, Decide, Leave
  <2> QED
    BY <2>1, <2>3
<1> QED
  BY <1>2, <1>3, <1>4 DEF Execute

\* Everybody whom the current stage resolves to has an open task on it.
EveryoneAsked(r) ==
  \A u \in ResolveAssignees(stage[r]) : \E t \in tasks[r] :
    t.status = "open" /\ t.stage = stage[r] /\ t.assignee = u

\* Requests are made by employees, and the users who are asked are all those of a stage.
Staffing(r) ==
  /\ status[r] # NoRequest => config.role[initiator[r]] = "employee"
  /\ \A t \in tasks[r] : t.status = "open" => Asked(t)
  /\ status[r] = "in_approval" => EveryoneAsked(r)

StaffingInv == EngineInv /\ \A r \in Requests : Staffing(r)

\* It stays so while the configuration does.
LEMMA StaffingStays ==
  ASSUME NEW r \in Requests, Staffing(r), config' = config,
         status'[r] # NoRequest => config.role[initiator'[r]] = "employee",
         \A y \in tasks'[r] : y.status = "open" => y \in tasks[r] \/ Asked(y),
         status'[r] = "in_approval" =>
           \A u \in ResolveAssignees(stage'[r]) : \E t \in tasks'[r] :
             t.status = "open" /\ t.stage = stage'[r] /\ t.assignee = u
  PROVE  Staffing(r)'
BY DEF Staffing, Asked, EveryoneAsked, ResolveAssignees

\* Every step of the service keeps it.
LEMMA ServeStaffing == StaffingInv /\ [Serve]_vars => StaffingInv'
<1> SUFFICES ASSUME StaffingInv, [Serve]_vars, NEW q \in Requests
             PROVE  Staffing(q)'
  BY ServeInv DEF StaffingInv
<1>1. TypeOK /\ config' = config /\ Staffing(q)
  BY ServeInv DEF StaffingInv, EngineInv
<1>2. ASSUME NEW u \in Users, NEW r \in Requests, NEW write \in Writes, Create(u, r, write)
      PROVE  Staffing(q)'
  <2>1. /\ tasks' = tasks /\ config.role[u] = "employee"
        /\ status'[q] = IF q = r THEN "draft" ELSE status[q]
        /\ q # r => stage'[q] = stage[q]
        /\ initiator'[q] = IF q = r THEN u ELSE initiator[q]
    BY <1>1, <1>2 DEF Create, SetRequest, TypeOK
  <2>2. status'[q] # NoRequest => config.role[initiator'[q]] = "employee"
    BY <1>1, <2>1 DEF Staffing
  <2>3. status'[q] = "in_approval" =>
          \A v \in ResolveAssignees(stage'[q]) : \E k \in tasks'[q] :
            k.status = "open" /\ k.stage = stage'[q] /\ k.assignee = v
    BY <1>1, <2>1 DEF Staffing, EveryoneAsked
  <2> QED
    BY <1>1, <2>1, <2>2, <2>3, StaffingStays
<1>3. ASSUME NEW u \in Users, NEW r \in Requests, NEW t \in config.transitions,
             Execute(u, config.role[u], r, t)
      PROVE  Staffing(q)'
  <2>1. PICK role : role = config.role[u]
    OBVIOUS
  <2>2. Execute(u, role, r, t)
    BY <1>3, <2>1
  <2>3. EngineStep(u, r, t) /\ t \in Rows
    BY <1>1, <2>2, ExecuteSteps
  <2>4. initiator' = initiator /\ status[r] # NoRequest
    BY <2>3 DEF EngineStep
  <2>5. CASE q = r
    <3>1. \A y \in tasks'[q] : y.status = "open" => y \in tasks[q] \/ Asked(y)
      BY <1>1, <2>2, <2>5, ExecuteAsks
    <3>2. status'[q] # NoRequest => config.role[initiator'[q]] = "employee"
      BY <1>1, <2>4, <2>5 DEF Staffing
    <3>3. status'[q] = "in_approval" =>
            \A v \in ResolveAssignees(stage'[q]) : \E k \in tasks'[q] :
              k.status = "open" /\ k.stage = stage'[q] /\ k.assignee = v
      BY <1>1, <2>2, <2>5, ExecuteAsksAll
    <3> QED
      BY <1>1, <3>1, <3>2, <3>3, StaffingStays
  <2>6. CASE q # r
    <3>1. status'[q] = status[q] /\ stage'[q] = stage[q] /\ tasks'[q] = tasks[q]
      BY <1>1, <2>3, <2>6, StepEvent
    <3>2. status'[q] # NoRequest => config.role[initiator'[q]] = "employee"
      BY <1>1, <2>4, <3>1 DEF Staffing
    <3>3. status'[q] = "in_approval" =>
            \A v \in ResolveAssignees(stage'[q]) : \E k \in tasks'[q] :
              k.status = "open" /\ k.stage = stage'[q] /\ k.assignee = v
      BY <1>1, <3>1 DEF Staffing, EveryoneAsked
    <3> QED
      BY <1>1, <3>1, <3>2, <3>3, StaffingStays
  <2> QED
    BY <2>5, <2>6
<1>4. ASSUME UNCHANGED <<status, stage, initiator, tasks>>
      PROVE  Staffing(q)'
  <2>1. status'[q] # NoRequest => config.role[initiator'[q]] = "employee"
    BY <1>1, <1>4 DEF Staffing
  <2>2. status'[q] = "in_approval" =>
          \A v \in ResolveAssignees(stage'[q]) : \E k \in tasks'[q] :
            k.status = "open" /\ k.stage = stage'[q] /\ k.assignee = v
    BY <1>1, <1>4 DEF Staffing, EveryoneAsked
  <2> QED
    BY <1>1, <1>4, <2>1, <2>2, StaffingStays
<1>5. ASSUME \/ \E w \in Workers, u \in Users, r \in Requests, write \in Writes : PatchRead(w, u, r, write)
             \/ \E w \in Workers : PatchCommit(w) \/ PatchRollback(w)
             \/ UNCHANGED vars
      PROVE  UNCHANGED <<status, stage, initiator, tasks>>
  BY <1>5 DEF PatchRead, PatchCommit, PatchRollback, vars, requestVars
<1> QED
  BY <1>2, <1>3, <1>4, <1>5 DEF Serve

\* The active approver of a staffed stage was asked, and may decide.
LEMMA StaffedDecides == StaffingInv => Decidable
<1> SUFFICES ASSUME StaffingInv, NEW r \in Requests, status[r] = "in_approval", Staffed(stage[r])
             PROVE  \E u \in config.activeUsers :
                      config.role[u] = "approver" /\ NotSelfApproval(u, r) /\ RequireOpenTask(u, r) # {}
  BY DEF Decidable
<1>1. /\ Staffing(r) /\ OpenTasksAtCurrentStage /\ status[r] # NoRequest /\ EveryoneAsked(r)
      /\ config \in Configs
  BY DEF StaffingInv, Staffing, EngineInv, TypeOK, NoRequest
<1>2. PICK a \in config.assigned[stage[r]], v \in config.activeUsers :
        /\ config.role[v] = "approver"
        /\ IF a.kind = "role" THEN a.role = "approver" ELSE a.user = v
  BY DEF Staffed
<1>3. PICK u : u = v
  OBVIOUS
<1>4. stage[r] \in config.stages
  <2>1. PICK k \in tasks[r] : k.status = "open"
    BY DEF StaffingInv, EngineInv, InApprovalHasOpenTask
  <2> QED
    BY <1>1, <2>1 DEF Staffing, Asked, OpenTasksAtCurrentStage
<1>5. u \in Users /\ a.kind \in {"user", "role", "role_and_user"}
  <2>1. config.activeUsers \subseteq Users /\ config.assigned[stage[r]] \subseteq Assignments
    BY <1>1, <1>4, ConfigsAssumption DEF IsConfig
  <2>2. a \in Assignments
    BY <2>1
  <2> QED
    BY <1>3, <2>1, <2>2 DEF Assignments
<1>6. u \in ResolveAssignees(stage[r])
  BY <1>2, <1>3, <1>5 DEF ResolveAssignees
<1>7. PICK t \in tasks[r] : t.status = "open" /\ t.stage = stage[r] /\ t.assignee = u
  BY <1>1, <1>6 DEF EveryoneAsked
<1>8. NotSelfApproval(u, r)
  BY <1>1, <1>2, <1>3 DEF Staffing, NotSelfApproval
<1>9. \A x \in OpenTasksOf(u, r) : x.batch = batch[r]
  BY <1>1 DEF OpenTasksOf, OpenTasksAtCurrentStage
<1>10. t \in OpenTasksOf(u, r) /\ batch[r] \in Nat
  BY <1>7 DEF OpenTasksOf, StaffingInv, EngineInv, TypeOK
<1>11. t \in RequireOpenTask(u, r)
  BY <1>9, <1>10 DEF RequireOpenTask
<1> QED
  BY <1>2, <1>3, <1>8, <1>11

\* BR-21 does not block a route: under a configuration that stays, every request that
\* waits at a stage assigned to an active approver, whoever else is asked with them, has
\* an approver, other than its initiator, whom the engine would let decide it.
THEOREM AlwaysDecidable == StableSpec => []Decidable
<1>1. Init => StaffingInv
  BY InitInv DEF Init, StaffingInv, Staffing, NoRequest
<1>2. StaffingInv /\ [Serve]_vars => StaffingInv'
  BY ServeStaffing
<1>3. StaffingInv => Decidable
  BY StaffedDecides
<1> QED
  BY <1>1, <1>2, <1>3, PTL DEF StableSpec
-----------------------------------------------------------------------------
(* The route of a request, under a configuration that stays.               *)

\* A set of numbers that is not empty has a least one.
LEMMA LeastNumber ==
  ASSUME NEW S, S \subseteq Nat, S # {}
  PROVE  \E x \in S : \A y \in S : x <= y
<1>1. IsWellFoundedOn(OpToRel(<, Nat), Nat)
  BY NatLessThanWellFounded, Zenon
<1>2. PICK R : R = OpToRel(<, Nat)
  BY Zenon
<1>3. IsWellFoundedOn(R, Nat)
  BY <1>1, <1>2, Zenon
<1>4. PICK x \in S : \A y \in S : ~(<<y, x>> \in R)
  BY <1>3, WFMin
<1>5. R = {ss \in Nat \X Nat : ss[1] < ss[2]}
  BY <1>2 DEF OpToRel
<1>6. ASSUME NEW y \in S
      PROVE  x <= y
  <2>1. x \in Nat /\ y \in Nat /\ <<y, x>> \in Nat \X Nat
    OBVIOUS
  <2>2. ~(y < x)
    BY <1>4, <1>5, <2>1
  <2> QED
    BY <2>1, <2>2
<1> QED
  BY <1>6

\* The stages after x up to s.
Between(x, s) == {y \in config.stages : Precedes(x, y) /\ ~Precedes(s, y)}

\* The stages of a configuration are finitely many, and one has one number.
LEMMA StageFacts ==
  ASSUME config \in Configs
  PROVE  /\ config.stages \subseteq Nat
         /\ IsFiniteSet(config.stages)
         /\ \A s \in config.stages : config.number[s] \in Nat
         /\ \A s, x \in config.stages : config.number[s] = config.number[x] => s = x
         /\ \A x, s : IsFiniteSet(Between(x, s)) /\ Cardinality(Between(x, s)) \in Nat
<1>1. /\ config.stages \subseteq Nat /\ IsFiniteSet(config.stages)
      /\ \A s \in config.stages : config.number[s] \in Nat
      /\ \A s, x \in config.stages : config.number[s] = config.number[x] => s = x
  BY ConfigsAssumption DEF IsConfig, Stages
<1>2. ASSUME NEW x, NEW s
      PROVE  IsFiniteSet(Between(x, s)) /\ Cardinality(Between(x, s)) \in Nat
  <2>1. Between(x, s) \subseteq config.stages
    BY DEF Between
  <2> QED
    BY <1>1, <2>1, FS_Subset, FS_CardinalityType
<1> QED
  BY <1>1, <1>2

\* The next stage is one more to count.
LEMMA BetweenNext ==
  ASSUME config \in Configs, NEW p \in config.stages, NEW s \in NextStages(p),
         NEW x \in config.stages, Precedes(x, s)
  PROVE  IF Precedes(x, p) THEN Cardinality(Between(x, s)) = Cardinality(Between(x, p)) + 1
                           ELSE x = p /\ Cardinality(Between(x, s)) = 1
<1>1. /\ s \in config.stages /\ Precedes(p, s)
      /\ \A y \in config.stages : Precedes(p, y) => ~Precedes(y, s)
  BY DEF NextStages, Later
<1>2. /\ IsFiniteSet(Between(x, p))
      /\ \A y \in config.stages : config.number[y] \in Nat
      /\ \A y, z \in config.stages : config.number[y] = config.number[z] => y = z
  BY StageFacts
<1>3. CASE Precedes(x, p)
  <2>1. Between(x, s) = Between(x, p) \cup {s} /\ s \notin Between(x, p)
    BY <1>1, <1>2, <1>3 DEF Between, Precedes
  <2> QED
    BY <1>2, <1>3, <2>1, FS_AddElement
<1>4. CASE ~Precedes(x, p)
  <2>1. x = p
    BY <1>1, <1>2, <1>4 DEF Precedes
  <2>2. Between(x, s) = {s}
    BY <1>1, <1>2, <2>1 DEF Between, Precedes
  <2> QED
    BY <1>4, <2>1, <2>2, FS_Singleton
<1> QED
  BY <1>3, <1>4

\* Where no stage is next, none is left.
LEMMA LastStage ==
  ASSUME config \in Configs, NEW p \in config.stages, NextStages(p) = {}, NEW x \in config.stages
  PROVE  IF Precedes(x, p) THEN Cardinality(Later(x)) = Cardinality(Between(x, p))
                           ELSE x = p /\ Cardinality(Later(x)) = 0
<1>1. /\ \A y \in config.stages : config.number[y] \in Nat
      /\ \A y, z \in config.stages : config.number[y] = config.number[z] => y = z
  BY StageFacts
<1>2. Later(p) = {}
  <2> SUFFICES ASSUME Later(p) # {}
               PROVE  FALSE
    OBVIOUS
  <2> DEFINE S == {config.number[y] : y \in Later(p)}
  <2>1. S \subseteq Nat /\ S # {}
    BY <1>1 DEF Later
  <2>2. PICK n \in S : \A k \in S : n <= k
    BY <2>1, LeastNumber
  <2>3. PICK y \in Later(p) : config.number[y] = n
    OBVIOUS
  <2>4. \A z \in Later(p) : ~Precedes(z, y)
    BY <1>1, <2>2, <2>3 DEF Later, Precedes
  <2> QED
    BY <2>4 DEF NextStages
<1>3. \A y \in config.stages : ~Precedes(p, y)
  BY <1>2 DEF Later
<1>4. CASE Precedes(x, p)
  <2>1. Later(x) = Between(x, p)
    BY <1>3 DEF Later, Between
  <2> QED
    BY <1>4, <2>1
<1>5. CASE ~Precedes(x, p)
  <2>1. x = p
    BY <1>1, <1>3, <1>5 DEF Precedes
  <2> QED
    BY <1>2, <1>5, <2>1, FS_EmptySet
<1> QED
  BY <1>4, <1>5

\* The stage x was approved in the n-th batch before the latest.
ApprovedAt(r, x, n) ==
  \E t \in tasks[r] : t.stage = x /\ t.status = "completed" /\ batch[r] - t.batch = n

\* Every stage before the current one was approved, in order, since the submission.
Route(r) ==
  /\ status[r] = "in_approval" =>
       /\ stage[r] \in config.stages
       /\ \A x \in config.stages :
            Precedes(x, stage[r]) => ApprovedAt(r, x, Cardinality(Between(x, stage[r])))
  /\ status[r] = "approved" =>
       \A x \in config.stages : ApprovedAt(r, x, Cardinality(Later(x)))

RouteInv == EngineInv /\ \A r \in Requests : Route(r)

\* The routes of the requests that a step leaves alone.
LEMMA RouteSame ==
  ASSUME NEW r \in Requests, Route(r), config' = config, status'[r] = status[r],
         stage'[r] = stage[r], tasks'[r] = tasks[r], batch'[r] = batch[r]
  PROVE  Route(r)'
BY DEF Route, ApprovedAt, Between, Later, Precedes

\* A decision of a stage that leaves the request in batch b.
LEMMA ApprovedAfter ==
  ASSUME EngineInv, NEW u \in Users, NEW r \in Requests, NEW x \in OpenTasks(u, r),
         NEW created, NEW d \in Nat,
         tasks'[r] = CloseStage(r, x) \cup created, batch'[r] = batch[r] + d
  PROVE  /\ ApprovedAt(r, x.stage, d)'
         /\ \A y \in Nat, n \in Nat : ApprovedAt(r, y, n) => ApprovedAt(r, y, n + d)'
<1>1. /\ x \in tasks[r] /\ x.status = "open" /\ x.batch = batch[r]
      /\ batch[r] \in Nat /\ \A t \in tasks[r] : t \in Tasks /\ t.batch \in Nat
  BY DEF EngineInv, OpenTasksAtCurrentStage, OpenTasks, TypeOK, Tasks
<1>2. \A t \in tasks[r] : Closed(t, x) \in tasks'[r]
  BY DEF CloseStage
<1>3. ApprovedAt(r, x.stage, d)'
  <2>1. Closed(x, x).status = "completed" /\ Closed(x, x).stage = x.stage /\ Closed(x, x).batch = batch[r]
    BY <1>1, ClosedTask
  <2> QED
    BY <1>1, <1>2, <2>1 DEF ApprovedAt
<1>4. ASSUME NEW y \in Nat, NEW n \in Nat, ApprovedAt(r, y, n)
      PROVE  ApprovedAt(r, y, n + d)'
  <2>1. PICK t \in tasks[r] : t.stage = y /\ t.status = "completed" /\ batch[r] - t.batch = n
    BY <1>4 DEF ApprovedAt
  <2>2. Closed(t, x) = t
    BY <1>1, <2>1, ClosedTask
  <2>3. t \in tasks'[r] /\ batch'[r] - t.batch = n + d
    BY <1>1, <1>2, <2>1, <2>2
  <2> QED
    BY <2>1, <2>3 DEF ApprovedAt
<1> QED
  BY <1>3, <1>4

\* What the invariant says after a step, read in the configuration before it.
LEMMA RouteAfter ==
  ASSUME NEW r \in Requests, config' = config,
         status'[r] = "in_approval" =>
           /\ stage'[r] \in config.stages
           /\ \A x \in config.stages : Precedes(x, stage'[r]) =>
                \E n \in Nat : n = Cardinality(Between(x, stage'[r])) /\ ApprovedAt(r, x, n)',
         status'[r] = "approved" =>
           \A x \in config.stages : \E n \in Nat : n = Cardinality(Later(x)) /\ ApprovedAt(r, x, n)'
  PROVE  Route(r)'
BY DEF Route, ApprovedAt, Between, Later, Precedes

\* A submission starts at the first stage.
LEMMA SubmitRoute ==
  ASSUME EngineInv, NEW u \in Users, NEW role, NEW r \in Requests, NEW t, Submit(u, role, r, t)
  PROVE  Route(r)'
<1>1. config' = config /\ status'[r] = "in_approval" /\ stage'[r] \in FirstStages
  BY DEF Submit, SetRequest, EngineInv, TypeOK
<1>2. stage'[r] \in config.stages /\ \A x \in config.stages : ~Precedes(x, stage'[r])
  BY <1>1 DEF FirstStages
<1> QED
  BY <1>1, <1>2, RouteAfter

\* An approval that goes on adds its stage to those approved.
LEMMA ApproveNextRoute ==
  ASSUME EngineInv, NEW u \in Users, NEW role, NEW r \in Requests, NEW t, Route(r),
         ApproveNext(u, role, r, t)
  PROVE  Route(r)'
<1>1. /\ TypeOK /\ RequestInv(r) /\ NotSelfApproval(u, r) /\ config' = config /\ config \in Configs
      /\ batch[r] \in Nat
  BY EngineInvByRequest DEF ApproveNext, EngineInv, TypeOK
<1>2. PICK x \in RequireOpenTask(u, r) : \E s \in NextStages(x.stage) :
        /\ CreateTasks(r, s) # {}
        /\ SetRequest(r, "in_approval", s)
        /\ SetTasks(r, CloseStage(r, x), CreateTasks(r, s))
  BY DEF ApproveNext
<1>3. PICK s \in NextStages(x.stage) :
        /\ CreateTasks(r, s) # {}
        /\ SetRequest(r, "in_approval", s)
        /\ SetTasks(r, CloseStage(r, x), CreateTasks(r, s))
  BY <1>2
<1>4. x \in OpenTasks(u, r) /\ x.stage = stage[r]
  BY FoundTask
<1>5. status[r] = "in_approval" /\ stage[r] \in config.stages
  BY <1>1, <1>4, NoneOpenAfterClose DEF Route
<1>6. PICK p \in config.stages : p = stage[r]
  BY <1>5
<1>7. PICK created : created = CreateTasks(r, s)
  OBVIOUS
<1>8. /\ status'[r] = "in_approval" /\ stage'[r] = s
      /\ tasks'[r] = CloseStage(r, x) \cup created /\ batch'[r] = batch[r] + 1
  BY <1>1, <1>3, <1>7 DEF SetRequest, SetTasks, TypeOK
<1>9. /\ ApprovedAt(r, x.stage, 1)'
      /\ \A y \in Nat, n \in Nat : ApprovedAt(r, y, n) => ApprovedAt(r, y, n + 1)'
  BY <1>4, <1>8, ApprovedAfter
<1>10. ASSUME NEW y \in config.stages, Precedes(y, s)
       PROVE  \E n \in Nat : n = Cardinality(Between(y, s)) /\ ApprovedAt(r, y, n)'
  <2>1. y \in Nat /\ Cardinality(Between(y, p)) \in Nat /\ s \in NextStages(p)
    BY <1>1, <1>4, <1>6, StageFacts
  <2>2. IF Precedes(y, p) THEN Cardinality(Between(y, s)) = Cardinality(Between(y, p)) + 1
                          ELSE y = p /\ Cardinality(Between(y, s)) = 1
    BY <1>1, <1>10, <2>1, BetweenNext
  <2>3. CASE Precedes(y, p)
    <3>1. PICK n \in Nat : n = Cardinality(Between(y, p))
      BY <2>1
    <3>2. ApprovedAt(r, y, n)
      BY <1>5, <1>6, <2>3, <3>1 DEF Route
    <3>3. ApprovedAt(r, y, n + 1)'
      BY <1>9, <2>1, <3>2
    <3>4. n + 1 \in Nat /\ n + 1 = Cardinality(Between(y, s))
      BY <2>2, <2>3, <3>1
    <3> QED
      BY <3>3, <3>4
  <2>4. CASE ~Precedes(y, p)
    <3>1. y = x.stage /\ Cardinality(Between(y, s)) = 1 /\ 1 \in Nat
      BY <1>4, <1>6, <2>2, <2>4
    <3>2. ApprovedAt(r, y, 1)'
      BY <1>9, <3>1
    <3> QED
      BY <3>1, <3>2
  <2> QED
    BY <2>3, <2>4
<1>11. s \in config.stages
  BY DEF NextStages, Later
<1> QED
  BY <1>1, <1>8, <1>10, <1>11, RouteAfter

\* The last approval ends a route whose every stage is approved.
LEMMA ApproveFinalRoute ==
  ASSUME EngineInv, NEW u \in Users, NEW role, NEW r \in Requests, NEW t, Route(r),
         ApproveFinal(u, role, r, t)
  PROVE  Route(r)'
<1>1. /\ TypeOK /\ RequestInv(r) /\ NotSelfApproval(u, r) /\ config' = config /\ config \in Configs
      /\ batch[r] \in Nat
  BY EngineInvByRequest DEF ApproveFinal, EngineInv, TypeOK
<1>2. PICK x \in RequireOpenTask(u, r) :
        NextStages(x.stage) = {} /\ SetRequest(r, t.to, NoStage) /\ SetTasks(r, CloseStage(r, x), {})
  BY DEF ApproveFinal
<1>3. x \in OpenTasks(u, r) /\ x.stage = stage[r]
  BY FoundTask
<1>4. status[r] = "in_approval" /\ stage[r] \in config.stages
  BY <1>1, <1>3, NoneOpenAfterClose DEF Route
<1>5. PICK p \in config.stages : p = stage[r]
  BY <1>4
<1>6. t.to # "in_approval"
  <2>1. t \in Rows /\ t.effect = "approve_advance"
    BY <1>1, FoundTransition DEF ApproveFinal
  <2> QED
    BY <2>1, RowFacts
<1>7. PICK created : created = {}
  OBVIOUS
<1>8. PICK d \in Nat : d = 0
  OBVIOUS
<1>9. /\ status'[r] # "in_approval"
      /\ tasks'[r] = CloseStage(r, x) \cup created /\ batch'[r] = batch[r] + d
  BY <1>1, <1>2, <1>6, <1>7, <1>8 DEF SetRequest, SetTasks, TypeOK
<1>10. /\ ApprovedAt(r, x.stage, d)'
       /\ \A y \in Nat, n \in Nat : ApprovedAt(r, y, n) => ApprovedAt(r, y, n + d)'
  BY <1>3, <1>9, ApprovedAfter
<1>11. ASSUME NEW y \in config.stages
       PROVE  \E n \in Nat : n = Cardinality(Later(y)) /\ ApprovedAt(r, y, n)'
  <2>1. y \in Nat /\ Cardinality(Between(y, p)) \in Nat
    BY <1>1, StageFacts
  <2>2. IF Precedes(y, p) THEN Cardinality(Later(y)) = Cardinality(Between(y, p))
                          ELSE y = p /\ Cardinality(Later(y)) = 0
    BY <1>1, <1>2, <1>3, <1>5, LastStage
  <2>3. CASE Precedes(y, p)
    <3>1. PICK n \in Nat : n = Cardinality(Between(y, p))
      BY <2>1
    <3>2. ApprovedAt(r, y, n)
      BY <1>4, <1>5, <2>3, <3>1 DEF Route
    <3>3. ApprovedAt(r, y, n + d)'
      BY <1>10, <2>1, <3>2
    <3>4. n + d \in Nat /\ n + d = Cardinality(Later(y))
      BY <1>8, <2>2, <2>3, <3>1
    <3> QED
      BY <3>3, <3>4
  <2>4. CASE ~Precedes(y, p)
    <3>1. y = x.stage /\ d = Cardinality(Later(y))
      BY <1>3, <1>5, <1>8, <2>2, <2>4
    <3>2. ApprovedAt(r, y, d)'
      BY <1>10, <3>1
    <3> QED
      BY <3>1, <3>2
  <2> QED
    BY <2>3, <2>4
<1> QED
  BY <1>1, <1>9, <1>11, RouteAfter

\* Every execution keeps the route of its request.
LEMMA ExecuteRoute ==
  ASSUME EngineInv, OnlyAdvanceApproves, NEW u \in Users, NEW role, NEW r \in Requests, NEW t,
         Route(r), Execute(u, role, r, t)
  PROVE  Route(r)'
<1>1. CASE Decide(u, role, r, t) \/ Leave(u, role, r, t)
  <2>1. /\ config' = config /\ config \in Configs /\ MayExecute(u, role, r, t)
        /\ t.effect = "status_only" /\ t.to # "in_approval" /\ status'[r] = t.to
    BY <1>1 DEF Decide, Leave, SetRequest, EngineInv, TypeOK
  <2>2. t.to # "approved"
    BY <2>1, FoundTransition DEF OnlyAdvanceApproves, Rows
  <2> QED
    BY <2>1, <2>2, RouteAfter
<1> QED
  BY <1>1, SubmitRoute, ApproveNextRoute, ApproveFinalRoute DEF Execute

\* Every step of the service keeps the routes.
LEMMA ServeRoute == OnlyAdvanceApproves /\ RouteInv /\ [Serve]_vars => RouteInv'
<1> SUFFICES ASSUME OnlyAdvanceApproves, RouteInv, [Serve]_vars, NEW q \in Requests
             PROVE  Route(q)'
  BY ServeInv DEF RouteInv
<1>1. EngineInv /\ TypeOK /\ config' = config /\ Route(q)
  BY ServeInv DEF RouteInv, EngineInv
<1>2. ASSUME NEW u \in Users, NEW r \in Requests, NEW write \in Writes, Create(u, r, write)
      PROVE  Route(q)'
  <2>1. /\ tasks' = tasks /\ batch' = batch
        /\ q # r => status'[q] = status[q] /\ stage'[q] = stage[q]
        /\ q = r => status'[q] = "draft"
    BY <1>1, <1>2 DEF Create, SetRequest, TypeOK
  <2> QED
    BY <1>1, <2>1, RouteSame, RouteAfter
<1>3. ASSUME NEW u \in Users, NEW r \in Requests, NEW t \in config.transitions,
             Execute(u, config.role[u], r, t)
      PROVE  Route(q)'
  <2>1. PICK role : role = config.role[u]
    OBVIOUS
  <2>2. Execute(u, role, r, t)
    BY <1>3, <2>1
  <2>3. CASE q = r
    BY <1>1, <2>2, <2>3, ExecuteRoute
  <2>4. CASE q # r
    <3>1. EngineStep(u, r, t) /\ t \in Rows
      BY <1>1, <2>2, ExecuteSteps
    <3>2. /\ status'[q] = status[q] /\ stage'[q] = stage[q]
          /\ tasks'[q] = tasks[q] /\ batch'[q] = batch[q]
      BY <1>1, <2>4, <3>1, StepEvent
    <3> QED
      BY <1>1, <3>2, RouteSame
  <2> QED
    BY <2>3, <2>4
<1>4. ASSUME \/ \E w \in Workers, u \in Users, r \in Requests, write \in Writes : PatchRead(w, u, r, write)
             \/ \E w \in Workers : PatchCommit(w) \/ PatchRollback(w)
             \/ UNCHANGED vars
      PROVE  UNCHANGED <<status, stage, tasks, batch>>
  BY <1>4 DEF PatchRead, PatchCommit, PatchRollback, vars, requestVars
<1>5. UNCHANGED <<status, stage, tasks, batch>> => Route(q)'
  BY <1>1, RouteSame
<1> QED
  BY <1>2, <1>3, <1>4, <1>5 DEF Serve

\* While the configuration stays and only approve_advance rows approve, an approved
\* request was approved at every stage of the route, in order, since its submission.
THEOREM RouteCompleted ==
  ASSUME OnlyAdvanceApproves
  PROVE  StableSpec => []ApprovedByEveryStage
<1>1. Init => RouteInv
  BY InitInv DEF Init, RouteInv, Route, NoRequest
<1>2. RouteInv /\ [Serve]_vars => RouteInv'
  BY ServeRoute
<1>3. RouteInv => ApprovedByEveryStage
  BY DEF RouteInv, Route, ApprovedAt, ApprovedByEveryStage
<1> QED
  BY <1>1, <1>2, <1>3, PTL DEF StableSpec
-----------------------------------------------------------------------------
(* Who executes.                                                           *)

\* One event is appended, or none.
LEMMA OneAppended ==
  ASSUME NEW h \in Seq(Events), NEW a \in Events, NEW b \in Events
  PROVE  Append(h, a) # h /\ (Append(h, a) = Append(h, b) => a = b)
<1>1. Len(h) \in Nat /\ Len(Append(h, a)) = Len(h) + 1
  OBVIOUS
<1>2. Append(h, a)[Len(h) + 1] = a /\ Append(h, b)[Len(h) + 1] = b
  OBVIOUS
<1> QED
  BY <1>1, <1>2

\* With the seed's roles, an action is executed by the initiator or on a task.
LEMMA ExecutorSees ==
  ASSUME TypeOK, ApproversDecide, NEW u \in Users, NEW r \in Requests, NEW t \in config.transitions,
         Execute(u, config.role[u], r, t)
  PROVE  CanView(u, r)
<1>1. PICK role : role = config.role[u]
  OBVIOUS
<1>2. Execute(u, role, r, t) /\ MayExecute(u, role, r, t)
  BY <1>1, ExecuteSteps
<1>3. t.role = role /\ role \in RoleCodes /\ (role = "employee" => initiator[r] = u)
  BY <1>1, <1>2, ConfigFacts DEF MayExecute, FindTransition, TypeOK
<1>4. /\ t.role # "admin"
      /\ t.role = "approver" => t.effect = "approve_advance" \/ t.to \in {"rejected", "returned"}
  BY DEF ApproversDecide, TypeOK
<1>5. CASE role = "employee"
  BY <1>1, <1>3, <1>5 DEF CanView
<1>6. CASE role = "approver"
  <2>1. ~Submit(u, role, r, t) /\ ~Leave(u, role, r, t)
    BY <1>3, <1>4, <1>6 DEF Submit, Leave
  <2>2. PICK x \in RequireOpenTask(u, r) : TRUE
    BY <1>2, <2>1 DEF Execute, ApproveNext, ApproveFinal, Decide
  <2>3. x \in tasks[r] /\ x.assignee = u
    BY FoundTask DEF OpenTasks
  <2> QED
    BY <1>1, <1>6, <2>3 DEF CanView
<1> QED
  BY <1>3, <1>4, <1>5, <1>6 DEF RoleCodes

\* Every step that appends an action's event is such an execution.
LEMMA NextVisible == ApproversDecide /\ TypeOK /\ [Next]_vars => \A r \in Requests : Visible(r)
<1> SUFFICES ASSUME ApproversDecide, TypeOK, [Next]_vars, NEW q \in Requests, status[q] # NoRequest,
                    NEW ev \in Events, history'[q] = Append(history[q], ev), ev.action \in ActionCodes
             PROVE  CanView(ev.actor, q)
  BY DEF Visible
<1>1. history[q] \in Seq(Events) /\ history'[q] # history[q]
  BY OneAppended DEF TypeOK
<1>2. ASSUME NEW u \in Users, NEW r \in Requests, NEW t \in config.transitions,
             Execute(u, config.role[u], r, t)
      PROVE  CanView(ev.actor, q)
  <2>1. EngineStep(u, r, t) /\ t \in Rows
    BY <1>2, ExecuteSteps
  <2>2. q = r
    BY <1>1, <2>1, StepEvent
  <2>3. PICK e \in Events : e.actor = u /\ history'[r] = Append(history[r], e)
    BY <2>1, StepEvent
  <2>4. ev = e
    BY <1>1, <2>2, <2>3, OneAppended
  <2> QED
    BY <1>2, <2>2, <2>3, <2>4, ExecutorSees
<1>3. ASSUME NEW u \in Users, NEW r \in Requests, NEW write \in Writes, Create(u, r, write)
      PROVE  FALSE
  <2>1. status[r] = NoRequest /\ (q # r => history'[q] = history[q])
    BY <1>3, CreateEvent
  <2> QED
    BY <1>1, <2>1
<1>4. ASSUME NEW w \in Workers, PatchCommit(w)
      PROVE  FALSE
  <2>1. PICK e \in Events :
          /\ e.action = "update_values"
          /\ history'[patch[w].req] = Append(history[patch[w].req], e)
    BY <1>4, PatchEvent
  <2>2. q = patch[w].req
    BY <1>1, <1>4, PatchEvent
  <2>3. ev = e
    BY <1>1, <2>1, <2>2, OneAppended
  <2> QED
    BY <2>1, <2>3, ActionsAssumption
<1>5. ASSUME \/ \E w \in Workers, u \in Users, r \in Requests, write \in Writes : PatchRead(w, u, r, write)
             \/ \E w \in Workers : PatchRollback(w)
             \/ \E c \in Configs : Reconfigure(c)
             \/ UNCHANGED vars
      PROVE  FALSE
  BY <1>1, <1>5 DEF PatchRead, PatchRollback, Reconfigure, vars, requestVars
<1> QED
  BY <1>2, <1>3, <1>4, <1>5 DEF Next, Serve

\* With the seed's roles, whoever executes an action could see the request that it
\* changes, as can_view_request decides it: its initiator, or an approver with a task.
THEOREM ExecutorsCouldSee ==
  ASSUME ApproversDecide
  PROVE  Spec => ExecutedWasVisible
<1>1. TypeOK /\ [Next]_vars => [\A r \in Requests : Visible(r)]_vars
  BY NextVisible
<1> QED
  BY <1>1, TypeCorrect, PTL DEF Spec, ExecutedWasVisible
-----------------------------------------------------------------------------
(* The committed steps of the engine implement RequestLifecycle, for every  *)
(* value of the constants: each is a step of the promise or none.           *)

\* What the refinement relies on.
LifecycleInv == EngineInv /\ PatchesSeen

OpenOf(ts) == {x \in ts : x.status = "open"}
Assignees(ts) == {t.assignee : t \in ts}
-----------------------------------------------------------------------------
(* The mapped state after a step.                                          *)

\* The users asked are those of the tasks written.
LEMMA PendingAfter ==
  ASSUME TypeOK, NEW r \in Requests, NEW ts, tasks' = [tasks EXCEPT ![r] = ts]
  PROVE  Pending' = [Pending EXCEPT ![r] = Assignees(OpenOf(ts))]
BY DEF TypeOK, Pending, Assignees, OpenOf

\* A decision's event adds its actor to those who decided; other events add nobody.
LEMMA DecidedAfter ==
  ASSUME TypeOK, NEW r \in Requests, NEW ev \in Events,
         history' = [history EXCEPT ![r] = Append(@, ev)]
  PROVE  Decided' = [Decided EXCEPT ![r] =
                       IF ev.from = "in_approval" THEN @ \cup {ev.actor} ELSE @]
<1>1. /\ history \in [Requests -> Seq(Events)]
      /\ \A q \in Requests : history'[q] = IF q = r THEN Append(history[r], ev) ELSE history[q]
  BY DEF TypeOK
<1>2. /\ Len(history[r]) \in Nat
      /\ DOMAIN history[r] = 1..Len(history[r])
      /\ DOMAIN history'[r] = 1..(Len(history[r]) + 1)
      /\ \A i \in 1..Len(history[r]) : history'[r][i] = history[r][i]
      /\ history'[r][Len(history[r]) + 1] = ev
  BY <1>1
<1>3. \A i \in 1..(Len(history[r]) + 1) : i \in 1..Len(history[r]) \/ i = Len(history[r]) + 1
  BY <1>2
<1> DEFINE Actors(h) == {h[i].actor : i \in {j \in DOMAIN h : h[j].from = "in_approval"}}
<1>4. Actors(history'[r]) = Actors(history[r]) \cup (IF ev.from = "in_approval" THEN {ev.actor} ELSE {})
  BY <1>2, <1>3
<1>5. /\ Decided = [q \in Requests |-> Actors(history[q])]
      /\ Decided' = [q \in Requests |-> Actors(history'[q])]
  BY DEF Decided, DecisionEvents
<1> HIDE DEF Actors
<1>6. \A q \in Requests : q # r => Actors(history'[q]) = Actors(history[q])
  BY <1>1
<1>7. CASE ev.from = "in_approval"
  BY <1>4, <1>5, <1>6, <1>7
<1>8. CASE ev.from # "in_approval"
  BY <1>4, <1>5, <1>6, <1>8
<1> QED
  BY <1>7, <1>8

\* The event of a step adds its actor to those who decided, if it left an approval.
LEMMA DecidedByUpdate ==
  ASSUME TypeOK, NEW u \in Users, NEW r \in Requests, NEW t \in Rows, NEW to \in Statuses,
         NEW s, NEW closed, NEW new, NEW created, status[r] # NoRequest,
         Update(u, r, t.action, to, s, closed, new, created)
  PROVE  Decided' = [Decided EXCEPT ![r] =
                       IF status[r] = "in_approval" THEN @ \cup {u} ELSE @]
<1>1. t.action \in ActionCodes
  BY RowFacts
<1>2. PICK ev \in Events :
        ev.actor = u /\ ev.from = status[r] /\ history' = [history EXCEPT ![r] = Append(@, ev)]
  BY <1>1, UpdatedRows
<1> QED
  BY <1>2, DecidedAfter

\* An event that leaves no approval leaves those who decided as they were.
LEMMA DecidedUnchanged ==
  ASSUME NEW r, Decided' = [Decided EXCEPT ![r] = @]
  PROVE  Decided' = Decided
BY DEF Decided

\* After a decision only the tasks that it created are open.
LEMMA PendingAfterDecision ==
  ASSUME EngineInv, NEW u, NEW r \in Requests, NotSelfApproval(u, r),
         NEW x \in OpenTasks(u, r), NEW created, \A y \in created : y.status = "open",
         SetTasks(r, CloseStage(r, x), created)
  PROVE  /\ status[r] = "in_approval"
         /\ u \in Pending[r]
         /\ Pending' = [Pending EXCEPT ![r] = Assignees(created)]
<1>1. TypeOK /\ RequestInv(r)
  BY EngineInvByRequest
<1>2. status[r] = "in_approval" /\ \A y \in CloseStage(r, x) : y.status # "open"
  BY <1>1, NoneOpenAfterClose
<1>3. u \in Pending[r]
  BY DEF OpenTasks, Pending
<1>4. tasks' = [tasks EXCEPT ![r] = CloseStage(r, x) \cup created]
  BY DEF SetTasks
<1>5. OpenOf(CloseStage(r, x) \cup created) = created
  BY <1>2 DEF OpenOf
<1> QED
  BY <1>1, <1>2, <1>3, <1>4, <1>5, PendingAfter

\* New tasks ask a round of users.
LEMMA NewRound ==
  ASSUME NEW r \in Requests, batch[r] \in Nat, NEW s \in Stages, NEW who \in Rounds
  PROVE  Assignees(NewTasks(r, s, who)) \in Lifecycle!Rounds
BY CreatedTasks DEF Assignees, Lifecycle!Rounds
-----------------------------------------------------------------------------
(* The steps.                                                              *)

\* A submission puts the request before a round of users.
LEMMA AskAsks ==
  ASSUME EngineInv, NEW u \in Users, NEW r \in Requests, NEW t \in Rows, EngineStep(u, r, t),
         AskStep(u, r, t)
  PROVE  Lifecycle!Next
<1>1. TypeOK /\ RequestInv(r) /\ batch[r] \in Nat
  BY EngineInvByRequest DEF TypeOK
<1>2. status[r] # NoRequest /\ t.from = status[r] /\ initiator' = initiator
  BY DEF EngineStep
<1>3. PICK s \in Stages, who \in Rounds :
        Update(u, r, t.action, "in_approval", s, NoTask, tasks[r], NewTasks(r, s, who))
  BY DEF AskStep
<1> DEFINE created == NewTasks(r, s, who)
<1>4. /\ \A y \in created : y.status = "open"
      /\ Assignees(created) \in Lifecycle!Rounds
  BY <1>1, CreatedTasks, NewRound
<1>5. status[r] # "in_approval" /\ \A y \in tasks[r] : y.status # "open"
  BY <1>1, <1>2, NoneOpenElsewhere DEF AskStep
<1> HIDE DEF created
<1>6. Pending' = [Pending EXCEPT ![r] = Assignees(created)]
  <2>1. tasks' = [tasks EXCEPT ![r] = tasks[r] \cup created]
    BY <1>3 DEF Update, SetTasks, created
  <2>2. OpenOf(tasks[r] \cup created) = created
    BY <1>4, <1>5 DEF OpenOf
  <2> QED
    BY <1>1, <2>1, <2>2, PendingAfter
<1>7. Decided' = Decided
  <2>1. "in_approval" \in Statuses
    BY DEF Statuses
  <2>2. Decided' = [Decided EXCEPT ![r] = IF status[r] = "in_approval" THEN @ \cup {u} ELSE @]
    BY <1>1, <1>2, <1>3, <2>1, DecidedByUpdate
  <2> QED
    BY <1>5, <2>2, DecidedUnchanged
<1>8. Lifecycle!Ask(r, Assignees(created))
  BY <1>2, <1>3, <1>5, <1>6, <1>7 DEF Lifecycle!Ask, Lifecycle!Settled, Update, SetRequest
<1> QED
  BY <1>4, <1>8 DEF Lifecycle!Next

\* An approval with a stage to follow passes the request on.
LEMMA PassPassesOn ==
  ASSUME EngineInv, NEW u \in Users, NEW r \in Requests, NEW t \in Rows, EngineStep(u, r, t),
         PassStep(u, r, t)
  PROVE  Lifecycle!Next
<1>1. TypeOK /\ batch[r] \in Nat
  BY DEF EngineInv, TypeOK
<1>2. status[r] # NoRequest /\ NotSelfApproval(u, r) /\ initiator' = initiator
  BY DEF EngineStep, PassStep
<1>3. PICK x \in OpenTasks(u, r), s \in Stages, who \in Rounds :
        Update(u, r, t.action, "in_approval", s, Key(x), CloseStage(r, x), NewTasks(r, s, who))
  BY DEF PassStep
<1> DEFINE created == NewTasks(r, s, who)
<1>4. /\ \A y \in created : y.status = "open"
      /\ Assignees(created) \in Lifecycle!Rounds
  BY <1>1, CreatedTasks, NewRound
<1>5. SetTasks(r, CloseStage(r, x), created) /\ SetRequest(r, "in_approval", s)
  BY <1>3 DEF Update
<1> HIDE DEF created
<1>6. /\ status[r] = "in_approval" /\ u \in Pending[r]
      /\ Pending' = [Pending EXCEPT ![r] = Assignees(created)]
  BY <1>2, <1>4, <1>5, PendingAfterDecision
<1>7. Decided' = [Decided EXCEPT ![r] = @ \cup {u}]
  <2>1. "in_approval" \in Statuses
    BY DEF Statuses
  <2>2. Decided' = [Decided EXCEPT ![r] = IF status[r] = "in_approval" THEN @ \cup {u} ELSE @]
    BY <1>1, <1>2, <1>3, <2>1, DecidedByUpdate
  <2> QED
    BY <1>6, <2>2
<1>8. status' = status
  BY <1>1, <1>5, <1>6 DEF SetRequest, TypeOK
<1>9. Lifecycle!PassOn(u, r, Assignees(created))
  BY <1>2, <1>6, <1>7, <1>8
     DEF Lifecycle!PassOn, Lifecycle!Decide, Lifecycle!InApproval, NotSelfApproval
<1> QED
  BY <1>4, <1>9 DEF Lifecycle!Next

\* A final approval, a rejection and a return end the approval.
LEMMA DecisionConcludes ==
  ASSUME EngineInv, NEW u \in Users, NEW r \in Requests, NEW t \in Rows, EngineStep(u, r, t),
         FinalStep(u, r, t) \/ RefuseStep(u, r, t)
  PROVE  Lifecycle!Next
<1>1. TypeOK
  BY DEF EngineInv
<1>2. /\ status[r] # NoRequest /\ NotSelfApproval(u, r) /\ initiator' = initiator
      /\ t.to \in Statuses \ {"in_approval"}
  BY RowFacts DEF EngineStep, FinalStep, RefuseStep
<1>a. PICK x \in OpenTasks(u, r) :
        \E s : Update(u, r, t.action, t.to, s, Key(x), CloseStage(r, x), {})
  BY DEF FinalStep, RefuseStep
<1>3. PICK s : Update(u, r, t.action, t.to, s, Key(x), CloseStage(r, x), {})
  BY <1>a
<1>4. SetTasks(r, CloseStage(r, x), {}) /\ SetRequest(r, t.to, s)
  BY <1>3 DEF Update
<1>5. /\ status[r] = "in_approval" /\ u \in Pending[r]
      /\ Pending' = [Pending EXCEPT ![r] = Assignees({})]
  BY <1>2, <1>4, PendingAfterDecision
<1>6. Assignees({}) = {}
  BY DEF Assignees
<1>7. Decided' = [Decided EXCEPT ![r] = @ \cup {u}]
  <2>1. Decided' = [Decided EXCEPT ![r] = IF status[r] = "in_approval" THEN @ \cup {u} ELSE @]
    BY <1>1, <1>2, <1>3, DecidedByUpdate
  <2> QED
    BY <1>5, <2>1
<1>8. Lifecycle!Conclude(u, r, t.to)
  BY <1>2, <1>4, <1>5, <1>6, <1>7
     DEF Lifecycle!Conclude, Lifecycle!Decide, Lifecycle!InApproval, NotSelfApproval, SetRequest
<1> QED
  BY <1>2, <1>8 DEF Lifecycle!Next

\* A cancellation and the generic fallback move a request that is not in approval.
LEMMA MoveMoves ==
  ASSUME EngineInv, NEW u \in Users, NEW r \in Requests, NEW t \in Rows, EngineStep(u, r, t),
         MoveStep(u, r, t)
  PROVE  Lifecycle!Next
<1>1. TypeOK /\ RequestInv(r)
  BY EngineInvByRequest
<1>2. /\ status[r] # NoRequest /\ t.from = status[r] /\ initiator' = initiator
      /\ t.to \in Statuses \ {"in_approval"}
      /\ Update(u, r, t.action, t.to, NoStage, NoTask, tasks[r], {})
  BY DEF EngineStep, MoveStep, Statuses
<1>3. status[r] # "in_approval"
  BY <1>1, <1>2, NoneOpenElsewhere DEF MoveStep
<1>4. Decided' = Decided
  <2>1. Decided' = [Decided EXCEPT ![r] = IF status[r] = "in_approval" THEN @ \cup {u} ELSE @]
    BY <1>1, <1>2, DecidedByUpdate
  <2> QED
    BY <1>3, <2>1, DecidedUnchanged
<1>5. Pending' = Pending
  <2>1. tasks' = tasks
    BY <1>1, <1>2 DEF Update, SetTasks, TypeOK
  <2> QED
    BY <2>1 DEF Pending
<1>6. Lifecycle!Move(r, t.to)
  BY <1>2, <1>3, <1>4, <1>5 DEF Lifecycle!Move, Lifecycle!Settled, Update, SetRequest
<1> QED
  BY <1>2, <1>6 DEF Lifecycle!Next

\* create_draft files the request.
LEMMA CreateFiles ==
  ASSUME EngineInv, NEW u \in Users, NEW r \in Requests, NEW write \in Writes,
         Create(u, r, write)
  PROVE  Lifecycle!Next
<1> DEFINE ev == Event(u, "create", NoRequest, "draft")
<1>1. TypeOK
  BY DEF EngineInv
<1>2. ev \in Events /\ ev.from # "in_approval"
  BY DEF Event, Events, Statuses, NoRequest
<1>3. /\ status[r] = NoRequest /\ SetRequest(r, "draft", NoStage)
      /\ initiator' = [initiator EXCEPT ![r] = u] /\ tasks' = tasks
      /\ history' = [history EXCEPT ![r] = Append(@, ev)]
  BY DEF Create
<1> HIDE DEF ev
<1>4. Decided' = Decided
  <2>1. Decided' = [Decided EXCEPT ![r] = IF ev.from = "in_approval" THEN @ \cup {ev.actor} ELSE @]
    BY <1>1, <1>2, <1>3, DecidedAfter
  <2> QED
    BY <1>2, <2>1 DEF Decided
<1>5. Pending' = Pending
  BY <1>3 DEF Pending
<1>6. Lifecycle!File(u, r)
  BY <1>3, <1>4, <1>5 DEF Lifecycle!File, SetRequest
<1> QED
  BY <1>6 DEF Lifecycle!Next

\* The commit of a PATCH is no step of the promise.
LEMMA PatchCommitStutters ==
  ASSUME LifecycleInv, NEW w \in Workers, PatchCommit(w)
  PROVE  UNCHANGED <<status, initiator, Pending, Decided>>
<1> DEFINE p == patch[w]
           ev == Event(p.user, "update_values", p.seen, p.seen)
<1>1. TypeOK /\ p # NoPatch /\ p.seen \in Editable
  BY DEF LifecycleInv, EngineInv, PatchesSeen, PatchCommit
<1>2. p \in Patches
  BY <1>1 DEF TypeOK
<1>3. ev \in Events /\ ev.from # "in_approval" /\ p.req \in Requests
  BY <1>1, <1>2 DEF Event, Events, Editable, Patches
<1>4. history' = [history EXCEPT ![p.req] = Append(@, ev)] /\ UNCHANGED <<status, initiator, tasks>>
  BY DEF PatchCommit
<1> HIDE DEF p, ev
<1>5. Decided' = Decided
  <2>1. Decided' = [Decided EXCEPT ![p.req] =
                      IF ev.from = "in_approval" THEN @ \cup {ev.actor} ELSE @]
    BY <1>1, <1>3, <1>4, DecidedAfter
  <2> QED
    BY <1>3, <2>1 DEF Decided
<1> QED
  BY <1>4, <1>5 DEF Pending
-----------------------------------------------------------------------------
\* The steps that change neither a request's row nor its tasks nor its history.
LEMMA OtherStepsStutter ==
  ASSUME UNCHANGED requestVars
  PROVE  UNCHANGED <<status, initiator, Pending, Decided>>
BY DEF requestVars, Pending, Decided, DecisionEvents

\* Every step of the service or of its administrators is a step of the promise or none.
LEMMA NextImplements ==
  ASSUME LifecycleInv, [StepNext]_vars
  PROVE  [Lifecycle!Next]_Lifecycle!vars
<1> USE DEF Lifecycle!vars
<1>1. ASSUME NEW u \in Users, NEW r \in Requests, NEW t \in Rows, EngineStep(u, r, t)
      PROVE  Lifecycle!Next
  BY <1>1, AskAsks, PassPassesOn, DecisionConcludes, MoveMoves DEF EngineStep, LifecycleInv
<1>2. ASSUME NEW u \in Users, NEW r \in Requests, NEW write \in Writes, Create(u, r, write)
      PROVE  Lifecycle!Next
  BY <1>2, CreateFiles DEF LifecycleInv
<1>3. ASSUME NEW w \in Workers, PatchCommit(w)
      PROVE  UNCHANGED Lifecycle!vars
  BY <1>3, PatchCommitStutters
<1>4. ASSUME \/ \E w \in Workers, u \in Users, r \in Requests, write \in Writes : PatchRead(w, u, r, write)
             \/ \E w \in Workers : PatchRollback(w)
             \/ \E c \in Configs : Reconfigure(c)
             \/ UNCHANGED vars
      PROVE  UNCHANGED Lifecycle!vars
  BY <1>4, OtherStepsStutter DEF PatchRead, PatchRollback, Reconfigure, vars
<1> QED
  BY <1>1, <1>2, <1>3, <1>4 DEF StepNext

\* The committed steps keep the promise, from whatever configuration they were planned.
THEOREM StepsImplementLifecycle == StepSpec => KeepsLifecycle
<1>1. Init => Lifecycle!Init
  BY DEF Init, Lifecycle!Init, Pending, Decided, DecisionEvents
<1>2. Init => PatchesSeen
  BY DEF Init, PatchesSeen
<1>3. EngineInv /\ PatchesSeen /\ [StepNext]_vars => PatchesSeen'
  BY NextPatchesSeen DEF EngineInv
<1>4. EngineInv /\ PatchesSeen /\ [StepNext]_vars => [Lifecycle!Next]_Lifecycle!vars
  BY NextImplements DEF LifecycleInv
<1> QED
  BY <1>1, <1>2, <1>3, <1>4, StepInvariant, PTL DEF StepSpec, KeepsLifecycle, Lifecycle!Spec

\* The engine keeps the promise of RequestLifecycle: whatever the live configuration
\* does, an approval is passed on or ended by one of the users it waits for, other
\* than the initiator and named by history, and then waits for none of the others.
THEOREM EngineImplementsLifecycle == Spec => KeepsLifecycle
BY EngineTakesSteps, StepsImplementLifecycle, PTL
=============================================================================
