-------------------------- MODULE EngineStepProofs --------------------------
(* What a committed execution does to the rows of its request, whatever it  *)
(* read its stage and its assignees from: a live configuration, as          *)
(* ApprovalEngine's Execute, or one that has changed since, as the          *)
(* transactions of EngineCalls.  StepSpec is the engine made of these       *)
(* steps; what is proved of it here holds of both.                          *)
EXTENDS ApprovalEngine, SequenceTheorems, TLAPS

\* Every row that a live configuration may have.
Rows == UNION {c.transitions : c \in Configs}

Rounds == (SUBSET Users) \ {{}}
NewTasks(r, s, who) == [batch: {batch[r] + 1}, stage: {s}, assignee: who, status: {"open"}]
OpenTasks(u, r) == {x \in tasks[r] : x.assignee = u /\ x.status = "open"}

\* The request row, its tasks, the event and the notifications.
Update(u, r, a, to, s, closed, new, created) ==
  /\ SetRequest(r, to, s)
  /\ SetTasks(r, new, created)
  /\ Record(u, r, a, to, closed, created)

\* A submission puts the request before some users.
AskStep(u, r, t) ==
  /\ t.effect = "status_only" /\ t.to = "in_approval"
  /\ \E s \in Stages, who \in Rounds :
       Update(u, r, t.action, "in_approval", s, NoTask, tasks[r], NewTasks(r, s, who))
  /\ UNCHANGED comments

\* An approval passes it on to others.
PassStep(u, r, t) ==
  /\ t.effect = "approve_advance" /\ NotSelfApproval(u, r)
  /\ \E x \in OpenTasks(u, r), s \in Stages, who \in Rounds :
       Update(u, r, t.action, "in_approval", s, Key(x), CloseStage(r, x), NewTasks(r, s, who))
  /\ UNCHANGED comments

\* An approval ends the route.
FinalStep(u, r, t) ==
  /\ t.effect = "approve_advance" /\ NotSelfApproval(u, r)
  /\ \E x \in OpenTasks(u, r) :
       Update(u, r, t.action, t.to, NoStage, Key(x), CloseStage(r, x), {})
  /\ UNCHANGED comments

\* A rejection or a return, with its comment.
RefuseStep(u, r, t) ==
  /\ t.effect = "status_only" /\ t.to \in {"rejected", "returned"} /\ NotSelfApproval(u, r)
  /\ \E x \in OpenTasks(u, r) :
       /\ Update(u, r, t.action, t.to, stage[r], Key(x), CloseStage(r, x), {})
       /\ comments' = [comments EXCEPT ![r] = @ \cup
            {[ev |-> Len(history[r]) + 1, author |-> u, task |-> Key(x)]}]

\* A cancellation, and the generic fallback.
MoveStep(u, r, t) ==
  /\ t.effect = "status_only" /\ t.to \in {"cancelled", "draft", "approved"}
  /\ Update(u, r, t.action, t.to, NoStage, NoTask, tasks[r], {})
  /\ UNCHANGED comments

EngineStep(u, r, t) ==
  /\ status[r] # NoRequest /\ t.from = status[r]
  /\ \/ AskStep(u, r, t) \/ PassStep(u, r, t) \/ FinalStep(u, r, t)
     \/ RefuseStep(u, r, t) \/ MoveStep(u, r, t)
  /\ UNCHANGED <<config, initiator, values, patch>>

StepNext ==
  \/ \E u \in Users, r \in Requests :
       \/ \E write \in Writes : Create(u, r, write)
       \/ \E w \in Workers, write \in Writes : PatchRead(w, u, r, write)
       \/ \E t \in Rows : EngineStep(u, r, t)
  \/ \E w \in Workers : PatchCommit(w) \/ PatchRollback(w)
  \/ \E c \in Configs : Reconfigure(c)

StepSpec == Init /\ [][StepNext]_vars
-----------------------------------------------------------------------------
(* What the operators return.                                              *)

\* The live configuration is well formed whichever it is.
LEMMA ConfigFacts ==
  ASSUME config \in Configs
  PROVE  /\ config.stages \subseteq Stages
         /\ \A s \in config.stages : config.number[s] \in Nat
         /\ config.role \in [Users -> RoleCodes]
         /\ \A f \in Fields : config.accepts[f] \subseteq Vals
         /\ config.transitions \subseteq Rows
BY ConfigsAssumption DEF IsConfig, Rows

\* Every row is one of a well-formed matrix.
LEMMA RowFacts ==
  ASSUME NEW t \in Rows
  PROVE  /\ t.to \in Statuses /\ t.from \in Statuses /\ t.action \in ActionCodes
         /\ t.from = "in_approval" =>
              t.effect = "approve_advance" \/ t.to \in {"rejected", "returned"}
         /\ t.effect = "approve_advance" => t.to \notin {"in_approval", "rejected", "returned"}
<1>1. PICK c \in Configs : t \in c.transitions
  BY DEF Rows
<1>2. t \in Transitions /\ WellFormedMatrix(c.transitions)
  BY <1>1, ConfigsAssumption DEF IsConfig
<1> QED
  BY <1>1, <1>2 DEF WellFormedMatrix, Transitions

\* New tasks are open tasks of the next batch at their stage.
LEMMA CreatedTasks ==
  ASSUME NEW r \in Requests, NEW s \in Stages, NEW who \in Rounds, batch[r] \in Nat
  PROVE  /\ NewTasks(r, s, who) \in SUBSET Tasks
         /\ NewTasks(r, s, who) # {}
         /\ \A y \in NewTasks(r, s, who) :
              y.batch = batch[r] + 1 /\ y.stage = s /\ y.status = "open" /\ y.assignee \in Users
<1>1. \A y \in NewTasks(r, s, who) :
        y.batch = batch[r] + 1 /\ y.stage = s /\ y.status = "open" /\ y.assignee \in who
  BY DEF NewTasks
<1>2. PICK u \in who : TRUE
  BY DEF Rounds
<1>3. [batch |-> batch[r] + 1, stage |-> s, assignee |-> u, status |-> "open"] \in NewTasks(r, s, who)
  BY <1>2 DEF NewTasks
<1>4. NewTasks(r, s, who) \in SUBSET Tasks
  BY DEF NewTasks, Tasks, TaskStatuses, Rounds
<1> QED
  BY <1>1, <1>3, <1>4 DEF Rounds

\* Closing a task keeps every task but for its status.
LEMMA ClosedTask ==
  ASSUME NEW x \in Tasks, NEW t
  PROVE  /\ Closed(x, t) \in Tasks
         /\ Closed(x, t).batch = x.batch
         /\ Closed(x, t).stage = x.stage
         /\ Closed(x, t).assignee = x.assignee
         /\ Closed(x, t).status = IF x = t THEN "completed"
                                  ELSE IF x.stage = t.stage /\ x.status = "open"
                                       THEN "cancelled" ELSE x.status
         /\ (x # t /\ x.status # "open") => Closed(x, t) = x
BY DEF Closed, Tasks, TaskStatuses

\* Closing a stage yields tasks again.
LEMMA ClosedStage ==
  ASSUME NEW r, tasks[r] \subseteq Tasks, NEW t
  PROVE  CloseStage(r, t) \in SUBSET Tasks
BY ClosedTask DEF CloseStage

\* The key of a task is a pair of a batch and a user.
LEMMA KeyType ==
  ASSUME NEW x \in Tasks
  PROVE  Key(x) \in TaskKeys
BY DEF Key, Tasks, TaskKeys

\* Notifications go to users and refer to tasks.
LEMMA TargetTypes ==
  ASSUME NEW r, NEW a, initiator[r] \in Users,
         NEW closed \in TaskKeys, NEW created \in SUBSET Tasks
  PROVE  Targets(r, a, closed, created) \subseteq Users \X TaskKeys
<1>1. \A t \in created : <<t.assignee, Key(t)>> \in Users \X TaskKeys
  BY DEF Tasks, Key, TaskKeys
<1>2. NoTask \in TaskKeys
  BY DEF TaskKeys
<1> QED
  BY <1>1, <1>2 DEF Targets
-----------------------------------------------------------------------------
(* A step in general.                                                      *)

\* Closing a stage keeps every closed task and the key of every open one.
Survive(r, new) ==
  \A y \in tasks[r] : IF y.status = "open" THEN \E z \in new : Key(z) = Key(y) ELSE y \in new

\* The tasks that a step completes are the actor's.
CompletedBy(u, r, new) == \A y \in new \ tasks[r] : y.status = "completed" => y.assignee = u

\* Both hold of the tasks that a decision leaves.
LEMMA CloseStageKeeps ==
  ASSUME TypeOK, NEW u, NEW r \in Requests, NEW x \in OpenTasks(u, r)
  PROVE  Survive(r, CloseStage(r, x)) /\ CompletedBy(u, r, CloseStage(r, x))
<1>1. ASSUME NEW y \in tasks[r]
      PROVE  /\ Closed(y, x) \in CloseStage(r, x)
             /\ Key(Closed(y, x)) = Key(y)
             /\ y.status # "open" => Closed(y, x) = y
             /\ Closed(y, x).status = "completed" /\ Closed(y, x) # y => Closed(y, x).assignee = u
  <2>1. y \in Tasks /\ x.assignee = u /\ x.status = "open"
    BY DEF TypeOK, OpenTasks
  <2> QED
    BY <2>1, ClosedTask DEF CloseStage, Key
<1>2. Survive(r, CloseStage(r, x))
  BY <1>1 DEF Survive
<1>3. CompletedBy(u, r, CloseStage(r, x))
  BY <1>1 DEF CompletedBy, CloseStage
<1> QED
  BY <1>2, <1>3

\* Every step is an update that keeps the tasks there were.
LEMMA StepUpdate ==
  ASSUME TypeOK, NEW u \in Users, NEW r \in Requests, NEW t \in Rows, EngineStep(u, r, t)
  PROVE  \E to \in Statuses, s \in Stages \cup {NoStage}, closed \in TaskKeys,
            new \in SUBSET Tasks, created \in SUBSET Tasks :
           /\ Update(u, r, t.action, to, s, closed, new, created)
           /\ Survive(r, new)
           /\ CompletedBy(u, r, new \cup created)
<1>1. /\ tasks[r] \in SUBSET Tasks /\ batch[r] \in Nat /\ stage[r] \in Stages \cup {NoStage}
      /\ t.to \in Statuses /\ "in_approval" \in Statuses
  BY RowFacts DEF TypeOK, Statuses
<1>2. NoTask \in TaskKeys /\ {} \in SUBSET Tasks /\ Survive(r, tasks[r])
  BY DEF TaskKeys, Survive
<1>3. \A x \in OpenTasks(u, r) :
        /\ CloseStage(r, x) \in SUBSET Tasks /\ Key(x) \in TaskKeys
        /\ Survive(r, CloseStage(r, x)) /\ CompletedBy(u, r, CloseStage(r, x))
  BY <1>1, ClosedStage, KeyType, CloseStageKeeps DEF OpenTasks
<1>4. \A s \in Stages, who \in Rounds :
        /\ NewTasks(r, s, who) \in SUBSET Tasks
        /\ \A y \in NewTasks(r, s, who) : y.status # "completed"
  BY <1>1, CreatedTasks
<1>5. CASE AskStep(u, r, t)
  <2>1. PICK s \in Stages, who \in Rounds :
          Update(u, r, t.action, "in_approval", s, NoTask, tasks[r], NewTasks(r, s, who))
    BY <1>5 DEF AskStep
  <2>2. CompletedBy(u, r, tasks[r] \cup NewTasks(r, s, who))
    BY <1>4 DEF CompletedBy
  <2> QED
    BY <1>1, <1>2, <1>4, <2>1, <2>2
<1>6. CASE PassStep(u, r, t)
  <2>1. PICK x \in OpenTasks(u, r), s \in Stages, who \in Rounds :
          Update(u, r, t.action, "in_approval", s, Key(x), CloseStage(r, x), NewTasks(r, s, who))
    BY <1>6 DEF PassStep
  <2>2. CompletedBy(u, r, CloseStage(r, x) \cup NewTasks(r, s, who))
    BY <1>3, <1>4 DEF CompletedBy
  <2> QED
    BY <1>1, <1>3, <1>4, <2>1, <2>2
<1>7. CASE FinalStep(u, r, t) \/ RefuseStep(u, r, t)
  <2>1. PICK x \in OpenTasks(u, r), s \in Stages \cup {NoStage} :
          Update(u, r, t.action, t.to, s, Key(x), CloseStage(r, x), {})
    BY <1>1, <1>7 DEF FinalStep, RefuseStep
  <2>2. CompletedBy(u, r, CloseStage(r, x) \cup {})
    BY <1>3 DEF CompletedBy
  <2> QED
    BY <1>1, <1>2, <1>3, <2>1, <2>2
<1>8. CASE MoveStep(u, r, t)
  <2>1. Update(u, r, t.action, t.to, NoStage, NoTask, tasks[r], {})
    BY <1>8 DEF MoveStep
  <2>2. CompletedBy(u, r, tasks[r] \cup {})
    BY DEF CompletedBy
  <2> QED
    BY <1>1, <1>2, <2>1, <2>2
<1> QED
  BY <1>5, <1>6, <1>7, <1>8 DEF EngineStep

\* A step on one request touches no row of another.
LEMMA UpdateTouchesOne ==
  ASSUME TypeOK, NEW u, NEW r \in Requests, NEW a, NEW to, NEW s, NEW closed, NEW new, NEW created,
         Update(u, r, a, to, s, closed, new, created), NEW q \in Requests, q # r
  PROVE  /\ status'[q] = status[q] /\ stage'[q] = stage[q] /\ tasks'[q] = tasks[q]
         /\ batch'[q] = batch[q] /\ history'[q] = history[q] /\ notes'[q] = notes[q]
BY DEF Update, SetRequest, SetTasks, Record, RecordFrom, TypeOK

\* The rows of the request after a step.
LEMMA UpdatedRequest ==
  ASSUME TypeOK, NEW u, NEW r \in Requests, NEW a, NEW to, NEW s, NEW closed, NEW new, NEW created,
         Update(u, r, a, to, s, closed, new, created)
  PROVE  /\ status'[r] = to /\ stage'[r] = s
         /\ tasks'[r] = new \cup created
         /\ batch'[r] = IF created = {} THEN batch[r] ELSE batch[r] + 1
BY DEF Update, SetRequest, SetTasks, TypeOK

\* The event and the notifications of a step.
LEMMA UpdatedRows ==
  ASSUME TypeOK, NEW u \in Users, NEW r \in Requests, NEW a \in ActionCodes, NEW to \in Statuses,
         NEW s, NEW closed, NEW new, NEW created, status[r] # NoRequest,
         Update(u, r, a, to, s, closed, new, created)
  PROVE  LET ev == Event(u, a, status[r], to) IN
         /\ ev \in Events
         /\ ev.actor = u /\ ev.action = a /\ ev.from = status[r] /\ ev.to = to
         /\ history' = [history EXCEPT ![r] = Append(@, ev)]
         /\ history'[r] = Append(history[r], ev)
         /\ notes'[r] = notes[r] \cup
              {[ev |-> Len(history[r]) + 1, to |-> n[1], task |-> n[2]] :
                 n \in Targets(r, a, closed, created)}
<1>1. Event(u, a, status[r], to) \in Events
  BY DEF Event, Events, TypeOK
<1> QED
  BY <1>1 DEF Update, Record, RecordFrom, TypeOK, Event
-----------------------------------------------------------------------------
(* Type correctness.                                                       *)

\* Every execution keeps the types.
LEMMA StepTypes ==
  ASSUME TypeOK, NEW u \in Users, NEW r \in Requests, NEW t \in Rows, EngineStep(u, r, t)
  PROVE  TypeOK'
<1> DEFINE CommentRows == [ev: Nat, author: Users, task: TaskKeys]
           NoteRows == [ev: Nat, to: Users, task: TaskKeys]
<1>1. PICK to \in Statuses, s \in Stages \cup {NoStage}, closed \in TaskKeys,
           new \in SUBSET Tasks, created \in SUBSET Tasks :
        Update(u, r, t.action, to, s, closed, new, created)
  BY StepUpdate
<1>2. /\ UNCHANGED <<config, initiator, values, patch>>
      /\ status[r] # NoRequest /\ initiator[r] \in Users /\ t.action \in ActionCodes
  BY RowFacts DEF EngineStep, TypeOK
<1> DEFINE ev == Event(u, t.action, status[r], to)
<1>3. /\ history[r] \in Seq(Events) /\ Len(history[r]) + 1 \in Nat
      /\ ev \in Events
      /\ history' = [history EXCEPT ![r] = Append(@, ev)]
  BY <1>1, <1>2, UpdatedRows DEF TypeOK
<1>4. history' \in [Requests -> Seq(Events)]
  <2> HIDE DEF ev
  <2>1. Append(history[r], ev) \in Seq(Events)
    BY <1>3, AppendProperties
  <2> QED
    BY <1>3, <2>1 DEF TypeOK
<1>5. notes' \in [Requests -> SUBSET NoteRows]
  <2>1. Targets(r, t.action, closed, created) \subseteq Users \X TaskKeys
    BY <1>2, TargetTypes
  <2>2. {[ev |-> Len(history[r]) + 1, to |-> n[1], task |-> n[2]] :
           n \in Targets(r, t.action, closed, created)} \subseteq NoteRows
    BY <1>3, <2>1
  <2> QED
    BY <1>1, <2>2 DEF TypeOK, Update, Record, RecordFrom
<1>6. comments' \in [Requests -> SUBSET CommentRows]
  <2>1. comments \in [Requests -> SUBSET CommentRows]
    BY DEF TypeOK
  <2>2. CASE RefuseStep(u, r, t)
    <3>1. PICK x \in OpenTasks(u, r) :
            comments' = [comments EXCEPT ![r] = @ \cup
              {[ev |-> Len(history[r]) + 1, author |-> u, task |-> Key(x)]}]
      BY <2>2 DEF RefuseStep
    <3>2. [ev |-> Len(history[r]) + 1, author |-> u, task |-> Key(x)] \in CommentRows
      BY <1>3, KeyType DEF TypeOK, OpenTasks
    <3> HIDE DEF CommentRows
    <3> QED
      BY <2>1, <3>1, <3>2
  <2>3. CASE UNCHANGED comments
    BY <2>1, <2>3
  <2> QED
    BY <2>2, <2>3 DEF EngineStep, AskStep, PassStep, FinalStep, MoveStep
<1>7. /\ status' \in [Requests -> Statuses \cup {NoRequest}]
      /\ stage' \in [Requests -> Stages \cup {NoStage}]
      /\ tasks' \in [Requests -> SUBSET Tasks]
      /\ batch' \in [Requests -> Nat]
      /\ \A q \in Requests : status'[q] # NoRequest => initiator'[q] \in Users
  BY <1>1, <1>2 DEF TypeOK, Update, SetRequest, SetTasks
<1> QED
  BY <1>2, <1>4, <1>5, <1>6, <1>7 DEF TypeOK

\* create_draft keeps the types.
LEMMA CreateTypes ==
  ASSUME TypeOK, NEW u \in Users, NEW r \in Requests, NEW write \in Writes,
         Create(u, r, write)
  PROVE  TypeOK'
<1>1. UNCHANGED <<config, tasks, batch, comments, notes, patch>>
  BY DEF Create
<1>2. /\ SetRequest(r, "draft", NoStage)
      /\ initiator' = [initiator EXCEPT ![r] = u]
  BY DEF Create
<1>3. /\ status' \in [Requests -> Statuses \cup {NoRequest}]
      /\ stage' \in [Requests -> Stages \cup {NoStage}]
      /\ initiator' \in [Requests -> Users \cup {Null}]
      /\ \A q \in Requests : status'[q] # NoRequest => initiator'[q] \in Users
  BY <1>2 DEF TypeOK, SetRequest, Statuses
<1>4. [f \in Fields |-> IF f \in DOMAIN write THEN write[f] ELSE NoRow] \in [Fields -> Cells]
  BY DEF Writes, Cells
<1>5. values' \in [Requests -> [Fields -> Cells]]
  BY <1>4 DEF TypeOK, Create
<1>6. Append(history[r], Event(u, "create", NoRequest, "draft")) \in Seq(Events)
  <2>1. Event(u, "create", NoRequest, "draft") \in Events
    BY DEF Event, Events, Statuses
  <2>2. history[r] \in Seq(Events)
    BY DEF TypeOK
  <2> QED
    BY <2>1, <2>2, AppendProperties
<1>7. history' \in [Requests -> Seq(Events)]
  BY <1>6 DEF TypeOK, Create
<1> QED
  BY <1>1, <1>3, <1>5, <1>7 DEF TypeOK

\* The first half of update_working_values keeps the types.
LEMMA PatchReadTypes ==
  ASSUME TypeOK, NEW w \in Workers, NEW u \in Users, NEW r \in Requests, NEW write \in Writes,
         PatchRead(w, u, r, write)
  PROVE  TypeOK'
<1>1. UNCHANGED <<config, requestVars>>
  BY DEF PatchRead
<1>2. [user |-> u, req |-> r, seen |-> status[r], loaded |-> values[r], write |-> write] \in Patches
  BY DEF TypeOK, PatchRead, Patches, Editable, Statuses
<1>3. patch' \in [Workers -> Patches \cup {NoPatch}]
  BY <1>2 DEF TypeOK, PatchRead
<1> QED
  BY <1>1, <1>3 DEF TypeOK, requestVars

\* The flush and commit of update_working_values keep the types.
LEMMA PatchCommitTypes ==
  ASSUME TypeOK, NEW w \in Workers, PatchCommit(w)
  PROVE  TypeOK'
<1> DEFINE p == patch[w]
<1>1. p \in Patches
  BY DEF TypeOK, PatchCommit
<1>2. UNCHANGED <<config, status, stage, initiator, tasks, batch, comments, notes>>
  BY DEF PatchCommit
<1>3. UpsertedBy(p, values[p.req]) \in [Fields -> Cells]
  <2>1. values[p.req] \in [Fields -> Cells]
    BY <1>1 DEF TypeOK, Patches
  <2>2. \A f \in Dirty(p) : p.write[f] \in Cells
    BY <1>1 DEF Dirty, Patches, Writes, Cells
  <2> QED
    BY <2>1, <2>2 DEF UpsertedBy
<1>4. values' \in [Requests -> [Fields -> Cells]]
  BY <1>3 DEF TypeOK, PatchCommit
<1>5. history' \in [Requests -> Seq(Events)]
  <2>1. Event(p.user, "update_values", p.seen, p.seen) \in Events
    <3>1. p.user \in Users /\ p.seen \in Statuses
      BY <1>1 DEF Patches
    <3> QED
      BY <3>1 DEF Event, Events
  <2>2. history[p.req] \in Seq(Events)
    BY <1>1 DEF TypeOK, Patches
  <2>3. Append(history[p.req], Event(p.user, "update_values", p.seen, p.seen)) \in Seq(Events)
    BY <2>1, <2>2, AppendProperties
  <2> QED
    BY <2>3 DEF TypeOK, PatchCommit
<1>6. patch' \in [Workers -> Patches \cup {NoPatch}]
  BY DEF TypeOK, PatchCommit
<1> QED
  BY <1>2, <1>4, <1>5, <1>6 DEF TypeOK

\* The empty tables are type-correct.
LEMMA InitTypes == Init => TypeOK
BY DEF Init, TypeOK, Cells, Statuses, Tasks

\* Every step of the service or of its administrators keeps the types.
LEMMA NextTypes == TypeOK /\ [StepNext]_vars => TypeOK'
<1> SUFFICES ASSUME TypeOK, [StepNext]_vars
             PROVE  TypeOK'
  OBVIOUS
<1>1. ASSUME NEW u \in Users, NEW r \in Requests, NEW write \in Writes, Create(u, r, write)
      PROVE  TypeOK'
  BY <1>1, CreateTypes
<1>2. ASSUME NEW w \in Workers, NEW u \in Users, NEW r \in Requests, NEW write \in Writes,
             PatchRead(w, u, r, write)
      PROVE  TypeOK'
  BY <1>2, PatchReadTypes
<1>3. ASSUME NEW w \in Workers, PatchCommit(w)
      PROVE  TypeOK'
  BY <1>3, PatchCommitTypes
<1>4. ASSUME NEW w \in Workers, PatchRollback(w)
      PROVE  TypeOK'
  BY <1>4 DEF PatchRollback, TypeOK, requestVars
<1>5. ASSUME NEW u \in Users, NEW r \in Requests, NEW t \in Rows, EngineStep(u, r, t)
      PROVE  TypeOK'
  BY <1>5, StepTypes
<1>6. ASSUME NEW c \in Configs, Reconfigure(c)
      PROVE  TypeOK'
  BY <1>6 DEF Reconfigure, TypeOK, requestVars
<1>7. CASE UNCHANGED vars
  BY <1>7 DEF vars, requestVars, TypeOK
<1> QED
  BY <1>1, <1>2, <1>3, <1>4, <1>5, <1>6, <1>7 DEF StepNext
-----------------------------------------------------------------------------
(* The safety invariant.  It speaks of one request at a time, so it is      *)
(* proved for the request that a step changes; the others keep their rows.  *)

\* The parts of EngineInv that are not types, for one request.
RequestInv(r) ==
  /\ \A t \in tasks[r] :
       /\ t.batch <= batch[r]
       /\ t.status = "open" =>
            status[r] = "in_approval" /\ t.stage = stage[r] /\ t.batch = batch[r]
       /\ t.status = "completed" => t.assignee # initiator[r]
  /\ status[r] = "in_approval" => \E t \in tasks[r] : t.status = "open"
  /\ stage[r] # NoStage <=> status[r] \in {"in_approval", "returned", "rejected"}
  /\ status[r] = NoRequest => tasks[r] = {}

\* The invariant speaks of one request at a time.
LEMMA EngineInvByRequest == EngineInv <=> TypeOK /\ \A r \in Requests : RequestInv(r)
BY DEF EngineInv, RequestInv, OpenTasksAtCurrentStage, InApprovalHasOpenTask, StagePresence,
       NoSelfApproval, AbsentHasNoTasks

\* The same of the state after a step.
LEMMA EngineInvNext ==
  ASSUME TypeOK', \A r \in Requests : RequestInv(r)'
  PROVE  EngineInv'
BY DEF EngineInv, RequestInv, OpenTasksAtCurrentStage, InApprovalHasOpenTask, StagePresence,
       NoSelfApproval, AbsentHasNoTasks

\* A step that changes the rows of one request leaves the others' invariant.
LEMMA OtherRequests ==
  ASSUME TypeOK, NEW u, NEW r \in Requests, NEW a, NEW to, NEW s, NEW closed, NEW new, NEW created,
         Update(u, r, a, to, s, closed, new, created), initiator' = initiator,
         NEW q \in Requests, q # r, RequestInv(q)
  PROVE  RequestInv(q)'
BY UpdateTouchesOne DEF RequestInv

\* A decision is taken in approval; once the actor's task is closed none is open.
LEMMA NoneOpenAfterClose ==
  ASSUME TypeOK, NEW u, NEW r \in Requests, RequestInv(r), NEW x \in OpenTasks(u, r),
         NotSelfApproval(u, r)
  PROVE  /\ status[r] = "in_approval" /\ x.batch = batch[r] /\ x.stage = stage[r]
         /\ \A y \in CloseStage(r, x) :
              /\ y.status # "open"
              /\ y.batch <= batch[r]
              /\ y.status = "completed" => y.assignee # initiator[r]
<1>1. /\ x \in tasks[r] /\ x.assignee = u
      /\ status[r] = "in_approval" /\ x.batch = batch[r] /\ x.stage = stage[r]
  BY DEF OpenTasks, RequestInv
<1>2. ASSUME NEW t \in tasks[r]
      PROVE  /\ Closed(t, x).status # "open"
             /\ Closed(t, x).batch <= batch[r]
             /\ Closed(t, x).status = "completed" => Closed(t, x).assignee # initiator[r]
  <2>1. t \in Tasks
    BY DEF TypeOK
  <2>2. t.status = "open" => t.stage = x.stage
    BY <1>1 DEF RequestInv
  <2> QED
    BY <1>1, <2>1, <2>2, ClosedTask DEF RequestInv, NotSelfApproval
<1> QED
  BY <1>1, <1>2 DEF CloseStage

\* Only decisions leave in_approval; every other transition finds no open task.
LEMMA NoneOpenElsewhere ==
  ASSUME NEW r, RequestInv(r), NEW t \in Rows, t.from = status[r],
         t.effect = "status_only", t.to \notin {"rejected", "returned"}
  PROVE  /\ status[r] # "in_approval"
         /\ \A y \in tasks[r] : y.status # "open"
<1>1. status[r] # "in_approval"
  BY RowFacts
<1> QED
  BY <1>1 DEF RequestInv

\* Every execution keeps the invariant.
LEMMA StepInv ==
  ASSUME EngineInv, NEW u \in Users, NEW r \in Requests, NEW t \in Rows, EngineStep(u, r, t)
  PROVE  EngineInv'
<1>1. /\ TypeOK /\ \A q \in Requests : RequestInv(q)
      /\ status[r] # NoRequest /\ t.from = status[r] /\ initiator' = initiator
  BY EngineInvByRequest DEF EngineStep
<1>a. batch[r] \in Nat
  BY <1>1 DEF TypeOK
<1>2. /\ TypeOK' /\ tasks[r] \subseteq Tasks /\ batch[r] \in Nat
      /\ t.action \in ActionCodes /\ t.to \in Statuses /\ "in_approval" \in Statuses
  BY <1>1, StepTypes, RowFacts DEF TypeOK, Statuses
<1>3. SUFFICES RequestInv(r)'
  <2>1. PICK to, s, closed, new, created : Update(u, r, t.action, to, s, closed, new, created)
    BY <1>1, StepUpdate
  <2>2. \A q \in Requests \ {r} : RequestInv(q)'
    BY <1>1, <2>1, OtherRequests
  <2> QED
    BY <1>2, <1>3, <2>2, EngineInvNext
<1>4. CASE AskStep(u, r, t)
  <2>1. PICK s \in Stages, who \in Rounds :
          Update(u, r, t.action, "in_approval", s, NoTask, tasks[r], NewTasks(r, s, who))
    BY <1>4 DEF AskStep
  <2>2. \A y \in tasks[r] : y.status # "open"
    BY <1>1, <1>4, NoneOpenElsewhere DEF AskStep
  <2>3. /\ NewTasks(r, s, who) # {}
        /\ \A y \in NewTasks(r, s, who) :
             y.batch = batch[r] + 1 /\ y.stage = s /\ y.status = "open"
    BY <1>a, CreatedTasks
  <2>4. /\ status'[r] = "in_approval" /\ stage'[r] = s /\ batch'[r] = batch[r] + 1
        /\ tasks'[r] = tasks[r] \cup NewTasks(r, s, who)
    BY <1>1, <1>2, <2>1, <2>3, UpdatedRequest
  <2>5. \A y \in tasks[r] : y.batch <= batch'[r]
    BY <1>1, <1>2, <2>4 DEF RequestInv, Tasks
  <2> QED
    BY <1>1, <1>2, <2>2, <2>3, <2>4, <2>5 DEF RequestInv, Stages, NoStage, NoRequest
<1>5. CASE PassStep(u, r, t)
  <2>1. PICK x \in OpenTasks(u, r), s \in Stages, who \in Rounds :
          Update(u, r, t.action, "in_approval", s, Key(x), CloseStage(r, x), NewTasks(r, s, who))
    BY <1>5 DEF PassStep
  <2>2. \A y \in CloseStage(r, x) :
          /\ y.status # "open"
          /\ y.batch <= batch[r]
          /\ y.status = "completed" => y.assignee # initiator[r]
    BY <1>1, <1>5, NoneOpenAfterClose DEF PassStep
  <2>3. /\ NewTasks(r, s, who) # {}
        /\ \A y \in NewTasks(r, s, who) :
             y.batch = batch[r] + 1 /\ y.stage = s /\ y.status = "open"
    BY <1>a, CreatedTasks
  <2>4. /\ status'[r] = "in_approval" /\ stage'[r] = s /\ batch'[r] = batch[r] + 1
        /\ tasks'[r] = CloseStage(r, x) \cup NewTasks(r, s, who)
    BY <1>1, <1>2, <2>1, <2>3, UpdatedRequest
  <2>5. \A y \in CloseStage(r, x) : y.batch <= batch'[r]
    BY <1>2, <2>2, <2>4, ClosedStage DEF Tasks
  <2> QED
    BY <1>1, <1>2, <2>2, <2>3, <2>4, <2>5 DEF RequestInv, Stages, NoStage, NoRequest
<1>6. CASE FinalStep(u, r, t) \/ RefuseStep(u, r, t)
  <2>1. PICK x \in OpenTasks(u, r), s \in Stages \cup {NoStage} :
          /\ Update(u, r, t.action, t.to, s, Key(x), CloseStage(r, x), {})
          /\ s = IF t.effect = "approve_advance" THEN NoStage ELSE stage[r]
    BY <1>1, <1>6 DEF FinalStep, RefuseStep, TypeOK
  <2>2. /\ status[r] = "in_approval"
        /\ \A y \in CloseStage(r, x) :
             /\ y.status # "open"
             /\ y.batch <= batch[r]
             /\ y.status = "completed" => y.assignee # initiator[r]
    BY <1>1, <1>6, NoneOpenAfterClose DEF FinalStep, RefuseStep
  <2>3. /\ status'[r] = t.to /\ stage'[r] = s /\ batch'[r] = batch[r]
        /\ tasks'[r] = CloseStage(r, x)
    BY <1>1, <1>2, <2>1, UpdatedRequest, SMTT(30)
  <2>4. (s # NoStage <=> t.to \in {"rejected", "returned"}) /\ t.to \notin {NoRequest, "in_approval"}
    BY <1>1, <1>2, <1>6, <2>1, <2>2, RowFacts
       DEF FinalStep, RefuseStep, RequestInv, NoRequest, Statuses
  <2> QED
    BY <1>1, <2>2, <2>3, <2>4 DEF RequestInv
<1>7. CASE MoveStep(u, r, t)
  <2>1. /\ status'[r] = t.to /\ stage'[r] = NoStage /\ batch'[r] = batch[r] /\ tasks'[r] = tasks[r]
        /\ t.to \in {"cancelled", "draft", "approved"}
    BY <1>1, <1>2, <1>7, UpdatedRequest DEF MoveStep
  <2>2. \A y \in tasks[r] : y.status # "open"
    BY <1>1, <1>7, NoneOpenElsewhere DEF MoveStep
  <2> QED
    BY <1>1, <2>1, <2>2 DEF RequestInv, NoStage, NoRequest
<1> QED
  BY <1>4, <1>5, <1>6, <1>7 DEF EngineStep

\* create_draft keeps the invariant.
LEMMA CreateInv ==
  ASSUME EngineInv, NEW u \in Users, NEW r \in Requests, NEW write \in Writes,
         Create(u, r, write)
  PROVE  EngineInv'
<1>1. TypeOK /\ \A q \in Requests : RequestInv(q)
  BY EngineInvByRequest
<1>2. TypeOK'
  BY <1>1, CreateTypes
<1>3. /\ status[r] = NoRequest /\ SetRequest(r, "draft", NoStage)
      /\ initiator' = [initiator EXCEPT ![r] = u]
      /\ UNCHANGED <<tasks, batch>>
  BY DEF Create
<1>4. RequestInv(r)'
  BY <1>1, <1>3 DEF RequestInv, SetRequest, TypeOK, NoStage, NoRequest
<1>5. \A q \in Requests \ {r} : RequestInv(q)'
  BY <1>1, <1>3 DEF RequestInv, SetRequest, TypeOK
<1> QED
  BY <1>2, <1>4, <1>5, EngineInvNext

\* The empty tables satisfy the invariant.
LEMMA InitInv == Init => EngineInv
BY InitTypes DEF Init, EngineInv, OpenTasksAtCurrentStage, InApprovalHasOpenTask, StagePresence,
   NoSelfApproval, AbsentHasNoTasks, NoRequest, NoStage

\* Every step of the service or of its administrators keeps the invariant.
LEMMA NextInv == EngineInv /\ [StepNext]_vars => EngineInv'
<1> SUFFICES ASSUME EngineInv, [StepNext]_vars
             PROVE  EngineInv'
  OBVIOUS
<1>1. TypeOK' /\ TypeOK
  BY NextTypes DEF EngineInv
<1>2. \A q \in Requests : RequestInv(q)
  BY EngineInvByRequest
<1>3. ASSUME NEW u \in Users, NEW r \in Requests, NEW write \in Writes, Create(u, r, write)
      PROVE  EngineInv'
  BY <1>3, CreateInv
<1>4. ASSUME NEW u \in Users, NEW r \in Requests, NEW t \in Rows, EngineStep(u, r, t)
      PROVE  EngineInv'
  BY <1>4, StepInv
<1>5. ASSUME UNCHANGED <<status, stage, initiator, tasks, batch>>
      PROVE  EngineInv'
  BY <1>1, <1>2, <1>5, EngineInvNext DEF RequestInv
<1>6. ASSUME NEW w \in Workers, NEW u \in Users, NEW r \in Requests, NEW write \in Writes,
             PatchRead(w, u, r, write)
      PROVE  EngineInv'
  BY <1>5, <1>6 DEF PatchRead, requestVars
<1>7. ASSUME NEW w \in Workers, PatchCommit(w) \/ PatchRollback(w)
      PROVE  EngineInv'
  BY <1>5, <1>7 DEF PatchCommit, PatchRollback, requestVars
<1>8. ASSUME NEW c \in Configs, Reconfigure(c)
      PROVE  EngineInv'
  BY <1>5, <1>8 DEF Reconfigure, requestVars
<1>9. CASE UNCHANGED vars
  BY <1>5, <1>9 DEF vars, requestVars
<1> QED
  BY <1>3, <1>4, <1>6, <1>7, <1>8, <1>9 DEF StepNext

\* The rows of every request stay consistent with one another: open tasks, status,
\* stage and initiator, whatever the interleaving and the live configurations.
THEOREM StepInvariant == StepSpec => []EngineInv
<1>1. Init => EngineInv
  BY InitInv
<1>2. EngineInv /\ [StepNext]_vars => EngineInv'
  BY NextInv
<1> QED
  BY <1>1, <1>2, PTL DEF StepSpec
-----------------------------------------------------------------------------
(* Facts that every committed step has in common.                          *)

\* An execution appends its event, from the status before to the status after, and
\* leaves the rows of the other requests.
LEMMA StepEvent ==
  ASSUME TypeOK, NEW u \in Users, NEW r \in Requests, NEW t \in Rows, EngineStep(u, r, t)
  PROVE  /\ status'[r] \in Statuses
         /\ \E ev \in Events :
              /\ ev.actor = u /\ ev.action = t.action
              /\ ev.from = status[r] /\ ev.to = status'[r]
              /\ history'[r] = Append(history[r], ev)
         /\ \A q \in Requests \ {r} :
              /\ status'[q] = status[q] /\ stage'[q] = stage[q] /\ tasks'[q] = tasks[q]
              /\ batch'[q] = batch[q] /\ history'[q] = history[q] /\ notes'[q] = notes[q]
<1>1. PICK to \in Statuses, s \in Stages \cup {NoStage}, closed \in TaskKeys,
        new \in SUBSET Tasks, created \in SUBSET Tasks :
        Update(u, r, t.action, to, s, closed, new, created)
  BY StepUpdate
<1>2. status[r] # NoRequest /\ t.action \in ActionCodes
  BY RowFacts DEF EngineStep
<1>3. status'[r] = to
  BY <1>1, UpdatedRequest
<1>4. PICK ev \in Events :
        /\ ev.actor = u /\ ev.action = t.action /\ ev.from = status[r] /\ ev.to = to
        /\ history'[r] = Append(history[r], ev)
  BY <1>1, <1>2, UpdatedRows
<1>5. \A q \in Requests \ {r} :
        /\ status'[q] = status[q] /\ stage'[q] = stage[q] /\ tasks'[q] = tasks[q]
        /\ batch'[q] = batch[q] /\ history'[q] = history[q] /\ notes'[q] = notes[q]
  BY <1>1, UpdateTouchesOne
<1> QED
  BY <1>3, <1>4, <1>5

\* create_draft appends its event, and leaves the rows of the other requests.
LEMMA CreateEvent ==
  ASSUME TypeOK, NEW u \in Users, NEW r \in Requests, NEW write \in Writes, Create(u, r, write)
  PROVE  /\ status[r] = NoRequest /\ status'[r] = "draft"
         /\ \E ev \in Events :
              /\ ev.actor = u /\ ev.action = "create" /\ ev.from = NoRequest /\ ev.to = "draft"
              /\ history'[r] = Append(history[r], ev)
         /\ \A q \in Requests \ {r} :
              /\ status'[q] = status[q] /\ stage'[q] = stage[q] /\ history'[q] = history[q]
              /\ initiator'[q] = initiator[q]
<1> DEFINE ev == Event(u, "create", NoRequest, "draft")
<1>1. ev \in Events /\ ev.actor = u /\ ev.action = "create" /\ ev.from = NoRequest /\ ev.to = "draft"
  BY DEF Event, Events, Statuses
<1>2. /\ status[r] = NoRequest /\ SetRequest(r, "draft", NoStage)
      /\ initiator' = [initiator EXCEPT ![r] = u]
      /\ history' = [history EXCEPT ![r] = Append(@, ev)]
  BY DEF Create
<1> HIDE DEF ev
<1> QED
  BY <1>1, <1>2 DEF SetRequest, TypeOK

\* The commit of a PATCH appends an edit to its request.
LEMMA PatchEvent ==
  ASSUME TypeOK, NEW w \in Workers, PatchCommit(w)
  PROVE  /\ patch[w] \in Patches
         /\ \E ev \in Events :
              /\ ev.action = "update_values" /\ ev.from = patch[w].seen
              /\ history'[patch[w].req] = Append(history[patch[w].req], ev)
              /\ history' = [history EXCEPT ![patch[w].req] = Append(@, ev)]
         /\ \A q \in Requests \ {patch[w].req} : history'[q] = history[q]
<1> DEFINE p == patch[w]
           ev == Event(p.user, "update_values", p.seen, p.seen)
<1>1. p \in Patches
  BY DEF TypeOK, PatchCommit
<1>2. ev \in Events /\ ev.action = "update_values" /\ ev.from = p.seen /\ p.req \in Requests
  BY <1>1 DEF Event, Events, Patches
<1>3. history' = [history EXCEPT ![p.req] = Append(@, ev)]
  BY DEF PatchCommit
<1> HIDE DEF p, ev
<1>4. /\ history'[p.req] = Append(history[p.req], ev)
      /\ \A q \in Requests \ {p.req} : history'[q] = history[q]
  BY <1>2, <1>3 DEF TypeOK
<1> QED
  BY <1>1, <1>2, <1>3, <1>4 DEF p

\* A PATCH in progress has seen its request in draft or returned, so the event it
\* will append is never taken for a decision.
PatchesSeen ==
  \A w \in Workers :
    patch[w] # NoPatch => patch[w].seen \in Editable /\ status[patch[w].req] # NoRequest

\* A PATCH reads its status in draft or returned and keeps what it read.
LEMMA NextPatchesSeen == TypeOK /\ PatchesSeen /\ [StepNext]_vars => PatchesSeen'
<1> SUFFICES ASSUME TypeOK, PatchesSeen, [StepNext]_vars
             PROVE  PatchesSeen'
  OBVIOUS
<1>1. ASSUME NEW w \in Workers, NEW u \in Users, NEW r \in Requests, NEW write \in Writes,
             PatchRead(w, u, r, write)
      PROVE  PatchesSeen'
  BY <1>1 DEF PatchRead, PatchesSeen, TypeOK, requestVars, Editable, NoRequest
<1>2. ASSUME NEW w \in Workers, PatchCommit(w) \/ PatchRollback(w)
      PROVE  PatchesSeen'
  BY <1>2 DEF PatchCommit, PatchRollback, PatchesSeen, TypeOK, requestVars
<1>3. ASSUME patch' = patch, \A q \in Requests : status[q] # NoRequest => status'[q] # NoRequest
      PROVE  PatchesSeen'
  BY <1>3 DEF PatchesSeen, TypeOK, Patches
<1>4. ASSUME NEW u \in Users, NEW r \in Requests, NEW t \in Rows, EngineStep(u, r, t)
      PROVE  PatchesSeen'
  <2>1. \A q \in Requests : status[q] # NoRequest => status'[q] # NoRequest
    BY <1>4, StepEvent DEF Statuses, NoRequest
  <2> QED
    BY <1>3, <1>4, <2>1 DEF EngineStep
<1>5. ASSUME NEW u \in Users, NEW r \in Requests, NEW write \in Writes, Create(u, r, write)
      PROVE  PatchesSeen'
  <2>1. \A q \in Requests : status[q] # NoRequest => status'[q] # NoRequest
    BY <1>5, CreateEvent
  <2> QED
    BY <1>3, <1>5, <2>1 DEF Create
<1>6. CASE \E c \in Configs : Reconfigure(c)
  BY <1>3, <1>6 DEF Reconfigure, requestVars
<1>7. CASE UNCHANGED vars
  BY <1>3, <1>7 DEF vars, requestVars
<1> QED
  BY <1>1, <1>2, <1>4, <1>5, <1>6, <1>7 DEF StepNext
-----------------------------------------------------------------------------
(* What a step may not do.                                                 *)

\* A step that leaves every task as it was keeps them all.
LEMMA SameTasksKept ==
  ASSUME tasks' = tasks
  PROVE  AllTasksKept
BY DEF AllTasksKept, TasksKept

\* No step changes a closed task, and none makes a task disappear.
LEMMA StepKeepsTasks == TypeOK /\ [StepNext]_vars => AllTasksKept
<1> SUFFICES ASSUME TypeOK, [StepNext]_vars
             PROVE  AllTasksKept
  OBVIOUS
<1>1. ASSUME NEW u \in Users, NEW r \in Requests, NEW t \in Rows, EngineStep(u, r, t)
      PROVE  AllTasksKept
  <2>1. PICK to, s, closed, new, created :
          Update(u, r, t.action, to, s, closed, new, created) /\ Survive(r, new)
    BY <1>1, StepUpdate
  <2>2. tasks'[r] = new \cup created
    BY <2>1, UpdatedRequest
  <2>3. \A q \in Requests \ {r} : tasks'[q] = tasks[q]
    BY <2>1, UpdateTouchesOne
  <2>4. TasksKept(r)
    BY <2>1, <2>2 DEF TasksKept, Survive
  <2>5. \A q \in Requests \ {r} : TasksKept(q)
    BY <2>3 DEF TasksKept
  <2> QED
    BY <2>4, <2>5 DEF AllTasksKept
<1>2. ASSUME NEW u \in Users, NEW r \in Requests,
             \/ \E write \in Writes : Create(u, r, write)
             \/ \E w \in Workers, write \in Writes : PatchRead(w, u, r, write)
      PROVE  AllTasksKept
  BY <1>2, SameTasksKept DEF Create, PatchRead, requestVars
<1>3. ASSUME NEW w \in Workers, PatchCommit(w) \/ PatchRollback(w)
      PROVE  AllTasksKept
  BY <1>3, SameTasksKept DEF PatchCommit, PatchRollback, requestVars
<1>4. ASSUME NEW c \in Configs, Reconfigure(c)
      PROVE  AllTasksKept
  BY <1>4, SameTasksKept DEF Reconfigure, requestVars
<1>5. CASE UNCHANGED vars
  BY <1>5, SameTasksKept DEF vars, requestVars
<1> QED
  BY <1>1, <1>2, <1>3, <1>4, <1>5 DEF StepNext

\* A step that leaves the request rows and the tasks as they were owes no event.
LEMMA NothingToRecord ==
  ASSUME UNCHANGED <<status, stage, tasks>>
  PROVE  AllChangesRecorded
BY DEF AllChangesRecorded, ChangeRecorded

\* Every change of a request is recorded in the step that makes it.
LEMMA StepRecorded == TypeOK /\ [StepNext]_vars => AllChangesRecorded
<1> SUFFICES ASSUME TypeOK, [StepNext]_vars
             PROVE  AllChangesRecorded
  OBVIOUS
<1>1. ASSUME NEW u \in Users, NEW r \in Requests, NEW t \in Rows, EngineStep(u, r, t)
      PROVE  AllChangesRecorded
  <2>1. PICK to \in Statuses, s \in Stages \cup {NoStage}, closed \in TaskKeys,
        new \in SUBSET Tasks, created \in SUBSET Tasks :
          /\ Update(u, r, t.action, to, s, closed, new, created)
          /\ CompletedBy(u, r, new \cup created)
    BY <1>1, StepUpdate
  <2>2. status[r] # NoRequest /\ t.action \in ActionCodes
    BY <1>1, RowFacts DEF EngineStep
  <2>3. tasks'[r] = new \cup created /\ status'[r] = to
    BY <2>1, UpdatedRequest
  <2>4. PICK ev \in Events :
          ev.actor = u /\ ev.from = status[r] /\ ev.to = to /\ history'[r] = Append(history[r], ev)
    BY <2>1, <2>2, UpdatedRows
  <2>5. ChangeRecorded(r)
    BY <2>1, <2>3, <2>4 DEF ChangeRecorded, CompletedBy
  <2>6. \A q \in Requests \ {r} : ChangeRecorded(q)
    BY <2>1, UpdateTouchesOne DEF ChangeRecorded
  <2> QED
    BY <2>5, <2>6 DEF AllChangesRecorded
<1>2. ASSUME NEW u \in Users, NEW r \in Requests, NEW write \in Writes, Create(u, r, write)
      PROVE  AllChangesRecorded
  <2> DEFINE ev == Event(u, "create", NoRequest, "draft")
  <2>1. /\ ev \in Events /\ ev.from = NoRequest /\ ev.to = "draft"
        /\ history'[r] = Append(history[r], ev)
        /\ status[r] = NoRequest /\ status'[r] = "draft" /\ tasks' = tasks
    BY <1>2 DEF Create, SetRequest, Event, Events, Statuses, TypeOK
  <2>2. \A q \in Requests \ {r} : status'[q] = status[q] /\ stage'[q] = stage[q]
    BY <1>2 DEF Create, SetRequest, TypeOK
  <2> QED
    BY <2>1, <2>2 DEF AllChangesRecorded, ChangeRecorded
<1>3. ASSUME NEW w \in Workers, NEW u \in Users, NEW r \in Requests, NEW write \in Writes,
             PatchRead(w, u, r, write)
      PROVE  AllChangesRecorded
  BY <1>3, NothingToRecord DEF PatchRead, requestVars
<1>4. ASSUME NEW w \in Workers, PatchCommit(w) \/ PatchRollback(w)
      PROVE  AllChangesRecorded
  BY <1>4, NothingToRecord DEF PatchCommit, PatchRollback, requestVars
<1>5. ASSUME NEW c \in Configs, Reconfigure(c)
      PROVE  AllChangesRecorded
  BY <1>5, NothingToRecord DEF Reconfigure, requestVars
<1>6. CASE UNCHANGED vars
  BY <1>6, NothingToRecord DEF vars, requestVars
<1> QED
  BY <1>1, <1>2, <1>3, <1>4, <1>5, <1>6 DEF StepNext

\* Only the commit of its own PATCH ends a worker's call and leaves something behind.
LEMMA OnlyCommitCommits ==
  ASSUME TypeOK, [StepNext]_vars, NEW w \in Workers, Commits(w)
  PROVE  PatchCommit(w)
<1>1. patch[w] # NoPatch /\ patch'[w] = NoPatch /\ (values' # values \/ history' # history)
  BY DEF Commits
<1>2. ASSUME NEW v \in Workers, PatchCommit(v)
      PROVE  v = w
  BY <1>1, <1>2 DEF PatchCommit, TypeOK
<1>3. ASSUME NEW v \in Workers, PatchRollback(v)
      PROVE  FALSE
  BY <1>1, <1>3 DEF PatchRollback, requestVars
<1>4. ASSUME NEW u \in Users, NEW r \in Requests,
             \/ \E write \in Writes : Create(u, r, write)
             \/ \E v \in Workers, write \in Writes : PatchRead(v, u, r, write)
             \/ \E t \in Rows : EngineStep(u, r, t)
      PROVE  FALSE
  BY <1>1, <1>4 DEF Create, PatchRead, EngineStep, requestVars
<1> QED
  BY <1>1, <1>2, <1>3, <1>4 DEF StepNext, Reconfigure, vars, requestVars

\* A commit writes the fields it was given, where it found them changed, and no other.
LEMMA CommitWrites ==
  ASSUME TypeOK, NEW w \in Workers, PatchCommit(w), NEW f \in Fields
  PROVE  values'[patch[w].req][f] =
           IF f \in DOMAIN patch[w].write /\ patch[w].write[f] # patch[w].loaded[f]
           THEN patch[w].write[f] ELSE values[patch[w].req][f]
<1>1. patch[w] \in Patches
  BY DEF TypeOK, PatchCommit
<1>2. values'[patch[w].req] = UpsertedBy(patch[w], values[patch[w].req])
  BY <1>1 DEF TypeOK, PatchCommit, Patches
<1> QED
  BY <1>2 DEF UpsertedBy, Dirty

\* No step changes a field that a PATCH omits.
LEMMA StepKeepsOmitted == TypeOK /\ [StepNext]_vars => OmittedKept
BY OnlyCommitCommits, CommitWrites DEF OmittedKept

\* Only a write over a changed row may be lost.
LEMMA StepWrites == TypeOK /\ [StepNext]_vars => WrittenUnlessStale
<1> SUFFICES ASSUME TypeOK, [StepNext]_vars, NEW w \in Workers, Commits(w),
                    NEW f \in DOMAIN patch[w].write,
                    values'[patch[w].req][f] # patch[w].write[f]
             PROVE  patch[w].loaded[f] \notin {NoRow, values[patch[w].req][f]}
  BY DEF WrittenUnlessStale
<1>1. PatchCommit(w)
  BY OnlyCommitCommits
<1>2. f \in Fields
  BY <1>1 DEF TypeOK, PatchCommit, Patches, Writes
<1>3. patch[w].loaded[f] = NoRow => values[patch[w].req][f] = NoRow
  BY <1>1 DEF PatchCommit
<1> QED
  BY <1>1, <1>2, <1>3, CommitWrites
=============================================================================
