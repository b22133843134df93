---------------------------- MODULE OutcomeProofs ----------------------------
(* What the decisions leave behind when the rows are named as the seed names *)
(* them: comments, notifications.                                            *)
EXTENDS HistoryProofs

\* What NamedActions says of a row.
LEMMA NamedRow ==
  ASSUME NamedActions, NEW t \in Rows
  PROVE  /\ t.effect = "approve_advance" => t.action = "approve"
         /\ t.to = "in_approval" => t.action = "submit"
         /\ t.action \in {"reject", "return"} <=>
              t.effect = "status_only" /\ t.to \in {"rejected", "returned"}
BY DEF NamedActions, Rows
-----------------------------------------------------------------------------
(* Comments.                                                               *)

CommentsInv == HistoryInv /\ \A r \in Requests : Commented(r)

\* The comments stay right while a step adds none and its event wants none.
LEMMA CommentedStays ==
  ASSUME TypeOK, NEW r \in Requests, Commented(r), comments'[r] = comments[r], TasksKept(r),
         NEW ev \in Events, history'[r] = Append(history[r], ev),
         ev.action \notin {"reject", "return"}
  PROVE  Commented(r)'
<1> DEFINE H == {i \in DOMAIN history[r] : history[r][i].action \in {"reject", "return"}}
           G == {i \in DOMAIN history'[r] : history'[r][i].action \in {"reject", "return"}}
<1>1. history[r] \in Seq(Events)
  BY DEF TypeOK
<1>2. PICK n : n = NewEvent(r)
  OBVIOUS
<1>3. /\ DOMAIN history'[r] = DOMAIN history[r] \cup {n} /\ history'[r][n] = ev
      /\ \A i \in DOMAIN history[r] : history'[r][i] = history[r][i]
  BY <1>1, <1>2, Appended
<1>4. {c.ev : c \in comments[r]} = H
  BY DEF Commented
<1>5. G = H
  BY <1>3
<1>6. ASSUME NEW c \in comments[r]
      PROVE  /\ c.author = history'[r][c.ev].actor
             /\ \E t \in tasks'[r] : Key(t) = c.task /\ t.assignee = c.author /\ t.status = "completed"
  <2>1. c.ev \in DOMAIN history[r]
    BY <1>4
  <2>2. c.author = history'[r][c.ev].actor
    BY <1>3, <2>1 DEF Commented
  <2>3. PICK t \in tasks[r] : Key(t) = c.task /\ t.assignee = c.author /\ t.status = "completed"
    BY DEF Commented
  <2>4. t \in tasks'[r]
    BY <2>3 DEF TasksKept
  <2> QED
    BY <2>2, <2>3, <2>4
<1> HIDE DEF G, H
<1>7. {c.ev : c \in comments'[r]} = G
  BY <1>4, <1>5
<1> QED
  BY <1>6, <1>7 DEF Commented, G

\* A refusal adds the comment that its event wants, on the task that it completes.
LEMMA CommentedAdds ==
  ASSUME TypeOK, NEW u \in Users, NEW r \in Requests, Commented(r), TasksKept(r),
         NEW ev \in Events, history'[r] = Append(history[r], ev),
         ev.action \in {"reject", "return"}, ev.actor = u,
         NEW key, comments'[r] = comments[r] \cup {[ev |-> NewEvent(r), author |-> u, task |-> key]},
         \E t \in tasks'[r] : Key(t) = key /\ t.assignee = u /\ t.status = "completed"
  PROVE  Commented(r)'
<1> DEFINE H == {i \in DOMAIN history[r] : history[r][i].action \in {"reject", "return"}}
           G == {i \in DOMAIN history'[r] : history'[r][i].action \in {"reject", "return"}}
<1>1. history[r] \in Seq(Events)
  BY DEF TypeOK
<1>2. PICK n : n = NewEvent(r)
  OBVIOUS
<1> DEFINE new == [ev |-> n, author |-> u, task |-> key]
<1>3. /\ DOMAIN history'[r] = DOMAIN history[r] \cup {n} /\ history'[r][n] = ev
      /\ \A i \in DOMAIN history[r] : history'[r][i] = history[r][i]
  BY <1>1, <1>2, Appended
<1>4. {c.ev : c \in comments[r]} = H
  BY DEF Commented
<1>5. G = H \cup {n}
  BY <1>3
<1>6. comments'[r] = comments[r] \cup {new} /\ new.ev = n /\ new.author = u /\ new.task = key
  BY <1>2
<1> HIDE DEF new
<1>7. ASSUME NEW c \in comments'[r]
      PROVE  /\ c.author = history'[r][c.ev].actor
             /\ \E t \in tasks'[r] : Key(t) = c.task /\ t.assignee = c.author /\ t.status = "completed"
  <2>1. CASE c = new
    BY <1>3, <1>6, <2>1
  <2>2. CASE c \in comments[r]
    <3>1. c.ev \in DOMAIN history[r]
      BY <1>4, <2>2
    <3>2. c.author = history'[r][c.ev].actor
      BY <1>3, <2>2, <3>1 DEF Commented
    <3>3. PICK t \in tasks[r] : Key(t) = c.task /\ t.assignee = c.author /\ t.status = "completed"
      BY <2>2 DEF Commented
    <3>4. t \in tasks'[r]
      BY <3>3 DEF TasksKept
    <3> QED
      BY <3>2, <3>3, <3>4
  <2> QED
    BY <1>6, <1>7, <2>1, <2>2
<1> HIDE DEF G, H
<1>8. {c.ev : c \in comments'[r]} = G
  BY <1>4, <1>5, <1>6
<1> QED
  BY <1>7, <1>8 DEF Commented, G

\* Without an event the comments stay right.
LEMMA CommentedSame ==
  ASSUME NEW r \in Requests, Commented(r), comments'[r] = comments[r], TasksKept(r),
         history'[r] = history[r]
  PROVE  Commented(r)'
<1>1. ASSUME NEW c \in comments[r]
      PROVE  /\ c.author = history'[r][c.ev].actor
             /\ \E t \in tasks'[r] : Key(t) = c.task /\ t.assignee = c.author /\ t.status = "completed"
  <2>1. PICK t \in tasks[r] : Key(t) = c.task /\ t.assignee = c.author /\ t.status = "completed"
    BY DEF Commented
  <2>2. t \in tasks'[r]
    BY <2>1 DEF TasksKept
  <2> QED
    BY <2>1, <2>2 DEF Commented
<1> QED
  BY <1>1 DEF Commented

\* Every execution keeps the comments of its request right.
LEMMA StepComments ==
  ASSUME NamedActions, CommentsInv, NEW u \in Users, NEW r \in Requests, NEW t \in Rows,
         EngineStep(u, r, t), TasksKept(r)
  PROVE  Commented(r)'
<1>1. TypeOK /\ RequestInv(r) /\ Commented(r)
  BY EngineInvByRequest DEF CommentsInv, HistoryInv
<1>2. PICK ev \in Events :
        ev.actor = u /\ ev.action = t.action /\ history'[r] = Append(history[r], ev)
  BY <1>1, StepEvent
<1>3. CASE RefuseStep(u, r, t)
  <2>1. PICK x \in OpenTasks(u, r) :
          /\ Update(u, r, t.action, t.to, stage[r], Key(x), CloseStage(r, x), {})
          /\ comments' = [comments EXCEPT ![r] = @ \cup
               {[ev |-> Len(history[r]) + 1, author |-> u, task |-> Key(x)]}]
    BY <1>3 DEF RefuseStep
  <2>2. PICK key : key = Key(x)
    OBVIOUS
  <2>3. comments'[r] = comments[r] \cup {[ev |-> NewEvent(r), author |-> u, task |-> key]}
    BY <1>1, <2>1, <2>2 DEF TypeOK, NewEvent
  <2>4. \E y \in tasks'[r] : Key(y) = key /\ y.assignee = u /\ y.status = "completed"
    <3>1. x \in tasks[r] /\ x \in Tasks /\ x.assignee = u
      BY <1>1 DEF OpenTasks, TypeOK
    <3>2. /\ Closed(x, x).assignee = u /\ Closed(x, x).status = "completed"
          /\ Key(Closed(x, x)) = key
      <4>1. /\ Closed(x, x).assignee = x.assignee /\ Closed(x, x).batch = x.batch
            /\ Closed(x, x).status = "completed"
        BY <3>1, ClosedTask
      <4> QED
        BY <2>2, <3>1, <4>1 DEF Key
    <3>3. tasks'[r] = CloseStage(r, x)
      BY <1>1, <2>1 DEF Update, SetTasks, TypeOK
    <3>4. Closed(x, x) \in tasks'[r]
      BY <3>1, <3>3 DEF CloseStage
    <3> QED
      BY <3>2, <3>4
  <2>5. ev.action \in {"reject", "return"}
    BY <1>2, <1>3, NamedRow DEF RefuseStep
  <2> QED
    BY <1>1, <1>2, <2>3, <2>4, <2>5, CommentedAdds
<1>4. CASE AskStep(u, r, t) \/ PassStep(u, r, t) \/ FinalStep(u, r, t) \/ MoveStep(u, r, t)
  <2>1. comments' = comments
    BY <1>4 DEF AskStep, PassStep, FinalStep, MoveStep
  <2>2. t.action \notin {"reject", "return"}
    BY <1>4, NamedRow DEF AskStep, PassStep, FinalStep, MoveStep
  <2> QED
    BY <1>1, <1>2, <2>1, <2>2, CommentedStays
<1> QED
  BY <1>3, <1>4 DEF EngineStep

\* An execution comments on its own request only.
LEMMA StepCommentsOne ==
  ASSUME TypeOK, NEW u \in Users, NEW r \in Requests, NEW t \in Rows, EngineStep(u, r, t),
         NEW q \in Requests, q # r
  PROVE  comments'[q] = comments[q]
BY DEF EngineStep, AskStep, PassStep, FinalStep, RefuseStep, MoveStep, TypeOK

\* Every step keeps the comments right.
LEMMA NextComments == NamedActions /\ CommentsInv /\ [StepNext]_vars => CommentsInv'
<1> SUFFICES ASSUME NamedActions, CommentsInv, [StepNext]_vars
             PROVE  \A q \in Requests : Commented(q)'
  BY NextHistory DEF CommentsInv
<1>1. TypeOK /\ \A q \in Requests : Commented(q) /\ TasksKept(q)
  BY StepKeepsTasks DEF CommentsInv, HistoryInv, EngineInv, AllTasksKept
<1>2. ASSUME NEW u \in Users, NEW r \in Requests, NEW t \in Rows, EngineStep(u, r, t),
             NEW q \in Requests
      PROVE  Commented(q)'
  <2>1. CASE q = r
    BY <1>1, <1>2, <2>1, StepComments
  <2>2. CASE q # r
    <3>1. comments'[q] = comments[q] /\ history'[q] = history[q]
      BY <1>1, <1>2, <2>2, StepCommentsOne, StepEvent
    <3> QED
      BY <1>1, <3>1, CommentedSame
  <2> QED
    BY <2>1, <2>2
<1>3. ASSUME comments' = comments, NEW r \in Requests, NEW ev \in Events, 
             history'[r] = Append(history[r], ev), ev.action \in {"create", "update_values"},
             \A q \in Requests \ {r} : history'[q] = history[q],
             NEW q \in Requests
      PROVE  Commented(q)'
  BY <1>1, <1>3, CommentedStays, CommentedSame
<1>4. ASSUME NEW u \in Users, NEW r \in Requests, NEW write \in Writes, Create(u, r, write)
      PROVE  \A q \in Requests : Commented(q)'
  <2>1. PICK ev \in Events : ev.action = "create" /\ history'[r] = Append(history[r], ev)
    BY <1>1, <1>4, CreateEvent
  <2>2. \A q \in Requests \ {r} : history'[q] = history[q]
    BY <1>1, <1>4, CreateEvent
  <2>3. comments' = comments
    BY <1>4 DEF Create
  <2> QED
    BY <1>3, <2>1, <2>2, <2>3
<1>5. ASSUME NEW w \in Workers, PatchCommit(w)
      PROVE  \A q \in Requests : Commented(q)'
  <2>1. PICK r \in Requests : r = patch[w].req
    BY <1>1, <1>5, PatchEvent DEF Patches
  <2>2. PICK ev \in Events : ev.action = "update_values" /\ history'[r] = Append(history[r], ev)
    BY <1>1, <1>5, <2>1, PatchEvent
  <2>3. \A q \in Requests \ {r} : history'[q] = history[q]
    BY <1>1, <1>5, <2>1, PatchEvent
  <2>4. comments' = comments
    BY <1>5 DEF PatchCommit
  <2> QED
    BY <1>3, <2>2, <2>3, <2>4
<1>6. ASSUME UNCHANGED <<comments, history>>
      PROVE  \A q \in Requests : Commented(q)'
  BY <1>1, <1>6, CommentedSame
<1>7. ASSUME \/ \E w \in Workers, u \in Users, r \in Requests, write \in Writes : PatchRead(w, u, r, write)
             \/ \E w \in Workers : PatchRollback(w)
             \/ \E c \in Configs : Reconfigure(c)
             \/ UNCHANGED vars
      PROVE  UNCHANGED <<comments, history>>
  BY <1>7 DEF PatchRead, PatchRollback, Reconfigure, vars, requestVars
<1> QED
  BY <1>2, <1>4, <1>5, <1>6, <1>7 DEF StepNext

\* BR-25: with the seed's action names, every rejection and return has its comment, by
\* the actor and on the task that the actor completed, and nothing else has one.
THEOREM RefusalsCommented ==
  ASSUME NamedActions
  PROVE  Spec => []DecisionsCommented
<1>1. Init => CommentsInv
  <2> SUFFICES ASSUME Init
               PROVE  CommentsInv
    OBVIOUS
  <2>1. \A r \in Requests : comments[r] = {} /\ history[r] = <<>>
    BY DEF Init
  <2> QED
    BY <2>1, InitHistory DEF CommentsInv, Commented
<1>2. CommentsInv /\ [StepNext]_vars => CommentsInv'
  BY NextComments
<1>3. CommentsInv => DecisionsCommented
  BY DEF CommentsInv, DecisionsCommented
<1> QED
  BY <1>1, <1>2, <1>3, EngineTakesSteps, PTL DEF StepSpec
-----------------------------------------------------------------------------
(* Notifications.                                                          *)

\* A notification about a task announces it to its assignee, or reports to the
\* initiator that it was completed; and it belongs to an event of the history.
Explains(n, ts, who) ==
  \E t \in ts :
    Key(t) = n.task /\ (n.to = t.assignee \/ (n.to = who /\ t.status = "completed"))
NotesExplained(r) ==
  \A n \in notes[r] :
    n.ev \in DOMAIN history[r] /\ (n.task # NoTask => Explains(n, tasks[r], initiator[r]))

NotesInv == HistoryInv /\ \A r \in Requests : Notified(r) /\ NotesExplained(r)

\* The notifications of an event to the targets in W.
NotesTo(n, W) == {[ev |-> n, to |-> w[1], task |-> w[2]] : w \in W}

\* New notifications are right when they are about tasks that nobody was told of in
\* that way, reach the assignees of new tasks, and report the end of an approval.
LEMMA NotifiedAfter ==
  ASSUME TypeOK, NEW r \in Requests, Notified(r), NotesExplained(r), TasksKept(r),
         NEW ev \in Events, history'[r] = Append(history[r], ev), initiator'[r] = initiator[r],
         NEW W, W \subseteq Users \X TaskKeys,
         NEW n, n = NewEvent(r),
         notes'[r] = notes[r] \cup NotesTo(n, W),
         \A w \in W : w[2] # NoTask =>
           /\ \A m \in notes[r] : ~(m.to = w[1] /\ m.task = w[2])
           /\ \E t \in tasks'[r] :
                Key(t) = w[2] /\ (w[1] = t.assignee \/ (w[1] = initiator[r] /\ t.status = "completed")),
         \A y \in tasks'[r] : (\E t \in tasks[r] : Key(t) = Key(y)) \/ <<y.assignee, Key(y)>> \in W,
         ev.from = "in_approval" /\ ev.to # "in_approval" => \E w \in W : w[1] = initiator[r]
  PROVE  Notified(r)' /\ NotesExplained(r)'
<1>1. /\ DOMAIN history'[r] = DOMAIN history[r] \cup {n} /\ history'[r][n] = ev
      /\ \A i \in DOMAIN history[r] : history'[r][i] = history[r][i] /\ i # n
  <2>1. history[r] \in Seq(Events)
    BY DEF TypeOK
  <2> QED
    BY <2>1, Appended
<1>2. \A m \in NotesTo(n, W) : \E w \in W : m = [ev |-> n, to |-> w[1], task |-> w[2]]
  BY DEF NotesTo
<1>3. ASSUME NEW w \in W
      PROVE  \E m \in NotesTo(n, W) : m.ev = n /\ m.to = w[1] /\ m.task = w[2]
  <2>1. [ev |-> n, to |-> w[1], task |-> w[2]] \in NotesTo(n, W)
    BY DEF NotesTo
  <2> QED
    BY <2>1
<1>4. ASSUME NEW t \in tasks[r]
      PROVE  \E y \in tasks'[r] : /\ Key(y) = Key(t) /\ y.assignee = t.assignee
                                  /\ t.status = "completed" => y.status = "completed"
  <2>1. CASE t.status = "open"
    <3>1. PICK y \in tasks'[r] : Key(y) = Key(t)
      BY <2>1 DEF TasksKept
    <3>2. y.assignee = t.assignee
      BY <3>1 DEF Key
    <3> QED
      BY <2>1, <3>1, <3>2
  <2>2. CASE t.status # "open"
    BY <2>2 DEF TasksKept
  <2> QED
    BY <2>1, <2>2
<1>5. ASSUME NEW y \in tasks'[r]
      PROVE  \E m \in notes'[r] : m.to = y.assignee /\ m.task = Key(y)
  <2>1. CASE \E t \in tasks[r] : Key(t) = Key(y)
    <3>1. PICK t \in tasks[r] : Key(t) = Key(y)
      BY <2>1
    <3>2. t.assignee = y.assignee
      BY <3>1 DEF Key
    <3> QED
      BY <3>1, <3>2 DEF Notified
  <2>2. CASE <<y.assignee, Key(y)>> \in W
    BY <1>3, <2>2
  <2> QED
    BY <2>1, <2>2
<1>6. ASSUME NEW i \in DOMAIN history'[r],
             history'[r][i].from = "in_approval", history'[r][i].to # "in_approval"
      PROVE  \E m \in notes'[r] : m.ev = i /\ m.to = initiator'[r]
  <2>1. CASE i = n
    BY <1>1, <1>3, <1>6, <2>1
  <2>2. CASE i \in DOMAIN history[r]
    BY <1>1, <1>6, <2>2 DEF Notified
  <2> QED
    BY <1>1, <2>1, <2>2
<1>7. ASSUME NEW m \in notes'[r], NEW k \in notes'[r],
             m.to = k.to, m.task = k.task, m.task # NoTask
      PROVE  m = k
  <2>1. CASE m \in notes[r] /\ k \in notes[r]
    BY <1>7, <2>1 DEF Notified
  <2>2. CASE m \in NotesTo(n, W) /\ k \in NotesTo(n, W)
    BY <1>2, <1>7, <2>2
  <2>3. ASSUME NEW a \in notes[r], NEW b \in NotesTo(n, W), a.to = b.to, a.task = b.task,
               a.task # NoTask
        PROVE  FALSE
    <3>1. PICK w \in W : b.to = w[1] /\ b.task = w[2]
      BY <1>2
    <3> QED
      BY <2>3, <3>1
  <2> QED
    BY <1>7, <2>1, <2>2, <2>3
<1>8. ASSUME NEW m \in notes'[r]
      PROVE  m.ev \in DOMAIN history'[r] /\ (m.task # NoTask => Explains(m, tasks'[r], initiator'[r]))
  <2>1. CASE m \in notes[r]
    <3>1. m.ev \in DOMAIN history'[r]
      BY <1>1, <2>1 DEF NotesExplained
    <3>2. ASSUME m.task # NoTask
          PROVE  Explains(m, tasks'[r], initiator'[r])
      <4>1. PICK t \in tasks[r] :
              Key(t) = m.task /\ (m.to = t.assignee \/ (m.to = initiator[r] /\ t.status = "completed"))
        BY <2>1, <3>2 DEF NotesExplained, Explains
      <4>2. PICK y \in tasks'[r] :
              /\ Key(y) = Key(t) /\ y.assignee = t.assignee
              /\ t.status = "completed" => y.status = "completed"
        BY <1>4
      <4> QED
        BY <4>1, <4>2 DEF Explains
    <3> QED
      BY <3>1, <3>2
  <2>2. CASE m \in NotesTo(n, W)
    <3>1. PICK w \in W : m.ev = n /\ m.to = w[1] /\ m.task = w[2]
      BY <1>2, <2>2
    <3> QED
      BY <1>1, <3>1 DEF Explains
  <2> QED
    BY <2>1, <2>2
<1> QED
  BY <1>5, <1>6, <1>7, <1>8 DEF Notified, NotesExplained

\* The same of the targets that a step's transaction notifies.
LEMMA UpdateNotified ==
  ASSUME TypeOK, NEW u \in Users, NEW r \in Requests, NEW a \in ActionCodes, NEW to \in Statuses,
         NEW s, NEW closed, NEW new, NEW created, status[r] # NoRequest,
         Update(u, r, a, to, s, closed, new, created),
         initiator' = initiator, Notified(r), NotesExplained(r), TasksKept(r),
         NEW W, W = Targets(r, a, closed, created), W \subseteq Users \X TaskKeys,
         \A w \in W : w[2] # NoTask =>
           /\ \A m \in notes[r] : ~(m.to = w[1] /\ m.task = w[2])
           /\ \E t \in new \cup created :
                Key(t) = w[2] /\ (w[1] = t.assignee \/ (w[1] = initiator[r] /\ t.status = "completed")),
         \A y \in new \cup created :
           (\E t \in tasks[r] : Key(t) = Key(y)) \/ <<y.assignee, Key(y)>> \in W,
         status[r] = "in_approval" /\ to # "in_approval" => \E w \in W : w[1] = initiator[r]
  PROVE  Notified(r)' /\ NotesExplained(r)'
<1>1. PICK n : n = NewEvent(r)
  OBVIOUS
<1>2. PICK ev \in Events : /\ ev.from = status[r] /\ ev.to = to
                           /\ history'[r] = Append(history[r], ev)
  BY UpdatedRows
<1>3. notes'[r] = notes[r] \cup NotesTo(n, W)
  BY <1>1, UpdatedRows DEF NotesTo, NewEvent
<1>4. tasks'[r] = new \cup created
  BY UpdatedRequest
<1> QED
  BY <1>1, <1>2, <1>3, <1>4, NotifiedAfter

\* Nobody has been told of the tasks of the next batch.
LEMMA NewTasksUnknown ==
  ASSUME TypeOK, NEW r \in Requests, RequestInv(r), NotesExplained(r),
         NEW s \in Stages, NEW who \in Rounds,
         NEW y \in NewTasks(r, s, who), NEW m \in notes[r]
  PROVE  m.task # Key(y)
<1>1. batch[r] \in Nat /\ y.batch = batch[r] + 1 /\ Key(y)[1] = batch[r] + 1
  BY CreatedTasks DEF TypeOK, Key
<1>2. Key(y) # NoTask
  BY <1>1 DEF Key, NoTask
<1> SUFFICES ASSUME m.task = Key(y)
             PROVE  FALSE
  OBVIOUS
<1>3. PICK t \in tasks[r] : Key(t) = Key(y)
  BY <1>2 DEF NotesExplained, Explains
<1>4. t.batch = batch[r] + 1
  BY <1>1, <1>3 DEF Key
<1>5. t.batch <= batch[r]
  BY DEF RequestInv
<1> QED
  BY <1>1, <1>4, <1>5

\* The initiator has not been told of a task that is still open.
LEMMA OpenTaskUnreported ==
  ASSUME TypeOK, NEW u \in Users, NEW r \in Requests, RequestInv(r), RequestHistory(r),
         NotesExplained(r), NEW x \in OpenTasks(u, r), NotSelfApproval(u, r),
         NEW m \in notes[r], m.to = initiator[r], m.task = Key(x)
  PROVE  FALSE
<1>1. /\ x \in tasks[r] /\ x \in Tasks /\ x.assignee = u /\ x.status = "open"
      /\ status[r] = "in_approval" /\ x.batch = batch[r]
  BY DEF OpenTasks, RequestInv, TypeOK
<1>2. x.batch >= 1 /\ x.batch \in Nat
  BY <1>1 DEF RequestHistory, Tasks
<1>3. Key(x) # NoTask
  BY <1>2 DEF Key, NoTask
<1>4. PICK t \in tasks[r] :
        Key(t) = Key(x) /\ (m.to = t.assignee \/ (m.to = initiator[r] /\ t.status = "completed"))
  BY <1>3 DEF NotesExplained, Explains
<1>5. t.assignee = u /\ t.batch = batch[r]
  BY <1>1, <1>4 DEF Key
<1>6. t.status = "completed"
  BY <1>4, <1>5 DEF NotSelfApproval
<1>7. t.status = "open"
  BY <1>1, <1>5 DEF RequestHistory
<1> QED
  BY <1>6, <1>7

\* New tasks are announced to their assignees, as the seed's names have it.
LEMMA AnnouncedTargets ==
  ASSUME NEW r, NEW a, NEW closed, NEW created,
         a = "submit" \/ a = "approve", created # {}
  PROVE  Targets(r, a, closed, created) = {<<y.assignee, Key(y)>> : y \in created}
BY DEF Targets

\* A step that asks others notifies them, each once.
LEMMA AskedNotified ==
  ASSUME TypeOK, NEW u \in Users, NEW r \in Requests, NEW a \in ActionCodes, status[r] # NoRequest,
         NEW to \in Statuses, to = "in_approval",
         RequestInv(r), initiator' = initiator, Notified(r), NotesExplained(r), TasksKept(r),
         NEW s \in Stages, NEW who \in Rounds, NEW closed \in TaskKeys, NEW new,
         a = "submit" \/ a = "approve",
         \A y \in new : \E z \in tasks[r] : Key(z) = Key(y),
         Update(u, r, a, to, s, closed, new, NewTasks(r, s, who))
  PROVE  Notified(r)' /\ NotesExplained(r)'
<1> DEFINE created == NewTasks(r, s, who)
<1>0. PICK W : W = Targets(r, a, closed, created)
  OBVIOUS
<1>1. batch[r] \in Nat /\ initiator[r] \in Users
  BY DEF TypeOK
<1>2. created # {} /\ created \in SUBSET Tasks
  BY <1>1, CreatedTasks
<1>3. W = {<<y.assignee, Key(y)>> : y \in created}
  BY <1>0, <1>2, AnnouncedTargets
<1>4. W \subseteq Users \X TaskKeys
  BY <1>0, <1>1, <1>2, TargetTypes
<1>5. \A y \in created : \A m \in notes[r] : m.task # Key(y)
  BY NewTasksUnknown
<1>6. Update(u, r, a, to, s, closed, new, created)
  OBVIOUS
<1> HIDE DEF created
<1>7. \A w \in W : w[2] # NoTask =>
        /\ \A m \in notes[r] : ~(m.to = w[1] /\ m.task = w[2])
        /\ \E y \in new \cup created :
             Key(y) = w[2] /\ (w[1] = y.assignee \/ (w[1] = initiator[r] /\ y.status = "completed"))
  <2>1. \A w \in W : \E y \in created : w[1] = y.assignee /\ w[2] = Key(y)
    BY <1>3
  <2> QED
    BY <1>5, <2>1
<1>8. \A y \in new \cup created :
        (\E z \in tasks[r] : Key(z) = Key(y)) \/ <<y.assignee, Key(y)>> \in W
  BY <1>3
<1>9. status[r] = "in_approval" /\ to # "in_approval" => \E w \in W : w[1] = initiator[r]
  OBVIOUS
<1> QED
  BY <1>0, <1>4, <1>6, <1>7, <1>8, <1>9, UpdateNotified

\* Every execution notifies those whom its decision concerns.
LEMMA StepNotes ==
  ASSUME NamedActions, NotesInv, NEW u \in Users, NEW r \in Requests, NEW t \in Rows,
         EngineStep(u, r, t)
  PROVE  Notified(r)' /\ NotesExplained(r)'
<1>1. /\ TypeOK /\ RequestInv(r) /\ RequestHistory(r) /\ Notified(r) /\ NotesExplained(r)
      /\ status[r] # NoRequest /\ t.from = status[r] /\ initiator' = initiator
  BY EngineInvByRequest DEF NotesInv, HistoryInv, EngineStep
<1>2. TasksKept(r)
  BY <1>1, StepKeepsTasks DEF AllTasksKept, StepNext
<1>3. /\ t.action \in ActionCodes /\ t.to \in Statuses /\ initiator[r] \in Users
      /\ "in_approval" \in Statuses /\ batch[r] \in Nat /\ tasks[r] \in SUBSET Tasks
  BY <1>1, RowFacts DEF TypeOK, Statuses
<1>4. \A x \in OpenTasks(u, r) :
        /\ x \in tasks[r] /\ Key(x) \in TaskKeys
        /\ \A y \in CloseStage(r, x) : \E z \in tasks[r] : Key(z) = Key(y)
        /\ \E z \in CloseStage(r, x) : Key(z) = Key(x) /\ z.status = "completed"
  <2> TAKE x \in OpenTasks(u, r)
  <2>1. x \in tasks[r] /\ x \in Tasks /\ Key(x) \in TaskKeys
    BY <1>3, KeyType DEF OpenTasks
  <2>2. ASSUME NEW y \in CloseStage(r, x)
        PROVE  \E z \in tasks[r] : Key(z) = Key(y)
    <3>1. PICK z \in tasks[r] : y = Closed(z, x)
      BY DEF CloseStage
    <3>2. Key(y) = Key(z)
      BY <1>3, <3>1, ClosedTask DEF Key
    <3> QED
      BY <3>2
  <2>3. Closed(x, x) \in CloseStage(r, x)
    BY <2>1 DEF CloseStage
  <2>4. Key(Closed(x, x)) = Key(x) /\ Closed(x, x).status = "completed"
    BY <2>1, ClosedTask DEF Key
  <2> QED
    BY <2>1, <2>2, <2>3, <2>4
<1>6. CASE AskStep(u, r, t)
  <2>1. PICK s \in Stages, who \in Rounds :
          Update(u, r, t.action, t.to, s, NoTask, tasks[r], NewTasks(r, s, who))
    BY <1>6 DEF AskStep
  <2>2. t.action = "submit" /\ t.to = "in_approval" /\ NoTask \in TaskKeys
    BY <1>6, NamedRow DEF AskStep, TaskKeys
  <2> QED
    BY <1>1, <1>2, <1>3, <2>1, <2>2, AskedNotified
<1>7. CASE PassStep(u, r, t)
  <2>1. PICK to \in Statuses : to = "in_approval"
    BY <1>3
  <2>2. PICK x \in OpenTasks(u, r), s \in Stages, who \in Rounds :
          Update(u, r, t.action, to, s, Key(x), CloseStage(r, x), NewTasks(r, s, who))
    BY <1>7, <2>1 DEF PassStep
  <2>3. t.action = "approve"
    BY <1>7, NamedRow DEF PassStep
  <2>4. Key(x) \in TaskKeys /\ \A y \in CloseStage(r, x) : \E z \in tasks[r] : Key(z) = Key(y)
    BY <1>4
  <2> QED
    BY <1>1, <1>2, <1>3, <2>1, <2>2, <2>3, <2>4, AskedNotified
<1>8. CASE FinalStep(u, r, t) \/ RefuseStep(u, r, t)
  <2>1. PICK x \in OpenTasks(u, r), s \in Stages \cup {NoStage} :
          Update(u, r, t.action, t.to, s, Key(x), CloseStage(r, x), {})
    BY <1>1, <1>8 DEF FinalStep, RefuseStep, TypeOK
  <2>2. t.action \in {"approve", "reject", "return"}
    BY <1>8, NamedRow DEF FinalStep, RefuseStep
  <2>3. PICK W : W = Targets(r, t.action, Key(x), {})
    OBVIOUS
  <2>4. W = {<<initiator[r], Key(x)>>}
    BY <2>2, <2>3 DEF Targets
  <2>5. W \subseteq Users \X TaskKeys
    BY <1>3, <1>4, <2>4
  <2>6. \A m \in notes[r] : ~(m.to = initiator[r] /\ m.task = Key(x))
    BY <1>1, <1>8, OpenTaskUnreported DEF FinalStep, RefuseStep
  <2>7. \A w \in W : /\ \A m \in notes[r] : ~(m.to = w[1] /\ m.task = w[2])
                    /\ \E z \in CloseStage(r, x) :
                         Key(z) = w[2] /\ w[1] = initiator[r] /\ z.status = "completed"
    BY <1>4, <2>4, <2>6
  <2>8. \E w \in W : w[1] = initiator[r]
    BY <2>4
  <2> QED
    BY <1>1, <1>2, <1>3, <1>4, <2>1, <2>3, <2>5, <2>7, <2>8, UpdateNotified
<1>9. CASE MoveStep(u, r, t)
  <2>1. Update(u, r, t.action, t.to, NoStage, NoTask, tasks[r], {})
    BY <1>9 DEF MoveStep
  <2>2. t.action \notin {"reject", "return"} /\ status[r] # "in_approval"
    BY <1>1, <1>9, NamedRow, NoneOpenElsewhere DEF MoveStep
  <2>3. PICK W : W = Targets(r, t.action, NoTask, {})
    OBVIOUS
  <2>4. W \subseteq {<<initiator[r], NoTask>>}
    BY <2>3 DEF Targets
  <2>5. NoTask \in TaskKeys
    BY DEF TaskKeys
  <2>6. W \subseteq Users \X TaskKeys
    BY <1>3, <2>4, <2>5
  <2>7. \A w \in W : w[2] = NoTask
    BY <2>4
  <2> QED
    BY <1>1, <1>2, <1>3, <2>1, <2>2, <2>3, <2>6, <2>7, UpdateNotified
<1> QED
  BY <1>6, <1>7, <1>8, <1>9 DEF EngineStep

\* The notifications of a request follow from its own rows.
LEMMA NotesSame ==
  ASSUME NEW r \in Requests, Notified(r), NotesExplained(r),
         history'[r] = history[r], notes'[r] = notes[r], tasks'[r] = tasks[r],
         initiator'[r] = initiator[r]
  PROVE  Notified(r)' /\ NotesExplained(r)'
BY DEF Notified, NotesExplained, Explains

\* An event that decides nothing leaves the notifications right.
LEMMA NotesStay ==
  ASSUME TypeOK, NEW r \in Requests, Notified(r), NotesExplained(r),
         NEW ev \in Events, history'[r] = Append(history[r], ev), ev.from # "in_approval",
         notes'[r] = notes[r], tasks'[r] = tasks[r], initiator'[r] = initiator[r]
  PROVE  Notified(r)' /\ NotesExplained(r)'
<1>1. history[r] \in Seq(Events)
  BY DEF TypeOK
<1>2. PICK n : n = NewEvent(r)
  OBVIOUS
<1>3. /\ DOMAIN history'[r] = DOMAIN history[r] \cup {n} /\ history'[r][n] = ev
      /\ \A i \in DOMAIN history[r] : history'[r][i] = history[r][i]
  BY <1>1, <1>2, Appended
<1>4. Notified(r)'
  BY <1>3 DEF Notified
<1>5. NotesExplained(r)'
  BY <1>3 DEF NotesExplained, Explains
<1> QED
  BY <1>4, <1>5

\* An execution notifies about its own request only.
LEMMA StepNotesOne ==
  ASSUME TypeOK, NEW u \in Users, NEW r \in Requests, NEW t \in Rows, EngineStep(u, r, t),
         NEW q \in Requests, q # r, Notified(q), NotesExplained(q)
  PROVE  Notified(q)' /\ NotesExplained(q)'
<1>1. /\ history'[q] = history[q] /\ notes'[q] = notes[q] /\ tasks'[q] = tasks[q]
      /\ initiator'[q] = initiator[q]
  BY StepEvent DEF EngineStep
<1> QED
  BY <1>1, NotesSame

\* create_draft notifies nobody, and has nobody to notify.
LEMMA CreateNotes ==
  ASSUME TypeOK, NEW u \in Users, NEW r \in Requests, NEW write \in Writes, Create(u, r, write),
         RequestInv(r), RequestHistory(r), Notified(r), NotesExplained(r)
  PROVE  Notified(r)' /\ NotesExplained(r)'
<1>1. /\ status[r] = NoRequest /\ tasks[r] = {} /\ history[r] = <<>>
      /\ notes' = notes /\ tasks' = tasks
  BY CreateEvent DEF RequestInv, RequestHistory, Create
<1>2. PICK ev \in Events : ev.from = NoRequest /\ history'[r] = Append(history[r], ev)
  BY CreateEvent
<1>a. DOMAIN history[r] = {}
  BY <1>1
<1>3. notes[r] = {}
  BY <1>a DEF NotesExplained
<1>4. history[r] \in Seq(Events)
  BY DEF TypeOK
<1>5. PICK n : n = NewEvent(r)
  OBVIOUS
<1>6. DOMAIN history'[r] = {n} /\ history'[r][n] = ev
  <2>1. DOMAIN history'[r] = DOMAIN history[r] \cup {n} /\ history'[r][n] = ev
    BY <1>2, <1>4, <1>5, Appended
  <2> QED
    BY <1>a, <2>1
<1>7. Notified(r)'
  BY <1>1, <1>2, <1>3, <1>6 DEF Notified, NoRequest
<1>8. NotesExplained(r)'
  BY <1>1, <1>3 DEF NotesExplained
<1> QED
  BY <1>7, <1>8

\* Every step keeps the notifications right.
LEMMA NextNotes == NamedActions /\ NotesInv /\ [StepNext]_vars => NotesInv'
<1> SUFFICES ASSUME NamedActions, NotesInv, [StepNext]_vars
             PROVE  \A q \in Requests : Notified(q)' /\ NotesExplained(q)'
  BY NextHistory DEF NotesInv
<1>1. /\ TypeOK /\ PatchesSeen
      /\ \A q \in Requests : /\ Notified(q) /\ NotesExplained(q)
                             /\ RequestInv(q) /\ RequestHistory(q)
  BY EngineInvByRequest DEF NotesInv, HistoryInv
<1>2. ASSUME NEW u \in Users, NEW r \in Requests, NEW t \in Rows, EngineStep(u, r, t),
             NEW q \in Requests
      PROVE  Notified(q)' /\ NotesExplained(q)'
  <2>1. CASE q = r
    BY <1>2, <2>1, StepNotes
  <2>2. CASE q # r
    BY <1>1, <1>2, <2>2, StepNotesOne
  <2> QED
    BY <2>1, <2>2
<1>3. ASSUME NEW u \in Users, NEW r \in Requests, NEW write \in Writes, Create(u, r, write),
             NEW q \in Requests
      PROVE  Notified(q)' /\ NotesExplained(q)'
  <2>1. CASE q = r
    BY <1>1, <1>3, <2>1, CreateNotes
  <2>2. CASE q # r
    <3>1. history'[q] = history[q] /\ initiator'[q] = initiator[q] /\ notes' = notes /\ tasks' = tasks
      BY <1>1, <1>3, <2>2, CreateEvent DEF Create
    <3> QED
      BY <1>1, <3>1, NotesSame
  <2> QED
    BY <2>1, <2>2
<1>4. ASSUME NEW w \in Workers, PatchCommit(w), NEW q \in Requests
      PROVE  Notified(q)' /\ NotesExplained(q)'
  <2>1. PICK r \in Requests : r = patch[w].req
    BY <1>1, <1>4, PatchEvent DEF Patches
  <2>2. UNCHANGED <<notes, tasks, initiator>> /\ patch[w] # NoPatch
    BY <1>4 DEF PatchCommit
  <2>3. PICK ev \in Events : ev.from = patch[w].seen /\ history'[r] = Append(history[r], ev)
    BY <1>1, <1>4, <2>1, PatchEvent
  <2>4. ev.from # "in_approval"
    BY <1>1, <2>2, <2>3 DEF PatchesSeen, Editable
  <2>5. CASE q = r
    BY <1>1, <2>2, <2>3, <2>4, <2>5, NotesStay
  <2>6. CASE q # r
    <3>1. history'[q] = history[q]
      BY <1>1, <1>4, <2>1, <2>6, PatchEvent
    <3> QED
      BY <1>1, <2>2, <3>1, NotesSame
  <2> QED
    BY <2>5, <2>6
<1>5. ASSUME UNCHANGED <<history, notes, tasks, initiator>>
      PROVE  \A q \in Requests : Notified(q)' /\ NotesExplained(q)'
  BY <1>1, <1>5, NotesSame
<1>6. ASSUME \/ \E w \in Workers, u \in Users, r \in Requests, write \in Writes : PatchRead(w, u, r, write)
             \/ \E w \in Workers : PatchRollback(w)
             \/ \E c \in Configs : Reconfigure(c)
             \/ UNCHANGED vars
      PROVE  UNCHANGED <<history, notes, tasks, initiator>>
  BY <1>6 DEF PatchRead, PatchRollback, Reconfigure, vars, requestVars
<1> QED
  BY <1>2, <1>3, <1>4, <1>5, <1>6 DEF StepNext

\* BR-29: with the seed's action names, every task was announced once to its assignee,
\* and every event that ends or sends back an approval was reported to the initiator.
THEOREM NotificationsComplete ==
  ASSUME NamedActions
  PROVE  Spec => []EveryoneNotified
<1>1. Init => NotesInv
  <2> SUFFICES ASSUME Init
               PROVE  NotesInv
    OBVIOUS
  <2>1. \A r \in Requests : notes[r] = {} /\ tasks[r] = {} /\ history[r] = <<>>
    BY DEF Init
  <2> QED
    BY <2>1, InitHistory DEF NotesInv, Notified, NotesExplained
<1>2. NotesInv /\ [StepNext]_vars => NotesInv'
  BY NextNotes
<1>3. NotesInv => EveryoneNotified
  BY DEF NotesInv, EveryoneNotified
<1> QED
  BY <1>1, <1>2, <1>3, EngineTakesSteps, PTL DEF StepSpec
=============================================================================
