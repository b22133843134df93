---------------------------- MODULE HistoryProofs ----------------------------
(* What the history of a request tells: the events chain to its status, and  *)
(* the decisions among them are those that closed its batches of tasks.      *)
EXTENDS ApprovalEngineProofs, FiniteSetTheorems

\* The number of the event that a step appends.
NewEvent(r) == Len(history[r]) + 1
-----------------------------------------------------------------------------
(* Appending an event.                                                     *)

\* The events that were there keep their numbers, and the new one comes last.
LEMMA Appended ==
  ASSUME NEW r \in Requests, history[r] \in Seq(Events), NEW ev \in Events,
         history'[r] = Append(history[r], ev)
  PROVE  /\ DOMAIN history'[r] = DOMAIN history[r] \cup {NewEvent(r)}
         /\ history'[r][NewEvent(r)] = ev
         /\ \A i \in DOMAIN history[r] :
              /\ i \in Nat /\ i < NewEvent(r) /\ i # NewEvent(r)
              /\ history'[r][i] = history[r][i] /\ history[r][i] \in Events
         /\ NewEvent(r) \in Nat /\ NewEvent(r)' = NewEvent(r) + 1
<1>1. /\ Len(history[r]) \in Nat /\ DOMAIN history[r] = 1..Len(history[r])
      /\ \A i \in DOMAIN history[r] : history[r][i] \in Events
  OBVIOUS
<1>2. /\ Len(history'[r]) = Len(history[r]) + 1
      /\ DOMAIN history'[r] = 1..(Len(history[r]) + 1)
      /\ \A i \in 1..Len(history[r]) : history'[r][i] = history[r][i]
      /\ history'[r][Len(history[r]) + 1] = ev
  OBVIOUS
<1> QED
  BY <1>1, <1>2 DEF NewEvent

\* The decisions after a step: one more if its event left an approval.
LEMMA DecisionEventsAfter ==
  ASSUME NEW r \in Requests, history[r] \in Seq(Events), NEW ev \in Events,
         history'[r] = Append(history[r], ev)
  PROVE  DecisionEvents(r)' = IF ev.from = "in_approval"
                              THEN DecisionEvents(r) \cup {NewEvent(r)} ELSE DecisionEvents(r)
<1> DEFINE D == DOMAIN history[r]
           E == DOMAIN history'[r]
<1>1. /\ E = D \cup {NewEvent(r)} /\ history'[r][NewEvent(r)] = ev
      /\ \A i \in D : history'[r][i] = history[r][i]
  BY Appended
<1>2. DecisionEvents(r) = {i \in D : history[r][i].from = "in_approval"}
  BY DEF DecisionEvents
<1>3. DecisionEvents(r)' = {i \in E : history'[r][i].from = "in_approval"}
  BY DEF DecisionEvents
<1> HIDE DEF D, E
<1> QED
  BY <1>1, <1>2, <1>3

\* The moves after a step: one more unless it was an edit.
LEMMA MovesAfter ==
  ASSUME NEW r \in Requests, history[r] \in Seq(Events), NEW ev \in Events,
         history'[r] = Append(history[r], ev)
  PROVE  Moves(r)' = IF ev.action = "update_values"
                     THEN Moves(r) ELSE Moves(r) \cup {NewEvent(r)}
<1> DEFINE D == DOMAIN history[r]
           E == DOMAIN history'[r]
<1>1. /\ E = D \cup {NewEvent(r)} /\ history'[r][NewEvent(r)] = ev
      /\ \A i \in D : history'[r][i] = history[r][i]
  BY Appended
<1>2. Moves(r) = {i \in D : history[r][i].action # "update_values"}
  BY DEF Moves
<1>3. Moves(r)' = {i \in E : history'[r][i].action # "update_values"}
  BY DEF Moves
<1> HIDE DEF D, E
<1> QED
  BY <1>1, <1>2, <1>3
-----------------------------------------------------------------------------
(* The chain of events.                                                    *)

\* The chain is extended by an event that leaves the current status for the next.
LEMMA ExplainedAfterMove ==
  ASSUME NEW r \in Requests, history[r] \in Seq(Events), NEW ev \in Events,
         history'[r] = Append(history[r], ev), ev.action # "update_values",
         ev.from = status[r], ev.to = status'[r],
         IF status[r] = NoRequest THEN history[r] = <<>> ELSE Explained(r)
  PROVE  Explained(r)'
<1> DEFINE n == NewEvent(r)
           M == Moves(r)
           N == Moves(r)'
<1>1. /\ N = M \cup {n} /\ n \in Nat
      /\ history'[r][n] = ev
      /\ \A i \in M : i \in Nat /\ i < n /\ history'[r][i] = history[r][i]
  BY Appended, MovesAfter DEF Moves
<1>2. SUFFICES ASSUME NEW j \in N
               PROVE  /\ (\A i \in N : j <= i) => history'[r][j].from = NoRequest
                      /\ (\A i \in N : i <= j) => history'[r][j].to = status'[r]
                      /\ \A i \in N :
                           i < j /\ (\A k \in N : k <= i \/ j <= k) =>
                             history'[r][j].from = history'[r][i].to
  BY <1>1 DEF Explained
<1>3. CASE status[r] = NoRequest
  <2>1. M = {}
    BY <1>3 DEF Moves
  <2> HIDE DEF M, N, n
  <2>2. j = n /\ \A i \in N : i = n
    BY <1>1, <2>1
  <2>3. history'[r][j].from = NoRequest /\ history'[r][j].to = status'[r]
    BY <1>1, <1>3, <2>2
  <2>4. \A i \in N : ~(i < j)
    BY <1>1, <2>2
  <2> QED
    BY <2>3, <2>4
<1>4. CASE status[r] # NoRequest
  <2>1. /\ M # {}
        /\ \A h \in M :
             /\ (\A i \in M : h <= i) => history[r][h].from = NoRequest
             /\ (\A i \in M : i <= h) => history[r][h].to = status[r]
             /\ \A i \in M :
                  i < h /\ (\A k \in M : k <= i \/ h <= k) => history[r][h].from = history[r][i].to
    BY <1>4 DEF Explained
  <2> HIDE DEF M, N, n
  <2>2. CASE j = n
    <3>1. ASSUME \A i \in N : n <= i
          PROVE  FALSE
      BY <1>1, <2>1, <3>1
    <3>2. ASSUME NEW i \in N, i < n, \A k \in N : k <= i \/ n <= k
          PROVE  history'[r][n].from = history'[r][i].to
      <4>1. i \in M /\ \A k \in M : k <= i
        BY <1>1, <3>2
      <4> QED
        BY <1>1, <2>1, <4>1
    <3> QED
      BY <1>1, <2>2, <3>1, <3>2
  <2>3. CASE j \in M
    <3>1. ASSUME \A i \in N : i <= j
          PROVE  FALSE
      BY <1>1, <2>3, <3>1
    <3>2. ASSUME \A i \in N : j <= i
          PROVE  history'[r][j].from = NoRequest
      BY <1>1, <2>1, <2>3, <3>2
    <3>3. ASSUME NEW i \in N, i < j, \A k \in N : k <= i \/ j <= k
          PROVE  history'[r][j].from = history'[r][i].to
      <4>1. i \in M /\ \A k \in M : k <= i \/ j <= k
        BY <1>1, <2>3, <3>3
      <4> QED
        BY <1>1, <2>1, <2>3, <3>3, <4>1, ZenonT(40)
    <3> QED
      BY <3>1, <3>2, <3>3
  <2> QED
    BY <1>1, <2>2, <2>3
<1> QED
  BY <1>3, <1>4

\* An edit leaves the chain as it is.
LEMMA ExplainedAfterEdit ==
  ASSUME NEW r \in Requests, history[r] \in Seq(Events), NEW ev \in Events,
         history'[r] = Append(history[r], ev), ev.action = "update_values",
         status'[r] = status[r], Explained(r)
  PROVE  Explained(r)'
<1> DEFINE M == Moves(r)
           N == Moves(r)'
<1>1. N = M /\ \A i \in M : history'[r][i] = history[r][i]
  BY Appended, MovesAfter DEF Moves
<1>2. /\ M # {}
      /\ \A j \in M :
           /\ (\A i \in M : j <= i) => history[r][j].from = NoRequest
           /\ (\A i \in M : i <= j) => history[r][j].to = status[r]
           /\ \A i \in M :
                i < j /\ (\A k \in M : k <= i \/ j <= k) => history[r][j].from = history[r][i].to
  BY DEF Explained
<1>3. ASSUME NEW j \in N
      PROVE  /\ (\A i \in N : j <= i) => history'[r][j].from = NoRequest
             /\ (\A i \in N : i <= j) => history'[r][j].to = status'[r]
             /\ \A i \in N :
                  i < j /\ (\A k \in N : k <= i \/ j <= k) => history'[r][j].from = history'[r][i].to
  <2> HIDE DEF M, N
  <2>1. j \in M /\ history'[r][j] = history[r][j]
    BY <1>1, <1>3
  <2>2. ASSUME \A i \in N : j <= i
        PROVE  history'[r][j].from = NoRequest
    BY <1>1, <1>2, <2>1, <2>2
  <2>3. ASSUME \A i \in N : i <= j
        PROVE  history'[r][j].to = status'[r]
    BY <1>1, <1>2, <2>1, <2>3
  <2>4. ASSUME NEW i \in N, i < j, \A k \in N : k <= i \/ j <= k
        PROVE  history'[r][j].from = history'[r][i].to
    BY <1>1, <1>2, <2>1, <2>4, ZenonT(40)
  <2> QED
    BY <2>2, <2>3, <2>4
<1> QED
  BY <1>1, <1>2, <1>3 DEF Explained
-----------------------------------------------------------------------------
(* Counting the decisions.                                                 *)

\* The decisions there were keep their rank; a new one is next.
LEMMA DecisionCount ==
  ASSUME NEW r \in Requests, history[r] \in Seq(Events), NEW ev \in Events,
         history'[r] = Append(history[r], ev), NEW n, n = NewEvent(r)
  PROVE  LET count == Cardinality(DecisionEvents(r)) IN
         /\ count \in Nat
         /\ Cardinality(DecisionEvents(r))' = IF ev.from = "in_approval" THEN count + 1 ELSE count
         /\ \A i \in DecisionEvents(r) :
              Nth(r, i) \in Nat /\ Nth(r, i) <= count /\ Nth(r, i)' = Nth(r, i)
         /\ ev.from = "in_approval" => Nth(r, n)' = count + 1
<1> DEFINE D == DecisionEvents(r)
           E == DecisionEvents(r)'
<1>1. /\ E = IF ev.from = "in_approval" THEN D \cup {n} ELSE D
      /\ n \in Nat /\ \A i \in D : i \in Nat /\ i < n
  BY Appended, DecisionEventsAfter DEF DecisionEvents
<1>2. IsFiniteSet(D) /\ Cardinality(D) \in Nat
  <2>1. Len(history[r]) \in Nat /\ D \subseteq 1..Len(history[r])
    BY DEF DecisionEvents
  <2>2. IsFiniteSet(1..Len(history[r]))
    BY <2>1, FS_Interval
  <2> QED
    BY <2>1, <2>2, FS_Subset, FS_CardinalityType
<1>3. Cardinality(D \cup {n}) = Cardinality(D) + 1
  <2>1. n \notin D
    BY <1>1
  <2> QED
    BY <1>2, <2>1, FS_AddElement
<1>4. ASSUME NEW i \in D
      PROVE  Nth(r, i) \in Nat /\ Nth(r, i) <= Cardinality(D) /\ Nth(r, i)' = Nth(r, i)
  <2>1. {j \in E : j <= i} = {j \in D : j <= i}
    BY <1>1
  <2>2. Nth(r, i) = Cardinality({j \in D : j <= i}) /\ Nth(r, i)' = Cardinality({j \in E : j <= i})
    BY DEF Nth
  <2>3. {j \in D : j <= i} \in SUBSET D
    OBVIOUS
  <2>4. /\ IsFiniteSet({j \in D : j <= i})
        /\ Cardinality({j \in D : j <= i}) <= Cardinality(D)
    BY <1>2, <2>3, FS_Subset
  <2> QED
    BY <2>1, <2>2, <2>4, FS_CardinalityType
<1>5. ASSUME ev.from = "in_approval"
      PROVE  Nth(r, n)' = Cardinality(D) + 1
  <2>1. {j \in E : j <= n} = D \cup {n}
    BY <1>1, <1>5
  <2>2. Nth(r, n)' = Cardinality({j \in E : j <= n})
    BY DEF Nth
  <2> QED
    BY <1>3, <2>1, <2>2
<1>6. Cardinality(D)' = IF ev.from = "in_approval" THEN Cardinality(D) + 1 ELSE Cardinality(D)
  BY <1>1, <1>3
<1> QED
  BY <1>2, <1>4, <1>5, <1>6

\* The batch b of some tasks is decided by u.
Decision(ts, b, u) ==
  /\ \A t \in ts : t.batch = b => t.status = IF t.assignee = u THEN "completed" ELSE "cancelled"
  /\ \E t \in ts : t.batch = b /\ t.assignee = u

\* Decided batches stay decided, the deciding event takes the next one.
LEMMA BatchesAfter ==
  ASSUME NEW r \in Requests, history[r] \in Seq(Events), NEW ev \in Events,
         history'[r] = Append(history[r], ev), BatchesDecided(r),
         NEW count, count = Cardinality(DecisionEvents(r)),
         \A k \in Nat, a \in Users :
           k <= count /\ Decision(tasks[r], k, a) => Decision(tasks'[r], k, a),
         ev.from = "in_approval" => Decision(tasks'[r], count + 1, ev.actor),
         (IF ev.from = "in_approval" THEN count + 1 ELSE count) =
           IF status'[r] = "in_approval" THEN batch'[r] - 1 ELSE batch'[r]
  PROVE  BatchesDecided(r)'
<1>1. PICK n : n = NewEvent(r)
  OBVIOUS
<1>2. /\ Cardinality(DecisionEvents(r))' = IF ev.from = "in_approval" THEN count + 1 ELSE count
      /\ \A i \in DecisionEvents(r) :
           Nth(r, i) \in Nat /\ Nth(r, i) <= count /\ Nth(r, i)' = Nth(r, i)
      /\ ev.from = "in_approval" => Nth(r, n)' = count + 1
  BY <1>1, DecisionCount
<1>3. /\ DecisionEvents(r)' = IF ev.from = "in_approval" THEN DecisionEvents(r) \cup {n} ELSE DecisionEvents(r)
      /\ history'[r][n] = ev
      /\ \A i \in DecisionEvents(r) :
           history'[r][i] = history[r][i] /\ history[r][i].actor \in Users
  <2>1. \A i \in DecisionEvents(r) : i \in DOMAIN history[r]
    BY DEF DecisionEvents
  <2>2. \A e \in Events : e.actor \in Users
    BY DEF Events
  <2> QED
    BY <1>1, <2>1, <2>2, Appended, DecisionEventsAfter
<1>4. ASSUME NEW i \in DecisionEvents(r)'
      PROVE  Decision(tasks'[r], Nth(r, i)', history'[r][i].actor)
  <2>1. CASE i \in DecisionEvents(r)
    <3>1. Decision(tasks[r], Nth(r, i), history[r][i].actor)
      BY <2>1 DEF BatchesDecided, DecidedBy, Decision, BatchOf
    <3> QED
      BY <1>2, <1>3, <2>1, <3>1
  <2>2. CASE i = n /\ ev.from = "in_approval"
    BY <1>2, <1>3, <2>2
  <2> QED
    BY <1>3, <1>4, <2>1, <2>2
<1>5. \A i \in DecisionEvents(r)' : DecidedBy(r, Nth(r, i), history[r][i].actor)'
  BY <1>4 DEF DecidedBy, Decision, BatchOf
<1>6. Cardinality(DecisionEvents(r))' =
        IF status'[r] = "in_approval" THEN batch'[r] - 1 ELSE batch'[r]
  BY <1>2
<1> QED
  BY <1>5, <1>6 DEF BatchesDecided
-----------------------------------------------------------------------------
(* The invariant: a batch is undecided while it is the latest of a request   *)
(* in approval, and then all its tasks are open.                             *)

RequestHistory(r) ==
  /\ \A t \in tasks[r] : t.batch >= 1
  /\ status[r] = "in_approval" => \A t \in tasks[r] : t.batch = batch[r] => t.status = "open"
  /\ IF status[r] = NoRequest THEN history[r] = <<>> ELSE Explained(r)
  /\ BatchesDecided(r)

HistoryInv == EngineInv /\ PatchesSeen /\ \A r \in Requests : RequestHistory(r)

\* The history and the batches of a request follow from its own rows.
LEMMA SameHistory ==
  ASSUME NEW r \in Requests, RequestHistory(r),
         status'[r] = status[r], tasks'[r] = tasks[r], batch'[r] = batch[r],
         history'[r] = history[r]
  PROVE  RequestHistory(r)'
<1>1. Explained(r) => Explained(r)'
  BY DEF Explained, Moves
<1>2. DecisionEvents(r)' = DecisionEvents(r)
  BY DEF DecisionEvents
<1>3. \A i : Nth(r, i)' = Nth(r, i)
  BY <1>2 DEF Nth
<1>4. \A b, u : DecidedBy(r, b, u) => Decision(tasks'[r], b, u)
  BY DEF DecidedBy, Decision, BatchOf
<1>5. \A i \in DecisionEvents(r)' : Decision(tasks'[r], Nth(r, i)', history'[r][i].actor)
  BY <1>2, <1>3, <1>4 DEF RequestHistory, BatchesDecided
<1>6. \A i \in DecisionEvents(r)' : DecidedBy(r, Nth(r, i), history[r][i].actor)'
  BY <1>5 DEF DecidedBy, Decision, BatchOf
<1>7. BatchesDecided(r)'
  BY <1>2, <1>6 DEF BatchesDecided, RequestHistory
<1> QED
  BY <1>1, <1>7 DEF RequestHistory

\* A decision on the latest batch decides it and leaves the earlier ones.
LEMMA LatestBatchDecided ==
  ASSUME TypeOK, NEW u \in Users, NEW r \in Requests, RequestInv(r), RequestHistory(r),
         NEW x \in OpenTasks(u, r), NotSelfApproval(u, r),
         NEW created, \A y \in created : y.batch = batch[r] + 1
  PROVE  /\ status[r] = "in_approval" /\ batch[r] \in Nat
         /\ Decision(CloseStage(r, x) \cup created, batch[r], u)
         /\ \A k \in Nat, a \in Users :
              k < batch[r] /\ Decision(tasks[r], k, a) =>
                Decision(CloseStage(r, x) \cup created, k, a)
         /\ \A y \in CloseStage(r, x) : y.batch >= 1
<1>1. /\ status[r] = "in_approval" /\ x.batch = batch[r] /\ x.stage = stage[r]
      /\ x \in tasks[r] /\ x \in Tasks /\ x.assignee = u /\ x.status = "open" /\ batch[r] \in Nat
  BY NoneOpenAfterClose DEF OpenTasks, TypeOK
<1> DEFINE C == CloseStage(r, x)
<1>2. \A t \in tasks[r] : t \in Tasks /\ t.batch \in Nat /\ t.batch >= 1 /\ t.batch <= batch[r]
  BY DEF TypeOK, Tasks, RequestInv, RequestHistory
<1>3. ASSUME NEW t \in tasks[r], t.batch = batch[r]
      PROVE  Closed(t, x).status = IF t.assignee = u THEN "completed" ELSE "cancelled"
  <2>1. t.status = "open" /\ t.stage = x.stage
    BY <1>1, <1>3 DEF RequestHistory, RequestInv
  <2>2. t.assignee = u => t = x
    BY <1>1, <1>2, <1>3, <2>1 DEF Tasks
  <2>3. t.assignee # u => t # x
    BY <1>1
  <2> QED
    BY <1>2, <2>1, <2>2, <2>3, ClosedTask
<1>4. ASSUME NEW t \in tasks[r], t.batch < batch[r]
      PROVE  Closed(t, x) = t
  <2>1. t # x /\ t.status # "open"
    BY <1>1, <1>2, <1>4 DEF RequestInv
  <2> QED
    BY <1>2, <2>1, ClosedTask
<1>5. \A t \in tasks[r] :
        /\ Closed(t, x) \in C
        /\ Closed(t, x).batch = t.batch /\ Closed(t, x).assignee = t.assignee
  BY <1>2, ClosedTask DEF CloseStage
<1>6. \A y \in C : \E t \in tasks[r] : y = Closed(t, x)
  BY DEF CloseStage
<1> HIDE DEF C
<1>7. \A y \in C : y.batch \in Nat /\ y.batch >= 1 /\ y.batch <= batch[r]
  BY <1>2, <1>5, <1>6
<1>8. Decision(C \cup created, batch[r], u)
  <2>1. ASSUME NEW y \in C \cup created, y.batch = batch[r]
        PROVE  y.status = IF y.assignee = u THEN "completed" ELSE "cancelled"
    BY <1>1, <1>3, <1>5, <1>6, <2>1
  <2>2. Closed(x, x) \in C \cup created /\ Closed(x, x).batch = batch[r] /\ Closed(x, x).assignee = u
    BY <1>1, <1>5
  <2> QED
    BY <2>1, <2>2 DEF Decision
<1>9. ASSUME NEW k \in Nat, NEW a \in Users, k < batch[r], Decision(tasks[r], k, a)
      PROVE  Decision(C \cup created, k, a)
  <2>1. ASSUME NEW y \in C \cup created, y.batch = k
        PROVE  y \in tasks[r]
    BY <1>1, <1>4, <1>5, <1>6, <1>9, <2>1
  <2>2. \A t \in tasks[r] : t.batch = k => t \in C
    BY <1>4, <1>5, <1>9
  <2> QED
    BY <1>9, <2>1, <2>2 DEF Decision
<1> QED
  BY <1>1, <1>7, <1>8, <1>9 DEF C

\* New tasks leave the decided batches.
LEMMA BatchesKept ==
  ASSUME NEW r \in Requests, batch[r] \in Nat, NEW created, \A y \in created : y.batch = batch[r] + 1,
         NEW k \in Nat, k <= batch[r], NEW a, Decision(tasks[r], k, a)
  PROVE  Decision(tasks[r] \cup created, k, a)
BY DEF Decision

\* Every execution keeps the history of its request.
LEMMA StepHistory ==
  ASSUME HistoryInv, NEW u \in Users, NEW r \in Requests, NEW t \in Rows, EngineStep(u, r, t)
  PROVE  RequestHistory(r)'
<1>1. /\ TypeOK /\ RequestInv(r) /\ RequestHistory(r)
      /\ status[r] # NoRequest /\ t.from = status[r]
  BY EngineInvByRequest DEF HistoryInv, EngineStep
<1>2. /\ history[r] \in Seq(Events) /\ batch[r] \in Nat
      /\ \A y \in tasks[r] : y.batch \in Nat /\ y.batch <= batch[r]
  BY <1>1 DEF TypeOK, Tasks, RequestInv
<1>a. batch[r] \in Nat
  BY <1>2
<1>b. \A s \in Stages, who \in Rounds :
        /\ NewTasks(r, s, who) # {}
        /\ \A y \in NewTasks(r, s, who) :
             y.batch = batch[r] + 1 /\ y.stage = s /\ y.status = "open"
  BY <1>a, CreatedTasks
<1>3. PICK ev \in Events :
        /\ ev.actor = u /\ ev.action = t.action /\ ev.from = status[r] /\ ev.to = status'[r]
        /\ history'[r] = Append(history[r], ev) /\ status'[r] \in Statuses
  BY <1>1, StepEvent
<1>4. Explained(r)' /\ status'[r] # NoRequest
  <2>1. ev.action # "update_values"
    BY <1>3, RowFacts, ActionsAssumption
  <2> QED
    BY <1>1, <1>2, <1>3, <2>1, ExplainedAfterMove DEF RequestHistory, Statuses, NoRequest
<1> DEFINE count == Cardinality(DecisionEvents(r))
<1>5. /\ count \in Nat /\ BatchesDecided(r)
      /\ count = IF status[r] = "in_approval" THEN batch[r] - 1 ELSE batch[r]
  <2>1. PICK n : n = NewEvent(r)
    OBVIOUS
  <2> QED
    BY <1>1, <1>2, <1>3, <2>1, DecisionCount DEF RequestHistory, BatchesDecided
<1>6. SUFFICES /\ \A y \in tasks'[r] : y.batch >= 1
               /\ status'[r] = "in_approval" => \A y \in tasks'[r] : y.batch = batch'[r] => y.status = "open"
               /\ \A k \in Nat, a \in Users :
                    k <= count /\ Decision(tasks[r], k, a) => Decision(tasks'[r], k, a)
               /\ status[r] = "in_approval" => Decision(tasks'[r], count + 1, u)
               /\ (IF status[r] = "in_approval" THEN count + 1 ELSE count) =
                    IF status'[r] = "in_approval" THEN batch'[r] - 1 ELSE batch'[r]
  <2> HIDE DEF count
  <2>1. BatchesDecided(r)'
    BY <1>2, <1>3, <1>5, <1>6, BatchesAfter DEF count
  <2> QED
    BY <1>4, <1>6, <2>1 DEF RequestHistory
<1> HIDE DEF count
<1>7. CASE AskStep(u, r, t) \/ MoveStep(u, r, t)
  <2>1. PICK created, to, s :
          /\ Update(u, r, t.action, to, s, NoTask, tasks[r], created)
          /\ \A y \in created : y.batch = batch[r] + 1 /\ y.status = "open"
          /\ IF created = {} THEN to # "in_approval" ELSE to = "in_approval"
    <3>1. CASE AskStep(u, r, t)
      <4>1. PICK s \in Stages, who \in Rounds :
              Update(u, r, t.action, "in_approval", s, NoTask, tasks[r], NewTasks(r, s, who))
        BY <3>1 DEF AskStep
      <4>2. /\ NewTasks(r, s, who) # {}
            /\ \A y \in NewTasks(r, s, who) : y.batch = batch[r] + 1 /\ y.stage = s /\ y.status = "open"
        BY <1>b
      <4> WITNESS NewTasks(r, s, who), "in_approval", s
      <4> QED
        BY <4>1, <4>2
    <3>2. CASE MoveStep(u, r, t)
      BY <3>2 DEF MoveStep
    <3> QED
      BY <1>7, <3>1, <3>2
  <2>2. /\ status'[r] = to /\ tasks'[r] = tasks[r] \cup created
        /\ batch'[r] = IF created = {} THEN batch[r] ELSE batch[r] + 1
    BY <1>1, <2>1, UpdatedRequest
  <2>3. status[r] # "in_approval"
    BY <1>1, <1>7, NoneOpenElsewhere DEF AskStep, MoveStep
  <2>4. \A k \in Nat, a \in Users :
          k <= batch[r] /\ Decision(tasks[r], k, a) => Decision(tasks[r] \cup created, k, a)
    BY <1>2, <2>1, BatchesKept
  <2>5. \A y \in tasks'[r] : y.batch >= 1
    BY <1>1, <1>2, <2>1, <2>2 DEF RequestHistory
  <2>6. status'[r] = "in_approval" => \A y \in tasks'[r] : y.batch = batch'[r] => y.status = "open"
    BY <1>2, <2>1, <2>2
  <2>7. count = batch[r] /\ batch'[r] = IF status'[r] = "in_approval" THEN batch[r] + 1 ELSE batch[r]
    BY <1>5, <2>1, <2>2, <2>3
  <2>8. count = IF status'[r] = "in_approval" THEN batch'[r] - 1 ELSE batch'[r]
    BY <1>a, <2>7
  <2>9. \A k \in Nat, a \in Users :
          k <= count /\ Decision(tasks[r], k, a) => Decision(tasks'[r], k, a)
    BY <2>2, <2>4, <2>7
  <2> QED
    BY <2>3, <2>5, <2>6, <2>8, <2>9
<1>8. CASE PassStep(u, r, t) \/ FinalStep(u, r, t) \/ RefuseStep(u, r, t)
  <2>c. PICK x \in OpenTasks(u, r) : \E created, to, s :
          /\ Update(u, r, t.action, to, s, Key(x), CloseStage(r, x), created)
          /\ \A y \in created : y.batch = batch[r] + 1 /\ y.status = "open"
          /\ IF created = {} THEN to # "in_approval" ELSE to = "in_approval"
    <3>1. CASE PassStep(u, r, t)
      <4>1. PICK x \in OpenTasks(u, r), s \in Stages, who \in Rounds :
              Update(u, r, t.action, "in_approval", s, Key(x), CloseStage(r, x), NewTasks(r, s, who))
        BY <3>1 DEF PassStep
      <4>2. /\ NewTasks(r, s, who) # {}
            /\ \A y \in NewTasks(r, s, who) : y.batch = batch[r] + 1 /\ y.stage = s /\ y.status = "open"
        BY <1>b
      <4> WITNESS x \in OpenTasks(u, r)
      <4> WITNESS NewTasks(r, s, who), "in_approval", s
      <4> QED
        BY <4>1, <4>2
    <3>2. CASE FinalStep(u, r, t) \/ RefuseStep(u, r, t)
      <4>1. t.to # "in_approval"
        BY <3>2, RowFacts DEF FinalStep, RefuseStep
      <4>2. PICK x \in OpenTasks(u, r) :
              \E s : Update(u, r, t.action, t.to, s, Key(x), CloseStage(r, x), {})
        BY <3>2 DEF FinalStep, RefuseStep
      <4>3. PICK s : Update(u, r, t.action, t.to, s, Key(x), CloseStage(r, x), {})
        BY <4>2
      <4> WITNESS x \in OpenTasks(u, r)
      <4> WITNESS {}, t.to, s
      <4> QED
        BY <4>1, <4>3
    <3> QED
      BY <1>8, <3>1, <3>2
  <2>1. PICK created, to, s :
          /\ Update(u, r, t.action, to, s, Key(x), CloseStage(r, x), created)
          /\ \A y \in created : y.batch = batch[r] + 1 /\ y.status = "open"
          /\ IF created = {} THEN to # "in_approval" ELSE to = "in_approval"
    BY <2>c
  <2>2. /\ status'[r] = to /\ tasks'[r] = CloseStage(r, x) \cup created
        /\ batch'[r] = IF created = {} THEN batch[r] ELSE batch[r] + 1
    BY <1>1, <2>1, UpdatedRequest
  <2>3. NotSelfApproval(u, r)
    BY <1>8 DEF PassStep, FinalStep, RefuseStep
  <2> DEFINE after == CloseStage(r, x) \cup created
  <2>a. \A y \in created : y.batch = batch[r] + 1
    BY <2>1
  <2>4. /\ status[r] = "in_approval"
        /\ Decision(after, batch[r], u)
        /\ \A k \in Nat, a \in Users :
             k < batch[r] /\ Decision(tasks[r], k, a) => Decision(after, k, a)
        /\ \A y \in CloseStage(r, x) : y.batch >= 1
    BY <1>1, <2>3, <2>a, LatestBatchDecided
  <2>b. tasks'[r] = after
    BY <2>2
  <2> HIDE DEF after
  <2>5. \A y \in CloseStage(r, x) : y.batch <= batch[r] /\ y.batch \in Nat
    <3>1. CloseStage(r, x) \in SUBSET Tasks
      BY <1>1, ClosedStage DEF TypeOK
    <3> QED
      BY <1>1, <2>3, <3>1, NoneOpenAfterClose DEF Tasks
  <2>6. \A y \in tasks'[r] : y.batch >= 1
    BY <1>a, <2>1, <2>2, <2>4
  <2>7. status'[r] = "in_approval" => \A y \in tasks'[r] : y.batch = batch'[r] => y.status = "open"
    BY <1>2, <2>1, <2>2, <2>5
  <2>8. count + 1 = batch[r]
    BY <1>2, <1>5, <2>4
  <2>9. \A k \in Nat, a \in Users :
          k <= count /\ Decision(tasks[r], k, a) => Decision(tasks'[r], k, a)
    <3>1. \A k \in Nat : k <= count => k < batch[r]
      BY <1>a, <1>5, <2>8
    <3> QED
      BY <2>4, <2>b, <3>1
  <2>10. Decision(tasks'[r], count + 1, u)
    BY <2>4, <2>8, <2>b
  <2>11. batch'[r] = IF status'[r] = "in_approval" THEN batch[r] + 1 ELSE batch[r]
    BY <2>1, <2>2
  <2>12. count + 1 = IF status'[r] = "in_approval" THEN batch'[r] - 1 ELSE batch'[r]
    BY <1>a, <2>8, <2>11
  <2> QED
    BY <2>4, <2>6, <2>7, <2>9, <2>10, <2>12
<1> QED
  BY <1>7, <1>8 DEF EngineStep

\* create_draft starts the history of its request.
LEMMA CreateHistory ==
  ASSUME HistoryInv, NEW u \in Users, NEW r \in Requests, NEW write \in Writes,
         Create(u, r, write)
  PROVE  RequestHistory(r)'
<1>1. TypeOK /\ RequestHistory(r)
  BY DEF HistoryInv, EngineInv
<1>2. status[r] = NoRequest /\ status'[r] = "draft" /\ tasks' = tasks /\ batch' = batch
  <2>1. status[r] = NoRequest /\ status'[r] = "draft"
    BY <1>1, CreateEvent
  <2>2. tasks' = tasks /\ batch' = batch
    BY DEF Create
  <2> QED
    BY <2>1, <2>2
<1>3. history[r] \in Seq(Events) /\ batch[r] \in Nat
  BY <1>1 DEF TypeOK
<1>4. PICK ev \in Events :
        /\ ev.action = "create" /\ ev.from = NoRequest /\ ev.to = "draft"
        /\ history'[r] = Append(history[r], ev)
  BY <1>1, CreateEvent
<1>5. Explained(r)'
  BY <1>1, <1>2, <1>3, <1>4, ExplainedAfterMove DEF RequestHistory
<1>6. BatchesDecided(r)'
  <2>1. PICK count : count = Cardinality(DecisionEvents(r))
    OBVIOUS
  <2>2. count = batch[r] /\ BatchesDecided(r)
    BY <1>1, <1>2, <2>1 DEF RequestHistory, BatchesDecided, NoRequest
  <2> QED
    BY <1>2, <1>3, <1>4, <2>1, <2>2, BatchesAfter DEF NoRequest
<1> QED
  BY <1>1, <1>2, <1>5, <1>6 DEF RequestHistory, NoRequest

\* The edit that a PATCH commits explains nothing and decides nothing.
LEMMA CommitHistory ==
  ASSUME HistoryInv, NEW w \in Workers, PatchCommit(w)
  PROVE  \A r \in Requests : RequestHistory(r)'
<1> DEFINE p == patch[w]
<1>1. TypeOK /\ \A r \in Requests : RequestHistory(r)
  BY DEF HistoryInv, EngineInv
<1>2. UNCHANGED <<status, tasks, batch>> /\ p # NoPatch
  BY DEF PatchCommit
<1>3. /\ p \in Patches /\ p.seen \in Editable /\ status[p.req] # NoRequest
  BY <1>1, <1>2, PatchEvent DEF HistoryInv, PatchesSeen
<1>4. PICK r \in Requests : r = p.req
  BY <1>3 DEF Patches
<1>5. PICK ev \in Events :
        /\ ev.action = "update_values" /\ ev.from \in Editable
        /\ history'[r] = Append(history[r], ev)
  BY <1>1, <1>3, <1>4, PatchEvent
<1> HIDE DEF p
<1>6. ASSUME NEW q \in Requests, q # r
      PROVE  RequestHistory(q)'
  <2>1. history'[q] = history[q]
    BY <1>1, <1>4, <1>6, PatchEvent DEF p
  <2> QED
    BY <1>1, <1>2, <2>1, SameHistory
<1>7. RequestHistory(r) /\ Explained(r) /\ history[r] \in Seq(Events)
  BY <1>1, <1>3, <1>4 DEF RequestHistory, TypeOK
<1>8. Explained(r)'
  BY <1>2, <1>5, <1>7, ExplainedAfterEdit
<1>9. BatchesDecided(r)'
  <2>1. PICK count : count = Cardinality(DecisionEvents(r))
    OBVIOUS
  <2>2. BatchesDecided(r) /\ count = IF status[r] = "in_approval" THEN batch[r] - 1 ELSE batch[r]
    BY <1>7, <2>1 DEF RequestHistory, BatchesDecided
  <2>3. ev.from # "in_approval" /\ status'[r] = status[r] /\ tasks'[r] = tasks[r] /\ batch'[r] = batch[r]
    BY <1>2, <1>5 DEF Editable
  <2> QED
    BY <1>5, <1>7, <2>1, <2>2, <2>3, BatchesAfter
<1>10. RequestHistory(r)'
  BY <1>2, <1>3, <1>4, <1>7, <1>8, <1>9 DEF RequestHistory
<1> QED
  BY <1>6, <1>10

\* No request has a history at first.
LEMMA InitHistory == Init => HistoryInv
<1> SUFFICES ASSUME Init
             PROVE  HistoryInv
  OBVIOUS
<1>1. EngineInv /\ PatchesSeen
  BY InitInv DEF Init, PatchesSeen
<1>2. ASSUME NEW r \in Requests
      PROVE  RequestHistory(r)
  <2>1. /\ status[r] = NoRequest /\ tasks[r] = {} /\ batch[r] = 0 /\ history[r] = <<>>
    BY DEF Init
  <2>2. DecisionEvents(r) = {}
    BY <2>1 DEF DecisionEvents
  <2>3. Cardinality(DecisionEvents(r)) = 0
    BY <2>2, FS_EmptySet
  <2> QED
    BY <2>1, <2>2, <2>3 DEF RequestHistory, BatchesDecided, NoRequest
<1> QED
  BY <1>1, <1>2 DEF HistoryInv

\* Every step keeps the histories.
LEMMA NextHistory == HistoryInv /\ [StepNext]_vars => HistoryInv'
<1> SUFFICES ASSUME HistoryInv, [StepNext]_vars
             PROVE  \A q \in Requests : RequestHistory(q)'
  BY NextInv, NextPatchesSeen DEF HistoryInv, EngineInv
<1>1. TypeOK /\ \A q \in Requests : RequestHistory(q)
  BY DEF HistoryInv, EngineInv
<1>2. ASSUME NEW u \in Users, NEW r \in Requests, NEW t \in Rows, EngineStep(u, r, t),
             NEW q \in Requests
      PROVE  RequestHistory(q)'
  <2>1. CASE q = r
    BY <1>2, <2>1, StepHistory
  <2>2. CASE q # r
    <3>1. status'[q] = status[q] /\ tasks'[q] = tasks[q] /\ batch'[q] = batch[q] /\ history'[q] = history[q]
      BY <1>1, <1>2, <2>2, StepEvent
    <3> QED
      BY <1>1, <3>1, SameHistory
  <2> QED
    BY <2>1, <2>2
<1>3. ASSUME NEW u \in Users, NEW r \in Requests, NEW write \in Writes, Create(u, r, write),
             NEW q \in Requests
      PROVE  RequestHistory(q)'
  <2>1. CASE q = r
    BY <1>3, <2>1, CreateHistory
  <2>2. CASE q # r
    <3>1. status'[q] = status[q] /\ history'[q] = history[q]
      BY <1>1, <1>3, <2>2, CreateEvent
    <3>2. tasks' = tasks /\ batch' = batch
      BY <1>3 DEF Create
    <3> QED
      BY <1>1, <3>1, <3>2, SameHistory
  <2> QED
    BY <2>1, <2>2
<1>4. ASSUME UNCHANGED <<status, tasks, batch, history>>
      PROVE  \A q \in Requests : RequestHistory(q)'
  BY <1>1, <1>4, SameHistory
<1>5. ASSUME NEW w \in Workers, NEW u \in Users, NEW r \in Requests, NEW write \in Writes,
             PatchRead(w, u, r, write)
      PROVE  \A q \in Requests : RequestHistory(q)'
  BY <1>4, <1>5 DEF PatchRead, requestVars
<1>6. ASSUME NEW w \in Workers, PatchRollback(w)
      PROVE  \A q \in Requests : RequestHistory(q)'
  BY <1>4, <1>6 DEF PatchRollback, requestVars
<1>7. ASSUME NEW c \in Configs, Reconfigure(c)
      PROVE  \A q \in Requests : RequestHistory(q)'
  BY <1>4, <1>7 DEF Reconfigure, requestVars
<1>8. CASE UNCHANGED vars
  BY <1>4, <1>8 DEF vars, requestVars
<1> QED
  BY <1>2, <1>3, <1>5, <1>6, <1>7, <1>8, CommitHistory DEF StepNext

\* In every reachable state the histories explain the requests and their batches.
THEOREM StepHistories == StepSpec => []HistoryInv
<1>1. Init => HistoryInv
  BY InitHistory
<1>2. HistoryInv /\ [StepNext]_vars => HistoryInv'
  BY NextHistory
<1> QED
  BY <1>1, <1>2, PTL DEF StepSpec

\* What the invariant says of histories and of batches.
LEMMA HistoryImplies == HistoryInv => HistoryExplainsStatus /\ DecisionsCloseBatches
BY DEF HistoryInv, RequestHistory, HistoryExplainsStatus, DecisionsCloseBatches

\* The events of a request, edits aside, lead from its creation to its current status
\* without a gap, whatever PATCH calls and executions come between.
THEOREM HistoryComplete == Spec => []HistoryExplainsStatus
BY EngineTakesSteps, StepHistories, HistoryImplies, PTL

\* BR-03, BR-15: the decisions in the history are one for each batch of tasks, in
\* order; the actor completed the only completed task of it and the rest were cancelled.
THEOREM OneDecisionPerBatch == Spec => []DecisionsCloseBatches
BY EngineTakesSteps, StepHistories, HistoryImplies, PTL
=============================================================================
