\* Configurations that change while requests are open, without PATCH calls.
CONSTANTS
  emp = emp
  a1 = a1
  a2 = a2
  Users <- MCUsers
  Requests = {r1}
  ActionCodes = {"submit", "cancel", "approve", "reject", "return", "rework"}
  Fields = {}
  Vals = {}
  Null = Null
  NoRow = NoRow
  Workers = {}
  NoPatch = NoPatch
  Configs <- LiveConfigs
  MaxEvents = 6
SPECIFICATION Spec
INVARIANTS
  OpenTasksAtCurrentStage
  InApprovalHasOpenTask
  StagePresence
  DecisionsCloseBatches
  NoSelfApproval
  HistoryExplainsStatus
PROPERTIES
  ClosedTasksStay
  ChangesAreRecorded
  ExecutedWasVisible
  KeepsLifecycle
CHECK_DEADLOCK FALSE
