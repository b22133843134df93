\* Two pages while the configuration changes between the steps of a call.
CONSTANTS
  emp = emp
  a1 = a1
  a2 = a2
  Users <- MCUsers
  Requests = {r1}
  ActionCodes = {"submit", "cancel", "approve", "reject", "return", "rework"}
  Fields = {}
  Vals = {}
  Null = Null
  NoRow = NoRow
  Workers = {}
  NoPatch = NoPatch
  Configs <- ChangingConfigs
  MaxEvents = 4
  Clients = {c1, c2}
  Free = Free
  Idle = Idle
  MaxClicks = 2
SPECIFICATION CallsSpec
SYMMETRY Symmetry
INVARIANTS
  PreparedReadsHold
  OpenTasksAtCurrentStage
  DecisionsCloseBatches
  NoSelfApproval
CHECK_DEADLOCK FALSE
