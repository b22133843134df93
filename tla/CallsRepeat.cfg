\* One approver is assigned to both stages.
CONSTANTS
  emp = emp
  a1 = a1
  a2 = a2
  Users <- MCUsers
  Requests = {r1}
  ActionCodes = {"submit", "cancel", "approve", "reject", "return", "rework"}
  Fields = {}
  Vals = {}
  Null = Null
  NoRow = NoRow
  Workers = {}
  NoPatch = NoPatch
  Configs <- TwoStageConfigs
  MaxEvents = 5
  Clients = {c1, c2}
  Free = Free
  Idle = Idle
  MaxClicks = 2
SPECIFICATION CallsSpec
SYMMETRY Symmetry
INVARIANT
  RepeatIsRefused
CHECK_DEADLOCK FALSE
