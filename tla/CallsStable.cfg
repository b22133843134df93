\* Two pages and a PATCH worker; one stage that two approvers share.
CONSTANTS
  emp = emp
  a1 = a1
  a2 = a2
  Users <- MCUsers
  Requests = {r1}
  ActionCodes = {"submit", "cancel", "approve", "reject", "return", "rework"}
  Fields = {f1}
  Vals = {v1}
  Null = Null
  NoRow = NoRow
  Workers = {w1}
  NoPatch = NoPatch
  Configs <- FieldConfigs
  MaxEvents = 4
  Clients = {c1, c2}
  Free = Free
  Idle = Idle
  MaxClicks = 1
SPECIFICATION StableCallsSpec
INVARIANTS
  LoserGetsTaskDone
PROPERTIES
  CallsSettle
  CallsRefineEngine
CHECK_DEADLOCK FALSE
