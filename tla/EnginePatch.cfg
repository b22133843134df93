\* Two concurrent PATCH calls against each other and against the engine.
CONSTANTS
  emp = emp
  a1 = a1
  a2 = a2
  Users <- MCUsers
  Requests = {r1}
  ActionCodes = {"submit", "cancel", "approve", "reject", "return", "rework"}
  Fields = {f1, f2}
  Vals = {v1}
  Null = Null
  NoRow = NoRow
  Workers = {w1, w2}
  NoPatch = NoPatch
  Configs <- FieldConfigs
  MaxEvents = 3
SPECIFICATION Spec
PROPERTIES
  OmittedFieldsStay
  OnlyStaleWritesLost
CHECK_DEADLOCK FALSE
