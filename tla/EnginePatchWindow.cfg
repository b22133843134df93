\* A PATCH whose status check is overtaken by a submission.
CONSTANTS
  emp = emp
  a1 = a1
  a2 = a2
  Users <- MCUsers
  Requests = {r1}
  ActionCodes = {"submit", "cancel", "approve", "reject", "return", "rework"}
  Fields = {f1}
  Vals = {v1}
  Null = Null
  NoRow = NoRow
  Workers = {w1, w2}
  NoPatch = NoPatch
  Configs <- FieldConfigs
  MaxEvents = 3
SPECIFICATION Spec
PROPERTIES
  EditedOnlyWhileEditable
CHECK_DEADLOCK FALSE
