\* Configurations that stay, without PATCH calls.
CONSTANTS
  emp = emp
  a1 = a1
  a2 = a2
  Users <- MCUsers
  Requests = {r1}
  ActionCodes = {"submit", "cancel", "approve", "reject", "return", "rework"}
  Fields = {}
  Vals = {}
  Null = Null
  NoRow = NoRow
  Workers = {}
  NoPatch = NoPatch
  Configs <- StableConfigs
  MaxEvents = 9
SPECIFICATION StableSpec
INVARIANTS
  TypeOK
  DecisionsCommented
  EveryoneNotified
  ApprovedByEveryStage
  Decidable
CHECK_DEADLOCK FALSE
