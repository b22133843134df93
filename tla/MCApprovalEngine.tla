-------------------------- MODULE MCApprovalEngine --------------------------
(* Small instances of ApprovalEngine for TLC: an employee and two approvers. *)
EXTENDS ApprovalEngine, TLC

CONSTANTS emp, a1, a2

MCUsers == {emp, a1, a2}

T(sort, action, from, to, effect, role) ==
  [from |-> from, action |-> action, role |-> role, to |-> to, effect |-> effect, sort |-> sort]

\* TRANSITION_SPECS of app/db/seed.py.
SeedMatrix ==
  { T(10, "submit", "draft", "in_approval", "status_only", "employee"),
    T(20, "submit", "returned", "in_approval", "status_only", "employee"),
    T(30, "cancel", "draft", "cancelled", "status_only", "employee"),
    T(40, "cancel", "returned", "cancelled", "status_only", "employee"),
    T(50, "approve", "in_approval", "approved", "approve_advance", "approver"),
    T(60, "reject", "in_approval", "rejected", "status_only", "approver"),
    T(70, "return", "in_approval", "returned", "status_only", "approver") }

\* A rejected request may be reworked; a second "submit" row comes after the first.
ReworkMatrix ==
  SeedMatrix \cup { T(80, "rework", "rejected", "draft", "status_only", "employee"),
                    T(90, "submit", "draft", "cancelled", "status_only", "employee") }

ToUser(u) == [kind |-> "user", user |-> u]
ToRole(c) == [kind |-> "role", role |-> c]
ToBoth(c, u) == [kind |-> "role_and_user", role |-> c, user |-> u]

SeedRole == (emp :> "employee") @@ (a1 :> "approver") @@ (a2 :> "approver")

\* One stage for the approvers, everything active, no field required.
Base ==
  [stages |-> {1},
   number |-> <<1, 2>>,
   assigned |-> <<{ToRole("approver")}>>,
   role |-> SeedRole,
   activeUsers |-> MCUsers,
   typeActive |-> TRUE,
   required |-> {},
   accepts |-> [f \in Fields |-> Vals],
   transitions |-> SeedMatrix]

TwoStages ==
  [Base EXCEPT !.stages = {1, 2}, !.assigned = <<{ToUser(a1)}, {ToRole("approver")}>>]

\* Configurations that stay as they are.
StableConfigs ==
  { [TwoStages EXCEPT !.transitions = ReworkMatrix],
    [TwoStages EXCEPT !.assigned = <<{ToRole("approver")}, {ToUser(a2), ToBoth("approver", a1)}>>],
    [Base EXCEPT !.stages = {2}, !.assigned = <<{}, {ToRole("approver")}>>, !.activeUsers = {emp, a1}],
    [TwoStages EXCEPT !.number = <<2, 1>>, !.activeUsers = {emp, a1},
                      !.assigned = <<{ToUser(a2), ToRole("approver")}, {ToUser(a1)}>>],
    [Base EXCEPT !.activeUsers = {emp}],
    [Base EXCEPT !.stages = {}] }

\* Configurations an administrator moves between while requests are in approval.
LiveConfigs ==
  { Base,
    TwoStages,
    [TwoStages EXCEPT !.assigned = <<{ToRole("approver")}, {}>>, !.typeActive = FALSE],
    [Base EXCEPT !.role = [SeedRole EXCEPT ![emp] = "approver"]],
    [TwoStages EXCEPT !.number = <<2, 1>>],
    [Base EXCEPT !.assigned = <<{ToUser(emp), ToRole("approver")}>>] }

FieldConfigs == { [Base EXCEPT !.required = Fields] }

\* The rows of these configurations are what the theorems suppose of them.
ASSUME NamedConfigs == NamedActions
ASSUME SeedLikeConfigs == OnlyAdvanceApproves /\ ApproversDecide
=============================================================================
