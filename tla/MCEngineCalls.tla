---------------------------- MODULE MCEngineCalls ----------------------------
(* Small instances of EngineCalls for TLC.                                 *)
EXTENDS EngineCalls, MCApprovalEngine

\* Pages are interchangeable.
Symmetry == Permutations(Clients)

\* One stage that both approvers may decide.
OneStageConfigs == {Base}

\* a1 and a2 share the first stage, a1 has the second one.
SharedThenOne ==
  [TwoStages EXCEPT !.assigned = <<{ToRole("approver")}, {ToUser(a1)}>>]
TwoStageConfigs == {SharedThenOne}

\* Stages, roles, active users and actions that change while sessions are open.
ChangingConfigs ==
  { Base,
    TwoStages,
    [TwoStages EXCEPT !.number = <<2, 1>>],
    [Base EXCEPT !.role = [SeedRole EXCEPT ![emp] = "approver"]],
    [Base EXCEPT !.activeUsers = {emp, a2}, !.assigned = <<{ToUser(a1), ToUser(a2)}>>,
                 !.transitions = {t \in SeedMatrix : t.action # "approve"}] }

\* The instance with one stage is what the theorem about it supposes.
ASSUME OneRoundConfigs == \A c \in FieldConfigs : DecidedInOneRound(c)
=============================================================================
