-------------------------- MODULE RequestLifecycle --------------------------
(***************************************************************************)
(* What the service promises of a request, without stages, tasks or a      *)
(* configuration: who may decide it now, that one decision of theirs uses   *)
(* the whole round up, and that nothing else ends an approval.              *)
(***************************************************************************)
CONSTANTS Users, Requests, Statuses, NoRequest, Null

VARIABLES
  status,     \* of each request
  initiator,
  pending,    \* the users who are asked to decide
  decided     \* the users who have decided, in this round or an earlier one

vars == <<status, initiator, pending, decided>>

InApproval(r) == status[r] = "in_approval"
Settled(r) == status[r] \notin {NoRequest, "in_approval"}
Rounds == (SUBSET Users) \ {{}}

\* The initiator files a draft.
File(u, r) ==
  /\ status[r] = NoRequest
  /\ status' = [status EXCEPT ![r] = "draft"]
  /\ initiator' = [initiator EXCEPT ![r] = u]
  /\ UNCHANGED <<pending, decided>>

\* The request is put before some users, at least one.
Ask(r, round) ==
  /\ Settled(r)
  /\ status' = [status EXCEPT ![r] = "in_approval"]
  /\ pending' = [pending EXCEPT ![r] = round]
  /\ UNCHANGED <<initiator, decided>>

\* One of the users asked, other than the initiator, decides.
Decide(u, r) ==
  /\ InApproval(r)
  /\ u \in pending[r]
  /\ u # initiator[r]
  /\ decided' = [decided EXCEPT ![r] = @ \cup {u}]

\* A decision passes the request on to others.
PassOn(u, r, round) ==
  /\ Decide(u, r)
  /\ pending' = [pending EXCEPT ![r] = round]
  /\ UNCHANGED <<status, initiator>>

\* A decision ends the approval.
Conclude(u, r, to) ==
  /\ Decide(u, r)
  /\ status' = [status EXCEPT ![r] = to]
  /\ pending' = [pending EXCEPT ![r] = {}]
  /\ UNCHANGED initiator

\* Withdrawal, rework: outside an approval the status may move by itself.
Move(r, to) ==
  /\ Settled(r)
  /\ status' = [status EXCEPT ![r] = to]
  /\ UNCHANGED <<initiator, pending, decided>>

Init ==
  /\ status = [r \in Requests |-> NoRequest]
  /\ initiator = [r \in Requests |-> Null]
  /\ pending = [r \in Requests |-> {}]
  /\ decided = [r \in Requests |-> {}]

Next ==
  \E r \in Requests :
    \/ \E u \in Users : File(u, r)
    \/ \E round \in Rounds :
         Ask(r, round) \/ \E u \in Users : PassOn(u, r, round)
    \/ \E to \in Statuses \ {"in_approval"} :
         Move(r, to) \/ \E u \in Users : Conclude(u, r, to)

Spec == Init /\ [][Next]_vars
=============================================================================
