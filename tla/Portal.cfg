\* One tab, two types, six clicks and one change on the server.
CONSTANTS
  Types = {"a", "b"}
  Roles = {"employee", "approver"}
  Filters = {"", "draft"}
  MaxClicks = 6
  MaxLoads = 3
  MaxEvents = 1
SPECIFICATION Spec
INVARIANT ListMatchesFilter
INVARIANT FormFollowsSelection
INVARIANT SubmissionsBounded
INVARIANT ReadYourWrites
PROPERTY TabSettles
CHECK_DEADLOCK FALSE
