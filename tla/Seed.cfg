\* Two runs over a fresh, a migrated and a seeded database, and one edit.
CONSTANTS
  Runners = {"a", "b"}
  Initial <- MCInitial
  Editable = {"users", "request_types", "stage_assignments"}
  Kept <- MCKept
  MaxEdits = 1
SPECIFICATION Spec
INVARIANT OnlyDepartmentsTwice
PROPERTY SeedInstalls
PROPERTY RerunChangesNothing
PROPERTY RunsEnd
