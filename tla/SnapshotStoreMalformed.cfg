\* One thread and one answer that is not JSON.
CONSTANTS
  Threads = {t1}
  Faults = {"malformed"}
  MaxRevision = 1
SPECIFICATION Spec
INVARIANTS
  RefusedOnlyWhenEmpty
