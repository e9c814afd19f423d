\* Requests one at a time: what optimistic concurrency promises.
CONSTANTS
  Clients = {k1, k2}
  Connectors = {c1, c2}
  Analysis <- MCAnalysis
  Edits <- MCEdits
  MaxInFlight = 1
  MaxUploads = 2
  MaxRevision = 2
  MaxVersion = 3
SYMMETRY Symmetry
SPECIFICATION Spec
INVARIANTS
  RevisionIdentifiesContent
  VersionsIncrease
