\* Two publications of one draft overlap.
CONSTANTS
  Clients = {k1, k2}
  Connectors = {c1}
  Analysis <- MCAnalysis
  Edits <- FewEdits
  MaxInFlight = 2
  MaxUploads = 2
  MaxRevision = 1
  MaxVersion = 2
SYMMETRY Symmetry
SPECIFICATION Spec
INVARIANTS
  VersionsIncrease
