\* Two edits of one draft overlap.
CONSTANTS
  Clients = {k1, k2}
  Connectors = {c1}
  Analysis <- MCAnalysis
  Edits <- FewEdits
  MaxInFlight = 2
  MaxUploads = 1
  MaxRevision = 1
  MaxVersion = 1
SYMMETRY Symmetry
SPECIFICATION Spec
INVARIANTS
  RevisionIdentifiesContent
