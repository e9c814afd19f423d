\* One request at a time; the draft is registered again.
CONSTANTS
  Clients = {k1, k2}
  Connectors = {c1}
  Analysis <- MCAnalysis
  Edits <- FewEdits
  MaxInFlight = 1
  MaxUploads = 2
  MaxRevision = 1
  MaxVersion = 2
SYMMETRY Symmetry
SPECIFICATION Spec
INVARIANTS
  AcceptedDraftWasRead
