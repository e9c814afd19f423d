\* An edit overlaps a publication and another connector's registration.
CONSTANTS
  Clients = {k1, k2}
  Connectors = {c1, c2}
  Analysis <- MCAnalysis
  Edits <- FewEdits
  MaxInFlight = 2
  MaxUploads = 2
  MaxRevision = 1
  MaxVersion = 2
SYMMETRY Symmetry
SPECIFICATION Spec
PROPERTIES
  EditsStayHome
