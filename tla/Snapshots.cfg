\* Two racing administrators, one deployment: requests start up to
\* revision 2, and those already running may write beyond it.
CONSTANTS
  Requests = {r1, r2}
  Deployments = {d1}
  Artifacts <- MCArtifacts
  Selections <- MCSelections
  MaxRevision = 2
SPECIFICATION Spec
INVARIANTS
  RevisionsContiguous
  OneActive
PROPERTIES
  SnapshotsImmutable
  ServedNeverRegresses
  PinsAdmissible
  LogRefinement
