\* Two requests at once over two revisions.  Requests that are answered or
\* refused take no further step.
CONSTANTS
  Requests = {r1, r2}
  Catalog <- MCCatalog
  Roles = {"staff", "guest"}
  NoTool = "none"
SYMMETRY Symmetry
SPECIFICATION Spec
CHECK_DEADLOCK FALSE
INVARIANTS
  CallsGoverned
  AtMostOneCall
  AnswersHonest
  DiscoveryAgrees
