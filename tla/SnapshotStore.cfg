\* Two threads sharing the store, every fault, three revisions.
CONSTANTS
  Threads = {t1, t2}
  Faults = {"unreachable", "refused", "altered", "malformed"}
  MaxRevision = 3
SPECIFICATION FairSpec
INVARIANTS
  OnlyVerifiedServed
  RefreshIsCurrent
PROPERTIES
  HeldNeverRegresses
  CatchesUp
  RefreshSettles
