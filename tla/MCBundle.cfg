SPECIFICATION BundleSpec
CONSTANTS
  NoPrior = NoPrior
  LargestAmount = 65535
  OpeningBundles <- AllBundles
  Findings <- SomeFindings
  MaxCollected = 4
CONSTRAINT FewAtEdges
INVARIANTS
  QuorumDecides
  OrderIsIrrelevant
  AllocatesExactly
PROPERTY NoVerdictFlips
CHECK_DEADLOCK FALSE
