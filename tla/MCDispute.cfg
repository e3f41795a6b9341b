CONSTANTS
  Judges = {p1, p2, p3}
  NoPrior = NoPrior
  NoDecision = NoDecision
  Accounts = {"buyer", "provider"}
  Holds = {"hold"}
  LedgerKeys = {"reserved", "k1"}
  MaxHolds = 1
  MaxLedgerKeys = 2
  MaxAmount = 6
  LargestAmount = 6
  EvidenceIds = {"e1"}
  Claimed <- RefundClaim
  Profiles <- Majority
  Panel <- MajorityPanel
  Moves <- QuorumMoves
  LastRevision = 9
  MaxFindings = 4
  MaxDecisions = 2
SPECIFICATION Spec
SYMMETRY Symmetry
CONSTRAINT FewWithAppeal
INVARIANTS
  SettlementIsBacked
  JudgedOnFinalEvidence
  ContradictionsAreAccountable
CHECK_DEADLOCK FALSE
