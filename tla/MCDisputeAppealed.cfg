CONSTANTS
  Judges = {p1, p2, p3}
  NoPrior = NoPrior
  NoDecision = NoDecision
  Accounts = {"buyer", "provider"}
  Holds = {"hold"}
  LedgerKeys = {"reserved", "k1", "k2"}
  MaxHolds = 1
  MaxLedgerKeys = 3
  MaxAmount = 6
  LargestAmount = 6
  EvidenceIds = {"e1"}
  Claimed <- RefundClaim
  Profiles <- Single
  Panel <- SinglePanel
  Moves <- AppealMoves
  LastRevision = 12
  MaxFindings = 2
  MaxDecisions = 2
SPECIFICATION Spec
INVARIANT AppealedCanBeDecided
CHECK_DEADLOCK FALSE
