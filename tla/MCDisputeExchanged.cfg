CONSTANTS
  Judges = {p1, p2, p3}
  NoPrior = NoPrior
  NoDecision = NoDecision
  Accounts = {"buyer", "provider"}
  Holds = {"hold"}
  LedgerKeys = {"reserved", "k1", "k2"}
  MaxHolds = 1
  MaxLedgerKeys = 3
  MaxAmount = 6
  LargestAmount = 6
  EvidenceIds = {"e1"}
  Claimed <- RefundClaim
  Profiles <- Exchanged
  Panel <- ExchangedPanel
  Moves <- QuorumMoves
  LastRevision = 9
  MaxFindings = 2
  MaxDecisions = 2
SPECIFICATION Spec
INVARIANT AppealsAreIndependent
CHECK_DEADLOCK FALSE
