SPECIFICATION MCSpec
CONSTANTS
  NoValue = NoValue
  NoSlot = NoSlot
  NoLabel = NoLabel
  Programs <- MCPrograms
  Receipts <- MCReceipts
  Approvals <- MCApprovals
  Authorities <- MCAuthorities
  Instructions <- MCInstructions
  Capabilities = {"call", "send"}
  MaxApprovals = 3
  MaxGathered = 3
INVARIANT PlannedAsEmitted
PROPERTY ImplementsVouchers
PROPERTY PlansAreAuthorized
PROPERTY ContentOnlyAttenuates
CHECK_DEADLOCK FALSE
