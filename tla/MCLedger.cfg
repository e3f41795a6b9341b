SPECIFICATION MCSpec
CONSTANTS
  Clients = {c1, c2}
  Accounts = {"buyer", "provider", "stranger"}
  Holds = {h1, h2}
  LedgerKeys = {1, 2, 3, 4}
  MaxHolds = 2
  MaxLedgerKeys = 4
  MaxAmount = 3
  NoDecision = NoDecision
  NoRequest = NoRequest
  Opening <- OpeningBalances
  Amounts = {1, 2}
  Decisions <- SomeDecisions
SYMMETRY Symmetry
INVARIANTS
  AccountsReconcile
  NoInternalFailure
PROPERTIES
  ImplementsValueFlow
