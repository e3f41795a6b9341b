\* Tool forge: one chain of files that is broken once, votes of up to four.
SPECIFICATION Spec
CONSTANTS
  Identifiers = {"tool", "let", "acme", "cost", "a", "b", "c"}
  Keywords = {"let"}
  MaxBudget = 5
  MaxTests = 2
  MinInt <- MCMinInt
  MaxInt = 3
  Specs <- MCSpecs
  Replacement <- MCReplacement
  Ballots <- MCBallots
  Headers <- MCHeaders
  Presented <- MCPresented
  MaxVotes <- MCMaxVotes
  MaxReplacements <- MCMaxReplacements
INVARIANTS
  VerificationIsExact
  ApprovedToolIsPromotable
PROPERTY
  ImplementsAdmission
CHECK_DEADLOCK FALSE
