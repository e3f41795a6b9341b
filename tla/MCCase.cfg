CONSTANTS
  Actors = {a1, a2}
  Walker = a1
  Keys = {1, 2, 3, 4, 5, 6, 7, 8, 9, 10, 11, 12, 13, 14, 15, 16, 17, 18, 19, 20}
  Proposals <- AllProposals
  MaxKeys = 19
  RaceRevisions = 3
  NoRequest = NoRequest
SPECIFICATION MCSpec
INVARIANTS
  ReceiptChain
  KeyCommitsOnce
  NeverWedged
  DueProcess
  RepairIsReverified
PROPERTIES
  ImplementsPhases
