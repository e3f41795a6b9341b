\* Language pipeline: modules of up to three functions, integers of -4..3.
SPECIFICATION Spec
CONSTANTS
  Main <- MCMain
  MinInt <- MCMinInt
  MaxInt = 3
  MaxFunctions = 3
  MaxParameters = 2
  MaxStatements = 8
  MaxLocals = 4
  MaxNodes = 9
  MaxExpressionDepth = 1
  MaxCode = 10
  MaxTotalCode = 15
  MaxStack = 2
  MaxCallDepth = 3
  MaxNativeFunctions = 3
  MaxNativeCode = 8
  MaxNativeTotalCode = 12
  MaxNativeLocals = 4
  Submissions <- MCSubmissions
  Observers <- MCObservers
  TestIntegers <- MCIntegers
  TestStrings = {"s"}
  Budgets = {0, 4, 60}
INVARIANTS
  VerifiedNeverStuck
  CompiledMeaning
  SlotsAreLinear
  NoSecretIsObserved
  NativeAgrees
  OnlySizeRefusesCheckedSource
  CheckersAgree
CHECK_DEADLOCK FALSE
