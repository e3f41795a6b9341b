\* Package resolution: graphs of up to five packages, two changes of the store.
SPECIFICATION Spec
CONSTANTS
  Manifests = {1, 2, 3, 4, 5}
  Sources = {"s", "t"}
  Root = 5
  Starts <- MCStarts
  Coordinates = {1, 2, 3, 4, 5}
  MaxPackages = 4
  MaxModules = 5
  MaxDependencyDepth = 2
  MaxTotalSourceBytes = 3
  MaxModulesPerPackage = 2
  MaxDependenciesPerPackage = 3
  MaxDisturbances = 2
INVARIANTS
  ReceiptIsExact
  RefusalHasCause
CHECK_DEADLOCK FALSE
