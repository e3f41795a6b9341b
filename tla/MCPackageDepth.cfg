\* Package resolution: the documented bound of the depth of a resolved graph.
SPECIFICATION Spec
CONSTANTS
  Manifests = {1, 2, 3, 4, 5}
  Sources = {"s", "t"}
  Root = 5
  Starts <- MCStarts
  Coordinates = {1, 2, 3, 4, 5}
  MaxPackages = 4
  MaxModules = 5
  MaxDependencyDepth = 2
  MaxTotalSourceBytes = 3
  MaxModulesPerPackage = 2
  MaxDependenciesPerPackage = 3
  MaxDisturbances = 0
INVARIANT
  DepthIsBounded
CHECK_DEADLOCK FALSE
