SPECIFICATION LauncherSpec
CONSTANTS
  a = a
  b = b
  NodeSet = {a, b}
  KindA = "custom"
  KindB = "agent"
  Chained = FALSE
  Join = "all_succeeded"
  Nodes = {a, b}
  Initial = {a, b}
  Deps <- MCDeps
  DependencyPolicy <- MCPolicy
  FailurePolicy <- MCFailure
  Expansion <- MCExpansion
  Kind <- MCKind
  Owners = {o1}
  NoOwner = NoOwner
  Graph = Graph
  MaxConcurrency = 2
  LeaseSeconds = 1
  MaxDelay = 0
  MaxFence = 1
  Callers = {o1}
  Dropped = {}
  MaxCrashes = 0
PROPERTY CancelledGraphStaysCancelled
