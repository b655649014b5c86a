SPECIFICATION LauncherSpec
CONSTANTS
  a = a
  b = b
  NodeSet = {a}
  KindA = "projected"
  KindB = "custom"
  Chained = FALSE
  Join = "all_succeeded"
  Nodes = {a}
  Initial = {a}
  Deps <- MCDeps
  DependencyPolicy <- MCPolicy
  FailurePolicy <- MCFailure
  Expansion <- MCExpansion
  Kind <- MCKind
  Owners = {o1, o2}
  NoOwner = NoOwner
  Graph = Graph
  MaxConcurrency = 1
  LeaseSeconds = 2
  MaxDelay = 1
  MaxFence = 3
  Callers = {o1}
  Dropped = {a}
  MaxCrashes = 1
INVARIANTS CancelledWithoutEffect SettledAsExecuted ConfirmedCancelSettled
