SPECIFICATION FairLauncherSpec
CONSTANTS
  a = a
  b = b
  NodeSet = {a}
  KindA = "input"
  KindB = "custom"
  Chained = FALSE
  Join = "all_succeeded"
  Nodes = {a}
  Initial = {a}
  Deps <- MCDeps
  DependencyPolicy <- MCPolicy
  FailurePolicy <- MCFailure
  Expansion <- MCExpansion
  Kind <- MCKind
  Owners = {o1, o2}
  NoOwner = NoOwner
  Graph = Graph
  MaxConcurrency = 1
  LeaseSeconds = 1
  MaxDelay = 0
  MaxFence = 1
  Callers = {o1}
  Dropped = {}
  MaxCrashes = 1
PROPERTIES OrphanedClaimReleased CancelCallEnds
