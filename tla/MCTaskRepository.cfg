SPECIFICATION Spec
CONSTANTS
  a = a
  b = b
  c = c
  d = d
  Shape = "join"
  Join = "all_succeeded"
  Nodes <- MCNodes
  Initial <- MCInitial
  Deps <- MCDeps
  DependencyPolicy <- MCPolicy
  FailurePolicy <- MCFailure
  Expansion <- MCExpansion
  Owners = {o1, o2}
  NoOwner = NoOwner
  Graph = Graph
  MaxConcurrency = 1
  LeaseSeconds = 1
  MaxDelay = 0
  MaxFence = 2
INVARIANTS TypeOK LeaseShape ActiveBounded StartedAfterDependencies BlockedByDependencies ResultsExact
PROPERTIES TerminalStable FencedOwnership
