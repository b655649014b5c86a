SPECIFICATION Spec
CONSTANTS
  a = a
  b = b
  c = c
  d = d
  Shape = "grow"
  Join = "any_succeeded"
  Nodes <- MCNodes
  Initial <- MCInitial
  Deps <- MCDeps
  DependencyPolicy <- MCPolicy
  FailurePolicy <- MCFailure
  Expansion <- MCExpansion
  Owners = {o1}
  NoOwner = NoOwner
  Graph = Graph
  MaxConcurrency = 2
  LeaseSeconds = 1
  MaxDelay = 1
  MaxFence = 1
INVARIANTS ExpansionWithCompletion HeaderAgrees ReconciliationIsOnePass
PROPERTY SettledGraphStaysSettled
