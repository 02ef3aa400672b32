SPECIFICATION Spec
CONSTANTS
  Pods <- MCTwo
  Containers <- MCTwoContainers
  Request <- MCCase03
  Handlers <- MCOneHandler
  MaxTime = 2
  MaxUint64 = 99
  Faults <- MCNone
INVARIANT NoRejection
