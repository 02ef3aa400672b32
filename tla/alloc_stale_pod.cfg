SPECIFICATION Spec
CONSTANTS
  Pods <- MCThree
  Containers <- MCTwoContainers
  Request <- MCSame
  Handlers <- MCOneHandler
  MaxTime = 2
  MaxUint64 = 99
  Faults <- MCList
INVARIANT GrantIsOwn
