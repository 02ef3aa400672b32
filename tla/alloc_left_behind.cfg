SPECIFICATION Spec
CONSTANTS
  Pods <- MCThree
  Containers <- MCTwoContainers
  Request <- MCMixed
  Handlers <- MCTwo
  MaxTime = 1
  MaxUint64 = 99
  Faults <- MCLeftBehind
INVARIANT GrantedOnce
