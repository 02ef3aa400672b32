SPECIFICATION Spec
CONSTANTS
  Pods <- MCThree
  Containers <- MCTwoContainers
  Request <- MCSame
  Handlers <- MCTwo
  MaxTime = 2
  MaxUint64 = 99
  Faults <- MCContained
INVARIANTS TypeOK GrantIsOwn LockCoversPending RunningIsMarked
PROPERTY ImplementsHandoff
