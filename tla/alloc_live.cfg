SPECIFICATION FairSpec
CONSTANTS
  Pods <- MCThree
  Containers <- MCTwoContainers
  Request <- MCSame
  Handlers <- MCTwo
  MaxTime = 1
  MaxUint64 = 99
  Faults <- MCAnswered
PROPERTIES SettledIsFinal LockIsReleased PodSettles
