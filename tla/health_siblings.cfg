SPECIFICATION Spec
CONSTANTS
  All <- MCAll
  Malformed <- MCMalformed
  Devices <- MCTwoGPUs
  GPU <- MCOneGPU
  Instances <- MCInstances
  WholeGPU = 99
  Instance <- MCSiblings
  Xids <- MCXid
  MaxEvents = 2
  DisableEntries <- MCNone
  EnableEntries <- MCNone
  Faults <- MCNone
INVARIANT ErrorIsNotLost
