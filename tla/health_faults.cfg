SPECIFICATION FairSpec
CONSTANTS
  All <- MCAll
  Malformed <- MCMalformed
  Devices <- MCTwoGPUs
  GPU <- MCOwnGPU
  Instances <- MCInstances
  WholeGPU = 99
  Instance <- MCMixed
  Xids <- MCXids
  MaxEvents = 2
  DisableEntries <- MCDisable
  EnableEntries <- MCNone
  Faults <- MCEveryFault
INVARIANTS TypeOK ErrorIsNotLost NoFalseAlarm ViewIsCurrent
PROPERTIES KubeletIsTold CheckEnds
CHECK_DEADLOCK FALSE
