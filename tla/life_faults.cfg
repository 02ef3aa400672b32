SPECIFICATION FairSpec
CONSTANTS
  Resources <- MCResources
  Number = "number"
  Devices <- MCTwoDevices
  MaxTrouble = 1
  Faults <- MCEveryFault
INVARIANTS TypeOK KubeletHoldsCurrent
PROPERTIES ServedInTheEnd AnnotationSettles RecoversByRestart
