SPECIFICATION FairSpec
CONSTANTS
  Ctrs <- MCTwo
  Uses <- MCUses
  Priority <- MCPriority
  Busy = 2
  MaxTrouble = 1
  Faults <- MCEveryFault
INVARIANTS TypeOK LiveRegionIsKept UnmappedIsUnused
PROPERTIES BlockedIsOutranked BlockedIsReleased ThrottleIsLifted
