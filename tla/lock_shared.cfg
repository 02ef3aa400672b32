SPECIFICATION FairSpec
CONSTANTS
  l1 = l1
  l2 = l2
  r1 = r1
  Lockers = {l1, l2}
  Releasers = {r1}
  MaxLockRetry = 1
  Lease = 0
  MaxTime = 1
  MaxPatches = 1
  Faults <- MCFaults
INVARIANTS TypeOK LockIsOwned
PROPERTIES NoLostRegistration ImplementsLeaseLock CallReturns
