SPECIFICATION Spec
CONSTANTS
  NodeName = "node"
  All <- MCAll
  Malformed <- MCMalformed
\* One step per task: a behaviour ends with its result.
CHECK_DEADLOCK FALSE
INVARIANT EnabledXidIsExamined
