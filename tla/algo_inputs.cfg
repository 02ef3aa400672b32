SPECIFICATION Spec
CONSTANTS
  NodeName = "node"
  All <- MCAll
  Malformed <- MCMalformed
\* One step per task: a behaviour ends with its result.
CHECK_DEADLOCK FALSE
INVARIANTS DeviceMapIsRight SharingIsCoherent PreferredIsBalanced DeviceListsAgree
INVARIANTS StartedPluginsAreSound LimitsMatchDevices MigDeviceIsTheOneAssigned SelectionIsMeant ScrapeIsTheUsage
