------------------------- MODULE MCPluginLifecycle -------------------------
(* Small nodes for PluginLifecycle.                                        *)
EXTENDS PluginLifecycle

MCResources == {"number", "memory"}
MCTwoDevices == {"d1", "d2"}
MCEveryFault == FaultKinds
=============================================================================
