------------------------- MODULE MCMonitorFeedback -------------------------
(* Small nodes for MonitorFeedback.                                        *)
EXTENDS MonitorFeedback, TLC

\* A container of high priority and one of low priority on the same GPU, the
\* second one on another GPU as well.
MCTwo == {"c1", "c2"}
MCUses == ("c1" :> <<"g1">>) @@ ("c2" :> <<"g2", "g1">>)
MCPriority == ("c1" :> 0) @@ ("c2" :> 1)
MCEveryFault == FaultKinds
=============================================================================
