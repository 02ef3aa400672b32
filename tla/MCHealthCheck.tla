--------------------------- MODULE MCHealthCheck ---------------------------
(* Small nodes for HealthCheck.                                            *)
EXTENDS HealthCheck, TLC

MCAll == -1
MCMalformed == -2
MCNone == {}

\* Two GPUs.
MCTwoGPUs == {"d1", "d2"}
MCOwnGPU == ("d1" :> "g1") @@ ("d2" :> "g2")

\* A GPU and a MIG device on another one; two MIG devices on one GPU.
MCMixed == ("d1" :> WholeGPU) @@ ("d2" :> 1)
MCOneGPU == ("d1" :> "g1") @@ ("d2" :> "g1")
MCSiblings == ("d1" :> 1) @@ ("d2" :> 2)

\* 79 is an error of the GPU, 31 one of the application.
MCXids == {31, 79}
MCXid == {79}
MCDisable == {79}
MCInstances == {1, 2}
MCEveryFault == FaultKinds
=============================================================================
