-------------------------- MODULE MCVGPUAllocate --------------------------
(* Small clusters for VGPUAllocate.                                        *)
EXTENDS VGPUAllocate, TLC

MCThree == {1, 2, 3}
MCTwoContainers == {1, 2}

\* Three pods of one size: each of them matches every request.
MCSame == [p \in MCThree |-> <<1, 0>>]

\* Sizes that can be mistaken for one another: a pod of two containers, one of
\* the same total in one container, one of the size of its first container.
MCMixed == (1 :> <<1, 1>>) @@ (2 :> <<2, 0>>) @@ (3 :> <<1, 0>>)

\* examples/vgpu-case03.yml: two containers of two vGPUs each; and a pod that
\* asks for two vGPUs in one container.
MCCase03 == (1 :> <<2, 2>>) @@ (2 :> <<2, 0>>)
MCTwo == {1, 2}
MCOneHandler == {1}

\* The faults after which a pod is still settled before the lock is free.
MCContained == {"mig", "erase", "get", "release", "restart", "delete"}
MCAnswered == {"mig", "erase", "get", "restart"}
MCNone == {}
MCList == {"list"}
\* Every kind of fault that leaves a pod behind with its devices still listed,
\* and a lock that expires under a pod in flight.
MCLeftBehind == {"list", "response", "phase", "restart", "crash", "expiry"}
=============================================================================
