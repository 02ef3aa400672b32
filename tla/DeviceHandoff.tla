--------------------------- MODULE DeviceHandoff ---------------------------
(***************************************************************************)
(* What the node side of the vGPU plugin promises the cluster.  The        *)
(* scheduler offers a pod to the node with devices chosen for each of its  *)
(* vGPU containers.  The node hands every container the devices chosen for *)
(* that container and nothing else, once, or it refuses the pod.  Nothing  *)
(* of the Kubernetes API, of the node lock or of the Allocate handler is   *)
(* visible here: VGPUAllocate is shown to implement this module.           *)
(***************************************************************************)
EXTENDS Integers

CONSTANTS Pods,        \* the pods the scheduler may offer to the node
          Containers,  \* container indexes
          Request      \* Request[p][c]: how many vGPUs container c of p asks for

VARIABLES status,  \* status[p]: where the node stands with pod p
          given    \* what containers were handed: whose devices each one got

vars == <<status, given>>

VGPUContainers(p) == {c \in Containers : Request[p][c] > 0}

\* Container c of p is handed the devices the scheduler chose for it.
Own(p, c) == [pod |-> p, ctr |-> c, from |-> p, fromCtr |-> c]

Served(p) == {g.ctr : g \in {e \in given : e.pod = p}}

Init == /\ status = [p \in Pods |-> "new"]
        /\ given = {}

Offer(p) == /\ status[p] = "new"
            /\ status' = [status EXCEPT ![p] = "offered"]
            /\ UNCHANGED given

\* The last container to be served makes the pod run.
Give(p, c) == /\ status[p] = "offered"
              /\ c \in VGPUContainers(p) \ Served(p)
              /\ given' = given \cup {Own(p, c)}
              /\ status' = [status EXCEPT ![p] =
                   IF VGPUContainers(p) \subseteq Served(p) \cup {c}
                   THEN "running" ELSE "offered"]

Refuse(p) == /\ status[p] = "offered"
             /\ status' = [status EXCEPT ![p] = "rejected"]
             /\ UNCHANGED given

Next == \E p \in Pods : \/ Offer(p)
                        \/ \E c \in Containers : Give(p, c)
                        \/ Refuse(p)

Spec == Init /\ [][Next]_vars
=============================================================================
