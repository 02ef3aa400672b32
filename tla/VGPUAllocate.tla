---------------------------- MODULE VGPUAllocate ----------------------------
(***************************************************************************)
(* The Allocate handler of the vGPU device plugin together with the two    *)
(* parties it works between: the Volcano scheduler, which takes the node   *)
(* lock, writes the chosen devices into the pod's annotations and binds    *)
(* the pod, and the kubelet, which calls Allocate with a NUMBER of         *)
(* devices and never says for which pod.  The handler finds the pod by     *)
(* guessing: the oldest pod of the node whose annotation still lists that  *)
(* many devices.  Scheduler, kubelet and API server are outside the        *)
(* repository and are modelled from how the code uses them.                *)
(*                                                                         *)
(* One action is one request the handler sends to the API server, with the *)
(* local computation up to the next request; between two of them any other *)
(* party may move.  Devices are not spelled out: a container's entry of    *)
(* the devices-to-allocate annotation is either still there or erased, so  *)
(* the annotation is the set of the containers still listed, and a grant   *)
(* records whose entry it was made from (the response carries it: the      *)
(* cache directory is named after the pod's UID and the container).        *)
(***************************************************************************)
EXTENDS Integers, FiniteSets, FiniteSetsExt

CONSTANTS
  Pods,        \* a pod is a positive number: its place in the API server's list
  Containers,  \* container indexes, positive
  Request,     \* Request[p][c]: the volcano.sh/vgpu-number limit of container c
  Handlers,    \* the Allocate calls that may be running at once
  MaxUint64,   \* the time that means "no longer pending"
  MaxTime,     \* bound: the last timestamp the scheduler may write
  Faults       \* which faults may happen

FaultKinds ==
  {"list",      \* listing the pods fails
   "mig",       \* the ids the kubelet chose are MIG ids
   "response",  \* getAllocateResponse fails
   "erase",     \* the patch of devices-to-allocate fails, or its reply is lost
   "get",       \* reading the pod back fails
   "phase",     \* the patch of bind-phase and time fails
   "release",   \* releasing the node lock fails
   "restart",   \* the gRPC server is stopped, its handlers run on
   "crash",     \* the process dies
   "delete",    \* a pod object is deleted
   "expiry"}    \* a lock is taken over as expired although its pod is in flight

ASSUME ConstantsAssumption ==
  /\ Pods \subseteq Nat \ {0}
  /\ IsFiniteSet(Pods)
  /\ Containers \subseteq Nat \ {0}
  /\ IsFiniteSet(Containers)
  /\ Request \in [Pods -> [Containers -> Nat]]
  /\ Handlers \subseteq Nat \ {0}
  /\ MaxTime \in Nat
  /\ MaxUint64 \in Nat
  /\ MaxTime < MaxUint64
  /\ Faults \subseteq FaultKinds

VARIABLES
  sched,    \* sched[p]: "new" before it is assigned, "bound", then maybe "deleted"
  anno,     \* anno[p]: the annotations vgpu-time, devices-to-allocate, bind-phase
  clock,    \* the scheduler's last timestamp
  lock,     \* whether the node carries the lock annotation
  kubelet,  \* kubelet[p]: the admission of pod p
  call,     \* the Allocate call the kubelet waits for
  grants,   \* the responses the kubelet received
  handler   \* handler[h]: the local state of an Allocate call

vars == <<sched, anno, clock, lock, kubelet, call, grants, handler>>

Phases == {"none", "allocating", "success", "failed"}
PCs == {"idle", "list", "erase", "get", "success", "failed", "release", "reply"}

Idle == [pc |-> "idle", want |-> 0, pod |-> 0, ctr |-> 0, snap |-> {}, ok |-> FALSE]
NoCall == [pod |-> 0, ctr |-> 0, by |-> 0]

Init == /\ sched = [p \in Pods |-> "new"]
        /\ anno = [p \in Pods |-> [time |-> MaxUint64, alloc |-> {}, phase |-> "none"]]
        /\ clock = 0
        /\ lock = FALSE
        /\ kubelet = [p \in Pods |-> "waiting"]
        /\ call = NoCall
        /\ grants = {}
        /\ handler = [h \in Handlers |-> Idle]

-----------------------------------------------------------------------------
\* The containers of p the scheduler writes devices for.
VGPUContainers(p) == {c \in Containers : Request[p][c] > 0}

\* DecodePodDevices: the number of devices listed, over all containers left.
DeviceCount(p, S) == MapThenSumSet(LAMBDA c : Request[p][c], S)

\* The pods of this node whose annotation lists n devices, whatever their phase.
Candidates(n) ==
  {p \in Pods : sched[p] = "bound" /\ DeviceCount(p, anno[p].alloc) = n}

\* Mutant of IsOldest: the comparison of the times is turned around.
IsOldestMutant(p, C) ==
  /\ p \in C
  /\ \A q \in C : anno[q].time <= anno[p].time
  /\ \A q \in C : anno[q].time = anno[p].time => p <= q

\* getOldestPod: it starts from the last candidate of the list and moves on
\* strictly older times only, so a tie goes to the last one if it is among the
\* oldest and to the first of the oldest otherwise.
IsOldest(p, C) ==
  /\ p \in C
  /\ \A q \in C : anno[p].time <= anno[q].time
  /\ \/ \A q \in C : q <= p
     \/ /\ \E q \in C : /\ \A r \in C : r <= q
                        /\ anno[p].time < anno[q].time
        /\ \A q \in C : anno[q].time = anno[p].time => p <= q

Granted(p) == {g.ctr : g \in {e \in grants : e.pod = p}}

\* Containers are admitted in order; those that ask for no vGPU need no call.
Ungranted(p) == VGPUContainers(p) \ Granted(p)

Awaited(p) == sched[p] = "bound" /\ kubelet[p] = "waiting"

\* Nothing is left that the lock could be held for.
Quiet == /\ \A p \in Pods : ~Awaited(p)
         /\ \A h \in Handlers : handler[h].pc = "idle"

-----------------------------------------------------------------------------
(* The scheduler (external).  LockNode, the pod's annotations, the binding.
   A lock that was never released is taken over after five minutes: by then
   the pod it was taken for is settled, unless the fault "expiry" says not.   *)
Schedule(p) ==
  /\ sched[p] = "new"
  /\ ~lock \/ Quiet \/ "expiry" \in Faults
  /\ \E t \in {clock, clock + 1} :
       /\ t <= MaxTime
       /\ clock' = t
       /\ anno' = [anno EXCEPT ![p] =
            [time |-> t, alloc |-> VGPUContainers(p), phase |-> "allocating"]]
  /\ sched' = [sched EXCEPT ![p] = "bound"]
  /\ lock' = TRUE
  /\ UNCHANGED <<kubelet, call, grants, handler>>

(* The kubelet (external).  It admits one pod at a time and calls Allocate
   for one container at a time; the gRPC server starts a handler.             *)
Call(h) ==
  /\ call = NoCall
  /\ handler[h].pc = "idle"
  /\ \E p \in Pods, c \in Containers :
       /\ Awaited(p)
       /\ c \in Ungranted(p)
       /\ \A d \in Ungranted(p) : c <= d
       /\ \A q \in Pods \ {p} : Awaited(q) => Granted(q) = {}
       /\ call' = [pod |-> p, ctr |-> c, by |-> h]
       /\ handler' = [handler EXCEPT ![h] =
                        [Idle EXCEPT !.pc = "list", !.want = Request[p][c]]]
  /\ UNCHANGED <<sched, anno, clock, lock, kubelet, grants>>

-----------------------------------------------------------------------------
(* The Allocate handler.                                                     *)
NoPod(h) ==
  /\ handler[h].pc = "list"
  /\ "list" \in Faults \/ Candidates(handler[h].want) = {}
  /\ handler' = [handler EXCEPT ![h].pc = "release", ![h].ok = FALSE]
  /\ UNCHANGED <<sched, anno, clock, lock, kubelet, call, grants>>

\* GetNextDeviceRequest takes the first container left; its size must be the
\* kubelet's.  A failed response is returned as it is: nothing is cleaned up.
\* MIG ids are refused: they carry a replica suffix no managed device has.
Pick(h) ==
  /\ handler[h].pc = "list"
  /\ \E p \in Pods, next \in {"erase", "failed", "reply"} :
       /\ IsOldest(p, Candidates(handler[h].want))
       /\ \E c \in anno[p].alloc :
            /\ \A d \in anno[p].alloc : c <= d
            /\ \/ next = "erase" /\ Request[p][c] = handler[h].want
               \/ next = "failed" /\ Request[p][c] # handler[h].want
               \/ next = "failed" /\ "mig" \in Faults
               \/ /\ next = "reply" /\ Request[p][c] = handler[h].want
                  /\ "response" \in Faults
            /\ handler' = [handler EXCEPT ![h] =
                 [@ EXCEPT !.pc = next, !.pod = p, !.ctr = c,
                           !.snap = anno[p].alloc, !.ok = FALSE]]
  /\ UNCHANGED <<sched, anno, clock, lock, kubelet, call, grants>>

\* Mutant of Erased: the annotation is written back as it was read.
ErasedMutant(h) == handler[h].snap

\* What EraseNextDeviceTypeFromAnnotation leaves: every container but the first.
Erased(h) == handler[h].snap \ {handler[h].ctr}

\* Mutants of AfterEraseError: the pod is not marked as failed; the call is
\* dropped altogether.
AfterEraseErrorMutant == "release"
AfterEraseErrorDropped == "idle"

\* An error of the patch goes to PodAllocationFailed.
AfterEraseError == "failed"

\* EraseNextDeviceTypeFromAnnotation writes back the annotation it read when
\* the pods were listed, without the container it serves.
EraseNext(h) ==
  LET p == handler[h].pod IN
  /\ handler[h].pc = "erase"
  /\ sched[p] = "bound"
  /\ anno' = [anno EXCEPT ![p].alloc = Erased(h)]
  /\ \E next \in {"get"} \cup {f \in {AfterEraseError} : "erase" \in Faults} :
       handler' = [handler EXCEPT ![h].pc = next]
  /\ UNCHANGED <<sched, clock, lock, kubelet, call, grants>>

EraseFails(h) ==
  /\ handler[h].pc = "erase"
  /\ "erase" \in Faults \/ sched[handler[h].pod] = "deleted"
  /\ handler' = [handler EXCEPT ![h].pc = AfterEraseError]
  /\ UNCHANGED <<sched, anno, clock, lock, kubelet, call, grants>>

\* Mutant of AfterRefresh: the test for a device still listed is inverted.
AfterRefreshMutant(left) == IF left # {} THEN "success" ELSE "reply"

\* The pod is settled once no device is left to allocate.
AfterRefresh(left) == IF left = {} THEN "success" ELSE "reply"

\* PodAllocationTrySuccess returns early while a device is listed; an error
\* of the read is ignored, and then it sees no annotation at all.
GetRefreshed(h) ==
  LET p == handler[h].pod IN
  /\ handler[h].pc = "get"
  /\ \E left \in {anno[p].alloc, {}} :
       /\ IF left = anno[p].alloc THEN left = {} \/ sched[p] = "bound"
                                  ELSE sched[p] = "deleted" \/ "get" \in Faults
       /\ handler' = [handler EXCEPT ![h].ok = TRUE, ![h].pc = AfterRefresh(left)]
  /\ UNCHANGED <<sched, anno, clock, lock, kubelet, call, grants>>

\* Mutants of Settled: the time is left alone; the time is not the largest uint64.
SettledMutant(a, phase) == [a EXCEPT !.phase = phase]
SettledShort(a, phase) == [a EXCEPT !.time = MaxUint64 \div 2, !.phase = phase]

Settled(a, phase) == [a EXCEPT !.time = MaxUint64, !.phase = phase]

\* The first half of PodAllocationSuccess and of PodAllocationFailed: an error
\* of the patch is logged and the lock is released all the same.
PatchPhase(h) ==
  LET p == handler[h].pod IN
  /\ handler[h].pc \in {"success", "failed"}
  /\ \/ /\ sched[p] = "bound"
        /\ anno' = [anno EXCEPT ![p] = Settled(@, handler[h].pc)]
     \/ /\ sched[p] = "deleted" \/ "phase" \in Faults
        /\ UNCHANGED anno
  /\ handler' = [handler EXCEPT ![h].pc = "release"]
  /\ UNCHANGED <<sched, clock, lock, kubelet, call, grants>>

\* ReleaseNodeLock, as one step: module NodeLock has its retries.
Release(h) ==
  /\ handler[h].pc = "release"
  /\ \/ lock' = FALSE
     \/ "release" \in Faults /\ UNCHANGED lock
  /\ handler' = [handler EXCEPT ![h].pc = "reply"]
  /\ UNCHANGED <<sched, anno, clock, kubelet, call, grants>>

\* The handler returns.  The response reaches the kubelet if its connection
\* still exists; an error makes the kubelet reject the pod.
Reply(h) ==
  /\ handler[h].pc = "reply"
  /\ handler' = [handler EXCEPT ![h] = Idle]
  /\ \/ /\ call.by # h
        /\ UNCHANGED <<kubelet, call, grants>>
     \/ /\ call.by = h
        /\ handler[h].ok
        /\ call' = NoCall
        /\ grants' = grants \cup {[pod |-> call.pod, ctr |-> call.ctr,
                                   from |-> handler[h].pod, fromCtr |-> handler[h].ctr]}
        /\ kubelet' = [kubelet EXCEPT ![call.pod] =
                         IF Ungranted(call.pod) \subseteq {call.ctr}
                         THEN "running" ELSE "waiting"]
     \/ /\ call.by = h
        /\ ~handler[h].ok
        /\ call' = NoCall
        /\ kubelet' = [kubelet EXCEPT ![call.pod] = "rejected"]
        /\ UNCHANGED grants
  /\ UNCHANGED <<sched, anno, clock, lock>>

-----------------------------------------------------------------------------
(* Faults of the process and of the cluster.                                 *)

\* Stop closes the connections; a handler does not look at its context and
\* runs on against the API server.
Restart ==
  /\ "restart" \in Faults
  /\ call # NoCall
  /\ kubelet' = [kubelet EXCEPT ![call.pod] = "rejected"]
  /\ call' = NoCall
  /\ UNCHANGED <<sched, anno, clock, lock, grants, handler>>

Crash ==
  /\ "crash" \in Faults
  /\ \E h \in Handlers : handler[h].pc # "idle"
  /\ handler' = [h \in Handlers |-> Idle]
  /\ kubelet' = [p \in Pods |-> IF p = call.pod THEN "rejected" ELSE kubelet[p]]
  /\ call' = NoCall
  /\ UNCHANGED <<sched, anno, clock, lock, grants>>

\* A bound pod's object goes away after the kubelet has let go of the pod.
Delete(p) ==
  /\ "delete" \in Faults
  /\ sched[p] = "bound"
  /\ call.pod # p
  /\ sched' = [sched EXCEPT ![p] = "deleted"]
  /\ kubelet' = [kubelet EXCEPT ![p] = IF @ = "waiting" THEN "rejected" ELSE @]
  /\ UNCHANGED <<anno, clock, lock, call, grants, handler>>

\* Every pod is settled: the model may stop here and nowhere else.
Finished ==
  /\ \A p \in Pods : sched[p] # "new" /\ ~Awaited(p)
  /\ \A h \in Handlers : handler[h].pc = "idle"
  /\ UNCHANGED vars

HandlerStep(h) ==
  \/ NoPod(h) \/ Pick(h) \/ EraseNext(h) \/ EraseFails(h)
  \/ GetRefreshed(h) \/ PatchPhase(h) \/ Release(h) \/ Reply(h)

Next ==
  \/ \E p \in Pods : Schedule(p) \/ Delete(p)
  \/ \E h \in Handlers : Call(h) \/ HandlerStep(h)
  \/ Restart \/ Crash \/ Finished

Spec == Init /\ [][Next]_vars

\* Handlers run on their own; the kubelet retries no call but admits every
\* bound pod; the scheduler keeps trying to place its pods.
FairSpec ==
  /\ Spec
  /\ \A h \in Handlers : WF_vars(HandlerStep(h))
  /\ WF_vars(\E h \in Handlers : Call(h))
  /\ WF_vars(\E p \in Pods : Schedule(p))

-----------------------------------------------------------------------------
AnnoState == [time : 0 .. MaxTime \cup {MaxUint64}, alloc : SUBSET Containers, phase : Phases]

HandlerState == [pc : PCs, want : Nat, pod : Pods \cup {0}, ctr : Containers \cup {0},
                 snap : SUBSET Containers, ok : BOOLEAN]

\* Every variable has its type; a handler keeps one of the places of its code.
TypeOK ==
  /\ sched \in [Pods -> {"new", "bound", "deleted"}]
  /\ anno \in [Pods -> AnnoState]
  /\ clock \in 0 .. MaxTime
  /\ lock \in BOOLEAN
  /\ kubelet \in [Pods -> {"waiting", "running", "rejected"}]
  /\ call \in [pod : Pods \cup {0}, ctr : Containers \cup {0}, by : Handlers \cup {0}]
  /\ grants \subseteq [pod : Pods, ctr : Containers, from : Pods, fromCtr : Containers]
  /\ handler \in [Handlers -> HandlerState]

\* A container is handed the devices the scheduler chose for that container:
\* the pod Allocate finds by counting devices is the pod the kubelet means.
GrantIsOwn == \A g \in grants : g.from = g.pod /\ g.fromCtr = g.ctr

\* What the scheduler wrote for one container is never handed to two, whoever
\* runs concurrently and whatever fails in between.
GrantedOnce ==
  \A g, e \in grants : g.from = e.from /\ g.fromCtr = e.fromCtr => g = e

\* A pod the scheduler placed here and the plugin has not settled yet.
Pending(p) == Awaited(p) /\ anno[p].phase = "allocating"

\* The node lock is held for as long as a pod is pending, so at most one is:
\* no handler that is late, stopped or serving another pod releases it early.
LockCoversPending ==
  \A p \in Pods : Pending(p) => lock /\ \A q \in Pods : Pending(q) => p = q

\* A pod runs only after its annotations said so: nothing is left to allocate
\* and the bind phase is success.
RunningIsMarked ==
  \A p \in Pods : kubelet[p] = "running" =>
    anno[p].alloc = {} /\ anno[p].phase = "success" /\ anno[p].time = MaxUint64

\* A settled bind phase is final: no later call touches a pod that succeeded
\* or failed.
SettledIsFinal ==
  [][\A p \in Pods : anno[p].phase \in {"success", "failed"} =>
       anno'[p].phase = anno[p].phase]_vars

\* The kubelet rejects a pod only when something failed.
NoRejection == \A p \in Pods : kubelet[p] # "rejected"

\* An allocation that is under way ends and gives the node lock back.
LockIsReleased == lock ~> ~lock

\* Every pod bound to the node is admitted or rejected.
PodSettles == \A p \in Pods : Awaited(p) ~> ~Awaited(p)

-----------------------------------------------------------------------------
\* The pods' state as the cluster sees it.
Status == [p \in Pods |-> IF sched[p] = "new" THEN "new"
                          ELSE IF kubelet[p] = "waiting" THEN "offered" ELSE kubelet[p]]

Handoff == INSTANCE DeviceHandoff WITH status <- Status, given <- grants

\* The handler, the annotations and the lock implement the promise of
\* DeviceHandoff: every step gives a container its own devices, refuses a pod,
\* or is invisible.
ImplementsHandoff == Handoff!Spec
=============================================================================
