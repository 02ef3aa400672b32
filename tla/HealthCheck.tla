---------------------------- MODULE HealthCheck ----------------------------
(***************************************************************************)
(* The health of the devices of one plugin object: the goroutine of        *)
(* checkHealth, which waits for the errors NVML reports, the handler of    *)
(* ListAndWatch, which marks a device and tells the kubelet, and the       *)
(* unbuffered channel between them; and Stop, which ends both.             *)
(* An event names a GPU and, on a GPU divided into MIG devices, the        *)
(* instance (GI, CI) it came from; WholeGPU stands for 0xFFFFFFFF.         *)
(* NVML and the kubelet are external.                                      *)
(***************************************************************************)
EXTENDS HealthXids, FiniteSets

CONSTANTS
  Devices,   \* the devices of the resource
  GPU,       \* GPU[d]: the UUID of the GPU device d is on
  Instances, \* the pairs of GI and CI of the MIG devices of the node
  WholeGPU,  \* stands for no such pair
  Instance,  \* Instance[d]: the pair of device d, WholeGPU if it is no MIG device
  Xids,      \* the Xids that may occur
  MaxEvents, \* bound: how many events occur
  DisableEntries, EnableEntries,  \* what the two lists may hold
  Faults     \* which faults may happen

FaultKinds ==
  {"init",     \* NVML cannot be initialised
   "device",   \* a device cannot be placed or watched, or is too old for it
   "wait",     \* waiting for an event fails, or its GPU cannot be told
   "break",    \* the kubelet goes away
   "stop"}     \* the plugin is stopped

ASSUME ConstantsAssumption ==
  /\ GPU \in [Devices -> STRING]
  /\ Instance \in [Devices -> Instances \cup {WholeGPU}] /\ WholeGPU \notin Instances
  /\ Xids \subseteq Nat \ {allXIDs} /\ MaxEvents \in Nat
  /\ DisableEntries \subseteq Nat \cup {All, Malformed}
  /\ EnableEntries \subseteq Nat \cup {All, Malformed}
  /\ Faults \subseteq FaultKinds

VARIABLES
  lists,    \* the two environment variables: they never change
  health,   \* health[d]: the Health field of device d
  checker,  \* the goroutine of checkHealth
  parent,   \* parentToDeviceMap: what is in it, and for which GPUs it has an entry
  watched,  \* the GPUs whose events NVML was asked for
  raised,   \* the events that occurred on a watched GPU, for the properties
  blamed,   \* the devices marked because NVML failed, for the properties
  events,   \* those of them NVML has not handed over yet
  stream,   \* the ListAndWatch handler
  conn,     \* whether its connection exists
  view,     \* the health the kubelet was told, by device; Untold before
  stopped   \* Stop has closed the stop channel and set the fields to nil

vars == <<lists, health, checker, parent, watched, raised, blamed, events, stream,
          conn, view, stopped>>

GPUs == {GPU[d] : d \in Devices}
Events == [gpu : GPUs, inst : Instances \cup {WholeGPU}, xid : Xids]
Untold == [d \in {} |-> TRUE]

Init ==
  /\ lists \in [disable : SUBSET DisableEntries, enable : SUBSET EnableEntries]
  /\ health = [d \in Devices |-> TRUE]
  /\ checker = [pc |-> "launch", todo |-> Devices, out |-> {}, deaf |-> FALSE]
  /\ parent = [g \in {} |-> g]
  /\ watched = {} /\ raised = {} /\ blamed = {} /\ events = {}
  /\ stream = "none" /\ conn = TRUE
  /\ view = Untold
  /\ stopped = FALSE

Disabled == DisabledXids(lists.disable, lists.enable)
-----------------------------------------------------------------------------
(* The kubelet and NVML (external).                                          *)

\* After Register the kubelet calls ListAndWatch.
Open == /\ stream = "none" /\ conn
        /\ stream' = "initial"
        /\ UNCHANGED <<lists, health, checker, parent, watched, raised, blamed, events,
                       conn, view, stopped>>

Break == /\ "break" \in Faults /\ conn
         /\ conn' = FALSE
         /\ UNCHANGED <<lists, health, checker, parent, watched, raised, blamed, events,
                        stream, view, stopped>>

\* A GPU reports an error, each one once.
Raise(e) == /\ e.gpu \in watched
            /\ e \notin raised /\ Cardinality(raised) < MaxEvents
            /\ raised' = raised \cup {e}
            /\ events' = events \cup {e}
            /\ UNCHANGED <<lists, health, checker, parent, watched, blamed, stream,
                           conn, view, stopped>>

-----------------------------------------------------------------------------
(* checkHealth.                                                              *)
CheckerStep(c) ==
  /\ checker' = c
  /\ UNCHANGED <<lists, raised, stream, conn, view, stopped, health>>

\* The goroutine reads plugin.stop and plugin.health only when it runs: after
\* Stop it may find them nil, and neither hears of a stop nor is heard.
Launch ==
  /\ checker.pc = "launch"
  /\ \E deaf \in {FALSE, stopped}, ok \in {TRUE, "init" \notin Faults} :
       CheckerStep([checker EXCEPT !.deaf = deaf,
          !.pc = IF IsAllDisabled(Disabled) THEN "off"
                 ELSE IF ok THEN "setup" ELSE "done"])
  /\ UNCHANGED <<parent, watched, blamed, events>>

\* Mutant of HandedOver: the check goes on before its device was taken.
HandedOverMutant == TRUE

\* The channel has no buffer: whoever sends waits for the receiver.
HandedOver == checker.out = {}

\* Devices are looked up and watched one after the other, in any order.  One that is too
\* old for it is neither watched nor marked.
Setup(d) ==
  LET placed == [g \in DOMAIN parent \cup {GPU[d]} |->
                   IF g = GPU[d] THEN d ELSE parent[g]]
      rest == [checker EXCEPT !.todo = @ \ {d}]
  IN /\ checker.pc = "setup" /\ HandedOver /\ d \in checker.todo
     /\ \/ /\ CheckerStep(rest)
           /\ parent' = placed
           /\ watched' = watched \cup {GPU[d]}
           /\ UNCHANGED blamed
        \/ /\ "device" \in Faults
           /\ CheckerStep(rest)
           /\ parent' = placed
           /\ UNCHANGED <<watched, blamed>>
        \/ /\ "device" \in Faults
           /\ CheckerStep([rest EXCEPT !.out = {d}])
           /\ parent' \in {parent, placed}
           /\ blamed' = blamed \cup {d}
           /\ UNCHANGED watched
     /\ UNCHANGED events

SetupEnds ==
  /\ checker.pc = "setup" /\ HandedOver /\ checker.todo = {}
  /\ CheckerStep([checker EXCEPT !.pc = "loop"])
  /\ UNCHANGED <<parent, watched, blamed, events>>

\* Mutant of StopSeen: the stop channel is looked at never.
StopSeenMutant == FALSE

StopSeen == stopped /\ ~checker.deaf

\* The stop channel is looked at between two waits, each of five seconds.
Loop ==
  /\ checker.pc = "loop" /\ HandedOver
  /\ CheckerStep([checker EXCEPT !.pc =
       IF StopSeen THEN "done" ELSE "wait"])
  /\ UNCHANGED <<parent, watched, blamed, events>>

\* Mutant of Meant: the instance is not looked at.
MeantAny(e) == {parent[g] : g \in DOMAIN parent \cap {e.gpu}}

\* The device an event is about: the one that was looked up last on that GPU,
\* unless both name an instance and the instances differ.
Meant(e) ==
  {d \in {parent[g] : g \in DOMAIN parent \cap {e.gpu}} :
     Instance[d] = WholeGPU \/ e.inst = WholeGPU \/ Instance[d] = e.inst}

Wait ==
  /\ checker.pc = "wait"
  /\ \/ /\ CheckerStep([checker EXCEPT !.pc = "loop"])
        /\ events = {}
        /\ UNCHANGED events
     \/ \E e \in events :
          /\ CheckerStep([checker EXCEPT !.pc = "loop",
               !.out = IF IsDisabled(Disabled, e.xid) THEN {} ELSE Meant(e)])
          /\ events' = events \ {e}
  /\ UNCHANGED <<parent, watched, blamed>>

\* If the error cannot be read or its GPU cannot be told, every device is marked.
WaitFails ==
  /\ "wait" \in Faults
  /\ checker.pc = "wait"
  /\ CheckerStep([checker EXCEPT !.pc = "loop", !.out = Devices])
  /\ \E lost \in {{}} \cup {{e} : e \in events} : events' = events \ lost
  /\ blamed' = Devices
  /\ UNCHANGED <<parent, watched>>

-----------------------------------------------------------------------------
(* ListAndWatch.                                                             *)

\* Mutants of Tell: an update lists the devices that are healthy still; the
\* devices are listed as they were before the last one was handed over.
TellMutant == [d \in {e \in Devices : health[e]} |-> TRUE]
TellLate == IF view = Untold THEN health ELSE view

Tell == health

SendInitial ==
  /\ stream = "initial"
  /\ IF conn THEN view' = Tell /\ stream' = "enter"
             ELSE stream' = "done" /\ UNCHANGED view
  /\ UNCHANGED <<lists, health, checker, parent, watched, raised, blamed, events, conn, stopped>>

\* The select reads the two fields again: after Stop they are nil and it never
\* returns, unless it still reads the closed channel.
Select ==
  /\ stream = "enter"
  /\ stream' \in IF stopped THEN {"done", "stuck"} ELSE {"select"}
  /\ UNCHANGED <<lists, health, checker, parent, watched, raised, blamed, events, conn,
                 view, stopped>>

\* The checker hands a device over; when the plugin has been stopped both cases
\* of the select may be ready.
Deliver(d) ==
  /\ stream = "select"
  /\ d \in checker.out /\ ~checker.deaf
  /\ health' = [health EXCEPT ![d] = FALSE]
  /\ checker' = [checker EXCEPT !.out = @ \ {d}]
  /\ stream' = "update"
  /\ UNCHANGED <<lists, parent, watched, raised, blamed, events, conn, view, stopped>>

SendUpdate ==
  /\ stream = "update"
  /\ IF conn THEN view' = Tell /\ stream' = "enter"
             ELSE stream' = "done" /\ UNCHANGED view
  /\ UNCHANGED <<lists, health, checker, parent, watched, raised, blamed, events, conn, stopped>>

StreamStops ==
  /\ stream = "select" /\ stopped
  /\ stream' = "done"
  /\ UNCHANGED <<lists, health, checker, parent, watched, raised, blamed, events, conn,
                 view, stopped>>

\* Stop closes the connections without waiting for the handlers, then the stop
\* channel.
Stop ==
  /\ "stop" \in Faults /\ ~stopped
  /\ stopped' = TRUE /\ conn' = FALSE
  /\ UNCHANGED <<lists, health, checker, parent, watched, raised, blamed, events, stream, view>>

CheckerRuns == Launch \/ (\E d \in Devices : Setup(d)) \/ SetupEnds \/ Loop \/ Wait
StreamRuns == SendInitial \/ Select \/ SendUpdate \/ StreamStops
Handover == \E d \in Devices : Deliver(d)

Next == \/ Open \/ Break \/ Stop
        \/ \E e \in Events : Raise(e)
        \/ CheckerRuns \/ WaitFails
        \/ StreamRuns \/ Handover

Spec == Init /\ [][Next]_vars

\* Both goroutines run on; the kubelet opens the stream of what was registered.
FairSpec == /\ Spec
            /\ WF_vars(Open) /\ WF_vars(CheckerRuns)
            /\ WF_vars(StreamRuns) /\ WF_vars(Handover)
-----------------------------------------------------------------------------
\* Every variable has its type; every list sent to the kubelet is complete.
TypeOK ==
  /\ health \in [Devices -> BOOLEAN]
  /\ checker \in [pc : {"launch", "off", "setup", "loop", "wait", "done"},
                  todo : SUBSET Devices, out : SUBSET Devices, deaf : BOOLEAN]
  /\ DOMAIN parent \subseteq GPUs /\ \A g \in DOMAIN parent : parent[g] \in Devices
  /\ watched \subseteq DOMAIN parent
  /\ events \subseteq raised /\ raised \subseteq Events /\ blamed \subseteq Devices
  /\ stream \in {"none", "initial", "enter", "select", "update", "done", "stuck"}
  /\ conn \in BOOLEAN /\ stopped \in BOOLEAN
  /\ DOMAIN view \in {{}, Devices}

\* The devices an error that is to be examined concerns.
Hit(e) == IF Selected(lists.disable, lists.enable, e.xid)
          THEN {d \in Devices : GPU[d] = e.gpu /\
                  (WholeGPU \notin {e.inst, Instance[d]} => e.inst = Instance[d])}
          ELSE {}

\* No error of a GPU that is watched is lost on its way: as long as a device it
\* concerns is still shown as healthy, either NVML has yet to report it or the
\* check is about to.
ErrorIsNotLost ==
  \A e \in raised : \A d \in Hit(e) :
    ~health[d] \/ e \in events \/ d \in checker.out

\* A device is marked only for an error that concerns it, or because NVML could
\* not watch it or failed while it waited.
NoFalseAlarm ==
  \A d \in Devices : ~health[d] \/ d \in checker.out =>
    d \in blamed \/ \E e \in raised : d \in Hit(e)

\* Between two updates the kubelet's picture is the plugin's.
ViewIsCurrent == conn /\ stream \in {"enter", "select"} => view = health

\* The kubelet learns of every error, unless it went away.
KubeletIsTold ==
  \A d \in Devices :
    (\E e \in raised : d \in Hit(e)) ~> (conn => d \in DOMAIN view /\ ~view[d])

\* After Stop the check ends, but for a device nobody takes from it any more or
\* a stop channel it never got hold of.
CheckEnds == stopped ~> \/ checker.pc \in {"off", "done"}
                        \/ checker.out # {} \/ checker.deaf
=============================================================================
