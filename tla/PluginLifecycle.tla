-------------------------- MODULE PluginLifecycle --------------------------
(***************************************************************************)
(* The process around the plugins (cmd/vgpu/main.go) and what a plugin     *)
(* object leaves running (pkg/plugin/server.go, register.go).  The main    *)
(* loop builds one plugin object per resource, serves each on its socket   *)
(* and registers it with the kubelet; a restart of the kubelet, a SIGHUP   *)
(* or the retry timer stops them and builds new ones.  The object of the   *)
(* resource volcano.sh/vgpu-number also starts WatchAndRegister, which     *)
(* publishes the health of its devices in an annotation of the node and    *)
(* never ends.  A run is one pass through startPlugins: run g's objects,   *)
(* devices and goroutines are its own.  Kubelet, API server and DaemonSet  *)
(* controller are external.                                                *)
(***************************************************************************)
EXTENDS Integers, FiniteSets

CONSTANTS
  Resources, Number,  \* the resources; the one whose plugin registers the node
  Devices,
  MaxTrouble,         \* bound: how often something happens that is no routine
  Faults              \* which of those things may happen

FaultKinds ==
  {"kubelet",  \* the kubelet restarts
   "hup",      \* a SIGHUP arrives
   "quit",     \* a signal to end arrives
   "start",    \* starting a plugin fails
   "config",   \* loading the configuration or building the plugins fails
   "stop",     \* a socket file cannot be removed
   "node",     \* reading or patching the node fails
   "serve",    \* the gRPC server of a plugin returns an error
   "crash"}    \* the process dies; so it does when NVML lost a device

ASSUME ConstantsAssumption ==
  /\ Number \in Resources
  /\ IsFiniteSet(Resources) /\ IsFiniteSet(Devices)
  /\ MaxTrouble \in Nat
  /\ Faults \subseteq FaultKinds

\* A trouble is answered by two restarts at most: of the kubelet, by its new
\* socket and by the retry of a registration it cut off.
MaxRuns == 2 * MaxTrouble + 1
Runs == 1 .. MaxRuns

VARIABLES
  main,     \* the main loop: its place, the plugins yet to start, the one it is at
  run,      \* the number of the current run
  server,   \* server[g][r]: the field plugin.server of run g's plugin for r
  socket,   \* socket[r]: the run whose server listens on the socket file, or 0
  kubelet,  \* kubelet[r]: the run whose plugin the kubelet is connected to, or 0
  pending,  \* what the select of the main loop would find
  health,   \* health[g][d]: the Health field of run g's device d
  reg,      \* reg[g]: run g's WatchAndRegister, and the devices it encoded
  anno,     \* the annotation: the health published last, Unregistered before
  trouble   \* how often something happened

vars == <<main, run, server, socket, kubelet, pending, health, reg, anno, trouble>>

Unregistered == [d \in {} |-> TRUE]
Healthy == [d \in Devices |-> TRUE]
NoServer == [r \in Resources |-> "none"]
Nobody == [r \in Resources |-> 0]
NoReg == [pc |-> "none", snap |-> Unregistered]
At(pc) == [pc |-> pc, todo |-> {}, now |-> {}]

Init == /\ main = At("build")
        /\ run = 0
        /\ server = [g \in Runs |-> NoServer]
        /\ socket = Nobody
        /\ kubelet = Nobody
        /\ pending = {}
        /\ health = [g \in Runs |-> Healthy]
        /\ reg = [g \in Runs |-> NoReg]
        /\ anno = Unregistered
        /\ trouble = 0

\* Something of kind f happens, within the bound.
Trouble(f) == f \in Faults /\ trouble < MaxTrouble /\ trouble' = trouble + 1

\* The process ends: its goroutines, servers and sockets are gone.
ProcessEnds ==
  /\ main' = At("exit")
  /\ server' = [g \in Runs |-> NoServer]
  /\ reg' = [g \in Runs |-> NoReg]
  /\ socket' = Nobody /\ kubelet' = Nobody
  /\ pending' = {}
  /\ UNCHANGED <<run, health, anno>>

-----------------------------------------------------------------------------
(* startPlugins.                                                             *)
Build ==
  /\ main.pc = "build" /\ run < MaxRuns
  /\ \/ /\ main' = [At("start") EXCEPT !.todo = Resources]
        /\ run' = run + 1
        /\ UNCHANGED <<server, socket, kubelet, pending, health, reg, anno, trouble>>
     \/ Trouble("config") /\ ProcessEnds

\* Serve removes the socket file and listens on a new one.
Serve(r) ==
  /\ main.pc = "start" /\ main.now = {} /\ r \in main.todo
  /\ server' = [server EXCEPT ![run][r] = "up"]
  /\ socket' = [socket EXCEPT ![r] = run]
  /\ main' = [main EXCEPT !.now = {r}, !.todo = @ \ {r}]
  /\ UNCHANGED <<run, kubelet, pending, health, reg, anno, trouble>>

\* Mutant of AfterFailure: the timer for the retry is not set.
AfterFailureMutant == pending

AfterFailure == pending \cup {"timer"}

\* The first failure ends startPlugins; the main loop will try again.  The
\* failures leave the server field set (no device count, no MPS daemon) or clear
\* it (the socket cannot be listened on, or does not answer in time: then the
\* server goes on listening).
StartFails(r) ==
  /\ main.pc = "start" /\ main.now = {} /\ r \in main.todo
  /\ Trouble("start")
  /\ \/ server' = [server EXCEPT ![run][r] = "new"] /\ UNCHANGED socket
     \/ socket' \in {[socket EXCEPT ![r] = g] : g \in {0, run}} /\ UNCHANGED server
  /\ main' = At("watch")
  /\ pending' = AfterFailure
  /\ UNCHANGED <<run, kubelet, health, reg, anno>>

\* The kubelet connects to the socket.  If it has restarted in between, it has
\* removed the file, and may or may not say so.
Register(r) ==
  /\ main.now = {r}
  /\ kubelet' = [kubelet EXCEPT ![r] = IF socket[r] = run THEN run ELSE 0]
  /\ main' = IF main.todo = {} THEN At("watch") ELSE [main EXCEPT !.now = {}]
  /\ reg' = IF r = Number THEN [reg EXCEPT ![run].pc = "read"] ELSE reg
  /\ UNCHANGED <<run, server, socket, pending, health, anno, trouble>>

\* A plugin that cannot register is stopped again: nobody listens any more, and the
\* server field is cleared unless the socket file cannot be removed.
RegisterFails(r) ==
  /\ main.now = {r}
  /\ \/ Trouble("start")
     \/ socket[r] # run /\ UNCHANGED trouble
  /\ \E left \in {"none"} \cup IF "stop" \in Faults THEN {"new"} ELSE {} :
       server' = [server EXCEPT ![run][r] = left]
  /\ socket' = [socket EXCEPT ![r] = 0]
  /\ main' = At("watch")
  /\ pending' = AfterFailure
  /\ UNCHANGED <<run, kubelet, health, reg, anno>>

-----------------------------------------------------------------------------
(* The main loop, once the plugins are started.                              *)

\* Mutant of Disconnected: the gRPC servers are not stopped.
DisconnectedMutant == kubelet

\* Stop closes the connections of a server.
Disconnected ==
  [r \in Resources |-> IF server[run][r] # "none" THEN 0 ELSE kubelet[r]]

\* The select takes whatever is there; all of it but a signal to end stops the
\* plugins and builds new ones.  WatchAndRegister is not told.
Restart ==
  /\ main.pc = "watch"
  /\ \E e \in pending \ {"quit"} : pending' = pending \ {e}
  /\ server' = [server EXCEPT ![run] = NoServer]
  /\ socket' = [r \in Resources |-> IF server[run][r] # "none" THEN 0 ELSE socket[r]]
  /\ kubelet' = Disconnected
  /\ main' = At("build")
  /\ UNCHANGED <<run, health, reg, anno, trouble>>

Quit == /\ main.pc = "watch"
        /\ "quit" \in pending
        /\ ProcessEnds
        /\ UNCHANGED trouble

\* stopPlugins fails: so does the process.  What it was called for is counted
\* already.
StopFails == /\ main.pc = "watch"
             /\ pending # {}
             /\ "stop" \in Faults
             /\ ProcessEnds
             /\ UNCHANGED trouble

\* The goroutine of Serve calls the server again, on a listener the first call has
\* closed: it fails at once until restartCount exceeds five, and then ends the
\* process.  If Stop comes in between, the server field it reads is nil and the
\* process ends by that.
ServeCrashes(r) == /\ main.pc # "exit" /\ run > 0 /\ server[run][r] = "up"
                   /\ Trouble("serve")
                   /\ ProcessEnds

-----------------------------------------------------------------------------
(* WatchAndRegister and RegisterInAnnotation.                                *)
RegStep(g, pc, snap) ==
  /\ reg' = [reg EXCEPT ![g] = [pc |-> pc, snap |-> snap]]
  /\ UNCHANGED <<main, run, server, socket, kubelet, pending, health>>

\* Mutant of Encoded: only the healthy devices are encoded.
EncodedMutant(g) == [d \in {e \in Devices : health[g][e]} |-> TRUE]

Encoded(g) == health[g]

\* Mutant of Woken: the devices are encoded once and for all.
WokenMutant == {"read"}

\* The devices are read at the start of every round.
Woken == {"read", "sleep"}

Read(g) == /\ reg[g].pc \in Woken
           /\ RegStep(g, "get", Encoded(g))
           /\ UNCHANGED <<anno, trouble>>

\* The node is patched only if its annotation says something else.
GetNode(g) ==
  /\ reg[g].pc = "get"
  /\ RegStep(g, IF anno = reg[g].snap THEN "sleep" ELSE "patch", reg[g].snap)
  /\ UNCHANGED <<anno, trouble>>

Patch(g) == /\ reg[g].pc = "patch"
            /\ RegStep(g, "sleep", reg[g].snap)
            /\ anno' = reg[g].snap
            /\ UNCHANGED trouble

\* An error of either request: the loop tries again five seconds later.
NodeFails(g) == /\ reg[g].pc \in {"get", "patch"}
                /\ Trouble("node")
                /\ RegStep(g, "sleep", reg[g].snap)
                /\ UNCHANGED anno

-----------------------------------------------------------------------------
(* The rest of the node (external).                                          *)

\* Mutant of Mark: a second event of a device makes it healthy again.
MarkMutant(g, d) ==
  /\ kubelet[Number] = g
  /\ health' = [health EXCEPT ![g][d] = ~@]
  /\ UNCHANGED <<main, run, server, socket, kubelet, pending, reg, anno, trouble>>

\* The health check finds an error, which the plugin's stream to the kubelet takes
\* (module HealthCheck).
Mark(g, d) ==
  /\ kubelet[Number] = g /\ health[g][d]
  /\ health' = [health EXCEPT ![g][d] = FALSE]
  /\ UNCHANGED <<main, run, server, socket, kubelet, pending, reg, anno, trouble>>

\* A starting kubelet empties the directory of the sockets and creates its own.
KubeletRestarts ==
  /\ Trouble("kubelet")
  /\ socket' = Nobody /\ kubelet' = Nobody
  /\ pending' = IF main.pc = "exit" THEN {} ELSE pending \cup {"created"}
  /\ UNCHANGED <<main, run, server, health, reg, anno>>

Signal(s) ==
  /\ main.pc # "exit"
  /\ Trouble(s)
  /\ pending' = pending \cup {s}
  /\ UNCHANGED <<main, run, server, socket, kubelet, health, reg, anno>>

Crash == main.pc # "exit" /\ Trouble("crash") /\ ProcessEnds

\* The DaemonSet starts the process again.
Boot == /\ main.pc = "exit"
        /\ main' = At("build")
        /\ UNCHANGED <<run, server, socket, kubelet, pending, health, reg, anno, trouble>>

MainRuns == \/ Build \/ Restart \/ Quit
            \/ \E r \in Resources : Serve(r) \/ Register(r) \/ RegisterFails(r)

RegRuns(g) == Read(g) \/ GetNode(g) \/ Patch(g)

Next == \/ MainRuns \/ StopFails
        \/ \E r \in Resources : StartFails(r) \/ ServeCrashes(r)
        \/ \E g \in Runs : RegRuns(g) \/ NodeFails(g)
        \/ \E g \in Runs, d \in Devices : Mark(g, d)
        \/ KubeletRestarts \/ Signal("hup") \/ Signal("quit") \/ Crash \/ Boot

Spec == Init /\ [][Next]_vars

\* The main loop takes what it finds and the timer rings; a goroutine runs on;
\* the DaemonSet restarts what ended.
FairSpec == /\ Spec
            /\ WF_vars(MainRuns) /\ WF_vars(Boot)
            /\ \A g \in Runs : WF_vars(RegRuns(g))
-----------------------------------------------------------------------------
\* Every variable has its type; what is published tells of every device.
TypeOK ==
  /\ main \in [pc : {"build", "start", "watch", "exit"},
              todo : SUBSET Resources, now : SUBSET Resources]
  /\ run \in 0 .. MaxRuns
  /\ server \in [Runs -> [Resources -> {"none", "new", "up"}]]
  /\ socket \in [Resources -> 0 .. MaxRuns]
  /\ kubelet \in [Resources -> 0 .. MaxRuns]
  /\ pending \subseteq {"created", "hup", "quit", "timer"}
  /\ health \in [Runs -> [Devices -> BOOLEAN]]
  /\ \A g \in Runs : /\ reg[g].pc \in {"none", "read", "get", "patch", "sleep"}
                     /\ reg[g].snap \in IF reg[g].pc \in {"none", "read"}
                                          THEN {Unregistered} ELSE [Devices -> BOOLEAN]
  /\ anno \in {Unregistered} \cup [Devices -> BOOLEAN]
  /\ trouble \in 0 .. MaxTrouble

\* The kubelet is connected to no plugin that was stopped or left behind: what
\* it allocates from is served by the current run.
KubeletHoldsCurrent ==
  \A r \in Resources : kubelet[r] # 0 =>
    kubelet[r] = run /\ server[run][r] = "up" /\ socket[r] = run

\* Whatever happens, and in whatever order the kubelet, the signals and the
\* timer come, the kubelet ends up connected to every plugin of the last run.
ServedInTheEnd ==
  <>[](run > 0 /\ \A r \in Resources : kubelet[r] = run)

\* The node ends up carrying the health of the devices the kubelet is served,
\* unless the goroutine of a stopped plugin goes on publishing beside that of the
\* current one.
AnnotationSettles ==
  <>[](\/ run > 0 /\ anno = health[run]
       \/ \E g \in Runs \ {run} : reg[g].pc # "none")

\* A device published as unhealthy comes back only with a restart of the plugins:
\* the devices of a run never recover, and only a second run brings new ones.
RecoversByRestart ==
  [][(\E d \in DOMAIN anno : ~anno[d] /\ anno'[d]) => run > 1]_vars
=============================================================================
