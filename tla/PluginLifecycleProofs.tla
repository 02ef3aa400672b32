----------------------- MODULE PluginLifecycleProofs -----------------------
(***************************************************************************)
(* Theorems about PluginLifecycle: which plugins the kubelet is connected  *)
(* to, and what the annotation of the node may take back, for every number *)
(* of resources, devices and restarts and in every order of the signals.   *)
(***************************************************************************)
EXTENDS PluginLifecycle, TLAPS

Places == {"build", "start", "watch", "exit"}
MainStates == [pc : Places, todo : SUBSET Resources, now : SUBSET Resources]
ServerStates == {"none", "new", "up"}

\* A goroutine of WatchAndRegister has encoded the devices, or not yet.
RegStates == [pc : {"none", "read"}, snap : {Unregistered}]
             \cup [pc : {"get", "patch", "sleep"}, snap : [Devices -> BOOLEAN]]

Typed ==
  /\ main \in MainStates
  /\ run \in 0 .. MaxRuns
  /\ server \in [Runs -> [Resources -> ServerStates]]
  /\ socket \in [Resources -> 0 .. MaxRuns]
  /\ kubelet \in [Resources -> 0 .. MaxRuns]
  /\ pending \subseteq {"created", "hup", "quit", "timer"}
  /\ health \in [Runs -> [Devices -> BOOLEAN]]
  /\ reg \in [Runs -> RegStates]
  /\ anno \in {Unregistered} \cup [Devices -> BOOLEAN]
  /\ trouble \in 0 .. MaxTrouble

\* Plugins are started one after the other, in a run that has begun, and a run has no
\* goroutine before it has registered the plugin that starts it.
Order ==
  /\ main.pc # "start" => main.todo = {} /\ main.now = {}
  /\ main.pc \in {"start", "watch"} => run \in Runs
  /\ main.now \cap main.todo = {}
  /\ \A g \in Runs : g > run => reg[g] = NoReg
  /\ main.pc = "start" /\ Number \in main.todo \cup main.now => reg[run] = NoReg

\* The kubelet is connected to nothing that is yet to be registered.
Connected ==
  /\ KubeletHoldsCurrent
  /\ main.pc \in {"build", "exit"} => \A r \in Resources : kubelet[r] = 0
  /\ \A r \in main.todo \cup main.now : kubelet[r] = 0
  /\ \A r \in main.now : server[run][r] = "up"

-----------------------------------------------------------------------------
(* Types.                                                                    *)

LEMMA RunsAreNat == MaxRuns \in Nat \ {0} /\ Runs \subseteq Nat \ {0} /\ 0 \notin Runs /\ 1 \in Runs
BY ConstantsAssumption DEF MaxRuns, Runs

LEMMA TypedMeans == Typed => TypeOK
<1> SUFFICES ASSUME Typed
             PROVE  TypeOK
  OBVIOUS
<1>1. \A g \in Runs : /\ reg[g].pc \in {"none", "read", "get", "patch", "sleep"}
                      /\ reg[g].snap \in IF reg[g].pc \in {"none", "read"}
                                           THEN {Unregistered} ELSE [Devices -> BOOLEAN]
  <2> TAKE g \in Runs
  <2>1. reg[g] \in RegStates
    BY DEF Typed
  <2>2. CASE reg[g] \in [pc : {"none", "read"}, snap : {Unregistered}]
    BY <2>2
  <2>3. CASE reg[g] \in [pc : {"get", "patch", "sleep"}, snap : [Devices -> BOOLEAN]]
    BY <2>3
  <2> QED BY <2>1, <2>2, <2>3 DEF RegStates
<1> QED BY <1>1 DEF Typed, TypeOK, MainStates, Places, ServerStates

LEMMA NoRegTyped == NoReg \in RegStates /\ NoReg.pc = "none"
BY DEF NoReg, RegStates

LEMMA NoServerTyped == NoServer \in [Resources -> ServerStates]
BY DEF NoServer, ServerStates

LEMMA NobodyTyped == Nobody \in [Resources -> 0 .. MaxRuns] /\ \A r \in Resources : Nobody[r] = 0
BY RunsAreNat DEF Nobody

LEMMA AtTyped ==
  ASSUME NEW pc \in Places
  PROVE  At(pc) \in MainStates /\ At(pc).pc = pc /\ At(pc).todo = {} /\ At(pc).now = {}
BY DEF At, MainStates

LEMMA InvInit == Init => Typed /\ Order /\ Connected
<1> SUFFICES ASSUME Init
             PROVE  Typed /\ Order /\ Connected
  OBVIOUS
<1>1. main \in MainStates /\ main.pc = "build" /\ main.todo = {} /\ main.now = {}
  BY AtTyped DEF Init, Places
<1>2. reg \in [Runs -> RegStates] /\ \A g \in Runs : reg[g] = NoReg
  BY NoRegTyped DEF Init
<1>3. server \in [Runs -> [Resources -> ServerStates]]
  BY NoServerTyped DEF Init
<1>4. health \in [Runs -> [Devices -> BOOLEAN]]
  BY DEF Init, Healthy
<1>5. run \in 0 .. MaxRuns /\ trouble \in 0 .. MaxTrouble
  BY RunsAreNat, ConstantsAssumption DEF Init
<1>6. /\ socket \in [Resources -> 0 .. MaxRuns]
      /\ kubelet \in [Resources -> 0 .. MaxRuns] /\ \A r \in Resources : kubelet[r] = 0
  BY NobodyTyped DEF Init
<1>7. Typed
  BY <1>1, <1>2, <1>3, <1>4, <1>5, <1>6 DEF Init, Typed
<1> QED BY <1>1, <1>2, <1>6, <1>7 DEF Order, Connected, KubeletHoldsCurrent

LEMMA TroubleTyped ==
  ASSUME Typed, NEW f, Trouble(f)
  PROVE  trouble' \in 0 .. MaxTrouble
BY ConstantsAssumption DEF Typed, Trouble

LEMMA EndsKeeps ==
  ASSUME Typed, Order, ProcessEnds, trouble' \in 0 .. MaxTrouble
  PROVE  Typed' /\ Order' /\ Connected'
<1>1. main' \in MainStates /\ main'.pc = "exit" /\ main'.todo = {} /\ main'.now = {}
  BY AtTyped DEF ProcessEnds, Places
<1>2. reg' \in [Runs -> RegStates] /\ \A g \in Runs : reg'[g] = NoReg
  BY NoRegTyped DEF ProcessEnds
<1>3. server' \in [Runs -> [Resources -> ServerStates]]
  BY NoServerTyped DEF ProcessEnds
<1>4. /\ socket' \in [Resources -> 0 .. MaxRuns]
      /\ kubelet' \in [Resources -> 0 .. MaxRuns] /\ \A r \in Resources : kubelet'[r] = 0
  BY NobodyTyped DEF ProcessEnds
<1>5. pending' = {} /\ UNCHANGED <<run, health, anno>>
  BY DEF ProcessEnds
<1>6. Typed'
  BY <1>1, <1>2, <1>3, <1>4, <1>5 DEF Typed
<1> QED BY <1>1, <1>2, <1>4, <1>6 DEF Order, Connected, KubeletHoldsCurrent

-----------------------------------------------------------------------------
(* The main loop, one lemma per action.                                      *)

LEMMA BuildKeeps ==
  ASSUME Typed, Order, Connected, Build
  PROVE  Typed' /\ Order' /\ Connected'
<1>1. CASE Trouble("config") /\ ProcessEnds
  BY <1>1, TroubleTyped, EndsKeeps
<1>2. CASE /\ main' = [At("start") EXCEPT !.todo = Resources]
           /\ run' = run + 1
           /\ UNCHANGED <<server, socket, kubelet, pending, health, reg, anno, trouble>>
  <2>1. main' = [pc |-> "start", todo |-> Resources, now |-> {}]
    BY <1>2 DEF At
  <2>2. main' \in MainStates /\ main'.pc = "start" /\ main'.todo \subseteq Resources /\ main'.now = {}
    BY <2>1 DEF MainStates, Places
  <2>3. run' \in Runs /\ run' \in 0 .. MaxRuns /\ run \in Nat /\ run' > run
    BY <1>2, RunsAreNat DEF Build, Typed, Runs
  <2>4. reg[run'] = NoReg /\ \A g \in Runs : g > run' => reg[g] = NoReg
    BY <1>2, <2>3, RunsAreNat DEF Order
  <2>5. \A r \in Resources : kubelet[r] = 0
    BY DEF Build, Connected
  <2>6. Typed'
    BY <1>2, <2>2, <2>3 DEF Typed
  <2>7. Order'
    BY <1>2, <2>2, <2>3, <2>4 DEF Order
  <2>8. Connected'
    BY <1>2, <2>2, <2>5 DEF Connected, KubeletHoldsCurrent
  <2> QED BY <2>6, <2>7, <2>8
<1> QED BY <1>1, <1>2 DEF Build

LEMMA ServeKeeps ==
  ASSUME Typed, Order, Connected, NEW r \in Resources, Serve(r)
  PROVE  Typed' /\ Order' /\ Connected'
<1>1. run \in Runs /\ run \in 0 .. MaxRuns /\ main.pc = "start" /\ r \in main.todo /\ main.now = {}
  BY DEF Serve, Order, Typed
<1>2. /\ main' \in MainStates /\ main'.pc = "start"
      /\ main'.now = {r} /\ main'.todo = main.todo \ {r}
  BY <1>1 DEF Serve, Typed, MainStates
<1>3. /\ server' = [server EXCEPT ![run] = [server[run] EXCEPT ![r] = "up"]]
      /\ socket' = [socket EXCEPT ![r] = run]
      /\ UNCHANGED <<run, kubelet, pending, health, reg, anno, trouble>>
  BY DEF Serve
<1>4. server[run] \in [Resources -> ServerStates]
  BY <1>1 DEF Typed
<1>5. /\ server' \in [Runs -> [Resources -> ServerStates]]
      /\ server'[run][r] = "up" /\ \A q \in Resources \ {r} : server'[run][q] = server[run][q]
  BY <1>1, <1>3, <1>4 DEF Typed, ServerStates
<1>6. socket' \in [Resources -> 0 .. MaxRuns]
      /\ \A q \in Resources \ {r} : socket'[q] = socket[q]
  BY <1>1, <1>3 DEF Typed
<1>7. kubelet[r] = 0
  BY <1>1 DEF Connected
<1>8. Typed'
  BY <1>2, <1>3, <1>5, <1>6 DEF Typed
<1>9. Order'
  BY <1>1, <1>2, <1>3 DEF Order
<1>10. Connected'
  BY <1>1, <1>2, <1>3, <1>5, <1>6, <1>7 DEF Connected, KubeletHoldsCurrent, Typed
<1> QED BY <1>8, <1>9, <1>10

\* The main loop waits: a plugin the kubelet is not connected to has changed.
LEMMA WatchKeeps ==
  ASSUME Typed, Order, Connected, NEW r \in Resources,
         run \in Runs, main' = At("watch"), kubelet[r] = 0,
         server' \in [Runs -> [Resources -> ServerStates]],
         \A q \in Resources \ {r} : server'[run][q] = server[run][q],
         socket' \in [Resources -> 0 .. MaxRuns],
         \A q \in Resources \ {r} : socket'[q] = socket[q],
         pending' = AfterFailure, trouble' \in 0 .. MaxTrouble,
         UNCHANGED <<run, kubelet, health, reg, anno>>
  PROVE  Typed' /\ Order' /\ Connected'
<1>1. main' \in MainStates /\ main'.pc = "watch" /\ main'.todo = {} /\ main'.now = {}
  BY AtTyped DEF Places
<1>2. pending' \subseteq {"created", "hup", "quit", "timer"}
  BY DEF AfterFailure, Typed
<1>3. Typed'
  BY <1>1, <1>2 DEF Typed
<1>4. Order'
  BY <1>1 DEF Order
<1>5. Connected'
  BY <1>1 DEF Connected, KubeletHoldsCurrent
<1> QED BY <1>3, <1>4, <1>5

LEMMA StartFailsKeeps ==
  ASSUME Typed, Order, Connected, NEW r \in Resources, StartFails(r)
  PROVE  Typed' /\ Order' /\ Connected'
<1>1. run \in Runs /\ run \in 0 .. MaxRuns /\ 0 \in 0 .. MaxRuns /\ kubelet[r] = 0
  BY RunsAreNat DEF StartFails, Order, Typed, Connected
<1>2. trouble' \in 0 .. MaxTrouble
  BY TroubleTyped DEF StartFails
<1>3. /\ server' \in [Runs -> [Resources -> ServerStates]]
      /\ \A q \in Resources \ {r} : server'[run][q] = server[run][q]
  <2>1. server[run] \in [Resources -> ServerStates]
    BY <1>1 DEF Typed
  <2>2. \/ server' = [server EXCEPT ![run] = [server[run] EXCEPT ![r] = "new"]]
        \/ server' = server
    BY DEF StartFails
  <2> QED BY <1>1, <2>1, <2>2 DEF Typed, ServerStates
<1>4. /\ socket' \in [Resources -> 0 .. MaxRuns]
      /\ \A q \in Resources \ {r} : socket'[q] = socket[q]
  <2>1. socket' = socket \/ \E g \in {0, run} : socket' = [socket EXCEPT ![r] = g]
    BY DEF StartFails
  <2> QED BY <1>1, <2>1 DEF Typed
<1>5. /\ main' = At("watch") /\ pending' = AfterFailure
      /\ UNCHANGED <<run, kubelet, health, reg, anno>>
  BY DEF StartFails
<1> QED BY <1>1, <1>2, <1>3, <1>4, <1>5, WatchKeeps

LEMMA RegisterFailsKeeps ==
  ASSUME Typed, Order, Connected, NEW r \in Resources, RegisterFails(r)
  PROVE  Typed' /\ Order' /\ Connected'
<1>1. run \in Runs /\ 0 \in 0 .. MaxRuns /\ kubelet[r] = 0
  BY RunsAreNat DEF RegisterFails, Order, Typed, Connected, MainStates
<1>2. trouble' \in 0 .. MaxTrouble
  BY TroubleTyped DEF RegisterFails, Typed
<1>3. /\ server' \in [Runs -> [Resources -> ServerStates]]
      /\ \A q \in Resources \ {r} : server'[run][q] = server[run][q]
  <2>1. server[run] \in [Resources -> ServerStates]
    BY <1>1 DEF Typed
  <2>2. PICK left \in {"none", "new"} :
          server' = [server EXCEPT ![run] = [server[run] EXCEPT ![r] = left]]
    BY Zenon DEF RegisterFails
  <2> QED BY <1>1, <2>1, <2>2 DEF Typed, ServerStates
<1>4. /\ socket' \in [Resources -> 0 .. MaxRuns]
      /\ \A q \in Resources \ {r} : socket'[q] = socket[q]
  BY <1>1 DEF RegisterFails, Typed
<1>5. /\ main' = At("watch") /\ pending' = AfterFailure
      /\ UNCHANGED <<run, kubelet, health, reg, anno>>
  BY DEF RegisterFails
<1> QED BY <1>1, <1>2, <1>3, <1>4, <1>5, WatchKeeps

LEMMA RegisterKeeps ==
  ASSUME Typed, Order, Connected, NEW r \in Resources, Register(r)
  PROVE  Typed' /\ Order' /\ Connected'
<1>1. /\ main.pc = "start" /\ main.now = {r} /\ r \notin main.todo /\ main.todo \subseteq Resources
      /\ run \in Runs /\ run \in 0 .. MaxRuns /\ run # 0 /\ 0 \in 0 .. MaxRuns
  BY RunsAreNat DEF Register, Order, Typed, MainStates
<1>2. /\ main' \in MainStates /\ main'.now = {} /\ main'.todo = main.todo
      /\ main'.pc \in {"start", "watch"} /\ (main'.pc = "start" \/ main'.todo = {})
  <2>1. CASE main.todo = {}
    BY <2>1, AtTyped DEF Register, Places
  <2>2. CASE main.todo # {}
    <3>1. main' = [main EXCEPT !.now = {}]
      BY <2>2 DEF Register
    <3> QED BY <1>1, <3>1 DEF Typed, MainStates
  <2> QED BY <2>1, <2>2
<1>3. kubelet' = [kubelet EXCEPT ![r] = IF socket[r] = run THEN run ELSE 0]
      /\ UNCHANGED <<run, server, socket, pending, health, anno, trouble>>
  BY DEF Register
<1>4. /\ kubelet' \in [Resources -> 0 .. MaxRuns]
      /\ kubelet'[r] # 0 => kubelet'[r] = run /\ socket[r] = run
      /\ \A q \in Resources \ {r} : kubelet'[q] = kubelet[q]
  BY <1>1, <1>3 DEF Typed
<1>5. /\ reg' \in [Runs -> RegStates]
      /\ \A g \in Runs \ {run} : reg'[g] = reg[g]
      /\ r # Number => reg' = reg
  <2>1. CASE r # Number
    BY <2>1 DEF Register, Typed
  <2>2. CASE r = Number
    <3>1. reg[run] = NoReg
      BY <1>1, <2>2 DEF Order
    <3>2. [reg[run] EXCEPT !.pc = "read"] \in RegStates
      BY <3>1 DEF NoReg, RegStates
    <3>3. reg' = [reg EXCEPT ![run] = [reg[run] EXCEPT !.pc = "read"]]
      BY <2>2 DEF Register
    <3> QED BY <1>1, <2>2, <3>2, <3>3 DEF Typed
  <2> QED BY <2>1, <2>2
<1>6. Typed'
  BY <1>2, <1>3, <1>4, <1>5 DEF Typed
<1>7. Order'
  <2>1. \A g \in Runs : g > run => reg'[g] = NoReg
    BY <1>1, <1>5, RunsAreNat DEF Order
  <2>2. Number \in main'.todo => reg'[run] = NoReg
    BY <1>1, <1>2, <1>5 DEF Order
  <2> QED BY <1>1, <1>2, <1>3, <2>1, <2>2 DEF Order
<1>8. server[run][r] = "up"
  BY <1>1 DEF Connected
<1>9. Connected'
  BY <1>1, <1>2, <1>3, <1>4, <1>8 DEF Connected, KubeletHoldsCurrent
<1> QED BY <1>6, <1>7, <1>9

LEMMA RestartKeeps ==
  ASSUME Typed, Order, Connected, Restart
  PROVE  Typed' /\ Order' /\ Connected'
<1>1. run \in Runs /\ 0 \in 0 .. MaxRuns
  BY RunsAreNat DEF Restart, Order
<1>2. main' \in MainStates /\ main'.pc = "build" /\ main'.todo = {} /\ main'.now = {}
  BY AtTyped DEF Restart, Places
<1>3. /\ kubelet' = [r \in Resources |-> IF server[run][r] # "none" THEN 0 ELSE kubelet[r]]
      /\ socket' = [r \in Resources |-> IF server[run][r] # "none" THEN 0 ELSE socket[r]]
      /\ UNCHANGED <<run, health, reg, anno, trouble>>
  BY DEF Restart, Disconnected
<1>4. /\ kubelet' \in [Resources -> 0 .. MaxRuns] /\ socket' \in [Resources -> 0 .. MaxRuns]
      /\ \A r \in Resources : kubelet'[r] = 0
  BY <1>1, <1>3 DEF Typed, Connected, KubeletHoldsCurrent
<1>5. server' \in [Runs -> [Resources -> ServerStates]]
  BY <1>1, NoServerTyped DEF Restart, Typed
<1>6. pending' \subseteq {"created", "hup", "quit", "timer"}
  BY DEF Restart, Typed
<1>7. Typed'
  BY <1>2, <1>3, <1>4, <1>5, <1>6 DEF Typed
<1>8. Order'
  BY <1>2, <1>3 DEF Order
<1>9. Connected'
  BY <1>2, <1>4 DEF Connected, KubeletHoldsCurrent
<1> QED BY <1>7, <1>8, <1>9

LEMMA BootKeeps ==
  ASSUME Typed, Order, Connected, Boot
  PROVE  Typed' /\ Order' /\ Connected'
<1>1. main' \in MainStates /\ main'.pc = "build" /\ main'.todo = {} /\ main'.now = {}
  BY AtTyped DEF Boot, Places
<1>2. UNCHANGED <<run, server, socket, kubelet, pending, health, reg, anno, trouble>>
  BY DEF Boot
<1>3. \A r \in Resources : kubelet[r] = 0
  BY DEF Boot, Connected
<1> QED BY <1>1, <1>2, <1>3 DEF Typed, Order, Connected, KubeletHoldsCurrent

-----------------------------------------------------------------------------
(* The kubelet, the signals and the goroutine.                               *)

LEMMA KubeletRestartsKeeps ==
  ASSUME Typed, Order, Connected, KubeletRestarts
  PROVE  Typed' /\ Order' /\ Connected'
<1>1. /\ socket' \in [Resources -> 0 .. MaxRuns]
      /\ kubelet' \in [Resources -> 0 .. MaxRuns] /\ \A r \in Resources : kubelet'[r] = 0
  BY NobodyTyped DEF KubeletRestarts
<1>2. trouble' \in 0 .. MaxTrouble
  BY TroubleTyped DEF KubeletRestarts
<1>3. pending' \subseteq {"created", "hup", "quit", "timer"}
  BY DEF KubeletRestarts, Typed
<1>4. UNCHANGED <<main, run, server, health, reg, anno>>
  BY DEF KubeletRestarts
<1>5. main.todo \cup main.now \subseteq Resources
  BY DEF Typed, MainStates
<1> QED BY <1>1, <1>2, <1>3, <1>4, <1>5 DEF Typed, Order, Connected, KubeletHoldsCurrent

LEMMA SignalKeeps ==
  ASSUME Typed, Order, Connected, NEW s \in {"hup", "quit"}, Signal(s)
  PROVE  Typed' /\ Order' /\ Connected'
<1>1. trouble' \in 0 .. MaxTrouble
  BY TroubleTyped DEF Signal
<1>2. pending' \subseteq {"created", "hup", "quit", "timer"}
  BY DEF Signal, Typed
<1>3. UNCHANGED <<main, run, server, socket, kubelet, health, reg, anno>>
  BY DEF Signal
<1> QED BY <1>1, <1>2, <1>3 DEF Typed, Order, Connected, KubeletHoldsCurrent

LEMMA MarkKeeps ==
  ASSUME Typed, Order, Connected, NEW g \in Runs, NEW d \in Devices, Mark(g, d)
  PROVE  Typed' /\ Order' /\ Connected'
<1>1. health[g] \in [Devices -> BOOLEAN]
  BY DEF Typed
<1>2. health' \in [Runs -> [Devices -> BOOLEAN]]
  BY <1>1 DEF Mark, Typed
<1>3. UNCHANGED <<main, run, server, socket, kubelet, pending, reg, anno, trouble>>
  BY DEF Mark
<1> QED BY <1>2, <1>3 DEF Typed, Order, Connected, KubeletHoldsCurrent

\* What a step of a goroutine writes: it has been started, and goes on as one.
LEMMA GoroutineSteps ==
  ASSUME Typed, NEW g \in Runs, RegRuns(g) \/ NodeFails(g)
  PROVE  /\ reg[g].pc # "none"
         /\ \E s \in RegStates : reg' = [reg EXCEPT ![g] = s]
         /\ anno' \in {Unregistered} \cup [Devices -> BOOLEAN]
         /\ trouble' \in 0 .. MaxTrouble
         /\ UNCHANGED <<main, run, server, socket, kubelet, pending, health>>
<1>1. reg[g] \in RegStates /\ health[g] \in [Devices -> BOOLEAN]
  BY DEF Typed
<1>2. CASE Read(g)
  <2>1. reg' = [reg EXCEPT ![g] = [pc |-> "get", snap |-> health[g]]]
    BY <1>2 DEF Read, RegStep, Encoded
  <2>2. [pc |-> "get", snap |-> health[g]] \in RegStates
    BY <1>1 DEF RegStates
  <2> QED BY <1>2, <2>1, <2>2 DEF Read, RegStep, Woken, Typed
<1>3. CASE GetNode(g) \/ Patch(g) \/ NodeFails(g)
  <2>1. reg[g].pc \in {"get", "patch"}
    BY <1>3 DEF GetNode, Patch, NodeFails
  <2>2. reg[g].snap \in [Devices -> BOOLEAN]
    BY <1>1, <2>1 DEF RegStates
  <2>3. PICK pc \in {"patch", "sleep"} : reg' = [reg EXCEPT ![g] = [pc |-> pc, snap |-> reg[g].snap]]
    BY <1>3, Zenon DEF GetNode, Patch, NodeFails, RegStep
  <2>4. [pc |-> pc, snap |-> reg[g].snap] \in RegStates
    BY <2>2 DEF RegStates
  <2>5. anno' = anno \/ anno' = reg[g].snap
    BY <1>3, Zenon DEF GetNode, Patch, NodeFails
  <2>6. trouble' \in 0 .. MaxTrouble
    BY <1>3, TroubleTyped DEF GetNode, Patch, NodeFails, Typed
  <2>7. UNCHANGED <<main, run, server, socket, kubelet, pending, health>>
    BY <1>3, Zenon DEF GetNode, Patch, NodeFails, RegStep
  <2> QED BY <2>1, <2>2, <2>3, <2>4, <2>5, <2>6, <2>7 DEF Typed
<1> QED BY <1>2, <1>3 DEF RegRuns

LEMMA GoroutineKeeps ==
  ASSUME Typed, Order, Connected, NEW g \in Runs, RegRuns(g) \/ NodeFails(g)
  PROVE  Typed' /\ Order' /\ Connected'
<1>1. UNCHANGED <<main, run, server, socket, kubelet, pending, health>>
  BY GoroutineSteps
<1>2. PICK s \in RegStates : reg' = [reg EXCEPT ![g] = s]
  BY GoroutineSteps
<1>3. reg' \in [Runs -> RegStates] /\ \A f \in Runs \ {g} : reg'[f] = reg[f]
  BY <1>2 DEF Typed
<1>4. Typed'
  BY <1>1, <1>3, GoroutineSteps DEF Typed
<1>5. reg[g] # NoReg
  BY NoRegTyped, GoroutineSteps
<1>6. Order'
  BY <1>1, <1>3, <1>5 DEF Order
<1>7. Connected'
  BY <1>1 DEF Connected, KubeletHoldsCurrent
<1> QED BY <1>4, <1>6, <1>7

LEMMA InvNext == Typed /\ Order /\ Connected /\ [Next]_vars => Typed' /\ Order' /\ Connected'
<1> SUFFICES ASSUME Typed, Order, Connected, [Next]_vars
             PROVE  Typed' /\ Order' /\ Connected'
  OBVIOUS
<1>1. CASE Quit \/ StopFails \/ Crash \/ \E r \in Resources : ServeCrashes(r)
  <2>1. ProcessEnds
    BY <1>1 DEF Quit, StopFails, Crash, ServeCrashes
  <2>2. trouble' \in 0 .. MaxTrouble
    BY <1>1, TroubleTyped DEF Quit, StopFails, Crash, ServeCrashes, Typed
  <2> QED BY <2>1, <2>2, EndsKeeps
<1>2. CASE UNCHANGED vars
  BY <1>2 DEF vars, Typed, Order, Connected, KubeletHoldsCurrent
<1> QED
  BY <1>1, <1>2, BuildKeeps, ServeKeeps, StartFailsKeeps, RegisterKeeps, RegisterFailsKeeps,
     RestartKeeps, BootKeeps, KubeletRestartsKeeps, SignalKeeps, MarkKeeps, GoroutineKeeps
  DEF Next, MainRuns

\* Every variable has its type, and what is published tells of every device
\* (startPlugins, stopPlugins, WatchAndRegister).
THEOREM TypeCorrect == Spec => []TypeOK
BY InvInit, InvNext, TypedMeans, PTL DEF Spec

\* What the kubelet allocates from is served by the current run, whatever restarts,
\* fails or dies, and in whatever order it does (start, startPlugins, Stop).
THEOREM KubeletStaysCurrent == Spec => []KubeletHoldsCurrent
<1>1. Connected => KubeletHoldsCurrent
  BY DEF Connected
<1> QED BY <1>1, InvInit, InvNext, PTL DEF Spec

-----------------------------------------------------------------------------
(* What the annotation may take back.                                        *)

\* A device that a goroutine has found unhealthy is unhealthy, as its run knows it;
\* so is a device the first run has published as unhealthy, and what that run has
\* read since says so as well.
Remembers ==
  /\ \A g \in Runs, d \in Devices :
       reg[g].pc \in {"get", "patch", "sleep"} /\ ~reg[g].snap[d] => ~health[g][d]
  /\ run <= 1 => \A d \in Devices : d \in DOMAIN anno /\ ~anno[d] =>
       /\ ~health[1][d]
       /\ reg[1].pc \in {"get", "patch", "sleep"} => ~reg[1].snap[d]

LEMMA RemembersInit == Init => Remembers
BY DEF Init, NoReg, Unregistered, Remembers

\* The goroutines that have read the devices in the first run: only its own.
LEMMA FirstRun ==
  ASSUME Typed, Order, NEW g \in Runs, reg[g].pc # "none", run <= 1
  PROVE  g = 1
<1>1. ~(g > run)
  BY NoRegTyped DEF Order
<1>2. run \in Nat /\ g \in Nat \ {0}
  BY RunsAreNat DEF Typed
<1> QED BY <1>1, <1>2

\* Steps of the main loop, the kubelet and the signals.
LEMMA RemembersQuiet ==
  ASSUME Typed, Remembers, run' \in {run, run + 1}, UNCHANGED <<health, anno>>,
         \A g \in Runs : reg'[g] = reg[g] \/ reg'[g].pc \in {"none", "read"}
  PROVE  Remembers'
<1>1. run' <= 1 => run <= 1
  BY RunsAreNat DEF Typed
<1>2. 1 \in Runs
  BY RunsAreNat
<1> QED BY <1>1, <1>2 DEF Remembers

LEMMA RemembersMark ==
  ASSUME Typed, Remembers, NEW g \in Runs, NEW d \in Devices, Mark(g, d)
  PROVE  Remembers'
<1>1. health[g] \in [Devices -> BOOLEAN] /\ 1 \in Runs
  BY RunsAreNat DEF Typed
<1>2. health' = [health EXCEPT ![g] = [health[g] EXCEPT ![d] = FALSE]]
  BY DEF Mark
<1>3. \A f \in Runs, e \in Devices : ~health[f][e] => ~health'[f][e]
  BY <1>1, <1>2 DEF Typed
<1>4. UNCHANGED <<run, reg, anno>>
  BY DEF Mark
<1> QED BY <1>1, <1>3, <1>4 DEF Remembers

LEMMA RemembersRead ==
  ASSUME Typed, Order, Remembers, NEW g \in Runs, Read(g)
  PROVE  Remembers'
<1>1. reg' = [reg EXCEPT ![g] = [pc |-> "get", snap |-> health[g]]]
      /\ UNCHANGED <<run, health, anno>>
  BY DEF Read, RegStep, Encoded
<1>2. reg'[g].snap = health[g] /\ \A f \in Runs \ {g} : reg'[f] = reg[f]
  BY <1>1 DEF Typed
<1>3. 1 \in Runs
  BY RunsAreNat
<1> QED BY <1>1, <1>2, <1>3 DEF Remembers

LEMMA RemembersWrite ==
  ASSUME Typed, Order, Remembers, NEW g \in Runs, GetNode(g) \/ Patch(g) \/ NodeFails(g)
  PROVE  Remembers'
<1>1. reg[g].pc \in {"get", "patch"} /\ reg[g] \in RegStates
  BY DEF GetNode, Patch, NodeFails, Typed
<1>2. reg[g].snap \in [Devices -> BOOLEAN]
  BY <1>1 DEF RegStates
<1>3. PICK pc \in {"patch", "sleep"} : reg' = [reg EXCEPT ![g] = [pc |-> pc, snap |-> reg[g].snap]]
  BY Zenon DEF GetNode, Patch, NodeFails, RegStep
<1>4. reg'[g].snap = reg[g].snap /\ \A f \in Runs \ {g} : reg'[f] = reg[f]
  BY <1>3 DEF Typed
<1>5. anno' = anno \/ anno' = reg[g].snap
  BY Zenon DEF GetNode, Patch, NodeFails
<1>6. UNCHANGED <<run, health>>
  BY Zenon DEF GetNode, Patch, NodeFails, RegStep
<1>7. 1 \in Runs
  BY RunsAreNat
<1>8. \A f \in Runs, d \in Devices :
        reg'[f].pc \in {"get", "patch", "sleep"} /\ ~reg'[f].snap[d] => ~health'[f][d]
  BY <1>1, <1>4, <1>6 DEF Remembers
<1>9. ASSUME run <= 1, NEW d \in Devices, d \in DOMAIN anno', ~anno'[d]
      PROVE  /\ ~health[1][d]
             /\ reg'[1].pc \in {"get", "patch", "sleep"} => ~reg'[1].snap[d]
  <2>1. g = 1
    BY <1>1, <1>9, FirstRun
  <2>2. CASE anno' = anno
    BY <1>1, <1>4, <1>9, <2>1, <2>2 DEF Remembers
  <2>3. CASE anno' = reg[g].snap
    BY <1>1, <1>4, <1>9, <2>1, <2>3 DEF Remembers
  <2> QED BY <1>5, <2>2, <2>3
<1> QED BY <1>6, <1>8, <1>9 DEF Remembers

LEMMA RemembersNext == Typed /\ Order /\ Remembers /\ [Next]_vars => Remembers'
<1> SUFFICES ASSUME Typed, Order, Remembers, [Next]_vars
             PROVE  Remembers'
  OBVIOUS
<1>1. CASE Build /\ ~ProcessEnds
  BY <1>1, RemembersQuiet DEF Build
<1>2. ASSUME NEW r \in Resources, Serve(r) \/ StartFails(r) \/ RegisterFails(r)
      PROVE  Remembers'
  <2>1. UNCHANGED <<run, health, reg, anno>>
    BY <1>2, Zenon DEF Serve, StartFails, RegisterFails
  <2> QED BY <2>1, RemembersQuiet
<1>3. ASSUME NEW r \in Resources, Register(r)
      PROVE  Remembers'
  <2>1. UNCHANGED <<run, health, anno>>
        /\ reg' = IF r = Number THEN [reg EXCEPT ![run].pc = "read"] ELSE reg
    BY <1>3 DEF Register
  <2>2. \A g \in Runs : reg'[g] = reg[g] \/ reg'[g].pc = "read"
    <3> TAKE g \in Runs
    <3>1. CASE r = Number /\ g = run
      <4>1. reg'[g] = [reg[g] EXCEPT !.pc = "read"] /\ reg[g] \in RegStates
        BY <2>1, <3>1 DEF Typed
      <4> QED BY <4>1 DEF RegStates
    <3>2. CASE ~(r = Number /\ g = run)
      BY <2>1, <3>2 DEF Typed
    <3> QED BY <3>1, <3>2
  <2> QED BY <2>1, <2>2, RemembersQuiet
<1>4. CASE Restart \/ Boot \/ KubeletRestarts \/ Signal("hup") \/ Signal("quit")
  <2>1. UNCHANGED <<run, health, reg, anno>>
    BY <1>4 DEF Restart, Boot, KubeletRestarts, Signal
  <2> QED BY <2>1, RemembersQuiet
<1>5. CASE ProcessEnds
  <2>1. UNCHANGED <<run, health, anno>> /\ \A g \in Runs : reg'[g].pc = "none"
    BY <1>5 DEF ProcessEnds, NoReg
  <2> QED BY <2>1, RemembersQuiet
<1>6. CASE UNCHANGED vars
  BY <1>6, RemembersQuiet DEF vars
<1>7. CASE Quit \/ StopFails \/ Crash \/ \E r \in Resources : ServeCrashes(r)
  BY <1>5, <1>7 DEF Quit, StopFails, Crash, ServeCrashes
<1> QED
  BY <1>1, <1>2, <1>3, <1>4, <1>5, <1>6, <1>7, RemembersMark, RemembersRead, RemembersWrite
  DEF Next, MainRuns, RegRuns

\* Only one action writes the annotation.
LEMMA AnnoIsPatched ==
  ASSUME [Next]_vars, anno' # anno
  PROVE  \E g \in Runs : Patch(g)
BY Zenon DEF Next, MainRuns, RegRuns, vars, Build, Restart, Quit, Serve, Register, RegisterFails,
   StopFails, StartFails, ServeCrashes, ProcessEnds, Read, GetNode, NodeFails, RegStep, Mark,
   KubeletRestarts, Signal, Crash, Boot

\* As long as the plugins have been started once, no device that was published as
\* unhealthy is published as healthy again: neither a goroutine that read it before the
\* fault nor a repeated patch brings it back (RegisterInAnnotation).
THEOREM RecoveryIsARestart == Spec => RecoversByRestart
<1>1. ASSUME Typed, Order, Remembers, [Next]_vars
      PROVE  (\E d \in DOMAIN anno : ~anno[d] /\ anno'[d]) => run > 1
  <2> SUFFICES ASSUME NEW d \in DOMAIN anno, ~anno[d], anno'[d], ~(run > 1)
               PROVE  FALSE
    OBVIOUS
  <2>1. run <= 1
    BY <1>1, RunsAreNat DEF Typed
  <2>2. PICK g \in Runs : Patch(g)
    BY <1>1, AnnoIsPatched
  <2>3. reg[g].pc = "patch" /\ anno' = reg[g].snap
    BY <2>2 DEF Patch
  <2>4. g = 1
    BY <1>1, <2>1, <2>3, FirstRun
  <2>5. d \in Devices
    BY <1>1 DEF Typed, Unregistered
  <2>6. ~reg[1].snap[d]
    BY <1>1, <2>1, <2>3, <2>4, <2>5 DEF Remembers
  <2> QED BY <2>3, <2>4, <2>6
<1> QED BY <1>1, InvInit, InvNext, RemembersInit, RemembersNext, PTL DEF Spec, RecoversByRestart
=============================================================================
