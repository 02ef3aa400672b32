# TLA+ models of the Volcano vGPU device plugin

This directory holds TLA+ specifications of the device plugin that lets the
Volcano scheduler share GPUs between pods (`cmd/vgpu`, `pkg/plugin`, `pkg/rm`,
`pkg/util`, `api/config`) and of its monitor (`cmd/vgpu-monitor`, `pkg/monitor`), TLC
configurations that check them on small instances, and proofs checked by TLAPS.
`PROJECT.json` lists the runs, the mutants that show each property can fail, the
source lines behind every definition, the disagreements found between code and
documentation, and the hazards of the code with the properties that watch them.

## 1. The system

### Components

| Component | State it keeps | Operations |
|---|---|---|
| Allocate handler (`pkg/plugin/server.go`, `pkg/util/util.go`) | none of its own: the pod's annotations `vgpu-time`, `devices-to-allocate`, `bind-phase` | `Allocate`: `GetPendingPod`, `GetNextDeviceRequest`, `EraseNextDeviceTypeFromAnnotation`, `PodAllocationTrySuccess`, `PodAllocationFailed` |
| Node lock (`pkg/util/nodelock`) | one annotation of the node, a timestamp | `LockNode`, `ReleaseNodeLock` |
| Health check (`pkg/rm/health.go`) and `ListAndWatch` | `Device.Health`, the map from GPUs to devices, an unbuffered channel | `checkHealth`, `ListAndWatch`, the two lists of Xids |
| Plugin lifecycle (`cmd/vgpu/main.go`, `Start`/`Stop`/`Serve`/`Register`) | the plugin objects, their servers and sockets, the retry timer | `startPlugins`, `stopPlugins`, the select of the main loop |
| Node registration (`pkg/plugin/register.go`, `WatchAndRegister`) | the node annotation `node-vgpu-register` | one round every 30 seconds |
| Device list and response (`apiDevices`, `getAllocateResponse`) | none | the entries of the three resources number, memory and cores; what a container is given |
| Annotation codec (`pkg/util/util.go`) | none | encode, decode, take and erase the next request |
| Device map, sharing, preferred allocation (`pkg/rm`, `api/config/v1/replicas.go`) | the map resource -> id -> device | `buildDeviceMap`, `updateDeviceMapWithReplicas`, `distributedAlloc` |
| Configuration (`LoadNvidiaConfig`, `pkg/config`, `api/config/v1`, `validateFlags`) | package variables | command line, ConfigMap, `config.json`; which hosts a plugin starts on |
| MIG partitioning (`processMigConfigs`, `GenerateMigTemplate`) | `migCurrent`, the CDI file | applied at start and while allocating |
| Monitor: cache and feedback (`cmd/vgpu-monitor`, `pkg/monitor`) | mapped shared regions of the containers | `Update`, `Observe` |
| Monitor: metrics (`metrics.go`) | none | `Collect` |
| MPS, CDI, IMEX, Tegra, WSL | files | options and names of a response |
| Feature discovery libraries | labels | imported by neither program |

### How they interact

* The **scheduler** (another process) takes the node lock, writes the devices it
  chose for every container into the pod's annotations and binds the pod. The
  **kubelet** then admits the pod and calls `Allocate` once per container, with a
  number of devices and no name of a pod. The handler guesses: the oldest pod
  assigned to this node whose annotation still lists that many devices. It hands
  out the first container's entry, erases it, and when nothing is left marks the
  pod as successful and releases the node lock.
* `checkHealth` sends devices over a channel to `ListAndWatch`, which marks
  them and sends the whole list to the kubelet. `Stop` closes the stop channel and
  sets both channel fields to nil while the two goroutines may be reading them.
* The main loop replaces all plugin objects on a kubelet restart, a SIGHUP or
  the retry timer. `WatchAndRegister` is started by the plugin object of the
  resource `volcano.sh/vgpu-number` and publishes the health of its devices.
* The node lock and the registration are annotations of the same node object; the
  first is written by sending the whole object, the second by a patch.
* The **monitor** is a process of its own. `Allocate` makes a directory for each
  container; the vGPU library in the container puts a file there that both map. Every
  five seconds the monitor takes in new regions, removes those of pods that are gone,
  and writes two fields by which it holds back containers of low priority. The
  metrics endpoint reads the same mappings from another goroutine.

### What is hard here

* Identity: `Allocate` is told a number, not a pod. Everything depends on there
  being one candidate, which only the node lock, the order of the patches and the
  error paths ensure.
* Handlers outlive their server: gRPC's `Stop` does not wait for them, and none
  looks at its context.
* Every step is a request that can fail, or succeed with its reply lost.
* Read, modify, write on a node object that other parties change.
* An unbuffered channel whose reader may be gone, and fields read after they were
  set to nil.
* Goroutines nobody stops.
* A kubelet that restarts while the plugins are being started.
* Memory shared between processes without a lock, unmapped while it may be in use.
* Lists made apart that must agree: what the kubelet, the scheduler and the
  container are told of one device; the partition remembered and the one there is.

### What makes each part correct

* Allocate: a container gets the devices chosen for it, once; the lock is held while
  a pod is pending; a pod runs only after it was marked; a settled pod stays so;
  every bound pod is settled and every lock released.
* Node lock: it behaves like a lock with a lease; nobody's lock is replaced or
  removed by a call that had not found it; a registration is not overwritten; every call
  returns. (The retry loops break the second; sections 4 and 5 say what is left of it.)
* Health: no error is lost between NVML and the kubelet; nothing healthy is marked;
  the Xids examined are the ones the lists select (but for `xid_all_disabled`,
  section 4); the check ends.
* Lifecycle: the kubelet holds connections to the current plugins only and ends up
  connected to all of them.
* Registration: the node ends up with the health of the devices that are served;
  an unhealthy device comes back only with a restart.
* Monitor: a live region is neither removed nor unmapped under its reader; a container
  is held back only by one that outranks it, and not for ever; a scrape reports the
  usage of each container once.
* Devices: every GPU is served exactly once, whole or in parts that share no file;
  the replicas of a device stand for it; the kubelet, the scheduler and the container
  are told the same; the MIG instance handed out is the one assigned.
* Configuration: a plugin that starts has what it relies on.

## 2. Modules

```
DeviceHandoff   <-- refines --  VGPUAllocate      VGPUAllocateProofs
LeaseLock       <-- refines --  NodeLock          NodeLockProofs
HealthXids      <-- extends --  HealthCheck       HealthCheckProofs
                                PluginLifecycle   PluginLifecycleProofs
                                MonitorFeedback   MonitorFeedbackProofs
SharingConfig <- PluginConfig <- KubeletMessages  |
DeviceMap, MigTemplate, ContainerMetrics          |  extended by MCAlgorithms
HealthXids                                        |
                                MCAlgorithms      DeviceMapProofs, AlgorithmsProofs

MCVGPUAllocate, MCNodeLock, MCHealthCheck, MCPluginLifecycle, MCMonitorFeedback,
MCAlgorithms: instances for TLC
```

The first five lines are components with states and actions, and the modules of their
proofs (section 5). `InductionLemmas` (induction, recursion, folds) is extended by
`VGPUAllocateProofs`, `DeviceMapProofs` and `AlgorithmsProofs`. The six modules that `MCAlgorithms` extends are sequential
algorithms, written as operators on records and functions; `MCAlgorithms` applies them
to every input of bounded sets.

### VGPUAllocate

The core. State: `sched`, `anno` (the three annotations of each pod), `clock`,
`lock`, `kubelet`, `call` (the Allocate call the kubelet waits for), `grants` (the
responses it received) and `handler` (the local state of every running call).

| Action | Code |
|---|---|
| `Schedule` | the scheduler (external): lock, annotations, binding |
| `Call` | the kubelet (external): one call at a time, containers in order |
| `NoPod` | `GetPendingPod` fails or finds nothing: the lock is released, the pod is not touched |
| `Pick` | `getOldestPod`, `GetNextDeviceRequest`, the test of the number of devices, a failing response, the MIG branch |
| `EraseNext`, `EraseFails` | `EraseNextDeviceTypeFromAnnotation`, done, done with its reply lost, or failed |
| `GetRefreshed` | the read in `PodAllocationTrySuccess`; an error counts as an empty annotation |
| `PatchPhase` | the patch in `PodAllocationSuccess` and `PodAllocationFailed` |
| `Release` | `ReleaseNodeLock`, as one step here, in detail in NodeLock |
| `Reply` | the handler returns |
| `Restart`, `Crash`, `Delete` | the server is stopped, the process dies, a pod object goes away |

A device is not spelled out. A container's entry in the annotation is there or it
is not, so the annotation is the set of containers still listed; the number the
code compares is the sum of their requests (`DeviceCount`). A grant records whose
entry it was made from: the response of the code carries it as the directory
`<pod UID>_<container>`. The order of equal times follows the code exactly
(`IsOldest`). The early returns of `Allocate` that contact nobody are left out: a call
with several containers, which the kubelet does not make, and the two resources
other than vgpu-number, which are answered with an empty response.

**DeviceHandoff** is what the cluster may rely on: an offered pod is given, container
by container, exactly its own devices, or it is refused. `ImplementsHandoff` is
the refinement.

### NodeLock

Every request of `LockNode`, `setNodeLock` and `ReleaseNodeLock` is a step: reads
(`Get`), whole-object updates (`Update`), updates whose reply is lost
(`UpdateLost`) and failures. `Current` is the optimistic concurrency of the API
server. A call's place is `lock.get`, `set.get`, `set.put`, `set.again`, `rel.get`,
`rel.put` or `rel.again`; `again` is the read in the retry loop, which does not look
at the lock. The registration patch changes the same object. The lock may be illegible
at first (`Garbled`): `LockNode` then returns the error, and only a release removes it.
Calls of any number of lockers and releasers overlap, and the clock ticks within them.
`LockNode` is not called in this repository; the Volcano scheduler has the same code.
`ReleaseNodeLock` is called by the Allocate handlers, which overlap when one has
outlived its server.

Three things serve the properties only: `by`, who wrote a lock (the annotation holds a
time); `holders`, the lockers that were told they hold it; and `forced`, whether a
retry has replaced or removed a lock that its call had not found (`Trespasses`).
`found` of a call says that the lock it read is still there.

**LeaseLock** is the abstract lock: a caller looks at it (`view`), and as long as nothing
interferes it changes the lock it looked at. Whoever was interfered with, by a conflict,
a failure or a lost reply, is `blind`, and may change the lock whatever has become of it.
A locker gives up a lock only after it saw one whose lease had run out; as
`LockNode` judges the age on one copy and `ReleaseNodeLock` reads another, the lock given up
may be a newer one.

### HealthXids, HealthCheck

`HealthXids` turns the two environment lists into the map the code builds, `Examined` is
what `checkHealth` makes of that map, its early return included, and
`Selected` is what the comments say the lists mean. `HealthCheck` has the goroutine
of `checkHealth` (`launch`, `setup`, `loop`, `wait`), the handler of `ListAndWatch`
(`initial`, `enter`, `select`, `update`) and `Stop`. Evaluating the arguments of a
`select` is a step of its own (`Select`), because the fields it reads may be nil by
then: nil channels block for ever. The same holds for the goroutine that calls
`CheckHealth` (`deaf` in `Launch`).

### PluginLifecycle

The main loop (`build`, `start`, `watch`, `exit`), the servers of every run, the
socket files, the kubelet's connections, and one `WatchAndRegister` per run. A run is
one pass through `startPlugins`; its plugin objects, devices and goroutines are its
own. `main.now` is the plugin between `Serve` and `Register`, where a kubelet
restart removes the socket that was just made. `ServeCrashes` stands for the whole
loop that serves again: gRPC closes the listener when `Serve` returns, so that every
further call fails at once and the sixth ends the process; if `Stop` comes in between,
the loop reads a nil server and the process ends by that.

### MonitorFeedback

The table of mapped regions (`mapped`), the directories and files of the containers,
the two fields of a region the monitor writes (`kernel`, `throttle`), and three actors:
the feedback goroutine, a scrape, and the library in each container.

| Action | Code |
|---|---|
| `ListPods`, `Update`, `UpdateFails` | `ContainerLister.Update`: the list, then the directories under the lock |
| `Read`, `Count`, `CountEnds` | the first loop of `Observe`: a field is read, counted down, written back |
| `Switch`, `RoundEnds` | its second loop: `CheckBlocking`, `CheckPriority`, the two fields |
| `StartScrape`, `Scrape` | `Collect` on a snapshot of the table |
| `Crash` | the monitor dies; regions and directories stay |
| `Bind`, `Allocate`, `Delete`, `Age` | kubelet, API server, time (external) |
| `Attach`, `Launch`, `SetBusy` | the library in the container (external) |

Reading and writing a field are two steps, so that the library may write in between.
Three hundred seconds are one step, `Age`; it cannot fall within one round for a
directory made after that round listed the pods. `Allocate` is the step of the plugin that
removes the directory and makes it anew (`server.go:455-458`); it never meets a region
file, for the devices of a container are handed out once (`GrantedOnce`).

### The algorithms

* **DeviceMap**: which GPUs and MIG instances become devices of which resource
  (`buildDeviceMapFromConfigResources` and below, the minors file of the driver,
  Tegra), the replicas (`updateDeviceMapWithReplicas`), both preferred allocations and
  `ValidateRequest`. Maps in random order are sets of outcomes.
* **SharingConfig**: the sharing section, from the parsed document to the rules;
  refusing is the empty set. `DisableResourceNamingInConfig` is applied as `main.go`
  does.
* **PluginConfig**: where a setting comes from (`LoadNvidiaConfig`), which flags a host
  accepts (`validateFlags`), and what plugins they make (`startPlugins`, `cdi.New`,
  `GetChannels`, `getMPSOptions`).
* **KubeletMessages**: the lists for the kubelet and for the node's annotation, and the
  response of one container (`getAllocateResponse`).
* **MigTemplate**: the partition at start, its change by a request, the lookup of the
  instance, and the CDI file that is made again up to five times.
* **ContainerMetrics**: the metrics one scrape sends, by the round of the loops that
  sends them.

`MCAlgorithms` has two variables: a task (an algorithm with its input), and its result.
A behaviour is one step, to any result the algorithm may give. Each property compares
results with what the input calls for, written without the algorithm's own operators
where there is another way to say it.

## 3. Runs

| Run | Asks | Instance | Distinct states |
|---|---|---|---|
| `alloc_contained` | Is the guess right, the lock held, the promise kept? | 3 pods of one size, 2 overlapping handlers, faults `mig erase get release restart delete` | 561,679 |
| `alloc_left_behind` | Is an entry ever handed out twice, whatever is left behind? | 3 pods of sizes 1+1, 2 and 1, 2 handlers, faults `list response phase restart crash expiry` | 131,760 |
| `alloc_live` | Is every lock released, every pod settled, for good? | 3 pods, 2 handlers, faults `mig erase get restart` | 16,743 |
| `alloc_stale_pod` | (violation) Does the guess survive a failed list? | 3 pods, 1 handler, fault `list` | - |
| `alloc_case03` | (violation) Is the pod of `examples/vgpu-case03.yml` admitted? | 2 pods, no fault | - |
| `lock_shared` | Whose lock may a call replace or remove, among several callers; does every call return? | 2 lockers, 1 releaser, 1 retry, every fault, a lease that ends within calls | 200,477 |
| `health_faults` | Is an error lost, the wrong device marked, a list stale; is the kubelet told, does the check end? | a GPU and a MIG device, 2 events, every fault | 254,737 |
| `health_siblings` | (violation) Are both MIG devices of one GPU watched? | 2 MIG devices on one GPU | - |
| `life_faults` | Whom is the kubelet connected to, what does the node say? | 2 resources, 2 devices, 1 trouble out of 9 kinds | 252,262 |
| `monitor_feedback` | Is a region removed or unmapped in use, a container held back rightly, and not for ever? | 2 containers of different priority that share one of 2 GPUs, every fault | 240,080 |
| `algo_inputs` | Are the algorithms right on bounded inputs? | 56,922 tasks | 120,006 |
| `xid_all_disabled` | (violation) Is an enabled Xid examined while all are disabled? | the same tasks | - |

### Properties

VGPUAllocate: `GrantIsOwn` (a container gets the devices chosen for it), `GrantedOnce`
(no entry is handed out twice), `LockCoversPending` (the lock is held while a pod is
pending), `RunningIsMarked` (a pod that has all its devices was marked), `SettledIsFinal`,
`LockIsReleased`, `PodSettles`, `ImplementsHandoff`.

NodeLock: `LockIsOwned` (`FirstTryIsSafe`: the first Update of a call, if the server
accepts it, takes a free lock or removes the one the call found; `HolderIsRecorded`: at
most one locker was told that it holds the lock, and the node records that one, unless a
retry has trespassed), `NoLostRegistration`, `CallReturns`, `ImplementsLeaseLock`.

HealthCheck: `ErrorIsNotLost`, `NoFalseAlarm`, `ViewIsCurrent`, `KubeletIsTold`,
`CheckEnds`.

PluginLifecycle: `KubeletHoldsCurrent`, `ServedInTheEnd`, `AnnotationSettles`,
`RecoversByRestart` (a device published as unhealthy comes back only with a new run).

MonitorFeedback: `LiveRegionIsKept` (the directory of a running container is not
removed), `UnmappedIsUnused` (the feedback never touches an unmapped region, a scrape
only one whose pod is gone), `BlockedIsOutranked`, `BlockedIsReleased`,
`ThrottleIsLifted` (once the rivals are idle, a block and a limit end).

MCAlgorithms:

| Property | Its parts |
|---|---|
| `DeviceMapIsRight` | `EveryGPUIsServedOnce`, `SingleMeansUniform`, `DevicesAreApart` |
| `SharingIsCoherent` | `AcceptedSharingBuilds`, `ReplicasStandForDevices`, `MPSRequestsAreSingle` |
| `PreferredIsBalanced` | the devices are available, as many as asked for, and no exchange would spread them more evenly |
| `DeviceListsAgree` | `SettingsHaveTheirSource` (a flag that is set overrides the ConfigMap, one that is not does not; a node's entry is the node's; nothing is said where no source gives a number), `ListsAgreeAndFit` |
| `StartedPluginsAreSound` | a CDI strategy has a handler, MPS its directory and no MIG device, a required channel exists |
| `LimitsMatchDevices` | every strategy brings every device; limit i is that of device i, where devices are named by uuid |
| `MigDeviceIsTheOneAssigned` | `PartitionIsTheLastRequested`, `InstanceIsOwn`, `SpecIsComplete` |
| `SelectionIsMeant` | an Xid is examined exactly if the two lists, as the comments read them, select it; nothing is said of one enabled while all are disabled |
| `ScrapeIsTheUsage` | no two metrics with the same labels; each container's own usage, and no departed pod's |

`EnabledXidIsExamined` says of the case `SelectionIsMeant` exempts what the comments say, and
fails.

Each state machine has one `TypeOK`.

Why the faults are split between the runs of VGPUAllocate: after a failed list, a
failed response, a failed patch of the phase, a crash, or a lock that is taken over
while its pod is in flight, a pod stays behind with its real time and its devices
listed. From then on the guess may be wrong (`alloc_stale_pod` shows it for the
list), so only `GrantedOnce` is asked of those. All other faults are contained, and
everything is asked. `SettledIsFinal` is not asked where pods are deleted: the late
handler of a deleted pod may pick an older pod that failed.

### Bounds, and why they are enough

* Pods: three. The guess goes wrong by confusing the pod meant with one older and
  one younger; two handlers make a late handler overlap a current one. `MaxTime`
  1 or 2 allows equal and different times, and `MaxUint64` is any greater number.
* Sizes: pods of one size are the worst case for a search by size; the mixed sizes of
  `alloc_left_behind` include a pod whose two containers add up to the size of
  another.
* NodeLock: two lockers compete for the lock while a releaser removes it. The lockers
  run `ReleaseNodeLock` too, on a lock they find expired, so that up to three releases
  overlap. A second releaser has been run once, with symmetry and without `CallReturns`
  (851,800 states), without a violation; that is too long beside liveness. One retry instead
  of 5 is enough for a trespass and to exhaust the attempts. A lock of one tick has expired (`Lease` 0, one tick): it may expire at any place of a call, and the
  lock that follows it is alive. One patch of the registration is there to be undone.
* HealthCheck: two devices, so that a wrong one can be marked, one of them a MIG device,
  whose events name instances; two Xids, one of the hard-coded application errors and
  one not; each event occurs at most once, and `MaxEvents` = 2 of them, so that one is
  on its way when the other comes. Which Xids the lists select is asked of all pairs of
  lists in `algo_inputs`.
* PluginLifecycle: one trouble, of any kind, at any moment. A restart of the kubelet is
  answered by two restarts of the plugins (its socket, and the retry of a registration it
  cut off), so that a retry timer already rings in a healthy run. Two independent
  troubles have been run with one device (1,768,596 states) without a violation; that
  is too long for a regular run. `MaxRuns` follows from the bound.
* MonitorFeedback: one container outranks the other, and the second has a GPU of its own
  listed before the shared one, so that "the first GPU on which any is active" is not
  the first GPU. `Busy` is 2: still counted after one round, no longer after two. One
  failure or crash.
* MCAlgorithms: nodes of up to two GPUs out of eleven kinds (whole, of another model,
  broken in several ways, split into none, one or two instances of three profiles),
  three strategies, filters by uuid and index; sharing documents wrong in one
  field or another; up to six replicas of three GPUs with every available and required set; 1, 3,
  8, 9 or 16 GPUs of eight memory sizes around the limit, with the nine GPUs of 20001 MiB
  whose advised list exceeds it; ConfigMaps that are there, not there or unreadable; all combinations of list
  strategies on seven hosts; up to three MIG requests in a row; all contents of the two
  Xid lists over five entries; up to four regions and two listed pods in a scrape.

### Fairness

* Handlers and goroutines are scheduled by the Go runtime and wait only for requests
  that have a deadline or are answered: weak fairness of their steps. Faults are
  never fair.
* The scheduler keeps trying to place a pod (it is a loop over pending pods), and
  the kubelet calls Allocate for the pods it admits.
* The main loop takes events that are there, and the retry timer rings; the DaemonSet
  starts the process again. Weak fairness of one disjunction (`MainRuns`): which of
  several ready events `select` takes is left open.
* In HealthCheck the kubelet opens `ListAndWatch` after a registration.
* The feedback goroutine wakes again after its sleep and runs on (`FeedRuns`); a library
  that has begun to start a kernel starts it (`SetBusy`); time passes (`Age`). Neither new
  kernels nor scrapes nor deletions are fair.

### Deadlock

VGPUAllocate may stop only in `Finished`, when every pod is settled. NodeLock and
PluginLifecycle always go on. In HealthCheck the goroutines really end, or hang: the
runs say `CHECK_DEADLOCK FALSE`, and `CheckEnds` and `KubeletIsTold` say which ends
are right. In `algo_inputs` a behaviour ends with its result. MonitorFeedback always
goes on.

## 4. What the violations show

1. `alloc_stale_pod`: a failed list releases the lock and leaves the rejected pod a
   candidate; the next container of that size gets its devices. The same follows
   from a failed response (`server.go:429`), which releases nothing.
2. `alloc_case03`: the number of one container is compared with the sum over the
   whole pod, so that a pod with two containers of two vGPUs is never found. If the
   call is for the sum, the pod is found and its first entry is too small: of a pod with
   several vGPU containers left, none is ever served (the lemma `FoundIsAlone`).
3. `health_siblings`: the map from GPUs to devices has room for one MIG device per
   GPU; errors of the others are dropped.
4. `xid_all_disabled`: `checkHealth` returns at once if every Xid is disabled, although a
   single one is enabled (`health.go:46`, against the comments at 38-39 and 181-183).

Seen on the way, without a run of their own:

* Two handlers that overlap both find the lock and release it. The first removes it, a
  locker takes it for the next pod, and the Update of the second conflicts; its retry
  reads the node again and removes the new lock (`nodelock.go:80-91`), though it is not the
  lock it was called for (line 66). The loop of `setNodeLock` (47-58) likewise replaces
  a lock taken meanwhile, and a lost reply does the same to a single caller. TLC shows it
  when `forced` is dropped from `LockIsOwned`; as it stands, the property says that nothing
  but a retry does.
* If neither the ConfigMap nor the command line gives a memory factor, it is 0, not the
  default 1 of the flag and of `doc/design.md:10`, and the division ends the process
  (`server.go:669`, `register.go:91`). So is the number of shares 0, where
  `doc/config.md:20` says 10 and the flag 2. (`doc/design.md` also names an environment
  variable `GPU_MEMORY_FACTOR`, which the flag does not read.)
* `WatchAndRegister` survives its plugin. After a restart two goroutines with different
  health may overwrite each other's annotation for ever; `AnnotationSettles` is stated
  for nodes where none is left over.
* `LockNode` judges the age of the lock on one copy of the node and calls
  `ReleaseNodeLock`, which reads another and removes whatever lock that has: of two lockers
  that saw one lock expire, the second may remove the lock the first has just taken.
* An entry `0` in a list of Xids acts as `all`.
* After a dial that times out, `Start` forgets a server that goes on listening.
* A retry timer is not cleared by a restart that came first, and restarts healthy
  plugins once more.
* The loop that serves a crashed server again cannot succeed: its listener is closed.
* If the ConfigMap of kube-system is there but unreadable, that of volcano-system is not
  asked, and nothing is set.
* A number of shares in a node's entry wins over the command line, whose precedence over
  that file is documented nowhere.
* If the socket file cannot be removed, `Stop` leaves the server field set
  (`server.go:228-230`); the next restart then stops that server again.
* Patterns are not anchored, so that the MIG profile `1g.5gb+me` goes under the resource
  of `1g.5gb` (`resources.go:162`); a GPU must match all patterns, although the message
  says "any" (`device_map.go:136-146`).
* The MIG devices of a GPU that is filtered out are still served.
* Two sharing rules for one resource are accepted.
* The server asks neither `GetPreferredAllocation` nor `ValidateRequest`; replica IDs
  would make the NVML lookup in `apiDevices` and `ConvertDeviceInfo` panic.
* An empty `deviceListStrategy` makes "all strategies are CDI" true, and a container gets
  no device at all.
* With `deviceIDStrategy: index` the devices come in the order of a map, the memory limits
  in that of the request.
* A wanted MIG group whose instances are part of the current partition does not reset
  it; no two of the shipped geometries are so. A group or a model that is not
  found gives position -1 and an empty UUID.
* If `nvidia-ctk` fails, a CDI file of the partition before is accepted
  (`server.go:877-893`).
* A failure of NVML fails the start with a CDI strategy even with
  `failOnInitError=false`.
* A priority other than 0 or 1 in a shared region ends the monitor
  (`feedback.go:83`); the library writes only these, and the run has only these.
* The regions of init containers are not reported.
* A scrape that holds a snapshot reads a region of a deleted pod after it was unmapped;
  the process dies by it. `UnmappedIsUnused` says that only pods that are gone are
  concerned.

## 5. Proofs

Each theorem holds for every value of the constants: any number of pods, handlers,
devices, callers or runs, and every set of faults its hypotheses allow. Each invariant
below was first checked by TLC on the instance of the component's run, then proved
inductive, one step per action. A theorem that names a property of section 3 says of
all instances what the run says of one.

### The Allocate handler

`VGPUAllocateProofs`, for any faults:

* `TypeCorrect`: `Spec => []TypeOK`. `TypeOK` alone is not inductive: a handler that
  serves a pod must have chosen one (`Chosen`), or the annotation it patches is
  nobody's, and the call the kubelet waits for must name a pod and a container
  (`CallOK`), or the response it receives does not. `TypeInv` is the three together.
* `NeverGrantedTwice`: `Spec => []GrantedOnce`, for any number of vGPU containers per
  pod. `GrantedOnce` speaks of responses already received and says nothing of the handler
  about to answer. `OnceInv` follows an entry through its life. What is listed was written
  by the scheduler (`AllocOK`); a handler that chose a pod chose one of its entries
  (`ClaimOK`); before it answers the entry is erased (`ClaimErased`), and it stays so once
  handed out (`GrantErased`); so whatever the kubelet's current handler claims was not
  handed out before (`ClaimFresh`). That no handler writes an old copy of the list back
  needs `FoundIsAlone`: an entry that is as large as the sum of its list is alone in it, so
  every list written back is empty. No fault is excluded: an entry erased for a call that
  was cut off is lost, but never reused.

The rest is under `Contained`: every pod has one vGPU container, and the faults
are among `mig erase get release restart delete`. The runs `alloc_case03` and
`alloc_stale_pod` show what happens without either.

* `GrantsAreOwn`, `PendingIsLocked`, `RunningWasMarked`: `GrantIsOwn`,
  `LockCoversPending` and `RunningIsMarked`.
* `SettledForGood`: without deletions `SettledIsFinal`, an action property.
* `HandoffIsKept`: `Spec` implements `DeviceHandoff`.

`GrantIsOwn` says that the guess was right after the fact. `ContainedInv` says why
it will be: the lock serialises (`Serialised`: one unsettled pod, one active handler,
both under the lock); the unsettled pod is waited for or attended by a handler, and a
handler the kubelet has left keeps every other one from starting (`Attended`); the
unsettled pod is the oldest of the candidates, for a settled one has the time
MaxUint64, and its annotation is untouched until it is erased (`Annotated`); so the active
handler looks for it or has found it (`OnTrack`), and what the kubelet's handler knows
is true of the pod the kubelet means (`CallOnTrack`). The remaining conjuncts keep pods
that run, or were not placed yet, out of this.

### The node lock

`NodeLockProofs`:

All four hold for any number of lockers and releasers, any faults and any times; there is no
further hypothesis.

* `TypeCorrect` and `RegistrationIsKept` (`TypeOK`, `NoLostRegistration`). `CallsInv`: a
  copy of the node object that the server would still accept carries the current
  registration (`SoundCopy`), and a call is where its caller can be (`KnownCall`).
* `LockHasItsOwner` (`LockIsOwned`). Of `FirstTryIsSafe`: between the read of a call and its
  first Update every change of the lock makes the copy stale, so that a copy the server
  accepts was made of the lock there is. Of `HolderIsRecorded`: a first Update takes the lock
  when nobody has it and releases the one that was found, whose holder ceases to hold it;
  what a retry does otherwise is recorded in `forced`.
* `LeaseLockIsImplemented`: every request is a step of `LeaseLock` or invisible. `View` and
  `Blind` are read off the place of each call: a caller at a retry is blind, and so is one whose
  copy is stale, for the server will send it into the retry loop.

### The health check

`HealthCheckProofs`:

* `TypeCorrect`, `ViewStaysCurrent` (`ViewIsCurrent`), from `HealthInv`: a wait begins with
  nothing to hand over, the device found for a GPU is on it, errors occur on
  watched GPUs, and the lists are as given.
* `AlarmsAreTrue` (`NoFalseAlarm`) under `NoZero`: no list has an entry 0, which
  would be read as all.
* `ErrorsArrive` (`ErrorIsNotLost`) under `NoZero` and `OwnGPU`: no two devices share a GPU.
  `health_siblings` shows the violation without it.

### The plugin lifecycle

`PluginLifecycleProofs`, for any number of resources, devices and troubles:

* `TypeCorrect`, and `KubeletStaysCurrent` (`KubeletHoldsCurrent`). The invariant adds
  `Order` (plugins start one after the other in a run that has begun; a run has no
  goroutine before it has registered the plugin that starts it) and `Connected` (the
  kubelet is connected to nothing that is yet to be registered).
* `RecoveryIsARestart` (`RecoversByRestart`), from `Remembers`: an unhealthy device that a
  goroutine has read, or that the first run has published, is still unhealthy in that
  run, and what the goroutine has read since says so too. The goroutine's
  delayed and repeated writes cannot take it back.

### The monitor

`MonitorFeedbackProofs`:

* `TypeCorrect`; `RunningKeepsRegion` and `RegionsStayMapped` (`LiveRegionIsKept`,
  `UnmappedIsUnused`), from `RegionInv`. `LiveRegionIsKept` depends on the list of pods
  being old: what saves a container that started since is that its directory is new
  (`NewIsFresh`); and a file, a mapping or a reader exists only for a container that
  was started (`Started`).
* `BlockedHaveARank` (`BlockedIsOutranked`), an action property.

### The algorithms

A theorem about an algorithm is one about a specification that starts with any input
of it, not only those of `MCAlgorithms`: `BuildSpec`, `ShareSpec`, `PreferSpec`,
`StartSpec`, `RequestSpec`, `MigSpec`, `XidSpec`, `ScrapeSpec`, each with `[][Next]_vars`. All
inputs of `MCAlgorithms` satisfy the hypotheses. The invariant is that the result is one the
algorithm may give for the input; the content is in the lemmas on the operators.

`DeviceMapProofs`:

* `BuiltMapIsRight`: `DeviceMapIsRight` for any node and configuration.
  `NodeInput` is what the driver provides: unique uuids, at most seven MIG instances and none
  without MIG, for every capability a device file of its own, and no capability of two
  instances. The map is first described (`Describes`: every entry is a GPU
  that may be mapped or a MIG instance, and all of them are there); the three parts of the
  property follow.
* `SharingCoheres`: `SharingIsCoherent` for any finite node whose map could be built and any
  document, whose lists are lists and whose replicas, where given, are integers. The plugin
  always disables renames and choices of devices (`main.go:370`), and then nothing else is asked.
  With them, two resources must not be given the same name (`OneName`), or the replicas of one
  may take the place of unshared devices of the other. The rules
  are followed one by one (`RuleFold`); a rule keeps the devices it does not choose, adds the
  replicas of the others, and the key of a replica tells its device (`ReplicasAre`). That a rule has at
  least two replicas, that every device is chosen where choices are disabled, and that MPS
  comes with a rule, follows from what a document parses to (`ConfigParses`).
* `PreferenceIsBalanced`: `PreferredIsBalanced` for any devices,
  any of them available or required, and any size. `PreferenceInput` asks that the IDs be
  devices of the resource, that one which is not shared be alone with its uuid, and that no
  more whole devices be required than asked for. The loop of `distributedAlloc` is followed
  turn by turn. After n turns the set taken has n elements and is spread: the load of the GPU
  of a device taken is at most one above that of a device left (`PicksAreBalanced`). A turn
  keeps this because it takes from a least used GPU (`TurnSpreads`).

`AlgorithmsProofs`:

* `StartedPluginsSound`: `StartedPluginsAreSound` for any flags, document and host, without a
  hypothesis. `GetChannels` keeps the channels that exist, in order (`PresentIs`); so if
  none is missing the channels are the ones required.
* `LimitsMatch`: `LimitsMatchDevices` for a request of any number of different GPUs and any
  finite set of strategies. Where devices are listed by uuid the names keep the order
  of the request, for `uniqueDeviceIDs` keeps first occurrences (`UniqueIs`).
* `MigDeviceAssigned`: `MigDeviceIsTheOneAssigned`. A GPU has the partition of the last
  accepted request, by induction on the requests (`LastIs`), for two GPUs and any export
  whose partitions are `Apt`: none has the instances of a geometry and more, for such a one
  would be kept when that geometry is asked for (section 4). The line found for an instance is
  under its own GPU (`FoundIsOwn`), in a listing of three GPUs with any numbers of instances.
  The file written is complete whatever each of the calls leaves, if a call
  leaves one file or none (`WrittenIsComplete`).
* `SelectionMeant`: `SelectionIsMeant` for any lists of numbers and words, and any Xid but 0.
  What the map ignores is what the lists do not select (`IgnoredIsMeant`), and the early return
  of `checkHealth` changes that only for an Xid enabled while all are disabled
  (`ExaminedIsMeant`); of that case `xid_all_disabled` shows the contrary.
* `ScrapeTellsUsage`: `ScrapeIsTheUsage` for any pods, regions, slots and GPUs, with unique
  names of pods, one region for a container of a pod, and numbers in the regions. The metrics of
  two rounds differ in a label (`RoundsDiffer`), and a usage is the sum over all slots
  (`SumIsTotal`).

The induction theorems of the library take an operator, which no installed prover can
instantiate. `InductionLemmas` states induction and recursion for sets and functions,
and proves them from the well-foundedness of the natural numbers (`WFMin`, which takes a
set): `Induction`, `Recursion`, `LeastNumber`, `GreatestNumber`, and for the folds of the
community modules `SetRecursion`, `LeftRecursion`, `LeftSteps`. A fold is a function
on the subsets of an index set, chosen to obey a recursion; the lemmas give a function
that does, so that the chosen one does, and turn it into the values after 0, 1, 2, ...
elements, on which one argues by `Induction`.

### Assumptions

`ConstantsAssumption` of each component and `EntriesAssumption` of HealthXids, all of them
evaluated by TLC on the runs, and the hypotheses named above, which are part of the theorems.

### Model-checked only

* Liveness, which needs fairness and ENABLED: `LockIsReleased`, `PodSettles`, `CallReturns`,
  `KubeletIsTold`, `CheckEnds`, `ServedInTheEnd`, `AnnotationSettles`, `BlockedIsReleased`,
  `ThrottleIsLifted`.
* `DeviceListsAgree`. Its list is sorted with `SortSeq`, whose definition the prover does not
  see. That the advice of `checkDeviceEntries` keeps the limit is not true of every number: it
  is computed from a count in which each device was already rounded down. Nine GPUs
  of 20001 MiB have 90000 entries under factor 2; the advice is 3, which makes 60003, more
  than 60000. `ListsAgreeAndFit` therefore asks for less than the limit and an entry per
  device, well within the margin that the comment at `server.go:57-62` leaves.

## 6. Plan

In this order, the most important behaviour first:

1. Done: all modules of section 2, and the theorems of section 5.
2. Of `DeviceListsAgree`, the half that needs no sorting (`SettingsHaveTheirSource`), as a
   property of its own.
3. Composition: HealthCheck and PluginLifecycle, to ask what a restart makes of a
   device that is still broken.

## 7. Not modelled

* The text of annotations, environment variables and mounts, of CDI specifications and
  resource names; YAML and flag parsing. The algorithms start from parsed values.
* Feature discovery libraries (`pkg/lm`, `pkg/resource`, `pkg/vgpu`, `pkg/cuda`,
  `pkg/mig/mig.go`), which neither program imports, mocks and generated code.
* The MPS daemon (`Start`, `Stop`, `Health` of `pkg/mps`): the program that runs it is not
  in the repository.
* Plumbing: clients, watchers, signal channels, `validation.go`, WSL device paths.
* The policy of the external GPU allocator beyond what it promises; NVML, `nvidia-smi`,
  `nvidia-ctk` and `nvidia-mig-parted` appear as inputs.
* Data races are modelled where they change behaviour (the fields of a plugin after
  `Stop`, the fields of a shared region), not in general.
