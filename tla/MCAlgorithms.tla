---------------------------- MODULE MCAlgorithms ----------------------------
(***************************************************************************)
(* The plugin's algorithms on bounded inputs.  A behaviour picks a task,   *)
(* an input of one algorithm, and takes one step: the result is any of     *)
(* those the algorithm may give.  The properties compare the result with   *)
(* what the input calls for.                                               *)
(***************************************************************************)
EXTENDS DeviceMap, KubeletMessages, MigTemplate, ContainerMetrics, HealthXids

\* What stands for the words of a list of Xids.
MCAll == -1
MCMalformed == -2

VARIABLES task, result
vars == <<task, result>>

Done(of) == result # <<>> /\ task.of = of
Step(of, outcomes) == result = <<>> /\ task.of = of /\ result' \in {<<o>> : o \in outcomes} /\ UNCHANGED task
Result == result[1]

-----------------------------------------------------------------------------
(* Devices of a node, their replicas, and the choice among them.            *)
Whole(u, f) == [uuid |-> u, model |-> "A100", mig |-> FALSE, insts |-> <<>>, numa |-> 0, minors |-> <<>>, fails |-> f]
Capability(u, kind) == [path |-> <<u, kind>>, device |-> <<"nvidia-cap", u, kind>>]
Inst(u, p) == [uuid |-> u, profile |-> p, fails |-> "no", capabilities |-> {<<u, "gi">>, <<u, "ci">>}]
Small == [resource |-> "mig-1g", text |-> <<"1g">>]
Large == [resource |-> "mig-2g", text |-> <<"2g">>]
SmallME == [resource |-> "mig-1g.me", text |-> <<"1g", "me">>]
Split(u, a, profiles) ==
  [Whole(u, "no") EXCEPT !.mig = TRUE, !.numa = -1,
     !.insts = [j \in DOMAIN profiles |-> Inst(a[j], profiles[j])],
     !.minors = <<Unparsable>> \o FlattenSeq([j \in DOMAIN profiles |->
                  <<Capability(a[j], "gi"), Capability(a[j], "ci")>>])]

GPUKinds(u, a) ==
  {Whole(u, f) : f \in {"no", "paths", "uuid"}}
  \cup {[Whole(u, "no") EXCEPT !.model = "T4"]}
  \cup {Split(u, a, p) : p \in {<<>>, <<Small>>, <<Small, Small>>, <<Small, Large>>, <<SmallME>>}}
  \cup {[Split(u, a, <<Small>>) EXCEPT !.minors[3] = Unparsable]}
  \cup {[Split(u, a, <<Small>>) EXCEPT !.fails = "capability"]}
FirstGPU == GPUKinds("g1", <<"a1", "a2">>)
SecondGPU == GPUKinds("g2", <<"b1", "b2">>)
Nodes == {<<g>> : g \in FirstGPU} \cup {<<g, h>> : g \in FirstGPU, h \in SecondGPU}

NoFilter == [uuids |-> {}, indices |-> {}]
Models == {"A100", "T4"}
Profiles == <<Small, Large, SmallME>>
Config(strategy, filter, models) ==
  [strategy |-> strategy, filter |-> filter,
   gpus |-> DefaultGPUs(<<"number", "memory">>, models),
   migs |-> DefaultMIGs(strategy, Profiles)]
Configs == [strategy : {"none", "single", "mixed"}, models : {Models, {"A100"}},
            filter : {NoFilter, [NoFilter EXCEPT !.uuids = {"g1"}], [NoFilter EXCEPT !.indices = {1}]}]

BuildTasks == [of : {"build"}, platform : {"nvml"}, node : Nodes, config : Configs]
  \cup [of : {"build"}, platform : {"tegra"}, node : {<<>>},
        config : [strategy : {"none"}, filter : {NoFilter}, models : {Models, {"tegra"}}]]
Build ==
  LET c == Config(task.config.strategy, task.config.filter, task.config.models)
  IN Step("build", {IF task.platform = "tegra" THEN buildTegraDeviceMap(c)
                    ELSE buildDeviceMapFromConfigResources(task.node, c)})

IsBuilt == Done("build") /\ Result.ok
Served(uuid, dm) == \E k \in DOMAIN dm : k[2].uuid = uuid
InstanceUuids(gpu) == {gpu.insts[j].uuid : j \in DOMAIN gpu.insts}

\* Once the devices are known, every GPU that is neither filtered nor broken is there
\* either whole, under every resource, or as its MIG instances, each of them under one
\* resource: never neither, which would hide it, and never both, which would let two
\* containers share it unknowingly (buildGPUDeviceMap and buildMigDeviceMap).
EveryGPUIsServedOnce ==
  IsBuilt =>
    LET dm == Result.map
        Under(uuid) == {r \in ResourceManagers(dm) : <<r, DeviceID(uuid)>> \in DOMAIN dm}
    IN \A i \in DOMAIN task.node :
         LET g == task.node[i]
             filtered == g.uuid \in task.config.filter.uuids \/ i - 1 \in task.config.filter.indices
         IN ~filtered /\ g.fails = "no" =>
              \/ Cardinality(Under(g.uuid)) = 2 /\ \A u \in InstanceUuids(g) : Under(u) = {}
              \/ Under(g.uuid) = {} /\ g.mig /\ \A u \in InstanceUuids(g) : Cardinality(Under(u)) = 1

\* The kinds of the devices served: whole GPUs, and the profiles of the instances.
KindsOf(node, dm) ==
  {"whole" : g \in {g \in ToSet(node) : Served(g.uuid, dm)}}
    \cup {Instance(node, ij).profile.text[1] : ij \in
            {ij \in MigDevices(node) : Served(Instance(node, ij).uuid, dm)}}

\* With the strategy "single" all devices of a node are alike, so that a container that
\* asks for a number of them knows what it gets (assertAllMigDevicesAreValid and the
\* checks of buildDeviceMapFromConfigResources).
SingleMeansUniform ==
  IsBuilt /\ task.config.strategy = "single" => Cardinality(KindsOf(task.node, Result.map)) <= 1

\* Two devices have a file in common only if they are the same device under two resources,
\* or the file is that of the GPU they are parts of: a container that is given one MIG
\* instance cannot open another (GetMigCapabilityDevicePaths, GetPaths).
DevicesAreApart ==
  IsBuilt =>
    LET dm == Result.map IN
    \A k, l \in DOMAIN dm : k[2] # l[2] =>
      dm[k].paths \cap dm[l].paths \subseteq
        {<<"nvidia", g>> : g \in {dm[k].index[1]} \cap {dm[l].index[1]}}

-----------------------------------------------------------------------------
(* Sharing, from the document to the replicas.                              *)
SharedNodes == {<<Whole("g1", "no")>>, <<Whole("g1", "no"), Whole("g2", "no")>>,
                <<Whole("g1", "no"), Split("g2", <<"b1", "b2">>, <<Small, Small>>)>>}
DeviceDocs == {[word |-> "all"], [word |-> "some"], [count |-> 0], [count |-> 2],
               [list |-> <<[by |-> "index", is |-> <<1>>], [by |-> "uuid", is |-> "g2"]>>],
               [list |-> <<[by |-> "index", is |-> <<3>>]>>], [list |-> <<[by |-> "path", is |-> 0]>>]}
RuleDocs == [name : {"number"}, replicas : {1, 2}, devices : DeviceDocs]
  \cup [name : {"number", "memory", "other"}, replicas : {2}]
  \cup {[replicas |-> 2], [name |-> "number"],
        [name |-> "number", replicas |-> 3, rename |-> "mine"]}
SectionDocs == {[failRequestsGreaterThanOne |-> TRUE]}
  \cup [resources : {<<>>} \cup {<<r>> : r \in RuleDocs}]
  \cup [resources : {<<[name |-> n, replicas |-> 2], [name |-> "memory", replicas |-> 3]>> : n \in {"number", "memory"}},
        renameByDefault : BOOLEAN, failRequestsGreaterThanOne : BOOLEAN]
Plain == [resources |-> <<[name |-> "number", replicas |-> 2]>>]
SharingDocs == {[x \in {} |-> 0]} \cup [timeSlicing : SectionDocs] \cup [mps : SectionDocs]
  \cup [timeSlicing : {Plain}, mps : SectionDocs]

\* The plugin always disables names and choices of devices (main.go); disable is FALSE
\* for the library as its own tests use it.
ShareTasks == [of : {"share"}, node : SharedNodes, strategy : {"none", "mixed"},
               doc : SharingDocs, disable : BOOLEAN]

\* The IDs chosen for each rule.
RuleChoices(rules, dm) ==
  {ids \in [DOMAIN rules -> SUBSET UNION {IDsOf(dm, r) : r \in ResourceManagers(dm)}] :
     \A k \in DOMAIN rules : ids[k] \in getIDsOfDevicesToReplicate(dm, rules[k])}
BaseMap == buildDeviceMapFromConfigResources(task.node, Config(task.strategy, NoFilter, Models))
Share ==
  Step("share",
    LET parsed == NewConfig(task.doc)
        s == IF task.disable THEN DisableResourceNamingInConfig(ValueOf(parsed)) ELSE ValueOf(parsed)
        rules == ReplicatedResources(s).resources
        choices == RuleChoices(rules, BaseMap.map)
    IN IF parsed = {} THEN {[stage |-> "refused"]}
       ELSE IF choices = {} THEN {[stage |-> "failed"]}
       ELSE {[stage |-> "built", sharing |-> s,
              map |-> updateDeviceMapWithReplicas(rules, BaseMap.map, ids)] : ids \in choices})

\* A configuration that was accepted never makes the plugin fail later, whatever the
\* node: nothing in it can name a device that is not there (DisableResourceNamingInConfig
\* and getIDsOfDevicesToReplicate).
AcceptedSharingBuilds == Done("share") /\ task.disable => Result.stage # "failed"

\* The replicas stand for the devices: a device is offered either itself or as all its
\* replicas under the name of its rule, numbered without a gap, and nothing else is
\* offered.  (Two rules for one resource are accepted too; they are not meant here.)
ReplicasStandForDevices ==
  Done("share") /\ Result.stage = "built" =>
    LET rules == ReplicatedResources(Result.sharing).resources
        Of(res) == {k \in DOMAIN rules : rules[k].name = res}
        Replicas(k, id) == {Renamed(rules[k])} \X {NewAnnotatedID(id, n) : n \in 0 .. rules[k].replicas - 1}
        Offers(e) == {{e}} \cup {Replicas(k, e[2]) : k \in Of(e[1])}
    IN (\A k, l \in DOMAIN rules : rules[k].name = rules[l].name => k = l) =>
         /\ \A e \in DOMAIN BaseMap.map :
              Cardinality({f \in Offers(e) : f \cap DOMAIN Result.map # {}}) = 1
         /\ DOMAIN Result.map \subseteq UNION {UNION Offers(e) : e \in DOMAIN BaseMap.map}
         /\ \A e \in DOMAIN BaseMap.map : \E f \in Offers(e) : f \subseteq DOMAIN Result.map

\* Under MPS no request for more than one shared device is valid, whatever the document
\* says of such requests and of time slicing (NewConfig, SharingStrategy, ValidateRequest).
MPSRequestsAreSingle ==
  Done("share") /\ Result.stage = "built" /\ Result.sharing.hasMPS =>
    \A res \in ResourceManagers(Result.map) : \A request \in SUBSET IDsOf(Result.map, res) :
      ValidateRequest(IDsOf(Result.map, res), SharingStrategy(Result.sharing),
                      ReplicatedResources(Result.sharing).failRequestsGreaterThanOne, request) =>
        Cardinality(request) <= 1 \/ \A id \in request : ~HasAnnotations(id)

-----------------------------------------------------------------------------
(* The preferred allocation among replicas.                                  *)
AllIDs == {NewAnnotatedID(DeviceID("g1"), n) : n \in 0 .. 2}
  \cup {NewAnnotatedID(DeviceID("g2"), n) : n \in 0 .. 1} \cup {NewAnnotatedID(DeviceID("g3"), 0)}
Indexed(ids, index) == [id \in ids |-> [index |-> index]]
WholeIDs == {DeviceID(u) : u \in {"g1", "g2", "g3"}}
MigIDs == {DeviceID(u) : u \in {"a1", "a2", "b1"}}
PreferTasks == {[of |-> "prefer", devices |-> Indexed(AllIDs, <<1>>), available |-> a, required |-> r, size |-> n] :
                  a \in SUBSET AllIDs, r \in SUBSET AllIDs, n \in 0 .. 4}
  \cup {[of |-> "prefer", devices |-> Indexed(MigIDs, <<1, 1>>), available |-> a, required |-> {}, size |-> n] :
          a \in SUBSET MigIDs, n \in 0 .. 2}
  \cup {[of |-> "prefer", devices |-> Indexed(WholeIDs, <<1>>), available |-> WholeIDs, required |-> r, size |-> 2] :
          r \in {r \in SUBSET WholeIDs : Cardinality(r) <= 2}}
Prefer ==
  Step("prefer", LET sets == getPreferredAllocation(task.devices, task.available, task.required, task.size)
                 IN IF sets = {} THEN {[ok |-> FALSE]} ELSE {[ok |-> TRUE, chosen |-> s] : s \in sets})

\* The devices preferred are available, as many as asked for, and spread: no exchange of
\* one of them for one that was left would even out the replicas in use per GPU
\* (getPreferredAllocation; distributedAlloc picks the least used GPU every time).  If
\* there are too few, the replicas give an error, whole devices an empty preference.
PreferredIsBalanced ==
  Done("prefer") =>
    LET left == task.available \ Result.chosen
        Load(uuid) == Cardinality({id \in DOMAIN task.devices \ left : id.uuid = uuid})
    IN IF Cardinality(task.available) < task.size THEN Result.ok => Result.chosen = {}
       ELSE /\ Result.ok /\ task.required \subseteq Result.chosen
            /\ Result.chosen \subseteq task.available
            /\ Cardinality(Result.chosen) = IF task.size < Cardinality(task.required)
                                              THEN Cardinality(task.required) ELSE task.size
            /\ \A c \in Result.chosen \ task.required, d \in left :
                 c.uuid = d.uuid \/ Load(c.uuid) - 1 <= Load(d.uuid)
-----------------------------------------------------------------------------
(* The settings and the lists made of them.                                 *)
Maps == {[x \in {} |-> 0]} \cup [kubeSystem : [split : {3}, coreScaling : {1}, factor : 0 .. 4]]
  \cup [kubeSystem : {[split |-> 3, coreScaling |-> 1], Unreadable}, volcanoSystem : {[split |-> 5, coreScaling |-> 2, factor |-> 2]}]
CommandLines == {[x \in {} |-> 0], [split |-> 4], [factor |-> 5]}
Entries0 == {<<>>, <<[name |-> "other", split |-> 9]>>,
             <<[name |-> NodeName, split |-> 7, coreScaling |-> 0], [name |-> NodeName, split |-> 0]>>}
Memories == {15360, 20001, 24564, 40960, 46068, 81559, 97887, 143771}
GPUList(n, memory) ==
  [i \in 1 .. n |-> [id |-> i, memory |-> memory, minor |-> n - i,
                     health |-> IF i = 1 THEN "Unhealthy" ELSE "Healthy"]]
ListTasks == [of : {"list"}, maps : Maps, cli : CommandLines, entries : Entries0,
              gpus : {GPUList(n, m) : n \in {1, 3, 8, 9, 16}, m \in Memories}]
List ==
  Step("list",
    LET s == LoadNvidiaConfig(task.maps, task.cli, task.entries)
        Sent(resource) == apiDevices(resource, task.gpus, s)
    IN IF s.factor = 0 THEN {[panics |-> TRUE]}
       ELSE {[panics |-> FALSE, factor |-> s.factor, number |-> Sent("number"), memory |-> Sent("memory"),
              annotation |-> DecodedNodeDevices(ConvertDeviceInfo(task.gpus, s)),
              advice |-> checkDeviceEntries(Entries(Sent("memory")), s.factor)]})

\* The one ConfigMap that counts: that of kube-system if there is one.
SettingsMap == IF Given(task.maps, "kubeSystem") THEN task.maps.kubeSystem
               ELSE IF Given(task.maps, "volcanoSystem") THEN task.maps.volcanoSystem
               ELSE [x \in {} |-> 0]
OwnSplits ==
  {task.entries[k].split : k \in {k \in DOMAIN task.entries : task.entries[k].name = NodeName}} \ {0}

\* A flag that is set overrides the ConfigMap, and the default of one that is not set does
\* not: what the operator wrote there holds; and a node's entry for itself overrides the
\* ConfigMap, that of another node nothing (LoadNvidiaConfig, readFromConfigFile).  Nothing
\* is said where no source gives a number (the flag's default is passed over), nor where
\* both the node's entry and the command line do, whose order is not documented.
SettingsHaveTheirSource ==
  Done("list") =>
    LET factors == IF Given(task.cli, "factor") THEN {task.cli.factor}
                   ELSE IF Given(SettingsMap, "factor") THEN {SettingsMap.factor} \ {0} ELSE {}
        splits == IF Given(task.cli, "split") THEN IF OwnSplits = {} THEN {task.cli.split} ELSE {}
                  ELSE IF OwnSplits # {} THEN OwnSplits
                  ELSE IF Given(SettingsMap, "split") THEN {SettingsMap.split} ELSE {}
    IN /\ factors # {} => ~Result.panics /\ Result.factor \in factors
       /\ splits # {} /\ ~Result.panics =>
            \A i \in DOMAIN Result.number : Result.number[i].entries \in splits

\* The scheduler and the kubelet are told the same: for each device as many shares and
\* as much memory in the annotation as there are entries in the lists, and the same
\* health; and if a memory list is too long, the factor advised brings it down to less
\* than the limit and an entry per GPU, far within the margin the limit leaves: as sizes
\* are rounded down GPU by GPU, the limit itself is not kept, witness nine GPUs of 20001
\* MiB (ConvertDeviceInfo, apiDevices, checkDeviceEntries).
ListsAgreeAndFit ==
  Done("list") /\ ~Result.panics =>
    /\ \A i \in DOMAIN task.gpus : \E d \in ToSet(Result.annotation) :
         /\ d.id = task.gpus[i].id
         /\ d.count = Result.number[i].entries /\ d.devmem = Result.memory[i].entries
         /\ d.health <=> Result.memory[i].health = "Healthy"
    /\ \A factor \in Result.advice :
         Entries(apiDevices("memory", task.gpus, [split |-> 1, coreScaling |-> 1, factor |-> factor]))
           < EntryLimit + Len(task.gpus)

\* See the two parts above.
DeviceListsAgree == SettingsHaveTheirSource /\ ListsAgreeAndFit

-----------------------------------------------------------------------------
(* From the flags to the response.                                          *)
FlagLines == [migStrategy : {"none", "single", "mixed"}, deviceIDStrategy : {"uuid", "index"},
              deviceListStrategy : (SUBSET ListStrategies) \ {{}}]
  \cup [mpsRoot : {"/mps"}, migStrategy : {"none", "single", "mixed"}]
  \cup [failOnInitError : {FALSE}, deviceDiscoveryStrategy : {"auto", "nvml", "other"}]
  \cup {[deviceListStrategy |-> {"envvar", "other"}], [passDeviceSpecs |-> TRUE], [deviceIDStrategy |-> "name"]}
NVMLHost == [nvml |-> TRUE, nvmlInit |-> TRUE, platform |-> "nvml", channels |-> {0}, specs |-> TRUE,
             emptyModes |-> {}, devices |-> [none |-> {"gpu"}, single |-> {"mig"}, mixed |-> {"gpu", "mig"}]]
Hosts == {NVMLHost, [NVMLHost EXCEPT !.nvmlInit = FALSE], [NVMLHost EXCEPT !.channels = {}],
          [NVMLHost EXCEPT !.specs = FALSE], [NVMLHost EXCEPT !.emptyModes = {"gds"}],
          [NVMLHost EXCEPT !.nvml = FALSE, !.platform = "tegra"],
          [NVMLHost EXCEPT !.nvml = FALSE, !.platform = "unknown"]}
StartTasks == [of : {"start"}, line : FlagLines, file : {[x \in {} |-> 0], [migStrategy |-> "single"]},
               mps : BOOLEAN, host : Hosts, imex : [ids : {<<>>, <<0>>, <<1>>}, required : BOOLEAN],
               gpus : {<<1, 2>>, <<2, 1, 3>>}]
Dev(i) == [uuid |-> <<"u", i>>, index |-> <<i>>, usedmem |-> 10 * i]
Requested == [i \in DOMAIN task.gpus |-> Dev(task.gpus[i])]
TheFlags == UpdateFromCLIFlags(task.file, task.line, DefaultFlags)
TheSharing ==
  DisableResourceNamingInConfig(ValueOf(NewConfig(IF task.mps THEN [mps |-> Plain] ELSE [x \in {} |-> 0])))
Start ==
  Step("start",
    LET plugins == StartedPlugins(TheFlags, TheSharing, task.imex, task.host)
    IN IF plugins = {} THEN {[started |-> FALSE]}
       ELSE UNION {{[started |-> TRUE, plugin |-> p, response |-> r,
                     limits |-> MemoryLimits(Requested, [factor |-> 2])] :
                      r \in getAllocateResponse(p, TheFlags, Requested)} : p \in plugins})

\* A plugin that starts has all it relies on: CDI strategies have a handler that can name
\* devices, MPS has its directory and shares no MIG device, and a required IMEX channel
\* exists (validateFlags, cdi.New, getMPSOptions, GetChannels).
StartedPluginsAreSound ==
  Done("start") /\ Result.started =>
    LET p == Result.plugin IN
    /\ AnyCDIEnabled(TheFlags.deviceListStrategy) => ~p.cdi.null
    /\ p.mps => "mig" \notin p.kinds /\ TheFlags.mpsRoot # ""
    /\ ToSet(p.channels) \subseteq task.host.channels
    /\ task.imex.required => p.channels = task.imex.ids

\* Whatever strategies are chosen, each of them brings every device of the request into
\* the container; and where the devices are listed by uuid, the i-th memory limit is that
\* of the i-th device listed.  (By index they come in the order of a map.)
LimitsMatchDevices ==
  Done("start") /\ Result.started =>
    LET r == Result.response
        strategies == TheFlags.deviceListStrategy
        Name(d) == IF TheFlags.deviceIDStrategy = "uuid" THEN d.uuid ELSE d.index
        names == {Name(d) : d \in ToSet(Requested)}
    IN /\ "cdi-annotations" \in strategies => \A n \in names : <<"gpu", n>> \in ToSet(r.annotations)
       /\ "cdi-cri" \in strategies => \A n \in names : <<"gpu", n>> \in ToSet(r.cdi)
       /\ "volume-mounts" \in strategies => \A n \in names : <<"device", n>> \in r.mounts
       /\ "envvar" \in strategies /\ "volume-mounts" \notin strategies =>
            /\ ToSet(r.visible) = names
            /\ TheFlags.deviceIDStrategy = "uuid" =>
                 \A i \in DOMAIN r.visible : \E d \in ToSet(Requested) :
                   d.uuid = r.visible[i] /\ Result.limits[i] = 2 * d.usedmem

-----------------------------------------------------------------------------
(* The partition of the GPUs, request by request.                           *)
\* The geometries of an A100 in the shipped configuration: none is part of another.
Geometries == <<[group |-> "group1", instances |-> [p \in {"1g"} |-> 7]],
                [group |-> "group2", instances |-> [p \in {"2g", "1g"} |-> IF p = "2g" THEN 3 ELSE 1]],
                [group |-> "group3", instances |-> [p \in {"3g"} |-> 2]],
                [group |-> "group4", instances |-> [p \in {"7g"} |-> 1]]>>
PartEntry(devices, k) == [devices |-> devices, enabled |-> TRUE, instances |-> Geometries[k].instances]
Unsplit(devices) == [devices |-> devices, enabled |-> FALSE, instances |-> [p \in {} |-> 0]]
Exports == {<<Unsplit({})>>, <<Unsplit({0, 1})>>, <<PartEntry({}, 1)>>, <<PartEntry({0}, 2), Unsplit({1})>>,
            <<PartEntry({0, 1}, 2), PartEntry({1}, 3)>>, <<PartEntry({0}, 1)>>}
MigRequests == [gpu : {0, 1}, group : {"group1", "group2", "group3", "group9"}, position : {0}]
PartitionTasks == [of : {"partition"}, export : Exports,
                   requests : {<<r>> : r \in MigRequests} \cup (MigRequests \X MigRequests)
                                \cup (MigRequests \X MigRequests \X MigRequests)]
Partition ==
  Step("partition",
    LET exported == processMigConfigs(task.export, 2)
    IN IF ~exported.ok THEN {exported}
       ELSE {[ok |-> TRUE, before |-> exported.configs,
              after |-> Partitioned(exported.configs, exported.configs, Geometries, task.requests)]})

\* Whatever came before, the hardware has for every GPU exactly the instances of the group
\* last asked for on it, and a GPU nobody asked for is as it was: requests for one GPU
\* neither mix with earlier ones nor touch another, though all are applied together and
\* may stem from one entry (GenerateMigTemplate, processMigConfigs, ApplyMigTemplate).
PartitionIsTheLastRequested ==
  Done("partition") /\ Result.ok =>
    \A i \in {1, 2} :
      LET asked == {k \in DOMAIN task.requests : /\ task.requests[k].gpu = i - 1
                                                 /\ Group(Geometries, task.requests[k].group) # {}}
          now == Result.after.hardware[i]
      IN IF asked = {} THEN now = Result.before[i]
         ELSE \E k \in asked : /\ \A l \in asked : l <= k
                               /\ {now.instances} = Group(Geometries, task.requests[k].group)
                               /\ now.enabled /\ now.devices = {i - 1}

\* The listing of nvidia-smi, GPU by GPU, each with its instances.
SmiTasks == [of : {"smi"}, known : SUBSET {0, 1}, instances : [{"g1", "g2", "g3"} -> 0 .. 2], gpu : {"g1", "g2", "g3"}, index : 0 .. 2]
Smi ==
  LET Listed(g) == <<[mig |-> FALSE, uuid |-> g]>>
        \o [j \in 1 .. task.instances[g] |-> [mig |-> TRUE, index |-> j - 1, uuid |-> <<g, j - 1>>]]
      known == {n \in task.known : n < task.instances[task.gpu]}
  IN Step("smi", {GetMigUUIDFromIndex(known, Listed("g1") \o Listed("g2") \o Listed("g3"), task.gpu, task.index)})

\* The instance looked up is the GPU's own, if it has one of that number, whether NVML
\* knows of it or only the listing does (GetMigUUIDFromIndex, GetMigUUIDFromSmiOutput).
InstanceIsOwn ==
  Done("smi") =>
    Result = IF task.index < task.instances[task.gpu] THEN {<<task.gpu, task.index>>} ELSE {}

\* What a call of nvidia-ctk leaves of the partition: nothing, or a file that lists it, with
\* or without the capabilities of its MIG devices; the old file is of the partition before.
SpecFile(of, good) == [kind |-> "gpu", of |-> of, devices |-> {[mig |-> FALSE], [mig |-> TRUE, capability |-> good]}]
SpecTasks == [of : {"spec"}, old : {{}} \cup {{SpecFile("before", good)} : good \in BOOLEAN},
              made : [1 .. MaxTryTimes -> {{}} \cup {{SpecFile("now", good)} : good \in BOOLEAN}]]
WriteSpec == Step("spec", {WrittenSpec(task.old, task.made)})

\* The response waits for a file whose MIG devices can all be opened, and is given up only
\* if no call made one; it is a file of the partition before only if the first call made
\* none (GetContainerDeviceStrArray, CheckCDISpecFile).
SpecIsComplete ==
  Done("spec") =>
    /\ \A file \in Result : checkCDISpec(file)
    /\ \A file \in Result : file.of = "before" => task.made[1] = {}
    /\ Result = {} => \A n \in DOMAIN task.made : ~CheckCDISpecFile(task.made[n])

\* See PartitionIsTheLastRequested, InstanceIsOwn and SpecIsComplete.
MigDeviceIsTheOneAssigned == PartitionIsTheLastRequested /\ InstanceIsOwn /\ SpecIsComplete

-----------------------------------------------------------------------------
(* A scrape of the monitor.                                                  *)
Now == 5
Slot(n) == [context |-> 0, module |-> n, buffer |-> n, offset |-> 0, total |-> 2 * n, sm |-> n]
Region(uid, ctr, version, valid, slots, last) ==
  [podUID |-> uid, ctrName |-> ctr, version |-> version, lastKernelTime |-> last,
   devices |-> [i \in DOMAIN valid |-> [valid |-> valid[i], limit |-> 10 * i]],
   procs |-> [s \in DOMAIN slots |-> [i \in DOMAIN valid |-> Slot(slots[s] * i)]]]
Pod(name, uid, containers) == [name |-> name, uid |-> uid, containers |-> containers]
ListedPods == {{}, {Pod("p", "u1", {"c", "d"})}, {Pod("p", "u2", {"c"})},
               {Pod("p", "u2", {"c", "d"}), Pod("q", "u3", {"c"})}}
\* A directory is named after the uid of a pod and a container, so a name is there once;
\* it may be that of an init container ("d" of a pod that lists "c" only).
Directories == {<<"u1", "c">>, <<"u2", "c">>, <<"u2", "d">>, <<"u3", "c">>}
CachesOf(names) ==
  {[k \in DOMAIN names |-> Region(names[k][1], names[k][2], v, valid, IF k = 1 THEN slots ELSE <<k>>, last)] :
     v \in {0, 1}, valid \in {<<TRUE>>, <<TRUE, FALSE>>, <<TRUE, TRUE>>},
     slots \in {<<>>, <<1>>, <<0, 3>>, <<2, 3>>}, last \in {0, 3, 9}}
HostGPUs == {<<[uuid |-> "g1", memory |-> 7, util |-> 50, fails |-> f],
               [uuid |-> "g2", memory |-> 9, util |-> 0, fails |-> {}]>> : f \in SUBSET {"memory", "uuid", "util"}}
ScrapeTasks == [of : {"scrape"}, pods : ListedPods, gpus : {CHOOSE g \in HostGPUs : g[1].fails = {}},
                cache : UNION {CachesOf(SetToSeq(names)) : names \in SUBSET Directories}]
  \cup [of : {"scrape"}, pods : {{}}, gpus : HostGPUs, cache : {<<>>}]
Scrape == Step("scrape", {[rounds |-> CollectContainers(task.pods, task.cache, Now),
                           host |-> CollectHost(task.gpus)]})

\* A scrape is accepted, for no two of its metrics have the same labels, and it tells the
\* usage of a container and nobody else's: that of every container that is listed and has
\* a region, and not that of a pod that was deleted, though a new one has its name
\* (Collect, DeviceMemoryTotal).
ScrapeIsTheUsage ==
  Done("scrape") =>
    LET rounds == Result.rounds
        sent == (UNION {rounds[r] : r \in DOMAIN rounds}) \cup Result.host
        Names(metric) == <<metric.desc, metric.labels>>
        Total(region, i) ==
          LET Upto[s \in 0 .. Len(region.procs)] ==
                IF s = 0 THEN 0 ELSE Upto[s - 1] + region.procs[s][i].total
          IN Upto[Len(region.procs)]
        Devices == UNION {DOMAIN task.cache[k].devices : k \in DOMAIN task.cache}
        Used == {t \in task.pods \X (DOMAIN task.cache) \X Devices :
            /\ task.cache[t[2]].podUID = t[1].uid /\ task.cache[t[2]].ctrName \in t[1].containers
            /\ t[3] \in DOMAIN task.cache[t[2]].devices /\ task.cache[t[2]].devices[t[3]].valid}
        Expected == {[desc |-> "usage", labels |-> <<t[1].name, task.cache[t[2]].ctrName, t[3]>>,
                      value |-> Total(task.cache[t[2]], t[3])] : t \in Used}
    IN /\ \A r, s \in DOMAIN rounds : \A a \in rounds[r], b \in rounds[s] :
            Names(a) = Names(b) => r = s /\ a = b
       /\ \A a, b \in Result.host : Names(a) = Names(b) => a = b
       /\ {a \in sent : a.desc = "usage"} = Expected
       /\ \A a \in sent : a.desc = "lastKernel" => a.value \in 0 .. Now

-----------------------------------------------------------------------------
(* Which Xids count.                                                        *)
XidLists == SUBSET {All, Malformed, 0, 13, 79}
XidTasks == [of : {"xid"}, disable : XidLists, enable : XidLists, xid : {13, 31, 79, 95}]
Xid == Step("xid", {Examined(DisabledXids(task.disable, task.enable), task.xid)})

\* Everything is disabled and not everything enabled.
AllIsOff == {0, All} \cap task.disable # {} /\ {0, All} \cap task.enable = {}

\* An Xid is examined exactly if the two lists select it, whatever is in them; an entry 0
\* is the same as "all" (getDisabledHealthCheckXids, IsDisabled, checkHealth).  Nothing is
\* said of an Xid enabled while all are disabled: see EnabledXidIsExamined.
SelectionIsMeant ==
  Done("xid") /\ ~(AllIsOff /\ task.xid \in task.enable) =>
    LET Meaning(list) == IF 0 \in list THEN list \cup {All} ELSE list
    IN Result = Selected(Meaning(task.disable), Meaning(task.enable), task.xid)

\* An Xid that is enabled by its number is examined, also when all are disabled.  (False of
\* the code: checkHealth returns at once if IsAllDisabled, which looks at no other Xid.)
EnabledXidIsExamined == Done("xid") /\ task.xid \in task.enable => Result

-----------------------------------------------------------------------------
\* See EveryGPUIsServedOnce, SingleMeansUniform and DevicesAreApart.
DeviceMapIsRight == EveryGPUIsServedOnce /\ SingleMeansUniform /\ DevicesAreApart

\* See AcceptedSharingBuilds, ReplicasStandForDevices and MPSRequestsAreSingle.
SharingIsCoherent == AcceptedSharingBuilds /\ ReplicasStandForDevices /\ MPSRequestsAreSingle

Init == /\ result = <<>>
        /\ \/ task \in BuildTasks \/ task \in ShareTasks
           \/ task \in {t \in PreferTasks : t.required \subseteq t.available}
           \/ task \in ListTasks \/ task \in StartTasks \/ task \in PartitionTasks \/ task \in XidTasks \/ task \in SmiTasks \/ task \in SpecTasks
           \/ task \in ScrapeTasks
Next == Build \/ Share \/ Prefer \/ List \/ Start \/ Partition \/ Smi \/ WriteSpec \/ Scrape \/ Xid
Spec == Init /\ [][Next]_vars
=============================================================================
