--------------------------- MODULE DeviceMapProofs ---------------------------
(***************************************************************************)
(* Three theorems on the devices of a node, for any node and configuration.*)
(*                                                                         *)
(* The device map is right.  Every device of the map is described: it is a *)
(* GPU that may be mapped, with its own file and its own index, or a MIG   *)
(* instance, with the files of its capabilities beside that of its GPU;    *)
(* and every GPU and every instance that should be there is.  From this    *)
(* description, and from what a node is like, the three parts of           *)
(* DeviceMapIsRight follow one by one.                                     *)
(*                                                                         *)
(* The preference among the devices of a resource is balanced.             *)
(* distributedAlloc takes the replicas one by one; the sets it may have    *)
(* taken after n turns are a function defined by recursion on n.  By       *)
(* induction on n, every set taken after n turns has n elements and is     *)
(* spread: no exchange of one of them for one that is left would even out  *)
(* the load of the GPUs.                                                   *)
(*                                                                         *)
(* The sharing is coherent.  The rules of the document are applied one     *)
(* after the other by a fold; its steps show that the keys are in the end  *)
(* those of no rule and those each rule adds.  A rule keeps the devices it *)
(* does not choose and adds the replicas of the others, whose keys tell    *)
(* the device they stand for.  That rules have at least two replicas, that *)
(* all devices are chosen when choices are disabled, and that MPS comes    *)
(* with a rule, follows from what the document parses to.                  *)
(***************************************************************************)
EXTENDS MCAlgorithms, InductionLemmas

\* A step on a node or on a choice of devices is that of the algorithm it is for.
LEMMA OwnStep ==
  ASSUME Next
  PROVE  (task.of = "build" => Build) /\ (task.of = "share" => Share) /\ (task.of = "prefer" => Prefer)
<1>1. (Build => task.of = "build") /\ (Share => task.of = "share") /\ (Prefer => task.of = "prefer")
  BY DEF Build, Share, Prefer, Step
<1>2. (List => task.of = "list") /\ (Start => task.of = "start") /\ (Partition => task.of = "partition")
  BY DEF List, Start, Partition, Step
<1>3. (Smi => task.of = "smi") /\ (WriteSpec => task.of = "spec")
  BY DEF Smi, WriteSpec, Step
<1>4. (Scrape => task.of = "scrape") /\ (Xid => task.of = "xid")
  BY DEF Scrape, Xid, Step
<1> QED BY <1>1, <1>2, <1>3, <1>4 DEF Next

\* The keys of a map are those of the entries, and each value is that of an entry.
HasEntries(dm, entries) ==
  /\ \A e \in entries : <<e.res, e.dev.id>> \in DOMAIN dm
  /\ \A k \in DOMAIN dm : \E e \in entries : <<e.res, e.dev.id>> = k /\ dm[k] = e.dev

\* AsMap keeps every key and gives it the device of one of its entries.
LEMMA AsMapHas ==
  ASSUME NEW entries
  PROVE  HasEntries(AsMap(entries), entries)
<1> DEFINE Keys == {<<e.res, e.dev.id>> : e \in entries}
           Of(k) == CHOOSE e \in entries : <<e.res, e.dev.id>> = k
<1>1. AsMap(entries) = [k \in Keys |-> Of(k).dev]
  BY DEF AsMap
<1>2. ASSUME NEW k \in Keys
      PROVE  Of(k) \in entries /\ <<Of(k).res, Of(k).dev.id>> = k
  <2>1. \E e \in entries : <<e.res, e.dev.id>> = k
    OBVIOUS
  <2> QED BY <2>1
<1> HIDE DEF Keys, Of
<1>3. DOMAIN AsMap(entries) = Keys /\ \A k \in Keys : AsMap(entries)[k] = Of(k).dev
  BY <1>1
<1>4. \A e \in entries : <<e.res, e.dev.id>> \in Keys
  BY DEF Keys
<1> QED BY <1>2, <1>3, <1>4 DEF HasEntries

\* What a node is like.  The driver gives every capability a device file of its own, which
\* is not that of a GPU; ...
MinorsAreUnique(node) ==
  \A i, j \in DOMAIN node : \A k \in DOMAIN node[i].minors, l \in DOMAIN node[j].minors :
    LET a == node[i].minors[k]
        b == node[j].minors[l]
    IN a # Unparsable =>
         /\ a.device[1] # "nvidia"
         /\ b # Unparsable /\ a.device = b.device => a.path = b.path

\* ... a GPU has at most seven MIG instances, and none unless MIG is enabled; uuids are
\* unique, and so are the capabilities of an instance.
NodeInput(node) ==
  /\ \A i \in DOMAIN node : /\ DOMAIN node[i].insts \subseteq 1 .. 7
                            /\ ~node[i].mig => DOMAIN node[i].insts = {}
                            /\ DOMAIN node[i].minors = 1 .. Len(node[i].minors) /\ Len(node[i].minors) \in Nat
  /\ \A i, j \in DOMAIN node : node[i].uuid = node[j].uuid => i = j
  /\ \A a, b \in MigDevices(node) : a # b =>
       /\ Instance(node, a).uuid # Instance(node, b).uuid
       /\ Instance(node, a).capabilities \cap Instance(node, b).capabilities = {}
  /\ \A a \in MigDevices(node), i \in DOMAIN node : Instance(node, a).uuid # node[i].uuid
  /\ MinorsAreUnique(node)

Resources == {"number", "memory"}

\* A device that is a GPU, and one that is a MIG instance.
IsGPU(node, cfg, dm, k) ==
  \E i \in GPUsToMap(node, cfg) : /\ k[1] \in Resources /\ k = <<k[1], DeviceID(node[i].uuid)>>
                                  /\ dm[k].index = <<i>> /\ dm[k].paths = {<<"nvidia", i>>}
MigResource(node, cfg, ij) ==
  LET matching == {k \in DOMAIN cfg.migs : Instance(node, ij).profile \in cfg.migs[k].matches}
  IN cfg.migs[CHOOSE k \in matching : \A l \in matching : k <= l].name
IsInstance(node, cfg, dm, k) ==
  \E ij \in MigDevices(node) :
    /\ k = <<MigResource(node, cfg, ij), DeviceID(Instance(node, ij).uuid)>>
    /\ dm[k].index = ij
    /\ dm[k].paths = {<<"nvidia", ij[1]>>} \cup CapabilityPaths(Instance(node, ij), node[ij[1]])
    /\ ~MigFails(Instance(node, ij), node[ij[1]])

HasGPUs(node, cfg, dm) ==
  \A i \in GPUsToMap(node, cfg), r \in Resources :
    ~GPUFails(node[i]) => <<r, DeviceID(node[i].uuid)>> \in DOMAIN dm
HasInstances(node, cfg, dm) ==
  \A ij \in MigDevices(node) : <<MigResource(node, cfg, ij), DeviceID(Instance(node, ij).uuid)>> \in DOMAIN dm

\* The resources of whole GPUs are the two that are served, each for the same models.
LEMMA TwoResources ==
  ASSUME NEW models
  PROVE  LET gpus == DefaultGPUs(<<"number", "memory">>, models)
         IN ToSet(gpus) = {[name |-> r, matches |-> models] : r \in Resources}
<1> DEFINE names == <<"number", "memory">>
           gpus == DefaultGPUs(names, models)
<1>1. DOMAIN names = {1, 2} /\ names[1] = "number" /\ names[2] = "memory"
  OBVIOUS
<1> HIDE DEF names
<1>2. /\ DOMAIN gpus = {1, 2}
      /\ gpus[1] = [name |-> "number", matches |-> models]
      /\ gpus[2] = [name |-> "memory", matches |-> models]
  BY <1>1 DEF DefaultGPUs
<1> HIDE DEF gpus
<1>3. ToSet(gpus) = {gpus[1], gpus[2]}
  BY <1>2 DEF ToSet
<1>4. {[name |-> r, matches |-> models] : r \in Resources}
        = {[name |-> "number", matches |-> models], [name |-> "memory", matches |-> models]}
  BY DEF Resources
<1> QED BY <1>2, <1>3, <1>4 DEF gpus, names

\* buildGPUDeviceMap: the devices are GPUs to be mapped, all but the broken ones.
LEMMA GPUMapIs ==
  ASSUME NEW node, NEW cfg, NEW models, cfg.gpus = DefaultGPUs(<<"number", "memory">>, models),
         buildGPUDeviceMap(node, cfg).ok
  PROVE  LET dm == buildGPUDeviceMap(node, cfg).map
         IN /\ \A k \in DOMAIN dm : IsGPU(node, cfg, dm, k)
            /\ HasGPUs(node, cfg, dm)
<1> DEFINE gpus == GPUsToMap(node, cfg)
           built == {i \in gpus : ~GPUFails(node[i])}
           Made(i) == BuildDevice(<<i>>, node[i].uuid, node[i], {})
           entries == {[res |-> r.name, dev |-> Made(i)] : r \in ToSet(cfg.gpus), i \in built}
           dm == AsMap(entries)
<1>1. buildGPUDeviceMap(node, cfg).map = dm
  BY DEF buildGPUDeviceMap, Built, Error
<1>2. ToSet(cfg.gpus) = {[name |-> r, matches |-> models] : r \in Resources}
  BY TwoResources
<1>3. \A r \in ToSet(cfg.gpus) : r.name \in Resources
  BY <1>2
<1>4. ASSUME NEW r \in Resources PROVE \E s \in ToSet(cfg.gpus) : s.name = r
  <2>1. [name |-> r, matches |-> models] \in ToSet(cfg.gpus)
    BY <1>2
  <2> QED BY <2>1
<1>5. ASSUME NEW i \in built
      PROVE  Made(i).id = DeviceID(node[i].uuid) /\ Made(i).index = <<i>> /\ Made(i).paths = {<<"nvidia", i>>}
  BY DEF BuildDevice
<1> HIDE DEF Made, built
<1>6. /\ \A e \in entries : \E i \in built : e.res \in Resources /\ e.dev = Made(i)
      /\ \A i \in built, r \in Resources : \E e \in entries : e.res = r /\ e.dev = Made(i)
  <2>1. ASSUME NEW e \in entries PROVE \E i \in built : e.res \in Resources /\ e.dev = Made(i)
    BY <1>3
  <2>2. ASSUME NEW i \in built, NEW r \in Resources PROVE \E e \in entries : e.res = r /\ e.dev = Made(i)
    <3>1. PICK s \in ToSet(cfg.gpus) : s.name = r
      BY <1>4
    <3>2. [res |-> s.name, dev |-> Made(i)] \in entries
      OBVIOUS
    <3> QED BY <3>1, <3>2
  <2> QED BY <2>1, <2>2
<1> HIDE DEF entries
<1>7. HasEntries(dm, entries)
  BY AsMapHas
<1> HIDE DEF dm
<1>8. ASSUME NEW k \in DOMAIN dm PROVE IsGPU(node, cfg, dm, k)
  <2>1. PICK e \in entries : <<e.res, e.dev.id>> = k /\ dm[k] = e.dev
    BY <1>7 DEF HasEntries
  <2>2. PICK i \in built : e.res \in Resources /\ e.dev = Made(i)
    BY <1>6
  <2>3. i \in gpus
    BY DEF built
  <2> QED BY <1>5, <2>1, <2>2, <2>3 DEF IsGPU
<1>9. ASSUME NEW i \in gpus, NEW r \in Resources, ~GPUFails(node[i])
      PROVE  <<r, DeviceID(node[i].uuid)>> \in DOMAIN dm
  <2>1. i \in built
    BY <1>9 DEF built
  <2>2. PICK e \in entries : e.res = r /\ e.dev = Made(i)
    BY <1>6, <2>1
  <2> QED BY <1>5, <1>7, <2>1, <2>2 DEF HasEntries
<1> QED BY <1>1, <1>8, <1>9 DEF HasGPUs

\* buildMigDeviceMap: the devices are MIG instances, all of them, and none is broken.
LEMMA MigMapIs ==
  ASSUME NEW node, NEW cfg, buildMigDeviceMap(node, cfg).ok
  PROVE  LET dm == buildMigDeviceMap(node, cfg).map
         IN /\ \A k \in DOMAIN dm : IsInstance(node, cfg, dm, k)
            /\ HasInstances(node, cfg, dm)
<1> DEFINE Made(ij) == BuildDevice(ij, Instance(node, ij).uuid, node[ij[1]],
                                  CapabilityPaths(Instance(node, ij), node[ij[1]]))
           entries == {[res |-> MigResource(node, cfg, ij), dev |-> Made(ij)] : ij \in MigDevices(node)}
           dm == AsMap(entries)
<1>1. /\ buildMigDeviceMap(node, cfg).map = dm
      /\ \A ij \in MigDevices(node) : ~MigFails(Instance(node, ij), node[ij[1]])
  BY DEF buildMigDeviceMap, Built, Error, MigResource
<1>3. \A ij \in MigDevices(node) :
        /\ Made(ij).id = DeviceID(Instance(node, ij).uuid) /\ Made(ij).index = ij
        /\ Made(ij).paths = {<<"nvidia", ij[1]>>} \cup CapabilityPaths(Instance(node, ij), node[ij[1]])
  BY DEF BuildDevice
<1> HIDE DEF Made
<1>2. /\ \A e \in entries : \E ij \in MigDevices(node) : e.res = MigResource(node, cfg, ij) /\ e.dev = Made(ij)
      /\ \A ij \in MigDevices(node) : \E e \in entries : e.res = MigResource(node, cfg, ij) /\ e.dev = Made(ij)
  <2>1. ASSUME NEW e \in entries
        PROVE  \E ij \in MigDevices(node) : e.res = MigResource(node, cfg, ij) /\ e.dev = Made(ij)
    OBVIOUS
  <2>2. ASSUME NEW ij \in MigDevices(node)
        PROVE  \E e \in entries : e.res = MigResource(node, cfg, ij) /\ e.dev = Made(ij)
    <3>1. [res |-> MigResource(node, cfg, ij), dev |-> Made(ij)] \in entries
      OBVIOUS
    <3> QED BY <3>1
  <2> QED BY <2>1, <2>2
<1> HIDE DEF entries
<1>4. HasEntries(dm, entries)
  BY AsMapHas
<1> HIDE DEF dm
<1>5. ASSUME NEW k \in DOMAIN dm PROVE IsInstance(node, cfg, dm, k)
  <2>1. PICK e \in entries : <<e.res, e.dev.id>> = k /\ dm[k] = e.dev
    BY <1>4 DEF HasEntries
  <2>2. PICK ij \in MigDevices(node) : e.res = MigResource(node, cfg, ij) /\ e.dev = Made(ij)
    BY <1>2
  <2> QED BY <1>1, <1>3, <2>1, <2>2 DEF IsInstance
<1>6. ASSUME NEW ij \in MigDevices(node)
      PROVE  <<MigResource(node, cfg, ij), DeviceID(Instance(node, ij).uuid)>> \in DOMAIN dm
  <2>1. PICK e \in entries : e.res = MigResource(node, cfg, ij) /\ e.dev = Made(ij)
    BY <1>2
  <2> QED BY <1>3, <1>4, <2>1 DEF HasEntries
<1> QED BY <1>1, <1>5, <1>6 DEF HasInstances

\* What the devices of a node are, if they could be built.
Describes(node, cfg, dm) ==
  /\ \A k \in DOMAIN dm : IsGPU(node, cfg, dm, k) \/ (cfg.strategy # "none" /\ IsInstance(node, cfg, dm, k))
  /\ HasGPUs(node, cfg, dm)
  /\ cfg.strategy # "none" => HasInstances(node, cfg, dm)
  /\ cfg.strategy = "single" =>
       /\ \A a, b \in MigDevices(node) : Instance(node, a).profile = Instance(node, b).profile
       /\ \/ \A k \in DOMAIN dm : IsGPU(node, cfg, dm, k)
          \/ \A k \in DOMAIN dm : IsInstance(node, cfg, dm, k)

\* buildDeviceMapFromConfigResources: merging the two loses nothing, for the strategy
\* "single" refuses a node that has both.
LEMMA DeviceMapDescribes ==
  ASSUME NEW node, NEW cfg, NEW models, cfg.gpus = DefaultGPUs(<<"number", "memory">>, models),
         buildDeviceMapFromConfigResources(node, cfg).ok
  PROVE  Describes(node, cfg, buildDeviceMapFromConfigResources(node, cfg).map)
<1> DEFINE gpus == buildGPUDeviceMap(node, cfg)
           migs == buildMigDeviceMap(node, cfg)
           both == buildDeviceMapFromConfigResources(node, cfg)
           dm == Merge(migs.map, gpus.map)
<1>1. gpus.ok => /\ \A k \in DOMAIN gpus.map : IsGPU(node, cfg, gpus.map, k)
                 /\ HasGPUs(node, cfg, gpus.map)
  BY GPUMapIs
<1>2. migs.ok => /\ \A k \in DOMAIN migs.map : IsInstance(node, cfg, migs.map, k)
                 /\ HasInstances(node, cfg, migs.map)
  BY MigMapIs
<1> HIDE DEF gpus, migs
<1>3. CASE cfg.strategy = "none"
  <2>1. both = gpus
    BY <1>3 DEF buildDeviceMapFromConfigResources, gpus
  <2> HIDE DEF both
  <2> QED BY <1>1, <1>3, <2>1 DEF Describes, both
<1>4. CASE cfg.strategy # "none"
  <2>1. /\ both = Built(dm) /\ gpus.ok /\ migs.ok
        /\ cfg.strategy = "single" => /\ assertAllMigDevicesAreValid(node)
                                      /\ DOMAIN gpus.map = {} \/ DOMAIN migs.map = {}
    BY <1>4 DEF buildDeviceMapFromConfigResources, gpus, migs, Error
  <2>2. both.map = dm
    BY <2>1 DEF Built
  <2>3. /\ DOMAIN dm = DOMAIN migs.map \cup DOMAIN gpus.map
        /\ \A k \in DOMAIN migs.map : dm[k] = migs.map[k]
        /\ \A k \in DOMAIN gpus.map : k \notin DOMAIN migs.map => dm[k] = gpus.map[k]
    BY DEF Merge
  <2> HIDE DEF dm, both
  <2>4. ASSUME NEW k \in DOMAIN migs.map PROVE k \in DOMAIN dm /\ IsInstance(node, cfg, dm, k)
    BY <1>2, <2>1, <2>3 DEF IsInstance
  <2>5. ASSUME NEW k \in DOMAIN gpus.map, k \notin DOMAIN migs.map PROVE IsGPU(node, cfg, dm, k)
    BY <1>1, <2>1, <2>3, <2>5 DEF IsGPU
  <2>6. \A k \in DOMAIN dm : IsGPU(node, cfg, dm, k) \/ IsInstance(node, cfg, dm, k)
    BY <2>3, <2>4, <2>5
  <2>7. HasGPUs(node, cfg, dm)
    BY <1>1, <2>1, <2>3 DEF HasGPUs
  <2>8. HasInstances(node, cfg, dm)
    BY <1>2, <2>1, <2>3 DEF HasInstances
  <2>9. ASSUME cfg.strategy = "single"
        PROVE  /\ \A a, b \in MigDevices(node) : Instance(node, a).profile = Instance(node, b).profile
               /\ \/ \A k \in DOMAIN dm : IsGPU(node, cfg, dm, k)
                  \/ \A k \in DOMAIN dm : IsInstance(node, cfg, dm, k)
    <3>1. \A a, b \in MigDevices(node) : Instance(node, a).profile = Instance(node, b).profile
      BY <2>1, <2>9 DEF assertAllMigDevicesAreValid
    <3>2. CASE DOMAIN gpus.map = {}
      BY <2>3, <2>4, <3>1, <3>2
    <3>3. CASE DOMAIN migs.map = {}
      BY <2>3, <2>5, <3>1, <3>3
    <3> QED BY <2>1, <2>9, <3>2, <3>3
  <2> QED BY <1>4, <2>2, <2>6, <2>7, <2>8, <2>9 DEF Describes, both
<1> QED BY <1>3, <1>4

-----------------------------------------------------------------------------
\* The resources that serve a device.
UnderOf(dm, uuid) == {r \in ResourceManagers(dm) : <<r, DeviceID(uuid)>> \in DOMAIN dm}

\* A resource serves a uuid exactly if the map has the pair of them.
LEMMA UnderIs ==
  ASSUME NEW dm, NEW uuid, NEW r
  PROVE  r \in UnderOf(dm, uuid) <=> <<r, DeviceID(uuid)>> \in DOMAIN dm
<1>1. <<r, DeviceID(uuid)>> \in DOMAIN dm => r \in ResourceManagers(dm)
  <2>1. ASSUME <<r, DeviceID(uuid)>> \in DOMAIN dm PROVE r \in ResourceManagers(dm)
    <3>1. <<r, DeviceID(uuid)>>[1] = r
      OBVIOUS
    <3> QED BY <2>1, <3>1 DEF ResourceManagers
  <2> QED BY <2>1
<1> QED BY <1>1 DEF UnderOf

\* The ID of a device that is not shared tells its uuid.
LEMMA SameID ==
  ASSUME NEW u, NEW v, DeviceID(u) = DeviceID(v)
  PROVE  u = v
<1>1. DeviceID(u).uuid = u /\ DeviceID(v).uuid = v
  BY DEF DeviceID
<1> QED BY <1>1

\* An instance of a GPU is one of the MIG devices of the node.
LEMMA InstanceIndex ==
  ASSUME NEW node, NodeInput(node), NEW i \in DOMAIN node, NEW u \in InstanceUuids(node[i])
  PROVE  \E ij \in MigDevices(node) : ij[1] = i /\ Instance(node, ij).uuid = u
<1>1. PICK j \in DOMAIN node[i].insts : u = node[i].insts[j].uuid
  BY DEF InstanceUuids
<1>2. j \in 1 .. 7
  BY <1>1 DEF NodeInput
<1>3. <<i, j>> \in MigDevices(node)
  BY <1>2 DEF MigDevices
<1>4. Instance(node, <<i, j>>).uuid = u
  BY <1>1 DEF Instance
<1> QED BY <1>3, <1>4

\* A GPU that is neither filtered nor broken is served whole or in instances, not both.
LEMMA ServedOnce ==
  ASSUME NEW node, NodeInput(node), NEW cfg, NEW dm, Describes(node, cfg, dm),
         NEW i \in DOMAIN node, ~FilterDeviceToRegister(cfg.filter, node, i), node[i].fails = "no"
  PROVE  \/ /\ Cardinality(UnderOf(dm, node[i].uuid)) = 2
            /\ \A u \in InstanceUuids(node[i]) : UnderOf(dm, u) = {}
         \/ /\ UnderOf(dm, node[i].uuid) = {} /\ node[i].mig
            /\ \A u \in InstanceUuids(node[i]) : Cardinality(UnderOf(dm, u)) = 1
<1> DEFINE g == node[i]
           whole == ~(g.mig /\ cfg.strategy # "none")
<1>1. i \in GPUsToMap(node, cfg) <=> whole
  BY DEF GPUsToMap
<1>2. ~GPUFails(g)
  BY DEF GPUFails
<1>3. ASSUME NEW k \in DOMAIN dm, NEW u, k[2] = DeviceID(u)
      PROVE  \/ k[1] \in Resources /\ \E j \in GPUsToMap(node, cfg) : u = node[j].uuid
             \/ cfg.strategy # "none" /\ \E ij \in MigDevices(node) : k[1] = MigResource(node, cfg, ij) /\ u = Instance(node, ij).uuid
  <2>1. CASE IsGPU(node, cfg, dm, k)
    <3>1. PICK j \in GPUsToMap(node, cfg) : k[1] \in Resources /\ k[2] = DeviceID(node[j].uuid)
      BY <2>1 DEF IsGPU
    <3>2. u = node[j].uuid
      BY <1>3, <3>1, SameID
    <3> QED BY <3>1, <3>2
  <2>2. CASE cfg.strategy # "none" /\ IsInstance(node, cfg, dm, k)
    <3>1. PICK ij \in MigDevices(node) : k = <<MigResource(node, cfg, ij), DeviceID(Instance(node, ij).uuid)>>
      BY <2>2 DEF IsInstance
    <3>2. k[1] = MigResource(node, cfg, ij) /\ k[2] = DeviceID(Instance(node, ij).uuid)
      BY <3>1
    <3>3. u = Instance(node, ij).uuid
      BY <1>3, <3>2, SameID
    <3> QED BY <2>2, <3>2, <3>3
  <2> QED BY <2>1, <2>2 DEF Describes
<1>4. ASSUME NEW r, NEW u, r \in UnderOf(dm, u)
      PROVE  \/ r \in Resources /\ \E j \in GPUsToMap(node, cfg) : u = node[j].uuid
             \/ cfg.strategy # "none" /\ \E ij \in MigDevices(node) : r = MigResource(node, cfg, ij) /\ u = Instance(node, ij).uuid
  <2> DEFINE k == <<r, DeviceID(u)>>
  <2>1. k \in DOMAIN dm
    BY <1>4, UnderIs
  <2>2. k[1] = r /\ k[2] = DeviceID(u)
    OBVIOUS
  <2> HIDE DEF k
  <2> QED BY <1>3, <2>1, <2>2
<1>5. GPUsToMap(node, cfg) \subseteq DOMAIN node
  BY DEF GPUsToMap
<1>6. CASE whole
  <2>1. UnderOf(dm, g.uuid) = Resources
    <3>1. ASSUME NEW r \in UnderOf(dm, g.uuid) PROVE r \in Resources
      BY <1>4, <3>1 DEF NodeInput
    <3>2. ASSUME NEW r \in Resources PROVE r \in UnderOf(dm, g.uuid)
      <4>1. <<r, DeviceID(g.uuid)>> \in DOMAIN dm
        BY <1>1, <1>2, <1>6 DEF Describes, HasGPUs
      <4> QED BY <4>1, UnderIs
    <3> QED BY <3>1, <3>2
  <2>2. Cardinality(Resources) = 2
    <3>1. IsFiniteSet({"number"}) /\ Cardinality({"number"}) = 1
      BY FS_Singleton
    <3>2. Cardinality({"number"} \cup {"memory"}) = 1 + 1
      <4>1. "memory" \notin {"number"}
        OBVIOUS
      <4> QED BY <3>1, <4>1, FS_AddElement
    <3>3. Resources = {"number"} \cup {"memory"}
      BY DEF Resources
    <3> QED BY <3>2, <3>3
  <2>3. ASSUME NEW u \in InstanceUuids(g), UnderOf(dm, u) # {}
        PROVE  FALSE
    <3>1. PICK a \in MigDevices(node) : a[1] = i /\ Instance(node, a).uuid = u
      BY InstanceIndex
    <3>2. PICK r : r \in UnderOf(dm, u)
      BY <2>3
    <3>3. cfg.strategy # "none"
      BY <1>4, <1>5, <3>1, <3>2 DEF NodeInput
    <3>4. DOMAIN g.insts = {}
      BY <1>6, <3>3 DEF NodeInput
    <3> QED BY <3>4 DEF InstanceUuids
  <2> QED BY <2>1, <2>2, <2>3
<1>7. CASE ~whole
  <2>1. UnderOf(dm, g.uuid) = {}
    <3>1. SUFFICES ASSUME NEW r \in UnderOf(dm, g.uuid) PROVE FALSE
      OBVIOUS
    <3> QED BY <1>1, <1>4, <1>5, <1>7 DEF NodeInput
  <2>2. ASSUME NEW u \in InstanceUuids(g)
        PROVE  Cardinality(UnderOf(dm, u)) = 1
    <3>1. PICK a \in MigDevices(node) : a[1] = i /\ Instance(node, a).uuid = u
      BY InstanceIndex
    <3>2. ASSUME NEW r \in UnderOf(dm, u) PROVE r = MigResource(node, cfg, a)
      BY <1>4, <1>5, <3>1, <3>2 DEF NodeInput
    <3>3. MigResource(node, cfg, a) \in UnderOf(dm, u)
      <4>1. <<MigResource(node, cfg, a), DeviceID(u)>> \in DOMAIN dm
        BY <1>7, <3>1 DEF Describes, HasInstances
      <4> QED BY <4>1, UnderIs
    <3>4. UnderOf(dm, u) = {MigResource(node, cfg, a)}
      BY <3>2, <3>3
    <3> QED BY <3>4, FS_Singleton
  <2> QED BY <1>7, <2>1, <2>2
<1> QED BY <1>6, <1>7

-----------------------------------------------------------------------------
\* Part of a set of one element has at most one.
LEMMA AtMostOne ==
  ASSUME NEW K, NEW x, K \subseteq {x}
  PROVE  Cardinality(K) <= 1
<1>1. K = {} \/ K = {x}
  OBVIOUS
<1>2. Cardinality({}) = 0
  BY FS_EmptySet
<1>3. Cardinality({x}) = 1
  BY FS_Singleton
<1> QED BY <1>1, <1>2, <1>3

\* With the strategy "single" the devices served are of one kind.
LEMMA OneKind ==
  ASSUME NEW node, NodeInput(node), NEW cfg, cfg.strategy = "single", NEW dm, Describes(node, cfg, dm)
  PROVE  Cardinality(KindsOf(node, dm)) <= 1
<1>1. \A a, b \in MigDevices(node) : Instance(node, a).profile = Instance(node, b).profile
  BY DEF Describes
<1>2. \A u : DeviceID(u).uuid = u
  BY DEF DeviceID
<1>3. CASE \A k \in DOMAIN dm : IsGPU(node, cfg, dm, k)
  <2>1. ASSUME NEW ij \in MigDevices(node), Served(Instance(node, ij).uuid, dm)
        PROVE  FALSE
    <3>1. PICK k \in DOMAIN dm : k[2].uuid = Instance(node, ij).uuid
      BY <2>1 DEF Served
    <3>2. PICK j \in GPUsToMap(node, cfg) : k[2] = DeviceID(node[j].uuid)
      BY <1>3 DEF IsGPU
    <3>3. Instance(node, ij).uuid = node[j].uuid /\ j \in DOMAIN node
      BY <1>2, <3>1, <3>2 DEF GPUsToMap
    <3> QED BY <3>3 DEF NodeInput
  <2>2. KindsOf(node, dm) \subseteq {"whole"}
    BY <2>1 DEF KindsOf
  <2> QED BY <2>2, AtMostOne
<1>4. CASE \A k \in DOMAIN dm : IsInstance(node, cfg, dm, k)
  <2>1. ASSUME NEW g \in ToSet(node), Served(g.uuid, dm)
        PROVE  FALSE
    <3>1. PICK i \in DOMAIN node : g = node[i]
      BY DEF ToSet
    <3>2. PICK k \in DOMAIN dm : k[2].uuid = g.uuid
      BY <2>1 DEF Served
    <3>3. PICK ij \in MigDevices(node) : k = <<MigResource(node, cfg, ij), DeviceID(Instance(node, ij).uuid)>>
      BY <1>4 DEF IsInstance
    <3>4. Instance(node, ij).uuid = node[i].uuid
      BY <1>2, <3>1, <3>2, <3>3
    <3> QED BY <3>4 DEF NodeInput
  <2> DEFINE kind(ij) == Instance(node, ij).profile.text[1]
  <2>2. ASSUME NEW a \in MigDevices(node), NEW b \in MigDevices(node)
        PROVE  kind(a) = kind(b)
    BY <1>1
  <2>3. \A x \in KindsOf(node, dm) : \E ij \in MigDevices(node) : x = kind(ij)
    <3> DEFINE wholes == {g \in ToSet(node) : Served(g.uuid, dm)}
               instances == {ij \in MigDevices(node) : Served(Instance(node, ij).uuid, dm)}
    <3>1. wholes = {}
      BY <2>1
    <3>2. KindsOf(node, dm) = {"whole" : g \in wholes} \cup {kind(ij) : ij \in instances}
      BY DEF KindsOf
    <3>3. instances \subseteq MigDevices(node)
      OBVIOUS
    <3> HIDE DEF wholes, instances, kind
    <3>4. \A x \in {"whole" : g \in wholes} : \E g \in wholes : TRUE
      OBVIOUS
    <3>5. \A x \in {kind(ij) : ij \in instances} : \E ij \in instances : x = kind(ij)
      OBVIOUS
    <3> QED BY <3>1, <3>2, <3>3, <3>4, <3>5
  <2> HIDE DEF kind
  <2>4. \E x : KindsOf(node, dm) \subseteq {x}
    <3>1. CASE MigDevices(node) = {}
      BY <2>3, <3>1
    <3>2. CASE MigDevices(node) # {}
      <4>1. PICK a \in MigDevices(node) : TRUE
        BY <3>2
      <4>2. KindsOf(node, dm) \subseteq {kind(a)}
        <5>1. ASSUME NEW x \in KindsOf(node, dm) PROVE x = kind(a)
          <6>1. PICK b \in MigDevices(node) : x = kind(b)
            BY <2>3
          <6> QED BY <2>2, <6>1
        <5> QED BY <5>1
      <4> QED BY <4>2
    <3> QED BY <3>1, <3>2
  <2> QED BY <2>4, AtMostOne
<1> QED BY <1>3, <1>4 DEF Describes

-----------------------------------------------------------------------------
\* A line of a GPU's file of minors that makes p the file of a capability of an instance.
IsLine(node, ij, p, k) ==
  /\ k \in DOMAIN node[ij[1]].minors
  /\ node[ij[1]].minors[k] # Unparsable
  /\ node[ij[1]].minors[k].device = p
  /\ node[ij[1]].minors[k].path \in Instance(node, ij).capabilities

\* The file of a capability comes from a line of the GPU's file of minors: the last one.
LEMMA CapabilityHasLine ==
  ASSUME NEW node, NodeInput(node), NEW ij \in MigDevices(node),
         ~MigFails(Instance(node, ij), node[ij[1]]),
         NEW p \in CapabilityPaths(Instance(node, ij), node[ij[1]])
  PROVE  \E k : IsLine(node, ij, p, k)
<1> DEFINE lines == node[ij[1]].minors
           parsed == {k \in DOMAIN lines : lines[k] # Unparsable}
           paths == {lines[k].path : k \in parsed}
           Latest(path) == CHOOSE k \in parsed : lines[k].path = path /\ \A l \in parsed : lines[l].path = path => l <= k
           device == GetMigCapabilityDevicePaths(lines)
<1>1. device = [path \in paths |-> lines[Latest(path)].device]
  BY DEF GetMigCapabilityDevicePaths
<1>2. PICK c \in Instance(node, ij).capabilities : p = device[c]
  BY DEF CapabilityPaths
<1>3. Instance(node, ij).capabilities \subseteq DOMAIN device
  BY DEF MigFails
<1>4. c \in paths /\ p = lines[Latest(c)].device
  <2> HIDE DEF paths, Latest, device
  <2>1. DOMAIN device = paths
    BY <1>1
  <2> QED BY <1>1, <1>2, <1>3, <2>1
<1>5. Latest(c) \in parsed /\ lines[Latest(c)].path = c
  <2> DEFINE last == Len(lines)
             N == {last - k : k \in {k \in parsed : lines[k].path = c}}
  <2>1. DOMAIN lines = 1 .. last /\ last \in Nat
    BY DEF NodeInput, MigDevices
  <2> HIDE DEF lines, last
  <2>2. PICK k \in parsed : lines[k].path = c
    BY <1>4
  <2>3. N \in SUBSET Nat /\ N # {}
    BY <2>1, <2>2
  <2>4. PICK m \in N : \A n \in N : m <= n
    <3> HIDE DEF N
    <3> QED BY <2>3, LeastNumber
  <2>5. PICK best \in parsed : lines[best].path = c /\ m = last - best
    OBVIOUS
  <2>6. ASSUME NEW l \in parsed, lines[l].path = c PROVE l <= best
    <3>1. last - best <= last - l
      BY <2>4, <2>5, <2>6
    <3> QED BY <2>1, <3>1
  <2>7. \E b \in parsed : lines[b].path = c /\ \A l \in parsed : lines[l].path = c => l <= b
    BY <2>5, <2>6
  <2> HIDE DEF parsed
  <2> QED BY <2>7
<1> HIDE DEF Latest, device
<1>6. Latest(c) \in DOMAIN lines /\ lines[Latest(c)] # Unparsable
  BY <1>5
<1> HIDE DEF parsed, paths
<1> QED BY <1>2, <1>4, <1>5, <1>6 DEF IsLine

\* The file of a capability is not that of a GPU, and belongs to one instance only.
LEMMA CapabilitiesAreApart ==
  ASSUME NEW node, NodeInput(node), NEW a \in MigDevices(node), ~MigFails(Instance(node, a), node[a[1]]),
         NEW p \in CapabilityPaths(Instance(node, a), node[a[1]])
  PROVE  /\ p[1] # "nvidia"
         /\ \A b \in MigDevices(node) :
              ~MigFails(Instance(node, b), node[b[1]]) /\ p \in CapabilityPaths(Instance(node, b), node[b[1]]) => a = b
<1>1. \A b \in MigDevices(node) : b[1] \in DOMAIN node
  BY DEF MigDevices
<1>2. PICK k : IsLine(node, a, p, k)
  BY CapabilityHasLine
<1>3. p[1] # "nvidia"
  BY <1>1, <1>2 DEF NodeInput, MinorsAreUnique, IsLine
<1>4. ASSUME NEW b \in MigDevices(node), ~MigFails(Instance(node, b), node[b[1]]),
             p \in CapabilityPaths(Instance(node, b), node[b[1]])
      PROVE  a = b
  <2>1. PICK l : IsLine(node, b, p, l)
    BY <1>4, CapabilityHasLine
  <2>2. node[a[1]].minors[k].path = node[b[1]].minors[l].path
    BY <1>1, <1>2, <2>1 DEF NodeInput, MinorsAreUnique, IsLine
  <2> QED BY <1>2, <2>1, <2>2 DEF NodeInput, IsLine
<1> QED BY <1>3, <1>4

\* The devices of a map that have files in common only where they have the same GPU.
ApartIn(dm) ==
  \A k, l \in DOMAIN dm : k[2] # l[2] =>
    dm[k].paths \cap dm[l].paths \subseteq
      {<<"nvidia", g>> : g \in {dm[k].index[1]} \cap {dm[l].index[1]}}

\* So two devices share no file but that of the GPU they are parts of.
LEMMA FilesAreApart ==
  ASSUME NEW node, NodeInput(node), NEW cfg, NEW dm, Describes(node, cfg, dm)
  PROVE  ApartIn(dm)
<1> DEFINE Files(k) == dm[k].paths \ {<<"nvidia", dm[k].index[1]>>}
           Cap(k, p) == \E ij \in MigDevices(node) :
                          /\ k[2] = DeviceID(Instance(node, ij).uuid)
                          /\ ~MigFails(Instance(node, ij), node[ij[1]])
                          /\ p \in CapabilityPaths(Instance(node, ij), node[ij[1]])
<1>1. ASSUME NEW k \in DOMAIN dm, NEW p \in Files(k) PROVE Cap(k, p)
  <2>1. CASE IsGPU(node, cfg, dm, k)
    <3>1. PICK i \in GPUsToMap(node, cfg) : dm[k].index = <<i>> /\ dm[k].paths = {<<"nvidia", i>>}
      BY <2>1 DEF IsGPU
    <3>2. dm[k].index[1] = i
      BY <3>1
    <3> QED BY <3>1, <3>2
  <2>2. CASE IsInstance(node, cfg, dm, k)
    <3>1. PICK ij \in MigDevices(node) :
            /\ k = <<MigResource(node, cfg, ij), DeviceID(Instance(node, ij).uuid)>>
            /\ dm[k].index = ij
            /\ dm[k].paths = {<<"nvidia", ij[1]>>} \cup CapabilityPaths(Instance(node, ij), node[ij[1]])
            /\ ~MigFails(Instance(node, ij), node[ij[1]])
      BY <2>2 DEF IsInstance
    <3>2. k[2] = DeviceID(Instance(node, ij).uuid)
      BY <3>1
    <3>3. p \in CapabilityPaths(Instance(node, ij), node[ij[1]])
      BY <3>1
    <3> QED BY <3>1, <3>2, <3>3
  <2> QED BY <2>1, <2>2 DEF Describes
<1>2. ASSUME NEW k, NEW l, NEW p, Cap(k, p)
      PROVE  p[1] # "nvidia" /\ (Cap(l, p) => k[2] = l[2])
  <2>1. PICK a \in MigDevices(node) :
          /\ k[2] = DeviceID(Instance(node, a).uuid)
          /\ ~MigFails(Instance(node, a), node[a[1]])
          /\ p \in CapabilityPaths(Instance(node, a), node[a[1]])
    BY <1>2
  <2>2. p[1] # "nvidia"
    BY <2>1, CapabilitiesAreApart
  <2>3. ASSUME Cap(l, p) PROVE k[2] = l[2]
    <3>1. PICK b \in MigDevices(node) :
            /\ l[2] = DeviceID(Instance(node, b).uuid)
            /\ ~MigFails(Instance(node, b), node[b[1]])
            /\ p \in CapabilityPaths(Instance(node, b), node[b[1]])
      BY <2>3
    <3>2. a = b
      BY <2>1, <3>1, CapabilitiesAreApart
    <3> QED BY <2>1, <3>1, <3>2
  <2> QED BY <2>2, <2>3
<1> HIDE DEF Cap
<1>3. ASSUME NEW k \in DOMAIN dm, NEW l \in DOMAIN dm, k[2] # l[2], NEW p \in dm[k].paths \cap dm[l].paths
      PROVE  p \in {<<"nvidia", g>> : g \in {dm[k].index[1]} \cap {dm[l].index[1]}}
  <2>1. CASE p \in Files(k)
    <3>1. p[1] # "nvidia"
      BY <1>1, <1>2, <2>1
    <3>2. p \in Files(l)
      BY <3>1
    <3> QED BY <1>1, <1>2, <1>3, <2>1, <3>2
  <2>2. CASE p \in Files(l)
    <3>1. p[1] # "nvidia"
      BY <1>1, <1>2, <2>2
    <3>2. p \in Files(k)
      BY <3>1
    <3> QED BY <1>1, <1>2, <1>3, <2>2, <3>2
  <2>3. CASE p \notin Files(k) /\ p \notin Files(l)
    <3>1. p = <<"nvidia", dm[k].index[1]>> /\ p = <<"nvidia", dm[l].index[1]>>
      BY <2>3
    <3>2. dm[k].index[1] = dm[l].index[1]
      BY <3>1
    <3> QED BY <3>1, <3>2
  <2> QED BY <2>1, <2>2, <2>3
<1> QED BY <1>3 DEF ApartIn

-----------------------------------------------------------------------------
\* The plugin builds the map of any node, under any configuration; that of a Tegra board
\* has no GPU the library knows.
BuildInput(t) == NodeInput(t.node) /\ (t.platform = "tegra" => DOMAIN t.node = {})
BuildInit == result = <<>> /\ task.of = "build" /\ BuildInput(task)
BuildSpec == BuildInit /\ [][Next]_vars

TheConfig(t) == Config(t.config.strategy, t.config.filter, t.config.models)
TheMap(t) == IF t.platform = "tegra" THEN buildTegraDeviceMap(TheConfig(t))
             ELSE buildDeviceMapFromConfigResources(t.node, TheConfig(t))

\* What DeviceMapIsRight says of a map dm.
IsRight(t, dm) ==
  /\ \A i \in DOMAIN t.node :
       ~FilterDeviceToRegister(t.config.filter, t.node, i) /\ t.node[i].fails = "no" =>
         \/ /\ Cardinality(UnderOf(dm, t.node[i].uuid)) = 2
            /\ \A u \in InstanceUuids(t.node[i]) : UnderOf(dm, u) = {}
         \/ /\ UnderOf(dm, t.node[i].uuid) = {} /\ t.node[i].mig
            /\ \A u \in InstanceUuids(t.node[i]) : Cardinality(UnderOf(dm, u)) = 1
  /\ t.config.strategy = "single" => Cardinality(KindsOf(t.node, dm)) <= 1
  /\ ApartIn(dm)

\* Whatever the node and the configuration: the map, if there is one, is right.
LEMMA MapIsRight ==
  ASSUME NEW t, BuildInput(t), TheMap(t).ok
  PROVE  IsRight(t, TheMap(t).map)
<1> DEFINE cfg == TheConfig(t)
           dm == TheMap(t).map
<1>1. /\ cfg.gpus = DefaultGPUs(<<"number", "memory">>, t.config.models)
      /\ cfg.strategy = t.config.strategy /\ cfg.filter = t.config.filter
  BY DEF TheConfig, Config
<1> HIDE DEF cfg
<1>2. CASE t.platform # "tegra"
  <2>1. TheMap(t) = buildDeviceMapFromConfigResources(t.node, cfg)
    BY <1>2 DEF TheMap, cfg
  <2>2. Describes(t.node, cfg, dm)
    BY <1>1, <2>1, DeviceMapDescribes
  <2> HIDE DEF dm
  <2>3. NodeInput(t.node)
    BY DEF BuildInput
  <2>4. ASSUME NEW i \in DOMAIN t.node, ~FilterDeviceToRegister(t.config.filter, t.node, i), t.node[i].fails = "no"
        PROVE  \/ /\ Cardinality(UnderOf(dm, t.node[i].uuid)) = 2
                  /\ \A u \in InstanceUuids(t.node[i]) : UnderOf(dm, u) = {}
               \/ /\ UnderOf(dm, t.node[i].uuid) = {} /\ t.node[i].mig
                  /\ \A u \in InstanceUuids(t.node[i]) : Cardinality(UnderOf(dm, u)) = 1
    BY <1>1, <2>2, <2>3, <2>4, ServedOnce
  <2>5. t.config.strategy = "single" => Cardinality(KindsOf(t.node, dm)) <= 1
    BY <1>1, <2>2, <2>3, OneKind
  <2>6. ApartIn(dm)
    BY <2>2, <2>3, FilesAreApart
  <2> QED BY <2>4, <2>5, <2>6 DEF IsRight, dm
<1>3. CASE t.platform = "tegra"
  <2>1. DOMAIN t.node = {}
    BY <1>3 DEF BuildInput
  <2>2. Cardinality(KindsOf(t.node, dm)) <= 1
    <3>1. ToSet(t.node) = {} /\ MigDevices(t.node) = {}
      BY <2>1 DEF ToSet, MigDevices
    <3>2. KindsOf(t.node, dm) = {}
      BY <3>1 DEF KindsOf
    <3>3. KindsOf(t.node, dm) \subseteq {"whole"}
      BY <3>2
    <3> QED BY <3>3, AtMostOne
  <2>3. \A k \in DOMAIN dm : k[2] = DeviceID("tegra")
    <3> DEFINE named == SelectSeq(cfg.gpus, LAMBDA r : "tegra" \in r.matches)
               Made(k) == [id |-> DeviceID("tegra"), index |-> <<k>>, replicas |-> 0, numa |-> {}, paths |-> {}]
               entries == {[res |-> named[k].name, dev |-> Made(k)] : k \in DOMAIN named}
    <3>1. dm = AsMap(entries)
      BY <1>3 DEF TheMap, buildTegraDeviceMap, Built, cfg
    <3>2. \A e \in entries : e.dev.id = DeviceID("tegra")
      <4> HIDE DEF named
      <4> QED OBVIOUS
    <3> HIDE DEF entries, dm
    <3>3. HasEntries(dm, entries)
      BY <3>1, AsMapHas
    <3> QED BY <3>2, <3>3 DEF HasEntries
  <2> HIDE DEF dm
  <2>4. ApartIn(dm)
    BY <2>3 DEF ApartIn
  <2> QED BY <2>1, <2>2, <2>4 DEF IsRight, dm
<1> QED BY <1>2, <1>3

\* The parts of DeviceMapIsRight are those of IsRight.
LEMMA RightIsRight ==
  ASSUME IsBuilt => IsRight(task, Result.map)
  PROVE  DeviceMapIsRight
<1>1. EveryGPUIsServedOnce
  <2>1. SUFFICES ASSUME IsBuilt, NEW i \in DOMAIN task.node,
                        ~FilterDeviceToRegister(task.config.filter, task.node, i), task.node[i].fails = "no"
                 PROVE  LET g == task.node[i]
                            Under(u) == UnderOf(Result.map, u)
                        IN \/ Cardinality(Under(g.uuid)) = 2 /\ \A u \in InstanceUuids(g) : Under(u) = {}
                           \/ Under(g.uuid) = {} /\ g.mig /\ \A u \in InstanceUuids(g) : Cardinality(Under(u)) = 1
    BY DEF EveryGPUIsServedOnce, UnderOf, FilterDeviceToRegister
  <2> QED BY <2>1 DEF IsRight
<1>2. SingleMeansUniform
  <2>1. SUFFICES ASSUME IsBuilt, task.config.strategy = "single"
                 PROVE  Cardinality(KindsOf(task.node, Result.map)) <= 1
    BY DEF SingleMeansUniform
  <2> QED BY <2>1 DEF IsRight
<1>3. DevicesAreApart
  <2>1. SUFFICES ASSUME IsBuilt PROVE ApartIn(Result.map)
    BY DEF DevicesAreApart, ApartIn
  <2> QED BY <2>1 DEF IsRight
<1> QED BY <1>1, <1>2, <1>3 DEF DeviceMapIsRight

\* Whatever the node and the configuration, a map that could be built serves every GPU
\* once, is uniform if it must be, and keeps its devices apart
\* (buildDeviceMapFromConfigResources, buildTegraDeviceMap).
THEOREM BuiltMapIsRight == BuildSpec => []DeviceMapIsRight
<1> DEFINE Inv == task.of = "build" /\ BuildInput(task) /\ (result # <<>> => Result = TheMap(task))
<1>1. BuildInit => Inv
  BY DEF BuildInit
<1>2. Inv /\ [Next]_vars => Inv'
  <2>1. SUFFICES ASSUME Inv, [Next]_vars PROVE Inv'
    OBVIOUS
  <2>2. CASE UNCHANGED vars
    BY <2>1, <2>2 DEF vars, Result
  <2>3. CASE Next
    <3>0. Build
      BY <2>1, <2>3, OwnStep
    <3>1. task' = task /\ result' \in {<<o>> : o \in {TheMap(task)}}
      BY <3>0 DEF Build, Step, TheMap, TheConfig
    <3>2. result' = <<TheMap(task)>>
      BY <3>1
    <3> QED BY <2>1, <3>1, <3>2 DEF Result
  <2> QED BY <2>1, <2>2, <2>3
<1>3. Inv => DeviceMapIsRight
  <2>1. SUFFICES ASSUME Inv PROVE DeviceMapIsRight
    OBVIOUS
  <2>2. ASSUME IsBuilt PROVE IsRight(task, Result.map)
    <3>1. result # <<>> /\ Result.ok
      BY <2>2 DEF IsBuilt, Done
    <3>2. Result = TheMap(task)
      BY <2>1, <3>1
    <3> QED BY <2>1, <3>1, <3>2, MapIsRight
  <2> QED BY <2>2, RightIsRight
<1> QED BY <1>1, <1>2, <1>3, PTL DEF BuildSpec

-----------------------------------------------------------------------------
(* The preference.                                                           *)

\* One more turn of the loop, whatever the turns before have taken.
Turn(ids, candidates, taken) ==
  UNION {{s \cup {c} : c \in LeastUsed(ids, candidates \ s)} : s \in taken}

\* A set before, and one of the least used of what it leaves.
OneMore(ids, candidates, taken, t) ==
  \E s \in taken : \E c \in LeastUsed(ids, candidates \ s) : t = s \cup {c}

\* A turn adds one of the least used candidates to a set that was taken before ...
LEMMA TurnTakesOne ==
  ASSUME NEW ids, NEW candidates, NEW taken, NEW t \in Turn(ids, candidates, taken)
  PROVE  OneMore(ids, candidates, taken, t)
<1> DEFINE With(s) == {s \cup {c} : c \in LeastUsed(ids, candidates \ s)}
<1>1. t \in UNION {With(s) : s \in taken}
  BY DEF Turn
<1>2. PICK s \in taken : t \in With(s)
  <2> HIDE DEF With
  <2> QED BY <1>1
<1> QED BY <1>2 DEF OneMore

\* ... and any of them to any such set.
LEMMA TurnTakesAny ==
  ASSUME NEW ids, NEW candidates, NEW taken, NEW s \in taken, NEW c \in LeastUsed(ids, candidates \ s)
  PROVE  s \cup {c} \in Turn(ids, candidates, taken)
<1> DEFINE With(r) == {r \cup {d} : d \in LeastUsed(ids, candidates \ r)}
<1>1. s \cup {c} \in With(s)
  OBVIOUS
<1>2. s \cup {c} \in UNION {With(r) : r \in taken}
  <2> HIDE DEF With
  <2> QED BY <1>1
<1> QED BY <1>2 DEF Turn

\* The recursive definition of the sets taken does define them: nothing at first, then one
\* turn after the other (the loop of distributedAlloc).
LEMMA PicksAre ==
  ASSUME NEW ids, NEW candidates
  PROVE  /\ Picks(ids, candidates) \in [Nat -> SUBSET SUBSET candidates]
         /\ Picks(ids, candidates)[0] = {{}}
         /\ \A n \in Nat :
              Picks(ids, candidates)[n + 1] = Turn(ids, candidates, Picks(ids, candidates)[n])
<1> DEFINE V == SUBSET SUBSET candidates
           H == [P \in V |-> Turn(ids, candidates, P)]
           Is(f) == f = [n \in Nat |-> IF n = 0 THEN {{}} ELSE Turn(ids, candidates, f[n - 1])]
<1>1. ASSUME NEW P \in V PROVE Turn(ids, candidates, P) \in V
  <2>1. ASSUME NEW t \in Turn(ids, candidates, P) PROVE t \in SUBSET candidates
    <3>1. OneMore(ids, candidates, P, t)
      BY TurnTakesOne
    <3>2. PICK s \in P, c \in candidates : c \in LeastUsed(ids, candidates \ s) /\ t = s \cup {c}
      BY <3>1 DEF OneMore, LeastUsed
    <3> QED BY <3>1, <3>2 DEF LeastUsed
  <2> QED BY <2>1
<1>2. Starts(V, {{}}, H)
  BY <1>1 DEF Starts
<1>3. PICK f : f \in [Nat -> V] /\ f[0] = {{}} /\ \A n \in Nat : f[n + 1] = H[f[n]]
  <2> HIDE DEF V, H
  <2>1. PICK f : Follows(f, V, {{}}, H)
    BY <1>2, Recursion
  <2> QED BY <2>1 DEF Follows
<1>4. Is(f)
  <2>1. ASSUME NEW n \in Nat
        PROVE  f[n] = IF n = 0 THEN {{}} ELSE Turn(ids, candidates, f[n - 1])
    <3>1. CASE n = 0
      BY <1>3, <3>1
    <3>2. CASE n # 0
      <4>1. n - 1 \in Nat /\ n = (n - 1) + 1
        BY <3>2
      <4>2. f[n - 1] \in V /\ H[f[n - 1]] = Turn(ids, candidates, f[n - 1])
        BY <1>3, <4>1
      <4> HIDE DEF V, H
      <4>3. f[n] = H[f[n - 1]]
        BY <1>3, <4>1
      <4> QED BY <3>2, <4>2, <4>3
    <3> QED BY <3>1, <3>2
  <2> HIDE DEF V, H
  <2> QED BY <1>3, <2>1
<1>5. Picks(ids, candidates) = CHOOSE g : Is(g)
  BY DEF Picks, Turn
<1>6. Is(Picks(ids, candidates))
  <2> HIDE DEF Is
  <2> QED BY <1>4, <1>5
<1> DEFINE p == Picks(ids, candidates)
<1>7. p = [n \in Nat |-> IF n = 0 THEN {{}} ELSE Turn(ids, candidates, p[n - 1])]
  BY <1>6
<1> HIDE DEF p
<1>8. p[0] = {{}} /\ \A n \in Nat : p[n + 1] = Turn(ids, candidates, p[n])
  <2>1. ASSUME NEW n \in Nat PROVE p[n + 1] = Turn(ids, candidates, p[n])
    <3>1. n + 1 \in Nat /\ n + 1 # 0 /\ (n + 1) - 1 = n
      OBVIOUS
    <3> QED BY <1>7, <3>1
  <2> QED BY <1>7, <2>1
<1>9. \A n \in Nat : p[n] \in V
  <2> DEFINE S == {n \in Nat : p[n] \in V}
  <2>1. 0 \in S
    BY <1>8
  <2>2. \A n \in Nat : n \in S => n + 1 \in S
    BY <1>1, <1>8
  <2> HIDE DEF S
  <2>3. Nat \subseteq S
    BY <2>1, <2>2, Induction
  <2> QED BY <2>3 DEF S
<1>10. p \in [Nat -> V]
  BY <1>7, <1>9
<1> QED BY <1>8, <1>10 DEF p

-----------------------------------------------------------------------------
\* The replicas of a GPU that are in use: not left.
Load(ids, left, uuid) == Cardinality({id \in ids \ left : id.uuid = uuid})

\* What the loop compares, the replicas that exist less those that are left, is the load.
LEMMA LoadIsTaken ==
  ASSUME NEW ids, IsFiniteSet(ids), NEW left \in SUBSET ids, NEW uuid
  PROVE  Taken(ids, left, uuid) = Load(ids, left, uuid) /\ Load(ids, left, uuid) \in Nat
<1> DEFINE S == {id \in ids : id.uuid = uuid}
           T == {id \in left : id.uuid = uuid}
<1>1. IsFiniteSet(S) /\ S \cap T = T
  BY FS_Subset
<1>2. {id \in ids \ left : id.uuid = uuid} = S \ T
  OBVIOUS
<1>3. ReplicasOf(ids, uuid) = Cardinality(S) /\ ReplicasOf(left, uuid) = Cardinality(T)
  BY DEF ReplicasOf
<1>4. Load(ids, left, uuid) = Cardinality(S \ T)
  BY <1>2 DEF Load
<1> HIDE DEF S, T
<1>5. Cardinality(S \ T) = Cardinality(S) - Cardinality(T)
  BY <1>1, FS_Difference
<1>6. Cardinality(S \ T) \in Nat
  BY <1>1, FS_Difference, FS_CardinalityType
<1> QED BY <1>3, <1>4, <1>5, <1>6 DEF Taken

\* Taking a replica adds one to the load of its GPU and nothing to the others.
LEMMA LoadGrows ==
  ASSUME NEW ids, IsFiniteSet(ids), NEW left \in SUBSET ids, NEW c \in left, NEW uuid
  PROVE  Load(ids, left \ {c}, uuid) = Load(ids, left, uuid) + IF c.uuid = uuid THEN 1 ELSE 0
<1> DEFINE S == {id \in ids \ left : id.uuid = uuid}
           T == {id \in ids \ (left \ {c}) : id.uuid = uuid}
<1>1. IsFiniteSet(S) /\ c \notin S
  BY FS_Subset
<1>2. Cardinality(S) \in Nat
  BY <1>1, FS_CardinalityType
<1>3. T = IF c.uuid = uuid THEN S \cup {c} ELSE S
  OBVIOUS
<1>4. Load(ids, left \ {c}, uuid) = Cardinality(T) /\ Load(ids, left, uuid) = Cardinality(S)
  BY DEF Load
<1> HIDE DEF S, T
<1>5. Cardinality(S \cup {c}) = Cardinality(S) + 1
  BY <1>1, FS_AddElement
<1> QED BY <1>2, <1>3, <1>4, <1>5

\* While replicas are left there is a least used one: the loop never runs dry.
LEMMA SomeLeastUsed ==
  ASSUME NEW ids, IsFiniteSet(ids), NEW left \in SUBSET ids, left # {}
  PROVE  \E c \in LeastUsed(ids, left) : TRUE
<1> DEFINE N == {Load(ids, left, c.uuid) : c \in left}
<1>1. \A c \in left : Load(ids, left, c.uuid) \in Nat /\ Taken(ids, left, c.uuid) = Load(ids, left, c.uuid)
  BY LoadIsTaken
<1>2. N \in SUBSET Nat /\ N # {}
  BY <1>1
<1>3. PICK m \in N : \A k \in N : m <= k
  <2> HIDE DEF N
  <2> QED BY <1>2, LeastNumber
<1>4. PICK c \in left : m = Load(ids, left, c.uuid)
  OBVIOUS
<1>5. \A d \in left : Load(ids, left, c.uuid) <= Load(ids, left, d.uuid)
  BY <1>3, <1>4
<1> QED BY <1>1, <1>5 DEF LeastUsed

\* No exchange of a device taken for one that is left would spread the load.
Spread(ids, candidates, s) ==
  \A c \in s, d \in candidates \ s :
    \/ c.uuid = d.uuid
    \/ Load(ids, candidates \ s, c.uuid) - 1 <= Load(ids, candidates \ s, d.uuid)

\* A turn leaves the devices taken spread.
LEMMA TurnSpreads ==
  ASSUME NEW ids, IsFiniteSet(ids), NEW candidates \in SUBSET ids,
         NEW s \in SUBSET candidates, Spread(ids, candidates, s),
         NEW c \in LeastUsed(ids, candidates \ s)
  PROVE  Spread(ids, candidates, s \cup {c})
<1> DEFINE left == candidates \ s
           Before(d) == Load(ids, left, d.uuid)
           After(d) == Load(ids, left \ {c}, d.uuid)
<1>1. c \in left /\ candidates \ (s \cup {c}) = left \ {c} /\ left \subseteq ids /\ s \subseteq ids
  BY DEF LeastUsed
<1>2. ASSUME NEW d \in ids
      PROVE  Before(d) \in Nat /\ Taken(ids, left, d.uuid) = Before(d)
  BY LoadIsTaken
<1>3. \A d \in left : Before(c) <= Before(d)
  <2>1. \A d \in left : Taken(ids, left, c.uuid) <= Taken(ids, left, d.uuid)
    BY DEF LeastUsed
  <2> HIDE DEF Before, left
  <2> QED BY <1>1, <1>2, <2>1
<1>4. ASSUME NEW d \in ids
      PROVE  /\ c.uuid = d.uuid => After(d) = Before(d) + 1
             /\ c.uuid # d.uuid => After(d) = Before(d)
  <2> HIDE DEF left
  <2>1. Load(ids, left \ {c}, d.uuid) = Load(ids, left, d.uuid) + IF c.uuid = d.uuid THEN 1 ELSE 0
    BY <1>1, LoadGrows
  <2>2. Before(d) \in Nat
    BY <1>2
  <2> QED BY <2>1, <2>2
<1>5. ASSUME NEW b \in s, NEW d \in left
      PROVE  b.uuid = d.uuid \/ Before(b) - 1 <= Before(d)
  BY DEF Spread
<1>6. \A b, d \in ids : b.uuid = d.uuid => Before(b) = Before(d)
  OBVIOUS
<1>7. SUFFICES \A b \in s \cup {c}, d \in left \ {c} : b.uuid = d.uuid \/ After(b) - 1 <= After(d)
  <2> HIDE DEF left
  <2> QED BY <1>1 DEF Spread
<1> HIDE DEF Before, After, left
<1>8. SUFFICES ASSUME NEW b \in s \cup {c}, NEW d \in left \ {c}, b.uuid # d.uuid
               PROVE  After(b) - 1 <= After(d)
  OBVIOUS
<1>9. b \in ids /\ c \in ids /\ d \in ids /\ d \in left
  BY <1>1
<1>10. Before(b) \in Nat /\ Before(c) \in Nat /\ Before(d) \in Nat /\ After(d) \in {Before(d), Before(d) + 1}
  <2>1. After(d) = Before(d) + 1 \/ After(d) = Before(d)
    BY <1>4, <1>9
  <2> QED BY <1>2, <1>9, <2>1
<1>11. CASE b.uuid = c.uuid
  <2>1. After(b) = Before(b) + 1
    BY <1>4, <1>9, <1>11
  <2>2. Before(b) = Before(c)
    BY <1>6, <1>9, <1>11
  <2>3. Before(c) <= Before(d)
    BY <1>3, <1>9
  <2> QED BY <1>10, <2>1, <2>2, <2>3
<1>12. CASE b.uuid # c.uuid
  <2>1. After(b) = Before(b)
    BY <1>4, <1>9, <1>12
  <2>2. b \in s
    BY <1>12
  <2>3. Before(b) - 1 <= Before(d)
    BY <1>5, <1>8, <1>9, <2>2
  <2> QED BY <1>10, <2>1, <2>3
<1> QED BY <1>11, <1>12

\* What n turns of the loop may have taken.
Balanced(ids, candidates, n) ==
  /\ Picks(ids, candidates)[n] # {}
  /\ \A s \in Picks(ids, candidates)[n] :
       s \subseteq candidates /\ Cardinality(s) = n /\ Spread(ids, candidates, s)

\* As many turns as there are candidates can be taken, and each leaves the set balanced.
LEMMA PicksAreBalanced ==
  ASSUME NEW ids, IsFiniteSet(ids), NEW candidates \in SUBSET ids
  PROVE  \A n \in Nat : n <= Cardinality(candidates) => Balanced(ids, candidates, n)
<1> DEFINE picks == Picks(ids, candidates)
           S == {n \in Nat : n <= Cardinality(candidates) => Balanced(ids, candidates, n)}
<1>0. IsFiniteSet(candidates) /\ Cardinality(candidates) \in Nat
  BY FS_Subset, FS_CardinalityType
<1>1. 0 \in S
  <2>1. picks[0] = {{}}
    BY PicksAre
  <2>2. Cardinality({}) = 0
    BY FS_EmptySet
  <2>3. Spread(ids, candidates, {})
    BY DEF Spread
  <2> HIDE DEF picks
  <2>4. Balanced(ids, candidates, 0)
    BY <2>1, <2>2, <2>3 DEF Balanced, picks
  <2>5. 0 \in Nat
    OBVIOUS
  <2> QED BY <2>4, <2>5, Zenon
<1>2. ASSUME NEW n \in Nat, n \in S
      PROVE  n + 1 \in S
  <2>1. SUFFICES ASSUME n + 1 <= Cardinality(candidates)
                 PROVE  Balanced(ids, candidates, n + 1)
    OBVIOUS
  <2>2. Balanced(ids, candidates, n)
    BY <1>0, <1>2, <2>1
  <2>3. picks[n + 1] = Turn(ids, candidates, picks[n])
    BY PicksAre
  <2> HIDE DEF S
  <2>4. ASSUME NEW s \in picks[n]
        PROVE  /\ s \subseteq candidates /\ Cardinality(s) = n /\ Spread(ids, candidates, s)
               /\ IsFiniteSet(s) /\ candidates \ s # {} /\ candidates \ s \subseteq ids
    <3>1. s \subseteq candidates /\ Cardinality(s) = n /\ Spread(ids, candidates, s)
      BY <2>2 DEF Balanced
    <3>2. IsFiniteSet(s)
      BY <1>0, <3>1, FS_Subset
    <3>3. n < Cardinality(candidates)
      BY <1>0, <2>1
    <3> HIDE DEF picks
    <3>4. s # candidates
      BY <1>0, <3>1, <3>3
    <3> QED BY <3>1, <3>2, <3>4
  <2>5. picks[n + 1] # {}
    <3>1. PICK s \in picks[n] : TRUE
      BY <2>2 DEF Balanced
    <3>2. PICK c \in LeastUsed(ids, candidates \ s) : TRUE
      BY <2>4, SomeLeastUsed
    <3> HIDE DEF picks
    <3>3. s \cup {c} \in picks[n + 1]
      <4>1. s \cup {c} \in Turn(ids, candidates, picks[n])
        BY <3>2, TurnTakesAny
      <4> QED BY <2>3, <4>1
    <3> QED BY <3>3
  <2>6. ASSUME NEW t \in picks[n + 1]
        PROVE  t \subseteq candidates /\ Cardinality(t) = n + 1 /\ Spread(ids, candidates, t)
    <3> HIDE DEF picks
    <3>1. OneMore(ids, candidates, picks[n], t)
      BY <2>3, TurnTakesOne
    <3>2. PICK s \in picks[n], c \in candidates : c \in LeastUsed(ids, candidates \ s) /\ t = s \cup {c}
      BY <3>1 DEF OneMore, LeastUsed
    <3>3. c \in candidates /\ c \notin s
      BY <3>2 DEF LeastUsed
    <3>4. s \subseteq candidates /\ Cardinality(s) = n /\ Spread(ids, candidates, s) /\ IsFiniteSet(s)
      BY <2>4
    <3>5. Cardinality(s \cup {c}) = n + 1
      BY <3>3, <3>4, FS_AddElement
    <3>6. Spread(ids, candidates, s \cup {c})
      BY <3>2, <3>4, TurnSpreads
    <3> QED BY <3>2, <3>3, <3>4, <3>5, <3>6
  <2> QED BY <2>5, <2>6 DEF Balanced
<1> HIDE DEF S
<1>3. Nat \subseteq S
  BY <1>1, <1>2, Induction
<1> QED BY <1>3 DEF S

\* Between a set and a larger one there is a set of every size between theirs.
LEMMA SubsetOfSize ==
  ASSUME NEW A, IsFiniteSet(A), NEW r \in SUBSET A,
         NEW size \in Nat, Cardinality(r) <= size, size <= Cardinality(A)
  PROVE  \E s \in SUBSET A : r \subseteq s /\ Cardinality(s) = size
<1> DEFINE Has(n) == \E s \in SUBSET A : r \subseteq s /\ Cardinality(s) = n
           S == {k \in Nat : Cardinality(r) + k <= Cardinality(A) => Has(Cardinality(r) + k)}
<1>0. IsFiniteSet(r) /\ Cardinality(r) \in Nat /\ Cardinality(A) \in Nat
  BY FS_Subset, FS_CardinalityType
<1>1. 0 \in S
  <2>1. Has(Cardinality(r))
    OBVIOUS
  <2> HIDE DEF Has
  <2> QED BY <1>0, <2>1
<1>2. ASSUME NEW k \in Nat, k \in S
      PROVE  k + 1 \in S
  <2> DEFINE n == Cardinality(r) + k
  <2>1. SUFFICES ASSUME n + 1 <= Cardinality(A) PROVE Has(n + 1)
    <3> HIDE DEF Has
    <3> QED BY <1>0
  <2>2. Has(n)
    <3> HIDE DEF Has
    <3> QED BY <1>0, <1>2, <2>1
  <2>3. PICK s \in SUBSET A : r \subseteq s /\ Cardinality(s) = n
    BY <2>2
  <2>4. IsFiniteSet(s) /\ s # A
    <3>1. IsFiniteSet(s)
      BY FS_Subset
    <3>2. Cardinality(s) # Cardinality(A)
      BY <1>0, <2>1, <2>3
    <3> QED BY <3>1, <3>2
  <2>5. PICK c \in A : c \notin s
    BY <2>4
  <2> HIDE DEF n
  <2>6. Cardinality(s \cup {c}) = n + 1
    BY <2>3, <2>4, <2>5, FS_AddElement
  <2> QED BY <2>3, <2>5, <2>6
<1> HIDE DEF S
<1>3. Nat \subseteq S
  BY <1>1, <1>2, Induction
<1>4. size - Cardinality(r) \in Nat /\ Cardinality(r) + (size - Cardinality(r)) = size
  BY <1>0
<1>5. Has(Cardinality(r) + (size - Cardinality(r)))
  <2> HIDE DEF Has
  <2>1. size - Cardinality(r) \in S
    BY <1>3, <1>4
  <2> QED BY <1>4, <2>1 DEF S
<1> QED BY <1>4, <1>5

-----------------------------------------------------------------------------
\* What is promised of the sets distributedAlloc may choose: there is one unless too few
\* are available; each has the required ones, and is spread.
SoundChoices(ids, available, required, size, sets) ==
  /\ Cardinality(available) < size => sets = {}
  /\ size <= Cardinality(available) => sets # {}
  /\ \A s \in sets :
       /\ required \subseteq s /\ s \subseteq available
       /\ Cardinality(s) = IF size < Cardinality(required) THEN Cardinality(required) ELSE size
       /\ \A c \in s \ required, d \in available \ s :
            c.uuid = d.uuid \/ Load(ids, available \ s, c.uuid) - 1 <= Load(ids, available \ s, d.uuid)

\* Whatever the replicas, those available and those required: the choice is sound.
LEMMA DistributedIsBalanced ==
  ASSUME NEW ids, IsFiniteSet(ids), NEW available \in SUBSET ids,
         NEW required \in SUBSET available, NEW size \in Nat
  PROVE  SoundChoices(ids, available, required, size, distributedAlloc(ids, available, required, size))
<1> DEFINE sets == distributedAlloc(ids, available, required, size)
           larger == IF size < Cardinality(required) THEN Cardinality(required) ELSE size
           candidates == available \ required
           needed == size - Cardinality(required)
           n == IF needed < 0 THEN 0 ELSE needed
<1>1. /\ IsFiniteSet(available) /\ IsFiniteSet(required) /\ candidates \subseteq ids
      /\ Cardinality(available) \in Nat /\ Cardinality(required) \in Nat
  BY FS_Subset, FS_CardinalityType
<1>2. /\ IsFiniteSet(candidates) /\ Cardinality(candidates) = Cardinality(available) - Cardinality(required)
      /\ Cardinality(candidates) \in Nat
  <2>1. available \cap required = required
    OBVIOUS
  <2>2. Cardinality(available \ required) = Cardinality(available) - Cardinality(available \cap required)
    BY <1>1, FS_Difference
  <2>3. IsFiniteSet(candidates)
    BY <1>1, FS_Subset
  <2> QED BY <2>1, <2>2, <2>3, FS_CardinalityType
<1>3. sets = IF Cardinality(candidates) < needed THEN {} ELSE {required \cup s : s \in Picks(ids, candidates)[n]}
  <2>1. (available \cap ids) \ required = candidates
    OBVIOUS
  <2> QED BY <2>1 DEF distributedAlloc
<1> HIDE DEF sets, candidates
<1>4. n \in Nat /\ Cardinality(required) + n = larger
  BY <1>1
<1>5. ASSUME Cardinality(available) < size PROVE sets = {}
  <2>1. Cardinality(candidates) < needed
    BY <1>1, <1>2, <1>5
  <2> QED BY <1>3, <2>1
<1>6. ASSUME size <= Cardinality(available)
      PROVE  Balanced(ids, candidates, n) /\ sets = {required \cup s : s \in Picks(ids, candidates)[n]}
  <2>1. ~(Cardinality(candidates) < needed) /\ n <= Cardinality(candidates)
    BY <1>1, <1>2, <1>6
  <2>2. Balanced(ids, candidates, n)
    <3> HIDE DEF n
    <3> QED BY <1>1, <1>4, <2>1, PicksAreBalanced
  <2>3. sets = {required \cup s : s \in Picks(ids, candidates)[n]}
    BY <1>3, <2>1
  <2> QED BY <2>2, <2>3
<1> HIDE DEF n, needed, larger
<1>7. ASSUME size <= Cardinality(available) PROVE sets # {}
  <2>1. PICK s \in Picks(ids, candidates)[n] : TRUE
    BY <1>6, <1>7 DEF Balanced
  <2> QED BY <1>6, <1>7, <2>1
<1>8. ASSUME NEW s \in sets
      PROVE  /\ required \subseteq s /\ s \subseteq available /\ Cardinality(s) = larger
             /\ \A c \in s \ required, d \in available \ s :
                  c.uuid = d.uuid \/ Load(ids, available \ s, c.uuid) - 1 <= Load(ids, available \ s, d.uuid)
  <2>1. size <= Cardinality(available)
    BY <1>1, <1>5, <1>8
  <2>2. PICK t \in Picks(ids, candidates)[n] : s = required \cup t
    BY <1>6, <1>8, <2>1
  <2>3. t \subseteq candidates /\ Cardinality(t) = n /\ Spread(ids, candidates, t)
    BY <1>6, <2>1 DEF Balanced
  <2>4. /\ required \subseteq s /\ s \subseteq available /\ required \cap t = {}
        /\ s \ required = t /\ available \ s = candidates \ t
    BY <2>2, <2>3 DEF candidates
  <2>5. Cardinality(s) = larger
    <3>1. IsFiniteSet(t)
      BY <1>2, <2>3, FS_Subset
    <3>2. Cardinality(required \cup t) = Cardinality(required) + Cardinality(t) - Cardinality(required \cap t)
      BY <1>1, <3>1, FS_Union
    <3>3. Cardinality(required \cap t) = 0
      BY <2>4, FS_EmptySet
    <3> QED BY <1>1, <1>4, <2>2, <2>3, <3>2, <3>3
  <2>6. \A c \in t, d \in candidates \ t :
          c.uuid = d.uuid \/ Load(ids, candidates \ t, c.uuid) - 1 <= Load(ids, candidates \ t, d.uuid)
    BY <2>3 DEF Spread
  <2> QED BY <2>4, <2>5, <2>6
<1> QED BY <1>5, <1>7, <1>8 DEF sets, larger, SoundChoices

-----------------------------------------------------------------------------
\* The requests of the kubelet: the IDs it names are devices of the resource, of whose
\* devices there are finitely many, and one that is not shared is alone with its uuid; of
\* whole devices it requires no more than it asks for.
PreferenceInput(t) ==
  /\ IsFiniteSet(DOMAIN t.devices) /\ t.size \in Nat
  /\ t.available \subseteq DOMAIN t.devices /\ t.required \subseteq t.available
  /\ \A id, other \in DOMAIN t.devices : id.uuid = other.uuid /\ ~HasAnnotations(id) => id = other
  /\ (\A id \in t.available : ~HasAnnotations(id)) => Cardinality(t.required) <= t.size

\* What PreferredIsBalanced says of a choice s.
IsBalanced(t, s) ==
  LET left == t.available \ s
  IN IF Cardinality(t.available) < t.size THEN s = {}
     ELSE /\ t.required \subseteq s /\ s \subseteq t.available
          /\ Cardinality(s) = IF t.size < Cardinality(t.required) THEN Cardinality(t.required) ELSE t.size
          /\ \A c \in s \ t.required, d \in left :
               c.uuid = d.uuid \/ Load(DOMAIN t.devices, left, c.uuid) - 1 <= Load(DOMAIN t.devices, left, d.uuid)

\* The preferences the plugin may answer a request with.
Preferences(t) == getPreferredAllocation(t.devices, t.available, t.required, t.size)

\* Whole devices: no GPU has two, so any choice is balanced.
LEMMA AlignedIsBalanced ==
  ASSUME NEW t, PreferenceInput(t), \A id \in t.available : ~HasAnnotations(id)
  PROVE  LET sets == alignedAlloc(t.available, t.required, t.size)
         IN sets # {} /\ \A s \in sets : IsBalanced(t, s)
<1> DEFINE sets == alignedAlloc(t.available, t.required, t.size)
           Load1(s, uuid) == Load(DOMAIN t.devices, t.available \ s, uuid)
<1>1. /\ IsFiniteSet(t.available) /\ Cardinality(t.available) \in Nat
      /\ IsFiniteSet(t.required) /\ Cardinality(t.required) \in Nat
      /\ t.size \in Nat /\ Cardinality(t.required) <= t.size /\ t.required \subseteq t.available
  BY FS_Subset, FS_CardinalityType DEF PreferenceInput
<1>2. CASE Cardinality(t.available) < t.size
  BY <1>2 DEF alignedAlloc, IsBalanced
<1>3. CASE t.size <= Cardinality(t.available)
  <2>0. ~(Cardinality(t.available) < t.size)
    BY <1>1, <1>3
  <2>1. sets = {s \in SUBSET t.available : t.required \subseteq s /\ Cardinality(s) = t.size}
    BY <2>0 DEF alignedAlloc
  <2>2. sets # {}
    <3>1. \E s \in SUBSET t.available : t.required \subseteq s /\ Cardinality(s) = t.size
      BY <1>1, <1>3, SubsetOfSize
    <3> QED BY <2>1, <3>1
  <2>3. ASSUME NEW s \in sets, NEW c \in s \ t.required, NEW d \in t.available \ s
        PROVE  Load1(s, c.uuid) - 1 <= Load1(s, d.uuid)
    <3>1. c \in t.available /\ c \in s /\ d \in DOMAIN t.devices
      BY <2>1, <2>3 DEF PreferenceInput
    <3>2. {id \in DOMAIN t.devices \ (t.available \ s) : id.uuid = c.uuid} = {c}
      BY <3>1 DEF PreferenceInput
    <3>3. Load1(s, c.uuid) = 1
      BY <3>2, FS_Singleton DEF Load
    <3>4. Load1(s, d.uuid) \in Nat
      <4>1. IsFiniteSet({id \in DOMAIN t.devices \ (t.available \ s) : id.uuid = d.uuid})
        BY FS_Subset DEF PreferenceInput
      <4> QED BY <4>1, FS_CardinalityType DEF Load
    <3> HIDE DEF Load1
    <3> QED BY <3>3, <3>4
  <2>4. ASSUME NEW s \in sets
        PROVE  IsBalanced(t, s)
    <3>1. t.required \subseteq s /\ s \subseteq t.available /\ Cardinality(s) = t.size
      BY <2>1, <2>4
    <3>2. ~(t.size < Cardinality(t.required))
      BY <1>1
    <3>3. \A c \in s \ t.required, d \in t.available \ s :
            Load(DOMAIN t.devices, t.available \ s, c.uuid) - 1 <= Load(DOMAIN t.devices, t.available \ s, d.uuid)
      <4> HIDE DEF sets
      <4> QED BY <2>3, <2>4
    <3> QED BY <2>0, <3>1, <3>2, <3>3 DEF IsBalanced
  <2> QED BY <2>2, <2>4
<1> QED BY <1>1, <1>2, <1>3

\* Both policies: there is no preference only if too few are available, and each is balanced.
LEMMA PreferencesAreBalanced ==
  ASSUME NEW t, PreferenceInput(t)
  PROVE  /\ Preferences(t) = {} => Cardinality(t.available) < t.size
         /\ \A s \in Preferences(t) : IsBalanced(t, s)
<1> DEFINE ids == DOMAIN t.devices
           sets == distributedAlloc(ids, t.available, t.required, t.size)
<1>1. CASE AlignedAllocationSupported(t.devices) /\ \A id \in t.available : ~HasAnnotations(id)
  <2>1. Preferences(t) = alignedAlloc(t.available, t.required, t.size)
    BY <1>1 DEF Preferences, getPreferredAllocation
  <2>2. Preferences(t) # {} /\ \A s \in Preferences(t) : IsBalanced(t, s)
    BY <1>1, <2>1, AlignedIsBalanced
  <2> QED BY <2>2
<1>2. CASE ~(AlignedAllocationSupported(t.devices) /\ \A id \in t.available : ~HasAnnotations(id))
  <2>1. Preferences(t) = sets
    BY <1>2 DEF Preferences, getPreferredAllocation
  <2>2. /\ IsFiniteSet(ids) /\ t.available \in SUBSET ids /\ t.required \in SUBSET t.available /\ t.size \in Nat
        /\ Cardinality(t.available) \in Nat
    BY FS_Subset, FS_CardinalityType DEF PreferenceInput
  <2> HIDE DEF ids
  <2>3. SoundChoices(ids, t.available, t.required, t.size, sets)
    BY <2>2, DistributedIsBalanced
  <2> HIDE DEF sets
  <2>4. sets = {} => Cardinality(t.available) < t.size
    BY <2>2, <2>3 DEF SoundChoices
  <2>5. ASSUME NEW s \in sets PROVE IsBalanced(t, s)
    <3>1. ~(Cardinality(t.available) < t.size)
      BY <2>3, <2>5 DEF SoundChoices
    <3> QED BY <2>3, <2>5, <3>1 DEF SoundChoices, IsBalanced, ids
  <2> QED BY <2>1, <2>4, <2>5
<1> QED BY <1>1, <1>2

\* The plugin is asked for a preference among any devices.
PreferInit == result = <<>> /\ task.of = "prefer" /\ PreferenceInput(task)
PreferSpec == PreferInit /\ [][Next]_vars

\* Whatever the devices of a resource, those available, those required and the number
\* asked for, the preference is balanced (getPreferredAllocation).
THEOREM PreferenceIsBalanced == PreferSpec => []PreferredIsBalanced
<1> DEFINE Inv == task.of = "prefer" /\ PreferenceInput(task) /\ PreferredIsBalanced
<1>1. PreferInit => Inv
  BY DEF PreferInit, PreferredIsBalanced, Done
<1>2. Inv /\ [Next]_vars => Inv'
  <2>1. SUFFICES ASSUME Inv, [Next]_vars PROVE Inv'
    OBVIOUS
  <2>2. CASE UNCHANGED vars
    <3>1. task' = task /\ result' = result
      BY <2>2 DEF vars
    <3>2. PreferredIsBalanced' = PreferredIsBalanced
      BY <3>1 DEF PreferredIsBalanced, Done, Result
    <3> QED BY <2>1, <3>1, <3>2
  <2>3. CASE Next
    <3>0. Prefer
      BY <2>1, <2>3, OwnStep
    <3>1. task' = task /\ PreferenceInput(task)'
      BY <2>1, <3>0 DEF Prefer, Step
    <3>2. \/ Preferences(task) = {} /\ result' = <<[ok |-> FALSE]>>
          \/ \E s \in Preferences(task) : result' = <<[ok |-> TRUE, chosen |-> s]>>
      BY <3>0 DEF Prefer, Step, Preferences
    <3>3. CASE Preferences(task) = {} /\ result' = <<[ok |-> FALSE]>>
      <4>1. Cardinality(task.available) < task.size
        BY <2>1, <3>3, PreferencesAreBalanced
      <4> QED BY <2>1, <3>1, <3>3, <4>1 DEF PreferredIsBalanced, Result
    <3>4. ASSUME NEW s \in Preferences(task), result' = <<[ok |-> TRUE, chosen |-> s]>>
          PROVE  Inv'
      <4>1. IsBalanced(task, s)
        BY <2>1, PreferencesAreBalanced
      <4>2. Result'.ok /\ Result'.chosen = s
        BY <3>4 DEF Result
      <4> QED BY <2>1, <3>1, <4>1, <4>2 DEF PreferredIsBalanced, IsBalanced, Load
    <3> QED BY <3>2, <3>3, <3>4
  <2> QED BY <2>1, <2>2, <2>3
<1>3. Inv => PreferredIsBalanced
  OBVIOUS
<1> QED BY <1>1, <1>2, <1>3, PTL DEF PreferSpec

-----------------------------------------------------------------------------
(* The replicas.                                                            *)

\* The entries of a map that no rule names, those a rule leaves as they are, and those it
\* adds.
Kept(rules, dm) == [k \in {k \in DOMAIN dm : k[1] \notin {rules[j].name : j \in DOMAIN rules}} |-> dm[k]]
PlainOf(r, dm, chosen) == [k \in {r.name} \X Unreplicated(dm, r, chosen) |-> dm[k]]
ReplicasFor(r, dm, chosen) == [k \in {Renamed(r)} \X ReplicaIDs(r, chosen) |-> Replica(dm, r, k[2])]

\* What one rule makes of a map.
AfterRule(map, rules, dm, ids, k) ==
  IF ids[k] = {} THEN map
  ELSE Merge(ReplicasFor(rules[k], dm, ids[k]), Merge(PlainOf(rules[k], dm, ids[k]), map))

\* The keys a rule adds.
Adds(rules, dm, ids, k) ==
  IF ids[k] = {} THEN {} ELSE DOMAIN ReplicasFor(rules[k], dm, ids[k]) \cup DOMAIN PlainOf(rules[k], dm, ids[k])

\* The keys of a merged map are those of both.
LEMMA MergeKeys == ASSUME NEW a, NEW b PROVE DOMAIN Merge(a, b) = DOMAIN a \cup DOMAIN b
BY DEF Merge

\* The functions on some of the keys.
Partial(K, V) == UNION {[D -> V] : D \in SUBSET K}

\* They are the functions whose keys are among K and whose values are in V, ...
LEMMA IsPartial ==
  ASSUME NEW K, NEW V
  PROVE  /\ \A D \in SUBSET K : \A f \in [D -> V] : f \in Partial(K, V)
         /\ \A f \in Partial(K, V) : DOMAIN f \in SUBSET K /\ f \in [DOMAIN f -> V]
<1>1. ASSUME NEW D \in SUBSET K, NEW f \in [D -> V] PROVE f \in Partial(K, V)
  BY DEF Partial
<1>2. ASSUME NEW f \in Partial(K, V) PROVE DOMAIN f \in SUBSET K /\ f \in [DOMAIN f -> V]
  <2>1. PICK D \in SUBSET K : f \in [D -> V]
    BY DEF Partial
  <2> QED BY <2>1
<1> QED BY <1>1, <1>2

\* ... and merging two of them gives another.
LEMMA MergeIsPartial ==
  ASSUME NEW K, NEW V, NEW a \in Partial(K, V), NEW b \in Partial(K, V)
  PROVE  Merge(a, b) \in Partial(K, V)
<1>1. /\ DOMAIN a \in SUBSET K /\ a \in [DOMAIN a -> V]
      /\ DOMAIN b \in SUBSET K /\ b \in [DOMAIN b -> V]
  BY IsPartial
<1>2. Merge(a, b) \in [DOMAIN a \cup DOMAIN b -> V]
  <2>1. \A k \in DOMAIN a \cup DOMAIN b : (IF k \in DOMAIN a THEN a[k] ELSE b[k]) \in V
    BY <1>1
  <2> QED BY <2>1 DEF Merge
<1> QED BY <1>1, <1>2, IsPartial

\* A function with its keys and values.
LEMMA OwnPartial ==
  ASSUME NEW K, NEW V, NEW f, f = [k \in DOMAIN f |-> f[k]], DOMAIN f \in SUBSET K, \A k \in DOMAIN f : f[k] \in V
  PROVE  f \in Partial(K, V)
<1>1. f \in [DOMAIN f -> V]
  OBVIOUS
<1> QED BY <1>1, IsPartial

\* The keys of the map after k of the rules.
KeysAfter(f, rules, dm, ids, n) ==
  /\ f[0] = DOMAIN Kept(rules, dm)
  /\ \A k \in 0 .. n - 1 : f[k + 1] = f[k] \cup Adds(rules, dm, ids, k + 1)

\* The rules are applied one after the other.
LEMMA RuleFold ==
  ASSUME NEW dm, NEW n \in Nat, NEW rules, DOMAIN rules = 1 .. n, NEW ids
  PROVE  \E f : KeysAfter(f, rules, dm, ids, n) /\ DOMAIN updateDeviceMapWithReplicas(rules, dm, ids) = f[n]
<1> DEFINE kept == Kept(rules, dm)
           R(k) == ReplicasFor(rules[k], dm, ids[k])
           P(k) == PlainOf(rules[k], dm, ids[k])
           K == DOMAIN kept \cup UNION {DOMAIN R(k) \cup DOMAIN P(k) : k \in 1 .. n}
           W == {kept[x] : x \in DOMAIN kept} \cup UNION {{R(k)[x] : x \in DOMAIN R(k)} \cup {P(k)[x] : x \in DOMAIN P(k)} : k \in 1 .. n}
           V == Partial(K, W)
           turns == [k \in DOMAIN rules |-> k]
           body(iter, s) ==
             IF s = {} THEN kept ELSE AfterRule(iter[s \ {Max(s)}], rules, dm, ids, turns[Max(s)])
           IsIter(iter) == iter = [s \in SUBSET (DOMAIN turns) |-> body(iter, s)]
           folded == CHOOSE iter : IsIter(iter)
           H == [t \in V \X (1 .. n) |-> AfterRule(t[1], rules, dm, ids, t[2])]
<1>1. updateDeviceMapWithReplicas(rules, dm, ids) = folded[DOMAIN turns]
  BY ZenonT(60) DEF updateDeviceMapWithReplicas, Kept, PlainOf, ReplicasFor, AfterRule, FoldLeft, MapThenFoldSet
<1>2. DOMAIN turns = 1 .. n /\ \A k \in 1 .. n : turns[k] = k
  OBVIOUS
<1>3. kept \in V
  <2>1. kept = [k \in DOMAIN kept |-> kept[k]]
    BY DEF Kept
  <2> HIDE DEF kept, R, P
  <2>2. DOMAIN kept \in SUBSET K /\ \A k \in DOMAIN kept : kept[k] \in W
    OBVIOUS
  <2> HIDE DEF K, W
  <2> QED BY <2>1, <2>2, OwnPartial
<1>4. ASSUME NEW k \in 1 .. n PROVE R(k) \in V /\ P(k) \in V
  <2>1. R(k) = [x \in DOMAIN R(k) |-> R(k)[x]]
    <3> DEFINE r == rules[k]
               D == {Renamed(r)} \X ReplicaIDs(r, ids[k])
               E(x) == Replica(dm, r, x[2])
    <3>1. R(k) = [x \in D |-> E(x)]
      BY Zenon DEF ReplicasFor
    <3> HIDE DEF D, E, R
    <3> QED BY <3>1
  <2>2. P(k) = [x \in DOMAIN P(k) |-> P(k)[x]]
    BY DEF PlainOf
  <2> HIDE DEF kept, R, P
  <2>3. DOMAIN R(k) \in SUBSET K /\ DOMAIN P(k) \in SUBSET K
    OBVIOUS
  <2>4. (\A x \in DOMAIN R(k) : R(k)[x] \in W) /\ \A x \in DOMAIN P(k) : P(k)[x] \in W
    OBVIOUS
  <2> HIDE DEF K, W
  <2> QED BY <2>1, <2>2, <2>3, <2>4, OwnPartial
<1> HIDE DEF K, W
<1>5. \A v \in V, k \in 1 .. n : AfterRule(v, rules, dm, ids, k) \in V
  <2> TAKE v \in V, k \in 1 .. n
  <2>1. Merge(P(k), v) \in V
    BY <1>4, MergeIsPartial
  <2>2. Merge(R(k), Merge(P(k), v)) \in V
    BY <1>4, <2>1, MergeIsPartial
  <2> QED BY <2>2 DEF AfterRule
<1> HIDE DEF V
<1>6. H \in [V \X (1 .. n) -> V]
  <2>1. ASSUME NEW t \in V \X (1 .. n) PROVE AfterRule(t[1], rules, dm, ids, t[2]) \in V
    <3>1. t[1] \in V /\ t[2] \in 1 .. n
      OBVIOUS
    <3> QED BY <1>5, <3>1
  <2> QED BY <2>1
<1>7. \A v \in V, k \in 1 .. n : H[<<v, k>>] = AfterRule(v, rules, dm, ids, k)
  OBVIOUS
<1> HIDE DEF H, kept, turns
<1>8. ASSUME NEW s \in SUBSET (1 .. n), s # {}
      PROVE  Max(s) \in 1 .. n /\ s \ {Max(s)} \in SUBSET (1 .. n) /\ turns[Max(s)] = Max(s)
  BY <1>2, <1>8, MaxOfFirst
<1>9. \E f : IsIter(f)
  <2>1. PICK f \in [SUBSET (1 .. n) -> V] : FoldsLeft(f, n, kept, H)
    BY <1>3, <1>6, LeftRecursion
  <2>2. ASSUME NEW s \in SUBSET (1 .. n) PROVE f[s] = body(f, s)
    <3>1. CASE s = {}
      BY <3>1, <2>1 DEF FoldsLeft
    <3>2. CASE s # {}
      <4>1. f[s] = H[<<f[s \ {Max(s)}], Max(s)>>]
        BY <3>2, <2>1 DEF FoldsLeft
      <4> QED BY <3>2, <1>7, <1>8, <4>1
    <3> QED BY <3>1, <3>2
  <2> DEFINE h == [s \in SUBSET (DOMAIN turns) |-> body(f, s)]
  <2>3. DOMAIN f = DOMAIN h /\ \A s \in SUBSET (1 .. n) : f[s] = h[s]
    BY <1>2, <2>2
  <2>4. f = h
    BY <2>3, <1>2
  <2> QED BY <2>4
<1>10. IsIter(folded)
  <2> HIDE DEF IsIter
  <2> QED BY <1>9
<1>11. \A s \in SUBSET (1 .. n) : folded[s] = body(folded, s)
  <2> HIDE DEF folded
  <2> TAKE s \in SUBSET (1 .. n)
  <2> DEFINE h == [t \in SUBSET (DOMAIN turns) |-> body(folded, t)]
  <2>1. folded = h
    BY <1>10
  <2>2. s \in SUBSET (DOMAIN turns) /\ \A u \in SUBSET (DOMAIN turns) : h[u] = body(folded, u)
    BY <1>2
  <2> HIDE DEF h, body
  <2> QED BY <2>1, <2>2
<1> HIDE DEF folded
<1>12. ObeysFold(folded, n, V, kept, H)
  BY <1>7, <1>8, <1>11 DEF ObeysFold
<1> HIDE DEF IsIter, body
<1>13. PICK g : StepsOf(g, folded, n, V, kept, H)
  BY <1>3, <1>6, <1>12, LeftSteps
<1> DEFINE f == [k \in 0 .. n |-> DOMAIN g[k]]
<1>14. ASSUME NEW k \in 0 .. n - 1 PROVE f[k + 1] = f[k] \cup Adds(rules, dm, ids, k + 1)
  <2>1. k \in 0 .. n /\ k + 1 \in 0 .. n /\ k + 1 \in 1 .. n /\ g[k] \in V
    BY <1>13 DEF StepsOf
  <2>2. g[k + 1] = AfterRule(g[k], rules, dm, ids, k + 1)
    BY <1>7, <1>13, <2>1 DEF StepsOf
  <2>3. DOMAIN g[k + 1] = DOMAIN g[k] \cup Adds(rules, dm, ids, k + 1)
    <3>1. CASE ids[k + 1] = {}
      BY <2>2, <3>1 DEF AfterRule, Adds
    <3>2. CASE ids[k + 1] # {}
      <4>1. g[k + 1] = Merge(R(k + 1), Merge(P(k + 1), g[k]))
        BY Zenon, <2>2, <3>2 DEF AfterRule
      <4>2. Adds(rules, dm, ids, k + 1) = DOMAIN R(k + 1) \cup DOMAIN P(k + 1)
        BY Zenon, <3>2 DEF Adds
      <4> HIDE DEF R, P
      <4>3. /\ DOMAIN Merge(P(k + 1), g[k]) = DOMAIN P(k + 1) \cup DOMAIN g[k]
            /\ DOMAIN g[k + 1] = DOMAIN R(k + 1) \cup DOMAIN Merge(P(k + 1), g[k])
        BY <4>1, MergeKeys
      <4> QED BY <4>2, <4>3
    <3> QED BY <3>1, <3>2
  <2> QED BY <2>1, <2>3
<1>15. 0 \in 0 .. n /\ n \in 0 .. n /\ g[0] = kept /\ folded[1 .. n] = g[n]
  BY <1>13 DEF StepsOf
<1>16. f[0] = DOMAIN kept /\ f[n] = DOMAIN folded[1 .. n]
  BY <1>15
<1>17. KeysAfter(f, rules, dm, ids, n)
  BY <1>14, <1>16 DEF KeysAfter, kept
<1> QED BY <1>1, <1>2, <1>16, <1>17
\* After all the rules there are the keys of no rule, and those that each rule adds.
LEMMA KeysOfReplicas ==
  ASSUME NEW dm, NEW n \in Nat, NEW rules, DOMAIN rules = 1 .. n, NEW ids
  PROVE  \A x : x \in DOMAIN updateDeviceMapWithReplicas(rules, dm, ids) <=>
                  x \in DOMAIN Kept(rules, dm) \/ \E k \in 1 .. n : x \in Adds(rules, dm, ids, k)
<1>1. PICK f : KeysAfter(f, rules, dm, ids, n) /\ DOMAIN updateDeviceMapWithReplicas(rules, dm, ids) = f[n]
  BY RuleFold
<1> DEFINE A(k) == Adds(rules, dm, ids, k)
           kept == DOMAIN Kept(rules, dm)
           S == {m \in Nat : m <= n => f[m] = kept \cup (UNION {A(k) : k \in 1 .. m})}
<1>2. f[0] = kept /\ \A k \in 0 .. n - 1 : f[k + 1] = f[k] \cup A(k + 1)
  BY <1>1 DEF KeysAfter
<1> HIDE DEF A, kept
<1>3. 0 \in S
  <2>1. 1 .. 0 = {}
    OBVIOUS
  <2>2. {A(k) : k \in 1 .. 0} = {}
    BY <2>1
  <2> QED BY <1>2, <2>2
<1>4. ASSUME NEW m \in Nat, m \in S PROVE m + 1 \in S
  <2>1. SUFFICES ASSUME m + 1 <= n PROVE f[m + 1] = kept \cup (UNION {A(k) : k \in 1 .. m + 1})
    OBVIOUS
  <2>2. m \in 0 .. n - 1 /\ m <= n /\ 1 .. m + 1 = (1 .. m) \cup {m + 1}
    BY <2>1
  <2>3. f[m] = kept \cup (UNION {A(k) : k \in 1 .. m}) /\ f[m + 1] = f[m] \cup A(m + 1)
    BY <1>2, <1>4, <2>2
  <2>4. UNION {A(k) : k \in 1 .. m + 1} = (UNION {A(k) : k \in 1 .. m}) \cup A(m + 1)
    <3> DEFINE first == 1 .. m
    <3> HIDE DEF first
    <3>1. UNION {A(k) : k \in first \cup {m + 1}} = (UNION {A(k) : k \in first}) \cup A(m + 1)
      OBVIOUS
    <3> QED BY <2>2, <3>1 DEF first
  <2> HIDE DEF S
  <2> QED BY <2>3, <2>4
<1> HIDE DEF S
<1>5. n \in S
  BY <1>3, <1>4, Induction
<1>6. f[n] = kept \cup (UNION {A(k) : k \in 1 .. n})
  BY <1>5 DEF S
<1>7. \A x : x \in f[n] <=> x \in kept \/ \E k \in 1 .. n : x \in A(k)
  BY <1>6
<1> QED BY Zenon, <1>1, <1>7 DEF A, kept

\* What a choice for a rule may be: some of the devices of its resource, if it has any.
ChosenFor(dm, r, chosen) ==
  /\ chosen \subseteq IDsOf(dm, r.name)
  /\ chosen = {} => IDsOf(dm, r.name) = {}
  /\ r.devices.all => chosen = IDsOf(dm, r.name)

\* Every choice the algorithm may return is such (getIDsOfDevicesToReplicate).
LEMMA ChoiceIs ==
  ASSUME NEW dm, NEW r, NEW chosen \in getIDsOfDevicesToReplicate(dm, r)
  PROVE  ChosenFor(dm, r, chosen)
<1> DEFINE ids == IDsOf(dm, r.name)
           refs == r.devices.list
           found == [k \in DOMAIN refs |-> Referenced(dm, r.name, refs[k])]
<1>1. getIDsOfDevicesToReplicate(dm, r) =
        IF ids = {} THEN {{}}
        ELSE IF r.devices.all THEN {ids}
        ELSE IF r.devices.count > 0 THEN {s \in SUBSET ids : Cardinality(s) = r.devices.count}
        ELSE IF found = <<>> \/ {} \in ToSet(found) THEN {} ELSE {UNION ToSet(found)}
  BY DEF getIDsOfDevicesToReplicate
<1>2. CASE ids = {}
  BY <1>1, <1>2 DEF ChosenFor
<1>3. CASE ids # {} /\ r.devices.all
  BY <1>1, <1>3 DEF ChosenFor
<1>4. CASE ids # {} /\ ~r.devices.all /\ r.devices.count > 0
  <2>1. chosen \in SUBSET ids /\ Cardinality(chosen) = r.devices.count
    BY <1>1, <1>4
  <2>2. chosen # {}
    BY <1>4, <2>1, FS_EmptySet
  <2> QED BY <1>4, <2>1, <2>2 DEF ChosenFor
<1>5. CASE ids # {} /\ ~r.devices.all /\ ~(r.devices.count > 0)
  <2>1. \A k \in DOMAIN refs : found[k] \subseteq ids
    BY DEF Referenced
  <2>2. ToSet(found) = {found[k] : k \in DOMAIN refs}
    BY DEF ToSet
  <2>3. DOMAIN refs = {} => found = <<>>
    OBVIOUS
  <2>4. chosen = UNION ToSet(found) /\ found # <<>> /\ {} \notin ToSet(found)
    BY <1>1, <1>5
  <2> HIDE DEF found, refs
  <2>5. chosen \subseteq ids
    BY <2>1, <2>2, <2>4
  <2>6. PICK k \in DOMAIN refs : TRUE
    BY <2>3, <2>4
  <2>7. found[k] # {} /\ found[k] \subseteq chosen
    BY <2>2, <2>4, <2>6
  <2> HIDE DEF ids
  <2> QED BY <1>5, <2>5, <2>7 DEF ChosenFor, ids
<1> QED BY <1>2, <1>3, <1>4, <1>5

\* The keys of a map without replicas.
KeysAre(dm) == \A k \in DOMAIN dm : \E r, u : k = <<r, DeviceID(u)>>

\* Rules that were parsed.
AreRules(rules, n) == n \in Nat /\ DOMAIN rules = 1 .. n /\ \A k \in 1 .. n : rules[k].replicas \in Int /\ rules[k].replicas >= 2

\* The keys of the replicas of a device, and the offers there may be of it.
ReplicaKeys(r, id) == {Renamed(r)} \X {NewAnnotatedID(id, n) : n \in 0 .. r.replicas - 1}
OffersOf(rules, e) ==
  {{e}} \cup {ReplicaKeys(rules[k], e[2]) : k \in {k \in DOMAIN rules : rules[k].name = e[1]}}

\* The IDs of a resource are those it has a key with, and none is annotated.
LEMMA IDsAre ==
  ASSUME NEW dm, KeysAre(dm), NEW res, NEW id
  PROVE  /\ id \in IDsOf(dm, res) <=> <<res, id>> \in DOMAIN dm
         /\ id \in IDsOf(dm, res) => \E u : id = DeviceID(u)
<1>1. ASSUME NEW k \in DOMAIN dm PROVE k = <<k[1], k[2]>> /\ \E u : k[2] = DeviceID(u)
  BY DEF KeysAre
<1>2. IDsOf(dm, res) = {k[2] : k \in {k \in DOMAIN dm : k[1] = res}}
  BY DEF IDsOf
<1>3. ASSUME id \in IDsOf(dm, res) PROVE <<res, id>> \in DOMAIN dm /\ \E u : id = DeviceID(u)
  <2>1. PICK k \in DOMAIN dm : k[1] = res /\ k[2] = id
    BY <1>2, <1>3
  <2> QED BY <1>1, <2>1
<1>4. ASSUME <<res, id>> \in DOMAIN dm PROVE id \in IDsOf(dm, res)
  <2> DEFINE k == <<res, id>>
  <2>1. k \in {j \in DOMAIN dm : j[1] = res} /\ k[2] = id
    BY <1>4
  <2> HIDE DEF k
  <2> QED BY <1>2, <2>1
<1> QED BY <1>3, <1>4

\* An annotated ID tells its device and its number.
LEMMA AnnotatedIs ==
  ASSUME NEW u, NEW v, NEW m \in Nat, NEW n \in Nat
  PROVE  /\ NewAnnotatedID(DeviceID(u), m) # DeviceID(v)
         /\ NewAnnotatedID(DeviceID(u), m) = NewAnnotatedID(DeviceID(v), n) => u = v
<1>1. NewAnnotatedID(DeviceID(u), m) = [uuid |-> u, replica |-> m] /\ NewAnnotatedID(DeviceID(v), n) = [uuid |-> v, replica |-> n]
  BY DEF NewAnnotatedID, DeviceID
<1>2. DeviceID(v).replica = -1
  BY DEF DeviceID, NoReplica
<1> DEFINE a == NewAnnotatedID(DeviceID(u), m)
           b == NewAnnotatedID(DeviceID(v), n)
<1>3. a.replica = m /\ a.uuid = u /\ b.uuid = v
  BY <1>1
<1> HIDE DEF a, b
<1>4. a # DeviceID(v)
  BY <1>2, <1>3
<1>5. a = b => u = v
  BY <1>3
<1> QED BY <1>4, <1>5 DEF a, b

\* Where a key comes from: no rule is for it, or a rule leaves it, or a rule adds it.
IsReplica(r, chosen, x) == \E id \in chosen, m \in 0 .. r.replicas - 1 : x = <<Renamed(r), NewAnnotatedID(id, m)>>
IsPlain(dm, r, chosen, x) == \E id \in IDsOf(dm, r.name) \ chosen : x = <<r.name, id>>

\* After all rules a key comes from one of these.
LEMMA AddsAre ==
  ASSUME NEW dm, NEW n \in Nat, NEW rules, DOMAIN rules = 1 .. n, NEW ids, NEW x
  PROVE  x \in DOMAIN updateDeviceMapWithReplicas(rules, dm, ids) <=>
           \/ x \in DOMAIN dm /\ \A k \in 1 .. n : rules[k].name # x[1]
           \/ \E k \in 1 .. n : ids[k] # {} /\ (IsReplica(rules[k], ids[k], x) \/ IsPlain(dm, rules[k], ids[k], x))
<1>1. x \in DOMAIN Kept(rules, dm) <=> x \in DOMAIN dm /\ \A k \in 1 .. n : rules[k].name # x[1]
  BY DEF Kept
<1>2. ASSUME NEW k \in 1 .. n
      PROVE  x \in Adds(rules, dm, ids, k) <=>
               ids[k] # {} /\ (IsReplica(rules[k], ids[k], x) \/ IsPlain(dm, rules[k], ids[k], x))
  <2> DEFINE r == rules[k]
             c == ids[k]
  <2>1. DOMAIN ReplicasFor(r, dm, c) = {Renamed(r)} \X ReplicaIDs(r, c)
    BY DEF ReplicasFor
  <2>2. DOMAIN PlainOf(r, dm, c) = {r.name} \X (IDsOf(dm, r.name) \ c)
    BY DEF PlainOf, Unreplicated
  <2>3. Adds(rules, dm, ids, k) = IF c = {} THEN {} ELSE (DOMAIN ReplicasFor(r, dm, c)) \cup DOMAIN PlainOf(r, dm, c)
    BY Zenon DEF Adds
  <2>4. \A i : i \in ReplicaIDs(r, c) <=> \E id \in c, m \in 0 .. r.replicas - 1 : i = NewAnnotatedID(id, m)
    BY DEF ReplicaIDs
  <2> HIDE DEF r, c
  <2>5. x \in {Renamed(r)} \X ReplicaIDs(r, c) <=> IsReplica(r, c, x)
    <3> DEFINE name == Renamed(r)
               some == ReplicaIDs(r, c)
    <3> HIDE DEF name, some
    <3>1. x \in {name} \X some <=> \E i \in some : x = <<name, i>>
      OBVIOUS
    <3> QED BY <2>4, <3>1 DEF IsReplica, name, some
  <2>6. x \in {r.name} \X (IDsOf(dm, r.name) \ c) <=> IsPlain(dm, r, c, x)
    <3> DEFINE name == r.name
               some == IDsOf(dm, r.name) \ c
    <3> HIDE DEF name, some
    <3>1. x \in {name} \X some <=> \E i \in some : x = <<name, i>>
      OBVIOUS
    <3> QED BY <3>1 DEF IsPlain, name, some
  <2>7. x \in Adds(rules, dm, ids, k) <=> c # {} /\ (IsReplica(r, c, x) \/ IsPlain(dm, r, c, x))
    <3> DEFINE D == DOMAIN ReplicasFor(r, dm, c)
               E == DOMAIN PlainOf(r, dm, c)
    <3> HIDE DEF D, E
    <3>1. (x \in D <=> IsReplica(r, c, x)) /\ (x \in E <=> IsPlain(dm, r, c, x))
      BY <2>1, <2>2, <2>5, <2>6 DEF D, E
    <3>2. Adds(rules, dm, ids, k) = IF c = {} THEN {} ELSE D \cup E
      BY <2>3 DEF D, E
    <3> QED BY <3>1, <3>2
  <2> QED BY <2>7 DEF r, c
<1>3. x \in DOMAIN updateDeviceMapWithReplicas(rules, dm, ids) <=>
        x \in DOMAIN Kept(rules, dm) \/ \E k \in 1 .. n : x \in Adds(rules, dm, ids, k)
  BY KeysOfReplicas
<1> QED BY Zenon, <1>1, <1>2, <1>3
\* No resource has two rules, and no name two resources unless all their devices are
\* replicated.
OneRule(rules) == \A k, l \in DOMAIN rules : rules[k].name = rules[l].name => k = l
OneName(rules) == \A k, l \in DOMAIN rules : Renamed(rules[k]) = Renamed(rules[l]) => rules[k].name = rules[l].name
AllOf(rules) == \A k \in DOMAIN rules : rules[k].devices.all

\* The replicas of a device are those of no other.
LEMMA ReplicasAre ==
  ASSUME NEW dm, KeysAre(dm), NEW n, NEW rules, AreRules(rules, n), NEW ids,
         \A k \in 1 .. n : ChosenFor(dm, rules[k], ids[k]),
         OneRule(rules), OneName(rules) \/ AllOf(rules),
         NEW k \in 1 .. n, NEW id \in IDsOf(dm, rules[k].name)
  PROVE  LET map == updateDeviceMapWithReplicas(rules, dm, ids)
             e == <<rules[k].name, id>>
             replicas == ReplicaKeys(rules[k], id)
         IN /\ id \in ids[k] => e \notin DOMAIN map /\ replicas \subseteq DOMAIN map /\ replicas \cap DOMAIN map # {}
            /\ id \notin ids[k] => e \in DOMAIN map /\ replicas \cap DOMAIN map = {}
<1> DEFINE M == DOMAIN updateDeviceMapWithReplicas(rules, dm, ids)
           e == <<rules[k].name, id>>
           replicas == ReplicaKeys(rules[k], id)
           Added(l, x) == ids[l] # {} /\ (IsReplica(rules[l], ids[l], x) \/ IsPlain(dm, rules[l], ids[l], x))
<1>1. n \in Nat /\ DOMAIN rules = 1 .. n /\ \A l \in 1 .. n : rules[l].replicas \in Int /\ rules[l].replicas >= 2
  BY DEF AreRules
<1>2. ASSUME NEW x
      PROVE  x \in M <=> (x \in DOMAIN dm /\ \A l \in 1 .. n : rules[l].name # x[1]) \/ \E l \in 1 .. n : Added(l, x)
  BY <1>1, AddsAre
<1>3. PICK u : id = DeviceID(u)
  BY IDsAre
<1>4. \A y : y \in replicas <=> \E m \in 0 .. rules[k].replicas - 1 : y = <<Renamed(rules[k]), NewAnnotatedID(id, m)>>
  <2> DEFINE name == Renamed(rules[k])
             some == {NewAnnotatedID(id, m) : m \in 0 .. rules[k].replicas - 1}
  <2>1. \A i : i \in some <=> \E m \in 0 .. rules[k].replicas - 1 : i = NewAnnotatedID(id, m)
    OBVIOUS
  <2> HIDE DEF name, some
  <2>2. \A y : y \in {name} \X some <=> \E i \in some : y = <<name, i>>
    OBVIOUS
  <2>3. replicas = {name} \X some
    BY DEF ReplicaKeys, name, some
  <2> QED BY <2>1, <2>2, <2>3 DEF name
<1>5. ids[k] # {} /\ ids[k] \subseteq IDsOf(dm, rules[k].name)
  BY DEF ChosenFor
<1>6. ASSUME NEW l \in 1 .. n, NEW d \in ids[l] PROVE \E v : d = DeviceID(v)
  <2>1. d \in IDsOf(dm, rules[l].name)
    BY DEF ChosenFor
  <2> QED BY <2>1, IDsAre
<1>7. ASSUME NEW l \in 1 .. n, NEW m \in 0 .. rules[l].replicas - 1 PROVE m \in Nat
  BY <1>1
<1> HIDE DEF M, replicas
<1>8. ASSUME id \in ids[k] PROVE e \notin M /\ replicas \subseteq M /\ replicas \cap M # {}
  <2>1. ASSUME NEW l \in 1 .. n, IsReplica(rules[l], ids[l], e) PROVE FALSE
    <3>1. PICK d \in ids[l], m \in 0 .. rules[l].replicas - 1 : e = <<Renamed(rules[l]), NewAnnotatedID(d, m)>>
      BY <2>1 DEF IsReplica
    <3>2. id = NewAnnotatedID(d, m)
      BY <3>1
    <3>3. PICK v : d = DeviceID(v)
      BY <1>6
    <3> QED BY <1>3, <1>7, <3>2, <3>3, AnnotatedIs
  <2>2. ASSUME NEW l \in 1 .. n, IsPlain(dm, rules[l], ids[l], e) PROVE FALSE
    <3>1. PICK d \in IDsOf(dm, rules[l].name) \ ids[l] : e = <<rules[l].name, d>>
      BY <2>2 DEF IsPlain
    <3>2. rules[l].name = rules[k].name /\ d = id
      BY <3>1
    <3>3. l = k
      BY <1>1, <3>2 DEF OneRule
    <3> QED BY <1>8, <3>1, <3>2, <3>3
  <2>3. e \notin M
    BY <1>2, <2>1, <2>2
  <2>4. ASSUME NEW y \in replicas PROVE y \in M
    <3>1. IsReplica(rules[k], ids[k], y)
      BY <1>4, <1>8 DEF IsReplica
    <3> QED BY <1>2, <1>5, <3>1
  <2>5. \E y : y \in replicas
    <3>1. 0 \in 0 .. rules[k].replicas - 1
      BY <1>1
    <3> QED BY <1>4, <3>1
  <2> QED BY <2>3, <2>4, <2>5
<1>9. ASSUME id \notin ids[k] PROVE e \in M /\ replicas \cap M = {}
  <2>1. e \in M
    <3>1. IsPlain(dm, rules[k], ids[k], e)
      BY <1>9 DEF IsPlain
    <3> QED BY <1>2, <1>5, <3>1
  <2>2. ASSUME NEW y \in replicas, y \in M PROVE FALSE
    <3>1. PICK m \in 0 .. rules[k].replicas - 1 : y = <<Renamed(rules[k]), NewAnnotatedID(id, m)>>
      BY <1>4, <2>2
    <3>2. m \in Nat
      BY <1>7
    <3>3. \A v : NewAnnotatedID(id, m) # DeviceID(v)
      BY <1>3, <3>2, AnnotatedIs
    <3>4. y \notin DOMAIN dm
      <4>1. ASSUME y \in DOMAIN dm PROVE FALSE
        <5>1. PICK r, v : y = <<r, DeviceID(v)>>
          BY <4>1 DEF KeysAre
        <5> QED BY <3>1, <3>3, <5>1
      <4> QED BY <4>1
    <3>5. PICK l \in 1 .. n : Added(l, y)
      BY <1>2, <2>2, <3>4
    <3>6. ~IsPlain(dm, rules[l], ids[l], y)
      <4>1. ASSUME IsPlain(dm, rules[l], ids[l], y) PROVE FALSE
        <5>1. PICK d \in IDsOf(dm, rules[l].name) \ ids[l] : y = <<rules[l].name, d>>
          BY <4>1 DEF IsPlain
        <5> QED BY <3>4, <5>1, IDsAre
      <4> QED BY <4>1
    <3>7. PICK d \in ids[l], j \in 0 .. rules[l].replicas - 1 : y = <<Renamed(rules[l]), NewAnnotatedID(d, j)>>
      BY <3>5, <3>6 DEF IsReplica
    <3>8. Renamed(rules[l]) = Renamed(rules[k]) /\ NewAnnotatedID(d, j) = NewAnnotatedID(id, m)
      BY <3>1, <3>7
    <3>9. d = id
      <4>1. PICK v : d = DeviceID(v)
        BY <1>6
      <4>2. j \in Nat
        BY <1>7
      <4>3. v = u
        BY <1>3, <3>2, <3>8, <4>1, <4>2, AnnotatedIs
      <4> QED BY <1>3, <4>1, <4>3
    <3>10. CASE OneName(rules)
      <4>1. l = k
        BY <1>1, <3>8, <3>10 DEF OneName, OneRule
      <4> QED BY <1>9, <3>7, <3>9, <4>1
    <3>11. CASE AllOf(rules)
      <4>1. ids[k] = IDsOf(dm, rules[k].name)
        BY <1>1, <3>11 DEF AllOf, ChosenFor
      <4> QED BY <1>9, <4>1
    <3> QED BY <3>10, <3>11
  <2> QED BY <2>1, <2>2
<1> QED BY <1>8, <1>9 DEF M, replicas

\* What ReplicasStandForDevices says of the keys of a map with replicas.
Stand(rules, dm, map) ==
  /\ \A e \in DOMAIN dm : Cardinality({f \in OffersOf(rules, e) : f \cap DOMAIN map # {}}) = 1
  /\ DOMAIN map \subseteq UNION {UNION OffersOf(rules, e) : e \in DOMAIN dm}
  /\ \A e \in DOMAIN dm : \E f \in OffersOf(rules, e) : f \subseteq DOMAIN map

\* A device is offered itself or as its replicas, and nothing else is offered.
LEMMA ReplicasStand ==
  ASSUME NEW dm, KeysAre(dm), NEW n, NEW rules, AreRules(rules, n), NEW ids,
         \A k \in 1 .. n : ChosenFor(dm, rules[k], ids[k]),
         OneRule(rules), OneName(rules) \/ AllOf(rules)
  PROVE  Stand(rules, dm, updateDeviceMapWithReplicas(rules, dm, ids))
<1> DEFINE map == updateDeviceMapWithReplicas(rules, dm, ids)
           M == DOMAIN map
<1>1. n \in Nat /\ DOMAIN rules = 1 .. n
  BY DEF AreRules
<1>2. ASSUME NEW x
      PROVE  x \in M <=> \/ x \in DOMAIN dm /\ \A k \in 1 .. n : rules[k].name # x[1]
                         \/ \E k \in 1 .. n : ids[k] # {} /\ (IsReplica(rules[k], ids[k], x) \/ IsPlain(dm, rules[k], ids[k], x))
  BY <1>1, AddsAre
<1>3. ASSUME NEW e, NEW f
      PROVE  f \in OffersOf(rules, e) <=> f = {e} \/ \E k \in 1 .. n : rules[k].name = e[1] /\ f = ReplicaKeys(rules[k], e[2])
  BY <1>1 DEF OffersOf
<1>4. ASSUME NEW e \in DOMAIN dm
      PROVE  \E f \in OffersOf(rules, e) : f \subseteq M /\ {g \in OffersOf(rules, e) : g \cap M # {}} = {f}
  <2>1. CASE \A k \in 1 .. n : rules[k].name # e[1]
    <3>1. e \in M
      BY <1>2, <2>1
    <3> HIDE DEF M
    <3>2. \A f : f \in OffersOf(rules, e) <=> f = {e}
      BY <1>3, <2>1
    <3>3. {e} \in OffersOf(rules, e) /\ {e} \subseteq M /\ {g \in OffersOf(rules, e) : g \cap M # {}} = {{e}}
      BY <3>1, <3>2
    <3> QED BY <3>3
  <2>2. CASE \E k \in 1 .. n : rules[k].name = e[1]
    <3>1. PICK k \in 1 .. n : rules[k].name = e[1]
      BY <2>2
    <3> DEFINE id == e[2]
               R == ReplicaKeys(rules[k], id)
    <3>2. e = <<rules[k].name, id>>
      BY <3>1 DEF KeysAre
    <3>3. id \in IDsOf(dm, rules[k].name)
      BY <3>2, IDsAre
    <3>4. /\ id \in ids[k] => e \notin M /\ R \subseteq M /\ R \cap M # {}
          /\ id \notin ids[k] => e \in M /\ R \cap M = {}
      BY <3>2, <3>3, ReplicasAre
    <3>5. \A l \in 1 .. n : rules[l].name = e[1] => l = k
      BY <1>1, <3>1 DEF OneRule
    <3>6. \A f : f \in OffersOf(rules, e) <=> f = {e} \/ f = R
      BY <1>3, <3>1, <3>5
    <3> HIDE DEF R, M
    <3>7. CASE id \in ids[k]
      <4>1. {e} \cap M = {} /\ R \cap M # {}
        BY <3>4, <3>7
      <4>2. {g \in OffersOf(rules, e) : g \cap M # {}} = {R}
        BY <3>6, <4>1
      <4> QED BY <3>4, <3>6, <3>7, <4>2
    <3>8. CASE id \notin ids[k]
      <4>1. {e} \cap M # {} /\ R \cap M = {} /\ {e} \subseteq M
        BY <3>4, <3>8
      <4>2. {g \in OffersOf(rules, e) : g \cap M # {}} = {{e}}
        BY <3>6, <4>1
      <4> QED BY <3>6, <4>1, <4>2
    <3> QED BY <3>7, <3>8
  <2> QED BY <2>1, <2>2
<1>5. ASSUME NEW x \in M PROVE \E e \in DOMAIN dm : \E f \in OffersOf(rules, e) : x \in f
  <2>1. CASE x \in DOMAIN dm
    <3>1. {x} \in OffersOf(rules, x) /\ x \in {x}
      BY <1>3
    <3> QED BY <2>1, <3>1
  <2>2. CASE x \notin DOMAIN dm
    <3>1. PICK k \in 1 .. n : IsReplica(rules[k], ids[k], x) \/ IsPlain(dm, rules[k], ids[k], x)
      BY <1>2, <2>2
    <3>2. ~IsPlain(dm, rules[k], ids[k], x)
      BY <2>2, IDsAre DEF IsPlain
    <3>3. PICK id \in ids[k], m \in 0 .. rules[k].replicas - 1 : x = <<Renamed(rules[k]), NewAnnotatedID(id, m)>>
      BY <3>1, <3>2 DEF IsReplica
    <3> DEFINE e == <<rules[k].name, id>>
    <3>4. e \in DOMAIN dm
      BY IDsAre DEF ChosenFor
    <3>5. x \in ReplicaKeys(rules[k], id)
      BY <3>3 DEF ReplicaKeys
    <3>6. e[1] = rules[k].name /\ e[2] = id
      OBVIOUS
    <3> HIDE DEF e
    <3>7. ReplicaKeys(rules[k], id) \in OffersOf(rules, e)
      BY <1>3, <3>6
    <3> QED BY <3>4, <3>5, <3>7
  <2> QED BY <2>1, <2>2
<1> HIDE DEF M
<1>6. ASSUME NEW x \in M PROVE x \in UNION {UNION OffersOf(rules, e) : e \in DOMAIN dm}
  <2>1. PICK e \in DOMAIN dm : \E f \in OffersOf(rules, e) : x \in f
    BY <1>5
  <2>2. x \in UNION OffersOf(rules, e)
    BY <2>1
  <2> QED BY Zenon, <2>2
<1>7. ASSUME NEW e \in DOMAIN dm
      PROVE  Cardinality({f \in OffersOf(rules, e) : f \cap M # {}}) = 1 /\ \E f \in OffersOf(rules, e) : f \subseteq M
  BY <1>4, FS_Singleton
<1> QED BY Zenon, <1>6, <1>7 DEF Stand, M
\* A list of the document, whose numbers of replicas, where they are given, are numbers.
IsList(docs) == /\ \E n \in Nat : docs = [k \in 1 .. n |-> docs[k]]
                /\ \A k \in DOMAIN docs : Given(docs[k], "replicas") => docs[k].replicas \in Int
DocInput(doc) ==
  \A field \in {"timeSlicing", "mps"} :
    Given(doc, field) /\ Given(doc[field], "resources") => IsList(doc[field].resources)

\* A section is a record, and so are its rules.
IsRule(r) == r = [name |-> r.name, rename |-> r.rename, devices |-> r.devices, replicas |-> r.replicas]
IsSection(p, n) ==
  /\ p = [renameByDefault |-> p.renameByDefault, failRequestsGreaterThanOne |-> p.failRequestsGreaterThanOne,
          resources |-> p.resources]
  /\ AreRules(p.resources, n)
  /\ \A k \in 1 .. n : IsRule(p.resources[k])

\* A rule that parses has at least two replicas.
LEMMA RuleParses ==
  ASSUME NEW doc, Given(doc, "replicas") => doc.replicas \in Int, ParsedResource(doc) # {}
  PROVE  LET r == ValueOf(ParsedResource(doc))
         IN IsRule(r) /\ r.replicas \in Int /\ r.replicas >= 2
<1> DEFINE devices == ParsedDevices(OrElse(doc, "devices", [word |-> "all"]))
           rename == OrElse(doc, "rename", NoName)
           r == ValueOf(ParsedResource(doc))
<1> HIDE DEF devices, rename
<1>1. /\ Given(doc, "name") /\ ~(OrElse(doc, "replicas", 0) < 2)
      /\ ParsedResource(doc) = {[name |-> doc.name, rename |-> rename, devices |-> d, replicas |-> doc.replicas] : d \in devices}
  BY DEF ParsedResource, devices, rename
<1>2. Given(doc, "replicas") /\ doc.replicas \in Int /\ doc.replicas >= 2
  BY <1>1 DEF OrElse
<1>3. r \in ParsedResource(doc)
  BY DEF ValueOf
<1>4. PICK d \in devices : r = [name |-> doc.name, rename |-> rename, devices |-> d, replicas |-> doc.replicas]
  BY <1>1, <1>3
<1> HIDE DEF r
<1>5. IsRule(r) /\ r.replicas = doc.replicas
  BY <1>4 DEF IsRule
<1> QED BY <1>2, <1>5 DEF r

\* A section that parses has at least one rule.
LEMMA SectionParses ==
  ASSUME NEW doc, Given(doc, "resources") => IsList(doc.resources), NEW p \in ParsedResources(doc)
  PROVE  \E n \in Nat : n > 0 /\ IsSection(p, n)
<1> DEFINE docs == OrElse(doc, "resources", <<>>)
           byDefault == OrElse(doc, "renameByDefault", FALSE)
           fails == OrElse(doc, "failRequestsGreaterThanOne", FALSE)
           Rename(r) == IF byDefault /\ r.rename = NoName
                          THEN [r EXCEPT !.rename = DefaultSharedRename(r.name)] ELSE r
           R(k) == ValueOf(ParsedResource(docs[k]))
<1>1. IsList(docs)
  <2>1. CASE Given(doc, "resources")
    BY <2>1 DEF OrElse
  <2>2. CASE ~Given(doc, "resources")
    <3>1. docs = <<>>
      BY <2>2 DEF OrElse
    <3>2. <<>> = [k \in 1 .. 0 |-> <<>>[k]] /\ DOMAIN <<>> = {}
      OBVIOUS
    <3> HIDE DEF docs
    <3> QED BY <3>1, <3>2 DEF IsList
  <2> QED BY <2>1, <2>2
<1> HIDE DEF docs, byDefault, fails
<1>2. /\ docs # <<>> /\ \A k \in DOMAIN docs : ParsedResource(docs[k]) # {}
      /\ p = [renameByDefault |-> byDefault, failRequestsGreaterThanOne |-> fails,
              resources |-> [k \in DOMAIN docs |-> Rename(R(k))]]
  BY DEF ParsedResources, docs, byDefault, fails
<1>3. PICK n \in Nat : docs = [k \in 1 .. n |-> docs[k]]
  BY <1>1 DEF IsList
<1>4. DOMAIN docs = 1 .. n /\ n > 0
  <2>1. DOMAIN docs = 1 .. n
    BY <1>3
  <2>2. ASSUME n = 0 PROVE FALSE
    <3>1. 1 .. n = {}
      BY <2>2
    <3>2. docs = [k \in {} |-> docs[k]]
      BY <1>3, <3>1
    <3>3. docs = <<>>
      BY <3>2
    <3> QED BY <1>2, <3>3
  <2> QED BY <2>1, <2>2
<1>5. ASSUME NEW k \in 1 .. n PROVE IsRule(Rename(R(k))) /\ Rename(R(k)).replicas \in Int /\ Rename(R(k)).replicas >= 2
  <2>1. IsRule(R(k)) /\ R(k).replicas \in Int /\ R(k).replicas >= 2
    BY <1>1, <1>2, <1>4, RuleParses DEF IsList
  <2> HIDE DEF R
  <2> QED BY <2>1 DEF IsRule
<1> HIDE DEF Rename, R
<1>6. p.resources = [k \in 1 .. n |-> Rename(R(k))]
  BY <1>2, <1>4
<1>7. p = [renameByDefault |-> p.renameByDefault, failRequestsGreaterThanOne |-> p.failRequestsGreaterThanOne,
           resources |-> p.resources]
  BY <1>2
<1> QED BY <1>4, <1>5, <1>6, <1>7 DEF IsSection, AreRules

\* Without names of one's own and choices all devices are replicated.
LEMMA DisabledIs ==
  ASSUME NEW n, NEW p, IsSection(p, n)
  PROVE  IsSection(disableResoureRenaming(p), n) /\ AllOf(disableResoureRenaming(p).resources)
<1> DEFINE q == disableResoureRenaming(p)
           Name(k) == IF p.renameByDefault THEN DefaultSharedRename(p.resources[k].name) ELSE NoName
           every == [all |-> TRUE, count |-> 0, list |-> <<>>]
           R(k) == [p.resources[k] EXCEPT !.rename = Name(k), !.devices = every]
<1>1. q = [p EXCEPT !.resources = [k \in DOMAIN p.resources |-> R(k)]]
  BY DEF disableResoureRenaming
<1>2. DOMAIN p.resources = 1 .. n
  BY DEF IsSection, AreRules
<1>3. every.all
  OBVIOUS
<1> HIDE DEF q, Name, every
<1>4. ASSUME NEW k \in 1 .. n PROVE IsRule(R(k)) /\ R(k).replicas \in Int /\ R(k).replicas >= 2 /\ R(k).devices.all
  <2>1. IsRule(p.resources[k]) /\ p.resources[k].replicas \in Int /\ p.resources[k].replicas >= 2
    BY DEF IsSection, AreRules
  <2>2. R(k) = [name |-> p.resources[k].name, rename |-> Name(k), devices |-> every, replicas |-> p.resources[k].replicas]
    <3> DEFINE v == p.resources[k]
    <3>1. v = [name |-> v.name, rename |-> v.rename, devices |-> v.devices, replicas |-> v.replicas]
      BY Zenon, <2>1 DEF IsRule
    <3> HIDE DEF v
    <3> DEFINE u == [v EXCEPT !.rename = Name(k)]
    <3>2. u = [name |-> v.name, rename |-> Name(k), devices |-> v.devices, replicas |-> v.replicas]
      BY <3>1
    <3>3. [u EXCEPT !.devices = every]
            = [name |-> v.name, rename |-> Name(k), devices |-> every, replicas |-> v.replicas]
      <4> HIDE DEF u
      <4> QED BY <3>2
    <3> QED BY Zenon, <3>3 DEF v, u
  <2> HIDE DEF R
  <2>3. IsRule(R(k)) /\ R(k).replicas = p.resources[k].replicas /\ R(k).devices = every
    BY <2>2 DEF IsRule
  <2> QED BY <1>3, <2>1, <2>3
<1> HIDE DEF R
<1>5. q = [renameByDefault |-> p.renameByDefault, failRequestsGreaterThanOne |-> p.failRequestsGreaterThanOne,
           resources |-> [k \in 1 .. n |-> R(k)]]
  BY <1>1, <1>2 DEF IsSection
<1>6. q.resources = [k \in 1 .. n |-> R(k)]
  BY <1>5
<1>7. q = [renameByDefault |-> q.renameByDefault, failRequestsGreaterThanOne |-> q.failRequestsGreaterThanOne,
           resources |-> q.resources]
  BY <1>5
<1> QED BY <1>4, <1>6, <1>7 DEF IsSection, AreRules, AllOf, q

\* The configuration the plugin shares by, and its rules.
SharingOf(t) ==
  IF t.disable THEN DisableResourceNamingInConfig(ValueOf(NewConfig(t.doc))) ELSE ValueOf(NewConfig(t.doc))
RulesOf(t) == ReplicatedResources(SharingOf(t)).resources

\* A sharing section: two sections, and that of MPS, if it was given, has a rule.
IsSharing(s, n, m) ==
  /\ s = [timeSlicing |-> s.timeSlicing, hasMPS |-> s.hasMPS, mps |-> s.mps]
  /\ IsSection(s.timeSlicing, n) /\ IsSection(s.mps, m) /\ (s.hasMPS => m > 0)

\* A document that parses gives a sharing section (NewConfig).
LEMMA ConfigParses ==
  ASSUME NEW doc, DocInput(doc), NEW s \in NewConfig(doc)
  PROVE  \E n, m \in Nat : IsSharing(s, n, m)
<1>1. IsSection(NoResources, 0)
  <2>1. DOMAIN <<>> = 1 .. 0 /\ 1 .. 0 = {}
    OBVIOUS
  <2> QED BY <2>1 DEF NoResources, IsSection, AreRules
<1>2. ASSUME NEW field \in {"timeSlicing", "mps"}, NEW p \in Section(doc, field)
      PROVE  \E n \in Nat : IsSection(p, n) /\ (Given(doc, field) => n > 0)
  <2>1. CASE Given(doc, field)
    <3>1. p \in ParsedResources(doc[field])
      BY <1>2, <2>1 DEF Section
    <3>2. Given(doc[field], "resources") => IsList(doc[field].resources)
      BY <2>1 DEF DocInput
    <3> QED BY <3>1, <3>2, SectionParses
  <2>2. CASE ~Given(doc, field)
    BY <1>1, <2>2 DEF Section
  <2> QED BY <2>1, <2>2
<1>3. PICK t \in Section(doc, "timeSlicing"), p \in Section(doc, "mps") :
        s = [timeSlicing |-> t, hasMPS |-> Given(doc, "mps"),
             mps |-> [p EXCEPT !.failRequestsGreaterThanOne = Given(doc, "mps")]]
  BY DEF NewConfig
<1>4. PICK n \in Nat : IsSection(t, n)
  BY <1>2
<1>5. PICK m \in Nat : IsSection(p, m) /\ (Given(doc, "mps") => m > 0)
  BY <1>2
<1> DEFINE given == Given(doc, "mps")
           q == [p EXCEPT !.failRequestsGreaterThanOne = given]
<1> HIDE DEF given
<1>6. IsSection(q, m)
  <2>1. q = [renameByDefault |-> p.renameByDefault, failRequestsGreaterThanOne |-> given, resources |-> p.resources]
    BY <1>5 DEF IsSection
  <2> HIDE DEF q
  <2>2. q.resources = p.resources
    BY <2>1
  <2>3. q = [renameByDefault |-> q.renameByDefault, failRequestsGreaterThanOne |-> q.failRequestsGreaterThanOne,
             resources |-> q.resources]
    BY <2>1
  <2> QED BY <1>5, <2>2, <2>3 DEF IsSection
<1> HIDE DEF q
<1>7. s = [timeSlicing |-> t, hasMPS |-> given, mps |-> q]
  BY Zenon, <1>3 DEF given, q
<1>8. s.timeSlicing = t /\ s.mps = q /\ (s.hasMPS <=> given)
  BY Zenon, <1>7
<1>9. s = [timeSlicing |-> s.timeSlicing, hasMPS |-> s.hasMPS, mps |-> s.mps]
  BY <1>7
<1> QED BY <1>4, <1>5, <1>6, <1>8, <1>9 DEF IsSharing, given

\* Whatever the document: the rules are rules, all devices are replicated if choices are
\* disabled, and the strategy is MPS if MPS was given.
LEMMA SharingIs ==
  ASSUME NEW t, DocInput(t.doc), NewConfig(t.doc) # {}
  PROVE  /\ \E n \in Nat : AreRules(RulesOf(t), n)
         /\ t.disable => AllOf(RulesOf(t))
         /\ SharingOf(t).hasMPS => SharingStrategy(SharingOf(t)) = "mps"
<1> DEFINE given == ValueOf(NewConfig(t.doc))
           s == SharingOf(t)
<1>1. given \in NewConfig(t.doc)
  BY DEF ValueOf
<1> HIDE DEF given
<1>2. PICK n \in Nat, m \in Nat : IsSharing(given, n, m)
  BY <1>1, ConfigParses
<1>3. IsSharing(s, n, m) /\ (t.disable => AllOf(s.timeSlicing.resources) /\ AllOf(s.mps.resources))
  <2>1. CASE ~t.disable
    BY <1>2, <2>1 DEF SharingOf, given
  <2>2. CASE t.disable
    <3> DEFINE a == disableResoureRenaming(given.timeSlicing)
               b == disableResoureRenaming(given.mps)
    <3>1. s = DisableResourceNamingInConfig(given)
      BY <2>2 DEF SharingOf, given
    <3>2. s = [given EXCEPT !.timeSlicing = a, !.mps = b]
      BY <3>1 DEF DisableResourceNamingInConfig
    <3>3. IsSection(a, n) /\ AllOf(a.resources) /\ IsSection(b, m) /\ AllOf(b.resources)
      BY <1>2, DisabledIs DEF IsSharing
    <3> HIDE DEF a, b, s
    <3>4. s = [timeSlicing |-> a, hasMPS |-> given.hasMPS, mps |-> b]
      BY <1>2, <3>2 DEF IsSharing
    <3>5. s.timeSlicing = a /\ s.mps = b /\ s.hasMPS = given.hasMPS
      BY <3>4
    <3>6. s = [timeSlicing |-> s.timeSlicing, hasMPS |-> s.hasMPS, mps |-> s.mps]
      BY <3>4
    <3> QED BY <1>2, <3>3, <3>5, <3>6 DEF IsSharing
  <2> QED BY <2>1, <2>2
<1> HIDE DEF s
<1>4. /\ \E j \in Nat : AreRules(RulesOf(t), j)
      /\ t.disable => AllOf(RulesOf(t))
  <2>1. AreRules(s.timeSlicing.resources, n) /\ AreRules(s.mps.resources, m)
    BY <1>3 DEF IsSharing, IsSection
  <2>2. RulesOf(t) = IF s.hasMPS THEN s.mps.resources ELSE s.timeSlicing.resources
    BY DEF RulesOf, ReplicatedResources, s
  <2> QED BY <1>3, <2>1, <2>2
<1>5. ASSUME s.hasMPS PROVE SharingStrategy(s) = "mps"
  <2>1. m > 0 /\ AreRules(s.mps.resources, m)
    BY <1>3, <1>5 DEF IsSharing, IsSection
  <2>2. 1 \in 1 .. m
    BY <2>1
  <2>3. isReplicated(s.mps)
    BY <2>1, <2>2 DEF isReplicated, AreRules
  <2> QED BY <1>5, <2>3 DEF SharingStrategy
<1> QED BY <1>4, <1>5 DEF s
\* What a finite set is mapped to is finite, ...
LEMMA FiniteImage ==
  ASSUME NEW S, IsFiniteSet(S), NEW f
  PROVE  IsFiniteSet({f[x] : x \in S})
<1> DEFINE T == {f[x] : x \in S}
           g == [x \in S |-> f[x]]
<1>1. g \in Surjection(S, T)
  BY DEF Surjection
<1> HIDE DEF T, g
<1>2. IsFiniteSet(T)
  BY <1>1, FS_Surjection
<1> QED BY <1>2 DEF T

\* ... and so is a range of numbers.
LEMMA FiniteInterval ==
  ASSUME NEW m \in Int, NEW n \in Int
  PROVE  IsFiniteSet(m .. n)
BY FS_Interval

\* The devices of a node are finitely many.
LEMMA BaseKeys ==
  ASSUME NEW node, IsFiniteSet(DOMAIN node), NEW cfg, NEW models,
         cfg.gpus = DefaultGPUs(<<"number", "memory">>, models), buildDeviceMapFromConfigResources(node, cfg).ok
  PROVE  LET dm == buildDeviceMapFromConfigResources(node, cfg).map IN KeysAre(dm) /\ IsFiniteSet(DOMAIN dm)
<1> DEFINE dm == buildDeviceMapFromConfigResources(node, cfg).map
           GPUKey(t) == <<t[1], DeviceID(node[t[2]].uuid)>>
           InstanceKey(ij) == <<MigResource(node, cfg, ij), DeviceID(Instance(node, ij).uuid)>>
           G == {GPUKey(t) : t \in Resources \X DOMAIN node}
           I == {InstanceKey(ij) : ij \in MigDevices(node)}
<1>1. Describes(node, cfg, dm)
  BY DeviceMapDescribes
<1> HIDE DEF dm
<1>2. ASSUME NEW k \in DOMAIN dm PROVE k \in G \cup I /\ \E r, u : k = <<r, DeviceID(u)>>
  <2>1. CASE IsGPU(node, cfg, dm, k)
    <3>1. PICK i \in GPUsToMap(node, cfg) : k[1] \in Resources /\ k = <<k[1], DeviceID(node[i].uuid)>>
      BY <2>1 DEF IsGPU
    <3>2. i \in DOMAIN node
      BY DEF GPUsToMap
    <3>3. <<k[1], i>> \in Resources \X DOMAIN node /\ GPUKey(<<k[1], i>>) = k
      BY <3>1, <3>2
    <3>4. k \in G
      BY <3>3
    <3> QED BY <3>1, <3>4
  <2>2. CASE IsInstance(node, cfg, dm, k)
    <3>1. PICK ij \in MigDevices(node) : k = InstanceKey(ij)
      BY <2>2 DEF IsInstance
    <3>2. k \in I
      BY <3>1
    <3> QED BY <3>1, <3>2
  <2> QED BY <1>1, <2>1, <2>2 DEF Describes
<1> HIDE DEF GPUKey, InstanceKey
<1>3. IsFiniteSet(G)
  <2>1. IsFiniteSet(Resources)
    <3>1. IsFiniteSet({"number"}) /\ IsFiniteSet({"memory"})
      BY FS_Singleton
    <3>2. Resources = {"number"} \cup {"memory"}
      BY DEF Resources
    <3> QED BY <3>1, <3>2, FS_Union
  <2>2. IsFiniteSet(Resources \X DOMAIN node)
    BY <2>1, FS_Product
  <2> DEFINE f == [t \in Resources \X DOMAIN node |-> GPUKey(t)]
  <2>3. G = {f[t] : t \in Resources \X DOMAIN node}
    OBVIOUS
  <2> HIDE DEF f, G
  <2> QED BY <2>2, <2>3, FiniteImage
<1>4. IsFiniteSet(I)
  <2>1. IsFiniteSet(1 .. 7)
    <3>1. 1 \in Int /\ 7 \in Int
      OBVIOUS
    <3> QED BY <3>1, FiniteInterval
  <2>2. IsFiniteSet((DOMAIN node) \X (1 .. 7))
    BY <2>1, FS_Product
  <2>3. MigDevices(node) \subseteq (DOMAIN node) \X (1 .. 7)
    BY DEF MigDevices
  <2>4. IsFiniteSet(MigDevices(node))
    BY <2>2, <2>3, FS_Subset
  <2> DEFINE f == [ij \in MigDevices(node) |-> InstanceKey(ij)]
  <2>5. I = {f[ij] : ij \in MigDevices(node)}
    OBVIOUS
  <2> HIDE DEF f, I
  <2> QED BY <2>4, <2>5, FiniteImage
<1> HIDE DEF G, I
<1>5. IsFiniteSet(DOMAIN dm)
  <2>1. IsFiniteSet(G \cup I)
    BY <1>3, <1>4, FS_Union
  <2>2. DOMAIN dm \subseteq G \cup I
    BY <1>2
  <2> QED BY <2>1, <2>2, FS_Subset
<1> QED BY <1>2, <1>5 DEF KeysAre, dm

\* So are their replicas.
LEMMA FinitelyManyReplicas ==
  ASSUME NEW dm, KeysAre(dm), IsFiniteSet(DOMAIN dm), NEW n, NEW rules, AreRules(rules, n), NEW ids,
         \A k \in 1 .. n : ChosenFor(dm, rules[k], ids[k])
  PROVE  IsFiniteSet(DOMAIN updateDeviceMapWithReplicas(rules, dm, ids))
<1> DEFINE M == DOMAIN updateDeviceMapWithReplicas(rules, dm, ids)
           Key(k, t) == <<Renamed(rules[k]), NewAnnotatedID(t[1][2], t[2])>>
           Keys(k) == {Key(k, t) : t \in (DOMAIN dm) \X (0 .. rules[k].replicas - 1)}
           Every == {Keys(k) : k \in 1 .. n}
<1>1. n \in Nat /\ DOMAIN rules = 1 .. n /\ \A k \in 1 .. n : rules[k].replicas \in Int
  BY DEF AreRules
<1>2. ASSUME NEW k \in 1 .. n PROVE IsFiniteSet(Keys(k))
  <2>1. IsFiniteSet(0 .. rules[k].replicas - 1)
    <3>1. 0 \in Int /\ rules[k].replicas - 1 \in Int
      BY <1>1
    <3> QED BY <3>1, FiniteInterval
  <2>2. IsFiniteSet((DOMAIN dm) \X (0 .. rules[k].replicas - 1))
    BY <2>1, FS_Product
  <2> DEFINE D == (DOMAIN dm) \X (0 .. rules[k].replicas - 1)
             f == [t \in D |-> Key(k, t)]
  <2> HIDE DEF Key
  <2>3. Keys(k) = {f[t] : t \in D}
    OBVIOUS
  <2> HIDE DEF f, Keys
  <2>4. IsFiniteSet({f[t] : t \in D})
    <3>1. IsFiniteSet(D)
      BY <2>2
    <3> HIDE DEF D
    <3> QED BY <3>1, FiniteImage
  <2> QED BY <2>3, <2>4
<1>3. ASSUME NEW x \in M PROVE x \in DOMAIN dm \/ \E k \in 1 .. n : x \in Keys(k)
  <2>1. \/ x \in DOMAIN dm
        \/ \E k \in 1 .. n : IsReplica(rules[k], ids[k], x) \/ IsPlain(dm, rules[k], ids[k], x)
    BY <1>1, AddsAre
  <2>2. ASSUME NEW k \in 1 .. n, IsPlain(dm, rules[k], ids[k], x) PROVE x \in DOMAIN dm
    BY <2>2, IDsAre DEF IsPlain
  <2>3. ASSUME NEW k \in 1 .. n, IsReplica(rules[k], ids[k], x) PROVE x \in Keys(k)
    <3>1. PICK id \in ids[k], m \in 0 .. rules[k].replicas - 1 : x = <<Renamed(rules[k]), NewAnnotatedID(id, m)>>
      BY <2>3 DEF IsReplica
    <3> DEFINE t == <<<<rules[k].name, id>>, m>>
    <3>2. <<rules[k].name, id>> \in DOMAIN dm
      BY IDsAre DEF ChosenFor
    <3>3. t \in (DOMAIN dm) \X (0 .. rules[k].replicas - 1) /\ x = Key(k, t)
      BY <3>1, <3>2
    <3> HIDE DEF t, Key
    <3> QED BY <3>3
  <2> QED BY <2>1, <2>2, <2>3
<1> HIDE DEF M, Keys
<1>4. IsFiniteSet(UNION Every)
  <2>1. IsFiniteSet(1 .. n)
    <3>1. 1 \in Int /\ n \in Int
      BY <1>1
    <3> QED BY <3>1, FiniteInterval
  <2> DEFINE f == [k \in 1 .. n |-> Keys(k)]
  <2>2. IsFiniteSet(Every)
    <3>1. Every = {f[k] : k \in 1 .. n}
      OBVIOUS
    <3> HIDE DEF f, Every
    <3> QED BY <2>1, <3>1, FiniteImage
  <2>3. \A s \in Every : IsFiniteSet(s)
    BY <1>2
  <2> HIDE DEF Every
  <2> QED BY <2>2, <2>3, FS_UNION
<1>5. M \subseteq (DOMAIN dm) \cup (UNION Every)
  BY <1>3
<1> HIDE DEF Every
<1>6. IsFiniteSet((DOMAIN dm) \cup (UNION Every))
  BY <1>4, FS_Union
<1>7. IsFiniteSet(M)
  BY <1>5, <1>6, FS_Subset
<1> QED BY <1>7 DEF M

-----------------------------------------------------------------------------
\* The plugin shares the devices of any node as any document says, if they could be found.
\* A name that two resources share is only meant where all devices are replicated, as the
\* plugin has it.
TheBase(t) == buildDeviceMapFromConfigResources(t.node, Config(t.strategy, NoFilter, Models))
ShareInput(t) ==
  /\ IsFiniteSet(DOMAIN t.node) /\ TheBase(t).ok
  /\ DocInput(t.doc)
  /\ NewConfig(t.doc) # {} => t.disable \/ OneName(RulesOf(t))
ShareInit == result = <<>> /\ task.of = "share" /\ ShareInput(task)
ShareSpec == ShareInit /\ [][Next]_vars

\* What Share may give.
OutcomeOf(t, o) ==
  LET choices == RuleChoices(RulesOf(t), TheBase(t).map) IN
  IF NewConfig(t.doc) = {} THEN o.stage = "refused"
  ELSE IF choices = {} THEN o.stage = "failed"
  ELSE \E ids \in choices :
         /\ o.stage = "built" /\ o.sharing = SharingOf(t)
         /\ o.map = updateDeviceMapWithReplicas(RulesOf(t), TheBase(t).map, ids)

\* What SharingIsCoherent says of it.
Coherent(t, o) ==
  /\ t.disable => o.stage # "failed"
  /\ o.stage = "built" =>
       /\ OneRule(ReplicatedResources(o.sharing).resources) =>
            Stand(ReplicatedResources(o.sharing).resources, TheBase(t).map, o.map)
       /\ o.sharing.hasMPS => SharingStrategy(o.sharing) = "mps"
       /\ IsFiniteSet(DOMAIN o.map)

\* If all devices are to be replicated there is a choice of them.
LEMMA ThereIsAChoice ==
  ASSUME NEW dm, NEW rules, AllOf(rules)
  PROVE  RuleChoices(rules, dm) # {}
<1> DEFINE ManagedIDs == UNION {IDsOf(dm, r) : r \in ResourceManagers(dm)}
           ids == [k \in DOMAIN rules |-> IDsOf(dm, rules[k].name)]
<1>1. ASSUME NEW res, NEW id \in IDsOf(dm, res) PROVE id \in ManagedIDs
  <2>1. PICK k \in DOMAIN dm : k[1] = res /\ k[2] = id
    BY DEF IDsOf
  <2>2. res \in ResourceManagers(dm)
    BY <2>1 DEF ResourceManagers
  <2> QED BY <2>2
<1> HIDE DEF ManagedIDs
<1>2. ids \in [DOMAIN rules -> SUBSET ManagedIDs]
  BY <1>1
<1>3. ASSUME NEW k \in DOMAIN rules PROVE ids[k] \in getIDsOfDevicesToReplicate(dm, rules[k])
  BY DEF AllOf, getIDsOfDevicesToReplicate
<1> HIDE DEF ids
<1>4. ids \in RuleChoices(rules, dm)
  BY <1>2, <1>3 DEF RuleChoices, ManagedIDs
<1> QED BY <1>4

\* Whatever Share may give is coherent.
LEMMA OutcomeIsCoherent ==
  ASSUME NEW t, ShareInput(t), NEW o, OutcomeOf(t, o)
  PROVE  Coherent(t, o)
<1> DEFINE dm == TheBase(t).map
           rules == RulesOf(t)
           choices == RuleChoices(rules, dm)
<1>1. KeysAre(dm) /\ IsFiniteSet(DOMAIN dm)
  <2> DEFINE cfg == Config(t.strategy, NoFilter, Models)
  <2>1. cfg.gpus = DefaultGPUs(<<"number", "memory">>, Models)
    BY DEF Config
  <2> HIDE DEF cfg
  <2> QED BY <2>1, BaseKeys DEF ShareInput, TheBase, cfg
<1> HIDE DEF dm
<1>2. CASE NewConfig(t.doc) = {}
  BY <1>2 DEF OutcomeOf, Coherent
<1>3. CASE NewConfig(t.doc) # {}
  <2>1. PICK n \in Nat : AreRules(rules, n)
    BY <1>3, SharingIs DEF ShareInput
  <2>2. /\ t.disable => AllOf(rules)
        /\ SharingOf(t).hasMPS => SharingStrategy(SharingOf(t)) = "mps"
    BY <1>3, SharingIs DEF ShareInput
  <2>3. OneName(rules) \/ AllOf(rules)
    BY <1>3, <2>2 DEF ShareInput
  <2> HIDE DEF rules
  <2>4. CASE choices = {}
    <3>1. ~t.disable
      BY <2>2, <2>4, ThereIsAChoice
    <3>2. o.stage = "failed"
      BY <1>3, <2>4 DEF OutcomeOf, rules, dm
    <3> QED BY <3>1, <3>2 DEF Coherent
  <2>5. CASE choices # {}
    <3>1. PICK ids \in choices :
            /\ o.stage = "built" /\ o.sharing = SharingOf(t)
            /\ o.map = updateDeviceMapWithReplicas(rules, dm, ids)
      BY <1>3, <2>5 DEF OutcomeOf, rules, dm
    <3>2. \A k \in 1 .. n : ChosenFor(dm, rules[k], ids[k])
      BY <2>1, ChoiceIs DEF RuleChoices, AreRules
    <3>3. OneRule(rules) => Stand(rules, dm, o.map)
      BY <1>1, <2>1, <2>3, <3>1, <3>2, ReplicasStand
    <3>4. IsFiniteSet(DOMAIN o.map)
      BY <1>1, <2>1, <3>1, <3>2, FinitelyManyReplicas
    <3>5. ReplicatedResources(o.sharing).resources = rules
      BY <3>1 DEF rules, RulesOf
    <3> QED BY <2>2, <3>1, <3>3, <3>4, <3>5 DEF Coherent, dm
  <2> QED BY <2>4, <2>5
<1> QED BY <1>2, <1>3

\* The parts of SharingIsCoherent are those of Coherent.
LEMMA CoherentIsCoherent ==
  ASSUME Done("share") => Coherent(task, Result)
  PROVE  SharingIsCoherent
<1>1. AcceptedSharingBuilds
  BY DEF AcceptedSharingBuilds, Coherent
<1>2. ReplicasStandForDevices
  <2>1. SUFFICES ASSUME Done("share"), Result.stage = "built",
                        OneRule(ReplicatedResources(Result.sharing).resources)
                 PROVE  Stand(ReplicatedResources(Result.sharing).resources, BaseMap.map, Result.map)
    BY Zenon DEF ReplicasStandForDevices, OneRule, Stand, OffersOf, ReplicaKeys
  <2>2. BaseMap = TheBase(task)
    BY DEF BaseMap, TheBase
  <2> QED BY <2>1, <2>2 DEF Coherent
<1>3. MPSRequestsAreSingle
  <2>1. SUFFICES ASSUME Done("share"), Result.stage = "built", Result.sharing.hasMPS,
                        NEW res \in ResourceManagers(Result.map), NEW request \in SUBSET IDsOf(Result.map, res),
                        ValidateRequest(IDsOf(Result.map, res), SharingStrategy(Result.sharing),
                          ReplicatedResources(Result.sharing).failRequestsGreaterThanOne, request)
                 PROVE  Cardinality(request) <= 1 \/ \A id \in request : ~HasAnnotations(id)
    BY DEF MPSRequestsAreSingle
  <2>2. SharingStrategy(Result.sharing) = "mps" /\ IsFiniteSet(DOMAIN Result.map)
    BY <2>1 DEF Coherent
  <2>3. Cardinality(request) \in Nat
    <3> DEFINE some == {k \in DOMAIN Result.map : k[1] = res}
    <3>1. IsFiniteSet(some)
      BY <2>2, FS_Subset
    <3>2. IDsOf(Result.map, res) = {k[2] : k \in some}
      BY DEF IDsOf
    <3> DEFINE f == [k \in some |-> k[2]]
    <3>3. IDsOf(Result.map, res) = {f[k] : k \in some}
      BY <3>2
    <3> HIDE DEF some, f
    <3>4. IsFiniteSet(IDsOf(Result.map, res))
      BY <3>1, <3>3, FiniteImage
    <3> QED BY <3>4, FS_Subset, FS_CardinalityType
  <2> QED BY <2>1, <2>2, <2>3 DEF ValidateRequest
<1> QED BY <1>1, <1>2, <1>3 DEF SharingIsCoherent

\* Whatever the node and the document: a configuration that is accepted builds if the
\* choices are disabled, a device is offered itself or as its replicas, and under MPS a
\* request has one shared device at most (NewConfig, DisableResourceNamingInConfig,
\* updateDeviceMapWithReplicas, ValidateRequest).
THEOREM SharingCoheres == ShareSpec => []SharingIsCoherent
<1> DEFINE Inv == task.of = "share" /\ ShareInput(task) /\ (result # <<>> => OutcomeOf(task, Result))
<1>1. ShareInit => Inv
  BY DEF ShareInit
<1>2. Inv /\ [Next]_vars => Inv'
  <2>1. SUFFICES ASSUME Inv, [Next]_vars PROVE Inv'
    OBVIOUS
  <2>2. CASE UNCHANGED vars
    BY <2>1, <2>2 DEF vars, Result
  <2>3. CASE Next
    <3>1. Share
      BY <2>1, <2>3, OwnStep
    <3>2. task' = task
      BY <3>1 DEF Share, Step
    <3> DEFINE Made(ids) == [stage |-> "built", sharing |-> SharingOf(task),
                             map |-> updateDeviceMapWithReplicas(RulesOf(task), TheBase(task).map, ids)]
               choices == RuleChoices(RulesOf(task), TheBase(task).map)
               Outcomes == IF NewConfig(task.doc) = {} THEN {[stage |-> "refused"]}
                        ELSE IF choices = {} THEN {[stage |-> "failed"]}
                        ELSE {Made(ids) : ids \in choices}
    <3>3. result' \in {<<o>> : o \in Outcomes}
      BY Zenon, <3>1 DEF Share, Step, SharingOf, RulesOf, BaseMap, TheBase
    <3>4. PICK o \in Outcomes : result' = <<o>>
      <4> HIDE DEF Outcomes
      <4> QED BY <3>3
    <3>5. OutcomeOf(task, o)
      <4>1. CASE NewConfig(task.doc) = {}
        BY <4>1 DEF OutcomeOf
      <4>2. CASE NewConfig(task.doc) # {} /\ choices = {}
        BY <4>2 DEF OutcomeOf
      <4>3. CASE NewConfig(task.doc) # {} /\ choices # {}
        <5>1. PICK ids \in choices : o = Made(ids)
          BY <4>3
        <5>2. /\ o.stage = "built" /\ o.sharing = SharingOf(task)
              /\ o.map = updateDeviceMapWithReplicas(RulesOf(task), TheBase(task).map, ids)
          BY <5>1
        <5> QED BY <4>3, <5>2 DEF OutcomeOf
      <4> QED BY <4>1, <4>2, <4>3
    <3>6. Result' = o
      BY <3>4 DEF Result
    <3> QED BY <2>1, <3>2, <3>5, <3>6
  <2> QED BY <2>1, <2>2, <2>3
<1>3. Inv => SharingIsCoherent
  <2>1. SUFFICES ASSUME Inv PROVE SharingIsCoherent
    OBVIOUS
  <2>2. ASSUME Done("share") PROVE Coherent(task, Result)
    BY <2>1, <2>2, OutcomeIsCoherent DEF Done
  <2> QED BY <2>2, CoherentIsCoherent
<1> QED BY <1>1, <1>2, <1>3, PTL DEF ShareSpec
===============================================================================
