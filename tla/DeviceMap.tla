------------------------------ MODULE DeviceMap ------------------------------
(***************************************************************************)
(* The devices of a node (pkg/rm): which GPUs and MIG instances become     *)
(* devices of which resource (device_map.go), the replicas of the shared   *)
(* ones, and the devices preferred for a request (allocate.go).            *)
(* A node is a sequence of GPUs; the library that enumerates them (NVML)   *)
(* is external.  A GPU has a uuid, a model, whether MIG is enabled, its    *)
(* MIG instances, a NUMA node (negative: unknown) and what fails on it.    *)
(* A pattern of a resource is the set of the models or profiles it matches.*)
(* A device map is a function from pairs of a resource and a device ID.    *)
(***************************************************************************)
EXTENDS Integers, Sequences, FiniteSets, SequencesExt

Error == [ok |-> FALSE]
Built(dm) == [ok |-> TRUE, map |-> dm]

\* An ID is a uuid and, for a replica, its number.
NoReplica == -1
DeviceID(u) == [uuid |-> u, replica |-> NoReplica]
NewAnnotatedID(id, n) == [id EXCEPT !.replica = n]
HasAnnotations(id) == id.replica # NoReplica

\* A GPU that is filtered by its uuid or its index (from zero) is not a device.
FilterDeviceToRegister(filter, node, i) ==
  node[i].uuid \in filter.uuids \/ i - 1 \in filter.indices

\* What BuildDevice asks of a GPU and may not learn; only a failure to read the memory
\* is ignored.
GPUFails(gpu) == gpu.fails \in {"paths", "numa", "capability"}

\* The lines of the driver's file of minors: a path of a capability and its device
\* file.  One that cannot be parsed is skipped; of two for one path the last counts.
Unparsable == [path |-> <<>>]
GetMigCapabilityDevicePaths(lines) ==
  LET parsed == {k \in DOMAIN lines : lines[k] # Unparsable}
      Latest(path) == CHOOSE k \in parsed : lines[k].path = path /\ \A l \in parsed : lines[l].path = path => l <= k
  IN [path \in {lines[k].path : k \in parsed} |-> lines[Latest(path)].device]

\* A MIG instance needs the capabilities of its GPU instance and its compute instance,
\* and asks its GPU for all the rest.
MigFails(inst, gpu) ==
  ~(inst.capabilities \subseteq DOMAIN GetMigCapabilityDevicePaths(gpu.minors)) \/ GPUFails(gpu)

\* The device files of a MIG instance beside that of its GPU.
CapabilityPaths(inst, gpu) ==
  {GetMigCapabilityDevicePaths(gpu.minors)[c] : c \in inst.capabilities}

\* The NUMA node of a GPU, and of its MIG instances, if it is known.
NumaNodes(gpu) == IF gpu.numa < 0 THEN {} ELSE {gpu.numa}

BuildDevice(index, uuid, gpu, paths) ==
  [id |-> DeviceID(uuid), index |-> index, replicas |-> 0, numa |-> NumaNodes(gpu),
   paths |-> {<<"nvidia", index[1]>>} \cup paths]

\* The map with these entries.  setEntry and insert: an ID is there once.
AsMap(entries) ==
  [k \in {<<e.res, e.dev.id>> : e \in entries} |->
     (CHOOSE e \in entries : <<e.res, e.dev.id>> = k).dev]

\* insert and merge: the entries of new replace those of old.
Merge(new, old) ==
  [k \in DOMAIN new \cup DOMAIN old |-> IF k \in DOMAIN new THEN new[k] ELSE old[k]]

\* Mutant of GPUsToMap: the whole GPU is a device although MIG is enabled.
GPUsToMapMutant(node, cfg) ==
  {i \in DOMAIN node : ~FilterDeviceToRegister(cfg.filter, node, i)}

GPUsToMap(node, cfg) ==
  {i \in DOMAIN node : /\ ~FilterDeviceToRegister(cfg.filter, node, i)
                       /\ ~(node[i].mig /\ cfg.strategy # "none")}

\* A GPU must match every pattern; one that cannot be built is left out silently.
buildGPUDeviceMap(node, cfg) ==
  LET gpus == GPUsToMap(node, cfg) IN
  IF \/ \E i \in DOMAIN node : node[i].fails = "uuid"
     \/ \E i \in gpus : \E r \in ToSet(cfg.gpus) : node[i].model \notin r.matches
    THEN Error
    ELSE Built(AsMap({[res |-> r.name, dev |-> BuildDevice(<<i>>, node[i].uuid, node[i], {})] :
                      r \in ToSet(cfg.gpus), i \in {i \in gpus : ~GPUFails(node[i])}}))

\* The MIG instances of the node, by the index of their GPU and their own.
MigDevices(node) == {ij \in (DOMAIN node) \X (1 .. 7) : ij[2] \in DOMAIN node[ij[1]].insts}
Instance(node, ij) == node[ij[1]].insts[ij[2]]

\* The first resource whose pattern matches; there must be one.
buildMigDeviceMap(node, cfg) ==
  LET matching(ij) == {k \in DOMAIN cfg.migs : Instance(node, ij).profile \in cfg.migs[k].matches}
      resource(ij) == cfg.migs[CHOOSE k \in matching(ij) : \A l \in matching(ij) : k <= l].name
  IN IF \E ij \in MigDevices(node) : \/ matching(ij) = {} \/ Instance(node, ij).fails = "profile"
                                      \/ MigFails(Instance(node, ij), node[ij[1]])
       THEN Error
       ELSE Built(AsMap({[res |-> resource(ij),
                          dev |-> BuildDevice(ij, Instance(node, ij).uuid, node[ij[1]],
                                              CapabilityPaths(Instance(node, ij), node[ij[1]]))] :
                         ij \in MigDevices(node)}))

\* If they are to be uniform: every GPU with MIG has an instance, all of one kind.
assertAllMigDevicesAreValid(node) ==
  /\ \A i \in DOMAIN node : node[i].mig => node[i].insts # <<>>
  /\ \A a, b \in MigDevices(node) : Instance(node, a).profile = Instance(node, b).profile

buildDeviceMapFromConfigResources(node, cfg) ==
  LET gpus == buildGPUDeviceMap(node, cfg)
      migs == buildMigDeviceMap(node, cfg)
      uniform == cfg.strategy = "single"
  IN IF cfg.strategy = "none" THEN gpus
     ELSE IF \/ ~gpus.ok \/ ~migs.ok
             \/ uniform /\ ~assertAllMigDevicesAreValid(node)
             \/ uniform /\ DOMAIN gpus.map # {} /\ DOMAIN migs.map # {}
            THEN Error
            ELSE Built(Merge(migs.map, gpus.map))

\* The expression made of a pattern is not anchored: a pattern matches wherever its text
\* is found; "*" is the empty text.
Matches(pattern, text) ==
  \E i \in 1 .. Len(text) - Len(pattern) + 1 : pattern = SubSeq(text, i, i + Len(pattern) - 1)

\* AddDefaultResourcesToConfig: three resources that every GPU matches, and those of
\* the MIG devices, one for all or one for every profile that is no part of an instance.
DefaultGPUs(names, models) == [k \in DOMAIN names |-> [name |-> names[k], matches |-> models]]
DefaultMIGs(strategy, profiles) ==
  CASE strategy = "single" -> <<[name |-> "gpu", matches |-> ToSet(profiles)]>>
    [] strategy = "mixed"  -> [k \in DOMAIN profiles |->
         [name |-> profiles[k].resource, matches |-> {p \in ToSet(profiles) : Matches(profiles[k].text, p.text)}]]
    [] OTHER               -> <<>>

\* buildTegraDeviceMap: one device, under every resource whose pattern matches its name;
\* the index counts the resources.
buildTegraDeviceMap(cfg) ==
  LET named == SelectSeq(cfg.gpus, LAMBDA r : "tegra" \in r.matches)
  IN Built(AsMap({[res |-> named[k].name,
                   dev |-> [id |-> DeviceID("tegra"), index |-> <<k>>, replicas |-> 0, numa |-> {}, paths |-> {}]] :
                  k \in DOMAIN named}))

-----------------------------------------------------------------------------
(* Replicas.  A rule names a resource, a new name or "", the devices to     *)
(* replicate (all of them, a count, or a list of references) and a number.  *)
IDsOf(dm, res) == {k[2] : k \in {k \in DOMAIN dm : k[1] = res}}

\* A reference is a uuid or an index.
Referenced(dm, res, ref) ==
  {id \in IDsOf(dm, res) : IF ref.by = "uuid" THEN id.uuid = ref.is ELSE dm[<<res, id>>].index = ref.is}

\* The sets of IDs it may return: none is an error.  A count takes any devices, the
\* order of a map being random; a resource without devices has nothing to replicate.
getIDsOfDevicesToReplicate(dm, r) ==
  LET ids == IDsOf(dm, r.name) IN
  IF ids = {} THEN {{}}
  ELSE IF r.devices.all THEN {ids}
  ELSE IF r.devices.count > 0 THEN {s \in SUBSET ids : Cardinality(s) = r.devices.count}
  ELSE LET found == [k \in DOMAIN r.devices.list |-> Referenced(dm, r.name, r.devices.list[k])]
       IN IF found = <<>> \/ {} \in ToSet(found) THEN {} ELSE {UNION ToSet(found)}

\* The devices of the resource that stay as they are.
Unreplicated(dm, r, ids) == IDsOf(dm, r.name) \ ids

Renamed(r) == IF r.rename = "" THEN r.name ELSE r.rename

\* The IDs of the replicas, and a replica: its device under another ID.
ReplicaIDs(r, chosen) == {NewAnnotatedID(id, n) : id \in chosen, n \in 0 .. r.replicas - 1}
Replica(dm, r, id) ==
  [dm[<<r.name, DeviceID(id.uuid)>>] EXCEPT !.id = id, !.replicas = r.replicas]

\* The map with the replicas, if ids[k] are those of rule k.
updateDeviceMapWithReplicas(rules, dm, ids) ==
  LET listed == {rules[k].name : k \in DOMAIN rules}
      kept == [k \in {k \in DOMAIN dm : k[1] \notin listed} |-> dm[k]]
      plain(r, chosen) == [k \in {r.name} \X Unreplicated(dm, r, chosen) |-> dm[k]]
      replicas(r, chosen) == [k \in {Renamed(r)} \X ReplicaIDs(r, chosen) |-> Replica(dm, r, k[2])]
      Apply(map, k) == IF ids[k] = {} THEN map
                       ELSE Merge(replicas(rules[k], ids[k]), Merge(plain(rules[k], ids[k]), map))
  IN FoldLeft(Apply, kept, [k \in DOMAIN rules |-> k])

\* NewNVMLResourceManagers: a manager for every resource with devices.
ResourceManagers(dm) == {k[1] : k \in DOMAIN dm}

-----------------------------------------------------------------------------
(* The preferred allocation among the IDs of one resource.                  *)
\* No device is a MIG device: its index has no second part.
AlignedAllocationSupported(devs) == \A id \in DOMAIN devs : Len(devs[id].index) = 1

ReplicasOf(ids, uuid) == Cardinality({id \in ids : id.uuid = uuid})

\* Mutant of Taken: the replicas handed out before do not count.
TakenMutant(ids, candidates, uuid) == -ReplicasOf(candidates, uuid)

\* The replicas of a GPU that are no candidates (any more).
Taken(ids, candidates, uuid) == ReplicasOf(ids, uuid) - ReplicasOf(candidates, uuid)

\* The candidates the sort may leave first, in any order of those that are equal.
LeastUsed(ids, left) ==
  {c \in left : \A d \in left : Taken(ids, left, c.uuid) <= Taken(ids, left, d.uuid)}

\* Picks(ids, candidates)[n]: the sets that n turns of the loop may take.
Picks(ids, candidates) ==
  LET picks[n \in Nat] ==
        IF n = 0 THEN {{}}
        ELSE UNION {{s \cup {c} : c \in LeastUsed(ids, candidates \ s)} : s \in picks[n - 1]}
  IN picks

\* The sets of devices distributedAlloc may choose; none is an error.
distributedAlloc(ids, available, required, size) ==
  LET candidates == (available \cap ids) \ required
      needed == size - Cardinality(required)
  IN IF Cardinality(candidates) < needed THEN {}
     ELSE {required \cup s : s \in Picks(ids, candidates)[IF needed < 0 THEN 0 ELSE needed]}

\* alignedAlloc: the policy of the GPU allocator, external, takes any devices that
\* include the required ones, or none if there are too few.
alignedAlloc(available, required, size) ==
  IF Cardinality(available) < size THEN {{}}
  ELSE {s \in SUBSET available : required \subseteq s /\ Cardinality(s) = size}

\* getPreferredAllocation: devs is a function from the IDs of one resource to devices.
getPreferredAllocation(devs, available, required, size) ==
  IF AlignedAllocationSupported(devs) /\ \A id \in available : ~HasAnnotations(id)
    THEN alignedAlloc(available, required, size)
    ELSE distributedAlloc(DOMAIN devs, available, required, size)

\* ValidateRequest: the IDs are known, and if shared, one of them at most, under MPS
\* always and under time slicing if it is configured.
ValidateRequest(ids, strategy, failRequestsGreaterThanOne, request) ==
  /\ request \subseteq ids
  /\ (\E id \in request : HasAnnotations(id)) /\ Cardinality(request) > 1 =>
       /\ strategy # "mps"
       /\ strategy = "time-slicing" => ~failRequestsGreaterThanOne
=============================================================================
