--------------------------- MODULE KubeletMessages ---------------------------
(***************************************************************************)
(* What the plugin tells of its devices: the lists it sends to the kubelet *)
(* (apiDevices), the list it writes into the node's annotation for the     *)
(* scheduler (ConvertDeviceInfo, EncodeNodeDevices), and the response that *)
(* brings the devices of a container into it (getAllocateResponse).        *)
(* A list sent to the kubelet has many entries per device; it is given as  *)
(* the sequence of the devices with the number of their entries.  Sizes    *)
(* are in MiB, a response is a record of its parts.                        *)
(***************************************************************************)
EXTENDS Integers, Sequences, SequencesExt, PluginConfig

EntryLimit == 60000

\* Mutant of checkDeviceEntries: the quotient is rounded down.
checkDeviceEntriesMutant(count, factor) ==
  IF count <= EntryLimit THEN {} ELSE {(factor * count) \div EntryLimit}

\* checkDeviceEntries: the least factor it advises, if the list is too long.
checkDeviceEntries(count, factor) ==
  IF count <= EntryLimit THEN {} ELSE {(factor * count + EntryLimit - 1) \div EntryLimit}

\* The memory that is registered of a device.
Registered(dev, s) == dev.memory \div s.factor

\* apiDevices: the entries of every device for one of the three resources.
EntriesOf(resource, dev, s) ==
  CASE resource = "memory" -> Registered(dev, s)
    [] resource = "cores"  -> 100 * s.coreScaling
    [] OTHER               -> s.split
apiDevices(resource, devs, s) ==
  [i \in DOMAIN devs |-> [id |-> devs[i].id, entries |-> EntriesOf(resource, devs[i], s),
                          health |-> devs[i].health]]
Entries(list) == FoldLeft(LAMBDA n, d : n + d.entries, 0, list)

\* ConvertDeviceInfo: every device once, by its minor number.
ConvertDeviceInfo(devs, s) ==
  SortSeq([i \in DOMAIN devs |-> [id |-> devs[i].id, count |-> s.split, devmem |-> Registered(devs[i], s),
                                  health |-> devs[i].health = "Healthy", minor |-> devs[i].minor]],
          LAMBDA a, b : a.minor < b.minor)

\* EncodeNodeDevices and DecodeNodeDevices: the minor number is not written.
DecodedNodeDevices(infos) ==
  [i \in DOMAIN infos |-> [id |-> infos[i].id, count |-> infos[i].count,
                           devmem |-> infos[i].devmem, health |-> infos[i].health]]

-----------------------------------------------------------------------------
(* The response for the devices of a container.  A device has its uuid, the *)
(* number of a replica and an index.                                        *)

\* Each of them once, where it stands first.
Unique(ids) == FoldLeft(LAMBDA seen, id : IF Contains(seen, id) THEN seen ELSE Append(seen, id), <<>>, ids)

\* Mutant of InOrder: the uuids come in any order, as the indices do.
InOrderMutant(devs) ==
  {s \in [DOMAIN devs -> {devs[i].uuid : i \in DOMAIN devs}] : \A i, j \in DOMAIN s : s[i] = s[j] => i = j}

InOrder(devs) == {Unique([i \in DOMAIN devs |-> devs[i].uuid])}

\* uniqueDeviceIDsFromAnnotatedDeviceIDs: the uuids in their order, or the indices in
\* the order of a map: any.
DeviceNames(strategy, devs) ==
  IF strategy = "uuid" THEN InOrder(devs)
  ELSE {s \in [1 .. Cardinality({devs[i] : i \in DOMAIN devs}) -> {devs[i].index : i \in DOMAIN devs}] :
          \A i, j \in DOMAIN s : s[i] = s[j] => i = j}

\* updateResponseForCDI: the names of the devices and of all that goes with them.
CDINames(plugin, names) ==
  [i \in DOMAIN names |-> <<"gpu", names[i]>>]
    \o [i \in DOMAIN plugin.channels |-> <<"imex-channel", plugin.channels[i]>>]
    \o SetToSeq({<<mode, "all">> : mode \in plugin.cdi.classes \ {"gpu", "imex-channel"}})

NoResponse == [visible |-> <<>>, annotations |-> <<>>, cdi |-> <<>>, mounts |-> {}, specs |-> {}]

updateResponseForCDI(plugin, flags, names, r) ==
  LET On(strategy) == IF strategy \in flags.deviceListStrategy THEN CDINames(plugin, names) ELSE <<>>
  IN [r EXCEPT !.annotations = On("cdi-annotations"), !.cdi = On("cdi-cri")]

updateResponseForMPS(plugin, r) ==
  IF plugin.mps THEN [r EXCEPT !.mounts = @ \cup {<<"mps", "pipe">>, <<"mps", "shm">>}] ELSE r

\* The environment variable names the devices or, if they are mounts, their directory.
AsMounts == <<"/var/run/nvidia-container-devices">>
updateResponseForDeviceList(flags, names, r) ==
  LET strategies == flags.deviceListStrategy IN
  IF "volume-mounts" \in strategies
    THEN [r EXCEPT !.visible = AsMounts, !.mounts = @ \cup {<<"device", n>> : n \in ToSet(names)}]
  ELSE IF "envvar" \in strategies THEN [r EXCEPT !.visible = names] ELSE r

\* The device files of the devices, asked for by their ID.
apiDeviceSpecs(flags, plugin, devs) ==
  IF flags.passDeviceSpecs
    THEN {<<"gpu", devs[i].index>> : i \in DOMAIN devs} \cup {<<"imex-channel", c>> : c \in ToSet(plugin.channels)}
    ELSE {}

\* getAllocateResponse: the rest is left out if all strategies are those of CDI.
getAllocateResponse(plugin, flags, devs) ==
  {LET cdi == IF AnyCDIEnabled(flags.deviceListStrategy)
                THEN updateResponseForCDI(plugin, flags, names, NoResponse) ELSE NoResponse
       r == updateResponseForMPS(plugin, cdi)
   IN IF AllCDIEnabled(flags.deviceListStrategy) THEN r
      ELSE [updateResponseForDeviceList(flags, names, r)
              EXCEPT !.specs = apiDeviceSpecs(flags, plugin, devs)] :
   names \in DeviceNames(flags.deviceIDStrategy, devs)}

\* Allocate, unless the mode is "mig": the limits of the i-th device of the request.
MemoryLimits(devreq, s) == [i \in DOMAIN devreq |-> devreq[i].usedmem * s.factor]
=============================================================================
