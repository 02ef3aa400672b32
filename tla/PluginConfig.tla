---------------------------- MODULE PluginConfig ----------------------------
(***************************************************************************)
(* The settings of the plugin and what they make of a host.  The vGPU      *)
(* settings come from a ConfigMap, the command line and a file of node     *)
(* settings (pkg/util); the flags come from the command line and the       *)
(* configuration file (api/config/v1); a host then accepts them or not     *)
(* (cmd/vgpu, pkg/plugin, pkg/cdi, pkg/imex).  A source is a record: a     *)
(* field that is not in its DOMAIN is not set there.                       *)
(***************************************************************************)
EXTENDS Integers, Sequences, SequencesExt, SharingConfig

CONSTANT NodeName

\* The numbers of a configuration nobody wrote.
ZeroSettings == [split |-> 0, coreScaling |-> 0, memoryScaling |-> 0, factor |-> 0]

\* updateFromCLIFlag, for every field: what the stronger source sets wins.
Overlay(over, base) == [f \in DOMAIN base |-> IF f \in DOMAIN over THEN over[f] ELSE base[f]]

\* A ConfigMap that is there but lacks its key, or does not parse.
Unreadable == [unreadable |-> TRUE]

\* LoadConfigFromCM: from kube-system, or else from volcano-system.  One that is
\* unreadable sets nothing, and the other namespace is not asked then.
LoadConfigFromCM(maps) ==
  IF Given(maps, "kubeSystem") THEN Overlay(maps.kubeSystem, ZeroSettings)
  ELSE IF Given(maps, "volcanoSystem") THEN Overlay(maps.volcanoSystem, ZeroSettings)
  ELSE ZeroSettings

\* readFromConfigFile: every entry of this node in turn, the numbers that are positive.
readFromConfigFile(entries, settings) ==
  LET Apply(s, e) == IF e.name # NodeName THEN s
                     ELSE Overlay([f \in {f \in (DOMAIN e) \ {"name"} : e[f] > 0} |-> e[f]], s)
  IN FoldLeft(Apply, settings, entries)

\* LoadNvidiaConfig: the node's own entries over the command line over the ConfigMap; a
\* flag that was not set does not count, whatever its default.
LoadNvidiaConfig(maps, cli, entries) ==
  readFromConfigFile(entries, Overlay(cli, LoadConfigFromCM(maps)))

-----------------------------------------------------------------------------
(* The flags and the plugins.                                                *)

\* The defaults of the flags.
DefaultFlags ==
  [migStrategy |-> "none", deviceListStrategy |-> {"envvar"}, deviceIDStrategy |-> "uuid",
   deviceDiscoveryStrategy |-> "auto", mpsRoot |-> "", failOnInitError |-> TRUE, driverRoot |-> "/",
   devRoot |-> "", passDeviceSpecs |-> FALSE, modes |-> {"gdrcopy", "gds", "mofed"}]

\* UpdateFromCLIFlags and NewConfig: a flag that is set, or else the file, or else the
\* default; without a root of its own for the devices that of the driver.
UpdateFromCLIFlags(file, cli, defaults) ==
  LET chosen == Overlay(cli, Overlay(file, defaults))
  IN [chosen EXCEPT !.devRoot = IF chosen.devRoot = "" THEN chosen.driverRoot ELSE @]

ListStrategies == {"envvar", "volume-mounts", "cdi-annotations", "cdi-cri"}
CDIStrategies == {"cdi-annotations", "cdi-cri"}
AnyCDIEnabled(strategies) == strategies \cap CDIStrategies # {}
AllCDIEnabled(strategies) == strategies \subseteq CDIStrategies

AssertChannelIDsValid(ids) == ids \in {<<>>, <<0>>}

\* Mutant of validateFlags: CDI is allowed on any host.
validateFlagsMutant(flags, sharing, imex, host) ==
  /\ flags.deviceListStrategy \subseteq ListStrategies
  /\ flags.deviceDiscoveryStrategy \in {"auto", "nvml", "tegra"}
  /\ flags.migStrategy \in {"none", "single", "mixed"}
  /\ AssertChannelIDsValid(imex.ids)

validateFlags(flags, sharing, imex, host) ==
  /\ flags.deviceListStrategy \subseteq ListStrategies
  /\ AnyCDIEnabled(flags.deviceListStrategy) => host.nvml
  /\ flags.deviceIDStrategy \in {"uuid", "index"}
  /\ SharingStrategy(sharing) = "mps" => flags.migStrategy # "mixed" /\ flags.mpsRoot # ""
  /\ flags.deviceDiscoveryStrategy \in {"auto", "nvml", "tegra"}
  /\ flags.migStrategy \in {"none", "single", "mixed"}
  /\ AssertChannelIDsValid(imex.ids)

\* The channels of a list that there are.
Present(ids, host) ==
  FoldLeft(LAMBDA seen, id : IF id \in host.channels THEN Append(seen, id) ELSE seen, <<>>, ids)

\* GetChannels: the channels there are, or nothing if one is missing that is required.
Missing(imex, host) == ToSet(imex.ids) \ host.channels
GetChannels(imex, host) ==
  IF imex.required /\ Missing(imex, host) # {} THEN {}
  ELSE {Present(imex.ids, host)}

\* cdi.New: the handler, or the one that does nothing; host.specs says whether its
\* libraries can be made and its files written.  CreateSpecFile: it needs NVML, whatever
\* failOnInitError says; a class without devices is left out.
CDIHandler(flags, channels, host) ==
  IF ~AnyCDIEnabled(flags.deviceListStrategy) \/ ~host.nvml THEN {[null |-> TRUE, classes |-> {}]}
  ELSE {[null |-> FALSE, classes |-> ({"gpu"} \cup IF channels = <<>> THEN {} ELSE {"imex-channel"})
                                      \cup (flags.modes \ host.emptyModes)] : ok \in {TRUE} \cap {host.specs /\ host.nvmlInit}}

resolveStrategy(strategy, platform) ==
  IF strategy # "auto" THEN strategy
  ELSE CASE platform \in {"nvml", "wsl"} -> "nvml"
         [] platform = "tegra"          -> "tegra"
         [] OTHER                       -> strategy

\* getResourceManagers: the kinds of device it finds; {} is an error.
Managers(flags, host) ==
  LET failed == IF flags.failOnInitError THEN {} ELSE {{}} IN
  CASE resolveStrategy(flags.deviceDiscoveryStrategy, host.platform) = "nvml" ->
         IF host.nvmlInit THEN {host.devices[flags.migStrategy]} ELSE failed
    [] resolveStrategy(flags.deviceDiscoveryStrategy, host.platform) = "tegra" -> {{"gpu"}}
    [] OTHER -> failed

\* getMPSOptions: MPS cannot share a MIG device.
getMPSOptions(sharing, kinds) == SharingStrategy(sharing) = "mps" => "mig" \notin kinds

\* AddDefaultResourcesToConfig asks NVML for the MIG profiles, if there are any to serve.
DefaultsKnown(flags, host) ==
  flags.migStrategy = "mixed" /\ host.nvml /\ flags.failOnInitError => host.nvmlInit

\* plugin.New: a plugin for the devices of every manager, or nothing: an error.
New(flags, sharing, channels, handler, host) ==
  {[kinds |-> kinds, channels |-> channels, cdi |-> handler, mps |-> SharingStrategy(sharing) = "mps"] :
     kinds \in {k \in Managers(flags, host) : getMPSOptions(sharing, k)}}

\* startPlugins and GetPlugins: what the plugins are made of, or nothing: an error.
StartedPlugins(flags, sharing, imex, host) ==
  IF validateFlags(flags, sharing, imex, host) /\ DefaultsKnown(flags, host)
    THEN UNION {UNION {New(flags, sharing, channels, handler, host) : handler \in CDIHandler(flags, channels, host)} :
                  channels \in GetChannels(imex, host)}
    ELSE {}
=============================================================================
