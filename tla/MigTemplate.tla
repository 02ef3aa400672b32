----------------------------- MODULE MigTemplate -----------------------------
(***************************************************************************)
(* How Allocate partitions a GPU (pkg/plugin/server.go, pkg/util).  In the *)
(* mode "mig" the scheduler names a device as GPU[group-position]: the     *)
(* instances of a group of the geometries of the GPU's model, and which of *)
(* them.  The plugin keeps the desired partition of every GPU, changes it  *)
(* when a request calls for another group, and applies all of them.        *)
(* A partition is a function from profiles to counts.                      *)
(***************************************************************************)
EXTENDS Integers, Sequences, SequencesExt

Refused == [ok |-> FALSE]

\* processMigConfigs: the partition of each of count GPUs, from the one exported for
\* all of them, or from the last entry that lists the GPU; a copy for each.
processMigConfigs(entries, count) ==
  LET Listing(i) == {k \in DOMAIN entries : i \in entries[k].devices}
      Latest(i) == CHOOSE k \in Listing(i) : \A l \in Listing(i) : l <= k
      Own(k, i) == [entries[k] EXCEPT !.devices = {i}]
  IN IF Len(entries) = 1 /\ entries[1].devices = {}
       THEN [ok |-> TRUE, configs |-> [i \in 1 .. count |-> Own(1, i - 1)]]
     ELSE IF \E i \in 0 .. count - 1 : Listing(i) = {} THEN Refused
     ELSE [ok |-> TRUE, configs |-> [i \in 1 .. count |-> Own(Latest(i - 1), i - 1)]]

\* ExtractMigTemplatesFromUUID and the search for the group: the first of that name.
Group(geometries, name) ==
  LET named == {k \in DOMAIN geometries : geometries[k].group = name}
  IN IF named = {} THEN {} ELSE {geometries[CHOOSE k \in named : \A l \in named : k <= l].instances}

\* Mutant of NeedsReset: it is enough that the profiles are there.
NeedsResetMutant(now, wanted) == ~(DOMAIN wanted \subseteq DOMAIN now)

\* A profile of the group is missing, or there in another number.
NeedsReset(now, wanted) == \E p \in DOMAIN wanted : p \notin DOMAIN now \/ now[p] # wanted[p]

\* GenerateMigTemplate: the configurations afterwards, the position, and whether they
\* have to be applied.  Only the first that lists the GPU is looked at.
GenerateMigTemplate(configs, geometries, request) ==
  LET listing == {k \in DOMAIN configs : request.gpu \in configs[k].devices}
      first == CHOOSE k \in listing : \A l \in listing : k <= l
      unknown == [configs |-> configs, position |-> -1, reset |-> FALSE]
      Answer(wanted) ==
        LET reset == listing # {} /\ NeedsReset(configs[first].instances, wanted)
        IN [position |-> request.position, reset |-> reset,
            configs |-> IF ~reset THEN configs
                        ELSE [configs EXCEPT ![first] = [devices |-> @.devices, enabled |-> TRUE,
                                                         instances |-> wanted]]]
      groups == Group(geometries, request.group)
  IN IF groups = {} THEN unknown ELSE Answer(CHOOSE w \in groups : TRUE)

\* GetContainerDeviceStrArray: the requests of a container in turn; each change is
\* applied to the hardware (ApplyMigTemplate) before the instance is looked up.
Partitioned(configs, hardware, geometries, requests) ==
  LET Next(s, r) ==
        LET g == GenerateMigTemplate(s.configs, geometries, r)
        IN [configs |-> g.configs, hardware |-> IF g.reset THEN g.configs ELSE s.hardware]
  IN FoldLeft(Next, [configs |-> configs, hardware |-> hardware], requests)

\* The last GPU listed before line k is this one.
UnderGPU(lines, uuid, k) ==
  \E g \in 1 .. k : /\ ~lines[g].mig /\ lines[g].uuid = uuid
                    /\ \A l \in g + 1 .. k : lines[l].mig \/ lines[l].uuid = uuid

\* GetMigUUIDFromSmiOutput: the instance with this number in the listing of the
\* GPU, the first; none is an empty uuid.
GetMigUUIDFromSmiOutput(lines, uuid, index) ==
  LET hits == {k \in DOMAIN lines : lines[k].mig /\ lines[k].index = index /\ UnderGPU(lines, uuid, k)}
  IN {lines[k].uuid : k \in {k \in hits : \A l \in hits : k <= l}}

\* GetMigUUIDFromIndex: from NVML, or from the listing if NVML does not give it; known
\* is the set of the numbers of the instances NVML gives.
GetMigUUIDFromIndex(known, lines, uuid, index) ==
  IF index \in known THEN {<<uuid, index>>} ELSE GetMigUUIDFromSmiOutput(lines, uuid, index)

-----------------------------------------------------------------------------
(* The specification file of CDI, made anew after the partition changed.    *)
MaxTryTimes == 5

\* checkCDISpec: every MIG device in it has a capability file.
checkCDISpec(file) == file.kind = "gpu" /\ \A d \in file.devices : d.mig => d.capability

\* CheckCDISpecFile: a file that is not there, or no specification, has no entry here.
CheckCDISpecFile(files) == \E file \in files : checkCDISpec(file)

\* The file on the disk after some calls of CreateSpecFile, if made[n] is the one the n-th
\* leaves: a failed one leaves what was there.
LeftBy(files, made) == FoldLeft(LAMBDA old, new : IF new = {} THEN old ELSE new, files, made)

\* The file there is when GetContainerDeviceStrArray goes on.  Nothing: it gave up, and
\* the process with it.
WrittenSpec(files, made) ==
  LET Left(n) == LeftBy(files, SubSeq(made, 1, n))
      good == {n \in 1 .. MaxTryTimes : CheckCDISpecFile(Left(n))}
  IN IF good = {} THEN {} ELSE Left(CHOOSE n \in good : \A k \in good : n <= k)
=============================================================================
