-------------------------- MODULE ContainerMetrics --------------------------
(***************************************************************************)
(* What one scrape of the monitor reports (cmd/vgpu-monitor/metrics.go):   *)
(* the GPUs of the host, and for each container the usage that the library *)
(* in it keeps in its shared region (pkg/monitor/nvidia/v0 and v1).  A     *)
(* region has devices, each with a uuid and a limit, and a fixed number of *)
(* process slots with what each process uses of each device.  The cache is *)
(* a sequence of regions, each with the pod uid and the container name its *)
(* directory is named after.  A metric is a record of a description, its   *)
(* labels and a value; MonitorFeedback has the life of the cache.          *)
(***************************************************************************)
EXTENDS Integers, Sequences, SequencesExt, FiniteSets

\* DeviceMemoryTotal and the like: the sum over all slots, whoever owns them.
Sum(region, field, i) ==
  FoldLeft(LAMBDA v, slot : v + slot[i][field], 0, region.procs)

DeviceMemory(region, i) ==
  [f \in {"context", "module", "buffer", "offset", "total"} |-> Sum(region, f, i)]
DeviceSmUtil(region, i) == Sum(region, "sm", i)

\* Version 0 of the region has no such field.
LastKernelTime(region) == IF region.version = 0 THEN 0 ELSE region.lastKernelTime

\* The text of a uuid is shown only if it is valid; one that is not written yet is not.
Reportable(region) == {i \in DOMAIN region.devices : region.devices[i].valid}

\* A pod, a place in the cache and a container of the pod; no device yet.
Candidates(pods, cache) ==
  UNION {[pod : {p}, at : DOMAIN cache, ctr : p.containers, device : {0}] : p \in pods}

\* Mutant of Matching: the container of the pod is not compared.
MatchingMutant(pods, cache) ==
  {m \in Candidates(pods, cache) : cache[m.at].podUID = m.pod.uid}

\* A region goes with the container of its name of the pod of its uid.
Matching(pods, cache) ==
  {m \in Candidates(pods, cache) : cache[m.at].podUID = m.pod.uid /\ cache[m.at].ctrName = m.ctr}

\* The metrics of a device of a region, under the names of the pod and of the region.  A
\* kernel that is said to start after now starts now.
Report(pod, region, i, now) ==
  LET memory == DeviceMemory(region, i)
      last == LastKernelTime(region)
      Metric(desc, value) == [desc |-> desc, labels |-> <<pod.name, region.ctrName, i>>, value |-> value]
  IN {Metric("usage", memory.total), Metric("limit", region.devices[i].limit),
      Metric("memory", memory), Metric("util", DeviceSmUtil(region, i))}
     \cup {Metric("lastKernel", IF now < t THEN 0 ELSE now - t) : t \in {last} \ {0}}

\* Collect, of the containers: what is sent, by the round of the loops that sends it.
CollectContainers(pods, cache, now) ==
  LET Rounds == UNION {{[m EXCEPT !.device = i] : i \in Reportable(cache[m.at])} : m \in Matching(pods, cache)}
  IN [r \in Rounds |-> Report(r.pod, cache[r.at], r.device, now)]

\* Collect, of the GPUs of the host: a GPU without a uuid has no memory metric, and its
\* utilization is sent under no name.
CollectHost(gpus) ==
  UNION {LET g == gpus[i] IN
         {[desc |-> "hostMemory", labels |-> <<i, u>>, value |-> IF "memory" \in g.fails THEN 0 ELSE g.memory] :
            u \in IF "uuid" \in g.fails THEN {} ELSE {g.uuid}}
         \cup {[desc |-> "hostUtil", labels |-> <<i, IF "uuid" \in g.fails THEN "" ELSE g.uuid>>, value |-> u] :
            u \in IF "util" \in g.fails THEN {} ELSE {g.util}} :
         i \in DOMAIN gpus}
=============================================================================
