-------------------------- MODULE MonitorFeedback --------------------------
(***************************************************************************)
(* The vGPU monitor (cmd/vgpu-monitor, pkg/monitor/nvidia).  Each vGPU     *)
(* container shares a region of memory with the monitor, a cache file in a *)
(* directory that Allocate makes for it.  A goroutine wakes every five     *)
(* seconds: Update brings the table of the mapped regions up to date with  *)
(* the pods of the node, and Observe arbitrates between the containers     *)
(* that share a GPU, by priority, through two fields of the regions.  The  *)
(* metrics endpoint reads the same regions when it is scraped.             *)
(* The library in the container is external: before it starts a kernel it  *)
(* waits until recentKernel is not negative and then sets it to Busy.  So  *)
(* are the API server, the informer of the endpoint and the kubelet.       *)
(***************************************************************************)
EXTENDS Integers, FiniteSets

CONSTANTS
  Ctrs,       \* the vGPU containers, each of a pod of its own
  Uses,       \* Uses[c]: the GPUs of container c, as its region lists them
  Priority,   \* Priority[c]: the priority in its region, 0 before 1
  Busy,       \* what the library writes into recentKernel
  MaxTrouble, \* bound: how often something fails
  Faults      \* what may fail

FaultKinds ==
  {"list",     \* listing the pods or the directories fails
   "load",     \* a cache file is there but cannot be opened or mapped
   "crash"}    \* the monitor dies

ASSUME ConstantsAssumption ==
  /\ IsFiniteSet(Ctrs)
  /\ \A c \in Ctrs : Uses[c] # <<>> /\ \A i \in DOMAIN Uses[c] : Uses[c][i] \in STRING
  /\ Priority \in [Ctrs -> Int]
  /\ Busy \in Nat \ {0} /\ MaxTrouble \in Nat
  /\ Faults \subseteq FaultKinds

VARIABLES
  pod,      \* pod[c]: "none", "bound", "live" once Allocate has answered, "gone"
  dir,      \* dir[c]: the directory: "none", "fresh" for 300 s, then "old"
  file,     \* file[c]: the cache file: "none", "raw", or "ready" with a header
  kernel,   \* kernel[c]: the field recentKernel
  throttle, \* throttle[c]: the field utilizationSwitch
  app,      \* app[c]: the library: "idle" or about to set recentKernel
  mapped,   \* the keys of ContainerLister.containers
  feed,     \* the goroutine of watchAndFeedback
  scrape,   \* a call of Collect
  trouble   \* how often something failed

vars == <<pod, dir, file, kernel, throttle, app, mapped, feed, scrape, trouble>>

\* A goroutine at pc: the pods it listed, its copy of the table, the regions it
\* has yet to visit, the one it is at with the recentKernel it read, and the
\* regions it counted.
Asleep == [pc |-> "sleep", pods |-> {}, copy |-> {}, todo |-> {}, at |-> {},
           read |-> 0, on |-> {}]
NoScrape == [pc |-> "idle", todo |-> {}]

\* utSwitchOn: how many of the counted containers use GPU g with priority p.
Devices(c) == {Uses[c][i] : i \in DOMAIN Uses[c]}
utSwitchOn(on, g, p) == Cardinality({c \in on : g \in Devices(c) /\ Priority[c] = p})

\* The GPUs that have an entry in utSwitchOn, a slice of two.
Contended(on) == UNION {Devices(c) : c \in on}

Init == /\ pod = [c \in Ctrs |-> "none"]
        /\ dir = [c \in Ctrs |-> "none"]
        /\ file = [c \in Ctrs |-> "none"]
        /\ kernel = [c \in Ctrs |-> 0]
        /\ throttle = [c \in Ctrs |-> 0]
        /\ app = [c \in Ctrs |-> "idle"]
        /\ mapped = {}
        /\ feed = Asleep
        /\ scrape = NoScrape
        /\ trouble = 0

regions == <<kernel, throttle>>
node == <<pod, dir, file, app>>

Trouble(f) == f \in Faults /\ trouble < MaxTrouble /\ trouble' = trouble + 1

\* The process ends and its DaemonSet starts it again: the mappings are gone, the
\* regions are not.
MonitorDies == /\ mapped' = {} /\ feed' = Asleep /\ scrape' = NoScrape
               /\ UNCHANGED <<node, regions>>

-----------------------------------------------------------------------------
(* Update.                                                                   *)
ListPods ==
  /\ feed.pc = "sleep"
  /\ feed' = [feed EXCEPT !.pc = "update", !.pods = {c \in Ctrs : pod[c] \in {"bound", "live"}}]
  /\ UNCHANGED <<node, regions, mapped, scrape, trouble>>

\* An error of the list, or of reading the directory: nothing is removed and
\* nothing observed this time.
UpdateFails == /\ feed.pc \in {"sleep", "update"}
               /\ Trouble("list")
               /\ feed' = Asleep
               /\ UNCHANGED <<node, regions, mapped, scrape>>

\* Mutants of Removable: the age of the directory is not looked at, or the pods.
RemovableMutant(c) == dir[c] # "none" /\ c \notin feed.pods
RemovableOld(c) == dir[c] = "old"

Removable(c) == dir[c] = "old" /\ c \notin feed.pods

\* loadCache: a file without the header is an error, no file is none yet.
Loadable(c) == dir[c] # "none" /\ c \in feed.pods /\ file[c] = "ready"

\* Update holds the lock of the table; an entry once in it is not loaded again.
\* Observe then takes a copy of the table.
Update ==
  /\ feed.pc = "update"
  /\ \E failed \in SUBSET {c \in Ctrs \ mapped : Loadable(c)} :
       LET rm == {c \in Ctrs : Removable(c)}
           now == (mapped \cup {c \in Ctrs : Loadable(c) /\ c \notin failed}) \ rm
       IN /\ IF failed = {} THEN UNCHANGED trouble ELSE Trouble("load")
          /\ dir' = [c \in Ctrs |-> IF c \in rm THEN "none" ELSE dir[c]]
          /\ file' = [c \in Ctrs |-> IF c \in rm THEN "none" ELSE file[c]]
          /\ mapped' = now
          /\ feed' = [Asleep EXCEPT !.pc = "count", !.copy = now, !.todo = now]
  /\ UNCHANGED <<pod, app, regions, scrape>>

-----------------------------------------------------------------------------
(* Observe.  Its maps are visited in any order.  A field is read and later     *)
(* written, and the library may write in between.                            *)
Read(c) ==
  /\ feed.pc \in {"count", "switch"} /\ feed.at = {} /\ c \in feed.todo
  /\ feed' = [feed EXCEPT !.at = {c}, !.todo = @ \ {c}, !.read = kernel[c]]
  /\ UNCHANGED <<node, regions, mapped, scrape, trouble>>

\* Mutant of Decayed: the field keeps its value.
DecayedMutant(v) == v

Decayed(v) == IF v > 0 THEN v - 1 ELSE v

\* The first loop.  A container that is active still is counted, under an index
\* that ends the process if the slice does not have it.
Count(c) ==
  LET v == Decayed(feed.read) IN
  /\ feed.pc = "count" /\ feed.at = {c}
  /\ IF v > 0 /\ Priority[c] \notin {0, 1}
       THEN MonitorDies
       ELSE /\ kernel' = IF feed.read > 0 THEN [kernel EXCEPT ![c] = v] ELSE kernel
            /\ feed' = [feed EXCEPT !.at = {}, !.read = 0,
                          !.on = IF v > 0 THEN @ \cup {c} ELSE @]
            /\ UNCHANGED <<node, throttle, mapped, scrape>>
  /\ UNCHANGED trouble

CountEnds ==
  /\ feed.pc = "count" /\ feed.at = {} /\ feed.todo = {}
  /\ feed' = [feed EXCEPT !.pc = "switch", !.todo = feed.copy]
  /\ UNCHANGED <<node, regions, mapped, scrape, trouble>>

\* Mutant of CheckBlocking: its own priority blocks a container as well.
CheckBlockingMutant(on, c) ==
  \E i \in DOMAIN Uses[c] : \E p \in 0 .. Priority[c] : utSwitchOn(on, Uses[c][i], p) > 0

\* Whether a container of higher priority is active on the first of its GPUs on
\* which any is.
CheckBlocking(on, c) ==
  \E i \in DOMAIN Uses[c] :
    /\ Uses[c][i] \in Contended(on)
    /\ \A j \in 1 .. i - 1 : Uses[c][j] \notin Contended(on)
    /\ \E p \in 0 .. Priority[c] - 1 : utSwitchOn(on, Uses[c][i], p) > 0

\* Whether a container of higher priority, or another one of the same, is active
\* on any of its GPUs.
CheckPriority(on, c) ==
  \E g \in Devices(c) \cap Contended(on) :
    \/ \E p \in 0 .. Priority[c] - 1 : utSwitchOn(on, g, p) > 0
    \/ utSwitchOn(on, g, Priority[c]) > 1

\* Mutant of Gate: a container that is held back already is counted down further.
GateDown(v, blocking) == IF blocking THEN v - 1 ELSE IF v < 0 THEN 0 ELSE v

\* What recentKernel becomes: -1 holds a container back.
Gate(v, blocking) == IF blocking THEN -1 ELSE IF v < 0 THEN 0 ELSE v

\* The second loop.  The field is written only if it is to change.  A negative
\* priority is no index either.
Switch(c) ==
  LET new == Gate(feed.read, CheckBlocking(feed.on, c)) IN
  /\ feed.pc = "switch" /\ feed.at = {c}
  /\ IF Priority[c] < 0 /\ Devices(c) \cap Contended(feed.on) # {}
       THEN MonitorDies
       ELSE /\ kernel' = IF new = feed.read THEN kernel ELSE [kernel EXCEPT ![c] = new]
            /\ throttle' = [throttle EXCEPT ![c] = IF CheckPriority(feed.on, c) THEN 1 ELSE 0]
            /\ feed' = [feed EXCEPT !.at = {}, !.read = 0]
            /\ UNCHANGED <<node, mapped, scrape>>
  /\ UNCHANGED trouble

RoundEnds ==
  /\ feed.pc = "switch" /\ feed.at = {} /\ feed.todo = {}
  /\ feed' = Asleep
  /\ UNCHANGED <<node, regions, mapped, scrape, trouble>>

-----------------------------------------------------------------------------
(* Collect.                                                                  *)

\* The informer may be behind or ahead of the table; only the regions of the pods
\* it knows are read.
StartScrape ==
  /\ scrape.pc = "idle"
  /\ \E known \in SUBSET {c \in mapped : pod[c] # "none"} :
       known # {} /\ scrape' = [pc |-> "read", todo |-> known]
  /\ UNCHANGED <<node, regions, mapped, feed, trouble>>

\* A region that was unmapped since cannot be read: the process dies.
Scrape(c) ==
  /\ c \in scrape.todo
  /\ IF c \in mapped
       THEN /\ scrape' = IF scrape.todo = {c} THEN NoScrape ELSE [scrape EXCEPT !.todo = @ \ {c}]
            /\ UNCHANGED <<node, regions, mapped, feed>>
       ELSE MonitorDies
  /\ UNCHANGED trouble

Crash == Trouble("crash") /\ MonitorDies

-----------------------------------------------------------------------------
(* The node and the library in the containers (external, but for the plugin's *)
(* Allocate).                                                                *)
Bind(c) ==
  /\ pod[c] = "none"
  /\ pod' = [pod EXCEPT ![c] = "bound"]
  /\ UNCHANGED <<dir, file, app, regions, mapped, feed, scrape, trouble>>

\* The plugin removes what there is of the directory, makes it anew and answers.
Allocate(c) ==
  /\ pod[c] = "bound"
  /\ pod' = [pod EXCEPT ![c] = "live"]
  /\ dir' = [dir EXCEPT ![c] = "fresh"]
  /\ file' = [file EXCEPT ![c] = "none"]
  /\ UNCHANGED <<app, regions, mapped, feed, scrape, trouble>>

\* Three hundred seconds pass.  A round of the monitor is shorter than that: what
\* was made after it listed the pods is not old when it looks.
Age(c) ==
  /\ dir[c] = "fresh"
  /\ feed.pc = "update" => c \in feed.pods \/ pod[c] = "gone"
  /\ dir' = [dir EXCEPT ![c] = "old"]
  /\ UNCHANGED <<pod, file, app, regions, mapped, feed, scrape, trouble>>

\* The library makes the file, which renews the directory, and then its header.
Attach(c) ==
  /\ pod[c] = "live" /\ file[c] # "ready"
  /\ file' = [file EXCEPT ![c] = IF @ = "none" THEN "raw" ELSE "ready"]
  /\ dir' = [dir EXCEPT ![c] = IF file[c] = "none" /\ @ # "none" THEN "fresh" ELSE @]
  /\ UNCHANGED <<pod, app, regions, mapped, feed, scrape, trouble>>

Launch(c) ==
  /\ pod[c] = "live" /\ file[c] = "ready" /\ app[c] = "idle" /\ kernel[c] >= 0
  /\ app' = [app EXCEPT ![c] = "launch"]
  /\ UNCHANGED <<pod, dir, file, regions, mapped, feed, scrape, trouble>>

SetBusy(c) ==
  /\ app[c] = "launch"
  /\ app' = [app EXCEPT ![c] = "idle"]
  /\ kernel' = [kernel EXCEPT ![c] = Busy]
  /\ UNCHANGED <<pod, dir, file, throttle, mapped, feed, scrape, trouble>>

Delete(c) ==
  /\ pod[c] \in {"bound", "live"}
  /\ pod' = [pod EXCEPT ![c] = "gone"]
  /\ app' = [app EXCEPT ![c] = "idle"]
  /\ UNCHANGED <<dir, file, regions, mapped, feed, scrape, trouble>>

FeedRuns == \/ ListPods \/ Update \/ CountEnds \/ RoundEnds
            \/ \E c \in Ctrs : Read(c) \/ Count(c) \/ Switch(c)

Next == \/ FeedRuns \/ UpdateFails \/ StartScrape \/ Crash
        \/ \E c \in Ctrs : \/ Scrape(c) \/ Bind(c) \/ Allocate(c) \/ Age(c)
                           \/ Attach(c) \/ Launch(c) \/ SetBusy(c) \/ Delete(c)

Spec == Init /\ [][Next]_vars

\* The goroutine wakes again and runs on; a library that has begun to start a
\* kernel starts it; time passes.
FairSpec == /\ Spec
            /\ WF_vars(FeedRuns)
            /\ \A c \in Ctrs : WF_vars(SetBusy(c)) /\ WF_vars(Age(c))

-----------------------------------------------------------------------------
\* Every variable has its type; what is counted or visited is in the copy.
TypeOK ==
  /\ pod \in [Ctrs -> {"none", "bound", "live", "gone"}]
  /\ dir \in [Ctrs -> {"none", "fresh", "old"}]
  /\ file \in [Ctrs -> {"none", "raw", "ready"}]
  /\ kernel \in [Ctrs -> -1 .. Busy]
  /\ throttle \in [Ctrs -> {0, 1}]
  /\ app \in [Ctrs -> {"idle", "launch"}]
  /\ mapped \subseteq Ctrs
  /\ feed.pc \in {"sleep", "update", "count", "switch"}
  /\ feed.pods \subseteq Ctrs /\ feed.copy \subseteq Ctrs /\ feed.read \in -1 .. Busy
  /\ feed.todo \cup feed.at \cup feed.on \subseteq feed.copy
  /\ scrape.pc \in {"idle", "read"} /\ scrape.todo \subseteq Ctrs
  /\ trouble \in 0 .. MaxTrouble

\* The directory of a container is not removed under it: neither a list of pods
\* that is older than the pod nor one that failed costs a running container its
\* region.
LiveRegionIsKept == \A c \in Ctrs : pod[c] = "live" => dir[c] # "none"

\* The feedback goroutine never touches a region that is no longer mapped, and a
\* scrape only one whose pod is gone.
UnmappedIsUnused ==
  /\ feed.pc \in {"count", "switch"} => feed.copy \subseteq mapped
  /\ \A c \in scrape.todo \ mapped : pod[c] = "gone"

\* A container is held back only while one of higher priority on one of its GPUs
\* is busy, as far as the round that holds it back has seen.
BlockedIsOutranked ==
  [][\A c \in Ctrs : kernel[c] >= 0 /\ kernel'[c] < 0 =>
       \E h \in feed.on : /\ Priority[h] < Priority[c]
                         /\ Devices(h) \cap Devices(c) # {}]_vars

\* A container that is held back goes on once the others start no more kernels,
\* even if one of them went away while it was busy.
BlockedIsReleased ==
  \A c \in Ctrs : <>[](\A h \in Ctrs \ {c} : app[h] = "idle")
                    => []<>(kernel[c] >= 0 \/ pod[c] = "gone")

\* So does the limit on its utilisation: alone on its GPUs it is not its own rival.
ThrottleIsLifted ==
  \A c \in Ctrs : <>[](\A h \in Ctrs \ {c} : app[h] = "idle")
                    => []<>(throttle[c] = 0 \/ pod[c] = "gone")
=============================================================================
