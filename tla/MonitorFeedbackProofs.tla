----------------------- MODULE MonitorFeedbackProofs -----------------------
(***************************************************************************)
(* Theorems about the monitor of MonitorFeedback: which directories it     *)
(* removes, which regions it touches and whom it holds back, for every     *)
(* number of containers and GPUs, every priority and every fault.          *)
(***************************************************************************)
EXTENDS MonitorFeedback, FiniteSetTheorems, TLAPS

FeedStates ==
  [pc : {"sleep", "update", "count", "switch"}, pods : SUBSET Ctrs, copy : SUBSET Ctrs,
   todo : SUBSET Ctrs, at : SUBSET Ctrs, read : -1 .. Busy, on : SUBSET Ctrs]

ScrapeStates == [pc : {"idle", "read"}, todo : SUBSET Ctrs]

\* The types, with those of the two goroutines in full.
Typed == TypeOK /\ feed \in FeedStates /\ scrape \in ScrapeStates

-----------------------------------------------------------------------------
(* Types.                                                                    *)

LEMMA AsleepTyped == Asleep \in FeedStates /\ Asleep.todo \cup Asleep.at \cup Asleep.on = {}
BY ConstantsAssumption DEF Asleep, FeedStates

LEMMA NoScrapeTyped == NoScrape \in ScrapeStates
BY DEF NoScrape, ScrapeStates

\* What a round writes into recentKernel is again between -1 and Busy.
LEMMA KernelRange ==
  ASSUME NEW v \in -1 .. Busy, NEW b \in BOOLEAN
  PROVE  /\ Decayed(v) \in -1 .. Busy /\ (v >= 0 => Decayed(v) >= 0)
         /\ Gate(v, b) \in -1 .. Busy /\ (Gate(v, b) < 0 => b)
BY ConstantsAssumption DEF Decayed, Gate

LEMMA TypedInit == Init => Typed
<1> SUFFICES ASSUME Init
             PROVE  Typed
  OBVIOUS
<1>1. /\ pod \in [Ctrs -> {"none", "bound", "live", "gone"}]
      /\ dir \in [Ctrs -> {"none", "fresh", "old"}]
      /\ file \in [Ctrs -> {"none", "raw", "ready"}]
      /\ app \in [Ctrs -> {"idle", "launch"}]
      /\ throttle \in [Ctrs -> {0, 1}]
  BY DEF Init
<1>2. kernel \in [Ctrs -> -1 .. Busy]
  BY ConstantsAssumption DEF Init
<1>3. feed \in FeedStates /\ feed.todo \cup feed.at \cup feed.on \subseteq feed.copy
  BY AsleepTyped DEF Init
<1>4. scrape \in ScrapeStates
  BY NoScrapeTyped DEF Init
<1>5. mapped = {} /\ trouble \in 0 .. MaxTrouble
  BY ConstantsAssumption DEF Init
<1> QED BY <1>1, <1>2, <1>3, <1>4, <1>5 DEF Typed, TypeOK, FeedStates, ScrapeStates

\* The type of the state from those of its parts.
LEMMA Assemble ==
  ASSUME pod' \in [Ctrs -> {"none", "bound", "live", "gone"}],
         dir' \in [Ctrs -> {"none", "fresh", "old"}],
         file' \in [Ctrs -> {"none", "raw", "ready"}],
         app' \in [Ctrs -> {"idle", "launch"}],
         kernel' \in [Ctrs -> -1 .. Busy], throttle' \in [Ctrs -> {0, 1}],
         mapped' \subseteq Ctrs, feed' \in FeedStates,
         feed'.todo \cup feed'.at \cup feed'.on \subseteq feed'.copy,
         scrape' \in ScrapeStates, trouble' \in 0 .. MaxTrouble
  PROVE  Typed'
BY DEF Typed, TypeOK, FeedStates, ScrapeStates

LEMMA TroubleTyped ==
  ASSUME Typed, NEW f, Trouble(f)
  PROVE  trouble' \in 0 .. MaxTrouble
BY ConstantsAssumption DEF Typed, TypeOK, Trouble

LEMMA DiesTyped ==
  ASSUME Typed, MonitorDies, trouble' \in 0 .. MaxTrouble
  PROVE  Typed'
<1>1. UNCHANGED <<pod, dir, file, app, kernel, throttle>>
  BY DEF MonitorDies, node, regions
<1>2. mapped' = {} /\ feed' = Asleep /\ scrape' = NoScrape
  BY DEF MonitorDies
<1> QED BY <1>1, <1>2, AsleepTyped, NoScrapeTyped, Assemble DEF Typed, TypeOK

LEMMA TypedNext == Typed /\ [Next]_vars => Typed'
<1> SUFFICES ASSUME Typed, [Next]_vars
             PROVE  Typed'
  OBVIOUS
<1>z. 0 \in -1 .. Busy /\ Busy \in -1 .. Busy
  BY ConstantsAssumption
<1>0. /\ pod \in [Ctrs -> {"none", "bound", "live", "gone"}]
      /\ dir \in [Ctrs -> {"none", "fresh", "old"}]
      /\ file \in [Ctrs -> {"none", "raw", "ready"}]
      /\ app \in [Ctrs -> {"idle", "launch"}]
      /\ kernel \in [Ctrs -> -1 .. Busy] /\ throttle \in [Ctrs -> {0, 1}]
      /\ mapped \subseteq Ctrs /\ feed \in FeedStates
      /\ feed.todo \cup feed.at \cup feed.on \subseteq feed.copy
      /\ scrape \in ScrapeStates /\ trouble \in 0 .. MaxTrouble
  BY DEF Typed, TypeOK
<1>1. CASE ListPods
  <2>1. feed' \in FeedStates /\ feed'.todo \cup feed'.at \cup feed'.on \subseteq feed'.copy
    <3>1. PICK pods \in SUBSET Ctrs : feed' = [feed EXCEPT !.pc = "update", !.pods = pods]
      <4>1. {c \in Ctrs : pod[c] \in {"bound", "live"}} \in SUBSET Ctrs
        OBVIOUS
      <4> QED BY <1>1, <4>1, Zenon DEF ListPods
    <3> QED BY <1>0, <3>1 DEF FeedStates
  <2> QED BY <1>0, <1>1, <2>1, Assemble DEF ListPods, node, regions
<1>2. CASE UpdateFails
  <2>1. trouble' \in 0 .. MaxTrouble
    BY <1>2, TroubleTyped DEF UpdateFails
  <2> QED BY <1>0, <1>2, <2>1, AsleepTyped, Assemble DEF UpdateFails, node, regions
<1>3. CASE Update
  <2>1. PICK failed \in SUBSET {c \in Ctrs \ mapped : Loadable(c)} :
          LET rm == {c \in Ctrs : Removable(c)}
              now == (mapped \cup {c \in Ctrs : Loadable(c) /\ c \notin failed}) \ rm
          IN /\ IF failed = {} THEN UNCHANGED trouble ELSE Trouble("load")
             /\ dir' = [c \in Ctrs |-> IF c \in rm THEN "none" ELSE dir[c]]
             /\ file' = [c \in Ctrs |-> IF c \in rm THEN "none" ELSE file[c]]
             /\ mapped' = now
             /\ feed' = [Asleep EXCEPT !.pc = "count", !.copy = now, !.todo = now]
    BY <1>3, Zenon DEF Update
  <2>2. UNCHANGED <<pod, app, kernel, throttle, scrape>>
    BY <1>3, Zenon DEF Update, regions
  <2>3. trouble' \in 0 .. MaxTrouble
    BY <1>0, <2>1, TroubleTyped
  <2>4. mapped' \subseteq Ctrs
    BY <1>0, <2>1
  <2>5. dir' \in [Ctrs -> {"none", "fresh", "old"}] /\ file' \in [Ctrs -> {"none", "raw", "ready"}]
    BY <1>0, <2>1
  <2>6. feed' = [Asleep EXCEPT !.pc = "count", !.copy = mapped', !.todo = mapped']
    BY <2>1
  <2>7. feed' \in FeedStates /\ feed'.todo \cup feed'.at \cup feed'.on \subseteq feed'.copy
    <3>1. feed' = [pc |-> "count", pods |-> {}, copy |-> mapped', todo |-> mapped',
                   at |-> {}, read |-> 0, on |-> {}]
      BY <2>6 DEF Asleep
    <3> QED BY <1>z, <2>4, <3>1 DEF FeedStates
  <2> QED BY <1>0, <2>2, <2>3, <2>4, <2>5, <2>7, Assemble
<1>4. ASSUME NEW c \in Ctrs, Read(c)
      PROVE  Typed'
  <2>1. feed' \in FeedStates /\ feed'.todo \cup feed'.at \cup feed'.on \subseteq feed'.copy
    <3>1. kernel[c] \in -1 .. Busy
      BY <1>0
    <3>2. feed' = [feed EXCEPT !.at = {c}, !.todo = @ \ {c}, !.read = kernel[c]] /\ c \in feed.todo
      BY <1>4 DEF Read
    <3>3. {c} \in SUBSET Ctrs /\ feed.todo \ {c} \in SUBSET Ctrs
      BY <1>0 DEF FeedStates
    <3>4. feed' \in FeedStates
      BY <1>0, <3>1, <3>2, <3>3 DEF FeedStates
    <3>5. feed'.todo \cup feed'.at \cup feed'.on \subseteq feed'.copy
      BY <1>0, <3>2 DEF FeedStates
    <3> QED BY <3>4, <3>5
  <2> QED BY <1>0, <1>4, <2>1, Assemble DEF Read, node, regions
<1>5. ASSUME NEW c \in Ctrs, Count(c)
      PROVE  Typed'
  <2>1. trouble' \in 0 .. MaxTrouble
    BY <1>0, <1>5 DEF Count
  <2>2. CASE MonitorDies
    BY <2>1, <2>2, DiesTyped
  <2>3. CASE ~MonitorDies
    <3>1. feed.read \in -1 .. Busy /\ c \in feed.copy
      BY <1>0, <1>5 DEF Count, FeedStates
    <3>2. Decayed(feed.read) \in -1 .. Busy
      BY <3>1, KernelRange
    <3>3. /\ kernel' = IF feed.read > 0 THEN [kernel EXCEPT ![c] = Decayed(feed.read)] ELSE kernel
          /\ feed' = [feed EXCEPT !.at = {}, !.read = 0,
                         !.on = IF Decayed(feed.read) > 0 THEN @ \cup {c} ELSE @]
          /\ UNCHANGED <<pod, dir, file, app, throttle, mapped, scrape>>
      BY <1>5, <2>3, Zenon DEF Count, node
    <3>4. kernel' \in [Ctrs -> -1 .. Busy]
      BY <1>0, <3>2, <3>3
    <3>5. feed' \in FeedStates /\ feed'.todo \cup feed'.at \cup feed'.on \subseteq feed'.copy
      <4>1. PICK o \in {feed.on, feed.on \cup {c}} :
              feed' = [feed EXCEPT !.at = {}, !.read = 0, !.on = o]
        <5>1. CASE Decayed(feed.read) > 0
          BY <3>3, <5>1
        <5>2. CASE ~(Decayed(feed.read) > 0)
          BY <3>3, <5>2
        <5> QED BY <5>1, <5>2
      <4>2. o \subseteq feed.copy
        BY <1>0, <3>1
      <4> QED BY <1>z, <1>0, <4>1, <4>2 DEF FeedStates
    <3> QED BY <1>0, <2>1, <3>3, <3>4, <3>5, Assemble
  <2> QED BY <2>2, <2>3
<1>6. CASE CountEnds
  <2>1. feed' \in FeedStates /\ feed'.todo \cup feed'.at \cup feed'.on \subseteq feed'.copy
    BY <1>0, <1>6 DEF CountEnds, FeedStates
  <2> QED BY <1>0, <1>6, <2>1, Assemble DEF CountEnds, node, regions
<1>7. ASSUME NEW c \in Ctrs, Switch(c)
      PROVE  Typed'
  <2>1. trouble' \in 0 .. MaxTrouble
    BY <1>0, <1>7 DEF Switch
  <2>2. CASE MonitorDies
    BY <2>1, <2>2, DiesTyped
  <2>3. CASE ~MonitorDies
    <3> DEFINE new == Gate(feed.read, CheckBlocking(feed.on, c))
    <3>1. feed.read \in -1 .. Busy
      BY <1>0 DEF FeedStates
    <3>2. new \in -1 .. Busy
      BY <3>1, KernelRange DEF CheckBlocking
    <3>3. /\ kernel' = IF new = feed.read THEN kernel ELSE [kernel EXCEPT ![c] = new]
          /\ throttle' = [throttle EXCEPT ![c] = IF CheckPriority(feed.on, c) THEN 1 ELSE 0]
          /\ UNCHANGED <<pod, dir, file, app, mapped, scrape>>
          /\ feed' = [feed EXCEPT !.at = {}, !.read = 0]
      BY <1>7, <2>3, Zenon DEF Switch, node
    <3> HIDE DEF new
    <3>4. kernel' \in [Ctrs -> -1 .. Busy] /\ throttle' \in [Ctrs -> {0, 1}]
      BY <1>0, <3>2, <3>3
    <3>5. feed' \in FeedStates /\ feed'.todo \cup feed'.at \cup feed'.on \subseteq feed'.copy
      BY <1>z, <1>0, <3>3 DEF FeedStates
    <3> QED BY <1>0, <2>1, <3>3, <3>4, <3>5, Assemble
  <2> QED BY <2>2, <2>3
<1>8. CASE RoundEnds
  BY <1>0, <1>8, AsleepTyped, Assemble DEF RoundEnds, node, regions
<1>9. CASE StartScrape
  <2>1. scrape' \in ScrapeStates
    BY <1>0, <1>9 DEF StartScrape, ScrapeStates
  <2> QED BY <1>0, <1>9, <2>1, Assemble DEF StartScrape, node, regions
<1>10. ASSUME NEW c \in Ctrs, Scrape(c)
       PROVE  Typed'
  <2>1. trouble' \in 0 .. MaxTrouble
    BY <1>0, <1>10 DEF Scrape
  <2>2. CASE MonitorDies
    BY <2>1, <2>2, DiesTyped
  <2>3. CASE ~MonitorDies
    <3>1. /\ UNCHANGED <<pod, dir, file, app, kernel, throttle, mapped, feed>>
          /\ scrape' = NoScrape \/ scrape' = [scrape EXCEPT !.todo = @ \ {c}]
      BY <1>10, <2>3, Zenon DEF Scrape, node, regions
    <3>2. scrape' \in ScrapeStates
      BY <1>0, <3>1, NoScrapeTyped DEF ScrapeStates
    <3> QED BY <1>0, <2>1, <3>1, <3>2, Assemble
  <2> QED BY <2>2, <2>3
<1>11. CASE Crash
  BY <1>11, TroubleTyped, DiesTyped DEF Crash
<1>12. ASSUME NEW c \in Ctrs, Bind(c) \/ Allocate(c) \/ Delete(c)
       PROVE  Typed'
  <2>1. /\ pod' \in [Ctrs -> {"none", "bound", "live", "gone"}]
        /\ dir' \in [Ctrs -> {"none", "fresh", "old"}]
        /\ app' \in [Ctrs -> {"idle", "launch"}]
    BY <1>0, <1>12 DEF Bind, Allocate, Delete
  <2> QED BY <1>0, <1>12, <2>1, Assemble DEF Bind, Allocate, Delete, regions
<1>13. ASSUME NEW c \in Ctrs, Age(c) \/ Attach(c)
       PROVE  Typed'
  <2>1. /\ dir' \in [Ctrs -> {"none", "fresh", "old"}]
        /\ file' \in [Ctrs -> {"none", "raw", "ready"}]
    BY <1>0, <1>13 DEF Age, Attach
  <2> QED BY <1>0, <1>13, <2>1, Assemble DEF Age, Attach, regions
<1>14. ASSUME NEW c \in Ctrs, Launch(c) \/ SetBusy(c)
       PROVE  Typed'
  <2>1. app' \in [Ctrs -> {"idle", "launch"}] /\ kernel' \in [Ctrs -> -1 .. Busy]
    BY <1>z, <1>0, <1>14 DEF Launch, SetBusy, regions
  <2> QED BY <1>0, <1>14, <2>1, Assemble DEF Launch, SetBusy, regions
<1>15. CASE UNCHANGED vars
  BY <1>0, <1>15, Assemble DEF vars
<1> QED
  BY <1>1, <1>2, <1>3, <1>4, <1>5, <1>6, <1>7, <1>8, <1>9, <1>10, <1>11, <1>12, <1>13,
     <1>14, <1>15
  DEF Next, FeedRuns

\* Every variable has its type; what a round counts or visits is in its copy of the
\* table (watchAndFeedback, Observe, Collect).
THEOREM TypeCorrect == Spec => []TypeOK
<1>1. Typed => TypeOK
  BY DEF Typed
<1> QED BY TypedInit, TypedNext, <1>1, PTL DEF Spec

-----------------------------------------------------------------------------
(* Directories and regions.                                                  *)

\* A container that started since the pods were listed has a new directory: what
\* Update finds old belonged to a pod that was listed, or is gone.
NewIsFresh ==
  feed.pc = "update" => \A c \in Ctrs : pod[c] = "live" /\ c \notin feed.pods => dir[c] = "fresh"

\* There is a file, a mapping and a reader of it only for what Allocate has answered.
Started ==
  \A c \in Ctrs : file[c] # "none" \/ c \in mapped \/ c \in scrape.todo => pod[c] \in {"live", "gone"}

RegionInv == NewIsFresh /\ Started /\ LiveRegionIsKept /\ UnmappedIsUnused

\* Steps that touch neither the table nor the node.
LEMMA QuietKeeps ==
  ASSUME RegionInv, UNCHANGED <<pod, dir, file, mapped, scrape>>,
         \/ feed' = feed
         \/ feed'.pc = "sleep"
         \/ feed'.pc \in {"count", "switch"} /\ feed.pc \in {"count", "switch"} /\ feed'.copy = feed.copy
  PROVE  RegionInv'
BY DEF RegionInv, NewIsFresh, Started, LiveRegionIsKept, UnmappedIsUnused

LEMMA DiesKeeps ==
  ASSUME RegionInv, MonitorDies
  PROVE  RegionInv'
<1>1. UNCHANGED <<pod, dir, file>> /\ mapped' = {} /\ feed'.pc = "sleep" /\ scrape'.todo = {}
  BY DEF MonitorDies, node, Asleep, NoScrape
<1> QED BY <1>1 DEF RegionInv, NewIsFresh, Started, LiveRegionIsKept, UnmappedIsUnused

LEMMA RegionInvNext == Typed /\ RegionInv /\ [Next]_vars => RegionInv'
<1> SUFFICES ASSUME Typed, RegionInv, [Next]_vars
             PROVE  RegionInv'
  OBVIOUS
<1>0. /\ pod \in [Ctrs -> {"none", "bound", "live", "gone"}]
      /\ dir \in [Ctrs -> {"none", "fresh", "old"}]
      /\ file \in [Ctrs -> {"none", "raw", "ready"}]
      /\ mapped \subseteq Ctrs /\ feed \in FeedStates /\ scrape \in ScrapeStates
  BY DEF Typed, TypeOK
<1>1. CASE ListPods
  <2>1. /\ feed'.pc = "update" /\ feed'.pods = {c \in Ctrs : pod[c] \in {"bound", "live"}}
        /\ UNCHANGED <<pod, dir, file, mapped, scrape>>
    BY <1>0, <1>1 DEF ListPods, node, FeedStates
  <2> QED BY <2>1 DEF RegionInv, NewIsFresh, Started, LiveRegionIsKept, UnmappedIsUnused
<1>2. CASE UpdateFails \/ RoundEnds
  <2>1. feed'.pc = "sleep" /\ UNCHANGED <<pod, dir, file, mapped, scrape>>
    BY <1>2 DEF UpdateFails, RoundEnds, node, Asleep
  <2> QED BY <2>1, QuietKeeps
<1>3. CASE Update
  <2>1. PICK failed \in SUBSET {c \in Ctrs \ mapped : Loadable(c)} :
          LET rm == {c \in Ctrs : Removable(c)}
              now == (mapped \cup {c \in Ctrs : Loadable(c) /\ c \notin failed}) \ rm
          IN /\ dir' = [c \in Ctrs |-> IF c \in rm THEN "none" ELSE dir[c]]
             /\ file' = [c \in Ctrs |-> IF c \in rm THEN "none" ELSE file[c]]
             /\ mapped' = now
             /\ feed' = [Asleep EXCEPT !.pc = "count", !.copy = now, !.todo = now]
    BY <1>3, Zenon DEF Update
  <2>2. UNCHANGED <<pod, scrape>> /\ feed.pc = "update"
    BY <1>3, Zenon DEF Update
  <2>3. feed'.pc = "count" /\ feed'.copy = mapped'
    BY <2>1 DEF Asleep
  <2>4. \A c \in Ctrs : Removable(c) => pod[c] # "live"
    BY <2>2 DEF Removable, RegionInv, NewIsFresh
  <2>5. \A c \in Ctrs : c \in mapped' => c \in mapped \/ file[c] = "ready"
    BY <2>1 DEF Loadable
  <2>6. \A c \in Ctrs : c \in mapped /\ c \notin mapped' => Removable(c)
    BY <2>1
  <2>7. LiveRegionIsKept'
    BY <2>1, <2>2, <2>4 DEF RegionInv, LiveRegionIsKept
  <2>8. \A c \in Ctrs : file'[c] # "none" => file[c] # "none"
    BY <2>1
  <2>9. Started'
    BY <2>2, <2>5, <2>8 DEF RegionInv, Started
  <2>10. \A c \in scrape.todo : c \in Ctrs /\ pod[c] \in {"live", "gone"}
    BY <1>0 DEF RegionInv, Started, ScrapeStates
  <2>11. UnmappedIsUnused'
    BY <2>2, <2>3, <2>4, <2>6, <2>10 DEF RegionInv, UnmappedIsUnused
  <2>12. NewIsFresh'
    BY <2>3 DEF NewIsFresh
  <2> QED BY <2>7, <2>9, <2>11, <2>12 DEF RegionInv
<1>4. ASSUME NEW c \in Ctrs, Read(c)
      PROVE  RegionInv'
  <2>1. /\ feed.pc \in {"count", "switch"} /\ feed'.pc = feed.pc /\ feed'.copy = feed.copy
        /\ UNCHANGED <<pod, dir, file, mapped, scrape>>
    BY <1>0, <1>4 DEF Read, node, FeedStates
  <2> QED BY <2>1, QuietKeeps
<1>5. ASSUME NEW c \in Ctrs, Count(c), ~MonitorDies
      PROVE  RegionInv'
  <2>1. /\ feed.pc = "count" /\ UNCHANGED <<pod, dir, file, mapped, scrape>>
        /\ feed' = [feed EXCEPT !.at = {}, !.read = 0,
                      !.on = IF Decayed(feed.read) > 0 THEN @ \cup {c} ELSE @]
    BY <1>5, Zenon DEF Count, node
  <2>2. feed'.pc = feed.pc /\ feed'.copy = feed.copy
    BY <1>0, <2>1 DEF FeedStates
  <2> QED BY <2>1, <2>2, QuietKeeps
<1>6. CASE CountEnds
  <2>1. /\ feed.pc = "count" /\ feed'.pc = "switch" /\ feed'.copy = feed.copy
        /\ UNCHANGED <<pod, dir, file, mapped, scrape>>
    BY <1>0, <1>6 DEF CountEnds, node, FeedStates
  <2> QED BY <2>1, QuietKeeps
<1>7. ASSUME NEW c \in Ctrs, Switch(c), ~MonitorDies
      PROVE  RegionInv'
  <2>1. /\ feed.pc = "switch" /\ UNCHANGED <<pod, dir, file, mapped, scrape>>
        /\ feed' = [feed EXCEPT !.at = {}, !.read = 0]
    BY <1>7, Zenon DEF Switch, node
  <2>2. feed'.pc = feed.pc /\ feed'.copy = feed.copy
    BY <1>0, <2>1 DEF FeedStates
  <2> QED BY <2>1, <2>2, QuietKeeps
<1>8. CASE StartScrape
  <2>1. PICK known \in SUBSET {c \in mapped : pod[c] # "none"} :
          scrape' = [pc |-> "read", todo |-> known]
    BY <1>8, Zenon DEF StartScrape
  <2>2. scrape'.todo \subseteq mapped /\ UNCHANGED <<pod, dir, file, mapped, feed>>
    BY <1>8, <2>1 DEF StartScrape, node
  <2> QED BY <2>2 DEF RegionInv, NewIsFresh, Started, LiveRegionIsKept, UnmappedIsUnused
<1>9. ASSUME NEW c \in Ctrs, Scrape(c), ~MonitorDies
      PROVE  RegionInv'
  <2>1. /\ scrape' = NoScrape \/ scrape' = [scrape EXCEPT !.todo = @ \ {c}]
        /\ UNCHANGED <<pod, dir, file, mapped, feed>>
    BY <1>9, Zenon DEF Scrape, node
  <2>2. scrape'.todo \subseteq scrape.todo
    BY <1>0, <2>1 DEF NoScrape, ScrapeStates
  <2> QED BY <2>1, <2>2 DEF RegionInv, NewIsFresh, Started, LiveRegionIsKept, UnmappedIsUnused
<1>10. CASE Crash
  BY <1>10, DiesKeeps DEF Crash
<1>11. ASSUME NEW c \in Ctrs, Bind(c)
       PROVE  RegionInv'
  BY <1>0, <1>11 DEF Bind, regions, RegionInv, NewIsFresh, Started, LiveRegionIsKept, UnmappedIsUnused
<1>12. ASSUME NEW c \in Ctrs, Allocate(c)
       PROVE  RegionInv'
  BY <1>0, <1>12 DEF Allocate, RegionInv, NewIsFresh, Started, LiveRegionIsKept, UnmappedIsUnused
<1>13. ASSUME NEW c \in Ctrs, Age(c)
       PROVE  RegionInv'
  BY <1>0, <1>13 DEF Age, RegionInv, NewIsFresh, Started, LiveRegionIsKept, UnmappedIsUnused
<1>14. ASSUME NEW c \in Ctrs, Attach(c)
       PROVE  RegionInv'
  BY <1>0, <1>14 DEF Attach, RegionInv, NewIsFresh, Started, LiveRegionIsKept, UnmappedIsUnused
<1>15. ASSUME NEW c \in Ctrs, Launch(c) \/ SetBusy(c)
       PROVE  RegionInv'
  BY <1>15, QuietKeeps DEF Launch, SetBusy
<1>16. ASSUME NEW c \in Ctrs, Delete(c)
       PROVE  RegionInv'
  BY <1>0, <1>16 DEF Delete, RegionInv, NewIsFresh, Started, LiveRegionIsKept, UnmappedIsUnused
<1>17. CASE UNCHANGED vars
  BY <1>17, QuietKeeps DEF vars
<1> QED
  BY <1>1, <1>2, <1>3, <1>4, <1>5, <1>6, <1>7, <1>8, <1>9, <1>10, <1>11, <1>12, <1>13,
     <1>14, <1>15, <1>16, <1>17, DiesKeeps
  DEF Next, FeedRuns

LEMMA RegionInvInit == Init => RegionInv
BY DEF Init, Asleep, NoScrape, RegionInv, NewIsFresh, Started, LiveRegionIsKept, UnmappedIsUnused

\* No container loses its directory while it runs, however old the list of pods is that
\* Update compares the directories with (ContainerLister.Update).
THEOREM RunningKeepsRegion == Spec => []LiveRegionIsKept
<1>1. RegionInv => LiveRegionIsKept
  BY DEF RegionInv
<1> QED BY TypedInit, TypedNext, RegionInvInit, RegionInvNext, <1>1, PTL DEF Spec

\* A round works on regions that are mapped, and a scrape that finds a region gone finds
\* its pod gone: the two goroutines share the table (Observe, Collect).
THEOREM RegionsStayMapped == Spec => []UnmappedIsUnused
<1>1. RegionInv => UnmappedIsUnused
  BY DEF RegionInv
<1> QED BY TypedInit, TypedNext, RegionInvInit, RegionInvNext, <1>1, PTL DEF Spec

-----------------------------------------------------------------------------
(* Who is held back.                                                         *)

\* CheckBlocking finds a container of higher priority on one of the GPUs.
LEMMA BlockerIsThere ==
  ASSUME NEW on, NEW c \in Ctrs, CheckBlocking(on, c)
  PROVE  \E h \in on : Priority[h] < Priority[c] /\ Devices(h) \cap Devices(c) # {}
<1>1. PICK i \in DOMAIN Uses[c], p \in 0 .. Priority[c] - 1 : utSwitchOn(on, Uses[c][i], p) > 0
  BY Zenon DEF CheckBlocking
<1>2. {h \in on : Uses[c][i] \in Devices(h) /\ Priority[h] = p} # {}
  <2>1. CASE {h \in on : Uses[c][i] \in Devices(h) /\ Priority[h] = p} = {}
    <3>1. utSwitchOn(on, Uses[c][i], p) = 0
      BY <2>1, FS_EmptySet DEF utSwitchOn
    <3> QED BY <1>1, <3>1
  <2> QED BY <2>1
<1>3. PICK h \in on : Uses[c][i] \in Devices(h) /\ Priority[h] = p
  BY <1>2
<1>4. Uses[c][i] \in Devices(c)
  BY DEF Devices
<1>5. p < Priority[c]
  BY <1>1, ConstantsAssumption
<1> QED BY <1>3, <1>4, <1>5

LEMMA HoldsBack ==
  ASSUME Typed, [Next]_vars, NEW c \in Ctrs, kernel[c] >= 0, kernel'[c] < 0
  PROVE  CheckBlocking(feed.on, c)
<1>0. kernel \in [Ctrs -> -1 .. Busy] /\ feed \in FeedStates /\ feed.read \in -1 .. Busy
  BY DEF Typed, TypeOK, FeedStates
<1>1. kernel' # kernel
  BY <1>0
<1>2. (\E d \in Ctrs : Count(d) \/ Switch(d) \/ SetBusy(d))
  BY <1>1, Zenon DEF Next, FeedRuns, vars, regions, ListPods, UpdateFails, Update, Read, CountEnds,
     RoundEnds, StartScrape, Scrape, MonitorDies, Crash, Bind, Allocate, Age, Attach, Launch, Delete
<1>3. ASSUME NEW d \in Ctrs, Count(d)
      PROVE  FALSE
  <2>1. feed.read > 0 /\ kernel' = [kernel EXCEPT ![d] = Decayed(feed.read)]
    BY <1>1, <1>3, Zenon DEF Count, MonitorDies, regions
  <2>2. Decayed(feed.read) \in Int /\ Decayed(feed.read) >= 0
    BY <1>0, <2>1 DEF Decayed
  <2>3. kernel'[c] \in Int /\ kernel'[c] >= 0
    BY <1>0, <2>1, <2>2
  <2> QED BY <2>3
<1>4. ASSUME NEW d \in Ctrs, SetBusy(d)
      PROVE  FALSE
  BY <1>0, <1>4, ConstantsAssumption DEF SetBusy
<1>5. ASSUME NEW d \in Ctrs, Switch(d)
      PROVE  CheckBlocking(feed.on, c)
  <2> DEFINE b == CheckBlocking(feed.on, d)
  <2>1. kernel' = [kernel EXCEPT ![d] = Gate(feed.read, b)]
    BY <1>1, <1>5, Zenon DEF Switch, MonitorDies, regions
  <2>2. b \in BOOLEAN
    BY DEF CheckBlocking
  <2> HIDE DEF b
  <2>3. Gate(feed.read, b) < 0 => b
    BY <1>0, <2>2, KernelRange
  <2>4. d = c /\ Gate(feed.read, b) < 0
    BY <1>0, <2>1
  <2> QED BY <2>3, <2>4 DEF b
<1> QED BY <1>2, <1>3, <1>4, <1>5

\* Whoever a round holds back is outranked, on a GPU the two share, by a container the
\* round has counted as active (CheckBlocking, Observe).
THEOREM BlockedHaveARank == Spec => BlockedIsOutranked
<1>1. ASSUME Typed, [Next]_vars
      PROVE  \A c \in Ctrs : kernel[c] >= 0 /\ kernel'[c] < 0 =>
               \E h \in feed.on : /\ Priority[h] < Priority[c]
                                 /\ Devices(h) \cap Devices(c) # {}
  <2> TAKE c \in Ctrs
  <2> HAVE kernel[c] >= 0 /\ kernel'[c] < 0
  <2>1. CheckBlocking(feed.on, c)
    BY <1>1, HoldsBack
  <2> QED BY <2>1, BlockerIsThere
<1> QED BY <1>1, TypedInit, TypedNext, PTL DEF Spec, BlockedIsOutranked
=============================================================================
