--------------------------- MODULE AlgorithmsProofs ---------------------------
(***************************************************************************)
(* Five theorems on the algorithms of MCAlgorithms, each for any input.    *)
(*                                                                         *)
(* A behaviour takes one step on its input, so that the invariant of each  *)
(* is that the result is one the algorithm may give for that input; what   *)
(* is proved is that every such result is right.                           *)
(*                                                                         *)
(* Where an algorithm runs through a list, its model is a fold.  A fold is *)
(* a function chosen to obey a recursion: the lemmas of InductionLemmas    *)
(* give one that does, so that the one chosen does too, and its values     *)
(* follow one another as the steps of the loop do.  Then an induction on   *)
(* the steps says what the loop has done: which channels it found, what it *)
(* added up, which partition a line stands for, which lists were merged.   *)
(*                                                                         *)
(*   StartedPluginsSound  every plugin started serves what it was made for *)
(*   LimitsMatch          the limits of a response are those of its devices*)
(*   MigDeviceAssigned    the MIG device named is the one assigned         *)
(*   SelectionMeant       an Xid is examined if the two lists select it    *)
(*   ScrapeTellsUsage     a scrape tells the usage of every container      *)
(***************************************************************************)
EXTENDS MCAlgorithms, InductionLemmas

\* A step on an input is that of the algorithm the input is for.
LEMMA OwnStep ==
  ASSUME Next
  PROVE  /\ task.of = "start" => Start
         /\ task.of = "partition" => Partition
         /\ task.of = "smi" => Smi
         /\ task.of = "spec" => WriteSpec
         /\ task.of = "scrape" => Scrape
         /\ task.of = "xid" => Xid
<1>1. (Build => task.of = "build") /\ (Share => task.of = "share") /\ (Prefer => task.of = "prefer")
  BY DEF Build, Share, Prefer, Step
<1>2. (List => task.of = "list") /\ (Start => task.of = "start") /\ (Partition => task.of = "partition")
  BY DEF List, Start, Partition, Step
<1>3. (Smi => task.of = "smi") /\ (WriteSpec => task.of = "spec")
  BY DEF Smi, WriteSpec, Step
<1>4. (Scrape => task.of = "scrape") /\ (Xid => task.of = "xid")
  BY DEF Scrape, Xid, Step
<1> QED BY <1>1, <1>2, <1>3, <1>4 DEF Next

-----------------------------------------------------------------------------
(* The channels that there are.                                             *)

\* The sequences seen after k of the ids.
PresentAfter(f, ids, host) ==
  /\ f[0] = <<>>
  /\ \A k \in 0 .. Len(ids) : f[k] \in Seq(Nat)
  /\ \A k \in 0 .. Len(ids) - 1 :
       f[k + 1] = IF ids[k + 1] \in host.channels THEN Append(f[k], ids[k + 1]) ELSE f[k]

\* GetChannels goes through the list from its first id to its last.
LEMMA PresentFold ==
  ASSUME NEW ids \in Seq(Nat), NEW host
  PROVE  \E f : PresentAfter(f, ids, host) /\ Present(ids, host) = f[Len(ids)]
<1> DEFINE n == Len(ids)
           V == Seq(Nat)
           body(iter, s) ==
             IF s = {} THEN <<>>
             ELSE IF ids[Max(s)] \in host.channels THEN Append(iter[s \ {Max(s)}], ids[Max(s)])
                  ELSE iter[s \ {Max(s)}]
           IsIter(iter) == iter = [s \in SUBSET (DOMAIN ids) |-> body(iter, s)]
           folded == CHOOSE iter : IsIter(iter)
           H == [t \in V \X (1 .. n) |-> IF ids[t[2]] \in host.channels THEN Append(t[1], ids[t[2]]) ELSE t[1]]
<1>0. n \in Nat /\ DOMAIN ids = 1 .. n /\ <<>> \in V
  OBVIOUS
<1>1. Present(ids, host) = folded[1 .. n]
  BY DEF Present, FoldLeft, MapThenFoldSet
<1>2. H \in [V \X (1 .. n) -> V]
  <2>1. ASSUME NEW t \in V \X (1 .. n)
        PROVE  (IF ids[t[2]] \in host.channels THEN Append(t[1], ids[t[2]]) ELSE t[1]) \in V
    <3>1. t[1] \in V /\ ids[t[2]] \in Nat
      OBVIOUS
    <3> QED BY <3>1
  <2> QED BY <2>1
<1>3. \A v \in V, k \in 1 .. n : H[<<v, k>>] = IF ids[k] \in host.channels THEN Append(v, ids[k]) ELSE v
  OBVIOUS
<1> HIDE DEF H, V, n
<1>4. ASSUME NEW s \in SUBSET (1 .. n), s # {}
      PROVE  Max(s) \in 1 .. n /\ s \ {Max(s)} \in SUBSET (1 .. n)
  BY <1>0, <1>4, MaxOfFirst
<1>5. \E f : IsIter(f)
  <2>1. PICK f \in [SUBSET (1 .. n) -> V] : FoldsLeft(f, n, <<>>, H)
    BY <1>0, <1>2, LeftRecursion
  <2>2. ASSUME NEW s \in SUBSET (1 .. n) PROVE f[s] = body(f, s)
    <3>1. CASE s = {}
      BY <3>1, <2>1 DEF FoldsLeft
    <3>2. CASE s # {}
      <4>1. f[s] = H[<<f[s \ {Max(s)}], Max(s)>>]
        BY <3>2, <2>1 DEF FoldsLeft
      <4> QED BY <3>2, <1>3, <1>4, <4>1
    <3> QED BY <3>1, <3>2
  <2> DEFINE h == [s \in SUBSET (DOMAIN ids) |-> body(f, s)]
  <2>3. DOMAIN f = DOMAIN h /\ \A s \in SUBSET (1 .. n) : f[s] = h[s]
    BY <1>0, <2>2
  <2>4. f = h
    BY <2>3, <1>0
  <2> QED BY <2>4
<1>6. IsIter(folded)
  <2> HIDE DEF IsIter
  <2> QED BY <1>5
<1>7. \A s \in SUBSET (1 .. n) : folded[s] = body(folded, s)
  <2> HIDE DEF folded
  <2> TAKE s \in SUBSET (1 .. n)
  <2> DEFINE h == [t \in SUBSET (DOMAIN ids) |-> body(folded, t)]
  <2>1. folded = h /\ h[s] = body(folded, s)
    BY <1>0, <1>6
  <2> QED BY <2>1
<1> HIDE DEF folded
<1>8. ObeysFold(folded, n, V, <<>>, H)
  BY <1>3, <1>4, <1>7 DEF ObeysFold
<1> HIDE DEF IsIter, body
<1>9. PICK g : StepsOf(g, folded, n, V, <<>>, H)
  BY <1>0, <1>2, <1>8, LeftSteps
<1>10. PresentAfter(g, ids, host)
  <2>1. \A k \in 0 .. n - 1 : g[k] \in V /\ k + 1 \in 1 .. n
    BY <1>0, <1>9 DEF StepsOf
  <2>2. \A k \in 0 .. n - 1 :
          g[k + 1] = IF ids[k + 1] \in host.channels THEN Append(g[k], ids[k + 1]) ELSE g[k]
    BY <1>3, <1>9, <2>1 DEF StepsOf
  <2> QED BY <1>9, <2>2 DEF StepsOf, PresentAfter, V, n
<1> QED BY <1>1, <1>9, <1>10 DEF n, StepsOf

\* The channels found are there, and if all are there, all are found.
LEMMA PresentIs ==
  ASSUME NEW ids \in Seq(Nat), NEW host
  PROVE  /\ Present(ids, host) \in Seq(Nat) /\ ToSet(Present(ids, host)) \subseteq host.channels
         /\ ToSet(ids) \subseteq host.channels => Present(ids, host) = ids
<1>1. PICK f : PresentAfter(f, ids, host) /\ Present(ids, host) = f[Len(ids)]
  BY PresentFold
<1> DEFINE Good == {k \in Nat : k <= Len(ids) =>
                      /\ \A j \in 1 .. Len(f[k]) : f[k][j] \in host.channels
                      /\ ToSet(ids) \subseteq host.channels => Len(f[k]) = k /\ \A j \in 1 .. k : f[k][j] = ids[j]}
<1>2. 0 \in Good
  BY <1>1 DEF PresentAfter
<1>3. ASSUME NEW k \in Nat, k \in Good PROVE k + 1 \in Good
  <2> SUFFICES ASSUME k + 1 <= Len(ids) PROVE k + 1 \in Good
    OBVIOUS
  <2>1. f[k] \in Seq(Nat) /\ k \in 0 .. Len(ids) - 1 /\ ids[k + 1] \in Nat /\ ids[k + 1] \in ToSet(ids)
    BY <1>1 DEF PresentAfter, ToSet
  <2>2. f[k + 1] = IF ids[k + 1] \in host.channels THEN Append(f[k], ids[k + 1]) ELSE f[k]
    BY <2>1, <1>1 DEF PresentAfter
  <2>3. CASE ids[k + 1] \in host.channels
    <3>1. f[k + 1] = Append(f[k], ids[k + 1])
      BY <2>2, <2>3
    <3>2. \A j \in 1 .. Len(f[k]) : f[k][j] \in host.channels
      BY <1>3
    <3>3. ToSet(ids) \subseteq host.channels => Len(f[k]) = k /\ \A j \in 1 .. k : f[k][j] = ids[j]
      BY <1>3
    <3>4. /\ Len(f[k + 1]) = Len(f[k]) + 1 /\ f[k + 1][Len(f[k]) + 1] = ids[k + 1]
          /\ \A j \in 1 .. Len(f[k]) : f[k + 1][j] = f[k][j]
      BY <2>1, <3>1
    <3>5. \A j \in 1 .. Len(f[k + 1]) : f[k + 1][j] \in host.channels
      <4> TAKE j \in 1 .. Len(f[k + 1])
      <4>1. CASE j = Len(f[k]) + 1
        BY <2>3, <3>4, <4>1
      <4>2. CASE j # Len(f[k]) + 1
        <5>1. j \in 1 .. Len(f[k])
          BY <2>1, <3>4, <4>2
        <5> QED BY <3>2, <3>4, <5>1
      <4> QED BY <4>1, <4>2
    <3>6. ASSUME ToSet(ids) \subseteq host.channels
          PROVE  Len(f[k + 1]) = k + 1 /\ \A j \in 1 .. k + 1 : f[k + 1][j] = ids[j]
      <4>1. Len(f[k]) = k /\ \A j \in 1 .. k : f[k][j] = ids[j]
        BY <3>3, <3>6
      <4>2. Len(f[k + 1]) = k + 1 /\ f[k + 1][k + 1] = ids[k + 1] /\ \A j \in 1 .. k : f[k + 1][j] = ids[j]
        BY <3>4, <4>1
      <4>3. \A j \in 1 .. k + 1 : j \in 1 .. k \/ j = k + 1
        OBVIOUS
      <4> QED BY <4>2, <4>3
    <3> QED BY <3>5, <3>6
  <2>4. CASE ids[k + 1] \notin host.channels
    BY <1>3, <2>1, <2>2, <2>4
  <2> QED BY <2>3, <2>4
<1> HIDE DEF Good
<1>4. Len(ids) \in Good
  BY <1>2, <1>3, Induction
<1> DEFINE last == f[Len(ids)]
<1>5. last \in Seq(Nat) /\ Len(ids) \in Nat
  BY <1>1 DEF PresentAfter
<1>6. /\ \A j \in 1 .. Len(last) : last[j] \in host.channels
      /\ ToSet(ids) \subseteq host.channels => Len(last) = Len(ids) /\ \A j \in 1 .. Len(ids) : last[j] = ids[j]
  BY <1>4, <1>5 DEF Good
<1> HIDE DEF last
<1>7. ToSet(last) \subseteq host.channels
  <2>1. DOMAIN last = 1 .. Len(last)
    BY <1>5
  <2> QED BY <1>6, <2>1 DEF ToSet
<1>8. ASSUME ToSet(ids) \subseteq host.channels PROVE last = ids
  <2>1. Len(last) = Len(ids) /\ \A j \in 1 .. Len(ids) : last[j] = ids[j]
    BY <1>6, <1>8
  <2> QED BY <1>5, <2>1
<1> QED BY <1>1, <1>5, <1>7, <1>8 DEF last

-----------------------------------------------------------------------------
(* The plugins that start.                                                  *)

\* What a plugin relies on, under these flags, on this host.
IsSound(p, flags, imex, host) ==
  /\ AnyCDIEnabled(flags.deviceListStrategy) => ~p.cdi.null
  /\ p.mps => "mig" \notin p.kinds /\ flags.mpsRoot # ""
  /\ ToSet(p.channels) \subseteq host.channels
  /\ imex.required => p.channels = imex.ids

\* A plugin is made of channels that were found and of a handler.
MadeOf(p, flags, sharing, imex, host, channels, handler) ==
  /\ channels \in GetChannels(imex, host)
  /\ handler \in CDIHandler(flags, channels, host)
  /\ p \in New(flags, sharing, channels, handler, host)

\* A plugin that is started was made for one of the resources, under flags that are valid.
LEMMA StartedIsMade ==
  ASSUME NEW flags, NEW sharing, NEW imex, NEW host, NEW p \in StartedPlugins(flags, sharing, imex, host)
  PROVE  /\ validateFlags(flags, sharing, imex, host)
         /\ \E channels, handler : MadeOf(p, flags, sharing, imex, host, channels, handler)
<1> DEFINE With(channels) == {New(flags, sharing, channels, handler, host) : handler \in CDIHandler(flags, channels, host)}
<1>1. /\ validateFlags(flags, sharing, imex, host)
      /\ p \in UNION {UNION With(channels) : channels \in GetChannels(imex, host)}
  BY DEF StartedPlugins
<1>2. PICK channels \in GetChannels(imex, host) : p \in UNION With(channels)
  <2> HIDE DEF With
  <2> QED BY <1>1
<1>3. PICK handler \in CDIHandler(flags, channels, host) : p \in New(flags, sharing, channels, handler, host)
  BY <1>2
<1> QED BY <1>1, <1>2, <1>3 DEF MadeOf

\* The channels found are there, and if they are required they are all.
LEMMA ChannelsAreThere ==
  ASSUME NEW imex, NEW host, AssertChannelIDsValid(imex.ids), NEW channels \in GetChannels(imex, host)
  PROVE  /\ channels \in Seq(Nat) /\ ToSet(channels) \subseteq host.channels
         /\ imex.required => channels = imex.ids
<1>1. imex.ids \in Seq(Nat)
  <2>1. imex.ids = <<>> \/ imex.ids = <<0>>
    BY DEF AssertChannelIDsValid
  <2>2. <<>> \in Seq(Nat) /\ <<0>> \in Seq(Nat)
    OBVIOUS
  <2> QED BY <2>1, <2>2
<1>2. channels = Present(imex.ids, host) /\ (imex.required => Missing(imex, host) = {})
  BY DEF GetChannels
<1>3. imex.required => ToSet(imex.ids) \subseteq host.channels
  BY <1>2 DEF Missing
<1> QED BY <1>1, <1>2, <1>3, PresentIs

\* Whatever the flags, the configuration and the host: a plugin that starts is sound.
LEMMA StartedIsSound ==
  ASSUME NEW flags, NEW sharing, NEW imex, NEW host, NEW p \in StartedPlugins(flags, sharing, imex, host)
  PROVE  IsSound(p, flags, imex, host)
<1>1. validateFlags(flags, sharing, imex, host)
  BY StartedIsMade
<1>2. PICK channels, handler : MadeOf(p, flags, sharing, imex, host, channels, handler)
  BY StartedIsMade
<1>3. /\ p.channels = channels /\ p.cdi = handler
      /\ p.mps = (SharingStrategy(sharing) = "mps")
      /\ getMPSOptions(sharing, p.kinds)
  <2>1. PICK kinds \in {k \in Managers(flags, host) : getMPSOptions(sharing, k)} :
          p = [kinds |-> kinds, channels |-> channels, cdi |-> handler, mps |-> SharingStrategy(sharing) = "mps"]
    BY <1>2 DEF MadeOf, New
  <2> QED BY <2>1
<1>4. ASSUME AnyCDIEnabled(flags.deviceListStrategy) PROVE ~p.cdi.null
  <2>1. host.nvml
    BY <1>1, <1>4 DEF validateFlags
  <2>2. handler \in CDIHandler(flags, channels, host)
    BY <1>2 DEF MadeOf
  <2>3. ~handler.null
    BY <1>4, <2>1, <2>2 DEF CDIHandler
  <2> QED BY <1>3, <2>3
<1>5. ASSUME p.mps PROVE "mig" \notin p.kinds /\ flags.mpsRoot # ""
  BY <1>1, <1>3, <1>5 DEF getMPSOptions, validateFlags
<1>6. ToSet(p.channels) \subseteq host.channels /\ (imex.required => p.channels = imex.ids)
  BY <1>1, <1>2, <1>3, ChannelsAreThere DEF validateFlags, MadeOf
<1> QED BY <1>4, <1>5, <1>6 DEF IsSound

\* What a start gives: no plugin, or one of those that may start and its response.
IsAnswer(o, p, r) ==
  /\ r \in getAllocateResponse(p, TheFlags, Requested)
  /\ o = [started |-> TRUE, plugin |-> p, response |-> r, limits |-> MemoryLimits(Requested, [factor |-> 2])]
Started(o) ==
  /\ task' = task /\ result' = <<o>>
  /\ \/ o = [started |-> FALSE]
     \/ \E r : \E p \in StartedPlugins(TheFlags, TheSharing, task.imex, task.host) : IsAnswer(o, p, r)

\* A step starts nothing, or answers a request to one of the plugins.
LEMMA StartGives ==
  ASSUME Start
  PROVE  \E o : Started(o)
<1> DEFINE plugins == StartedPlugins(TheFlags, TheSharing, task.imex, task.host)
           Answer(p, r) == [started |-> TRUE, plugin |-> p, response |-> r, limits |-> MemoryLimits(Requested, [factor |-> 2])]
           Answers(p) == {Answer(p, r) : r \in getAllocateResponse(p, TheFlags, Requested)}
<1>1. /\ task' = task
      /\ \E o \in IF plugins = {} THEN {[started |-> FALSE]} ELSE UNION {Answers(p) : p \in plugins} : result' = <<o>>
  BY DEF Start, Step
<1>2. PICK o : result' = <<o>> /\ (o = [started |-> FALSE] \/ \E p \in plugins : o \in Answers(p))
  <2> HIDE DEF plugins, Answers
  <2> QED BY <1>1
<1>3. ASSUME NEW p \in plugins, o \in Answers(p) PROVE \E r : IsAnswer(o, p, r)
  BY <1>3 DEF IsAnswer
<1> HIDE DEF Answers
<1> QED BY <1>1, <1>2, <1>3 DEF Started

\* The plugin starts with any flags, any configuration file, on any host.
StartInit == result = <<>> /\ task.of = "start"
StartSpec == StartInit /\ [][Next]_vars

\* Whatever the flags and the host, a plugin that has started has all it relies on
\* (startPlugins, validateFlags, cdi.New, getMPSOptions, GetChannels).
THEOREM StartedPluginsSound == StartSpec => []StartedPluginsAreSound
<1> DEFINE Inv == /\ task.of = "start"
                  /\ result # <<>> /\ Result.started => IsSound(Result.plugin, TheFlags, task.imex, task.host)
<1>1. StartInit => Inv
  BY DEF StartInit
<1>2. Inv /\ [Next]_vars => Inv'
  <2>1. SUFFICES ASSUME Inv, [Next]_vars PROVE Inv'
    OBVIOUS
  <2>2. CASE UNCHANGED vars
    BY <2>1, <2>2 DEF vars, Result, TheFlags
  <2>3. CASE Next
    <3>1. PICK o : Started(o)
      BY <2>1, <2>3, OwnStep, StartGives
    <3>2. task' = task /\ Result' = o /\ TheFlags' = TheFlags
      BY <3>1 DEF Started, Result, TheFlags
    <3>3. ASSUME o.started PROVE IsSound(o.plugin, TheFlags, task.imex, task.host)
      <4>1. PICK r, p : p \in StartedPlugins(TheFlags, TheSharing, task.imex, task.host) /\ IsAnswer(o, p, r)
        BY <3>1, <3>3 DEF Started
      <4>2. o.plugin = p
        BY <4>1 DEF IsAnswer
      <4> QED BY <4>1, <4>2, StartedIsSound
    <3> QED BY <2>1, <3>2, <3>3
  <2> QED BY <2>1, <2>2, <2>3
<1>3. Inv => StartedPluginsAreSound
  BY DEF StartedPluginsAreSound, Done, IsSound
<1> QED BY <1>1, <1>2, <1>3, PTL DEF StartSpec

-----------------------------------------------------------------------------
(* The names of the devices of a request.                                   *)

\* The sequences seen after k of the ids.
UniqueAfter(f, ids, U) ==
  /\ f[0] = <<>>
  /\ \A k \in 0 .. Len(ids) : f[k] \in Seq(U)
  /\ \A k \in 0 .. Len(ids) - 1 :
       f[k + 1] = IF Contains(f[k], ids[k + 1]) THEN f[k] ELSE Append(f[k], ids[k + 1])

\* The ids are looked at from the first to the last.
LEMMA UniqueFold ==
  ASSUME NEW U, NEW ids \in Seq(U)
  PROVE  \E f : UniqueAfter(f, ids, U) /\ Unique(ids) = f[Len(ids)]
<1> DEFINE n == Len(ids)
           V == Seq(U)
           body(iter, s) ==
             IF s = {} THEN <<>>
             ELSE IF Contains(iter[s \ {Max(s)}], ids[Max(s)]) THEN iter[s \ {Max(s)}]
                  ELSE Append(iter[s \ {Max(s)}], ids[Max(s)])
           IsIter(iter) == iter = [s \in SUBSET (DOMAIN ids) |-> body(iter, s)]
           folded == CHOOSE iter : IsIter(iter)
           H == [t \in V \X (1 .. n) |-> IF Contains(t[1], ids[t[2]]) THEN t[1] ELSE Append(t[1], ids[t[2]])]
<1>0. n \in Nat /\ DOMAIN ids = 1 .. n /\ <<>> \in V
  OBVIOUS
<1>1. Unique(ids) = folded[1 .. n]
  BY DEF Unique, FoldLeft, MapThenFoldSet
<1>2. H \in [V \X (1 .. n) -> V]
  <2>1. ASSUME NEW t \in V \X (1 .. n)
        PROVE  (IF Contains(t[1], ids[t[2]]) THEN t[1] ELSE Append(t[1], ids[t[2]])) \in V
    <3>1. t[1] \in V /\ ids[t[2]] \in U
      OBVIOUS
    <3> QED BY <3>1
  <2> QED BY <2>1
<1>3. \A v \in V, k \in 1 .. n : H[<<v, k>>] = IF Contains(v, ids[k]) THEN v ELSE Append(v, ids[k])
  OBVIOUS
<1> HIDE DEF H, V, n
<1>4. ASSUME NEW s \in SUBSET (1 .. n), s # {}
      PROVE  Max(s) \in 1 .. n /\ s \ {Max(s)} \in SUBSET (1 .. n)
  BY <1>0, <1>4, MaxOfFirst
<1>5. \E f : IsIter(f)
  <2>1. PICK f \in [SUBSET (1 .. n) -> V] : FoldsLeft(f, n, <<>>, H)
    BY <1>0, <1>2, LeftRecursion
  <2>2. ASSUME NEW s \in SUBSET (1 .. n) PROVE f[s] = body(f, s)
    <3>1. CASE s = {}
      BY <3>1, <2>1 DEF FoldsLeft
    <3>2. CASE s # {}
      <4>1. f[s] = H[<<f[s \ {Max(s)}], Max(s)>>]
        BY <3>2, <2>1 DEF FoldsLeft
      <4> QED BY <3>2, <1>3, <1>4, <4>1
    <3> QED BY <3>1, <3>2
  <2> DEFINE h == [s \in SUBSET (DOMAIN ids) |-> body(f, s)]
  <2>3. DOMAIN f = DOMAIN h /\ \A s \in SUBSET (1 .. n) : f[s] = h[s]
    BY <1>0, <2>2
  <2>4. f = h
    BY <2>3, <1>0
  <2> QED BY <2>4
<1>6. IsIter(folded)
  <2> HIDE DEF IsIter
  <2> QED BY <1>5
<1>7. \A s \in SUBSET (1 .. n) : folded[s] = body(folded, s)
  <2> HIDE DEF folded
  <2> TAKE s \in SUBSET (1 .. n)
  <2> DEFINE h == [t \in SUBSET (DOMAIN ids) |-> body(folded, t)]
  <2>1. folded = h /\ h[s] = body(folded, s)
    BY <1>0, <1>6
  <2> QED BY <2>1
<1> HIDE DEF folded
<1>8. ObeysFold(folded, n, V, <<>>, H)
  BY <1>3, <1>4, <1>7 DEF ObeysFold
<1> HIDE DEF IsIter, body
<1>9. PICK g : StepsOf(g, folded, n, V, <<>>, H)
  BY <1>0, <1>2, <1>8, LeftSteps
<1>10. UniqueAfter(g, ids, U)
  <2>1. \A k \in 0 .. n - 1 : g[k] \in V /\ k + 1 \in 1 .. n
    BY <1>0, <1>9 DEF StepsOf
  <2>2. \A k \in 0 .. n - 1 :
          g[k + 1] = IF Contains(g[k], ids[k + 1]) THEN g[k] ELSE Append(g[k], ids[k + 1])
    BY <1>3, <1>9, <2>1 DEF StepsOf
  <2> QED BY <1>9, <2>2 DEF StepsOf, UniqueAfter, V, n
<1> QED BY <1>1, <1>9, <1>10 DEF n, StepsOf

\* A sequence without repetitions.
Distinct(s) == \A i, j \in DOMAIN s : s[i] = s[j] => i = j

\* Ids that are different stay as they are.
LEMMA UniqueIs ==
  ASSUME NEW U, NEW ids \in Seq(U), Distinct(ids)
  PROVE  Unique(ids) = ids
<1>1. PICK f : UniqueAfter(f, ids, U) /\ Unique(ids) = f[Len(ids)]
  BY UniqueFold
<1> DEFINE Same(k) == Len(f[k]) = k /\ \A j \in 1 .. k : f[k][j] = ids[j]
           Good == {k \in Nat : k <= Len(ids) => Same(k)}
<1>2. 0 \in Good
  BY <1>1 DEF UniqueAfter
<1>3. ASSUME NEW k \in Nat, k \in Good PROVE k + 1 \in Good
  <2> SUFFICES ASSUME k + 1 <= Len(ids) PROVE Same(k + 1)
    OBVIOUS
  <2>1. f[k] \in Seq(U) /\ k \in 0 .. Len(ids) - 1 /\ ids[k + 1] \in U /\ Same(k)
    BY <1>1, <1>3 DEF UniqueAfter
  <2>2. ~Contains(f[k], ids[k + 1])
    <3>1. \A j \in 1 .. k : ids[j] # ids[k + 1]
      BY <2>1 DEF Distinct
    <3> QED BY <2>1, <3>1 DEF Contains
  <2>3. f[k + 1] = Append(f[k], ids[k + 1])
    BY <2>1, <2>2, <1>1 DEF UniqueAfter
  <2> QED BY <2>1, <2>3
<1> HIDE DEF Good
<1>4. Len(ids) \in Good
  BY <1>2, <1>3, Induction
<1> DEFINE last == f[Len(ids)]
<1>5. last \in Seq(U) /\ Len(last) = Len(ids) /\ \A j \in 1 .. Len(ids) : last[j] = ids[j]
  BY <1>1, <1>4 DEF Good, UniqueAfter
<1> HIDE DEF last
<1>6. last = ids
  BY <1>5
<1> QED BY <1>1, <1>6 DEF last

\* A sequence of n different elements has n of them.
LEMMA DistinctCount ==
  ASSUME NEW n \in Nat, NEW s, s = [i \in 1 .. n |-> s[i]], Distinct(s)
  PROVE  IsFiniteSet(ToSet(s)) /\ Cardinality(ToSet(s)) = n
<1> DEFINE N == 1 .. n
           T == ToSet(s)
<1>1. DOMAIN s = N /\ s \in [N -> T] /\ \A t \in T : \E i \in N : s[i] = t
  BY DEF ToSet
<1>2. \A i, j \in N : s[i] = s[j] => i = j
  BY <1>1 DEF Distinct
<1>3. IsFiniteSet(N) /\ Cardinality(N) = n
  BY FS_Interval
<1> HIDE DEF N, T
<1>4. s \in Bijection(N, T)
  BY <1>1, <1>2 DEF Bijection, Injection, Surjection, IsInjective
<1>5. ExistsBijection(N, T)
  BY <1>4 DEF ExistsBijection
<1>6. IsFiniteSet(T) /\ Cardinality(T) = Cardinality(N)
  BY <1>3, <1>5, FS_Bijection
<1> QED BY <1>3, <1>6 DEF T

\* A sequence of n different elements of a set of n has them all.
LEMMA DistinctIsAll ==
  ASSUME NEW T, IsFiniteSet(T), NEW s \in [1 .. Cardinality(T) -> T], Distinct(s)
  PROVE  ToSet(s) = T
<1> DEFINE n == Cardinality(T)
           N == 1 .. n
<1>1. n \in Nat /\ IsFiniteSet(N) /\ Cardinality(N) = n
  BY FS_CardinalityType, FS_Interval
<1>2. DOMAIN s = N /\ \A i, j \in N : s[i] = s[j] => i = j
  BY DEF Distinct
<1>0. s \in [N -> T] /\ n = Cardinality(T)
  OBVIOUS
<1> HIDE DEF N, n
<1>3. s \in Injection(N, T)
  BY <1>0, <1>2 DEF Injection, IsInjective
<1>4. s \in Surjection(N, T)
  BY <1>0, <1>1, <1>3, FS_Injection
<1>5. \A t \in T : \E i \in N : s[i] = t
  BY <1>4 DEF Surjection
<1>6. \A t : t \in ToSet(s) <=> \E i \in N : s[i] = t
  BY <1>2 DEF ToSet
<1>7. \A i \in N : s[i] \in T
  BY <1>0
<1>8. \A t : t \in ToSet(s) <=> t \in T
  BY <1>5, <1>6, <1>7
<1> QED BY <1>8

\* A request for GPUs: each of them once.
RequestInput(gpus) == gpus \in Seq(Nat) /\ Distinct(gpus)
RequestOf(gpus) == [i \in DOMAIN gpus |-> Dev(gpus[i])]
NameOf(strategy, d) == IF strategy = "uuid" THEN d.uuid ELSE d.index

\* The names are those of all devices of the request, and the uuids are in their order.
LEMMA NamesAreAll ==
  ASSUME NEW gpus, RequestInput(gpus), NEW strategy, NEW names \in DeviceNames(strategy, RequestOf(gpus))
  PROVE  /\ DOMAIN names = 1 .. Len(gpus)
         /\ names = [i \in 1 .. Len(gpus) |-> names[i]]
         /\ ToSet(names) = {NameOf(strategy, d) : d \in ToSet(RequestOf(gpus))}
         /\ strategy = "uuid" => \A i \in 1 .. Len(gpus) : names[i] = RequestOf(gpus)[i].uuid
<1> DEFINE n == Len(gpus)
           devs == RequestOf(gpus)
           uuids == [i \in DOMAIN devs |-> devs[i].uuid]
           indices == [i \in DOMAIN devs |-> devs[i].index]
<1>1. n \in Nat /\ DOMAIN gpus = 1 .. n /\ DOMAIN devs = 1 .. n /\ \A i \in 1 .. n : devs[i] = Dev(gpus[i])
  BY DEF RequestInput, RequestOf
<1>2. \A i \in 1 .. n : devs[i].uuid = <<"u", gpus[i]>> /\ devs[i].index = <<gpus[i]>>
  BY <1>1 DEF Dev
<1>3. \A i, j \in 1 .. n : gpus[i] = gpus[j] => i = j
  BY <1>1 DEF RequestInput, Distinct
<1>4. \A i, j \in 1 .. n : uuids[i] = uuids[j] \/ indices[i] = indices[j] \/ devs[i] = devs[j] => i = j
  BY <1>1, <1>2, <1>3
<1>5. CASE strategy = "uuid"
  <2> DEFINE U == {uuids[i] : i \in 1 .. n}
  <2>1. names = Unique(uuids)
    BY <1>5 DEF DeviceNames, InOrder
  <2>2. uuids \in Seq(U) /\ DOMAIN uuids = 1 .. n
    BY <1>1
  <2>3. Distinct(uuids)
    <3> HIDE DEF uuids
    <3> QED BY <1>4, <2>2 DEF Distinct
  <2>4. names = uuids
    <3> HIDE DEF uuids, U
    <3> QED BY <2>1, <2>2, <2>3, UniqueIs
  <2>5. ToSet(names) = {devs[i].uuid : i \in 1 .. n}
    BY <1>1, <2>4 DEF ToSet
  <2>6. {NameOf(strategy, d) : d \in ToSet(devs)} = {devs[i].uuid : i \in 1 .. n}
    BY <1>1, <1>5 DEF ToSet, NameOf
  <2> QED BY <1>1, <2>4, <2>5, <2>6
<1>6. CASE strategy # "uuid"
  <2> DEFINE T == {devs[i].index : i \in DOMAIN devs}
             D == {devs[i] : i \in DOMAIN devs}
  <2>1. names \in [1 .. Cardinality(D) -> T] /\ \A i, j \in DOMAIN names : names[i] = names[j] => i = j
    BY <1>6 DEF DeviceNames
  <2>2. Cardinality(D) = n
    <3>1. devs = [i \in 1 .. n |-> devs[i]] /\ D = ToSet(devs)
      BY <1>1 DEF RequestOf, ToSet
    <3>2. Distinct(devs)
      BY <1>1, <1>4 DEF Distinct
    <3> HIDE DEF devs, D
    <3> QED BY <1>1, <3>1, <3>2, DistinctCount
  <2>3. IsFiniteSet(T) /\ Cardinality(T) = n
    <3>1. indices = [i \in 1 .. n |-> indices[i]] /\ T = ToSet(indices) /\ DOMAIN indices = 1 .. n
      BY <1>1 DEF ToSet
    <3> HIDE DEF indices, T
    <3>2. Distinct(indices)
      BY <1>4, <3>1 DEF Distinct
    <3> QED BY <1>1, <3>1, <3>2, DistinctCount
  <2>4. T = {NameOf(strategy, d) : d \in ToSet(devs)}
    BY <1>1, <1>6 DEF NameOf, ToSet
  <2> HIDE DEF T, D
  <2>5. ToSet(names) = T
    BY <2>1, <2>2, <2>3, DistinctIsAll DEF Distinct
  <2>6. DOMAIN names = 1 .. n /\ names = [i \in 1 .. n |-> names[i]]
    BY <2>1, <2>2
  <2> QED BY <1>6, <2>4, <2>5, <2>6
<1> QED BY <1>5, <1>6

\* The sequence made of a finite set has its elements.
LEMMA SetToSeqIs ==
  ASSUME NEW M, IsFiniteSet(M)
  PROVE  Cardinality(M) \in Nat /\ SetToSeq(M) \in [1 .. Cardinality(M) -> M]
<1>1. Cardinality(M) \in Nat /\ ExistsBijection(1 .. Cardinality(M), M)
  BY FS_CardinalityType
<1>2. PICK b : b \in [1 .. Cardinality(M) -> M] /\ IsInjective(b)
  BY <1>1 DEF ExistsBijection, Bijection, Injection
<1> QED BY <1>1, <1>2 DEF SetToSeq

\* What has n entries, all in one set, is a sequence.
LEMMA IsSequence ==
  ASSUME NEW n \in Nat, NEW s, s = [i \in 1 .. n |-> s[i]], NEW U, \A i \in 1 .. n : s[i] \in U
  PROVE  s \in Seq(U) /\ Len(s) = n
OBVIOUS

\* Of all that CDI names there are the devices.
LEMMA CDINamesDevices ==
  ASSUME NEW plugin, plugin.channels \in Seq(Nat), IsFiniteSet(plugin.cdi.classes \ {"gpu", "imex-channel"}),
         NEW n \in Nat, NEW names, names = [i \in 1 .. n |-> names[i]], NEW x \in ToSet(names)
  PROVE  <<"gpu", x>> \in ToSet(CDINames(plugin, names))
<1> DEFINE modes == plugin.cdi.classes \ {"gpu", "imex-channel"}
           M == {<<mode, "all">> : mode \in modes}
           A == [i \in DOMAIN names |-> <<"gpu", names[i]>>]
           B == [i \in DOMAIN plugin.channels |-> <<"imex-channel", plugin.channels[i]>>]
           C == SetToSeq(M)
           U == {A[i] : i \in DOMAIN A} \cup {B[i] : i \in DOMAIN B} \cup M
<1>0. DOMAIN names = 1 .. n
  OBVIOUS
<1>1. CDINames(plugin, names) = (A \o B) \o C
  BY DEF CDINames
<1>2. A \in Seq(U) /\ Len(A) = n
  <2>1. A = [i \in 1 .. n |-> A[i]] /\ \A i \in 1 .. n : A[i] \in U
    BY <1>0
  <2> HIDE DEF A, U
  <2> QED BY <2>1, IsSequence
<1>3. B \in Seq(U)
  <2> DEFINE m == Len(plugin.channels)
  <2>1. m \in Nat /\ DOMAIN B = 1 .. m
    OBVIOUS
  <2>2. B = [i \in 1 .. m |-> B[i]] /\ \A i \in 1 .. m : B[i] \in U
    BY <2>1
  <2> HIDE DEF B, U, m
  <2> QED BY <2>1, <2>2, IsSequence
<1>4. C \in Seq(U)
  <2>1. IsFiniteSet(M)
    <3> DEFINE pair == [mode \in modes |-> <<mode, "all">>]
    <3>1. pair \in Surjection(modes, M)
      BY DEF Surjection
    <3> HIDE DEF pair, M, modes
    <3> QED BY <3>1, FS_Surjection DEF modes
  <2>2. Cardinality(M) \in Nat /\ C \in [1 .. Cardinality(M) -> M]
    <3> HIDE DEF M
    <3> QED BY <2>1, SetToSeqIs
  <2>3. M \subseteq U
    OBVIOUS
  <2> HIDE DEF U, M, C
  <2> QED BY <2>2, <2>3
<1>5. PICK i \in 1 .. n : x = names[i]
  BY <1>0 DEF ToSet
<1>6. A[i] = <<"gpu", x>>
  BY <1>0, <1>5
<1> HIDE DEF A, B, C, U
<1>7. i \in 1 .. Len((A \o B) \o C) /\ ((A \o B) \o C)[i] = A[i] /\ (A \o B) \o C \in Seq(U)
  <2>1. A \o B \in Seq(U) /\ i \in 1 .. Len(A \o B) /\ (A \o B)[i] = A[i]
    BY <1>2, <1>3
  <2> DEFINE AB == A \o B
  <2> HIDE DEF AB
  <2>2. AB \o C \in Seq(U) /\ i \in 1 .. Len(AB \o C) /\ (AB \o C)[i] = AB[i]
    BY <1>4, <2>1 DEF AB
  <2> QED BY <2>1, <2>2 DEF AB
<1>8. ((A \o B) \o C)[i] \in ToSet((A \o B) \o C)
  BY <1>7 DEF ToSet
<1> QED BY <1>1, <1>6, <1>7, <1>8

\* What a response says, given the names of the devices.
ResponseHas(r, plugin, flags, names) ==
  LET strategies == flags.deviceListStrategy IN
  /\ "cdi-annotations" \in strategies => r.annotations = CDINames(plugin, names)
  /\ "cdi-cri" \in strategies => r.cdi = CDINames(plugin, names)
  /\ "volume-mounts" \in strategies => \A n \in ToSet(names) : <<"device", n>> \in r.mounts
  /\ "envvar" \in strategies /\ "volume-mounts" \notin strategies => r.visible = names

\* Every response is for one naming of the devices, and says so in every way it is
\* configured to (getAllocateResponse).
LEMMA ResponseIs ==
  ASSUME NEW plugin, NEW flags, NEW devs, NEW r \in getAllocateResponse(plugin, flags, devs)
  PROVE  \E names \in DeviceNames(flags.deviceIDStrategy, devs) : ResponseHas(r, plugin, flags, names)
<1> DEFINE strategies == flags.deviceListStrategy
           Cdi(names) == IF AnyCDIEnabled(strategies) THEN updateResponseForCDI(plugin, flags, names, NoResponse) ELSE NoResponse
           Mps(names) == updateResponseForMPS(plugin, Cdi(names))
           Listed(names) == updateResponseForDeviceList(flags, names, Mps(names))
<1>1. PICK names \in DeviceNames(flags.deviceIDStrategy, devs) :
        r = IF AllCDIEnabled(strategies) THEN Mps(names)
            ELSE [Listed(names) EXCEPT !.specs = apiDeviceSpecs(flags, plugin, devs)]
  BY DEF getAllocateResponse
<1> DEFINE Fields == {"visible", "annotations", "cdi", "mounts", "specs"}
<1>2. /\ DOMAIN Cdi(names) = Fields
      /\ "cdi-annotations" \in strategies => Cdi(names).annotations = CDINames(plugin, names)
      /\ "cdi-cri" \in strategies => Cdi(names).cdi = CDINames(plugin, names)
  BY DEF updateResponseForCDI, NoResponse, AnyCDIEnabled, CDIStrategies
<1> HIDE DEF Cdi
<1>3. /\ DOMAIN Mps(names) = Fields
      /\ Mps(names).annotations = Cdi(names).annotations /\ Mps(names).cdi = Cdi(names).cdi
  BY <1>2 DEF updateResponseForMPS
<1> HIDE DEF Mps
<1>4. /\ DOMAIN Listed(names) = Fields
      /\ Listed(names).annotations = Mps(names).annotations /\ Listed(names).cdi = Mps(names).cdi
      /\ "volume-mounts" \in strategies => \A n \in ToSet(names) : <<"device", n>> \in Listed(names).mounts
      /\ "envvar" \in strategies /\ "volume-mounts" \notin strategies => Listed(names).visible = names
  BY <1>3 DEF updateResponseForDeviceList
<1> HIDE DEF Listed
<1>5. CASE AllCDIEnabled(strategies)
  <2>1. "volume-mounts" \notin strategies /\ "envvar" \notin strategies
    BY <1>5 DEF AllCDIEnabled, CDIStrategies
  <2> QED BY <1>1, <1>2, <1>3, <1>5, <2>1 DEF ResponseHas
<1>6. CASE ~AllCDIEnabled(strategies)
  <2>1. /\ r.annotations = Listed(names).annotations /\ r.cdi = Listed(names).cdi
        /\ r.mounts = Listed(names).mounts /\ r.visible = Listed(names).visible
    BY <1>1, <1>4, <1>6
  <2> QED BY <1>2, <1>3, <1>4, <2>1 DEF ResponseHas
<1> QED BY <1>5, <1>6

\* The channels of a plugin are a list, and its classes are finitely many if the modes are.
LEMMA PartsOfPlugin ==
  ASSUME NEW flags, IsFiniteSet(flags.modes), NEW sharing, NEW imex, NEW host,
         NEW p \in StartedPlugins(flags, sharing, imex, host)
  PROVE  p.channels \in Seq(Nat) /\ IsFiniteSet(p.cdi.classes \ {"gpu", "imex-channel"})
<1>1. validateFlags(flags, sharing, imex, host)
  BY StartedIsMade
<1>2. PICK channels, handler : MadeOf(p, flags, sharing, imex, host, channels, handler)
  BY StartedIsMade
<1>3. p.channels = channels /\ p.cdi = handler
  BY <1>2 DEF MadeOf, New
<1>4. channels \in Seq(Nat)
  BY <1>1, <1>2, ChannelsAreThere DEF MadeOf, validateFlags
<1>5. handler.classes \ {"gpu", "imex-channel"} \subseteq flags.modes
  <2>1. handler \in CDIHandler(flags, channels, host)
    BY <1>2 DEF MadeOf
  <2>2. handler.classes = {} \/ handler.classes = ({"gpu"} \cup IF channels = <<>> THEN {} ELSE {"imex-channel"})
                                                   \cup (flags.modes \ host.emptyModes)
    BY <2>1 DEF CDIHandler
  <2> QED BY <2>2
<1>6. IsFiniteSet(handler.classes \ {"gpu", "imex-channel"})
  BY <1>5, FS_Subset
<1> QED BY <1>3, <1>4, <1>6

\* What LimitsMatchDevices says of a response r to a request for these GPUs.
BringsAll(r, limits, flags, gpus) ==
  LET strategies == flags.deviceListStrategy
      devs == ToSet(RequestOf(gpus))
      names == {NameOf(flags.deviceIDStrategy, d) : d \in devs}
  IN /\ "cdi-annotations" \in strategies => \A n \in names : <<"gpu", n>> \in ToSet(r.annotations)
     /\ "cdi-cri" \in strategies => \A n \in names : <<"gpu", n>> \in ToSet(r.cdi)
     /\ "volume-mounts" \in strategies => \A n \in names : <<"device", n>> \in r.mounts
     /\ "envvar" \in strategies /\ "volume-mounts" \notin strategies =>
          /\ ToSet(r.visible) = names
          /\ flags.deviceIDStrategy = "uuid" =>
               \A i \in DOMAIN r.visible : \E d \in devs : d.uuid = r.visible[i] /\ limits[i] = 2 * d.usedmem

\* Whatever plugin has started, its response brings every device of the request.
LEMMA ResponseBringsAll ==
  ASSUME NEW flags, IsFiniteSet(flags.modes), NEW sharing, NEW imex, NEW host,
         NEW p \in StartedPlugins(flags, sharing, imex, host),
         NEW gpus, RequestInput(gpus), NEW r \in getAllocateResponse(p, flags, RequestOf(gpus))
  PROVE  BringsAll(r, MemoryLimits(RequestOf(gpus), [factor |-> 2]), flags, gpus)
<1> DEFINE devs == RequestOf(gpus)
           n == Len(gpus)
           all == {NameOf(flags.deviceIDStrategy, d) : d \in ToSet(devs)}
<1>1. PICK names \in DeviceNames(flags.deviceIDStrategy, devs) : ResponseHas(r, p, flags, names)
  BY ResponseIs
<1>2. /\ n \in Nat /\ DOMAIN names = 1 .. n /\ names = [i \in 1 .. n |-> names[i]] /\ ToSet(names) = all
      /\ flags.deviceIDStrategy = "uuid" => \A i \in 1 .. n : names[i] = devs[i].uuid
  BY NamesAreAll DEF RequestInput
<1>3. \A x \in all : <<"gpu", x>> \in ToSet(CDINames(p, names))
  <2> HIDE DEF all, n
  <2>1. p.channels \in Seq(Nat) /\ IsFiniteSet(p.cdi.classes \ {"gpu", "imex-channel"})
    BY PartsOfPlugin
  <2> QED BY <1>2, <2>1, CDINamesDevices
<1>4. ASSUME flags.deviceIDStrategy = "uuid", NEW i \in 1 .. n
      PROVE  \E d \in ToSet(devs) : d.uuid = names[i] /\ MemoryLimits(devs, [factor |-> 2])[i] = 2 * d.usedmem
  <2>1. gpus[i] \in Nat /\ DOMAIN devs = 1 .. n /\ devs[i] = Dev(gpus[i])
    BY DEF RequestInput, RequestOf
  <2>2. devs[i].usedmem = 10 * gpus[i]
    BY <2>1 DEF Dev
  <2>3. MemoryLimits(devs, [factor |-> 2])[i] = devs[i].usedmem * 2
    BY <2>1 DEF MemoryLimits
  <2>4. devs[i] \in ToSet(devs) /\ devs[i].uuid = names[i]
    BY <1>2, <1>4, <2>1 DEF ToSet
  <2>5. MemoryLimits(devs, [factor |-> 2])[i] = 2 * devs[i].usedmem
    BY <2>1, <2>2, <2>3
  <2> QED BY <2>4, <2>5
<1> HIDE DEF devs, n
<1> QED BY <1>1, <1>2, <1>3, <1>4 DEF ResponseHas, BringsAll, devs

\* The plugin starts as before, and is asked for different GPUs; the modes are those of a
\* command line or a file.
RequestInit == StartInit /\ RequestInput(task.gpus) /\ IsFiniteSet(TheFlags.modes)
RequestSpec == RequestInit /\ [][Next]_vars

\* Whatever the strategies and the request, each strategy brings every device of it into
\* the container, and the limits are those of the devices listed by uuid
\* (getAllocateResponse, uniqueDeviceIDsFromAnnotatedDeviceIDs, Allocate).
THEOREM LimitsMatch == RequestSpec => []LimitsMatchDevices
<1> DEFINE Inv == /\ task.of = "start" /\ RequestInput(task.gpus) /\ IsFiniteSet(TheFlags.modes)
                  /\ result # <<>> /\ Result.started => BringsAll(Result.response, Result.limits, TheFlags, task.gpus)
<1>1. RequestInit => Inv
  BY DEF RequestInit, StartInit
<1>2. Inv /\ [Next]_vars => Inv'
  <2>1. SUFFICES ASSUME Inv, [Next]_vars PROVE Inv'
    OBVIOUS
  <2>2. CASE UNCHANGED vars
    BY <2>1, <2>2 DEF vars, Result, TheFlags
  <2>3. CASE Next
    <3>1. PICK o : Started(o)
      BY <2>1, <2>3, OwnStep, StartGives
    <3>2. task' = task /\ Result' = o /\ TheFlags' = TheFlags
      BY <3>1 DEF Started, Result, TheFlags
    <3>3. ASSUME o.started PROVE BringsAll(o.response, o.limits, TheFlags, task.gpus)
      <4>1. PICK r, p : p \in StartedPlugins(TheFlags, TheSharing, task.imex, task.host) /\ IsAnswer(o, p, r)
        BY <3>1, <3>3 DEF Started
      <4>2. /\ o.response = r /\ o.limits = MemoryLimits(RequestOf(task.gpus), [factor |-> 2])
            /\ r \in getAllocateResponse(p, TheFlags, RequestOf(task.gpus))
        BY <4>1 DEF IsAnswer, Requested, RequestOf
      <4> QED BY <2>1, <4>1, <4>2, ResponseBringsAll
    <3> QED BY <2>1, <3>2, <3>3
  <2> QED BY <2>1, <2>2, <2>3
<1>3. Inv => LimitsMatchDevices
  BY DEF LimitsMatchDevices, Done, BringsAll, NameOf, Requested, RequestOf
<1> QED BY <1>1, <1>2, <1>3, PTL DEF RequestSpec

-----------------------------------------------------------------------------
(* The instance that is looked up.                                          *)

\* A GPU stands in the listing on line g, with n instances after it.
IsListed(lines, uuid, g, n) ==
  /\ g \in Nat \ {0} /\ n \in Nat /\ DOMAIN lines = 1 .. Len(lines) /\ Len(lines) \in Nat /\ g + n <= Len(lines)
  /\ \A j \in 1 .. n : lines[g + j].mig /\ lines[g + j].index = j - 1 /\ lines[g + j].uuid = <<uuid, j - 1>>
  /\ \A k \in DOMAIN lines : (~lines[k].mig /\ lines[k].uuid = uuid) <=> k = g
  /\ g + n < Len(lines) => ~lines[g + n + 1].mig

\* The lines under a GPU are its own.
LEMMA UnderIsOwn ==
  ASSUME NEW lines, NEW uuid, NEW g, NEW n, IsListed(lines, uuid, g, n), NEW k \in DOMAIN lines
  PROVE  lines[k].mig /\ UnderGPU(lines, uuid, k) <=> k \in g + 1 .. g + n
<1>0. /\ g \in Nat \ {0} /\ n \in Nat /\ DOMAIN lines = 1 .. Len(lines) /\ Len(lines) \in Nat /\ g + n <= Len(lines)
      /\ k \in Nat
  BY DEF IsListed
<1>1. ASSUME NEW j \in g + 1 .. g + n PROVE lines[j].mig /\ j \in DOMAIN lines
  <2>1. j - g \in 1 .. n /\ j = g + (j - g) /\ j \in 1 .. Len(lines)
    BY <1>0
  <2>2. lines[g + (j - g)].mig
    BY <2>1 DEF IsListed
  <2> QED BY <1>0, <2>1, <2>2
<1>2. ASSUME k \in g + 1 .. g + n PROVE lines[k].mig /\ UnderGPU(lines, uuid, k)
  <2>1. g \in 1 .. k /\ ~lines[g].mig /\ lines[g].uuid = uuid
    BY <1>0, <1>2 DEF IsListed
  <2>2. \A l \in g + 1 .. k : lines[l].mig
    BY <1>0, <1>1, <1>2
  <2> QED BY <1>1, <1>2, <2>1, <2>2 DEF UnderGPU
<1>3. ASSUME lines[k].mig, UnderGPU(lines, uuid, k) PROVE k \in g + 1 .. g + n
  <2>1. PICK h \in 1 .. k : /\ ~lines[h].mig /\ lines[h].uuid = uuid
                            /\ \A l \in h + 1 .. k : lines[l].mig \/ lines[l].uuid = uuid
    BY <1>3 DEF UnderGPU
  <2>2. h = g /\ k # g
    <3>1. h \in DOMAIN lines
      BY <1>0, <2>1
    <3>2. h = g
      BY <2>1, <3>1 DEF IsListed
    <3> QED BY <1>3, <2>1, <3>2
  <2>3. SUFFICES ASSUME k > g + n PROVE FALSE
    BY <1>0, <2>1, <2>2
  <2>4. g + n + 1 \in h + 1 .. k /\ g + n + 1 \in DOMAIN lines /\ ~lines[g + n + 1].mig
    BY <1>0, <2>2, <2>3 DEF IsListed
  <2>5. lines[g + n + 1].uuid = uuid
    BY <2>1, <2>4
  <2>6. g + n + 1 = g
    BY <2>4, <2>5 DEF IsListed
  <2> QED BY <1>0, <2>6
<1> QED BY <1>2, <1>3

\* The instance found in the listing is the GPU's own.
LEMMA ListedIsOwn ==
  ASSUME NEW lines, NEW uuid, NEW g, NEW n, IsListed(lines, uuid, g, n), NEW index \in Nat
  PROVE  GetMigUUIDFromSmiOutput(lines, uuid, index) = IF index < n THEN {<<uuid, index>>} ELSE {}
<1> DEFINE hits == {k \in DOMAIN lines : lines[k].mig /\ lines[k].index = index /\ UnderGPU(lines, uuid, k)}
<1>0. g \in Nat /\ n \in Nat
  BY DEF IsListed
<1>1. \A k \in hits : k = g + (index + 1) /\ index < n
  <2> TAKE k \in hits
  <2>1. k \in g + 1 .. g + n /\ lines[k].index = index
    BY UnderIsOwn
  <2>2. k - g \in 1 .. n /\ k = g + (k - g)
    BY <1>0, <2>1
  <2>3. lines[k].index = k - g - 1
    BY <2>2 DEF IsListed
  <2> QED BY <1>0, <2>1, <2>2, <2>3
<1>2. ASSUME index < n PROVE g + (index + 1) \in hits /\ lines[g + (index + 1)].uuid = <<uuid, index>>
  <2>1. index + 1 \in 1 .. n /\ (index + 1) - 1 = index
    BY <1>0, <1>2
  <2>2. LET l == lines[g + (index + 1)] IN l.mig /\ l.index = index /\ l.uuid = <<uuid, index>>
    BY <2>1 DEF IsListed
  <2>3. g + (index + 1) \in DOMAIN lines /\ g + (index + 1) \in g + 1 .. g + n
    BY <1>0, <1>2 DEF IsListed
  <2> QED BY <2>2, <2>3, UnderIsOwn
<1>3. GetMigUUIDFromSmiOutput(lines, uuid, index) = {lines[k].uuid : k \in {k \in hits : \A l \in hits : k <= l}}
  BY DEF GetMigUUIDFromSmiOutput
<1> HIDE DEF hits
<1>4. CASE index < n
  <2>1. hits = {g + (index + 1)}
    BY <1>1, <1>2, <1>4
  <2>2. {k \in hits : \A l \in hits : k <= l} = {g + (index + 1)}
    BY <1>0, <2>1
  <2> QED BY <1>2, <1>3, <1>4, <2>2
<1>5. CASE ~(index < n)
  <2>1. hits = {}
    BY <1>1, <1>5
  <2> QED BY <1>3, <1>5, <2>1
<1> QED BY <1>4, <1>5

\* Two sequences, one after the other.
LEMMA Concatenation ==
  ASSUME NEW U, NEW s \in Seq(U), NEW t \in Seq(U)
  PROVE  /\ s \o t \in Seq(U) /\ Len(s \o t) = Len(s) + Len(t)
         /\ DOMAIN (s \o t) = 1 .. Len(s) + Len(t)
         /\ \A k \in 1 .. Len(s) : (s \o t)[k] = s[k]
         /\ \A k \in 1 .. Len(t) : (s \o t)[Len(s) + k] = t[k]
OBVIOUS

\* The lines of a GPU with n instances.
LinesOf(g, n) ==
  <<[mig |-> FALSE, uuid |-> g]>> \o [j \in 1 .. n |-> [mig |-> TRUE, index |-> j - 1, uuid |-> <<g, j - 1>>]]

\* A sequence that is such a listing.
IsBlock(s, g, n) ==
  /\ Len(s) = n + 1 /\ ~s[1].mig /\ s[1].uuid = g
  /\ \A j \in 1 .. n : s[1 + j].mig /\ s[1 + j].index = j - 1 /\ s[1 + j].uuid = <<g, j - 1>>

\* The lines of a GPU are such a listing.
LEMMA LinesAre ==
  ASSUME NEW g, NEW n \in Nat
  PROVE  IsBlock(LinesOf(g, n), g, n) /\ \E U : LinesOf(g, n) \in Seq(U)
<1> DEFINE first == [mig |-> FALSE, uuid |-> g]
           Line(j) == [mig |-> TRUE, index |-> j - 1, uuid |-> <<g, j - 1>>]
           rest == [j \in 1 .. n |-> Line(j)]
           U == {first} \cup {Line(j) : j \in 1 .. n}
<1>1. <<first>> \in Seq(U) /\ rest \in Seq(U) /\ Len(rest) = n
  <2>1. first \in U /\ \A j \in 1 .. n : Line(j) \in U
    OBVIOUS
  <2> HIDE DEF first, Line, U
  <2> QED BY <2>1
<1>2. LinesOf(g, n) = <<first>> \o rest
  BY DEF LinesOf
<1>3. /\ <<first>> \o rest \in Seq(U) /\ Len(<<first>> \o rest) = n + 1 /\ (<<first>> \o rest)[1] = first
      /\ \A j \in 1 .. n : (<<first>> \o rest)[1 + j] = rest[j]
  <2> HIDE DEF first, rest, U
  <2> QED BY <1>1
<1>4. \A j \in 1 .. n : rest[j] = Line(j)
  OBVIOUS
<1> HIDE DEF rest
<1>5. IsBlock(LinesOf(g, n), g, n)
  <2> DEFINE s == LinesOf(g, n)
  <2>1. Len(s) = n + 1 /\ s[1] = first /\ \A j \in 1 .. n : s[1 + j] = Line(j)
    BY <1>2, <1>3, <1>4
  <2> HIDE DEF s
  <2>2. ~s[1].mig /\ s[1].uuid = g
    BY <2>1
  <2>3. ASSUME NEW j \in 1 .. n PROVE s[1 + j].mig /\ s[1 + j].index = j - 1 /\ s[1 + j].uuid = <<g, j - 1>>
    <3>1. s[1 + j] = Line(j)
      BY <2>1
    <3> QED BY <3>1
  <2>4. IsBlock(s, g, n)
    BY <2>1, <2>2, <2>3 DEF IsBlock
  <2> QED BY <2>4 DEF s
<1> QED BY <1>2, <1>3, <1>5

\* The block in which a line stands.
LEMMA BlockOf ==
  ASSUME NEW p \in Nat, NEW q \in Nat, NEW r \in Nat, NEW k \in 1 .. p + q + r + 3
  PROVE  \/ k = 1 \/ k = p + 2 \/ k = p + q + 3
         \/ k \in 2 .. p + 1 \/ k \in p + 3 .. p + q + 2 \/ k \in p + q + 4 .. p + q + r + 3
<1>1. CASE k <= p + 1
  BY <1>1
<1>2. CASE p + 2 <= k /\ k <= p + q + 2
  BY <1>2
<1>3. CASE p + q + 3 = k
  BY <1>3
<1>4. CASE p + q + 3 < k
  BY <1>4
<1> QED BY <1>1, <1>2, <1>3, <1>4

\* The place of every line in a listing of three GPUs.
LEMMA ThreeBlocks ==
  ASSUME NEW UA, NEW A \in Seq(UA), NEW UB, NEW B \in Seq(UB), NEW UC, NEW C \in Seq(UC),
         NEW a, NEW b, NEW c, a # b, a # c, b # c, NEW p \in Nat, NEW q \in Nat, NEW r \in Nat,
         IsBlock(A, a, p), IsBlock(B, b, q), IsBlock(C, c, r)
  PROVE  /\ IsListed((A \o B) \o C, a, 1, p)
         /\ IsListed((A \o B) \o C, b, p + 2, q)
         /\ IsListed((A \o B) \o C, c, p + q + 3, r)
<1> DEFINE s == (A \o B) \o C
           U == UA \cup UB \cup UC
<1>1. Len(A) = p + 1 /\ Len(B) = q + 1 /\ Len(C) = r + 1
  BY DEF IsBlock
<1>2. /\ Len(s) = p + q + r + 3 /\ DOMAIN s = 1 .. Len(s)
      /\ \A k \in 1 .. p + 1 : s[k] = A[k]
      /\ \A k \in 1 .. q + 1 : s[p + 1 + k] = B[k]
      /\ \A k \in 1 .. r + 1 : s[p + q + 2 + k] = C[k]
  <2> DEFINE AB == A \o B
  <2>0. A \in Seq(U) /\ B \in Seq(U) /\ C \in Seq(U)
    OBVIOUS
  <2>1. /\ AB \in Seq(U) /\ Len(AB) = p + q + 2
        /\ \A k \in 1 .. p + 1 : AB[k] = A[k]
        /\ \A k \in 1 .. q + 1 : AB[p + 1 + k] = B[k]
    <3> HIDE DEF U
    <3>1. /\ AB \in Seq(U) /\ Len(AB) = Len(A) + Len(B)
          /\ \A k \in 1 .. Len(A) : AB[k] = A[k]
          /\ \A k \in 1 .. Len(B) : AB[Len(A) + k] = B[k]
      BY <2>0, Concatenation
    <3> HIDE DEF AB
    <3> QED BY <1>1, <3>1
  <2> HIDE DEF AB, U
  <2>2. /\ Len(AB \o C) = p + q + r + 3 /\ DOMAIN (AB \o C) = 1 .. p + q + r + 3
        /\ \A k \in 1 .. p + q + 2 : (AB \o C)[k] = AB[k]
        /\ \A k \in 1 .. r + 1 : (AB \o C)[p + q + 2 + k] = C[k]
    <3> DEFINE ABC == AB \o C
    <3>1. /\ Len(ABC) = Len(AB) + Len(C) /\ DOMAIN ABC = 1 .. Len(AB) + Len(C)
          /\ \A k \in 1 .. Len(C) : ABC[Len(AB) + k] = C[k]
          /\ \A k \in 1 .. Len(AB) : ABC[k] = AB[k]
      <4>1. AB \in Seq(U) /\ C \in Seq(U)
        BY <2>0, <2>1
      <4> QED BY <4>1, Concatenation
    <3> HIDE DEF ABC
    <3>3. Len(AB) = p + q + 2 /\ Len(C) = r + 1 /\ p + q + 2 + (r + 1) = p + q + r + 3
      BY <1>1, <2>1
    <3>4. /\ Len(ABC) = p + q + r + 3 /\ DOMAIN ABC = 1 .. p + q + r + 3
          /\ \A k \in 1 .. p + q + 2 : ABC[k] = AB[k]
          /\ \A k \in 1 .. r + 1 : ABC[p + q + 2 + k] = C[k]
      BY <3>1, <3>3
    <3> QED BY <3>4 DEF ABC
  <2>3. \A k \in 1 .. p + 1 : (AB \o C)[k] = A[k]
    BY <2>1, <2>2
  <2>4. \A k \in 1 .. q + 1 : (AB \o C)[p + 1 + k] = B[k]
    BY <2>1, <2>2
  <2> QED BY <2>2, <2>3, <2>4 DEF AB
<1> HIDE DEF s, U
<1>3. /\ s[1] = A[1] /\ s[p + 2] = B[1] /\ s[p + q + 3] = C[1]
      /\ \A k \in 1 .. p : s[1 + k] = A[1 + k]
      /\ \A k \in 1 .. q : s[p + 2 + k] = B[1 + k]
      /\ \A k \in 1 .. r : s[p + q + 3 + k] = C[1 + k]
  <2>1. s[1] = A[1] /\ s[p + 1 + 1] = B[1] /\ s[p + q + 2 + 1] = C[1]
    BY <1>2
  <2>2. \A k \in 1 .. p : s[1 + k] = A[1 + k]
    BY <1>2
  <2>3. ASSUME NEW k \in 1 .. q PROVE s[p + 2 + k] = B[1 + k]
    <3>1. s[p + 1 + (1 + k)] = B[1 + k]
      BY <1>2
    <3>2. p + 1 + (1 + k) = p + 2 + k
      OBVIOUS
    <3> QED BY <3>1, <3>2
  <2>4. ASSUME NEW k \in 1 .. r PROVE s[p + q + 3 + k] = C[1 + k]
    <3>1. s[p + q + 2 + (1 + k)] = C[1 + k]
      BY <1>2
    <3>2. p + q + 2 + (1 + k) = p + q + 3 + k
      OBVIOUS
    <3> QED BY <3>1, <3>2
  <2>5. p + 1 + 1 = p + 2 /\ p + q + 2 + 1 = p + q + 3
    OBVIOUS
  <2> QED BY <2>1, <2>2, <2>3, <2>4, <2>5
<1>4. /\ ~s[1].mig /\ s[1].uuid = a
      /\ ~s[p + 2].mig /\ s[p + 2].uuid = b
      /\ ~s[p + q + 3].mig /\ s[p + q + 3].uuid = c
  BY <1>3 DEF IsBlock
<1>5. /\ \A j \in 1 .. p : s[1 + j].mig /\ s[1 + j].index = j - 1 /\ s[1 + j].uuid = <<a, j - 1>>
      /\ \A j \in 1 .. q : s[p + 2 + j].mig /\ s[p + 2 + j].index = j - 1 /\ s[p + 2 + j].uuid = <<b, j - 1>>
      /\ \A j \in 1 .. r : s[p + q + 3 + j].mig /\ s[p + q + 3 + j].index = j - 1 /\ s[p + q + 3 + j].uuid = <<c, j - 1>>
  BY <1>3 DEF IsBlock
<1>6. \A k \in DOMAIN s : ~s[k].mig => k = 1 \/ k = p + 2 \/ k = p + q + 3
  <2> TAKE k \in DOMAIN s
  <2>1. k \in 1 .. p + q + r + 3
    BY <1>2
  <2>2. CASE k \in 2 .. p + 1
    <3>1. k - 1 \in 1 .. p /\ k = 1 + (k - 1)
      BY <2>2
    <3>2. s[1 + (k - 1)].mig
      BY <1>5, <3>1
    <3> QED BY <3>1, <3>2
  <2>3. CASE k \in p + 3 .. p + q + 2
    <3>1. k - p - 2 \in 1 .. q /\ k = p + 2 + (k - p - 2)
      BY <2>3
    <3>2. s[p + 2 + (k - p - 2)].mig
      BY <1>5, <3>1
    <3> QED BY <3>1, <3>2
  <2>4. CASE k \in p + q + 4 .. p + q + r + 3
    <3>1. k - p - q - 3 \in 1 .. r /\ k = p + q + 3 + (k - p - q - 3)
      BY <2>4
    <3>2. s[p + q + 3 + (k - p - q - 3)].mig
      BY <1>5, <3>1
    <3> QED BY <3>1, <3>2
  <2>5. \/ k = 1 \/ k = p + 2 \/ k = p + q + 3
        \/ k \in 2 .. p + 1 \/ k \in p + 3 .. p + q + 2 \/ k \in p + q + 4 .. p + q + r + 3
    BY <2>1, BlockOf
  <2> QED BY <2>2, <2>3, <2>4, <2>5
<1>0. /\ DOMAIN s = 1 .. Len(s) /\ Len(s) \in Nat
      /\ 1 \in DOMAIN s /\ p + 2 \in DOMAIN s /\ p + q + 3 \in DOMAIN s
  BY <1>2
<1>7. IsListed(s, a, 1, p)
  <2>1. \A k \in DOMAIN s : (~s[k].mig /\ s[k].uuid = a) <=> k = 1
    BY <1>0, <1>4, <1>6
  <2>2. 1 + p + 1 = p + 2 /\ 1 + p <= Len(s) /\ 1 \in Nat \ {0}
    BY <1>2
  <2> QED BY <1>0, <1>4, <1>5, <2>1, <2>2 DEF IsListed
<1>8. IsListed(s, b, p + 2, q)
  <2>1. \A k \in DOMAIN s : (~s[k].mig /\ s[k].uuid = b) <=> k = p + 2
    BY <1>0, <1>4, <1>6
  <2>2. p + 2 + q + 1 = p + q + 3 /\ p + 2 + q <= Len(s) /\ p + 2 \in Nat \ {0}
    BY <1>2
  <2> QED BY <1>0, <1>4, <1>5, <2>1, <2>2 DEF IsListed
<1>9. IsListed(s, c, p + q + 3, r)
  <2>1. \A k \in DOMAIN s : (~s[k].mig /\ s[k].uuid = c) <=> k = p + q + 3
    BY <1>0, <1>4, <1>6
  <2>2. p + q + 3 + r = Len(s) /\ p + q + 3 \in Nat \ {0}
    BY <1>2
  <2>3. ~(p + q + 3 + r < Len(s)) /\ p + q + 3 + r <= Len(s)
    BY <1>2
  <2> QED BY <1>0, <1>5, <2>1, <2>2, <2>3 DEF IsListed
<1> QED BY <1>7, <1>8, <1>9 DEF s

\* An instance of a GPU is asked for by its number.
SmiInput(t) ==
  /\ t.instances \in [{"g1", "g2", "g3"} -> Nat] /\ t.gpu \in {"g1", "g2", "g3"} /\ t.index \in Nat

FoundFor(t) ==
  GetMigUUIDFromIndex({n \in t.known : n < t.instances[t.gpu]},
    (LinesOf("g1", t.instances["g1"]) \o LinesOf("g2", t.instances["g2"])) \o LinesOf("g3", t.instances["g3"]),
    t.gpu, t.index)

\* Whatever the instances of the GPUs, the one found is the one meant.
LEMMA FoundIsOwn ==
  ASSUME NEW t, SmiInput(t)
  PROVE  FoundFor(t) = IF t.index < t.instances[t.gpu] THEN {<<t.gpu, t.index>>} ELSE {}
<1> DEFINE p == t.instances["g1"]
           q == t.instances["g2"]
           r == t.instances["g3"]
           A == LinesOf("g1", p)
           B == LinesOf("g2", q)
           C == LinesOf("g3", r)
           lines == (A \o B) \o C
           known == {n \in t.known : n < t.instances[t.gpu]}
<1>1. p \in Nat /\ q \in Nat /\ r \in Nat
  BY DEF SmiInput
<1> HIDE DEF p, q, r
<1>2. PICK UA : A \in Seq(UA) /\ IsBlock(A, "g1", p)
  BY <1>1, LinesAre
<1>3. PICK UB : B \in Seq(UB) /\ IsBlock(B, "g2", q)
  BY <1>1, LinesAre
<1>4. PICK UC : C \in Seq(UC) /\ IsBlock(C, "g3", r)
  BY <1>1, LinesAre
<1> HIDE DEF A, B, C
<1>5. "g1" # "g2" /\ "g1" # "g3" /\ "g2" # "g3"
  OBVIOUS
<1>6. IsListed(lines, "g1", 1, p) /\ IsListed(lines, "g2", p + 2, q) /\ IsListed(lines, "g3", p + q + 3, r)
  BY <1>1, <1>2, <1>3, <1>4, <1>5, ThreeBlocks
<1>7. \E o : IsListed(lines, t.gpu, o, t.instances[t.gpu])
  <2> HIDE DEF lines
  <2> QED BY <1>6 DEF SmiInput, p, q, r
<1>8. FoundFor(t) = GetMigUUIDFromIndex(known, lines, t.gpu, t.index)
  BY DEF FoundFor, A, B, C, p, q, r
<1> HIDE DEF lines
<1>9. GetMigUUIDFromSmiOutput(lines, t.gpu, t.index) = IF t.index < t.instances[t.gpu] THEN {<<t.gpu, t.index>>} ELSE {}
  BY <1>7, ListedIsOwn DEF SmiInput
<1> QED BY <1>8, <1>9 DEF GetMigUUIDFromIndex

-----------------------------------------------------------------------------
(* The specification file that is written.                                  *)

\* What is on the disk after k of the calls.
FileAfter(f, files, made, U) ==
  /\ f[0] = files
  /\ \A k \in 0 .. Len(made) : f[k] \in SUBSET U
  /\ \A k \in 0 .. Len(made) - 1 : f[k + 1] = IF made[k + 1] = {} THEN f[k] ELSE made[k + 1]

\* The calls are made one after the other.
LEMMA LeftFold ==
  ASSUME NEW U, NEW files \in SUBSET U, NEW made \in Seq(SUBSET U)
  PROVE  \E f : FileAfter(f, files, made, U) /\ LeftBy(files, made) = f[Len(made)]
<1> DEFINE n == Len(made)
           V == SUBSET U
           body(iter, s) ==
             IF s = {} THEN files
             ELSE IF made[Max(s)] = {} THEN iter[s \ {Max(s)}] ELSE made[Max(s)]
           IsIter(iter) == iter = [s \in SUBSET (DOMAIN made) |-> body(iter, s)]
           folded == CHOOSE iter : IsIter(iter)
           H == [t \in V \X (1 .. n) |-> IF made[t[2]] = {} THEN t[1] ELSE made[t[2]]]
<1>0. n \in Nat /\ DOMAIN made = 1 .. n /\ files \in V
  OBVIOUS
<1>1. LeftBy(files, made) = folded[1 .. n]
  BY DEF LeftBy, FoldLeft, MapThenFoldSet
<1>2. H \in [V \X (1 .. n) -> V]
  <2>1. ASSUME NEW t \in V \X (1 .. n)
        PROVE  (IF made[t[2]] = {} THEN t[1] ELSE made[t[2]]) \in V
    <3>1. t[1] \in V /\ t[2] \in 1 .. n
      OBVIOUS
    <3> QED BY <3>1
  <2> QED BY <2>1
<1>3. \A v \in V, k \in 1 .. n : H[<<v, k>>] = IF made[k] = {} THEN v ELSE made[k]
  OBVIOUS
<1> HIDE DEF H, V, n
<1>4. ASSUME NEW s \in SUBSET (1 .. n), s # {}
      PROVE  Max(s) \in 1 .. n /\ s \ {Max(s)} \in SUBSET (1 .. n)
  BY <1>0, <1>4, MaxOfFirst
<1>5. \E f : IsIter(f)
  <2>1. PICK f \in [SUBSET (1 .. n) -> V] : FoldsLeft(f, n, files, H)
    BY <1>0, <1>2, LeftRecursion
  <2>2. ASSUME NEW s \in SUBSET (1 .. n) PROVE f[s] = body(f, s)
    <3>1. CASE s = {}
      BY <3>1, <2>1 DEF FoldsLeft
    <3>2. CASE s # {}
      <4>1. f[s] = H[<<f[s \ {Max(s)}], Max(s)>>]
        BY <3>2, <2>1 DEF FoldsLeft
      <4> QED BY <3>2, <1>3, <1>4, <4>1
    <3> QED BY <3>1, <3>2
  <2> DEFINE h == [s \in SUBSET (DOMAIN made) |-> body(f, s)]
  <2>3. DOMAIN f = DOMAIN h /\ \A s \in SUBSET (1 .. n) : f[s] = h[s]
    BY <1>0, <2>2
  <2>4. f = h
    BY <2>3, <1>0
  <2> QED BY <2>4
<1>6. IsIter(folded)
  <2> HIDE DEF IsIter
  <2> QED BY <1>5
<1>7. \A s \in SUBSET (1 .. n) : folded[s] = body(folded, s)
  <2> HIDE DEF folded
  <2> TAKE s \in SUBSET (1 .. n)
  <2> DEFINE h == [t \in SUBSET (DOMAIN made) |-> body(folded, t)]
  <2>1. folded = h
    BY <1>6
  <2>2. h[s] = body(folded, s)
    <3>1. s \in SUBSET (DOMAIN made)
      BY <1>0
    <3>2. \A u \in SUBSET (DOMAIN made) : h[u] = body(folded, u)
      OBVIOUS
    <3> HIDE DEF h, body
    <3> QED BY <3>1, <3>2
  <2> HIDE DEF h, body
  <2> QED BY <2>1, <2>2
<1> HIDE DEF folded
<1>8. ObeysFold(folded, n, V, files, H)
  BY <1>3, <1>4, <1>7 DEF ObeysFold
<1> HIDE DEF IsIter, body
<1>9. PICK g : StepsOf(g, folded, n, V, files, H)
  BY <1>0, <1>2, <1>8, LeftSteps
<1>10. FileAfter(g, files, made, U)
  <2>1. \A k \in 0 .. n - 1 : g[k] \in V /\ k + 1 \in 1 .. n
    BY <1>0, <1>9 DEF StepsOf
  <2>2. \A k \in 0 .. n - 1 : g[k + 1] = IF made[k + 1] = {} THEN g[k] ELSE made[k + 1]
    BY <1>3, <1>9, <2>1 DEF StepsOf
  <2> QED BY <1>9, <2>2 DEF StepsOf, FileAfter, V, n
<1> QED BY <1>1, <1>9, <1>10 DEF n, StepsOf

\* The file is that of the last call that made one; the first one's, if it made one, is
\* the oldest it can be.
LEMMA LeftIs ==
  ASSUME NEW U, NEW files \in SUBSET U, NEW made \in Seq(SUBSET U), made # <<>>
  PROVE  /\ made[Len(made)] # {} => LeftBy(files, made) = made[Len(made)]
         /\ \/ LeftBy(files, made) = files /\ made[1] = {}
            \/ \E j \in DOMAIN made : LeftBy(files, made) = made[j]
<1> DEFINE n == Len(made)
<1>0. n \in Nat \ {0} /\ DOMAIN made = 1 .. n
  OBVIOUS
<1>1. PICK f : FileAfter(f, files, made, U) /\ LeftBy(files, made) = f[n]
  BY LeftFold
<1>2. \A k \in 0 .. n - 1 : f[k + 1] = IF made[k + 1] = {} THEN f[k] ELSE made[k + 1]
  BY <1>1 DEF FileAfter
<1> DEFINE Fine(k) == \/ f[k] = files /\ (k > 0 => made[1] = {})
                      \/ \E j \in 1 .. n : f[k] = made[j]
           S == {k \in Nat : k <= n => Fine(k)}
<1>3. f[0] = files
  BY <1>1 DEF FileAfter
<1> HIDE DEF n
<1>4. 0 \in S
  BY <1>3
<1>5. ASSUME NEW k \in Nat, k \in S PROVE k + 1 \in S
  <2>1. SUFFICES ASSUME k + 1 <= n PROVE Fine(k + 1)
    OBVIOUS
  <2>2. k \in 0 .. n - 1 /\ Fine(k) /\ k + 1 \in 1 .. n
    BY <1>0, <1>5, <2>1
  <2>3. f[k + 1] = IF made[k + 1] = {} THEN f[k] ELSE made[k + 1]
    BY <1>2, <2>2
  <2>4. CASE made[k + 1] # {}
    BY <2>2, <2>3, <2>4
  <2>5. CASE made[k + 1] = {}
    <3>1. k = 0 => made[1] = {}
      BY <2>5
    <3>2. f[k + 1] = f[k]
      BY <2>3, <2>5
    <3> QED BY <2>2, <3>1, <3>2
  <2> QED BY <2>4, <2>5
<1>6. Fine(n)
  <2> HIDE DEF Fine
  <2>1. Nat \subseteq S
    <3> HIDE DEF S
    <3> QED BY <1>4, <1>5, Induction
  <2> QED BY <1>0, <2>1
<1>7. made[n] # {} => f[n] = made[n]
  <2>1. n - 1 \in 0 .. n - 1 /\ (n - 1) + 1 = n
    BY <1>0
  <2>2. f[(n - 1) + 1] = IF made[(n - 1) + 1] = {} THEN f[n - 1] ELSE made[(n - 1) + 1]
    BY <1>2, <2>1
  <2> QED BY <2>1, <2>2
<1>8. \/ LeftBy(files, made) = files /\ made[1] = {}
      \/ \E j \in DOMAIN made : LeftBy(files, made) = made[j]
  BY <1>0, <1>1, <1>6
<1> QED BY <1>1, <1>7, <1>8 DEF n

\* A file of the partition before, if any, and what each call leaves: a file, or nothing.
Files == [kind : {"gpu", "other"}, of : {"before", "now"}, devices : SUBSET UNION {[mig : {FALSE}], [mig : {TRUE}, capability : BOOLEAN]}]
SpecInput(t) ==
  LET One(files, of) == \A file \in files : file.of = of /\ file \in Files /\ files = {file}
  IN /\ One(t.old, "before")
     /\ t.made \in Seq(SUBSET Files) /\ Len(t.made) = MaxTryTimes /\ \A n \in DOMAIN t.made : One(t.made[n], "now")

WrittenFor(t) == WrittenSpec(t.old, t.made)

\* Whatever the calls leave, the file that counts is complete, and new if it can be.
LEMMA WrittenIsComplete ==
  ASSUME NEW t, SpecInput(t)
  PROVE  /\ \A file \in WrittenFor(t) : checkCDISpec(file)
         /\ \A file \in WrittenFor(t) : file.of = "before" => t.made[1] = {}
         /\ WrittenFor(t) = {} => \A n \in DOMAIN t.made : ~CheckCDISpecFile(t.made[n])
<1> DEFINE Left(n) == LeftBy(t.old, SubSeq(t.made, 1, n))
           good == {n \in 1 .. MaxTryTimes : CheckCDISpecFile(Left(n))}
           first == CHOOSE n \in good : \A k \in good : n <= k
<1>1. WrittenFor(t) = IF good = {} THEN {} ELSE Left(first)
  BY DEF WrittenFor, WrittenSpec
<1>2. DOMAIN t.made = 1 .. MaxTryTimes /\ MaxTryTimes \in Nat
  BY DEF SpecInput, MaxTryTimes
<1>3. ASSUME NEW n \in 1 .. MaxTryTimes
      PROVE  /\ t.made[n] # {} => Left(n) = t.made[n]
             /\ \/ Left(n) = t.old /\ t.made[1] = {}
                \/ \E j \in DOMAIN t.made : Left(n) = t.made[j]
  <2> DEFINE s == SubSeq(t.made, 1, n)
  <2>1. s \in Seq(SUBSET Files) /\ Len(s) = n /\ \A j \in 1 .. n : s[j] = t.made[j]
    BY <1>2 DEF SpecInput
  <2>2. n \in 1 .. n /\ 1 \in 1 .. n /\ DOMAIN s = 1 .. n /\ s # <<>> /\ 1 .. n \subseteq DOMAIN t.made
    BY <1>2, <2>1
  <2>3. t.old \in SUBSET Files
    BY DEF SpecInput
  <2> HIDE DEF s
  <2>4. /\ s[n] # {} => LeftBy(t.old, s) = s[n]
        /\ \/ LeftBy(t.old, s) = t.old /\ s[1] = {}
           \/ \E j \in DOMAIN s : LeftBy(t.old, s) = s[j]
    <3>1. s \in Seq(SUBSET Files) /\ s # <<>> /\ Len(s) = n
      BY <2>1, <2>2
    <3> QED BY <2>3, <3>1, LeftIs
  <2>5. LeftBy(t.old, s) = Left(n)
    BY DEF s
  <2> HIDE DEF Left
  <2> QED BY <2>1, <2>2, <2>4, <2>5
<1> HIDE DEF Left
<1>4. good # {} => first \in good
  <2>1. good \in SUBSET Nat
    OBVIOUS
  <2> HIDE DEF good
  <2> QED BY <2>1, LeastNumber
<1> HIDE DEF first
<1>5. ASSUME good # {}
      PROVE  first \in 1 .. MaxTryTimes /\ CheckCDISpecFile(Left(first)) /\ WrittenFor(t) = Left(first)
  BY <1>1, <1>4, <1>5
<1>6. ASSUME NEW file \in WrittenFor(t)
      PROVE  checkCDISpec(file) /\ (file.of = "before" => t.made[1] = {})
  <2>1. good # {}
    BY <1>1, <1>6
  <2>2. first \in 1 .. MaxTryTimes /\ CheckCDISpecFile(Left(first)) /\ file \in Left(first)
    BY <1>5, <1>6, <2>1
  <2>3. CASE Left(first) = t.old /\ t.made[1] = {}
    <3>1. Left(first) = {file}
      BY <2>2, <2>3 DEF SpecInput
    <3> QED BY <2>2, <2>3, <3>1 DEF CheckCDISpecFile
  <2>4. CASE \E j \in DOMAIN t.made : Left(first) = t.made[j]
    <3>1. Left(first) = {file} /\ file.of = "now"
      BY <2>2, <2>4 DEF SpecInput
    <3> QED BY <2>2, <3>1 DEF CheckCDISpecFile
  <2> QED BY <1>3, <2>2, <2>3, <2>4
<1>7. ASSUME WrittenFor(t) = {}, NEW n \in DOMAIN t.made
      PROVE  ~CheckCDISpecFile(t.made[n])
  <2>1. SUFFICES ASSUME CheckCDISpecFile(t.made[n]) PROVE FALSE
    OBVIOUS
  <2>2. n \in 1 .. MaxTryTimes /\ t.made[n] # {}
    BY <1>2, <2>1 DEF CheckCDISpecFile
  <2>3. Left(n) = t.made[n]
    BY <1>3, <2>2
  <2>4. n \in good
    BY <2>1, <2>2, <2>3
  <2>5. CheckCDISpecFile(WrittenFor(t))
    BY <1>5, <2>4
  <2> QED BY <1>7, <2>5 DEF CheckCDISpecFile
<1> QED BY <1>6, <1>7

-----------------------------------------------------------------------------
(* The partition of the GPUs.                                               *)

\* The instances of the geometries.
LEMMA GeometriesAre ==
  /\ DOMAIN Geometries = 1 .. 4
  /\ LET Of(k) == Geometries[k].instances
     IN /\ DOMAIN Of(1) = {"1g"} /\ Of(1)["1g"] = 7
        /\ DOMAIN Of(2) = {"2g", "1g"} /\ Of(2)["2g"] = 3 /\ Of(2)["1g"] = 1
        /\ DOMAIN Of(3) = {"3g"} /\ Of(3)["3g"] = 2
        /\ DOMAIN Of(4) = {"7g"} /\ Of(4)["7g"] = 1
<1>1. Geometries[1].instances = [p \in {"1g"} |-> 7]
  BY DEF Geometries
<1>2. Geometries[2].instances = [p \in {"2g", "1g"} |-> IF p = "2g" THEN 3 ELSE 1]
  BY DEF Geometries
<1>3. Geometries[3].instances = [p \in {"3g"} |-> 2] /\ Geometries[4].instances = [p \in {"7g"} |-> 1]
  BY DEF Geometries
<1>4. DOMAIN Geometries = 1 .. 4
  BY DEF Geometries
<1> QED BY <1>1, <1>2, <1>3, <1>4

\* None of them is part of another.
LEMMA NoneIsPart ==
  ASSUME NEW k \in DOMAIN Geometries, NEW l \in DOMAIN Geometries,
         ~NeedsReset(Geometries[k].instances, Geometries[l].instances)
  PROVE  k = l
<1> DEFINE now == Geometries[k].instances
           wanted == Geometries[l].instances
<1>1. \A p \in DOMAIN wanted : p \in DOMAIN now /\ now[p] = wanted[p]
  BY DEF NeedsReset
<1>2. k \in {1, 2, 3, 4} /\ l \in {1, 2, 3, 4}
  BY GeometriesAre
<1>3. CASE l = 1
  <2>1. "1g" \in DOMAIN now /\ now["1g"] = 7
    BY <1>1, <1>3, GeometriesAre
  <2> QED BY <1>2, <1>3, <2>1, GeometriesAre
<1>4. CASE l = 2
  <2>1. "2g" \in DOMAIN now
    BY <1>1, <1>4, GeometriesAre
  <2> QED BY <1>2, <1>4, <2>1, GeometriesAre
<1>5. CASE l = 3
  <2>1. "3g" \in DOMAIN now
    BY <1>1, <1>5, GeometriesAre
  <2> QED BY <1>2, <1>5, <2>1, GeometriesAre
<1>6. CASE l = 4
  <2>1. "7g" \in DOMAIN now
    BY <1>1, <1>6, GeometriesAre
  <2> QED BY <1>2, <1>6, <2>1, GeometriesAre
<1> QED BY <1>2, <1>3, <1>4, <1>5, <1>6

\* A name is that of one group or of none.
LEMMA GroupIs ==
  ASSUME NEW name, Group(Geometries, name) # {}
  PROVE  \E k \in DOMAIN Geometries : Group(Geometries, name) = {Geometries[k].instances}
<1> DEFINE named == {k \in DOMAIN Geometries : Geometries[k].group = name}
           first == CHOOSE k \in named : \A l \in named : k <= l
<1>1. Group(Geometries, name) = IF named = {} THEN {} ELSE {Geometries[first].instances}
  BY DEF Group
<1>2. named # {} /\ named \in SUBSET Nat
  BY <1>1, GeometriesAre
<1>3. first \in named
  <2> HIDE DEF named
  <2> QED BY <1>2, LeastNumber
<1> QED BY <1>1, <1>2, <1>3

\* A partition of which no group is only a part.
Apt(c) ==
  \A k \in DOMAIN Geometries :
    ~NeedsReset(c.instances, Geometries[k].instances) => c.instances = Geometries[k].instances /\ c.enabled

\* The partitions of the two GPUs, if the instances are from some set.
Partitions(I) ==
  {cs \in [1 .. 2 -> [devices : SUBSET {0, 1}, enabled : BOOLEAN, instances : I]] :
     \A i \in 1 .. 2 : cs[i].devices = {i - 1} /\ Apt(cs[i])}

\* The partitions after a request.
Wanted(r) == [devices |-> {r.gpu}, enabled |-> TRUE, instances |-> CHOOSE w \in Group(Geometries, r.group) : TRUE]
After(cs, r) ==
  [i \in 1 .. 2 |-> IF r.gpu = i - 1 /\ Group(Geometries, r.group) # {} THEN Wanted(r) ELSE cs[i]]

\* What a group asks for is apt.
LEMMA WantedIsApt ==
  ASSUME NEW r, Group(Geometries, r.group) # {}
  PROVE  /\ Apt(Wanted(r)) /\ \E k \in DOMAIN Geometries : Wanted(r).instances = Geometries[k].instances
         /\ Group(Geometries, r.group) = {Wanted(r).instances}
<1>1. PICK k \in DOMAIN Geometries : Group(Geometries, r.group) = {Geometries[k].instances}
  BY GroupIs
<1>2. Wanted(r).instances = Geometries[k].instances /\ Wanted(r).enabled
  BY <1>1 DEF Wanted
<1>3. Apt(Wanted(r))
  BY <1>2, NoneIsPart DEF Apt
<1> QED BY <1>1, <1>2, <1>3

Holds(I) == \A k \in DOMAIN Geometries : Geometries[k].instances \in I

\* A request leaves partitions.
LEMMA AfterStays ==
  ASSUME NEW I, Holds(I), NEW cs \in Partitions(I), NEW r, r.gpu \in Nat
  PROVE  After(cs, r) \in Partitions(I)
<1> DEFINE R == [devices : SUBSET {0, 1}, enabled : BOOLEAN, instances : I]
<1>1. cs \in [1 .. 2 -> R] /\ \A i \in 1 .. 2 : cs[i].devices = {i - 1} /\ Apt(cs[i])
  BY DEF Partitions
<1>2. ASSUME NEW i \in 1 .. 2
      PROVE  After(cs, r)[i] \in R /\ After(cs, r)[i].devices = {i - 1} /\ Apt(After(cs, r)[i])
  <2>1. CASE r.gpu = i - 1 /\ Group(Geometries, r.group) # {}
    <3>1. After(cs, r)[i] = Wanted(r)
      BY <2>1 DEF After
    <3>2. Wanted(r).instances \in I /\ Apt(Wanted(r))
      BY <2>1, WantedIsApt DEF Holds
    <3>3. Wanted(r) \in R /\ Wanted(r).devices = {i - 1}
      <4>1. Wanted(r) = [devices |-> {i - 1}, enabled |-> TRUE, instances |-> Wanted(r).instances]
        BY <2>1 DEF Wanted
      <4>2. {i - 1} \in SUBSET {0, 1}
        OBVIOUS
      <4>3. \A w \in I, d \in SUBSET {0, 1} : [devices |-> d, enabled |-> TRUE, instances |-> w] \in R
        OBVIOUS
      <4>4. Wanted(r) \in R
        <5> HIDE DEF R
        <5> QED BY <3>2, <4>1, <4>2, <4>3
      <4> QED BY <4>1, <4>4
    <3> QED BY <3>1, <3>2, <3>3
  <2>2. CASE ~(r.gpu = i - 1 /\ Group(Geometries, r.group) # {})
    <3>1. After(cs, r)[i] = cs[i]
      BY <2>2 DEF After
    <3> QED BY <1>1, <3>1
  <2> QED BY <2>1, <2>2
<1>3. After(cs, r) = [i \in 1 .. 2 |-> After(cs, r)[i]]
  BY DEF After
<1>4. After(cs, r) \in [1 .. 2 -> R]
  <2> HIDE DEF R
  <2> QED BY <1>2, <1>3
<1> QED BY <1>2, <1>4 DEF Partitions

\* A request has what it asks for, whether anything has to be changed for it or not.
LEMMA GenerateGives ==
  ASSUME NEW I, NEW cs \in Partitions(I), NEW r, r.gpu \in Nat
  PROVE  LET g == GenerateMigTemplate(cs, Geometries, r)
         IN g.configs = After(cs, r) /\ (~g.reset => After(cs, r) = cs)
<1> DEFINE g == GenerateMigTemplate(cs, Geometries, r)
           listing == {k \in DOMAIN cs : r.gpu \in cs[k].devices}
           first == CHOOSE k \in listing : \A l \in listing : k <= l
           groups == Group(Geometries, r.group)
           wanted == CHOOSE w \in groups : TRUE
           reset == listing # {} /\ NeedsReset(cs[first].instances, wanted)
           R == [devices : SUBSET {0, 1}, enabled : BOOLEAN, instances : I]
<1>1. cs \in [1 .. 2 -> R] /\ \A i \in 1 .. 2 : cs[i].devices = {i - 1} /\ Apt(cs[i])
  BY DEF Partitions
<1>2. listing = {k \in 1 .. 2 : r.gpu = k - 1}
  <2>1. DOMAIN cs = 1 .. 2
    BY <1>1
  <2> QED BY <1>1, <2>1
<1>3. CASE groups = {}
  <2>1. g.configs = cs
    BY <1>3 DEF GenerateMigTemplate
  <2>2. After(cs, r) = [i \in 1 .. 2 |-> cs[i]]
    BY <1>3 DEF After
  <2> QED BY <1>1, <2>1, <2>2
<1>4. CASE groups # {}
  <2>1. g = [position |-> r.position, reset |-> reset,
             configs |-> IF ~reset THEN cs
                         ELSE [cs EXCEPT ![first] = [devices |-> @.devices, enabled |-> TRUE,
                                                     instances |-> wanted]]]
    BY <1>4 DEF GenerateMigTemplate
  <2>2. CASE listing = {}
    <3>1. g.configs = cs
      BY <2>1, <2>2
    <3>2. \A i \in 1 .. 2 : r.gpu # i - 1
      BY <1>2, <2>2
    <3>3. After(cs, r) = [i \in 1 .. 2 |-> cs[i]]
      BY <3>2 DEF After
    <3> QED BY <1>1, <3>1, <3>3
  <2>3. CASE listing # {}
    <3>1. PICK i \in 1 .. 2 : r.gpu = i - 1
      BY <1>2, <2>3
    <3>2. listing = {i}
      BY <1>2, <3>1
    <3> HIDE DEF listing
    <3>3. first = i
      BY <3>2
    <3> HIDE DEF first
    <3>4. wanted = Wanted(r).instances /\ Wanted(r) = [devices |-> {i - 1}, enabled |-> TRUE, instances |-> wanted]
      BY <3>1 DEF Wanted
    <3>5. \E k \in DOMAIN Geometries : wanted = Geometries[k].instances
      BY <1>4, <3>4, WantedIsApt
    <3>6. \A j \in 1 .. 2 : After(cs, r)[j] = IF j = i THEN Wanted(r) ELSE cs[j]
      BY <1>4, <3>1 DEF After
    <3>7. DOMAIN After(cs, r) = 1 .. 2
      BY DEF After
    <3> HIDE DEF wanted
    <3>8. CASE reset
      <4>1. g.configs = [cs EXCEPT ![i] = [devices |-> cs[i].devices, enabled |-> TRUE, instances |-> wanted]]
        BY <2>1, <3>3, <3>8
      <4>2. [devices |-> cs[i].devices, enabled |-> TRUE, instances |-> wanted] = Wanted(r)
        BY <1>1, <3>4
      <4>3. g.configs = [cs EXCEPT ![i] = Wanted(r)]
        BY <4>1, <4>2
      <4>4. After(cs, r) = [j \in 1 .. 2 |-> After(cs, r)[j]]
        BY DEF After
      <4>5. [cs EXCEPT ![i] = Wanted(r)] = After(cs, r)
        BY <1>1, <3>6, <3>7, <4>4
      <4>6. g.reset
        <5>1. g.reset = reset
          <6> HIDE DEF reset, g
          <6> QED BY <2>1
        <5> QED BY <3>8, <5>1, Zenon
      <4> QED BY <4>3, <4>5, <4>6
    <3>9. CASE ~reset
      <4>1. g.configs = cs
        BY <2>1, <3>9
      <4>2. cs[i].instances = wanted /\ cs[i].enabled
        BY <1>1, <2>3, <3>3, <3>5, <3>9 DEF Apt
      <4>3. cs[i] = Wanted(r)
        <5>1. cs[i] \in R /\ cs[i].devices = {i - 1}
          BY <1>1
        <5>2. cs[i] = [devices |-> {i - 1}, enabled |-> TRUE, instances |-> wanted]
          BY <4>2, <5>1
        <5> QED BY <3>4, <5>2
      <4>4. After(cs, r) = cs
        <5>1. \A j \in 1 .. 2 : After(cs, r)[j] = cs[j]
          BY <3>6, <4>3
        <5>2. After(cs, r) = [j \in 1 .. 2 |-> cs[j]]
          BY <5>1 DEF After
        <5> QED BY <1>1, <5>2
      <4> QED BY <4>1, <4>4
    <3> QED BY <3>8, <3>9
  <2> QED BY <2>2, <2>3
<1> QED BY <1>3, <1>4

\* What one request does to the partitions, those kept and those of the hardware.
Applied(st, r) ==
  LET g == GenerateMigTemplate(st.configs, Geometries, r)
  IN [configs |-> g.configs, hardware |-> IF g.reset THEN g.configs ELSE st.hardware]
Both(cs) == [configs |-> cs, hardware |-> cs]

\* As long as the partitions kept are those of the hardware, a request keeps them so.
LEMMA AppliedIs ==
  ASSUME NEW I, NEW cs \in Partitions(I), NEW r, r.gpu \in Nat
  PROVE  Applied(Both(cs), r) = Both(After(cs, r))
<1> DEFINE g == GenerateMigTemplate(cs, Geometries, r)
<1>1. g.configs = After(cs, r) /\ (~g.reset => After(cs, r) = cs)
  BY GenerateGives
<1>2. Both(cs).configs = cs /\ Both(cs).hardware = cs
  BY DEF Both
<1>3. Applied(Both(cs), r) = [configs |-> g.configs, hardware |-> IF g.reset THEN g.configs ELSE cs]
  BY <1>2 DEF Applied
<1> HIDE DEF g
<1> QED BY <1>1, <1>3 DEF Both

\* The partitions after k of the requests.
PartitionsAfter(f, cs, requests, I) ==
  /\ f[0] = cs
  /\ \A k \in 0 .. Len(requests) : f[k] \in Partitions(I)
  /\ \A k \in 0 .. Len(requests) - 1 : f[k + 1] = After(f[k], requests[k + 1])

\* The requests are done one after the other.
LEMMA PartitionFold ==
  ASSUME NEW U, \A u \in U : u.gpu \in Nat, NEW requests \in Seq(U),
         NEW I, Holds(I), NEW cs \in Partitions(I)
  PROVE  \E f : /\ PartitionsAfter(f, cs, requests, I)
                /\ Partitioned(cs, cs, Geometries, requests) = Both(f[Len(requests)])
<1> DEFINE n == Len(requests)
           V == {Both(c) : c \in Partitions(I)}
           base == Both(cs)
           body(iter, s) ==
             IF s = {} THEN base ELSE Applied(iter[s \ {Max(s)}], requests[Max(s)])
           IsIter(iter) == iter = [s \in SUBSET (DOMAIN requests) |-> body(iter, s)]
           folded == CHOOSE iter : IsIter(iter)
           H == [t \in V \X (1 .. n) |-> Applied(t[1], requests[t[2]])]
<1>0. n \in Nat /\ DOMAIN requests = 1 .. n /\ base \in V /\ \A k \in 1 .. n : requests[k] \in U
  OBVIOUS
<1>1. Partitioned(cs, cs, Geometries, requests) = folded[1 .. n]
  BY DEF Partitioned, Applied, Both, FoldLeft, MapThenFoldSet
<1>2. \A v \in V, k \in 1 .. n : Applied(v, requests[k]) \in V
  <2> TAKE v \in V, k \in 1 .. n
  <2>1. PICK c \in Partitions(I) : v = Both(c)
    OBVIOUS
  <2>2. requests[k] \in U
    BY <1>0
  <2>3. requests[k].gpu \in Nat
    BY <2>2
  <2>4. Applied(v, requests[k]) = Both(After(c, requests[k])) /\ After(c, requests[k]) \in Partitions(I)
    BY <2>1, <2>3, AppliedIs, AfterStays
  <2> QED BY <2>4
<1>3. H \in [V \X (1 .. n) -> V]
  <2>1. ASSUME NEW t \in V \X (1 .. n) PROVE Applied(t[1], requests[t[2]]) \in V
    <3>1. t[1] \in V /\ t[2] \in 1 .. n
      OBVIOUS
    <3> HIDE DEF V, n
    <3> QED BY <1>2, <3>1
  <2> QED BY <2>1
<1>4. \A v \in V, k \in 1 .. n : H[<<v, k>>] = Applied(v, requests[k])
  OBVIOUS
<1> HIDE DEF H, V, n, base
<1>5. ASSUME NEW s \in SUBSET (1 .. n), s # {}
      PROVE  Max(s) \in 1 .. n /\ s \ {Max(s)} \in SUBSET (1 .. n)
  BY <1>0, <1>5, MaxOfFirst
<1>6. \E f : IsIter(f)
  <2>1. PICK f \in [SUBSET (1 .. n) -> V] : FoldsLeft(f, n, base, H)
    BY <1>0, <1>3, LeftRecursion
  <2>2. ASSUME NEW s \in SUBSET (1 .. n) PROVE f[s] = body(f, s)
    <3>1. CASE s = {}
      BY <3>1, <2>1 DEF FoldsLeft
    <3>2. CASE s # {}
      <4>1. f[s] = H[<<f[s \ {Max(s)}], Max(s)>>]
        BY <3>2, <2>1 DEF FoldsLeft
      <4> QED BY <3>2, <1>4, <1>5, <4>1
    <3> QED BY <3>1, <3>2
  <2> DEFINE h == [s \in SUBSET (DOMAIN requests) |-> body(f, s)]
  <2>3. DOMAIN f = DOMAIN h /\ \A s \in SUBSET (1 .. n) : f[s] = h[s]
    BY <1>0, <2>2
  <2>4. f = h
    BY <2>3, <1>0
  <2> QED BY <2>4
<1>7. IsIter(folded)
  <2> HIDE DEF IsIter
  <2> QED BY <1>6
<1>8. \A s \in SUBSET (1 .. n) : folded[s] = body(folded, s)
  <2> HIDE DEF folded
  <2> TAKE s \in SUBSET (1 .. n)
  <2> DEFINE h == [t \in SUBSET (DOMAIN requests) |-> body(folded, t)]
  <2>1. folded = h
    BY <1>7
  <2>2. s \in SUBSET (DOMAIN requests) /\ \A u \in SUBSET (DOMAIN requests) : h[u] = body(folded, u)
    BY <1>0
  <2> HIDE DEF h, body
  <2> QED BY <2>1, <2>2
<1> HIDE DEF folded
<1>9. ObeysFold(folded, n, V, base, H)
  BY <1>4, <1>5, <1>8 DEF ObeysFold
<1> HIDE DEF IsIter, body
<1>10. PICK g : StepsOf(g, folded, n, V, base, H)
  BY <1>0, <1>3, <1>9, LeftSteps
<1> DEFINE f == [k \in 0 .. n |-> g[k].configs]
<1>11. \A c : Both(c).configs = c
  BY DEF Both
<1>12. \A k \in 0 .. n : g[k] \in V /\ f[k] = g[k].configs
  BY <1>10 DEF StepsOf
<1> HIDE DEF f
<1>13. \A k \in 0 .. n : f[k] \in Partitions(I) /\ g[k] = Both(f[k])
  BY <1>11, <1>12 DEF V
<1>14. PartitionsAfter(f, cs, requests, I)
  <2>1. 0 \in 0 .. n /\ g[0] = base
    BY <1>0, <1>10 DEF StepsOf
  <2>2. f[0] = cs
    BY <1>11, <1>12, <2>1 DEF base
  <2>3. ASSUME NEW k \in 0 .. n - 1 PROVE f[k + 1] = After(f[k], requests[k + 1])
    <3>1. k \in 0 .. n /\ k + 1 \in 0 .. n /\ k + 1 \in 1 .. n
      BY <1>0
    <3>2. g[k + 1] = Applied(g[k], requests[k + 1])
      BY <1>4, <1>10, <1>12, <3>1 DEF StepsOf
    <3>3. g[k] = Both(f[k]) /\ f[k] \in Partitions(I) /\ requests[k + 1].gpu \in Nat
      BY <1>0, <1>13, <3>1
    <3>4. g[k + 1] = Both(After(f[k], requests[k + 1]))
      BY <3>2, <3>3, AppliedIs
    <3> QED BY <1>11, <1>12, <3>1, <3>4
  <2> QED BY <1>13, <2>2, <2>3 DEF PartitionsAfter, n
<1>15. n \in 0 .. n /\ folded[1 .. n] = g[n]
  BY <1>0, <1>10 DEF StepsOf
<1> QED BY <1>1, <1>13, <1>14, <1>15 DEF n

\* The requests for a GPU among the first k.
Asked(requests, i, k) == {l \in 1 .. k : requests[l].gpu = i - 1 /\ Group(Geometries, requests[l].group) # {}}

\* What the last of them asked for, or nothing.
LastOf(now, before, requests, i, k) ==
  IF Asked(requests, i, k) = {} THEN now = before
  ELSE \E l \in Asked(requests, i, k) : (\A m \in Asked(requests, i, k) : m <= l) /\ now = Wanted(requests[l])

\* Every GPU has what was last asked for.
LEMMA LastIs ==
  ASSUME NEW U, \A u \in U : u.gpu \in Nat, NEW requests \in Seq(U),
         NEW I, NEW cs, NEW f, PartitionsAfter(f, cs, requests, I), NEW i \in 1 .. 2
  PROVE  LastOf(f[Len(requests)][i], cs[i], requests, i, Len(requests))
<1> DEFINE n == Len(requests)
           S == {k \in Nat : k <= n => LastOf(f[k][i], cs[i], requests, i, k)}
<1>0. n \in Nat
  OBVIOUS
<1>1. 0 \in S
  <2>1. f[0] = cs
    BY DEF PartitionsAfter
  <2>2. Asked(requests, i, 0) = {}
    BY DEF Asked
  <2> QED BY <2>1, <2>2 DEF LastOf
<1>2. ASSUME NEW k \in Nat, k \in S PROVE k + 1 \in S
  <2>1. SUFFICES ASSUME k + 1 <= n PROVE LastOf(f[k + 1][i], cs[i], requests, i, k + 1)
    OBVIOUS
  <2>2. k \in 0 .. n - 1 /\ LastOf(f[k][i], cs[i], requests, i, k)
    BY <1>0, <1>2, <2>1
  <2>3. f[k + 1] = After(f[k], requests[k + 1])
    BY <2>2 DEF PartitionsAfter
  <2> DEFINE r == requests[k + 1]
  <2>4. CASE r.gpu = i - 1 /\ Group(Geometries, r.group) # {}
    <3>1. f[k + 1][i] = Wanted(r)
      BY <2>3, <2>4 DEF After
    <3>2. k + 1 \in Asked(requests, i, k + 1) /\ \A m \in Asked(requests, i, k + 1) : m <= k + 1
      BY <2>4 DEF Asked
    <3> QED BY <3>1, <3>2 DEF LastOf
  <2>5. CASE ~(r.gpu = i - 1 /\ Group(Geometries, r.group) # {})
    <3>1. f[k + 1][i] = f[k][i]
      BY <2>3, <2>5 DEF After
    <3>2. Asked(requests, i, k + 1) = Asked(requests, i, k)
      <4>1. 1 .. k + 1 = (1 .. k) \cup {k + 1}
        OBVIOUS
      <4> QED BY <2>5, <4>1 DEF Asked
    <3> QED BY <2>2, <3>1, <3>2 DEF LastOf
  <2> QED BY <2>4, <2>5
<1>3. Nat \subseteq S
  <2> HIDE DEF S
  <2> QED BY <1>1, <1>2, Induction
<1> QED BY <1>0, <1>3

\* An export lists partitions, each of them apt, with the instances of the geometries or
\* any others; the requests name GPUs and groups.
ExportFrom(export, I) == Holds(I) /\ export \in Seq([devices : SUBSET Nat, enabled : BOOLEAN, instances : I])
RequestsOf(requests, G) == requests \in Seq([gpu : Nat, group : G, position : Int])
PartitionInput(t) ==
  /\ \E G : RequestsOf(t.requests, G)
  /\ \E I : ExportFrom(t.export, I)
  /\ \A k \in DOMAIN t.export : Apt(t.export[k])

\* The partition of each GPU is one of those listed.
LEMMA ExportGives ==
  ASSUME NEW t, PartitionInput(t), processMigConfigs(t.export, 2).ok, NEW I, ExportFrom(t.export, I)
  PROVE  processMigConfigs(t.export, 2).configs \in Partitions(I)
<1> DEFINE entries == t.export
           Listing(i) == {k \in DOMAIN entries : i \in entries[k].devices}
           Latest(i) == CHOOSE k \in Listing(i) : \A l \in Listing(i) : l <= k
           Own(k, i) == [entries[k] EXCEPT !.devices = {i}]
           alone == Len(entries) = 1 /\ entries[1].devices = {}
           all == processMigConfigs(entries, 2)
           R == [devices : SUBSET {0, 1}, enabled : BOOLEAN, instances : I]
           OfAll == [i \in 1 .. 2 |-> Own(1, i - 1)]
           OfEach == [i \in 1 .. 2 |-> Own(Latest(i - 1), i - 1)]
<1>1. all = IF alone THEN [ok |-> TRUE, configs |-> OfAll]
            ELSE IF \E i \in 0 .. 2 - 1 : Listing(i) = {} THEN Refused
            ELSE [ok |-> TRUE, configs |-> OfEach]
  BY DEF processMigConfigs
<1>2. ASSUME NEW k \in DOMAIN entries, NEW i \in 1 .. 2
      PROVE  Own(k, i - 1) \in R /\ Own(k, i - 1).devices = {i - 1} /\ Apt(Own(k, i - 1))
  <2> DEFINE e == entries[k]
  <2>1. e \in [devices : SUBSET Nat, enabled : BOOLEAN, instances : I] /\ Apt(e)
    <3> DEFINE X == [devices : SUBSET Nat, enabled : BOOLEAN, instances : I]
    <3>1. entries \in Seq(X) /\ Apt(e)
      BY DEF PartitionInput, ExportFrom
    <3> HIDE DEF X
    <3>2. e \in X
      BY <3>1
    <3> QED BY <3>1, <3>2 DEF X
  <2> HIDE DEF e
  <2>2. [e EXCEPT !.devices = {i - 1}] = [devices |-> {i - 1}, enabled |-> e.enabled, instances |-> e.instances]
    <3>1. e = [devices |-> e.devices, enabled |-> e.enabled, instances |-> e.instances]
      BY <2>1
    <3> QED BY <3>1
  <2>3. {i - 1} \in SUBSET {0, 1} /\ e.enabled \in BOOLEAN /\ e.instances \in I
    BY <2>1
  <2> DEFINE o == [devices |-> {i - 1}, enabled |-> e.enabled, instances |-> e.instances]
  <2>4. o \in R /\ o.devices = {i - 1}
    BY <2>3
  <2>5. Apt(o)
    BY <2>1 DEF Apt
  <2> QED BY <2>2, <2>4, <2>5 DEF e
<1> HIDE DEF Own, R
<1>3. ASSUME alone PROVE OfAll \in Partitions(I)
  <2>1. 1 \in DOMAIN entries
    BY <1>3 DEF ExportFrom
  <2>2. \A i \in 1 .. 2 : OfAll[i] \in R /\ OfAll[i].devices = {i - 1} /\ Apt(OfAll[i])
    BY <1>2, <2>1
  <2>3. OfAll \in [1 .. 2 -> R]
    BY <1>2, <2>1
  <2> QED BY <2>2, <2>3 DEF Partitions, R
<1>4. ASSUME \A i \in 0 .. 2 - 1 : Listing(i) # {} PROVE OfEach \in Partitions(I)
  <2>1. ASSUME NEW i \in 1 .. 2 PROVE Latest(i - 1) \in DOMAIN entries
    <3>1. Listing(i - 1) # {}
      BY <1>4
    <3>2. Listing(i - 1) \in SUBSET (0 .. Len(entries)) /\ Len(entries) \in Nat
      BY DEF ExportFrom
    <3>3. Latest(i - 1) \in Listing(i - 1)
      <4> HIDE DEF Listing
      <4> QED BY <3>1, <3>2, GreatestNumber
    <3> QED BY <3>3
  <2> HIDE DEF Latest
  <2>2. \A i \in 1 .. 2 : OfEach[i] \in R /\ OfEach[i].devices = {i - 1} /\ Apt(OfEach[i])
    BY <1>2, <2>1
  <2>3. OfEach \in [1 .. 2 -> R]
    BY <1>2, <2>1
  <2> QED BY <2>2, <2>3 DEF Partitions, R
<1> HIDE DEF alone, OfAll, OfEach, Listing
<1>5. CASE alone
  BY <1>1, <1>3, <1>5
<1>6. CASE ~alone
  <2>1. \A i \in 0 .. 2 - 1 : Listing(i) # {}
    BY <1>1, <1>6 DEF Refused
  <2> QED BY <1>1, <1>4, <1>6, <2>1
<1> QED BY <1>5, <1>6

\* What the requests make of the partitions.
Outcome(t) ==
  LET exported == processMigConfigs(t.export, 2)
  IN IF ~exported.ok THEN exported
     ELSE [ok |-> TRUE, before |-> exported.configs,
           after |-> Partitioned(exported.configs, exported.configs, Geometries, t.requests)]

LastRequested(t, o) ==
  \A i \in {1, 2} :
    LET asked == {k \in DOMAIN t.requests : /\ t.requests[k].gpu = i - 1
                                            /\ Group(Geometries, t.requests[k].group) # {}}
        now == o.after.hardware[i]
    IN IF asked = {} THEN now = o.before[i]
       ELSE \E k \in asked : /\ \A l \in asked : l <= k
                             /\ {now.instances} = Group(Geometries, t.requests[k].group)
                             /\ now.enabled /\ now.devices = {i - 1}

\* Whatever was exported and requested, every GPU has what was last asked for on it.
LEMMA LastRequestedIs ==
  ASSUME NEW t, PartitionInput(t), Outcome(t).ok
  PROVE  LastRequested(t, Outcome(t))
<1> DEFINE exported == processMigConfigs(t.export, 2)
           cs == exported.configs
           o == Outcome(t)
           n == Len(t.requests)
<1>1. o = IF ~exported.ok THEN exported
          ELSE [ok |-> TRUE, before |-> cs, after |-> Partitioned(cs, cs, Geometries, t.requests)]
  BY DEF Outcome
<1>2. exported.ok
  <2> HIDE DEF exported, cs
  <2>1. CASE ~exported.ok
    BY <1>1, <2>1
  <2> QED BY <2>1
<1>3. o.before = cs /\ o.after = Partitioned(cs, cs, Geometries, t.requests)
  <2> HIDE DEF exported, cs, o
  <2> QED BY <1>1, <1>2
<1>I. PICK I : ExportFrom(t.export, I)
  BY DEF PartitionInput
<1>G. PICK G : RequestsOf(t.requests, G)
  BY DEF PartitionInput
<1>4. cs \in Partitions(I)
  BY <1>2, <1>I, ExportGives
<1> DEFINE U == [gpu : Nat, group : G, position : Int]
<1>5. t.requests \in Seq(U) /\ \A u \in U : u.gpu \in Nat
  BY <1>G DEF RequestsOf
<1>H. Holds(I)
  BY <1>I DEF ExportFrom
<1> HIDE DEF exported, cs, o, U
<1>6. PICK f : /\ PartitionsAfter(f, cs, t.requests, I)
               /\ Partitioned(cs, cs, Geometries, t.requests) = Both(f[n])
  BY <1>4, <1>5, <1>H, PartitionFold
<1>7. o.after.hardware = f[n]
  BY <1>3, <1>6 DEF Both
<1>8. ASSUME NEW i \in {1, 2} PROVE LastOf(f[n][i], cs[i], t.requests, i, n)
  <2>1. i \in 1 .. 2
    OBVIOUS
  <2> QED BY <1>5, <1>6, <2>1, LastIs
<1>9. DOMAIN t.requests = 1 .. n
  BY <1>5
<1> HIDE DEF n
<1>10. ASSUME NEW i \in {1, 2}
       PROVE  LET asked == {k \in DOMAIN t.requests : /\ t.requests[k].gpu = i - 1
                                                     /\ Group(Geometries, t.requests[k].group) # {}}
                  now == o.after.hardware[i]
              IN IF asked = {} THEN now = o.before[i]
                 ELSE \E k \in asked : /\ \A l \in asked : l <= k
                                       /\ {now.instances} = Group(Geometries, t.requests[k].group)
                                       /\ now.enabled /\ now.devices = {i - 1}
  <2> DEFINE asked == {k \in DOMAIN t.requests : /\ t.requests[k].gpu = i - 1
                                                 /\ Group(Geometries, t.requests[k].group) # {}}
             now == o.after.hardware[i]
  <2> SUFFICES IF asked = {} THEN now = o.before[i]
               ELSE \E k \in asked : /\ \A l \in asked : l <= k
                                     /\ {now.instances} = Group(Geometries, t.requests[k].group)
                                     /\ now.enabled /\ now.devices = {i - 1}
    OBVIOUS
  <2>1. asked = Asked(t.requests, i, n)
    BY <1>9 DEF Asked
  <2>2. now = f[n][i]
    BY <1>7
  <2>3. LastOf(now, cs[i], t.requests, i, n)
    BY <1>8, <2>2
  <2>4. CASE asked = {}
    BY <1>3, <2>1, <2>3, <2>4 DEF LastOf
  <2>5. CASE asked # {}
    <3>1. PICK l \in asked : (\A m \in asked : m <= l) /\ now = Wanted(t.requests[l])
      <4> HIDE DEF asked, now
      <4> QED BY <2>1, <2>3, <2>5 DEF LastOf
    <3>2. t.requests[l].gpu = i - 1 /\ Group(Geometries, t.requests[l].group) # {}
      OBVIOUS
    <3>3. Group(Geometries, t.requests[l].group) = {now.instances} /\ now.enabled /\ now.devices = {i - 1}
      <4>1. Group(Geometries, t.requests[l].group) = {Wanted(t.requests[l]).instances}
        BY <3>2, WantedIsApt
      <4>2. Wanted(t.requests[l]).enabled /\ Wanted(t.requests[l]).devices = {i - 1}
        BY <3>2 DEF Wanted
      <4> HIDE DEF now
      <4> QED BY <3>1, <4>1, <4>2
    <3> HIDE DEF asked, now
    <3> QED BY <2>5, <3>1, <3>3
  <2> QED BY <2>4, <2>5
<1> QED BY <1>10 DEF LastRequested, o

-----------------------------------------------------------------------------
\* Any partition is asked for, any instance looked up, any file made.
MigInput(t) ==
  \/ t.of = "partition" /\ PartitionInput(t)
  \/ t.of = "smi" /\ SmiInput(t)
  \/ t.of = "spec" /\ SpecInput(t)
MigInit == result = <<>> /\ MigInput(task)
MigSpec == MigInit /\ [][Next]_vars

\* A GPU has the partition last asked for, the instance found on it is its own, and the
\* file written of them is complete (GenerateMigTemplate, GetMigUUIDFromIndex,
\* CheckCDISpecFile).
THEOREM MigDeviceAssigned == MigSpec => []MigDeviceIsTheOneAssigned
<1> DEFINE Inv == /\ MigInput(task)
                  /\ result # <<>> => /\ task.of = "partition" => Result = Outcome(task)
                                      /\ task.of = "smi" => Result = FoundFor(task)
                                      /\ task.of = "spec" => Result = WrittenFor(task)
<1>1. MigInit => Inv
  BY DEF MigInit
<1>2. Inv /\ [Next]_vars => Inv'
  <2>1. SUFFICES ASSUME Inv, [Next]_vars PROVE Inv'
    OBVIOUS
  <2>2. CASE UNCHANGED vars
    BY <2>1, <2>2 DEF vars, Result
  <2>3. CASE Next /\ task.of = "partition"
    <3>1. task' = task /\ result' \in {<<o>> : o \in {Outcome(task)}}
      BY <2>3, OwnStep DEF Partition, Step, Outcome
    <3>2. result' = <<Outcome(task)>>
      BY <3>1
    <3> QED BY <2>1, <2>3, <3>1, <3>2 DEF Result
  <2>4. CASE Next /\ task.of = "smi"
    <3>1. task' = task /\ result' \in {<<o>> : o \in {FoundFor(task)}}
      BY <2>4, OwnStep DEF Smi, Step, FoundFor, LinesOf
    <3>2. result' = <<FoundFor(task)>>
      BY <3>1
    <3> QED BY <2>1, <2>4, <3>1, <3>2 DEF Result
  <2>5. CASE Next /\ task.of = "spec"
    <3>1. task' = task /\ result' \in {<<o>> : o \in {WrittenFor(task)}}
      BY <2>5, OwnStep DEF WriteSpec, Step, WrittenFor
    <3>2. result' = <<WrittenFor(task)>>
      BY <3>1
    <3> QED BY <2>1, <2>5, <3>1, <3>2 DEF Result
  <2> QED BY <2>1, <2>2, <2>3, <2>4, <2>5 DEF MigInput
<1>3. Inv => MigDeviceIsTheOneAssigned
  <2>1. SUFFICES ASSUME Inv PROVE MigDeviceIsTheOneAssigned
    OBVIOUS
  <2>2. PartitionIsTheLastRequested
    <3>1. ASSUME Done("partition"), Result.ok PROVE LastRequested(task, Result)
      <4>1. Result = Outcome(task) /\ PartitionInput(task)
        BY <2>1, <3>1 DEF MigInput, Done
      <4> QED BY <3>1, <4>1, LastRequestedIs
    <3> QED BY <3>1 DEF PartitionIsTheLastRequested, LastRequested
  <2>3. InstanceIsOwn
    BY <2>1, FoundIsOwn DEF MigInput, Done, InstanceIsOwn
  <2>4. SpecIsComplete
    <3>1. ASSUME Done("spec") PROVE Result = WrittenFor(task) /\ SpecInput(task)
      BY <2>1, <3>1 DEF MigInput, Done
    <3> QED BY <3>1, WrittenIsComplete DEF SpecIsComplete
  <2> QED BY <2>2, <2>3, <2>4 DEF MigDeviceIsTheOneAssigned
<1> QED BY <1>1, <1>2, <1>3, PTL DEF MigSpec

-----------------------------------------------------------------------------
(* The Xids that count.                                                     *)

\* The entries of the lists are numbers or words, and an Xid is a number other than 0.
XidInput(t) ==
  /\ t.disable \in SUBSET (Nat \cup {All, Malformed}) /\ t.enable \in SUBSET (Nat \cup {All, Malformed})
  /\ t.xid \in Nat \ {0}

Meant(list) == IF 0 \in list THEN list \cup {All} ELSE list
IgnoredFor(t) == IsDisabled(DisabledXids(t.disable, t.enable), t.xid)

\* The map of the lists ignores what they do not select.
LEMMA IgnoredIsMeant ==
  ASSUME NEW t, XidInput(t)
  PROVE  IgnoredFor(t) = ~Selected(Meant(t.disable), Meant(t.enable), t.xid)
<1> DEFINE off == newHealthCheckXIDs(t.disable) \cup ignoredXids
           on == newHealthCheckXIDs(t.enable)
           map == [x \in off \cup on |-> x \notin on]
           x == t.xid
<1>1. All \notin Nat /\ x \in Nat /\ x # 0 /\ 0 \notin ignoredXids /\ x # All
  BY EntriesAssumption DEF XidInput, ignoredXids
<1>2. /\ (0 \in on) = (0 \in t.enable \/ All \in t.enable)
      /\ (x \in on) = (x \in t.enable /\ All \notin t.enable)
  BY <1>1 DEF newHealthCheckXIDs, allXIDs
<1>3. /\ (0 \in off) = (0 \in t.disable \/ All \in t.disable)
      /\ (x \in off) = (x \in ignoredXids \/ (x \in t.disable /\ All \notin t.disable))
  BY <1>1 DEF newHealthCheckXIDs, allXIDs
<1>4. /\ (All \in Meant(t.enable)) = (0 \in t.enable \/ All \in t.enable)
      /\ (x \in Meant(t.enable)) = (x \in t.enable)
      /\ (All \in Meant(t.disable)) = (0 \in t.disable \/ All \in t.disable)
      /\ (x \in Meant(t.disable)) = (x \in t.disable)
  BY <1>1 DEF Meant
<1>5. DOMAIN map = off \cup on /\ \A y \in off \cup on : map[y] = (y \notin on)
  OBVIOUS
<1>6. DisabledXids(t.disable, t.enable) = map
  BY DEF DisabledXids
<1> HIDE DEF off, on, map, x
<1>7. IsDisabled(map, x) = (0 \notin on /\ x \notin on /\ (x \in off \/ 0 \in off))
  <2>1. CASE 0 \in on
    BY <1>5, <2>1 DEF IsDisabled, allXIDs
  <2>2. CASE 0 \notin on /\ x \in off \cup on
    BY <1>5, <2>2 DEF IsDisabled, allXIDs
  <2>3. CASE 0 \notin on /\ x \notin off \cup on
    BY <1>5, <2>3 DEF IsDisabled, IsAllDisabled, allXIDs
  <2> QED BY <2>1, <2>2, <2>3
<1>8. Selected(Meant(t.disable), Meant(t.enable), x) =
        (x \in t.enable \/ All \in Meant(t.enable)
          \/ (x \notin t.disable /\ All \notin Meant(t.disable) /\ x \notin ignoredXids))
  BY <1>4 DEF Selected
<1>9. IgnoredFor(t) = IsDisabled(map, x)
  BY <1>6 DEF IgnoredFor, x
<1> QED BY <1>2, <1>3, <1>4, <1>7, <1>8, <1>9 DEF x

ExaminedFor(t) == Examined(DisabledXids(t.disable, t.enable), t.xid)
OffFor(t) == {0, All} \cap t.disable # {} /\ {0, All} \cap t.enable = {}

\* An Xid is examined if the lists select it, but for one enabled while all are disabled:
\* then all is off for IsAllDisabled exactly if it is for the lists.
LEMMA ExaminedIsMeant ==
  ASSUME NEW t, XidInput(t), ~(OffFor(t) /\ t.xid \in t.enable)
  PROVE  ExaminedFor(t) = Selected(Meant(t.disable), Meant(t.enable), t.xid)
<1> DEFINE off == newHealthCheckXIDs(t.disable) \cup ignoredXids
           on == newHealthCheckXIDs(t.enable)
           map == [x \in off \cup on |-> x \notin on]
<1>1. All \notin Nat /\ t.xid \in Nat /\ t.xid # 0 /\ 0 \notin ignoredXids /\ t.xid # All
  BY EntriesAssumption DEF XidInput, ignoredXids
<1>2. /\ (0 \in on) = (0 \in t.enable \/ All \in t.enable)
      /\ (0 \in off) = (0 \in t.disable \/ All \in t.disable)
  BY <1>1 DEF newHealthCheckXIDs, allXIDs
<1>3. DOMAIN map = off \cup on /\ \A y \in off \cup on : map[y] = (y \notin on)
  OBVIOUS
<1>4. DisabledXids(t.disable, t.enable) = map
  BY DEF DisabledXids
<1> HIDE DEF off, on, map
<1>5. IsAllDisabled(map) = (0 \in off /\ 0 \notin on)
  BY <1>3 DEF IsAllDisabled, allXIDs
<1>6. IsAllDisabled(map) = OffFor(t)
  BY <1>2, <1>5 DEF OffFor
<1>7. ExaminedFor(t) = (~OffFor(t) /\ ~IgnoredFor(t))
  BY <1>4, <1>6 DEF ExaminedFor, Examined, IgnoredFor
<1>8. IgnoredFor(t) = ~Selected(Meant(t.disable), Meant(t.enable), t.xid)
  BY IgnoredIsMeant
<1>9. CASE OffFor(t)
  <2>1. t.xid \notin t.enable /\ All \notin Meant(t.enable) /\ All \in Meant(t.disable)
    BY <1>1, <1>9 DEF OffFor, Meant
  <2>2. t.xid \notin Meant(t.enable)
    BY <1>1, <2>1 DEF Meant
  <2> QED BY <1>7, <1>9, <2>1, <2>2 DEF Selected
<1>10. CASE ~OffFor(t)
  BY <1>7, <1>8, <1>10 DEF Selected
<1> QED BY <1>9, <1>10

XidInit == result = <<>> /\ task.of = "xid" /\ XidInput(task)
XidSpec == XidInit /\ [][Next]_vars

\* Whatever the two lists, an Xid is examined exactly if they select it, unless it is
\* enabled by its number while all are disabled (getDisabledHealthCheckXids, IsDisabled,
\* IsAllDisabled, checkHealth); of that case the run xid_all_disabled shows the contrary.
THEOREM SelectionMeant == XidSpec => []SelectionIsMeant
<1> DEFINE Inv == task.of = "xid" /\ XidInput(task) /\ (result # <<>> => Result = ExaminedFor(task))
<1>1. XidInit => Inv
  BY DEF XidInit
<1>2. Inv /\ [Next]_vars => Inv'
  <2>1. SUFFICES ASSUME Inv, [Next]_vars PROVE Inv'
    OBVIOUS
  <2>2. CASE UNCHANGED vars
    BY <2>1, <2>2 DEF vars, Result
  <2>3. CASE Next
    <3>1. task' = task /\ result' \in {<<o>> : o \in {ExaminedFor(task)}}
      BY <2>1, <2>3, OwnStep DEF Xid, Step, ExaminedFor
    <3>2. result' = <<ExaminedFor(task)>>
      BY <3>1
    <3> QED BY <2>1, <3>1, <3>2 DEF Result
  <2> QED BY <2>1, <2>2, <2>3
<1>3. Inv => SelectionIsMeant
  <2>1. SUFFICES ASSUME Inv, Done("xid"), ~(AllIsOff /\ task.xid \in task.enable)
                 PROVE  Result = Selected(Meant(task.disable), Meant(task.enable), task.xid)
    BY DEF SelectionIsMeant, Meant
  <2>2. ~(OffFor(task) /\ task.xid \in task.enable)
    BY <2>1 DEF OffFor, AllIsOff
  <2> QED BY <2>1, <2>2, ExaminedIsMeant DEF Done
<1> QED BY <1>1, <1>2, <1>3, PTL DEF XidSpec

-----------------------------------------------------------------------------
(* The usage of the containers.                                             *)

\* The sums over the first k of the slots.
SumAfter(f, procs, i) ==
  /\ f[0] = 0
  /\ \A k \in 0 .. Len(procs) : f[k] \in Int
  /\ \A k \in 0 .. Len(procs) - 1 : f[k + 1] = f[k] + procs[k + 1][i].total

\* The sum is made slot by slot.
LEMMA SumFold ==
  ASSUME NEW region, NEW U, region.procs \in Seq(U), NEW i, \A u \in U : u[i].total \in Int
  PROVE  \E f : SumAfter(f, region.procs, i) /\ Sum(region, "total", i) = f[Len(region.procs)]
<1> DEFINE procs == region.procs
           n == Len(procs)
           body(iter, s) == IF s = {} THEN 0 ELSE iter[s \ {Max(s)}] + procs[Max(s)][i]["total"]
           IsIter(iter) == iter = [s \in SUBSET (DOMAIN procs) |-> body(iter, s)]
           folded == CHOOSE iter : IsIter(iter)
           H == [t \in Int \X (1 .. n) |-> t[1] + procs[t[2]][i]["total"]]
<1>0. n \in Nat /\ DOMAIN procs = 1 .. n /\ 0 \in Int /\ \A k \in 1 .. n : procs[k] \in U
  OBVIOUS
<1>T. \A k \in 1 .. n : procs[k][i]["total"] \in Int
  BY <1>0
<1>1. Sum(region, "total", i) = folded[1 .. n]
  <2>1. Sum(region, "total", i) = folded[DOMAIN procs]
    BY Zenon DEF Sum, FoldLeft, MapThenFoldSet
  <2> HIDE DEF folded, procs, n
  <2> QED BY <1>0, <2>1
<1> HIDE DEF n, procs
<1>2. H \in [Int \X (1 .. n) -> Int]
  <2>1. ASSUME NEW t \in Int \X (1 .. n) PROVE t[1] + procs[t[2]][i]["total"] \in Int
    <3>1. t[1] \in Int /\ t[2] \in 1 .. n
      OBVIOUS
    <3> QED BY <1>T, <3>1
  <2> QED BY <2>1
<1>3. \A v \in Int, k \in 1 .. n : H[<<v, k>>] = v + procs[k][i]["total"]
  OBVIOUS
<1> HIDE DEF H
<1>4. ASSUME NEW s \in SUBSET (1 .. n), s # {}
      PROVE  Max(s) \in 1 .. n /\ s \ {Max(s)} \in SUBSET (1 .. n)
  BY <1>0, <1>4, MaxOfFirst
<1>5. \E f : IsIter(f)
  <2>1. PICK f \in [SUBSET (1 .. n) -> Int] : FoldsLeft(f, n, 0, H)
    BY <1>0, <1>2, LeftRecursion
  <2>2. ASSUME NEW s \in SUBSET (1 .. n) PROVE f[s] = body(f, s)
    <3>1. CASE s = {}
      BY <3>1, <2>1 DEF FoldsLeft
    <3>2. CASE s # {}
      <4>1. f[s] = H[<<f[s \ {Max(s)}], Max(s)>>]
        BY <3>2, <2>1 DEF FoldsLeft
      <4> QED BY <3>2, <1>3, <1>4, <4>1
    <3> QED BY <3>1, <3>2
  <2> DEFINE h == [s \in SUBSET (DOMAIN procs) |-> body(f, s)]
  <2>3. DOMAIN f = DOMAIN h /\ \A s \in SUBSET (1 .. n) : f[s] = h[s]
    BY <1>0, <2>2
  <2>4. f = h
    BY <2>3, <1>0
  <2> QED BY <2>4
<1>6. IsIter(folded)
  <2> HIDE DEF IsIter
  <2> QED BY <1>5
<1>7. \A s \in SUBSET (1 .. n) : folded[s] = body(folded, s)
  <2> HIDE DEF folded
  <2> TAKE s \in SUBSET (1 .. n)
  <2> DEFINE h == [t \in SUBSET (DOMAIN procs) |-> body(folded, t)]
  <2>1. folded = h
    BY <1>6
  <2>2. s \in SUBSET (DOMAIN procs) /\ \A u \in SUBSET (DOMAIN procs) : h[u] = body(folded, u)
    BY <1>0
  <2> HIDE DEF h, body
  <2> QED BY <2>1, <2>2
<1> HIDE DEF folded
<1>8. ObeysFold(folded, n, Int, 0, H)
  BY <1>3, <1>4, <1>7 DEF ObeysFold
<1> HIDE DEF IsIter, body
<1>9. PICK g : StepsOf(g, folded, n, Int, 0, H)
  BY <1>0, <1>2, <1>8, LeftSteps
<1>10. SumAfter(g, procs, i)
  <2>1. \A k \in 0 .. n - 1 : g[k] \in Int /\ k + 1 \in 1 .. n
    BY <1>0, <1>9 DEF StepsOf
  <2>2. \A k \in 0 .. n - 1 : g[k + 1] = g[k] + procs[k + 1][i].total
    BY <1>3, <1>9, <2>1 DEF StepsOf
  <2> QED BY <1>9, <2>2 DEF StepsOf, SumAfter, n
<1> QED BY <1>1, <1>9, <1>10 DEF n, procs, StepsOf

\* What a container uses, as the property says it.
TotalOf(region, i) ==
  LET Upto[s \in 0 .. Len(region.procs)] == IF s = 0 THEN 0 ELSE Upto[s - 1] + region.procs[s][i].total
  IN Upto[Len(region.procs)]

\* The sum over the slots is the usage.
LEMMA SumIsTotal ==
  ASSUME NEW region, NEW U, region.procs \in Seq(U), NEW i, \A u \in U : u[i].total \in Int
  PROVE  DeviceMemory(region, i).total = TotalOf(region, i)
<1> DEFINE procs == region.procs
           n == Len(procs)
           next(g, s) == IF s = 0 THEN 0 ELSE g[s - 1] + procs[s][i].total
           IsUpto(g) == g = [s \in 0 .. n |-> next(g, s)]
           Upto == CHOOSE g : IsUpto(g)
<1>0. n \in Nat
  OBVIOUS
<1>1. TotalOf(region, i) = Upto[n]
  BY DEF TotalOf
<1>2. DeviceMemory(region, i).total = Sum(region, "total", i)
  BY DEF DeviceMemory
<1>3. PICK f : SumAfter(f, procs, i) /\ Sum(region, "total", i) = f[n]
  BY SumFold
<1> HIDE DEF n, procs
<1>4. f[0] = 0 /\ \A k \in 0 .. n - 1 : f[k + 1] = f[k] + procs[k + 1][i].total
  BY <1>3 DEF SumAfter, n
<1>5. \E g : IsUpto(g)
  <2> DEFINE g == [s \in 0 .. n |-> f[s]]
  <2>1. ASSUME NEW s \in 0 .. n PROVE g[s] = next(g, s)
    <3>1. CASE s = 0
      BY <1>4, <3>1
    <3>2. CASE s # 0
      <4>1. s - 1 \in 0 .. n - 1 /\ (s - 1) + 1 = s /\ s - 1 \in 0 .. n
        BY <1>0, <3>2
      <4>2. f[(s - 1) + 1] = f[s - 1] + procs[(s - 1) + 1][i].total
        BY <1>4, <4>1
      <4>3. f[s] = f[s - 1] + procs[s][i].total
        BY <4>1, <4>2
      <4> QED BY <3>2, <4>1, <4>3
    <3> QED BY <3>1, <3>2
  <2>2. g = [s \in 0 .. n |-> g[s]]
    OBVIOUS
  <2> HIDE DEF g
  <2>3. g = [s \in 0 .. n |-> next(g, s)]
    <3> HIDE DEF next
    <3> QED BY <2>1, <2>2, Zenon
  <2> QED BY <2>3
<1>6. IsUpto(Upto)
  <2> HIDE DEF IsUpto
  <2> QED BY <1>5
<1>7. \A s \in 0 .. n : Upto[s] = next(Upto, s)
  <2> HIDE DEF Upto
  <2> DEFINE h == [s \in 0 .. n |-> next(Upto, s)]
  <2>1. Upto = h
    BY <1>6
  <2>2. \A s \in 0 .. n : h[s] = next(Upto, s)
    OBVIOUS
  <2> HIDE DEF h, next
  <2> QED BY <2>1, <2>2
<1> HIDE DEF Upto
<1> DEFINE S == {k \in Nat : k <= n => Upto[k] = f[k]}
<1>8. 0 \in S
  BY <1>0, <1>4, <1>7
<1>9. ASSUME NEW k \in Nat, k \in S PROVE k + 1 \in S
  <2>1. SUFFICES ASSUME k + 1 <= n PROVE Upto[k + 1] = f[k + 1]
    OBVIOUS
  <2>2. k + 1 \in 0 .. n /\ k + 1 # 0 /\ (k + 1) - 1 = k /\ k \in 0 .. n - 1 /\ Upto[k] = f[k]
    BY <1>0, <1>9, <2>1
  <2>3. Upto[k + 1] = Upto[k] + procs[k + 1][i].total
    BY <1>7, <2>2
  <2> QED BY <1>4, <2>2, <2>3
<1>10. Nat \subseteq S
  <2> HIDE DEF S
  <2> QED BY <1>8, <1>9, Induction
<1> QED BY <1>0, <1>1, <1>2, <1>3, <1>10

\* What a metric of a device of a container is like.
IsMetric(a, pod, region, i) ==
  /\ a.labels = <<pod.name, region.ctrName, i>>
  /\ a.desc = "usage" => a = [desc |-> "usage", labels |-> <<pod.name, region.ctrName, i>>,
                              value |-> DeviceMemory(region, i).total]
  /\ a.desc = "lastKernel" => a.value \in 0 .. Now

\* The metrics reported of a device are such, one of each kind, and its usage is one of them.
LEMMA ReportIs ==
  ASSUME NEW pod, NEW region, NEW i, LastKernelTime(region) \in Nat
  PROVE  LET report == Report(pod, region, i, Now)
         IN /\ \A a \in report : IsMetric(a, pod, region, i)
            /\ \A a, b \in report : a.desc = b.desc => a = b
            /\ [desc |-> "usage", labels |-> <<pod.name, region.ctrName, i>>,
                value |-> DeviceMemory(region, i).total] \in report
<1> DEFINE memory == DeviceMemory(region, i)
           last == LastKernelTime(region)
           names == <<pod.name, region.ctrName, i>>
           Metric(desc, value) == [desc |-> desc, labels |-> names, value |-> value]
           ago == IF Now < last THEN 0 ELSE Now - last
           report == Report(pod, region, i, Now)
<1>1. report = {Metric("usage", memory.total), Metric("limit", region.devices[i].limit),
                Metric("memory", memory), Metric("util", DeviceSmUtil(region, i))}
               \cup {Metric("lastKernel", IF Now < t THEN 0 ELSE Now - t) : t \in {last} \ {0}}
  BY DEF Report
<1>2. \A a \in report : \/ a = Metric("usage", memory.total) \/ a = Metric("limit", region.devices[i].limit)
                        \/ a = Metric("memory", memory) \/ a = Metric("util", DeviceSmUtil(region, i))
                        \/ a = Metric("lastKernel", ago)
  <2> HIDE DEF Metric, memory, last, report
  <2> QED BY <1>1
<1>3. \A desc, value : LET m == Metric(desc, value) IN m.desc = desc /\ m.labels = names /\ m.value = value
  OBVIOUS
<1>4. Metric("usage", memory.total) \in report
  <2> HIDE DEF Metric, memory, last, report
  <2> QED BY <1>1
<1>5. ago \in 0 .. Now
  BY DEF Now
<1> HIDE DEF Metric, memory, report, last, ago, names
<1>6. \A a, b \in report : a.desc = b.desc => a = b
  BY <1>2, <1>3
<1>7. \A a \in report : /\ a.labels = names
                        /\ a.desc = "usage" => a = Metric("usage", memory.total)
                        /\ a.desc = "lastKernel" => a.value \in 0 .. Now
  BY <1>2, <1>3, <1>5
<1> QED BY <1>4, <1>6, <1>7 DEF IsMetric, Metric, memory, report, names

\* A container of a pod whose region at place k has device i.
Uses(pods, cache, p, k, i) ==
  /\ p \in pods /\ k \in DOMAIN cache /\ i \in Reportable(cache[k])
  /\ cache[k].podUID = p.uid /\ cache[k].ctrName \in p.containers
Round(cache, p, k, i) == [pod |-> p, at |-> k, ctr |-> cache[k].ctrName, device |-> i]

\* The rounds are those of the containers in use.
LEMMA RoundsAre ==
  ASSUME NEW pods, NEW cache, NEW now
  PROVE  LET rounds == CollectContainers(pods, cache, now)
         IN /\ \A r \in DOMAIN rounds : \E p, k, i :
                 /\ Uses(pods, cache, p, k, i) /\ r = Round(cache, p, k, i)
                 /\ rounds[r] = Report(p, cache[k], i, now)
            /\ \A p, k, i : Uses(pods, cache, p, k, i) =>
                 Round(cache, p, k, i) \in DOMAIN rounds /\ rounds[Round(cache, p, k, i)] = Report(p, cache[k], i, now)
<1> DEFINE Of(p) == [pod : {p}, at : DOMAIN cache, ctr : p.containers, device : {0}]
           With(m) == {[m EXCEPT !.device = i] : i \in Reportable(cache[m.at])}
           matching == Matching(pods, cache)
           Rounds == UNION {With(m) : m \in matching}
           rounds == CollectContainers(pods, cache, now)
<1>1. rounds = [r \in Rounds |-> Report(r.pod, cache[r.at], r.device, now)]
  BY DEF CollectContainers
<1>2. ASSUME NEW m \in matching
      PROVE  \E p \in pods, k \in DOMAIN cache : /\ m = [pod |-> p, at |-> k, ctr |-> cache[k].ctrName, device |-> 0]
                                                /\ cache[k].podUID = p.uid /\ cache[k].ctrName \in p.containers
  <2>1. PICK p \in pods : m \in Of(p)
    BY DEF Matching, Candidates
  <2>2. cache[m.at].podUID = m.pod.uid /\ cache[m.at].ctrName = m.ctr
    BY DEF Matching
  <2>3. m.pod = p /\ m.at \in DOMAIN cache /\ m.ctr \in p.containers
    BY <2>1
  <2>4. m = [pod |-> p, at |-> m.at, ctr |-> m.ctr, device |-> 0]
    BY <2>1
  <2> QED BY <2>2, <2>3, <2>4
<1>3. ASSUME NEW p \in pods, NEW k \in DOMAIN cache, cache[k].podUID = p.uid, cache[k].ctrName \in p.containers
      PROVE  [pod |-> p, at |-> k, ctr |-> cache[k].ctrName, device |-> 0] \in matching
  <2> DEFINE m == [pod |-> p, at |-> k, ctr |-> cache[k].ctrName, device |-> 0]
  <2>1. m \in Of(p)
    BY <1>3
  <2>2. m \in Candidates(pods, cache)
    <3> HIDE DEF m
    <3> QED BY <2>1 DEF Candidates
  <2>3. m.at = k /\ m.pod = p /\ m.ctr = cache[k].ctrName
    OBVIOUS
  <2> HIDE DEF m
  <2>4. m \in matching
    BY <1>3, <2>2, <2>3 DEF Matching
  <2> QED BY <2>4 DEF m
<1>4. \A p, k, c, i : [[pod |-> p, at |-> k, ctr |-> c, device |-> 0] EXCEPT !.device = i]
                        = [pod |-> p, at |-> k, ctr |-> c, device |-> i]
  OBVIOUS
<1> HIDE DEF matching
<1>5. ASSUME NEW r \in DOMAIN rounds
      PROVE  \E p, k, i : /\ Uses(pods, cache, p, k, i) /\ r = Round(cache, p, k, i)
                          /\ rounds[r] = Report(p, cache[k], i, now)
  <2>1. r \in Rounds /\ rounds[r] = Report(r.pod, cache[r.at], r.device, now)
    <3> HIDE DEF Rounds, rounds
    <3> QED BY <1>1
  <2>2. PICK m \in matching : r \in With(m)
    BY <2>1
  <2>3. PICK p \in pods, k \in DOMAIN cache : /\ m = [pod |-> p, at |-> k, ctr |-> cache[k].ctrName, device |-> 0]
                                              /\ cache[k].podUID = p.uid /\ cache[k].ctrName \in p.containers
    BY <1>2
  <2>4. PICK i \in Reportable(cache[m.at]) : r = [m EXCEPT !.device = i]
    BY <2>2
  <2>5. m.at = k
    BY <2>3
  <2>6. r = Round(cache, p, k, i)
    BY <1>4, <2>3, <2>4 DEF Round
  <2>7. Uses(pods, cache, p, k, i)
    BY <2>3, <2>4, <2>5 DEF Uses
  <2>8. r.pod = p /\ r.at = k /\ r.device = i
    BY <2>6 DEF Round
  <2> HIDE DEF rounds
  <2> QED BY <2>1, <2>6, <2>7, <2>8
<1>6. ASSUME NEW p, NEW k, NEW i, Uses(pods, cache, p, k, i)
      PROVE  Round(cache, p, k, i) \in DOMAIN rounds /\ rounds[Round(cache, p, k, i)] = Report(p, cache[k], i, now)
  <2> DEFINE m == [pod |-> p, at |-> k, ctr |-> cache[k].ctrName, device |-> 0]
             r == Round(cache, p, k, i)
  <2>1. m \in matching /\ i \in Reportable(cache[k]) /\ m.at = k
    BY <1>3, <1>6 DEF Uses
  <2>2. r = [m EXCEPT !.device = i] /\ r.pod = p /\ r.at = k /\ r.device = i
    BY <1>4 DEF Round
  <2> HIDE DEF m, r
  <2>3. r \in With(m)
    BY <2>1, <2>2
  <2>4. r \in Rounds
    <3> HIDE DEF With
    <3> QED BY <2>1, <2>3
  <2> HIDE DEF Rounds, rounds
  <2>5. DOMAIN rounds = Rounds /\ rounds[r] = Report(r.pod, cache[r.at], r.device, now)
    BY <1>1, <2>4
  <2> QED BY <2>2, <2>4, <2>5 DEF r
<1> QED BY <1>5, <1>6

\* What a metric of a GPU of the host is like.
HostMemory(gpus, i) ==
  [desc |-> "hostMemory", labels |-> <<i, gpus[i].uuid>>, value |-> IF "memory" \in gpus[i].fails THEN 0 ELSE gpus[i].memory]
HostUtil(gpus, i) ==
  [desc |-> "hostUtil", labels |-> <<i, IF "uuid" \in gpus[i].fails THEN "" ELSE gpus[i].uuid>>, value |-> gpus[i].util]

\* No two of them have the same labels.
LEMMA HostIs ==
  ASSUME NEW gpus
  PROVE  /\ \A a \in CollectHost(gpus) : a.desc \in {"hostMemory", "hostUtil"}
         /\ \A a, b \in CollectHost(gpus) : <<a.desc, a.labels>> = <<b.desc, b.labels>> => a = b
<1> DEFINE Memory(i) == {[desc |-> "hostMemory", labels |-> <<i, u>>, value |-> IF "memory" \in gpus[i].fails THEN 0 ELSE gpus[i].memory] :
                           u \in IF "uuid" \in gpus[i].fails THEN {} ELSE {gpus[i].uuid}}
           Util(i) == {[desc |-> "hostUtil", labels |-> <<i, IF "uuid" \in gpus[i].fails THEN "" ELSE gpus[i].uuid>>, value |-> u] :
                         u \in IF "util" \in gpus[i].fails THEN {} ELSE {gpus[i].util}}
<1>1. CollectHost(gpus) = UNION {Memory(i) \cup Util(i) : i \in DOMAIN gpus}
  BY DEF CollectHost
<1>2. ASSUME NEW i, NEW a \in Memory(i) PROVE a = HostMemory(gpus, i)
  BY DEF HostMemory
<1>3. ASSUME NEW i, NEW a \in Util(i) PROVE a = HostUtil(gpus, i)
  BY DEF HostUtil
<1> HIDE DEF Memory, Util
<1>4. ASSUME NEW a \in CollectHost(gpus)
      PROVE  \E i \in DOMAIN gpus : a = HostMemory(gpus, i) \/ a = HostUtil(gpus, i)
  <2>1. PICK i \in DOMAIN gpus : a \in Memory(i) \/ a \in Util(i)
    BY <1>1
  <2> QED BY <1>2, <1>3, <2>1
<1>5. \A i : /\ HostMemory(gpus, i).desc = "hostMemory" /\ HostMemory(gpus, i).labels[1] = i
             /\ HostUtil(gpus, i).desc = "hostUtil" /\ HostUtil(gpus, i).labels[1] = i
  BY DEF HostMemory, HostUtil
<1>6. ASSUME NEW a \in CollectHost(gpus), NEW b \in CollectHost(gpus), a.desc = b.desc, a.labels = b.labels
      PROVE  a = b
  <2>1. PICK i \in DOMAIN gpus : a = HostMemory(gpus, i) \/ a = HostUtil(gpus, i)
    BY <1>4
  <2>2. PICK j \in DOMAIN gpus : b = HostMemory(gpus, j) \/ b = HostUtil(gpus, j)
    BY <1>4
  <2>3. i = j
    BY <1>5, <1>6, <2>1, <2>2
  <2> QED BY <1>5, <1>6, <2>1, <2>2, <2>3
<1>7. \A a \in CollectHost(gpus) : a.desc \in {"hostMemory", "hostUtil"}
  BY <1>4, <1>5
<1> QED BY <1>6, <1>7

\* Pods have names of their own, and directories too; the slots have numbers.
ScrapeInput(t) ==
  /\ \A p, q \in t.pods : p.name = q.name => p = q
  /\ \A k, l \in DOMAIN t.cache :
       t.cache[k].podUID = t.cache[l].podUID /\ t.cache[k].ctrName = t.cache[l].ctrName => k = l
  /\ \A k \in DOMAIN t.cache : LastKernelTime(t.cache[k]) \in Nat
  /\ \A k \in DOMAIN t.cache : \A i \in DOMAIN t.cache[k].devices :
       \E U : t.cache[k].procs \in Seq(U) /\ \A u \in U : u[i].total \in Int

Scraped(t) == [rounds |-> CollectContainers(t.pods, t.cache, Now), host |-> CollectHost(t.gpus)]

\* A metric of a round that is named like one of another is the same one.
LEMMA RoundsDiffer ==
  ASSUME NEW t, ScrapeInput(t), NEW rounds, rounds = CollectContainers(t.pods, t.cache, Now),
         NEW r \in DOMAIN rounds, NEW s \in DOMAIN rounds, NEW a \in rounds[r], NEW b \in rounds[s],
         a.desc = b.desc, a.labels = b.labels
  PROVE  r = s /\ a = b
<1>1. PICK p, k, i : /\ Uses(t.pods, t.cache, p, k, i) /\ r = Round(t.cache, p, k, i)
                     /\ rounds[r] = Report(p, t.cache[k], i, Now)
  BY RoundsAre
<1>2. PICK q, l, j : /\ Uses(t.pods, t.cache, q, l, j) /\ s = Round(t.cache, q, l, j)
                     /\ rounds[s] = Report(q, t.cache[l], j, Now)
  BY RoundsAre
<1>3. /\ p \in t.pods /\ k \in DOMAIN t.cache /\ t.cache[k].podUID = p.uid
      /\ q \in t.pods /\ l \in DOMAIN t.cache /\ t.cache[l].podUID = q.uid
  BY <1>1, <1>2 DEF Uses
<1>4. LastKernelTime(t.cache[k]) \in Nat /\ LastKernelTime(t.cache[l]) \in Nat
  BY <1>3 DEF ScrapeInput
<1>5. IsMetric(a, p, t.cache[k], i) /\ IsMetric(b, q, t.cache[l], j)
  <2>1. a \in Report(p, t.cache[k], i, Now) /\ b \in Report(q, t.cache[l], j, Now)
    BY <1>1, <1>2
  <2> QED BY <1>4, <2>1, ReportIs
<1>6. <<p.name, t.cache[k].ctrName, i>> = <<q.name, t.cache[l].ctrName, j>>
  BY <1>5 DEF IsMetric
<1>7. p.name = q.name /\ t.cache[k].ctrName = t.cache[l].ctrName /\ i = j
  BY <1>6
<1>8. p = q
  BY <1>3, <1>7 DEF ScrapeInput
<1>9. k = l
  BY <1>3, <1>7, <1>8 DEF ScrapeInput
<1>10. a = b
  <2>1. a \in Report(p, t.cache[k], i, Now) /\ b \in Report(p, t.cache[k], i, Now)
    BY <1>1, <1>2, <1>7, <1>8, <1>9
  <2> QED BY <1>4, <2>1, ReportIs
<1> QED BY <1>1, <1>2, <1>7, <1>8, <1>9, <1>10

\* The metric of the usage of a device of a container.
Usage(cache, p, k, i) == [desc |-> "usage", labels |-> <<p.name, cache[k].ctrName, i>>, value |-> TotalOf(cache[k], i)]

\* The usage sent is that of the containers in use.
LEMMA UsageIsSent ==
  ASSUME NEW t, ScrapeInput(t), NEW rounds, rounds = CollectContainers(t.pods, t.cache, Now)
  PROVE  /\ \A p, k, i : Uses(t.pods, t.cache, p, k, i) => \E r \in DOMAIN rounds : Usage(t.cache, p, k, i) \in rounds[r]
         /\ \A r \in DOMAIN rounds : \A a \in rounds[r] :
              /\ a.desc = "usage" => \E p, k, i : Uses(t.pods, t.cache, p, k, i) /\ a = Usage(t.cache, p, k, i)
              /\ a.desc = "lastKernel" => a.value \in 0 .. Now
<1>1. ASSUME NEW p, NEW k, NEW i, Uses(t.pods, t.cache, p, k, i)
      PROVE  /\ LastKernelTime(t.cache[k]) \in Nat
             /\ Usage(t.cache, p, k, i) = [desc |-> "usage", labels |-> <<p.name, t.cache[k].ctrName, i>>,
                                           value |-> DeviceMemory(t.cache[k], i).total]
  <2>1. k \in DOMAIN t.cache /\ i \in DOMAIN t.cache[k].devices
    BY <1>1 DEF Uses, Reportable
  <2>2. PICK U : t.cache[k].procs \in Seq(U) /\ \A u \in U : u[i].total \in Int
    BY <2>1 DEF ScrapeInput
  <2>3. DeviceMemory(t.cache[k], i).total = TotalOf(t.cache[k], i)
    BY <2>2, SumIsTotal
  <2>4. LastKernelTime(t.cache[k]) \in Nat
    BY <2>1 DEF ScrapeInput
  <2> QED BY <2>3, <2>4 DEF Usage
<1>2. ASSUME NEW p, NEW k, NEW i, Uses(t.pods, t.cache, p, k, i)
      PROVE  \E r \in DOMAIN rounds : Usage(t.cache, p, k, i) \in rounds[r]
  <2> DEFINE r == Round(t.cache, p, k, i)
  <2>1. r \in DOMAIN rounds /\ rounds[r] = Report(p, t.cache[k], i, Now)
    BY <1>2, RoundsAre
  <2>2. Usage(t.cache, p, k, i) \in Report(p, t.cache[k], i, Now)
    <3>1. [desc |-> "usage", labels |-> <<p.name, t.cache[k].ctrName, i>>,
           value |-> DeviceMemory(t.cache[k], i).total] \in Report(p, t.cache[k], i, Now)
      BY <1>1, <1>2, ReportIs
    <3> QED BY <1>1, <1>2, <3>1
  <2> QED BY <2>1, <2>2
<1>3. ASSUME NEW r \in DOMAIN rounds, NEW a \in rounds[r]
      PROVE  /\ a.desc = "usage" => \E p, k, i : Uses(t.pods, t.cache, p, k, i) /\ a = Usage(t.cache, p, k, i)
             /\ a.desc = "lastKernel" => a.value \in 0 .. Now
  <2>1. PICK p, k, i : /\ Uses(t.pods, t.cache, p, k, i) /\ r = Round(t.cache, p, k, i)
                       /\ rounds[r] = Report(p, t.cache[k], i, Now)
    BY RoundsAre
  <2>2. IsMetric(a, p, t.cache[k], i)
    BY <1>1, <2>1, ReportIs
  <2>3. a.desc = "usage" => a = Usage(t.cache, p, k, i)
    BY <1>1, <2>1, <2>2 DEF IsMetric
  <2> QED BY <2>1, <2>2, <2>3 DEF IsMetric
<1> QED BY <1>2, <1>3

\* The parts of the property, of a scrape.
Names(metric) == <<metric.desc, metric.labels>>
Sent(o) == (UNION {o.rounds[r] : r \in DOMAIN o.rounds}) \cup o.host
Expected(t) ==
  LET Devices == UNION {DOMAIN t.cache[k].devices : k \in DOMAIN t.cache}
      Used == {u \in t.pods \X (DOMAIN t.cache) \X Devices :
                 /\ t.cache[u[2]].podUID = u[1].uid /\ t.cache[u[2]].ctrName \in u[1].containers
                 /\ u[3] \in DOMAIN t.cache[u[2]].devices /\ t.cache[u[2]].devices[u[3]].valid}
  IN {[desc |-> "usage", labels |-> <<u[1].name, t.cache[u[2]].ctrName, u[3]>>,
       value |-> TotalOf(t.cache[u[2]], u[3])] : u \in Used}
IsUsage(t, o) ==
  /\ \A r, s \in DOMAIN o.rounds : \A a \in o.rounds[r], b \in o.rounds[s] : Names(a) = Names(b) => r = s /\ a = b
  /\ \A a, b \in o.host : Names(a) = Names(b) => a = b
  /\ {a \in Sent(o) : a.desc = "usage"} = Expected(t)
  /\ \A a \in Sent(o) : a.desc = "lastKernel" => a.value \in 0 .. Now

\* What is expected is the usage of the containers in use.
LEMMA ExpectedIs ==
  ASSUME NEW t, NEW a
  PROVE  a \in Expected(t) <=> \E p, k, i : Uses(t.pods, t.cache, p, k, i) /\ a = Usage(t.cache, p, k, i)
<1> DEFINE Devices == UNION {DOMAIN t.cache[k].devices : k \in DOMAIN t.cache}
           Triples == t.pods \X (DOMAIN t.cache) \X Devices
           Fits(u) == /\ t.cache[u[2]].podUID = u[1].uid /\ t.cache[u[2]].ctrName \in u[1].containers
                      /\ u[3] \in DOMAIN t.cache[u[2]].devices /\ t.cache[u[2]].devices[u[3]].valid
           Used == {u \in Triples : Fits(u)}
<1>1. Expected(t) = {Usage(t.cache, u[1], u[2], u[3]) : u \in Used}
  BY DEF Expected, Usage
<1>2. ASSUME NEW u \in Used PROVE Uses(t.pods, t.cache, u[1], u[2], u[3])
  <2>1. u[1] \in t.pods /\ u[2] \in DOMAIN t.cache /\ Fits(u)
    BY DEF Used
  <2> QED BY <2>1 DEF Uses, Reportable
<1>3. ASSUME NEW p, NEW k, NEW i, Uses(t.pods, t.cache, p, k, i)
      PROVE  <<p, k, i>> \in Used
  <2>1. /\ p \in t.pods /\ k \in DOMAIN t.cache /\ t.cache[k].podUID = p.uid /\ t.cache[k].ctrName \in p.containers
        /\ i \in DOMAIN t.cache[k].devices /\ t.cache[k].devices[i].valid
    BY <1>3 DEF Uses, Reportable
  <2>2. i \in Devices
    BY <2>1
  <2> HIDE DEF Devices
  <2>3. <<p, k, i>> \in Triples
    BY <2>1, <2>2
  <2> DEFINE u == <<p, k, i>>
  <2>4. u[1] = p /\ u[2] = k /\ u[3] = i
    OBVIOUS
  <2> HIDE DEF u
  <2>5. Fits(u)
    BY <2>1, <2>4
  <2> HIDE DEF Triples, Fits
  <2> QED BY <2>3, <2>5 DEF u
<1>4. \A p, k, i : <<p, k, i>>[1] = p /\ <<p, k, i>>[2] = k /\ <<p, k, i>>[3] = i
  OBVIOUS
<1> HIDE DEF Used
<1>5. ASSUME a \in Expected(t)
      PROVE  \E p, k, i : Uses(t.pods, t.cache, p, k, i) /\ a = Usage(t.cache, p, k, i)
  <2>1. PICK u \in Used : a = Usage(t.cache, u[1], u[2], u[3])
    BY <1>1, <1>5
  <2> QED BY <1>2, <2>1
<1>6. ASSUME NEW p, NEW k, NEW i, Uses(t.pods, t.cache, p, k, i), a = Usage(t.cache, p, k, i)
      PROVE  a \in Expected(t)
  <2> DEFINE u == <<p, k, i>>
  <2>1. u \in Used /\ u[1] = p /\ u[2] = k /\ u[3] = i
    BY <1>3, <1>6, <1>4
  <2> HIDE DEF u
  <2>2. a = Usage(t.cache, u[1], u[2], u[3])
    BY <1>6, <2>1
  <2>3. \A v \in Used : Usage(t.cache, v[1], v[2], v[3]) \in Expected(t)
    BY <1>1, Zenon
  <2>4. Usage(t.cache, u[1], u[2], u[3]) \in Expected(t)
    BY <2>1, <2>3
  <2> QED BY <2>2, <2>4
<1> QED BY <1>5, <1>6

\* Every scrape tells the usage.
LEMMA ScrapedIsUsage ==
  ASSUME NEW t, ScrapeInput(t)
  PROVE  IsUsage(t, Scraped(t))
<1> DEFINE o == Scraped(t)
           rounds == CollectContainers(t.pods, t.cache, Now)
<1>1. o.rounds = rounds /\ o.host = CollectHost(t.gpus)
  BY DEF Scraped
<1> HIDE DEF o, rounds
<1>2. ASSUME NEW r \in DOMAIN o.rounds, NEW s \in DOMAIN o.rounds, NEW a \in o.rounds[r], NEW b \in o.rounds[s],
             Names(a) = Names(b)
      PROVE  r = s /\ a = b
  <2>1. a.desc = b.desc /\ a.labels = b.labels
    BY <1>2 DEF Names
  <2>2. r \in DOMAIN rounds /\ s \in DOMAIN rounds /\ a \in rounds[r] /\ b \in rounds[s]
    BY <1>1
  <2> QED BY <2>1, <2>2, RoundsDiffer DEF rounds
<1>3. \A a, b \in o.host : Names(a) = Names(b) => a = b
  BY <1>1, HostIs DEF Names
<1>4. rounds = CollectContainers(t.pods, t.cache, Now)
  BY DEF rounds
<1>9. ASSUME NEW a PROVE a \in Sent(o) <=> a \in o.host \/ \E r \in DOMAIN rounds : a \in rounds[r]
  <2> DEFINE Metrics(x) == UNION {x[r] : r \in DOMAIN x}
  <2>1. Sent(o) = Metrics(o.rounds) \cup o.host
    BY DEF Sent
  <2>2. a \in Metrics(rounds) <=> \E r \in DOMAIN rounds : a \in rounds[r]
    OBVIOUS
  <2> HIDE DEF Metrics
  <2>3. Metrics(o.rounds) = Metrics(rounds)
    BY <1>1
  <2> QED BY <2>1, <2>2, <2>3
<1>5. ASSUME NEW a PROVE a \in Sent(o) /\ a.desc = "usage" <=> a \in Expected(t)
  <2>1. ASSUME a \in Sent(o), a.desc = "usage" PROVE a \in Expected(t)
    <3>1. a \notin o.host
      BY <1>1, <2>1, HostIs
    <3>2. PICK r \in DOMAIN rounds : a \in rounds[r]
      BY <1>9, <2>1, <3>1
    <3>3. \E p, k, i : Uses(t.pods, t.cache, p, k, i) /\ a = Usage(t.cache, p, k, i)
      BY <1>4, <2>1, <3>2, UsageIsSent
    <3> QED BY <3>3, ExpectedIs
  <2>2. ASSUME a \in Expected(t) PROVE a \in Sent(o) /\ a.desc = "usage"
    <3>1. PICK p, k, i : Uses(t.pods, t.cache, p, k, i) /\ a = Usage(t.cache, p, k, i)
      BY <2>2, ExpectedIs
    <3>2. \E r \in DOMAIN rounds : a \in rounds[r]
      BY <1>4, <3>1, UsageIsSent
    <3>3. a.desc = "usage"
      BY <3>1 DEF Usage
    <3> QED BY <1>9, <3>2, <3>3
  <2> QED BY <2>1, <2>2
<1>6. ASSUME NEW a \in Sent(o), a.desc = "lastKernel" PROVE a.value \in 0 .. Now
  <2>1. a \notin o.host
    BY <1>1, <1>6, HostIs
  <2>2. PICK r \in DOMAIN rounds : a \in rounds[r]
    BY <1>6, <1>9, <2>1
  <2> QED BY <1>4, <1>6, <2>2, UsageIsSent
<1>7. {a \in Sent(o) : a.desc = "usage"} = Expected(t)
  BY <1>5
<1>8. IsUsage(t, o)
  BY <1>2, <1>3, <1>6, <1>7 DEF IsUsage
<1> QED BY <1>8 DEF o

\* The monitor is scraped in any state.
ScrapeInit == result = <<>> /\ task.of = "scrape" /\ ScrapeInput(task)
ScrapeSpec == ScrapeInit /\ [][Next]_vars

\* Whatever the pods, the regions and their processes, a scrape has no two metrics of the
\* same name, and the usage it tells is that of the containers that are listed, summed
\* over all their slots (Collect, DeviceMemoryTotal).
THEOREM ScrapeTellsUsage == ScrapeSpec => []ScrapeIsTheUsage
<1> DEFINE Inv == task.of = "scrape" /\ ScrapeInput(task) /\ (result # <<>> => Result = Scraped(task))
<1>1. ScrapeInit => Inv
  BY DEF ScrapeInit
<1>2. Inv /\ [Next]_vars => Inv'
  <2>1. SUFFICES ASSUME Inv, [Next]_vars PROVE Inv'
    OBVIOUS
  <2>2. CASE UNCHANGED vars
    BY <2>1, <2>2 DEF vars, Result
  <2>3. CASE Next
    <3>1. task' = task /\ result' \in {<<o>> : o \in {Scraped(task)}}
      BY <2>1, <2>3, OwnStep DEF Scrape, Step, Scraped
    <3>2. result' = <<Scraped(task)>>
      BY <3>1
    <3> QED BY <2>1, <3>1, <3>2 DEF Result
  <2> QED BY <2>1, <2>2, <2>3
<1>3. Inv => ScrapeIsTheUsage
  <2>1. SUFFICES ASSUME Inv, Done("scrape") PROVE IsUsage(task, Result)
    BY DEF ScrapeIsTheUsage, IsUsage, Names, Sent, Expected, TotalOf
  <2>2. Result = Scraped(task) /\ ScrapeInput(task)
    BY <2>1 DEF Done
  <2> QED BY <2>2, ScrapedIsUsage
<1> QED BY <1>1, <1>2, <1>3, PTL DEF ScrapeSpec
=============================================================================
