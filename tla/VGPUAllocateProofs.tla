------------------------- MODULE VGPUAllocateProofs -------------------------
(***************************************************************************)
(* Theorems about VGPUAllocate, for every number of pods, containers and   *)
(* concurrent handlers: its types; that nothing is handed out twice,       *)
(* whatever fails; and, with pods of one vGPU container and the faults     *)
(* that are contained, that everyone is handed his own.                    *)
(***************************************************************************)
EXTENDS VGPUAllocate, InductionLemmas

-----------------------------------------------------------------------------
(* Type correctness.  The type of a grant rests on two facts of the control:
   a handler that will answer "ok" has chosen a pod, and a call the kubelet
   waits for names a pod and a handler.                                       *)

Serving == {"erase", "get", "success", "failed"}

Chosen ==
  \A h \in Handlers : handler[h].pc \in Serving \/ handler[h].ok =>
    handler[h].pod \in Pods /\ handler[h].ctr \in Containers

CallOK == \/ call = NoCall
          \/ call \in [pod : Pods, ctr : Containers, by : Handlers]

TypeInv == TypeOK /\ Chosen /\ CallOK

USE DEF Phases, PCs

LEMMA TypeInvInit == Init => TypeInv
<1> SUFFICES ASSUME Init PROVE TypeInv
  OBVIOUS
<1> USE ConstantsAssumption DEF Init
<1>1. sched \in [Pods -> {"new", "bound", "deleted"}]
  OBVIOUS
<1>2. anno \in [Pods -> AnnoState]
  BY DEF AnnoState
<1>3. clock \in 0 .. MaxTime
  OBVIOUS
<1>9. lock \in BOOLEAN
  OBVIOUS
<1>4. kubelet \in [Pods -> {"waiting", "running", "rejected"}]
  OBVIOUS
<1>5. call \in [pod : Pods \cup {0}, ctr : Containers \cup {0}, by : Handlers \cup {0}]
  BY DEF NoCall
<1>6. handler \in [Handlers -> HandlerState]
  BY DEF Idle, HandlerState
<1>7. TypeOK
  BY <1>1, <1>2, <1>3, <1>4, <1>5, <1>6, <1>9 DEF TypeOK
<1>8. Chosen /\ CallOK
  BY DEF Chosen, CallOK, Idle, Serving
<1> QED BY <1>7, <1>8 DEF TypeInv

\* A step that gives one handler a new local state keeps the two facts about
\* the handlers, if the new state names a pod whenever it has to.
LEMMA HandlerSet ==
  ASSUME TypeInv, NEW h \in Handlers, NEW s \in HandlerState,
         s.pc \in Serving \/ s.ok => s.pod \in Pods /\ s.ctr \in Containers,
         handler' = [handler EXCEPT ![h] = s]
  PROVE  handler' \in [Handlers -> HandlerState] /\ Chosen'
<1>1. handler \in [Handlers -> HandlerState]
  BY DEF TypeInv, TypeOK
<1>2. handler' \in [Handlers -> HandlerState]
  BY <1>1, Zenon
<1>3. handler'[h] = s /\ \A g \in Handlers \ {h} : handler'[g] = handler[g]
  BY <1>1, Zenon
<1>4. Chosen'
  BY <1>3 DEF TypeInv, Chosen
<1> QED BY <1>2, <1>4

LEMMA TypeInvNext == TypeInv /\ [Next]_vars => TypeInv'
<1> SUFFICES ASSUME TypeInv, [Next]_vars PROVE TypeInv'
  OBVIOUS
<1> USE ConstantsAssumption
<1>1. ASSUME NEW p \in Pods, Schedule(p) PROVE TypeInv'
  <2>1. TypeOK'
    BY <1>1 DEF Schedule, TypeInv, TypeOK, HandlerState, AnnoState, VGPUContainers
  <2>2. Chosen' /\ CallOK'
    BY <1>1 DEF Schedule, TypeInv, Chosen, CallOK
  <2> QED BY <2>1, <2>2 DEF TypeInv
<1>2. ASSUME NEW p \in Pods, Delete(p) PROVE TypeInv'
  <2>1. TypeOK'
    BY <1>2 DEF Delete, TypeInv, TypeOK
  <2>2. Chosen' /\ CallOK'
    BY <1>2 DEF Delete, TypeInv, Chosen, CallOK
  <2> QED BY <2>1, <2>2 DEF TypeInv
<1>3. ASSUME NEW h \in Handlers, Call(h) PROVE TypeInv'
  <2>1. PICK p \in Pods, c \in Containers :
          /\ call' = [pod |-> p, ctr |-> c, by |-> h]
          /\ handler' = [handler EXCEPT ![h] =
                           [Idle EXCEPT !.pc = "list", !.want = Request[p][c]]]
    BY <1>3, Zenon DEF Call
  <2>2. Request[p][c] \in Nat
    OBVIOUS
  <2> DEFINE s == [Idle EXCEPT !.pc = "list", !.want = Request[p][c]]
  <2>3. s \in HandlerState /\ s.pc = "list" /\ ~s.ok
    BY <2>2 DEF HandlerState, Idle
  <2>6. handler' = [handler EXCEPT ![h] = s]
    BY <2>1, Zenon
  <2> HIDE DEF s
  <2>4. handler' \in [Handlers -> HandlerState] /\ Chosen'
    BY <2>3, <2>6, HandlerSet DEF Serving
  <2>5. CallOK' /\ call' \in [pod : Pods \cup {0}, ctr : Containers \cup {0}, by : Handlers \cup {0}]
    BY <2>1 DEF CallOK
  <2> QED BY <1>3, <2>4, <2>5 DEF Call, TypeInv, TypeOK
<1>4. ASSUME NEW h \in Handlers, HandlerStep(h) PROVE TypeInv'
  <2>a. handler \in [Handlers -> HandlerState] /\ anno \in [Pods -> AnnoState]
    BY DEF TypeInv, TypeOK
  <2>s. handler[h] \in HandlerState
    BY <2>a, Zenon
  <2>b. handler[h].pc \in Serving \/ handler[h].ok =>
          handler[h].pod \in Pods /\ handler[h].ctr \in Containers
    BY DEF TypeInv, Chosen
  <2>c. CallOK' /\ TypeOK' /\ Chosen' => TypeInv'
    BY DEF TypeInv
  <2>1. CASE NoPod(h)
    <3> DEFINE s == [handler[h] EXCEPT !.pc = "release", !.ok = FALSE]
    <3>1. handler' = [handler EXCEPT ![h] = s]
      BY <2>1 DEF NoPod
    <3>2. s \in HandlerState /\ s.pod = handler[h].pod /\ s.ctr = handler[h].ctr
          /\ s.pc = "release" /\ ~s.ok
      BY <2>s DEF HandlerState
    <3> HIDE DEF s
    <3>3. handler' \in [Handlers -> HandlerState] /\ Chosen'
      BY <2>b, <3>1, <3>2, HandlerSet DEF Serving
    <3> QED BY <2>1, <2>c, <3>3 DEF NoPod, TypeInv, TypeOK, CallOK
  <2>2. CASE Pick(h)
    <3>1. PICK p \in Pods, next \in {"erase", "failed", "reply"} :
            \E c \in anno[p].alloc : handler' = [handler EXCEPT ![h] =
              [handler[h] EXCEPT !.pc = next, !.pod = p, !.ctr = c,
                                 !.snap = anno[p].alloc, !.ok = FALSE]]
      BY <2>2, Zenon DEF Pick
    <3>2. PICK c \in anno[p].alloc : handler' = [handler EXCEPT ![h] =
              [handler[h] EXCEPT !.pc = next, !.pod = p, !.ctr = c,
                                 !.snap = anno[p].alloc, !.ok = FALSE]]
      BY <3>1, Zenon
    <3> DEFINE s == [handler[h] EXCEPT !.pc = next, !.pod = p, !.ctr = c,
                                       !.snap = anno[p].alloc, !.ok = FALSE]
    <3>3. anno[p].alloc \subseteq Containers
      BY <2>a DEF AnnoState
    <3>4. s \in HandlerState /\ s.pod = p /\ s.ctr = c
      <4>1. c \in Containers /\ next \in PCs
        BY <3>3
      <4> QED BY <2>s, <3>3, <4>1 DEF HandlerState
    <3>5. handler' = [handler EXCEPT ![h] = s]
      BY <3>2, Zenon
    <3> HIDE DEF s
    <3>6. handler' \in [Handlers -> HandlerState] /\ Chosen'
      BY <3>3, <3>4, <3>5, HandlerSet
    <3> QED BY <2>2, <2>c, <3>6 DEF Pick, TypeInv, TypeOK, CallOK
  <2>3. CASE EraseNext(h)
    <3>1. PICK next \in {"get", "failed"} :
            handler' = [handler EXCEPT ![h] = [handler[h] EXCEPT !.pc = next]]
      BY <2>3 DEF EraseNext, AfterEraseError
    <3> DEFINE s == [handler[h] EXCEPT !.pc = next]
    <3>2. s \in HandlerState /\ s.pod = handler[h].pod /\ s.ctr = handler[h].ctr
      BY <2>s DEF HandlerState
    <3>3. handler[h].pc = "erase" /\ handler' = [handler EXCEPT ![h] = s]
      BY <2>3, <3>1 DEF EraseNext
    <3> HIDE DEF s
    <3>4. handler' \in [Handlers -> HandlerState] /\ Chosen'
      BY <2>b, <3>2, <3>3, HandlerSet DEF Serving
    <3>5. Erased(h) \subseteq Containers
      BY <2>s DEF Erased, HandlerState
    <3>6. handler[h].pod \in Pods
      BY <2>b, <3>3 DEF Serving
    <3>7. anno' = [anno EXCEPT ![handler[h].pod] =
                     [anno[handler[h].pod] EXCEPT !.alloc = Erased(h)]]
      BY <2>3 DEF EraseNext
    <3>8. anno[handler[h].pod] \in AnnoState
      BY <2>a, <3>6, Zenon
    <3>9. [anno[handler[h].pod] EXCEPT !.alloc = Erased(h)] \in AnnoState
      BY <3>5, <3>8 DEF AnnoState
    <3>10. anno' \in [Pods -> AnnoState]
      BY <2>a, <3>7, <3>9, Zenon
    <3> QED BY <2>3, <2>c, <3>4, <3>10 DEF EraseNext, TypeInv, TypeOK, CallOK
  <2>4. CASE EraseFails(h)
    <3> DEFINE s == [handler[h] EXCEPT !.pc = "failed"]
    <3>1. handler' = [handler EXCEPT ![h] = s] /\ handler[h].pc = "erase"
      BY <2>4 DEF EraseFails, AfterEraseError
    <3>2. s \in HandlerState /\ s.pod = handler[h].pod /\ s.ctr = handler[h].ctr
          /\ s.pc = "failed"
      BY <2>s DEF HandlerState
    <3> HIDE DEF s
    <3>3. handler' \in [Handlers -> HandlerState] /\ Chosen'
      BY <2>b, <3>1, <3>2, HandlerSet DEF Serving
    <3> QED BY <2>4, <2>c, <3>3 DEF EraseFails, TypeInv, TypeOK, CallOK
  <2>5. CASE GetRefreshed(h)
    <3>1. PICK next \in {"success", "reply"} :
            handler' = [handler EXCEPT ![h] = [handler[h] EXCEPT !.ok = TRUE, !.pc = next]]
      BY <2>5 DEF GetRefreshed, AfterRefresh
    <3> DEFINE s == [handler[h] EXCEPT !.ok = TRUE, !.pc = next]
    <3>2. s \in HandlerState /\ s.pod = handler[h].pod /\ s.ctr = handler[h].ctr
      BY <2>s DEF HandlerState
    <3>3. handler[h].pc = "get" /\ handler' = [handler EXCEPT ![h] = s]
      BY <2>5, <3>1 DEF GetRefreshed
    <3> HIDE DEF s
    <3>5. handler[h].pod \in Pods /\ handler[h].ctr \in Containers
      BY <2>5, <2>b DEF GetRefreshed, Serving
    <3>4. handler' \in [Handlers -> HandlerState] /\ Chosen'
      BY <3>2, <3>3, <3>5, HandlerSet
    <3> QED BY <2>5, <2>c, <3>4 DEF GetRefreshed, TypeInv, TypeOK, CallOK
  <2>6. CASE PatchPhase(h)
    <3> DEFINE s == [handler[h] EXCEPT !.pc = "release"]
    <3>1. handler' = [handler EXCEPT ![h] = s]
      BY <2>6 DEF PatchPhase
    <3>2. s \in HandlerState /\ s.pod = handler[h].pod /\ s.ctr = handler[h].ctr
          /\ s.pc = "release" /\ s.ok = handler[h].ok
      BY <2>s DEF HandlerState
    <3> HIDE DEF s
    <3>3. handler' \in [Handlers -> HandlerState] /\ Chosen'
      BY <2>b, <3>1, <3>2, HandlerSet DEF Serving
    <3>5. handler[h].pc \in {"success", "failed"}
      BY <2>6 DEF PatchPhase
    <3>6. handler[h].pod \in Pods
      BY <2>b, <3>5 DEF Serving
    <3> DEFINE a == [anno[handler[h].pod] EXCEPT !.time = MaxUint64, !.phase = handler[h].pc]
    <3>7. anno' = [anno EXCEPT ![handler[h].pod] = a] \/ anno' = anno
      BY <2>6 DEF PatchPhase, Settled
    <3>8. anno[handler[h].pod] \in AnnoState
      BY <2>a, <3>6, Zenon
    <3>9. a \in AnnoState
      BY <3>5, <3>8 DEF AnnoState
    <3>10. anno' \in [Pods -> AnnoState]
      <4> HIDE DEF a
      <4> QED BY <2>a, <3>7, <3>9, Zenon
    <3> QED BY <2>6, <2>c, <3>3, <3>10 DEF PatchPhase, TypeInv, TypeOK, CallOK
  <2>7. CASE Release(h)
    <3> DEFINE s == [handler[h] EXCEPT !.pc = "reply"]
    <3>1. handler' = [handler EXCEPT ![h] = s]
      BY <2>7 DEF Release
    <3>2. s \in HandlerState /\ s.pod = handler[h].pod /\ s.ctr = handler[h].ctr
          /\ s.pc = "reply" /\ s.ok = handler[h].ok
      BY <2>s DEF HandlerState
    <3> HIDE DEF s
    <3>3. handler' \in [Handlers -> HandlerState] /\ Chosen'
      BY <2>b, <3>1, <3>2, HandlerSet DEF Serving
    <3>4. lock' \in BOOLEAN
      BY <2>7 DEF Release, TypeInv, TypeOK
    <3> QED BY <2>7, <2>c, <3>3, <3>4 DEF Release, TypeInv, TypeOK, CallOK
  <2>8. CASE Reply(h)
    <3>3. Idle \in HandlerState /\ ~Idle.ok /\ Idle.pc = "idle"
      BY DEF Idle, HandlerState
    <3>4. handler' = [handler EXCEPT ![h] = Idle]
      BY <2>8 DEF Reply
    <3>5. handler' \in [Handlers -> HandlerState] /\ Chosen'
      BY <3>3, <3>4, HandlerSet DEF Serving
    <3>1. CallOK'
      BY <2>8 DEF Reply, TypeInv, CallOK
    <3>2. TypeOK'
      <4>1. CASE call.by # h
        BY <2>8, <3>5, <4>1 DEF Reply, TypeInv, TypeOK
      <4>2. CASE call.by = h
        <5>1. call.pod \in Pods /\ call.ctr \in Containers
          BY <4>2 DEF TypeInv, CallOK, NoCall
        <5>2. handler[h].ok => handler[h].pod \in Pods /\ handler[h].ctr \in Containers
          BY DEF TypeInv, Chosen
        <5>3. grants' \subseteq [pod : Pods, ctr : Containers, from : Pods, fromCtr : Containers]
          BY <2>8, <4>2, <5>1, <5>2 DEF Reply, TypeInv, TypeOK
        <5>4. kubelet' \in [Pods -> {"waiting", "running", "rejected"}]
          BY <2>8, <4>2, <5>1 DEF Reply, TypeInv, TypeOK
        <5>5. call' \in [pod : Pods \cup {0}, ctr : Containers \cup {0}, by : Handlers \cup {0}]
          BY <2>8, <4>2 DEF Reply, NoCall
        <5> QED BY <2>8, <3>5, <5>3, <5>4, <5>5 DEF Reply, TypeInv, TypeOK
      <4> QED BY <4>1, <4>2
    <3> QED BY <2>c, <3>1, <3>2, <3>5
  <2> QED
    BY <1>4, <2>1, <2>2, <2>3, <2>4, <2>5, <2>6, <2>7, <2>8 DEF HandlerStep
<1>5. CASE Restart
  BY <1>5 DEF Restart, TypeInv, TypeOK, HandlerState, AnnoState, Chosen, CallOK, NoCall
<1>6. CASE Crash
  BY <1>6 DEF Crash, TypeInv, TypeOK, HandlerState, AnnoState, Chosen, CallOK, NoCall, Idle, Serving
<1>7. CASE UNCHANGED vars
  BY <1>7 DEF vars, TypeInv, TypeOK, HandlerState, AnnoState, Chosen, CallOK
<1> QED
  BY <1>1, <1>2, <1>3, <1>4, <1>5, <1>6, <1>7 DEF Next, Finished

\* Every reachable state has the types of TypeOK, whatever fails and whoever
\* runs concurrently.
THEOREM TypeCorrect == Spec => []TypeOK
<1>1. TypeInv => TypeOK
  BY DEF TypeInv
<1> QED
  BY <1>1, TypeInvInit, TypeInvNext, PTL DEF Spec

-----------------------------------------------------------------------------
(* What the fold of DecodePodDevices gives.                                  *)

\* f adds up the devices of the containers of S one by one.
AddsUp(f, p, S) ==
  /\ f[{}] = 0
  /\ \A s \in SUBSET S : s # {} => \E c \in s : f[s] = Request[p][c] + f[s \ {c}]

\* DeviceCount is the value of a function that adds up the devices.
LEMMA CountAddsUp ==
  ASSUME NEW p \in Pods, NEW S \in SUBSET Containers
  PROVE  \E f : AddsUp(f, p, S) /\ DeviceCount(p, S) = f[S]
<1> USE ConstantsAssumption
<1> DEFINE body(iter, s) ==
             IF s = {} THEN 0
             ELSE Request[p][CHOOSE x \in s : TRUE] + iter[s \ {CHOOSE x \in s : TRUE}]
           IsIter(iter) == iter = [s \in SUBSET S |-> body(iter, s)]
           sum == CHOOSE iter : IsIter(iter)
           last == [s \in SUBSET S |-> CHOOSE c \in s : TRUE]
           H == [t \in Nat \X S |-> Request[p][t[2]] + t[1]]
<1>1. DeviceCount(p, S) = sum[S]
  BY DEF DeviceCount, MapThenSumSet, MapThenFoldSet
<1>2. IsFiniteSet(S)
  BY FS_Subset
<1>3. \A s \in SUBSET S : s # {} => last[s] \in s /\ last[s] = CHOOSE c \in s : TRUE
  OBVIOUS
<1>4. H \in [Nat \X S -> Nat]
  <2>1. \A t \in Nat \X S : t[1] \in Nat /\ t[2] \in Containers
    OBVIOUS
  <2>2. \A c \in Containers : Request[p][c] \in Nat
    OBVIOUS
  <2>3. ASSUME NEW t \in Nat \X S PROVE Request[p][t[2]] + t[1] \in Nat
    <3>1. t[1] \in Nat /\ Request[p][t[2]] \in Nat
      BY <2>1, <2>2
    <3> QED BY <3>1
  <2> QED BY <2>3
<1>5. PICK f \in [SUBSET S -> Nat] : FoldsOver(f, S, 0, last, H)
  <2> HIDE DEF H, last
  <2>1. Picking(S, last)
    BY <1>3 DEF Picking
  <2> QED BY <1>2, <1>4, <2>1, SetRecursion
<1>6. \A s \in SUBSET S : f[s] = body(f, s)
  <2> TAKE s \in SUBSET S
  <2>1. CASE s = {}
    BY <2>1, <1>5 DEF FoldsOver
  <2>2. CASE s # {}
    <3> DEFINE c == CHOOSE x \in s : TRUE
    <3>1. c \in s /\ last[s] = c
      BY <2>2, <1>3
    <3> HIDE DEF c, last
    <3>2. f[s] = H[<<f[s \ {c}], c>>]
      BY <2>2, <3>1, <1>5 DEF FoldsOver
    <3>3. <<f[s \ {c}], c>> \in Nat \X S
      BY <3>1
    <3>4. f[s] = Request[p][c] + f[s \ {c}]
      BY <3>2, <3>3
    <3> QED BY <2>2, <3>4 DEF c
  <2> QED BY <2>1, <2>2
<1>7. IsIter(f)
  <2> DEFINE h == [s \in SUBSET S |-> body(f, s)]
  <2>1. DOMAIN f = DOMAIN h /\ \A s \in SUBSET S : f[s] = h[s]
    BY <1>6
  <2> QED BY <2>1
<1>8. IsIter(sum)
  <2> HIDE DEF IsIter
  <2> QED BY <1>7
<1>9. ASSUME NEW s \in SUBSET S PROVE sum[s] = body(sum, s)
  <2> HIDE DEF sum
  <2> DEFINE h == [t \in SUBSET S |-> body(sum, t)]
  <2>1. sum = h /\ h[s] = body(sum, s)
    BY <1>8
  <2> QED BY <2>1
<1> HIDE DEF sum
<1>10. sum[{}] = 0
  BY <1>9
<1>11. ASSUME NEW s \in SUBSET S, s # {}
       PROVE  \E c \in s : sum[s] = Request[p][c] + sum[s \ {c}]
  <2>1. (CHOOSE x \in s : TRUE) \in s
    BY <1>11
  <2> QED BY <1>9, <1>11, <2>1
<1> QED BY <1>1, <1>10, <1>11 DEF AddsUp

\* The devices of a set of containers are at least those of any two of them.
LEMMA CountIsBounded ==
  ASSUME NEW p \in Pods, NEW S \in SUBSET Containers
  PROVE  /\ \A c \in S : DeviceCount(p, S) >= Request[p][c]
         /\ \A c, d \in S : c # d => DeviceCount(p, S) >= Request[p][c] + Request[p][d]
         /\ DeviceCount(p, S) \in Nat
<1> USE ConstantsAssumption
<1>1. PICK f : AddsUp(f, p, S) /\ DeviceCount(p, S) = f[S]
  BY CountAddsUp
<1> DEFINE Bounded(s) == /\ f[s] \in Nat
                         /\ \A c \in s : f[s] >= Request[p][c]
                         /\ \A c, d \in s : c # d => f[s] >= Request[p][c] + Request[p][d]
           Good == {n \in Nat : \A s \in SUBSET S : Cardinality(s) = n => Bounded(s)}
<1>2. \A s \in SUBSET S : IsFiniteSet(s) /\ Cardinality(s) \in Nat
  <2> TAKE s \in SUBSET S
  <2>1. s \in SUBSET Containers
    OBVIOUS
  <2> QED BY <2>1, FS_Subset, FS_CardinalityType
<1>3. 0 \in Good
  <2>1. \A s \in SUBSET S : Cardinality(s) = 0 => s = {}
    BY <1>2, FS_EmptySet
  <2>2. Bounded({})
    BY <1>1 DEF AddsUp
  <2> HIDE DEF Bounded
  <2> QED BY <2>1, <2>2
<1>4. ASSUME NEW n \in Nat, n \in Good PROVE n + 1 \in Good
  <2> SUFFICES ASSUME NEW s \in SUBSET S, Cardinality(s) = n + 1 PROVE Bounded(s)
    OBVIOUS
  <2>1. s # {}
    BY FS_EmptySet
  <2>2. PICK e \in s : f[s] = Request[p][e] + f[s \ {e}]
    BY <2>1, <1>1 DEF AddsUp
  <2>3. Cardinality(s \ {e}) = n /\ s \ {e} \in SUBSET S
    <3>1. Cardinality(s \ {e}) = Cardinality(s) - 1
      BY <1>2, FS_RemoveElement
    <3> QED BY <3>1
  <2>4. Bounded(s \ {e})
    BY <1>4, <2>3
  <2>5. \A c \in s : Request[p][c] \in Nat
    OBVIOUS
  <2>6. f[s] \in Nat
    BY <2>2, <2>4, <2>5
  <2>7. \A c \in s : f[s] >= Request[p][c]
    <3> TAKE c \in s
    <3>1. CASE c = e
      BY <3>1, <2>2, <2>4, <2>5
    <3>2. CASE c # e
      <4>1. f[s \ {e}] >= Request[p][c]
        BY <3>2, <2>4
      <4> QED BY <4>1, <2>2, <2>4, <2>5
    <3> QED BY <3>1, <3>2
  <2>8. ASSUME NEW c \in s, NEW d \in s, c # d
        PROVE  f[s] >= Request[p][c] + Request[p][d]
    <3>1. CASE c = e
      <4>1. f[s \ {e}] >= Request[p][d]
        BY <3>1, <2>4, <2>8
      <4> QED BY <3>1, <4>1, <2>2, <2>4, <2>5
    <3>2. CASE d = e
      <4>1. f[s \ {e}] >= Request[p][c]
        BY <3>2, <2>4, <2>8
      <4> QED BY <3>2, <4>1, <2>2, <2>4, <2>5
    <3>3. CASE c # e /\ d # e
      <4>1. f[s \ {e}] >= Request[p][c] + Request[p][d]
        BY <3>3, <2>4, <2>8
      <4> QED BY <4>1, <2>2, <2>4, <2>5
    <3> QED BY <3>1, <3>2, <3>3
  <2> QED BY <2>6, <2>7, <2>8
<1> HIDE DEF Good
<1>5. Cardinality(S) \in Good
  BY <1>2, <1>3, <1>4, Induction
<1> QED BY <1>1, <1>5 DEF Good

\* A list whose first entry is as large as the whole list has no other: of a pod with
\* several vGPU containers left, no container is ever found (the filter by the number of
\* devices and the comparison after GetNextDeviceRequest).
LEMMA FoundIsAlone ==
  ASSUME NEW p \in Pods, NEW S \in SUBSET VGPUContainers(p), NEW c \in S,
         DeviceCount(p, S) = Request[p][c]
  PROVE  S = {c}
<1> USE ConstantsAssumption
<1>1. S \in SUBSET Containers /\ \A d \in S : Request[p][d] \in Nat /\ Request[p][d] > 0
  BY DEF VGPUContainers
<1>2. ASSUME NEW d \in S, d # c PROVE FALSE
  <2>1. DeviceCount(p, S) >= Request[p][c] + Request[p][d]
    BY <1>1, <1>2, CountIsBounded
  <2> QED BY <1>1, <2>1
<1> QED BY <1>2

-----------------------------------------------------------------------------
(* No entry of an annotation is handed out twice.  The argument is local to
   the annotation: a handler answers "ok" only after the entry it serves was
   erased, nobody writes an erased entry back, and the kubelet listens to one
   handler at a time.  It needs no lock and no assumption on the faults.  That
   nobody writes an erased entry back rests on FoundIsAlone: a handler that
   goes on to erase an entry has found it alone in its copy of the annotation,
   so that every copy that is ever written back is empty.                      *)

Claims(h) == handler[h].pc \in Serving \/ handler[h].ok

\* A handler that chose a pod chose an entry the scheduler wrote ...
ClaimOK ==
  \A h \in Handlers : Claims(h) =>
    /\ sched[handler[h].pod] # "new"
    /\ handler[h].ctr \in VGPUContainers(handler[h].pod)
    /\ handler[h].pc = "erase" => handler[h].snap = {handler[h].ctr}

\* ... which is erased before it answers.
ClaimErased ==
  \A h \in Handlers : handler[h].pc = "get" \/ handler[h].ok =>
    anno[handler[h].pod].alloc = {}

AllocOK ==
  \A p \in Pods : /\ anno[p].alloc \subseteq VGPUContainers(p)
                  /\ sched[p] = "new" => anno[p].alloc = {}

GrantErased ==
  \A g \in grants : /\ sched[g.from] # "new"
                    /\ g.fromCtr \in VGPUContainers(g.from)
                    /\ anno[g.from].alloc = {}

\* What the kubelet's handler claims was not handed out before.
ClaimFresh ==
  \A h \in Handlers : call.by = h /\ Claims(h) =>
    \A g \in grants : g.from # handler[h].pod

OnceInv == /\ TypeInv /\ ClaimOK /\ ClaimErased /\ AllocOK
           /\ GrantErased /\ ClaimFresh /\ GrantedOnce

USE DEF Serving

LEMMA OnceInvInit == Init => OnceInv
<1> SUFFICES ASSUME Init PROVE OnceInv
  OBVIOUS
<1>1. ClaimOK /\ ClaimErased /\ ClaimFresh
  BY DEF Init, ClaimOK, ClaimErased, ClaimFresh, Claims, Idle
<1>2. AllocOK /\ GrantErased /\ GrantedOnce
  BY DEF Init, AllocOK, GrantErased, GrantedOnce
<1> QED BY <1>1, <1>2, TypeInvInit DEF OnceInv

\* A step that leaves annotations, grants and call alone and only moves one
\* handler, without a new claim, preserves the invariant.
LEMMA QuietHandlerStep ==
  ASSUME OnceInv, TypeInv', NEW h \in Handlers,
         UNCHANGED <<sched, anno, call, grants>>,
         \A g \in Handlers \ {h} : handler'[g] = handler[g],
         Claims(h)' => /\ Claims(h)
                       /\ handler'[h].pod = handler[h].pod
                       /\ handler'[h].ctr = handler[h].ctr
                       /\ handler'[h].pc # "erase"
                       /\ handler'[h].pc = "get" \/ handler'[h].ok =>
                            handler[h].pc = "get" \/ handler[h].ok
  PROVE  OnceInv'
<1>1. ClaimOK'
  BY DEF OnceInv, ClaimOK, Claims, VGPUContainers
<1>2. ClaimErased'
  BY DEF OnceInv, ClaimErased, Claims
<1>3. AllocOK' /\ GrantErased' /\ GrantedOnce'
  BY DEF OnceInv, AllocOK, GrantErased, GrantedOnce, VGPUContainers
<1>4. ClaimFresh'
  BY DEF OnceInv, ClaimFresh, Claims
<1> QED BY <1>1, <1>2, <1>3, <1>4 DEF OnceInv

LEMMA OnceInvNext ==
  ASSUME OnceInv, [Next]_vars
  PROVE  OnceInv'
<1>T. TypeInv'
  BY TypeInvNext DEF OnceInv
<1> USE ConstantsAssumption
<1>a. handler \in [Handlers -> HandlerState] /\ anno \in [Pods -> AnnoState]
  BY DEF OnceInv, TypeInv, TypeOK
<1>b. sched \in [Pods -> {"new", "bound", "deleted"}]
  BY DEF OnceInv, TypeInv, TypeOK
<1>c. \A h \in Handlers : Claims(h) => handler[h].pod \in Pods
  BY DEF OnceInv, TypeInv, Chosen, Claims
<1>d. \A g \in grants : g.from \in Pods
  BY DEF OnceInv, TypeInv, TypeOK
<1>1. ASSUME NEW p \in Pods, Schedule(p) PROVE OnceInv'
  <2>1. sched[p] = "new" /\ sched' = [sched EXCEPT ![p] = "bound"]
        /\ UNCHANGED <<call, grants, handler>>
    BY <1>1 DEF Schedule
  <2>2. anno' \in [Pods -> AnnoState] /\ anno'[p].alloc = VGPUContainers(p)
        /\ \A q \in Pods \ {p} : anno'[q] = anno[q]
    BY <1>1, <1>T, <1>a DEF Schedule, TypeInv, TypeOK
  <2>3. ClaimOK'
    BY <2>1, <1>b, <1>c DEF OnceInv, ClaimOK, Claims, VGPUContainers
  <2>4. ClaimErased'
    BY <2>1, <2>2, <1>c DEF OnceInv, ClaimOK, ClaimErased, Claims
  <2>5. AllocOK'
    BY <2>1, <2>2, <1>b DEF OnceInv, AllocOK, VGPUContainers
  <2>6. GrantErased'
    BY <2>1, <2>2, <1>b, <1>d DEF OnceInv, GrantErased, VGPUContainers
  <2>7. ClaimFresh' /\ GrantedOnce'
    BY <2>1 DEF OnceInv, ClaimFresh, GrantedOnce, Claims
  <2> QED BY <1>T, <2>3, <2>4, <2>5, <2>6, <2>7 DEF OnceInv
<1>2. ASSUME NEW p \in Pods, Delete(p) PROVE OnceInv'
  <2>1. sched[p] = "bound" /\ sched' = [sched EXCEPT ![p] = "deleted"]
        /\ UNCHANGED <<anno, call, grants, handler>>
    BY <1>2 DEF Delete
  <2>2. ClaimOK'
    BY <2>1, <1>b, <1>c DEF OnceInv, ClaimOK, Claims, VGPUContainers
  <2>3. ClaimErased'
    BY <2>1 DEF OnceInv, ClaimErased, Claims
  <2>4. AllocOK' /\ GrantErased'
    BY <2>1, <1>b, <1>d DEF OnceInv, AllocOK, GrantErased, VGPUContainers
  <2>5. ClaimFresh' /\ GrantedOnce'
    BY <2>1 DEF OnceInv, ClaimFresh, GrantedOnce, Claims
  <2> QED BY <1>T, <2>2, <2>3, <2>4, <2>5 DEF OnceInv
<1>3. ASSUME NEW h \in Handlers, Call(h) PROVE OnceInv'
  <2>0. PICK p \in Pods, c \in Containers : handler' = [handler EXCEPT ![h] =
                             [Idle EXCEPT !.pc = "list", !.want = Request[p][c]]]
    BY <1>3, Zenon DEF Call
  <2>8. Request[p][c] \in Nat
    OBVIOUS
  <2>1. PICK n \in Nat : handler' = [handler EXCEPT ![h] =
                                       [Idle EXCEPT !.pc = "list", !.want = n]]
    BY <2>0, <2>8, Zenon
  <2>2. UNCHANGED <<sched, anno, grants>> /\ call'.by = h
    BY <1>3 DEF Call
  <2>3. ~Claims(h)' /\ handler'[h].pc # "get" /\ ~handler'[h].ok
        /\ \A g \in Handlers \ {h} : handler'[g] = handler[g]
    BY <2>1, <1>a DEF Claims, Idle
  <2>4. ClaimOK'
    BY <2>2, <2>3 DEF OnceInv, ClaimOK, Claims, VGPUContainers
  <2>5. ClaimErased'
    BY <2>2, <2>3 DEF OnceInv, ClaimErased
  <2>6. AllocOK' /\ GrantErased' /\ GrantedOnce'
    BY <2>2 DEF OnceInv, AllocOK, GrantErased, GrantedOnce, VGPUContainers
  <2>7. ClaimFresh'
    BY <2>2, <2>3 DEF ClaimFresh
  <2> QED BY <1>T, <2>4, <2>5, <2>6, <2>7 DEF OnceInv
<1>4. ASSUME NEW h \in Handlers, HandlerStep(h) PROVE OnceInv'
  <2> USE DEF HandlerState
  <2>1. CASE NoPod(h)
    <3>1. handler' = [handler EXCEPT ![h].pc = "release", ![h].ok = FALSE]
      BY <2>1 DEF NoPod
    <3>2. ~Claims(h)' /\ \A g \in Handlers \ {h} : handler'[g] = handler[g]
      BY <3>1, <1>a DEF Claims
    <3>3. UNCHANGED <<sched, anno, call, grants>>
      BY <2>1 DEF NoPod
    <3> QED BY <1>T, <3>2, <3>3, QuietHandlerStep
  <2>2. CASE Pick(h)
    <3> DEFINE Found(p, c, next) ==
          /\ IsOldest(p, Candidates(handler[h].want))
          /\ next = "erase" => Request[p][c] = handler[h].want
          /\ handler' = [handler EXCEPT ![h] =
                 [handler[h] EXCEPT !.pc = next, !.pod = p, !.ctr = c,
                                    !.snap = anno[p].alloc, !.ok = FALSE]]
    <3>1. PICK p \in Pods, next \in {"erase", "failed", "reply"} :
            \E c \in anno[p].alloc : Found(p, c, next)
      BY <2>2 DEF Pick
    <3>2. PICK c \in anno[p].alloc : Found(p, c, next)
      BY <3>1
    <3>3. UNCHANGED <<sched, anno, call, grants>>
      BY <2>2 DEF Pick
    <3>4. sched[p] = "bound" /\ DeviceCount(p, anno[p].alloc) = handler[h].want
      BY <3>2 DEF IsOldest, Candidates
    <3>5. /\ handler'[h].pod = p /\ handler'[h].ctr = c /\ handler'[h].pc # "get"
          /\ handler'[h].snap = anno[p].alloc /\ handler'[h].ok = FALSE
          /\ \A g \in Handlers \ {h} : handler'[g] = handler[g]
      BY <3>2, <1>a
    <3>6. anno[p].alloc # {} /\ anno[p].alloc \subseteq VGPUContainers(p)
      BY DEF OnceInv, AllocOK
    <3>11. handler'[h].pc = "erase" => handler'[h].snap = {c}
      <4> SUFFICES ASSUME next = "erase" PROVE anno[p].alloc = {c}
        BY <3>2, <3>5, <1>a
      <4>1. Request[p][c] = handler[h].want
        BY <3>2
      <4> QED BY <3>4, <3>6, <4>1, FoundIsAlone
    <3>7. ClaimOK'
      BY <3>3, <3>4, <3>5, <3>6, <3>11 DEF OnceInv, ClaimOK, Claims, VGPUContainers
    <3>8. ClaimErased'
      BY <3>3, <3>5 DEF OnceInv, ClaimErased
    <3>9. AllocOK' /\ GrantErased' /\ GrantedOnce'
      BY <3>3 DEF OnceInv, AllocOK, GrantErased, GrantedOnce, VGPUContainers
    <3>10. ClaimFresh'
      BY <3>3, <3>5, <3>6 DEF OnceInv, ClaimFresh, GrantErased, Claims
    <3> QED BY <1>T, <3>7, <3>8, <3>9, <3>10 DEF OnceInv
  <2>3. CASE EraseNext(h)
    <3>1. PICK next \in {"get", "failed"} : handler' = [handler EXCEPT ![h].pc = next]
      BY <2>3 DEF EraseNext, AfterEraseError
    <3>2. /\ handler[h].pc = "erase"
          /\ anno' = [anno EXCEPT ![handler[h].pod].alloc = Erased(h)]
          /\ UNCHANGED <<sched, call, grants>>
      BY <2>3 DEF EraseNext
    <3>3. Claims(h) /\ handler[h].pod \in Pods
      BY <3>2, <1>c DEF Claims
    <3>4. Erased(h) = {}
      BY <3>2, <3>3 DEF OnceInv, ClaimOK, Erased
    <3>5. anno'[handler[h].pod].alloc = {}
          /\ \A q \in Pods : anno'[q].alloc = anno[q].alloc \/ anno'[q].alloc = {}
      BY <3>2, <3>3, <3>4, <1>a DEF AnnoState
    <3>6. /\ handler'[h].pod = handler[h].pod /\ handler'[h].ctr = handler[h].ctr
          /\ handler'[h].pc # "erase" /\ handler'[h].ok = handler[h].ok
          /\ \A g \in Handlers \ {h} : handler'[g] = handler[g]
      BY <3>1, <1>a
    <3>7. ClaimOK'
      BY <3>2, <3>3, <3>6 DEF OnceInv, ClaimOK, Claims, VGPUContainers
    <3>8. ClaimErased'
      <4> SUFFICES ASSUME NEW g \in Handlers, (handler[g].pc = "get" \/ handler[g].ok)'
                   PROVE  anno'[handler'[g].pod].alloc = {}
        BY DEF ClaimErased
      <4>1. CASE g = h
        BY <3>5, <3>6, <4>1
      <4>2. CASE g # h
        BY <3>5, <3>6, <4>2, <1>c DEF OnceInv, ClaimErased, Claims
      <4> QED BY <4>1, <4>2
    <3>9. AllocOK' /\ GrantErased' /\ GrantedOnce'
      BY <3>2, <3>5, <1>d DEF OnceInv, AllocOK, GrantErased, GrantedOnce, VGPUContainers
    <3>10. ClaimFresh'
      BY <3>2, <3>3, <3>6 DEF OnceInv, ClaimFresh, Claims
    <3> QED BY <1>T, <3>7, <3>8, <3>9, <3>10 DEF OnceInv
  <2>4. CASE EraseFails(h)
    <3>1. handler' = [handler EXCEPT ![h].pc = "failed"] /\ handler[h].pc = "erase"
          /\ UNCHANGED <<sched, anno, call, grants>>
      BY <2>4 DEF EraseFails, AfterEraseError
    <3>2. /\ Claims(h) /\ handler'[h].pod = handler[h].pod
          /\ handler'[h].ctr = handler[h].ctr
          /\ handler'[h].pc = "failed" /\ handler'[h].ok = handler[h].ok
          /\ \A g \in Handlers \ {h} : handler'[g] = handler[g]
      BY <3>1, <1>a DEF Claims
    <3> QED BY <1>T, <3>1, <3>2, QuietHandlerStep DEF Claims
  <2>5. CASE GetRefreshed(h)
    <3>1. PICK next \in {"success", "reply"} :
            handler' = [handler EXCEPT ![h].ok = TRUE, ![h].pc = next]
      BY <2>5 DEF GetRefreshed, AfterRefresh
    <3>2. handler[h].pc = "get" /\ UNCHANGED <<sched, anno, call, grants>>
      BY <2>5 DEF GetRefreshed
    <3>3. /\ Claims(h) /\ handler'[h].pod = handler[h].pod
          /\ handler'[h].ctr = handler[h].ctr /\ handler'[h].pc # "erase"
          /\ \A g \in Handlers \ {h} : handler'[g] = handler[g]
      BY <3>1, <3>2, <1>a DEF Claims
    <3> QED BY <1>T, <3>2, <3>3, QuietHandlerStep DEF Claims
  <2>6. CASE PatchPhase(h)
    <3>1. handler' = [handler EXCEPT ![h].pc = "release"]
          /\ handler[h].pc \in {"success", "failed"} /\ UNCHANGED <<sched, call, grants>>
      BY <2>6 DEF PatchPhase
    <3>8. \/ anno' = [anno EXCEPT ![handler[h].pod] =
                       Settled(anno[handler[h].pod], handler[h].pc)]
          \/ anno' = anno
      BY <2>6 DEF PatchPhase
    <3>9. anno \in [Pods -> AnnoState]
      BY <1>a
    <3>10. \A a \in AnnoState : \A phase : Settled(a, phase).alloc = a.alloc
      BY DEF Settled, AnnoState
    <3>2. \A q \in Pods : anno'[q].alloc = anno[q].alloc
      <4>1. CASE anno' = anno
        BY <4>1
      <4>2. ASSUME anno' = [anno EXCEPT ![handler[h].pod] =
                              Settled(anno[handler[h].pod], handler[h].pc)],
                   NEW q \in Pods
            PROVE  anno'[q].alloc = anno[q].alloc
        <5>1. CASE q = handler[h].pod
          <6>1. anno'[q] = Settled(anno[q], handler[h].pc)
            BY <4>2, <5>1, <3>9
          <6> QED BY <6>1, <3>9, <3>10
        <5>2. CASE q # handler[h].pod
          <6>1. anno'[q] = anno[q]
            BY <4>2, <5>2, <3>9
          <6> QED BY <6>1
        <5> QED BY <5>1, <5>2
      <4> QED BY <3>8, <4>1, <4>2
    <3>3. /\ Claims(h) /\ handler'[h].pod = handler[h].pod
          /\ handler'[h].ctr = handler[h].ctr /\ handler'[h].pc = "release"
          /\ handler'[h].ok = handler[h].ok
          /\ \A g \in Handlers \ {h} : handler'[g] = handler[g]
      BY <3>1, <1>a DEF Claims
    <3>4. ClaimOK'
      BY <3>1, <3>3 DEF OnceInv, ClaimOK, Claims, VGPUContainers
    <3>5. ClaimErased'
      <4> SUFFICES ASSUME NEW g \in Handlers, (handler[g].pc = "get" \/ handler[g].ok)'
                   PROVE  anno'[handler'[g].pod].alloc = {}
        BY DEF ClaimErased
      <4>1. /\ handler[g].pc = "get" \/ handler[g].ok
            /\ handler'[g].pod = handler[g].pod
        BY <3>3
      <4>2. handler[g].pod \in Pods /\ anno[handler[g].pod].alloc = {}
        BY <4>1, <1>c DEF OnceInv, ClaimErased, Claims
      <4> QED BY <3>2, <4>1, <4>2
    <3>6. AllocOK' /\ GrantErased' /\ GrantedOnce'
      BY <3>1, <3>2, <1>d DEF OnceInv, AllocOK, GrantErased, GrantedOnce, VGPUContainers
    <3>7. ClaimFresh'
      BY <3>1, <3>3 DEF OnceInv, ClaimFresh, Claims
    <3> QED BY <1>T, <3>4, <3>5, <3>6, <3>7 DEF OnceInv
  <2>7. CASE Release(h)
    <3>1. handler' = [handler EXCEPT ![h].pc = "reply"] /\ handler[h].pc = "release"
          /\ UNCHANGED <<sched, anno, call, grants>>
      BY <2>7 DEF Release
    <3>2. /\ handler'[h].pod = handler[h].pod /\ handler'[h].ctr = handler[h].ctr
          /\ handler'[h].pc = "reply" /\ handler'[h].ok = handler[h].ok
          /\ \A g \in Handlers \ {h} : handler'[g] = handler[g]
      BY <3>1, <1>a
    <3> QED BY <1>T, <3>1, <3>2, QuietHandlerStep DEF Claims
  <2>8. CASE Reply(h)
    <3>1. handler' = [handler EXCEPT ![h] = Idle] /\ UNCHANGED <<sched, anno>>
      BY <2>8 DEF Reply
    <3>2. ~Claims(h)' /\ handler'[h].pc # "get" /\ ~handler'[h].ok
          /\ \A g \in Handlers \ {h} : handler'[g] = handler[g]
      BY <3>1, <1>a DEF Claims, Idle
    <3>3. ClaimOK'
      BY <3>1, <3>2 DEF OnceInv, ClaimOK, Claims, VGPUContainers
    <3>4. ClaimErased'
      BY <3>1, <3>2 DEF OnceInv, ClaimErased
    <3>5. AllocOK'
      BY <3>1 DEF OnceInv, AllocOK, VGPUContainers
    <3>6. CASE UNCHANGED <<call, grants>>
      <4>1. GrantErased' /\ GrantedOnce'
        BY <3>1, <3>6 DEF OnceInv, GrantErased, GrantedOnce, VGPUContainers
      <4>2. ClaimFresh'
        BY <3>2, <3>6 DEF OnceInv, ClaimFresh, Claims
      <4> QED BY <1>T, <3>3, <3>4, <3>5, <4>1, <4>2 DEF OnceInv
    <3>7. CASE call' = NoCall /\ grants' = grants
      <4>1. GrantErased' /\ GrantedOnce'
        BY <3>1, <3>7 DEF OnceInv, GrantErased, GrantedOnce, VGPUContainers
      <4>2. ClaimFresh'
        BY <3>7 DEF ClaimFresh, NoCall
      <4> QED BY <1>T, <3>3, <3>4, <3>5, <4>1, <4>2 DEF OnceInv
    <3>8. CASE call.by = h /\ handler[h].ok /\ call' = NoCall
               /\ grants' = grants \cup {[pod |-> call.pod, ctr |-> call.ctr,
                            from |-> handler[h].pod, fromCtr |-> handler[h].ctr]}
      <4>1. Claims(h)
        BY <3>8 DEF Claims
      <4>2. GrantErased'
        BY <3>1, <3>8, <4>1 DEF OnceInv, GrantErased, ClaimOK, ClaimErased, VGPUContainers
      <4>3. \A g \in grants : g.from # handler[h].pod
        BY <3>8, <4>1 DEF OnceInv, ClaimFresh
      <4>4. GrantedOnce'
        BY <3>8, <4>3 DEF OnceInv, GrantedOnce
      <4>5. ClaimFresh'
        BY <3>8 DEF ClaimFresh, NoCall
      <4> QED BY <1>T, <3>3, <3>4, <3>5, <4>2, <4>4, <4>5 DEF OnceInv
    <3> QED BY <2>8, <3>6, <3>7, <3>8 DEF Reply
  <2> QED
    BY <1>4, <2>1, <2>2, <2>3, <2>4, <2>5, <2>6, <2>7, <2>8 DEF HandlerStep
<1>5. CASE Restart
  <2>1. UNCHANGED <<sched, anno, grants, handler>> /\ call' = NoCall
    BY <1>5 DEF Restart
  <2>2. ClaimOK' /\ ClaimErased'
    BY <2>1 DEF OnceInv, ClaimOK, ClaimErased, Claims, VGPUContainers
  <2>3. AllocOK' /\ GrantErased' /\ GrantedOnce'
    BY <2>1 DEF OnceInv, AllocOK, GrantErased, GrantedOnce, VGPUContainers
  <2>4. ClaimFresh'
    BY <2>1 DEF ClaimFresh, NoCall
  <2> QED BY <1>T, <2>2, <2>3, <2>4 DEF OnceInv
<1>6. CASE Crash
  <2>1. UNCHANGED <<sched, anno, grants>> /\ call' = NoCall
        /\ handler' = [h \in Handlers |-> Idle]
    BY <1>6 DEF Crash
  <2>2. ClaimOK' /\ ClaimErased'
    BY <2>1 DEF ClaimOK, ClaimErased, Claims, Idle
  <2>3. AllocOK' /\ GrantErased' /\ GrantedOnce'
    BY <2>1 DEF OnceInv, AllocOK, GrantErased, GrantedOnce, VGPUContainers
  <2>4. ClaimFresh'
    BY <2>1 DEF ClaimFresh, NoCall
  <2> QED BY <1>T, <2>2, <2>3, <2>4 DEF OnceInv
<1>7. CASE UNCHANGED vars
  <2>1. UNCHANGED <<sched, anno, call, grants, handler>>
    BY <1>7 DEF vars
  <2>2. ClaimOK' /\ ClaimErased' /\ ClaimFresh'
    BY <2>1 DEF OnceInv, ClaimOK, ClaimErased, ClaimFresh, Claims, VGPUContainers
  <2>3. AllocOK' /\ GrantErased' /\ GrantedOnce'
    BY <2>1 DEF OnceInv, AllocOK, GrantErased, GrantedOnce, VGPUContainers
  <2> QED BY <1>T, <2>2, <2>3 DEF OnceInv
<1> QED
  BY <1>1, <1>2, <1>3, <1>4, <1>5, <1>6, <1>7 DEF Next, Finished

\* What the scheduler wrote for a container is never handed to two, however many
\* containers a pod has, whoever runs concurrently and whatever fails (Allocate).
THEOREM NeverGrantedTwice == Spec => []GrantedOnce
<1>1. OnceInv => GrantedOnce
  BY DEF OnceInv
<1>2. OnceInv /\ [Next]_vars => OnceInv'
  BY OnceInvNext
<1> QED
  BY <1>1, <1>2, OnceInvInit, PTL DEF Spec

-----------------------------------------------------------------------------
(* What the node lock buys the handler.  It guesses the pod it serves; it      *)
(* guesses right because one pod at a time is unsettled.  That needs two       *)
(* hypotheses, both stated: every pod has one vGPU container, and only those   *)
(* faults happen after which a pod is settled before the lock is free again.   *)
(* Without either, a run of the model checker finds a state in which the       *)
(* conclusion is false.                                                        *)

\* Every pod has one vGPU container.
OneContainer == \A p \in Pods : \E c \in Containers : VGPUContainers(p) = {c}

\* The faults that leave no pod unsettled behind a free lock.
ContainedFaults == {"mig", "erase", "get", "release", "restart", "delete"}

Contained == OneContainer /\ Faults \subseteq ContainedFaults

\* A handler that may still write to the API server.
Active(h) == handler[h].pc \notin {"idle", "reply"}

\* A pod whose devices the scheduler wrote and no handler has settled.
Unsettled(p) == sched[p] = "bound" /\ anno[p].phase = "allocating"

-----------------------------------------------------------------------------
(* The invariant.                                                            *)

\* The lock serialises: one unsettled pod, one active handler, both under it.
Serialised ==
  /\ \A p, q \in Pods : Unsettled(p) /\ Unsettled(q) => p = q
  /\ \A g, h \in Handlers : Active(g) /\ Active(h) => g = h
  /\ \A p \in Pods : Unsettled(p) => lock
  /\ \A h \in Handlers : Active(h) => lock

\* An unsettled pod is waited for by the kubelet or attended by a handler; a pod
\* the kubelet waits for is unsettled or about to be answered; a handler that the
\* kubelet no longer listens to keeps every other one from starting.
Attended ==
  /\ \A p \in Pods : Unsettled(p) => Awaited(p) \/ \E h \in Handlers : Active(h)
  /\ \A p \in Pods : Awaited(p) => Unsettled(p) \/ call.pod = p
  /\ \A p \in Pods, h \in Handlers : Awaited(p) /\ Active(h) => call.pod = p
  /\ \A h \in Handlers : Active(h) /\ call # NoCall => call.by = h

\* The unsettled pod is the oldest of the pods that may be found, and its
\* annotation is as the scheduler wrote it until a handler has erased it.
Annotated ==
  \A p \in Pods :
    /\ sched[p] = "new" => anno[p].phase = "none"
    /\ sched[p] = "bound" /\ anno[p].phase # "allocating" => anno[p].time = MaxUint64
    /\ Unsettled(p) => anno[p].time <= MaxTime
    /\ Unsettled(p) /\ (\A h \in Handlers : handler[h].pc \notin {"get", "success", "failed"})
         => anno[p].alloc = VGPUContainers(p)

\* While a pod is unsettled the active handler looks for it, or has found it.
OnTrack ==
  \A p \in Pods, h \in Handlers : Unsettled(p) =>
    /\ handler[h].pc = "list" => handler[h].want = DeviceCount(p, VGPUContainers(p))
    /\ handler[h].pc \in Serving => handler[h].pod = p
    /\ handler[h].pc # "release"

\* What the handler the kubelet listens to knows of the pod the kubelet means.
CallOnTrack ==
  call # NoCall =>
    /\ Awaited(call.pod) /\ call.ctr \in VGPUContainers(call.pod)
    /\ handler[call.by].pc # "idle"
    /\ handler[call.by].pc = "list" => Unsettled(call.pod)
    /\ handler[call.by].pc \in Serving => Unsettled(call.pod)
    /\ handler[call.by].pc = "success" => handler[call.by].ok
    /\ handler[call.by].pc \in {"list", "erase", "get", "failed"} => ~handler[call.by].ok
    /\ handler[call.by].pc \in {"release", "reply"} /\ handler[call.by].ok =>
         /\ handler[call.by].pod = call.pod
         /\ anno[call.pod].phase = "success" /\ anno[call.pod].time = MaxUint64
    /\ handler[call.by].pc \in {"release", "reply"} => ~Unsettled(call.pod)

\* No handler serves a pod that runs already.
ServesNoRunning ==
  \A h \in Handlers : handler[h].pc \in Serving => kubelet[handler[h].pod] # "running"

\* A pod that was not placed yet is not running, and has been given nothing.
NewIsWaiting == \A p \in Pods : sched[p] = "new" => kubelet[p] = "waiting"

\* As long as no pod object is deleted, a handler serves an unsettled pod only.
ServesUnsettled ==
  "delete" \notin Faults =>
    \A h \in Handlers :
      /\ handler[h].pc = "list" => \E p \in Pods : Unsettled(p)
      /\ handler[h].pc \in Serving => Unsettled(handler[h].pod)

\* Whoever was given devices runs or was let go since.
GivenIsSettled == \A g \in grants : kubelet[g.pod] # "waiting"

ContainedInv ==
  /\ Serialised /\ Attended /\ Annotated /\ OnTrack /\ CallOnTrack
  /\ ServesNoRunning /\ NewIsWaiting /\ ServesUnsettled /\ GivenIsSettled
  /\ GrantIsOwn /\ RunningIsMarked

-----------------------------------------------------------------------------
\* The devices of one container.
LEMMA SingleCount ==
  ASSUME NEW p \in Pods, NEW c \in Containers
  PROVE  DeviceCount(p, {c}) = Request[p][c]
<1> USE ConstantsAssumption
<1>1. PICK f : AddsUp(f, p, {c}) /\ DeviceCount(p, {c}) = f[{c}]
  BY CountAddsUp
<1>2. PICK d \in {c} : f[{c}] = Request[p][d] + f[{c} \ {d}]
  BY <1>1 DEF AddsUp
<1>3. {c} \ {d} = {} /\ d = c
  OBVIOUS
<1>4. f[{c}] = Request[p][c] + f[{}]
  BY <1>2, <1>3, Zenon
<1>5. f[{}] = 0 /\ Request[p][c] \in Nat
  BY <1>1 DEF AddsUp
<1>6. f[{c}] = Request[p][c]
  BY <1>4, <1>5
<1> QED BY <1>1, <1>6

LEMMA ContainedInvInit == Init => ContainedInv
<1> SUFFICES ASSUME Init PROVE ContainedInv
  OBVIOUS
<1>1. /\ \A p \in Pods : sched[p] = "new" /\ anno[p].phase = "none" /\ kubelet[p] = "waiting"
      /\ \A h \in Handlers : handler[h].pc = "idle"
      /\ call = NoCall /\ grants = {}
  <2>1. \A p \in Pods : anno[p] = [time |-> MaxUint64, alloc |-> {}, phase |-> "none"]
    BY DEF Init
  <2>2. \A h \in Handlers : handler[h] = Idle
    BY DEF Init
  <2>3. \A p \in Pods : sched[p] = "new" /\ kubelet[p] = "waiting"
    BY DEF Init
  <2>4. call = NoCall /\ grants = {}
    BY DEF Init
  <2> QED BY <2>1, <2>2, <2>3, <2>4 DEF Idle
<1>2. /\ \A p \in Pods : ~Unsettled(p) /\ ~Awaited(p)
      /\ \A h \in Handlers : ~Active(h)
  BY <1>1 DEF Unsettled, Awaited, Active
<1>3. Serialised /\ Attended /\ Annotated /\ OnTrack
  BY <1>1, <1>2 DEF Serialised, Attended, Annotated, OnTrack
<1>4. CallOnTrack /\ NewIsWaiting /\ GivenIsSettled /\ GrantIsOwn /\ RunningIsMarked
  BY <1>1 DEF CallOnTrack, NewIsWaiting, GivenIsSettled, GrantIsOwn, RunningIsMarked
<1>5. ServesNoRunning /\ ServesUnsettled
  BY <1>1 DEF ServesNoRunning, ServesUnsettled
<1> QED BY <1>3, <1>4, <1>5 DEF ContainedInv

-----------------------------------------------------------------------------
(* One lemma per action.                                                     *)

LEMMA KeptTypes ==
  ASSUME OnceInv
  PROVE  /\ handler \in [Handlers -> HandlerState] /\ anno \in [Pods -> AnnoState]
         /\ sched \in [Pods -> {"new", "bound", "deleted"}]
         /\ kubelet \in [Pods -> {"waiting", "running", "rejected"}]
         /\ \A h \in Handlers : handler[h].pc \in PCs
         /\ \A h \in Handlers : handler[h].pc \in Serving => handler[h].pod \in Pods
         /\ call # NoCall => call.pod \in Pods /\ call.ctr \in Containers /\ call.by \in Handlers
         /\ NoCall.pod \notin Pods /\ NoCall.by \notin Handlers
         /\ \A g \in grants : g.pod \in Pods
<1>1. TypeOK /\ Chosen /\ CallOK
  BY DEF OnceInv, TypeInv
<1>2. \A h \in Handlers : handler[h].pc \in PCs
  BY <1>1 DEF TypeOK, HandlerState
<1>3. \A h \in Handlers : handler[h].pc \in Serving => handler[h].pod \in Pods
  BY <1>1 DEF Chosen
<1>4. call # NoCall => call.pod \in Pods /\ call.ctr \in Containers /\ call.by \in Handlers
  BY <1>1 DEF CallOK
<1>5. NoCall.pod \notin Pods /\ NoCall.by \notin Handlers
  BY ConstantsAssumption DEF NoCall
<1> QED BY <1>1, <1>2, <1>3, <1>4, <1>5 DEF TypeOK

\* The one vGPU container of a pod.
LEMMA TheContainer ==
  ASSUME OneContainer, NEW p \in Pods
  PROVE  /\ \A c, d \in VGPUContainers(p) : c = d
         /\ \A c \in VGPUContainers(p) : /\ VGPUContainers(p) = {c}
                                         /\ DeviceCount(p, VGPUContainers(p)) = Request[p][c]
<1>1. PICK c \in Containers : VGPUContainers(p) = {c}
  BY DEF OneContainer
<1>2. Request[p][c] \in Nat
  BY ConstantsAssumption
<1>3. DeviceCount(p, {c}) = Request[p][c]
  BY <1>2, SingleCount
<1> QED BY <1>1, <1>3

LEMMA ScheduleContained ==
  ASSUME Contained, ContainedInv, OnceInv, NEW p \in Pods, Schedule(p)
  PROVE  ContainedInv'
<1> USE KeptTypes
<1>1. PICK t \in {clock, clock + 1} :
        /\ t <= MaxTime
        /\ anno' = [anno EXCEPT ![p] =
             [time |-> t, alloc |-> VGPUContainers(p), phase |-> "allocating"]]
  BY DEF Schedule
<1>2. /\ sched[p] = "new" /\ sched' = [sched EXCEPT ![p] = "bound"] /\ lock'
      /\ UNCHANGED <<kubelet, call, grants, handler>>
  BY DEF Schedule
<1>3. /\ sched'[p] = "bound" /\ anno'[p].time <= MaxTime /\ anno'[p].phase = "allocating"
      /\ anno'[p].alloc = VGPUContainers(p)
      /\ \A q \in Pods \ {p} : sched'[q] = sched[q] /\ anno'[q] = anno[q]
  BY <1>1, <1>2
<1>4. kubelet[p] = "waiting"
  BY <1>2 DEF ContainedInv, NewIsWaiting
<1>5. ~lock \/ Quiet
  BY DEF Schedule, Contained, ContainedFaults
<1>6. /\ \A h \in Handlers : ~Active(h)
      /\ \A q \in Pods : ~Unsettled(q)
  <2>1. CASE ~lock
    BY <2>1 DEF ContainedInv, Serialised
  <2>2. CASE Quiet
    BY <2>2 DEF ContainedInv, Attended, Quiet, Active
  <2> QED BY <1>5, <2>1, <2>2
<1>7. /\ \A h \in Handlers : ~Active(h)' /\ handler[h].pc \in {"idle", "reply"}
      /\ \A q \in Pods : Unsettled(q)' => q = p
      /\ Unsettled(p)' /\ Awaited(p)'
      /\ \A q \in Pods \ {p} : Awaited(q)' => Awaited(q)
      /\ ~Awaited(p) /\ call.pod # p
  <2>1. /\ \A h \in Handlers : ~Active(h)' /\ handler[h].pc \in {"idle", "reply"}
    BY <1>2, <1>6 DEF Active
  <2>2. \A q \in Pods : Unsettled(q)' => q = p
    BY <1>3, <1>6 DEF Unsettled
  <2>3. Unsettled(p)' /\ Awaited(p)' /\ \A q \in Pods \ {p} : Awaited(q)' => Awaited(q)
    BY <1>2, <1>3, <1>4 DEF Unsettled, Awaited
  <2>4. ~Awaited(p)
    BY <1>2 DEF Awaited
  <2>5. call = NoCall \/ Awaited(call.pod)
    BY DEF ContainedInv, CallOnTrack
  <2> QED BY <2>1, <2>2, <2>3, <2>4, <2>5
<1>8. Serialised'
  BY <1>2, <1>7 DEF Serialised
<1>9. Attended'
  BY <1>2, <1>6, <1>7 DEF ContainedInv, Attended
<1>10. Annotated'
  BY <1>2, <1>3, <1>7, OnceInv DEF ContainedInv, Annotated, VGPUContainers
<1>11. OnTrack'
  BY <1>2, <1>7 DEF OnTrack
<1>12. CallOnTrack'
  <2> SUFFICES ASSUME call # NoCall PROVE CallOnTrack'
    BY <1>2 DEF CallOnTrack
  <2>1. /\ call.pod # p /\ call.pod \in Pods /\ call.by \in Handlers
        /\ handler[call.by].pc \in {"idle", "reply"}
    BY <1>7
  <2>2. Awaited(call.pod)' /\ anno'[call.pod] = anno[call.pod] /\ ~Unsettled(call.pod)'
    BY <1>2, <1>3, <1>7, <2>1 DEF ContainedInv, CallOnTrack, Awaited
  <2> QED BY <1>2, <2>1, <2>2 DEF ContainedInv, CallOnTrack, VGPUContainers
<1>13. ServesNoRunning' /\ GivenIsSettled' /\ GrantIsOwn'
  BY <1>2 DEF ContainedInv, ServesNoRunning, GivenIsSettled, GrantIsOwn
<1>14. NewIsWaiting'
  BY <1>2, <1>3 DEF ContainedInv, NewIsWaiting
<1>15. ServesUnsettled'
  BY <1>2, <1>7 DEF ServesUnsettled
<1>16. RunningIsMarked'
  BY <1>2, <1>3, <1>4 DEF ContainedInv, RunningIsMarked
<1> QED BY <1>8, <1>9, <1>10, <1>11, <1>12, <1>13, <1>14, <1>15, <1>16 DEF ContainedInv

LEMMA DeleteContained ==
  ASSUME Contained, ContainedInv, OnceInv, NEW p \in Pods, Delete(p)
  PROVE  ContainedInv'
<1> USE KeptTypes
<1>1. /\ sched[p] = "bound" /\ sched' = [sched EXCEPT ![p] = "deleted"] /\ call.pod # p
      /\ "delete" \in Faults /\ UNCHANGED <<anno, lock, call, grants, handler>>
  BY DEF Delete
<1>2. /\ sched'[p] = "deleted" /\ kubelet'[p] # "waiting"
      /\ kubelet[p] # "running" => kubelet'[p] # "running"
      /\ kubelet[p] = "running" => kubelet'[p] = "running"
      /\ \A q \in Pods \ {p} : sched'[q] = sched[q] /\ kubelet'[q] = kubelet[q]
  BY DEF Delete
<1>3. /\ \A q \in Pods : Unsettled(q)' => Unsettled(q) /\ q # p
      /\ \A q \in Pods : Awaited(q)' => Awaited(q) /\ q # p
      /\ \A q \in Pods \ {p} : Unsettled(q) => Unsettled(q)'
      /\ \A q \in Pods \ {p} : Awaited(q) => Awaited(q)'
      /\ \A h \in Handlers : Active(h)' = Active(h)
  BY <1>1, <1>2 DEF Unsettled, Awaited, Active
<1>8. Serialised'
  BY <1>1, <1>3 DEF ContainedInv, Serialised
<1>9. Attended'
  BY <1>1, <1>3 DEF ContainedInv, Attended
<1>10. Annotated'
  BY <1>1, <1>2, <1>3 DEF ContainedInv, Annotated, VGPUContainers
<1>11. OnTrack'
  <2>1. \A q \in Pods : DeviceCount(q, VGPUContainers(q))' = DeviceCount(q, VGPUContainers(q))
    OBVIOUS
  <2> QED BY <1>1, <1>3, <2>1 DEF ContainedInv, OnTrack
<1>12. CallOnTrack'
  BY <1>1, <1>3 DEF ContainedInv, CallOnTrack, VGPUContainers
<1>13. ServesNoRunning'
  BY <1>1, <1>2 DEF ContainedInv, ServesNoRunning
<1>14. GivenIsSettled' /\ GrantIsOwn'
  BY <1>1, <1>2 DEF ContainedInv, GivenIsSettled, GrantIsOwn
<1>15. NewIsWaiting' /\ ServesUnsettled'
  BY <1>1, <1>2 DEF ContainedInv, NewIsWaiting, ServesUnsettled
<1>16. RunningIsMarked'
  BY <1>1, <1>2 DEF ContainedInv, RunningIsMarked
<1> QED BY <1>8, <1>9, <1>10, <1>11, <1>12, <1>13, <1>14, <1>15, <1>16 DEF ContainedInv

LEMMA CallContained ==
  ASSUME Contained, ContainedInv, OnceInv, NEW h \in Handlers, Call(h)
  PROVE  ContainedInv'
<1> USE KeptTypes
<1>1. PICK p \in Pods, c \in Containers :
        /\ Awaited(p) /\ c \in Ungranted(p)
        /\ call' = [pod |-> p, ctr |-> c, by |-> h]
        /\ handler' = [handler EXCEPT ![h] =
                         [Idle EXCEPT !.pc = "list", !.want = Request[p][c]]]
  BY Zenon DEF Call
<1>2. /\ call = NoCall /\ handler[h].pc = "idle"
      /\ UNCHANGED <<sched, anno, lock, kubelet, grants>>
  BY DEF Call
<1>3. /\ handler'[h].pc = "list" /\ handler'[h].want = Request[p][c] /\ ~handler'[h].ok
      /\ \A g \in Handlers \ {h} : handler'[g] = handler[g]
  BY <1>1 DEF Idle
<1>4. c \in VGPUContainers(p) /\ Request[p][c] = DeviceCount(p, VGPUContainers(p))
  BY <1>1, TheContainer DEF Ungranted, Contained
<1>5. call.pod # p /\ call' # NoCall /\ call'.pod = p /\ call'.by = h /\ call'.ctr = c
  BY <1>1, <1>2
<1>6. Unsettled(p) /\ (\A g \in Handlers : ~Active(g)) /\ (\A q \in Pods : Awaited(q) => Unsettled(q))
  BY <1>1, <1>2, <1>5 DEF ContainedInv, Attended
<1>7. \A q \in Pods : Unsettled(q) => q = p
  BY <1>6 DEF ContainedInv, Serialised
<1>8. /\ \A q \in Pods : Unsettled(q)' = Unsettled(q) /\ Awaited(q)' = Awaited(q)
      /\ \A g \in Handlers : Active(g)' => g = h
      /\ \A g \in Handlers \ {h} : handler'[g].pc \in {"idle", "reply"}
  BY <1>2, <1>3, <1>6 DEF Unsettled, Awaited, Active
<1>9. Active(h)'
  BY <1>3 DEF Active
<1>10. Serialised'
  BY <1>2, <1>6, <1>7, <1>8 DEF ContainedInv, Serialised
<1>11. Attended'
  BY <1>1, <1>5, <1>6, <1>7, <1>8 DEF Attended
<1>12. Annotated'
  <2>1. \A g \in Handlers : handler[g].pc \notin {"get", "success", "failed"}
    BY <1>6 DEF Active
  <2> QED BY <1>2, <1>8, <2>1 DEF ContainedInv, Annotated, VGPUContainers
<1>13. OnTrack'
  BY <1>3, <1>4, <1>7, <1>8 DEF OnTrack
<1>14. CallOnTrack'
  BY <1>1, <1>3, <1>4, <1>5, <1>6, <1>8 DEF CallOnTrack, VGPUContainers
<1>15. ServesNoRunning'
  BY <1>3, <1>8 DEF ServesNoRunning
<1>16. GivenIsSettled' /\ GrantIsOwn' /\ NewIsWaiting' /\ RunningIsMarked'
  BY <1>2 DEF ContainedInv, GivenIsSettled, GrantIsOwn, NewIsWaiting, RunningIsMarked
<1>17. ServesUnsettled'
  BY <1>3, <1>6, <1>8 DEF ServesUnsettled
<1> QED BY <1>10, <1>11, <1>12, <1>13, <1>14, <1>15, <1>16, <1>17 DEF ContainedInv

\* A handler that is active stays so, and writes nothing: what is left to show is
\* about the pod it serves then.
LEMMA ActiveMoves ==
  ASSUME ContainedInv, OnceInv, NEW h \in Handlers,
         UNCHANGED <<sched, anno, lock, kubelet, call, grants>>,
         \A g \in Handlers \ {h} : handler'[g] = handler[g],
         Active(h), handler'[h].pc \in Serving,
         handler'[h].pod \in Pods, kubelet[handler'[h].pod] # "running",
         \A p \in Pods : Unsettled(p) => handler'[h].pod = p,
         handler'[h].pc \notin {"get", "success", "failed"} =>
           \A p \in Pods : Unsettled(p) => anno[p].alloc = VGPUContainers(p),
         call.by = h => /\ Unsettled(call.pod)
                        /\ handler'[h].ok <=> handler'[h].pc = "success",
         "delete" \notin Faults => Unsettled(handler'[h].pod)
  PROVE  ContainedInv'
<1> USE KeptTypes
<1>1. /\ \A p \in Pods : Unsettled(p)' = Unsettled(p) /\ Awaited(p)' = Awaited(p)
      /\ \A g \in Handlers : Active(g)' = Active(g)
  BY DEF Unsettled, Awaited, Active
<1>2. handler'[h].pc \notin {"list", "release", "reply", "idle"}
  OBVIOUS
<1>3. Serialised' /\ Attended'
  BY <1>1 DEF ContainedInv, Serialised, Attended
<1>4. Annotated'
  BY <1>1 DEF ContainedInv, Annotated, VGPUContainers
<1>5. OnTrack'
  <2>1. \A q \in Pods : DeviceCount(q, VGPUContainers(q))' = DeviceCount(q, VGPUContainers(q))
    OBVIOUS
  <2> QED BY <1>1, <1>2, <2>1 DEF ContainedInv, OnTrack
<1>6. CallOnTrack'
  <2> SUFFICES ASSUME call # NoCall PROVE CallOnTrack'
    BY DEF CallOnTrack
  <2>1. call.by = h /\ Unsettled(call.pod)
    BY DEF ContainedInv, Attended
  <2>2. Awaited(call.pod) /\ call.ctr \in VGPUContainers(call.pod)
    BY DEF ContainedInv, CallOnTrack
  <2> QED BY <1>1, <1>2, <2>1, <2>2 DEF CallOnTrack, VGPUContainers
<1>7. ServesNoRunning'
  BY DEF ContainedInv, ServesNoRunning
<1>8. GivenIsSettled' /\ GrantIsOwn' /\ NewIsWaiting' /\ RunningIsMarked'
  BY DEF ContainedInv, GivenIsSettled, GrantIsOwn, NewIsWaiting, RunningIsMarked
<1>9. ServesUnsettled'
  BY <1>1, <1>2 DEF ContainedInv, ServesUnsettled
<1> QED BY <1>3, <1>4, <1>5, <1>6, <1>7, <1>8, <1>9 DEF ContainedInv

\* The unsettled pod is a candidate of the handler that looks for a pod, and its
\* annotation is as the scheduler wrote it.
LEMMA UnsettledIsFound ==
  ASSUME Contained, ContainedInv, OnceInv, NEW h \in Handlers, handler[h].pc = "list",
         NEW p \in Pods, Unsettled(p)
  PROVE  p \in Candidates(handler[h].want) /\ anno[p].alloc = VGPUContainers(p)
<1>1. \A g \in Handlers : handler[g].pc \notin {"get", "success", "failed"}
  BY DEF ContainedInv, Serialised, Active
<1>2. anno[p].alloc = VGPUContainers(p)
  BY <1>1 DEF ContainedInv, Annotated
<1>3. handler[h].want = DeviceCount(p, VGPUContainers(p))
  BY DEF ContainedInv, OnTrack
<1> QED BY <1>2, <1>3 DEF Candidates, Unsettled

\* It is the one that is chosen: a pod that was settled carries the largest time.
LEMMA UnsettledIsOldest ==
  ASSUME Contained, ContainedInv, OnceInv, NEW h \in Handlers, handler[h].pc = "list",
         NEW p \in Pods, Unsettled(p), NEW q, IsOldest(q, Candidates(handler[h].want))
  PROVE  q = p
<1>1. anno[q].time <= anno[p].time
  BY UnsettledIsFound DEF IsOldest
<1>2. q \in Pods /\ sched[q] = "bound"
  BY DEF IsOldest, Candidates
<1>3. anno[p].time <= MaxTime
  BY DEF ContainedInv, Annotated
<1>4. anno[p].time \in Int /\ anno[q].time \in Int
  BY <1>2, KeptTypes, ConstantsAssumption DEF AnnoState
<1>5. anno[q].time # MaxUint64
  BY <1>1, <1>3, <1>4, ConstantsAssumption
<1>6. Unsettled(q)
  BY <1>2, <1>5 DEF ContainedInv, Annotated, Unsettled
<1> QED BY <1>2, <1>6 DEF ContainedInv, Serialised

LEMMA PickContained ==
  ASSUME Contained, ContainedInv, OnceInv, NEW h \in Handlers, Pick(h)
  PROVE  ContainedInv'
<1> USE KeptTypes
<1>1. PICK p \in Pods, next \in {"erase", "failed"} :
        /\ IsOldest(p, Candidates(handler[h].want))
        /\ \E c \in anno[p].alloc : handler' = [handler EXCEPT ![h] =
             [handler[h] EXCEPT !.pc = next, !.pod = p, !.ctr = c,
                                !.snap = anno[p].alloc, !.ok = FALSE]]
  <2>1. "response" \notin Faults
    BY DEF Contained, ContainedFaults
  <2> QED BY <2>1, Zenon DEF Pick
<1>2. PICK c \in anno[p].alloc : handler' = [handler EXCEPT ![h] =
             [handler[h] EXCEPT !.pc = next, !.pod = p, !.ctr = c,
                                !.snap = anno[p].alloc, !.ok = FALSE]]
  BY <1>1, Zenon
<1>3. handler[h].pc = "list" /\ UNCHANGED <<sched, anno, lock, kubelet, call, grants>>
  BY DEF Pick
<1>4. /\ handler'[h].pc = next /\ handler'[h].pod = p /\ handler'[h].ok = FALSE
      /\ \A g \in Handlers \ {h} : handler'[g] = handler[g]
  <2>1. handler[h] \in HandlerState
    BY Zenon
  <2> DEFINE s == [handler[h] EXCEPT !.pc = next, !.pod = p, !.ctr = c,
                                     !.snap = anno[p].alloc, !.ok = FALSE]
  <2>2. s.pc = next /\ s.pod = p /\ s.ok = FALSE
    BY <2>1 DEF HandlerState
  <2>3. handler' = [handler EXCEPT ![h] = s]
    BY <1>2, Zenon
  <2> HIDE DEF s
  <2> QED BY <2>2, <2>3
<1>5. Active(h)
  BY <1>3 DEF Active
<1>6. \A q \in Pods : Unsettled(q) => p = q /\ anno[q].alloc = VGPUContainers(q)
  BY <1>1, <1>3, UnsettledIsFound, UnsettledIsOldest
<1>7. kubelet[p] # "running"
  BY <1>2 DEF ContainedInv, RunningIsMarked
<1>8. call.by = h => Unsettled(call.pod)
  BY <1>3 DEF ContainedInv, CallOnTrack
<1>9. "delete" \notin Faults => Unsettled(p)
  BY <1>3, <1>6 DEF ContainedInv, ServesUnsettled
<1> QED BY <1>3, <1>4, <1>5, <1>6, <1>7, <1>8, <1>9, ActiveMoves

LEMMA EraseFailsContained ==
  ASSUME Contained, ContainedInv, OnceInv, NEW h \in Handlers, EraseFails(h)
  PROVE  ContainedInv'
<1> USE KeptTypes
<1>1. /\ handler[h].pc = "erase" /\ handler' = [handler EXCEPT ![h].pc = "failed"]
      /\ UNCHANGED <<sched, anno, lock, kubelet, call, grants>>
  BY DEF EraseFails, AfterEraseError
<1>2. /\ handler'[h].pc = "failed" /\ handler'[h].pod = handler[h].pod
      /\ handler'[h].ok = handler[h].ok
      /\ \A g \in Handlers \ {h} : handler'[g] = handler[g]
  BY <1>1 DEF HandlerState
<1>3. /\ Active(h) /\ kubelet[handler[h].pod] # "running"
      /\ \A p \in Pods : Unsettled(p) => handler[h].pod = p
      /\ "delete" \notin Faults => Unsettled(handler[h].pod)
  BY <1>1 DEF ContainedInv, Active, ServesNoRunning, OnTrack, ServesUnsettled
<1>4. call.by = h => Unsettled(call.pod) /\ ~handler[h].ok
  BY <1>1 DEF ContainedInv, CallOnTrack
<1> QED BY <1>1, <1>2, <1>3, <1>4, ActiveMoves

LEMMA GetRefreshedContained ==
  ASSUME Contained, ContainedInv, OnceInv, NEW h \in Handlers, GetRefreshed(h)
  PROVE  ContainedInv'
<1> USE KeptTypes
<1>1. handler[h].pc = "get" /\ UNCHANGED <<sched, anno, lock, kubelet, call, grants>>
  BY DEF GetRefreshed
<1>2. anno[handler[h].pod].alloc = {}
  BY <1>1 DEF OnceInv, ClaimErased
<1>3. handler' = [handler EXCEPT ![h].ok = TRUE, ![h].pc = "success"]
  BY <1>2 DEF GetRefreshed, AfterRefresh
<1>4. /\ handler'[h].pc = "success" /\ handler'[h].pod = handler[h].pod /\ handler'[h].ok
      /\ \A g \in Handlers \ {h} : handler'[g] = handler[g]
  BY <1>3 DEF HandlerState
<1>5. /\ Active(h) /\ kubelet[handler[h].pod] # "running"
      /\ \A p \in Pods : Unsettled(p) => handler[h].pod = p
      /\ "delete" \notin Faults => Unsettled(handler[h].pod)
  BY <1>1 DEF ContainedInv, Active, ServesNoRunning, OnTrack, ServesUnsettled
<1>6. call.by = h => Unsettled(call.pod)
  BY <1>1 DEF ContainedInv, CallOnTrack
<1> QED BY <1>1, <1>4, <1>5, <1>6, ActiveMoves

LEMMA EraseNextContained ==
  ASSUME Contained, ContainedInv, OnceInv, NEW h \in Handlers, EraseNext(h)
  PROVE  ContainedInv'
<1> USE KeptTypes
<1>1. PICK next \in {"get", "failed"} :
        handler' = [handler EXCEPT ![h] = [handler[h] EXCEPT !.pc = next]]
  BY DEF EraseNext, AfterEraseError
<1>2. /\ handler[h].pc = "erase" /\ UNCHANGED <<sched, lock, kubelet, call, grants>>
      /\ anno' = [anno EXCEPT ![handler[h].pod].alloc = Erased(h)]
  BY DEF EraseNext
<1>3. /\ handler'[h].pc = next /\ handler'[h].pod = handler[h].pod
      /\ handler'[h].ok = handler[h].ok
      /\ \A g \in Handlers \ {h} : handler'[g] = handler[g]
  BY <1>1 DEF HandlerState
<1>4. handler[h].pod \in Pods
  BY <1>2
<1>5. Erased(h) = {}
  <2>1. /\ handler[h].ctr \in VGPUContainers(handler[h].pod)
        /\ handler[h].snap \subseteq VGPUContainers(handler[h].pod)
    BY <1>2 DEF OnceInv, ClaimOK, Claims
  <2> QED BY <1>4, <2>1, TheContainer DEF Erased, Contained
<1>6. \A p \in Pods : /\ anno'[p].phase = anno[p].phase /\ anno'[p].time = anno[p].time
                      /\ anno'[p].alloc = anno[p].alloc \/ anno'[p].alloc = {}
  BY <1>2, <1>4, <1>5 DEF AnnoState
<1>7. /\ \A p \in Pods : Unsettled(p)' = Unsettled(p) /\ Awaited(p)' = Awaited(p)
      /\ \A g \in Handlers : Active(g)' = Active(g)
  BY <1>2, <1>3, <1>6 DEF Unsettled, Awaited, Active
<1>8. Serialised' /\ Attended'
  BY <1>2, <1>7 DEF ContainedInv, Serialised, Attended
<1>9. Annotated'
  BY <1>2, <1>3, <1>6, <1>7 DEF ContainedInv, Annotated, VGPUContainers
<1>10. OnTrack'
  <2>1. \A q \in Pods : DeviceCount(q, VGPUContainers(q))' = DeviceCount(q, VGPUContainers(q))
    OBVIOUS
  <2> QED BY <1>2, <1>3, <1>7, <2>1 DEF ContainedInv, OnTrack
<1>11. CallOnTrack'
  <2> SUFFICES ASSUME call # NoCall PROVE CallOnTrack'
    BY <1>2 DEF CallOnTrack
  <2>1. call.by = h
    BY <1>2 DEF ContainedInv, Attended, Active
  <2>2. /\ Awaited(call.pod) /\ call.ctr \in VGPUContainers(call.pod)
        /\ Unsettled(call.pod) /\ ~handler[h].ok
    BY <1>2, <2>1 DEF ContainedInv, CallOnTrack
  <2> QED BY <1>2, <1>3, <1>7, <2>1, <2>2 DEF CallOnTrack, VGPUContainers
<1>12. ServesNoRunning'
  BY <1>2, <1>3 DEF ContainedInv, ServesNoRunning
<1>13. GivenIsSettled' /\ GrantIsOwn' /\ NewIsWaiting'
  BY <1>2 DEF ContainedInv, GivenIsSettled, GrantIsOwn, NewIsWaiting
<1>14. RunningIsMarked'
  BY <1>2, <1>6 DEF ContainedInv, RunningIsMarked
<1>15. ServesUnsettled'
  BY <1>2, <1>3, <1>7 DEF ContainedInv, ServesUnsettled
<1> QED BY <1>8, <1>9, <1>10, <1>11, <1>12, <1>13, <1>14, <1>15 DEF ContainedInv

LEMMA NoPodContained ==
  ASSUME Contained, ContainedInv, OnceInv, NEW h \in Handlers, NoPod(h)
  PROVE  ContainedInv'
<1> USE KeptTypes
<1>1. /\ handler[h].pc = "list"
      /\ handler' = [handler EXCEPT ![h].pc = "release", ![h].ok = FALSE]
      /\ UNCHANGED <<sched, anno, lock, kubelet, call, grants>>
  BY DEF NoPod
<1>2. Candidates(handler[h].want) = {}
  BY DEF NoPod, Contained, ContainedFaults
<1>3. \A p \in Pods : ~Unsettled(p)
  BY <1>1, <1>2, UnsettledIsFound
<1>4. call = NoCall
  <2> SUFFICES ASSUME call # NoCall PROVE FALSE
    OBVIOUS
  <2>1. call.by = h
    BY <1>1 DEF ContainedInv, Attended, Active
  <2>2. Unsettled(call.pod)
    BY <1>1, <2>1 DEF ContainedInv, CallOnTrack
  <2> QED BY <1>3, <2>2
<1>5. /\ handler'[h].pc = "release"
      /\ \A g \in Handlers \ {h} : handler'[g] = handler[g]
  BY <1>1 DEF HandlerState
<1>6. /\ \A p \in Pods : ~Unsettled(p)' /\ Awaited(p)' = Awaited(p)
      /\ \A g \in Handlers : Active(g)' = Active(g)
  BY <1>1, <1>3, <1>5 DEF Unsettled, Awaited, Active
<1>7. Serialised' /\ Attended'
  BY <1>1, <1>3, <1>6 DEF ContainedInv, Serialised, Attended
<1>8. Annotated' /\ OnTrack' /\ CallOnTrack'
  BY <1>1, <1>4, <1>6 DEF ContainedInv, Annotated, OnTrack, CallOnTrack
<1>9. ServesNoRunning'
  BY <1>1, <1>5 DEF ContainedInv, ServesNoRunning
<1>10. GivenIsSettled' /\ GrantIsOwn' /\ NewIsWaiting' /\ RunningIsMarked'
  BY <1>1 DEF ContainedInv, GivenIsSettled, GrantIsOwn, NewIsWaiting, RunningIsMarked
<1>11. ServesUnsettled'
  BY <1>1, <1>3 DEF ContainedInv, ServesUnsettled
<1> QED BY <1>7, <1>8, <1>9, <1>10, <1>11 DEF ContainedInv

LEMMA PatchPhaseContained ==
  ASSUME Contained, ContainedInv, OnceInv, NEW h \in Handlers, PatchPhase(h)
  PROVE  ContainedInv'
<1> USE KeptTypes
<1> DEFINE p == handler[h].pod
<1>1. /\ handler[h].pc \in {"success", "failed"} /\ handler' = [handler EXCEPT ![h].pc = "release"]
      /\ UNCHANGED <<sched, lock, kubelet, call, grants>>
  BY DEF PatchPhase
<1>2. \/ sched[p] = "bound" /\ anno' = [anno EXCEPT ![p] = Settled(anno[p], handler[h].pc)]
      \/ sched[p] = "deleted" /\ anno' = anno
  BY DEF PatchPhase, Contained, ContainedFaults
<1>3. p \in Pods
  BY <1>1
<1>4. \A q \in Pods : q # p => anno'[q] = anno[q]
  BY <1>2, <1>3
<1>5. sched[p] = "bound" => /\ anno'[p].phase = handler[h].pc /\ anno'[p].time = MaxUint64
                            /\ anno'[p].alloc = anno[p].alloc
  <2>1. ASSUME NEW a \in AnnoState, NEW phase
        PROVE  /\ Settled(a, phase).phase = phase /\ Settled(a, phase).time = MaxUint64
               /\ Settled(a, phase).alloc = a.alloc
    BY DEF Settled, AnnoState
  <2>2. anno[p] \in AnnoState
    BY <1>3
  <2>3. sched[p] = "bound" => anno'[p] = Settled(anno[p], handler[h].pc)
    BY <1>2, <1>3
  <2> QED BY <2>1, <2>2, <2>3
<1>6. /\ handler'[h].pc = "release" /\ handler'[h].pod = p /\ handler'[h].ok = handler[h].ok
      /\ \A g \in Handlers \ {h} : handler'[g] = handler[g]
  BY <1>1 DEF HandlerState
<1> HIDE DEF p
<1>7. \A q \in Pods : Unsettled(q) => q = p
  BY <1>1 DEF ContainedInv, OnTrack, p
<1>8. \A q \in Pods : ~Unsettled(q)'
  <2> SUFFICES ASSUME NEW q \in Pods, Unsettled(q)' PROVE FALSE
    OBVIOUS
  <2>1. CASE q = p
    BY <1>1, <1>5, <2>1 DEF Unsettled
  <2>2. CASE q # p
    BY <1>1, <1>4, <1>7, <2>2 DEF Unsettled
  <2> QED BY <2>1, <2>2
<1>9. /\ \A q \in Pods : Awaited(q)' = Awaited(q)
      /\ \A g \in Handlers : Active(g)' = Active(g)
      /\ Active(h)
  BY <1>1, <1>6 DEF Awaited, Active
<1>10. call # NoCall => /\ call.by = h /\ Unsettled(call.pod) /\ call.pod = p
                        /\ Awaited(call.pod) /\ call.ctr \in VGPUContainers(call.pod)
                        /\ handler[h].pc = "success" <=> handler[h].ok
  <2> SUFFICES ASSUME call # NoCall
               PROVE  /\ call.by = h /\ Unsettled(call.pod) /\ call.pod = p
                      /\ Awaited(call.pod) /\ call.ctr \in VGPUContainers(call.pod)
                      /\ handler[h].pc = "success" <=> handler[h].ok
    OBVIOUS
  <2>1. call.by = h
    BY <1>9 DEF ContainedInv, Attended
  <2>2. /\ Awaited(call.pod) /\ call.ctr \in VGPUContainers(call.pod)
        /\ Unsettled(call.pod)
        /\ handler[h].pc = "success" <=> handler[h].ok
    BY <1>1, <2>1 DEF ContainedInv, CallOnTrack
  <2> QED BY <1>7, <2>1, <2>2
<1>11. Serialised'
  BY <1>1, <1>8, <1>9 DEF ContainedInv, Serialised
<1>12. Attended'
  <2>1. \A q \in Pods : Awaited(q) => call.pod = q
    BY <1>9 DEF ContainedInv, Attended
  <2> QED BY <1>1, <1>8, <1>9, <2>1 DEF ContainedInv, Attended
<1>13. Annotated'
  <2>1. \A q \in Pods : sched[q] = "new" => q # p
    BY <1>2
  <2>2. \A q \in Pods : sched[q] = "bound" => anno'[q].time = MaxUint64
    BY <1>4, <1>5, <1>7 DEF ContainedInv, Annotated, Unsettled
  <2> QED BY <1>1, <1>4, <1>8, <2>1, <2>2 DEF ContainedInv, Annotated
<1>14. OnTrack'
  BY <1>8 DEF OnTrack
<1>15. CallOnTrack'
  BY <1>1, <1>5, <1>6, <1>8, <1>9, <1>10 DEF CallOnTrack, VGPUContainers, Unsettled
<1>16. ServesNoRunning' /\ ServesUnsettled'
  <2>1. \A g \in Handlers : handler'[g].pc \notin Serving \cup {"list"}
    BY <1>6, <1>9 DEF ContainedInv, Serialised, Active
  <2> QED BY <2>1 DEF ServesNoRunning, ServesUnsettled
<1>17. GivenIsSettled' /\ GrantIsOwn' /\ NewIsWaiting'
  BY <1>1 DEF ContainedInv, GivenIsSettled, GrantIsOwn, NewIsWaiting
<1>18. RunningIsMarked'
  <2>1. kubelet[p] # "running"
    BY <1>1 DEF ContainedInv, ServesNoRunning, p
  <2> QED BY <1>1, <1>4, <2>1 DEF ContainedInv, RunningIsMarked
<1> QED BY <1>11, <1>12, <1>13, <1>14, <1>15, <1>16, <1>17, <1>18 DEF ContainedInv

LEMMA ReleaseContained ==
  ASSUME Contained, ContainedInv, OnceInv, NEW h \in Handlers, Release(h)
  PROVE  ContainedInv'
<1> USE KeptTypes
<1>1. /\ handler[h].pc = "release" /\ handler' = [handler EXCEPT ![h].pc = "reply"]
      /\ UNCHANGED <<sched, anno, kubelet, call, grants>>
  BY DEF Release
<1>2. /\ handler'[h].pc = "reply" /\ handler'[h].pod = handler[h].pod
      /\ handler'[h].ok = handler[h].ok
      /\ \A g \in Handlers \ {h} : handler'[g] = handler[g]
  BY <1>1 DEF HandlerState
<1>3. \A p \in Pods : ~Unsettled(p) /\ ~Unsettled(p)' /\ Awaited(p)' = Awaited(p)
  BY <1>1 DEF ContainedInv, OnTrack, Unsettled, Awaited
<1>4. \A g \in Handlers : ~Active(g)'
  BY <1>1, <1>2 DEF ContainedInv, Serialised, Active
<1>5. Serialised'
  BY <1>3, <1>4 DEF Serialised
<1>6. Attended'
  BY <1>1, <1>3, <1>4 DEF ContainedInv, Attended
<1>7. Annotated' /\ OnTrack'
  BY <1>1, <1>3 DEF ContainedInv, Annotated, OnTrack
<1>8. CallOnTrack'
  <2> SUFFICES ASSUME call # NoCall PROVE CallOnTrack'
    BY <1>1 DEF CallOnTrack
  <2>1. call.by = h
    BY <1>1 DEF ContainedInv, Attended, Active
  <2> QED BY <1>1, <1>2, <1>3, <2>1 DEF ContainedInv, CallOnTrack, VGPUContainers
<1>9. ServesNoRunning' /\ ServesUnsettled'
  BY <1>4 DEF ServesNoRunning, ServesUnsettled, Active
<1>10. GivenIsSettled' /\ GrantIsOwn' /\ NewIsWaiting' /\ RunningIsMarked'
  BY <1>1 DEF ContainedInv, GivenIsSettled, GrantIsOwn, NewIsWaiting, RunningIsMarked
<1> QED BY <1>5, <1>6, <1>7, <1>8, <1>9, <1>10 DEF ContainedInv

\* What the answer of a handler is when the kubelet listens to it.
LEMMA ReplyIsOwn ==
  ASSUME Contained, ContainedInv, OnceInv, NEW h \in Handlers,
         handler[h].pc = "reply", call.by = h
  PROVE  /\ Awaited(call.pod) /\ call.pod \in Pods /\ call.ctr \in VGPUContainers(call.pod)
         /\ handler[h].ok => /\ handler[h].pod = call.pod /\ handler[h].ctr = call.ctr
                             /\ anno[call.pod].alloc = {} /\ anno[call.pod].phase = "success"
                             /\ anno[call.pod].time = MaxUint64
                             /\ Ungranted(call.pod) \subseteq {call.ctr}
<1> USE KeptTypes
<1>1. call # NoCall
  OBVIOUS
<1>2. /\ Awaited(call.pod) /\ call.pod \in Pods /\ call.ctr \in VGPUContainers(call.pod)
      /\ handler[h].ok => /\ handler[h].pod = call.pod
                          /\ anno[call.pod].phase = "success" /\ anno[call.pod].time = MaxUint64
  BY <1>1 DEF ContainedInv, CallOnTrack
<1>3. handler[h].ok => /\ handler[h].ctr \in VGPUContainers(handler[h].pod)
                       /\ anno[handler[h].pod].alloc = {}
  BY DEF OnceInv, ClaimOK, Claims, ClaimErased
<1>4. Ungranted(call.pod) \subseteq {call.ctr}
  BY <1>2, TheContainer DEF Contained, Ungranted
<1> QED BY <1>2, <1>3, <1>4, TheContainer DEF Contained

LEMMA ReplyContained ==
  ASSUME Contained, ContainedInv, OnceInv, NEW h \in Handlers, Reply(h)
  PROVE  ContainedInv'
<1> USE KeptTypes
<1>1. /\ handler[h].pc = "reply" /\ handler' = [handler EXCEPT ![h] = Idle]
      /\ UNCHANGED <<sched, anno, lock>>
  BY DEF Reply
<1>2. /\ handler'[h].pc = "idle"
      /\ \A g \in Handlers \ {h} : handler'[g] = handler[g]
  BY <1>1 DEF Idle
<1>3. /\ \A p \in Pods : Unsettled(p)' = Unsettled(p)
      /\ \A g \in Handlers : Active(g)' = Active(g)
      /\ ~Active(h)
  BY <1>1, <1>2 DEF Unsettled, Active
<1>4. Serialised'
  BY <1>1, <1>3 DEF ContainedInv, Serialised
<1>5. Annotated'
  BY <1>1, <1>2, <1>3 DEF ContainedInv, Annotated, VGPUContainers
<1>6. OnTrack'
  <2>1. \A q \in Pods : DeviceCount(q, VGPUContainers(q))' = DeviceCount(q, VGPUContainers(q))
    OBVIOUS
  <2> QED BY <1>2, <1>3, <2>1 DEF ContainedInv, OnTrack
<1>7. ServesUnsettled'
  BY <1>2, <1>3 DEF ContainedInv, ServesUnsettled
<1>8. CASE call.by # h
  <2>1. UNCHANGED <<kubelet, call, grants>>
    BY <1>8 DEF Reply
  <2>2. Attended'
    BY <1>1, <1>3, <2>1 DEF ContainedInv, Attended, Awaited
  <2>3. CallOnTrack'
    BY <1>1, <1>2, <1>3, <1>8, <2>1 DEF ContainedInv, CallOnTrack, VGPUContainers, Awaited
  <2>4. ServesNoRunning'
    BY <1>2, <2>1 DEF ContainedInv, ServesNoRunning
  <2>5. GivenIsSettled' /\ GrantIsOwn' /\ NewIsWaiting' /\ RunningIsMarked'
    BY <1>1, <2>1 DEF ContainedInv, GivenIsSettled, GrantIsOwn, NewIsWaiting, RunningIsMarked
  <2> QED BY <1>4, <1>5, <1>6, <1>7, <2>2, <2>3, <2>4, <2>5 DEF ContainedInv
<1>9. CASE call.by = h
  <2>1. /\ Awaited(call.pod) /\ call.pod \in Pods /\ call # NoCall
        /\ ~Unsettled(call.pod)
    BY <1>1, <1>9, ReplyIsOwn DEF ContainedInv, CallOnTrack
  <2>2. \A g \in Handlers : ~Active(g)
    BY <1>3, <1>9, <2>1 DEF ContainedInv, Attended
  <2>3. call' = NoCall /\ \A p \in Pods \ {call.pod} : kubelet'[p] = kubelet[p]
    BY <1>9 DEF Reply
  <2>4. kubelet'[call.pod] \in {"running", "rejected"}
    <3>1. handler[h].ok => Ungranted(call.pod) \subseteq {call.ctr}
      BY <1>1, <1>9, ReplyIsOwn
    <3> QED BY <1>9, <2>1, <3>1 DEF Reply
  <2>5. \A p \in Pods : Awaited(p)' => Awaited(p) /\ p # call.pod
    BY <1>1, <2>3, <2>4 DEF Awaited
  <2>6. \A p \in Pods : Unsettled(p) => Awaited(p)'
    BY <1>1, <2>1, <2>2, <2>3 DEF ContainedInv, Attended, Awaited
  <2>7. Attended'
    BY <1>3, <2>2, <2>3, <2>5, <2>6 DEF ContainedInv, Attended
  <2>8. CallOnTrack'
    BY <2>3 DEF CallOnTrack, NoCall
  <2>9. ServesNoRunning'
    BY <1>3, <2>2 DEF ServesNoRunning, Active
  <2>10. NewIsWaiting'
    BY <1>1, <2>1, <2>3 DEF ContainedInv, NewIsWaiting, Awaited
  <2>11. RunningIsMarked'
    <3>1. kubelet'[call.pod] = "running" => handler[h].ok
      BY <1>9, <2>1 DEF Reply
    <3>2. kubelet'[call.pod] = "running" =>
            /\ anno[call.pod].alloc = {} /\ anno[call.pod].phase = "success"
            /\ anno[call.pod].time = MaxUint64
      BY <1>1, <1>9, <3>1, ReplyIsOwn
    <3> QED BY <1>1, <2>3, <3>2 DEF ContainedInv, RunningIsMarked
  <2>12. GivenIsSettled'
    <3>1. \A g \in grants' : g \in grants \/ g.pod = call.pod
      BY <1>9 DEF Reply
    <3> QED BY <2>3, <2>4, <3>1 DEF ContainedInv, GivenIsSettled
  <2>13. GrantIsOwn'
    <3>1. \A g \in grants' : g \in grants \/
            /\ handler[h].ok /\ g.pod = call.pod /\ g.ctr = call.ctr
            /\ g.from = handler[h].pod /\ g.fromCtr = handler[h].ctr
      BY <1>9 DEF Reply
    <3> QED BY <1>1, <1>9, <3>1, ReplyIsOwn DEF ContainedInv, GrantIsOwn
  <2> QED BY <1>4, <1>5, <1>6, <1>7, <2>7, <2>8, <2>9, <2>10, <2>11, <2>12, <2>13 DEF ContainedInv
<1> QED BY <1>8, <1>9

LEMMA RestartContained ==
  ASSUME Contained, ContainedInv, OnceInv, Restart
  PROVE  ContainedInv'
<1> USE KeptTypes
<1>1. /\ call # NoCall /\ call' = NoCall /\ kubelet' = [kubelet EXCEPT ![call.pod] = "rejected"]
      /\ UNCHANGED <<sched, anno, lock, grants, handler>>
  BY DEF Restart
<1>2. /\ call.pod \in Pods /\ kubelet'[call.pod] = "rejected"
      /\ \A p \in Pods \ {call.pod} : kubelet'[p] = kubelet[p]
  BY <1>1
<1>3. /\ \A p \in Pods : Unsettled(p)' = Unsettled(p)
      /\ \A p \in Pods : Awaited(p)' = (Awaited(p) /\ p # call.pod)
      /\ \A g \in Handlers : Active(g)' = Active(g)
  BY <1>1, <1>2 DEF Unsettled, Awaited, Active
<1>4. /\ call.by \in Handlers /\ handler[call.by].pc # "idle" /\ Awaited(call.pod)
      /\ handler[call.by].pc = "reply" => ~Unsettled(call.pod)
  BY <1>1 DEF ContainedInv, CallOnTrack
<1>5. Unsettled(call.pod) => Active(call.by)
  BY <1>4 DEF Active
<1>6. Serialised'
  BY <1>1, <1>3 DEF ContainedInv, Serialised
<1>7. Attended'
  <2>1. \A p \in Pods : Unsettled(p) => Awaited(p)' \/ \E h \in Handlers : Active(h)
    BY <1>3, <1>4, <1>5 DEF ContainedInv, Attended
  <2>2. \A p \in Pods : Awaited(p)' => Unsettled(p)
    BY <1>3 DEF ContainedInv, Attended
  <2>3. \A p \in Pods, h \in Handlers : ~(Awaited(p)' /\ Active(h))
    BY <1>3 DEF ContainedInv, Attended
  <2> QED BY <1>1, <1>3, <2>1, <2>2, <2>3 DEF Attended, NoCall
<1>8. Annotated'
  BY <1>1, <1>3 DEF ContainedInv, Annotated, VGPUContainers
<1>9. OnTrack'
  <2>1. \A q \in Pods : DeviceCount(q, VGPUContainers(q))' = DeviceCount(q, VGPUContainers(q))
    OBVIOUS
  <2> QED BY <1>1, <1>3, <2>1 DEF ContainedInv, OnTrack
<1>10. CallOnTrack'
  BY <1>1 DEF CallOnTrack, NoCall
<1>11. ServesNoRunning'
  BY <1>1, <1>2 DEF ContainedInv, ServesNoRunning
<1>12. NewIsWaiting'
  BY <1>1, <1>2, <1>4 DEF ContainedInv, NewIsWaiting, Awaited
<1>13. ServesUnsettled' /\ GrantIsOwn'
  BY <1>1, <1>3 DEF ContainedInv, ServesUnsettled, GrantIsOwn
<1>14. GivenIsSettled' /\ RunningIsMarked'
  BY <1>1, <1>2 DEF ContainedInv, GivenIsSettled, RunningIsMarked
<1> QED BY <1>6, <1>7, <1>8, <1>9, <1>10, <1>11, <1>12, <1>13, <1>14 DEF ContainedInv

LEMMA UnchangedContained ==
  ASSUME Contained, ContainedInv, OnceInv, UNCHANGED vars
  PROVE  ContainedInv'
<1>1. UNCHANGED <<sched, anno, lock, kubelet, call, grants, handler>>
  BY DEF vars
<1>2. \A p \in Pods : Unsettled(p)' = Unsettled(p) /\ Awaited(p)' = Awaited(p)
                      /\ DeviceCount(p, VGPUContainers(p))' = DeviceCount(p, VGPUContainers(p))
  BY <1>1 DEF Unsettled, Awaited
<1>3. \A h \in Handlers : Active(h)' = Active(h)
  BY <1>1 DEF Active
<1>4. Serialised' /\ Attended'
  BY <1>1, <1>2, <1>3 DEF ContainedInv, Serialised, Attended
<1>5. Annotated' /\ OnTrack'
  BY <1>1, <1>2 DEF ContainedInv, Annotated, OnTrack, VGPUContainers
<1>6. CallOnTrack'
  BY <1>1, KeptTypes DEF ContainedInv, CallOnTrack, VGPUContainers, Unsettled, Awaited
<1>7. ServesNoRunning' /\ NewIsWaiting' /\ GivenIsSettled' /\ GrantIsOwn' /\ RunningIsMarked'
  BY <1>1 DEF ContainedInv, ServesNoRunning, NewIsWaiting, GivenIsSettled, GrantIsOwn,
              RunningIsMarked
<1>8. ServesUnsettled'
  BY <1>1 DEF ContainedInv, ServesUnsettled, Unsettled
<1> QED BY <1>4, <1>5, <1>6, <1>7, <1>8 DEF ContainedInv

LEMMA ContainedInvNext ==
  ASSUME Contained, ContainedInv, OnceInv, [Next]_vars
  PROVE  ContainedInv'
<1>1. ASSUME NEW p \in Pods, Schedule(p) \/ Delete(p) PROVE ContainedInv'
  BY <1>1, ScheduleContained, DeleteContained
<1>2. ASSUME NEW h \in Handlers, Call(h) \/ HandlerStep(h) PROVE ContainedInv'
  BY <1>2, CallContained, NoPodContained, PickContained, EraseNextContained,
     EraseFailsContained, GetRefreshedContained, PatchPhaseContained, ReleaseContained,
     ReplyContained DEF HandlerStep
<1>3. ~Crash
  BY DEF Crash, Contained, ContainedFaults
<1> QED BY <1>1, <1>2, <1>3, RestartContained, UnchangedContained DEF Next, Finished

\* Both invariants together, always.
LEMMA ContainedAlways ==
  ASSUME Contained
  PROVE  Spec => [](OnceInv /\ ContainedInv)
<1>1. OnceInv /\ ContainedInv /\ [Next]_vars => (OnceInv /\ ContainedInv)'
  BY OnceInvNext, ContainedInvNext DEF Contained
<1> QED BY <1>1, OnceInvInit, ContainedInvInit, PTL DEF Spec

-----------------------------------------------------------------------------
(* The theorems.                                                             *)

\* With one vGPU container per pod and the contained faults, the pod that Allocate
\* finds by counting devices is the pod the kubelet means: a container is handed
\* the devices the scheduler chose for it.
THEOREM GrantsAreOwn == ASSUME Contained PROVE Spec => []GrantIsOwn
<1>1. ContainedInv => GrantIsOwn
  BY DEF ContainedInv
<1> QED BY <1>1, ContainedAlways, PTL

\* ... the node lock is held as long as a pod is pending, so at most one is ...
THEOREM PendingIsLocked == ASSUME Contained PROVE Spec => []LockCoversPending
<1>1. ContainedInv => LockCoversPending
  BY DEF ContainedInv, Serialised, LockCoversPending, Pending, Unsettled, Awaited
<1> QED BY <1>1, ContainedAlways, PTL

\* ... and a pod runs only after its annotations said that it was served.
THEOREM RunningWasMarked == ASSUME Contained PROVE Spec => []RunningIsMarked
<1>1. ContainedInv => RunningIsMarked
  BY DEF ContainedInv
<1> QED BY <1>1, ContainedAlways, PTL

\* The phase of a pod changes when the scheduler assigns it and when the handler
\* that serves it settles it.
LEMMA SettledStep ==
  ASSUME Contained, "delete" \notin Faults, OnceInv, ContainedInv, [Next]_vars,
         NEW p \in Pods, anno[p].phase \in {"success", "failed"}
  PROVE  anno'[p].phase = anno[p].phase
<1> USE KeptTypes
<1>1. ASSUME NEW q \in Pods, Schedule(q) PROVE anno'[p].phase = anno[p].phase
  <2>1. anno[q].phase = "none"
    BY <1>1 DEF Schedule, ContainedInv, Annotated
  <2>2. \A r \in Pods \ {q} : anno'[r] = anno[r]
    BY <1>1 DEF Schedule
  <2> QED BY <2>1, <2>2
<1>2. ASSUME NEW h \in Handlers, EraseNext(h) PROVE anno'[p].phase = anno[p].phase
  <2>1. anno' = [anno EXCEPT ![handler[h].pod].alloc = Erased(h)]
    BY <1>2 DEF EraseNext
  <2> QED BY <2>1 DEF AnnoState
<1>3. ASSUME NEW h \in Handlers, PatchPhase(h) PROVE anno'[p].phase = anno[p].phase
  <2>1. handler[h].pc \in Serving
    BY <1>3 DEF PatchPhase
  <2>2. handler[h].pod # p
    BY <2>1 DEF ContainedInv, ServesUnsettled, Unsettled
  <2>3. \/ anno' = anno
        \/ anno' = [anno EXCEPT ![handler[h].pod] = Settled(anno[handler[h].pod], handler[h].pc)]
    BY <1>3 DEF PatchPhase
  <2> QED BY <2>2, <2>3
<1>4. ASSUME NEW h \in Handlers,
             \/ Call(h) \/ NoPod(h) \/ Pick(h) \/ EraseFails(h)
             \/ GetRefreshed(h) \/ Release(h) \/ Reply(h)
      PROVE  anno' = anno
  BY <1>4, Zenon DEF Call, NoPod, Pick, EraseFails, GetRefreshed, Release, Reply
<1>5. ASSUME \/ \E q \in Pods : Delete(q)
             \/ Restart \/ Crash \/ UNCHANGED vars
      PROVE  anno' = anno
  BY <1>5, Zenon DEF Delete, Restart, Crash, vars
<1> QED
  <2>1. CASE \E q \in Pods : Schedule(q) \/ Delete(q)
    BY <2>1, <1>1, <1>5
  <2>2. CASE \E h \in Handlers : Call(h) \/ HandlerStep(h)
    BY <2>2, <1>2, <1>3, <1>4 DEF HandlerStep
  <2>3. CASE Restart \/ Crash \/ UNCHANGED vars
    BY <2>3, <1>5
  <2> QED BY <2>1, <2>2, <2>3 DEF Next, Finished

\* A settled bind phase is final as long as no pod object is deleted: with a
\* deletion, a handler that runs on may find a pod that failed before.
THEOREM SettledForGood ==
  ASSUME Contained, "delete" \notin Faults
  PROVE  Spec => SettledIsFinal
<1>1. OnceInv /\ ContainedInv /\ [Next]_vars =>
        [\A p \in Pods : anno[p].phase \in {"success", "failed"} =>
           anno'[p].phase = anno[p].phase]_vars
  BY SettledStep
<1> QED BY <1>1, ContainedAlways, PTL DEF Spec, SettledIsFinal

-----------------------------------------------------------------------------
(* The refinement of DeviceHandoff.                                          *)

LEMMA HandoffInit == Init => Handoff!Init
<1> SUFFICES ASSUME Init PROVE Handoff!Init
  OBVIOUS
<1>1. \A p \in Pods : Status[p] = "new"
  BY DEF Init, Status
<1>2. Status = [p \in Pods |-> "new"]
  BY <1>1 DEF Status
<1> QED BY <1>2 DEF Init, Handoff!Init

\* A step that changes neither what the scheduler nor what the kubelet sees.
LEMMA HandoffStutter ==
  ASSUME UNCHANGED <<sched, kubelet, grants>>
  PROVE  UNCHANGED Handoff!vars
BY DEF Handoff!vars, Status

\* Changing the state of one pod changes its status alone.
LEMMA StatusOf ==
  ASSUME NEW p \in Pods, \A q \in Pods \ {p} : sched'[q] = sched[q] /\ kubelet'[q] = kubelet[q],
         NEW s, Status'[p] = s
  PROVE  Status' = [Status EXCEPT ![p] = s]
<1>1. \A q \in Pods \ {p} : Status'[q] = Status[q]
  BY DEF Status
<1>2. Status = [q \in Pods |-> Status[q]] /\ Status' = [q \in Pods |-> Status'[q]]
  BY DEF Status
<1> QED BY <1>1, <1>2

LEMMA HandoffNext ==
  ASSUME Contained, OnceInv, ContainedInv, [Next]_vars
  PROVE  [Handoff!Next]_(Handoff!vars)
<1> USE KeptTypes
<1>1. ASSUME NEW p \in Pods, Schedule(p) PROVE Handoff!Next
  <2>1. /\ sched[p] = "new" /\ sched' = [sched EXCEPT ![p] = "bound"]
        /\ UNCHANGED <<kubelet, grants>>
    BY <1>1 DEF Schedule
  <2>2. kubelet[p] = "waiting"
    BY <2>1 DEF ContainedInv, NewIsWaiting
  <2>3. Status[p] = "new" /\ Status'[p] = "offered"
    BY <2>1, <2>2 DEF Status
  <2>4. Status' = [Status EXCEPT ![p] = "offered"]
    BY <2>1, <2>3, StatusOf
  <2> QED BY <2>1, <2>3, <2>4 DEF Handoff!Next, Handoff!Offer
<1>2. ASSUME NEW p \in Pods, Delete(p) PROVE [Handoff!Next]_(Handoff!vars)
  <2>1. /\ sched[p] = "bound" /\ sched' = [sched EXCEPT ![p] = "deleted"] /\ grants' = grants
        /\ kubelet' = [kubelet EXCEPT ![p] =
                         IF kubelet[p] = "waiting" THEN "rejected" ELSE kubelet[p]]
    BY <1>2 DEF Delete
  <2>2. CASE kubelet[p] = "waiting"
    <3>1. Status[p] = "offered" /\ Status'[p] = "rejected"
      BY <2>1, <2>2 DEF Status
    <3>2. Status' = [Status EXCEPT ![p] = "rejected"]
      BY <2>1, <3>1, StatusOf
    <3> QED BY <2>1, <3>1, <3>2 DEF Handoff!Next, Handoff!Refuse
  <2>3. CASE kubelet[p] # "waiting"
    <3>1. Status[p] = kubelet[p] /\ Status'[p] = kubelet[p]
      BY <2>1, <2>3 DEF Status
    <3>2. Status' = [Status EXCEPT ![p] = Status[p]]
      BY <2>1, <3>1, StatusOf
    <3>3. Status' = Status
      BY <3>2 DEF Status
    <3> QED BY <2>1, <3>3 DEF Handoff!vars
  <2> QED BY <2>2, <2>3
<1>3. ASSUME Restart PROVE Handoff!Next
  <2>1. /\ call # NoCall /\ kubelet' = [kubelet EXCEPT ![call.pod] = "rejected"]
        /\ UNCHANGED <<sched, grants>>
    BY <1>3 DEF Restart
  <2>2. call.pod \in Pods /\ Awaited(call.pod)
    BY <2>1 DEF ContainedInv, CallOnTrack
  <2>3. Status[call.pod] = "offered" /\ Status'[call.pod] = "rejected"
    BY <2>1, <2>2 DEF Status, Awaited
  <2>4. Status' = [Status EXCEPT ![call.pod] = "rejected"]
    BY <2>1, <2>2, <2>3, StatusOf
  <2> QED BY <2>1, <2>2, <2>3, <2>4 DEF Handoff!Next, Handoff!Refuse
<1>4. ASSUME NEW h \in Handlers, Reply(h) PROVE [Handoff!Next]_(Handoff!vars)
  <2> DEFINE p == call.pod
             c == call.ctr
  <2>1. handler[h].pc = "reply" /\ UNCHANGED sched
    BY <1>4 DEF Reply
  <2>2. CASE call.by # h
    BY <1>4, <2>2, HandoffStutter DEF Reply
  <2>3. CASE call.by = h
    <3>1. Awaited(p) /\ p \in Pods /\ c \in VGPUContainers(p)
      BY <2>1, <2>3, ReplyIsOwn
    <3>2. CASE handler[h].ok
      <4>1. handler[h].pod = p /\ handler[h].ctr = c /\ Ungranted(p) \subseteq {c}
        BY <2>1, <2>3, <3>2, ReplyIsOwn
      <4>2. /\ grants' = grants \cup {Handoff!Own(p, c)}
            /\ kubelet' = [kubelet EXCEPT ![p] = "running"]
        BY <1>4, <2>3, <3>2, <4>1 DEF Reply, Handoff!Own
      <4>3. Status[p] = "offered" /\ Status'[p] = "running"
        BY <2>1, <3>1, <4>2 DEF Status, Awaited
      <4>4. Status' = [Status EXCEPT ![p] = "running"]
        BY <2>1, <3>1, <4>2, <4>3, StatusOf
      <4>5. Handoff!Served(p) = {}
        <5>1. \A e \in grants : e.pod # p
          BY <3>1 DEF ContainedInv, GivenIsSettled, Awaited
        <5> QED BY <5>1 DEF Handoff!Served
      <4>6. Handoff!VGPUContainers(p) = {c}
        BY <3>1, TheContainer DEF Contained, VGPUContainers, Handoff!VGPUContainers
      <4>7. Handoff!Give(p, c)
        BY <4>2, <4>3, <4>4, <4>5, <4>6 DEF Handoff!Give
      <4>8. c \in Containers
        BY <3>1 DEF VGPUContainers
      <4> QED BY <3>1, <4>7, <4>8 DEF Handoff!Next
    <3>3. CASE ~handler[h].ok
      <4>1. grants' = grants /\ kubelet' = [kubelet EXCEPT ![p] = "rejected"]
        BY <1>4, <2>3, <3>3 DEF Reply
      <4>2. Status[p] = "offered" /\ Status'[p] = "rejected"
        BY <2>1, <3>1, <4>1 DEF Status, Awaited
      <4>3. Status' = [Status EXCEPT ![p] = "rejected"]
        BY <2>1, <3>1, <4>1, <4>2, StatusOf
      <4> QED BY <3>1, <4>1, <4>2, <4>3 DEF Handoff!Next, Handoff!Refuse
    <3> QED BY <3>2, <3>3
  <2> QED BY <2>2, <2>3
<1>5. ASSUME NEW h \in Handlers,
             \/ Call(h) \/ NoPod(h) \/ Pick(h) \/ EraseNext(h) \/ EraseFails(h)
             \/ GetRefreshed(h) \/ PatchPhase(h) \/ Release(h)
      PROVE  UNCHANGED Handoff!vars
  <2>1. UNCHANGED <<sched, kubelet, grants>>
    BY <1>5, Zenon DEF Call, NoPod, Pick, EraseNext, EraseFails, GetRefreshed,
       PatchPhase, Release
  <2> QED BY <2>1, HandoffStutter
<1>6. ASSUME UNCHANGED vars PROVE UNCHANGED Handoff!vars
  BY <1>6, HandoffStutter DEF vars
<1>7. ~Crash
  BY DEF Crash, Contained, ContainedFaults
<1> QED
  <2>1. CASE \E p \in Pods : Schedule(p) \/ Delete(p)
    BY <2>1, <1>1, <1>2
  <2>2. CASE \E h \in Handlers : Call(h) \/ HandlerStep(h)
    BY <2>2, <1>4, <1>5 DEF HandlerStep
  <2>3. CASE Restart \/ UNCHANGED vars
    BY <2>3, <1>3, <1>6
  <2> QED BY <1>7, <2>1, <2>2, <2>3 DEF Next, Finished

\* The handler, the annotations and the lock keep the promise of DeviceHandoff:
\* every step hands a container its own devices, refuses a pod or is invisible.
THEOREM HandoffIsKept == ASSUME Contained PROVE Spec => ImplementsHandoff
<1>1. OnceInv /\ ContainedInv /\ [Next]_vars => [Handoff!Next]_(Handoff!vars)
  BY HandoffNext
<1> QED BY <1>1, HandoffInit, ContainedAlways, PTL DEF Spec, ImplementsHandoff, Handoff!Spec
=============================================================================
