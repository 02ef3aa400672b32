------------------------- MODULE HealthCheckProofs -------------------------
(***************************************************************************)
(* Theorems about the health check: what the two lists of Xids select, and *)
(* that HealthCheck loses no error and raises no false alarm, for every    *)
(* number of devices, GPUs, events and entries of the lists.               *)
(***************************************************************************)
EXTENDS HealthCheck, TLAPS

-----------------------------------------------------------------------------
(* The lists of Xids.  An entry 0 has the key that stands for all of them.   *)

Meaning(list) == IF allXIDs \in list THEN list \cup {All} ELSE list

\* Whatever the two lists hold, IsDisabled ignores exactly those Xids that they do
\* not select, once an entry 0 is read as "all": getDisabledHealthCheckXids adds
\* the application errors to what is disabled, and what is enabled overrides both.
LEMMA ListsSelect ==
  ASSUME NEW disable \in SUBSET (Nat \cup {All, Malformed}),
         NEW enable \in SUBSET (Nat \cup {All, Malformed}),
         NEW x \in Nat \ {allXIDs}
  PROVE  IsDisabled(DisabledXids(disable, enable), x)
           <=> ~Selected(Meaning(disable), Meaning(enable), x)
<1> DEFINE off == newHealthCheckXIDs(disable) \cup ignoredXids
           on == newHealthCheckXIDs(enable)
           map == DisabledXids(disable, enable)
<1>1. /\ All \notin Nat
      /\ x \in Nat
      /\ x # allXIDs
      /\ allXIDs \in Nat
      /\ allXIDs \notin ignoredXids
  BY EntriesAssumption DEF allXIDs, ignoredXids
<1>0. x # All
  BY <1>1
<1>2. /\ allXIDs \in on <=> All \in Meaning(enable)
      /\ x \in on <=> (x \in enable /\ All \notin enable)
  BY <1>1 DEF newHealthCheckXIDs, Meaning
<1>3. /\ allXIDs \in off <=> All \in Meaning(disable)
      /\ x \in off <=> x \in ignoredXids \/ (x \in disable /\ All \notin disable)
  BY <1>1 DEF newHealthCheckXIDs, Meaning
<1>4. /\ DOMAIN map = off \cup on
      /\ \A y \in off \cup on : map[y] <=> y \notin on
  BY DEF DisabledXids
<1>5. x \in Meaning(enable) <=> x \in enable
  BY <1>1 DEF Meaning
<1>6. x \in Meaning(disable) <=> x \in disable
  BY <1>1 DEF Meaning
<1>7. All \in enable => All \in Meaning(enable)
  BY DEF Meaning
<1>8. All \in disable => All \in Meaning(disable)
  BY DEF Meaning
<1> HIDE DEF off, on, map
<1>9. IsDisabled(map, x) <=>
        /\ allXIDs \notin on
        /\ x \notin on
        /\ x \in off \/ allXIDs \in off
  <2>1. CASE allXIDs \in on
    BY <1>4, <2>1 DEF IsDisabled
  <2>2. CASE allXIDs \notin on /\ x \in off \cup on
    BY <1>4, <2>2 DEF IsDisabled
  <2>3. CASE allXIDs \notin on /\ x \notin off \cup on
    BY <1>4, <2>3 DEF IsDisabled, IsAllDisabled
  <2> QED BY <2>1, <2>2, <2>3
<1>10. IsDisabled(map, x) <=> ~Selected(Meaning(disable), Meaning(enable), x)
  BY <1>2, <1>3, <1>5, <1>6, <1>7, <1>8, <1>9 DEF Selected
<1> QED BY <1>10 DEF map

-----------------------------------------------------------------------------
(* The invariant.                                                            *)

\* A wait begins with nothing to hand over; the device found for a GPU is on it;
\* an error occurs on a GPU that is watched; the lists are as they were given.
HealthInv ==
  /\ TypeOK
  /\ lists.disable \subseteq DisableEntries /\ lists.enable \subseteq EnableEntries
  /\ checker.pc = "wait" => checker.out = {}
  /\ \A g \in DOMAIN parent : GPU[parent[g]] = g
  /\ \A e \in raised : e.gpu \in watched

LEMMA HealthInvInit == Init => HealthInv
<1> SUFFICES ASSUME Init
             PROVE  HealthInv
  OBVIOUS
<1>1. checker \in [pc : {"launch", "off", "setup", "loop", "wait", "done"},
                   todo : SUBSET Devices, out : SUBSET Devices, deaf : BOOLEAN]
  BY DEF Init
<1>2. checker.pc = "launch"
  BY DEF Init
<1>3. lists.disable \subseteq DisableEntries /\ lists.enable \subseteq EnableEntries
  BY DEF Init
<1>4. DOMAIN parent = {} /\ DOMAIN view = {}
  BY DEF Init, Untold
<1>5. health \in [Devices -> BOOLEAN]
  BY DEF Init
<1> QED BY <1>1, <1>2, <1>3, <1>4, <1>5 DEF Init, HealthInv, TypeOK

LEMMA HealthInvNext == HealthInv /\ [Next]_vars => HealthInv'
<1> SUFFICES ASSUME HealthInv, [Next]_vars
             PROVE  HealthInv'
  OBVIOUS
<1> USE ConstantsAssumption
<1>1. CASE Open
  BY <1>1 DEF Open, HealthInv, TypeOK, GPUs
<1>2. CASE Break
  BY <1>2 DEF Break, HealthInv, TypeOK, GPUs
<1>3. CASE Stop
  BY <1>3 DEF Stop, HealthInv, TypeOK, GPUs
<1>4. ASSUME NEW e \in Events, Raise(e)
      PROVE  HealthInv'
  BY <1>4 DEF Raise, HealthInv, TypeOK, GPUs
<1>5. CASE Launch
  <2>1. PICK deaf \in {FALSE, stopped}, pc \in {"off", "setup", "done"} :
          checker' = [checker EXCEPT !.deaf = deaf, !.pc = pc]
    BY <1>5, Zenon DEF Launch, CheckerStep
  <2>2. deaf \in BOOLEAN
    BY DEF HealthInv, TypeOK
  <2>3. /\ checker' \in [pc : {"launch", "off", "setup", "loop", "wait", "done"},
                         todo : SUBSET Devices, out : SUBSET Devices, deaf : BOOLEAN]
        /\ checker'.pc # "wait"
    BY <2>1, <2>2 DEF HealthInv, TypeOK
  <2>4. UNCHANGED <<lists, health, parent, watched, raised, blamed, events, stream, conn,
                    view, stopped>>
    BY <1>5 DEF Launch, CheckerStep
  <2> QED BY <2>3, <2>4 DEF HealthInv, TypeOK
<1>6. ASSUME NEW d \in Devices, Setup(d)
      PROVE  HealthInv'
  <2> DEFINE placed == [g \in DOMAIN parent \cup {GPU[d]} |->
                          IF g = GPU[d] THEN d ELSE parent[g]]
  <2>1. parent' \in {parent, placed}
    BY <1>6 DEF Setup
  <2>2. /\ DOMAIN parent' \subseteq GPUs
        /\ \A g \in DOMAIN parent' : parent'[g] \in Devices /\ GPU[parent'[g]] = g
        /\ DOMAIN parent \subseteq DOMAIN parent'
    <3>1. CASE parent' = parent
      BY <3>1 DEF HealthInv, TypeOK
    <3>2. CASE parent' = placed
      BY <3>2 DEF HealthInv, TypeOK, GPUs
    <3> QED BY <2>1, <3>1, <3>2
  <2>3. watched \subseteq watched' /\ watched' \subseteq DOMAIN parent'
    BY <1>6, <2>2 DEF Setup, HealthInv, TypeOK
  <2>4. /\ checker' \in [pc : {"launch", "off", "setup", "loop", "wait", "done"},
                          todo : SUBSET Devices, out : SUBSET Devices, deaf : BOOLEAN]
        /\ checker'.pc = "setup"
        /\ blamed' \subseteq Devices
    <3> DEFINE rest == [checker EXCEPT !.todo = @ \ {d}]
    <3>1. /\ rest \in [pc : {"launch", "off", "setup", "loop", "wait", "done"},
                         todo : SUBSET Devices, out : SUBSET Devices, deaf : BOOLEAN]
          /\ rest.pc = "setup"
      BY <1>6 DEF Setup, HealthInv, TypeOK
    <3>2. /\ checker' = rest \/ checker' = [rest EXCEPT !.out = {d}]
          /\ blamed' = blamed \/ blamed' = blamed \cup {d}
      BY <1>6 DEF Setup, CheckerStep
    <3> HIDE DEF rest
    <3> QED BY <3>1, <3>2 DEF HealthInv, TypeOK
  <2>5. UNCHANGED <<lists, health, raised, events, stream, conn, view, stopped>>
    BY <1>6 DEF Setup, CheckerStep
  <2> QED BY <2>2, <2>3, <2>4, <2>5 DEF HealthInv, TypeOK
<1>7. CASE SetupEnds
  BY <1>7 DEF SetupEnds, CheckerStep, HealthInv, TypeOK, GPUs
<1>8. CASE Loop
  BY <1>8 DEF Loop, HandedOver, CheckerStep, HealthInv, TypeOK, GPUs
<1>9. CASE Wait
  <2>1. \A e : Meant(e) \subseteq Devices
    BY DEF Meant, HealthInv, TypeOK
  <2>2. PICK o \in SUBSET Devices : \/ checker' = [checker EXCEPT !.pc = "loop", !.out = o]
                                   \/ checker' = [checker EXCEPT !.pc = "loop"]
    <3>1. \A e : (IF IsDisabled(Disabled, e.xid) THEN {} ELSE Meant(e)) \in SUBSET Devices
      BY <2>1
    <3> QED BY <1>9, <3>1, Zenon DEF Wait, CheckerStep
  <2>3. /\ checker' \in [pc : {"launch", "off", "setup", "loop", "wait", "done"},
                         todo : SUBSET Devices, out : SUBSET Devices, deaf : BOOLEAN]
        /\ checker'.pc # "wait"
    <3>1. CASE checker' = [checker EXCEPT !.pc = "loop", !.out = o]
      BY <3>1 DEF HealthInv, TypeOK
    <3>2. CASE checker' = [checker EXCEPT !.pc = "loop"]
      BY <3>2 DEF HealthInv, TypeOK
    <3> QED BY <2>2, <3>1, <3>2
  <2>4. events' = events \/ \E e \in events : events' = events \ {e}
    BY <1>9, Zenon DEF Wait
  <2>5. UNCHANGED <<lists, health, parent, watched, raised, blamed, stream, conn, view,
                    stopped>>
    BY <1>9, Zenon DEF Wait, CheckerStep
  <2> QED BY <2>3, <2>4, <2>5 DEF HealthInv, TypeOK
<1>10. CASE WaitFails
  BY <1>10 DEF WaitFails, CheckerStep, HealthInv, TypeOK, GPUs
<1>11. CASE SendInitial
  BY <1>11 DEF SendInitial, Tell, HealthInv, TypeOK, GPUs
<1>12. CASE Select
  BY <1>12 DEF Select, HealthInv, TypeOK, GPUs
<1>13. CASE SendUpdate
  BY <1>13 DEF SendUpdate, Tell, HealthInv, TypeOK, GPUs
<1>14. CASE StreamStops
  BY <1>14 DEF StreamStops, HealthInv, TypeOK, GPUs
<1>15. ASSUME NEW d \in Devices, Deliver(d)
       PROVE  HealthInv'
  BY <1>15 DEF Deliver, HealthInv, TypeOK, GPUs
<1>16. CASE UNCHANGED vars
  BY <1>16 DEF vars, HealthInv, TypeOK, GPUs
<1> QED
  BY <1>1, <1>2, <1>3, <1>4, <1>5, <1>6, <1>7, <1>8, <1>9, <1>10, <1>11, <1>12,
     <1>13, <1>14, <1>15, <1>16
  DEF Next, CheckerRuns, StreamRuns, Handover

\* Every variable has its type, and every list the kubelet is sent is complete
\* (checkHealth, ListAndWatch).
THEOREM TypeCorrect == Spec => []TypeOK
<1>1. HealthInv => TypeOK
  BY DEF HealthInv
<1> QED BY HealthInvInit, HealthInvNext, <1>1, PTL DEF Spec

-----------------------------------------------------------------------------
(* What the kubelet is told.                                                 *)

LEMMA ViewNext == ViewIsCurrent /\ [Next]_vars => ViewIsCurrent'
<1> SUFFICES ASSUME ViewIsCurrent, [Next]_vars
             PROVE  ViewIsCurrent'
  OBVIOUS
<1>1. ASSUME UNCHANGED <<health, stream, conn, view>>
      PROVE  ViewIsCurrent'
  BY <1>1 DEF ViewIsCurrent
<1>2. CASE CheckerRuns \/ WaitFails
  BY <1>1, <1>2, Zenon
  DEF CheckerRuns, WaitFails, Launch, Setup, SetupEnds, Loop, Wait, CheckerStep
<1>3. CASE Open \/ Break \/ Stop
  BY <1>3 DEF Open, Break, Stop, ViewIsCurrent
<1>4. ASSUME NEW e \in Events, Raise(e)
      PROVE  ViewIsCurrent'
  BY <1>1, <1>4 DEF Raise
<1>5. CASE StreamRuns
  <2>1. CASE SendInitial \/ SendUpdate
    BY <2>1, Zenon DEF SendInitial, SendUpdate, Tell, ViewIsCurrent
  <2>2. CASE Select
    BY <2>2, Zenon DEF Select, ViewIsCurrent
  <2>3. CASE StreamStops
    BY <2>3 DEF StreamStops, ViewIsCurrent
  <2> QED BY <1>5, <2>1, <2>2, <2>3 DEF StreamRuns
<1>6. CASE Handover
  BY <1>6 DEF Handover, Deliver, ViewIsCurrent
<1>7. CASE UNCHANGED vars
  BY <1>1, <1>7 DEF vars
<1> QED BY <1>2, <1>3, <1>4, <1>5, <1>6, <1>7 DEF Next

\* The kubelet's picture is that of the plugin between two updates: no device is
\* marked and left out of the next list (the two cases of ListAndWatch).
THEOREM ViewStaysCurrent == Spec => []ViewIsCurrent
<1>1. Init => ViewIsCurrent
  BY DEF Init, ViewIsCurrent
<1> QED BY <1>1, ViewNext, PTL DEF Spec

-----------------------------------------------------------------------------
(* Errors and alarms.                                                        *)

\* No list holds 0, which would be read as the key that stands for every Xid.
NoZero == allXIDs \notin DisableEntries \cup EnableEntries

\* No two devices share a GPU: none of them is a MIG device with a sibling.
OwnGPU == \A c, d \in Devices : GPU[c] = GPU[d] => c = d

\* An Xid is examined if and only if the lists select it.
LEMMA ExaminedIsSelected ==
  ASSUME HealthInv, NoZero, NEW x \in Xids
  PROVE  IsDisabled(Disabled, x) <=> ~Selected(lists.disable, lists.enable, x)
<1>1. /\ lists.disable \in SUBSET (Nat \cup {All, Malformed})
      /\ lists.enable \in SUBSET (Nat \cup {All, Malformed})
      /\ x \in Nat \ {allXIDs}
  BY ConstantsAssumption DEF HealthInv
<1>2. Meaning(lists.disable) = lists.disable /\ Meaning(lists.enable) = lists.enable
  BY DEF HealthInv, NoZero, Meaning
<1> QED BY <1>1, <1>2, ListsSelect DEF Disabled

\* What is found of an event is what the event is about.
LEMMA MeantIsHit ==
  ASSUME HealthInv, NoZero, NEW e \in events, NEW d \in Meant(e), ~IsDisabled(Disabled, e.xid)
  PROVE  d \in Hit(e)
<1>1. e.xid \in Xids
  BY DEF HealthInv, TypeOK, Events
<1>2. Selected(lists.disable, lists.enable, e.xid)
  BY <1>1, ExaminedIsSelected
<1>3. d \in Devices /\ GPU[d] = e.gpu
  BY DEF Meant, HealthInv, TypeOK
<1> QED BY <1>2, <1>3 DEF Hit, Meant

\* What an event is about is found, if every device has a GPU of its own.
LEMMA HitIsMeant ==
  ASSUME HealthInv, NoZero, OwnGPU, NEW e \in events, NEW d \in Hit(e)
  PROVE  d \in Meant(e) /\ ~IsDisabled(Disabled, e.xid)
<1>1. e.xid \in Xids /\ e.gpu \in DOMAIN parent
  BY DEF HealthInv, TypeOK, Events
<1>2. ~IsDisabled(Disabled, e.xid)
  BY <1>1, ExaminedIsSelected DEF Hit
<1>3. d \in Devices /\ GPU[d] = e.gpu
  BY DEF Hit
<1>4. parent[e.gpu] \in Devices /\ GPU[parent[e.gpu]] = e.gpu
  BY <1>1 DEF HealthInv, TypeOK
<1>5. parent[e.gpu] = d
  BY <1>3, <1>4 DEF OwnGPU
<1> QED BY <1>1, <1>2, <1>5 DEF Hit, Meant

\* A step that marks no device, hands none over and loses no event.
Quiet ==
  /\ UNCHANGED <<health, blamed>> /\ checker'.out = checker.out
  /\ raised \subseteq raised' /\ events \subseteq events' /\ raised' \subseteq raised \cup events'

\* A device that cannot be watched.
Unwatched == \E d \in Devices : /\ checker.out = {} /\ checker'.out = {d}
                               /\ blamed' = blamed \cup {d}
                               /\ UNCHANGED <<health, raised, events>>

LEMMA StepKinds ==
  ASSUME HealthInv, [Next]_vars
  PROVE  /\ lists' = lists
         /\ Quiet \/ Unwatched \/ Wait \/ WaitFails \/ Handover
<1>1. CASE Open \/ Break \/ Stop \/ StreamRuns \/ UNCHANGED vars
  BY <1>1 DEF Open, Break, Stop, StreamRuns, SendInitial, Select, SendUpdate, StreamStops, vars,
     Quiet
<1>2. ASSUME NEW e \in Events, Raise(e)
      PROVE  lists' = lists /\ Quiet
  BY <1>2 DEF Raise, Quiet
<1>3. CASE Launch
  <2>1. checker'.out = checker.out
    BY <1>3 DEF Launch, CheckerStep, HealthInv, TypeOK
  <2> QED BY <1>3, <2>1 DEF Launch, CheckerStep, Quiet
<1>4. ASSUME NEW d \in Devices, Setup(d)
      PROVE  lists' = lists /\ (Quiet \/ Unwatched)
  <2>1. /\ checker.out = {} /\ UNCHANGED <<lists, health, raised, events>>
        /\ \/ checker' = [checker EXCEPT !.todo = @ \ {d}] /\ UNCHANGED blamed
           \/ /\ checker' = [[checker EXCEPT !.todo = @ \ {d}] EXCEPT !.out = {d}]
              /\ blamed' = blamed \cup {d}
    BY <1>4 DEF Setup, HandedOver, CheckerStep
  <2> DEFINE rest == [checker EXCEPT !.todo = @ \ {d}]
  <2>2. rest.out = {} /\ [rest EXCEPT !.out = {d}].out = {d}
    BY <2>1 DEF HealthInv, TypeOK
  <2>3. \/ checker'.out = {} /\ UNCHANGED blamed
        \/ checker'.out = {d} /\ blamed' = blamed \cup {d}
    BY <2>1, <2>2
  <2> QED BY <2>1, <2>3 DEF Quiet, Unwatched
<1>5. CASE SetupEnds \/ Loop
  <2>1. checker'.out = checker.out
    BY <1>5 DEF SetupEnds, Loop, CheckerStep, HealthInv, TypeOK
  <2> QED BY <1>5, <2>1 DEF SetupEnds, Loop, CheckerStep, Quiet
<1>6. CASE Wait \/ WaitFails
  BY <1>6, Zenon DEF Wait, WaitFails, CheckerStep
<1>7. CASE Handover
  BY <1>7 DEF Handover, Deliver
<1> QED BY <1>1, <1>2, <1>3, <1>4, <1>5, <1>6, <1>7 DEF Next, CheckerRuns

\* What a wait hands over.
LEMMA WaitHands ==
  ASSUME HealthInv, Wait
  PROVE  /\ UNCHANGED <<health, raised, blamed>>
         /\ \/ checker'.out = checker.out /\ UNCHANGED events
            \/ \E e \in events :
                 /\ checker'.out = IF IsDisabled(Disabled, e.xid) THEN {} ELSE Meant(e)
                 /\ events' = events \ {e}
<1>1. UNCHANGED <<health, raised, blamed>>
  BY Zenon DEF Wait, CheckerStep
<1>2. CASE checker' = [checker EXCEPT !.pc = "loop"] /\ UNCHANGED events
  BY <1>1, <1>2 DEF HealthInv, TypeOK
<1>3. ASSUME NEW e \in events,
             checker' = [checker EXCEPT !.pc = "loop",
               !.out = IF IsDisabled(Disabled, e.xid) THEN {} ELSE Meant(e)],
             events' = events \ {e}
      PROVE  checker'.out = IF IsDisabled(Disabled, e.xid) THEN {} ELSE Meant(e)
  BY <1>3 DEF HealthInv, TypeOK
<1> QED BY <1>1, <1>2, <1>3, Zenon DEF Wait, CheckerStep

LEMMA WaitFailsHands ==
  ASSUME HealthInv, WaitFails
  PROVE  /\ checker'.out = Devices /\ blamed' = Devices
         /\ UNCHANGED <<health, raised>>
BY DEF WaitFails, CheckerStep, HealthInv, TypeOK

LEMMA DeliverMarks ==
  ASSUME HealthInv, NEW d \in Devices, Deliver(d)
  PROVE  /\ UNCHANGED <<raised, events, blamed>>
         /\ d \in checker.out /\ checker'.out = checker.out \ {d}
         /\ ~health'[d] /\ \A c \in Devices \ {d} : health'[c] = health[c]
BY DEF Deliver, HealthInv, TypeOK

LEMMA AlarmNext ==
  ASSUME NoZero
  PROVE  HealthInv /\ NoFalseAlarm /\ [Next]_vars => NoFalseAlarm'
<1> SUFFICES ASSUME HealthInv, NoFalseAlarm, [Next]_vars,
                    NEW d \in Devices, ~health'[d] \/ d \in checker'.out
             PROVE  d \in blamed' \/ \E e \in raised' : d \in Hit(e)'
  BY DEF NoFalseAlarm
<1>1. \A e : Hit(e)' = Hit(e)
  BY StepKinds DEF Hit
<1>2. ~health[d] \/ d \in checker.out => d \in blamed \/ \E e \in raised : d \in Hit(e)
  BY DEF NoFalseAlarm
<1>3. CASE Quiet \/ Unwatched
  BY <1>1, <1>2, <1>3 DEF Quiet, Unwatched
<1>4. CASE Wait
  <2>1. CASE checker'.out = checker.out
    BY <1>1, <1>2, <1>4, <2>1, WaitHands
  <2>2. CASE checker'.out # checker.out
    <3>1. PICK e \in events : checker'.out = IF IsDisabled(Disabled, e.xid) THEN {} ELSE Meant(e)
      BY <1>4, <2>2, WaitHands
    <3>2. CASE d \in checker'.out
      <4>1. d \in Hit(e)
        BY <3>1, <3>2, MeantIsHit
      <4>2. e \in raised'
        BY <1>4, WaitHands DEF HealthInv, TypeOK
      <4> QED BY <1>1, <4>1, <4>2
    <3>3. CASE d \notin checker'.out
      BY <1>1, <1>2, <1>4, <3>3, WaitHands
    <3> QED BY <3>2, <3>3
  <2> QED BY <2>1, <2>2
<1>5. CASE WaitFails
  BY <1>5, WaitFailsHands
<1>6. ASSUME NEW c \in Devices, Deliver(c)
      PROVE  d \in blamed' \/ \E e \in raised' : d \in Hit(e)'
  BY <1>1, <1>2, <1>6, DeliverMarks
<1> QED BY <1>3, <1>4, <1>5, <1>6, StepKinds DEF Handover

\* A device is marked only for an error that concerns it and that the lists select,
\* or because NVML failed: however many GPUs, MIG devices and events there are, and
\* whatever else the lists hold (checkHealth).
THEOREM AlarmsAreTrue ==
  ASSUME NoZero
  PROVE  Spec => []NoFalseAlarm
<1>1. Init => NoFalseAlarm
  BY DEF Init, NoFalseAlarm
<1>2. HealthInv /\ NoFalseAlarm /\ [Next]_vars => NoFalseAlarm'
  BY AlarmNext
<1> QED BY <1>1, <1>2, HealthInvInit, HealthInvNext, PTL DEF Spec

LEMMA LostNext ==
  ASSUME NoZero, OwnGPU
  PROVE  HealthInv /\ ErrorIsNotLost /\ [Next]_vars => ErrorIsNotLost'
<1> SUFFICES ASSUME HealthInv, ErrorIsNotLost, [Next]_vars,
                    NEW e \in raised', NEW d \in Hit(e)'
             PROVE  ~health'[d] \/ e \in events' \/ d \in checker'.out
  BY DEF ErrorIsNotLost
<1>1. d \in Hit(e) /\ d \in Devices
  BY StepKinds DEF Hit
<1>2. e \in raised => ~health[d] \/ e \in events \/ d \in checker.out
  BY <1>1 DEF ErrorIsNotLost
<1>3. CASE Quiet \/ Unwatched
  BY <1>2, <1>3 DEF Quiet, Unwatched
<1>4. CASE Wait
  <2>1. checker.out = {}
    BY <1>4, Zenon DEF Wait, HealthInv
  <2>2. e \in raised /\ UNCHANGED health
    BY <1>4, WaitHands
  <2>3. CASE UNCHANGED events
    BY <1>2, <2>1, <2>2, <2>3
  <2>4. CASE events' # events
    <3>1. PICK f \in events :
            /\ checker'.out = IF IsDisabled(Disabled, f.xid) THEN {} ELSE Meant(f)
            /\ events' = events \ {f}
      BY <1>4, <2>4, WaitHands
    <3>2. CASE f = e
      BY <1>1, <3>1, <3>2, HitIsMeant
    <3>3. CASE f # e
      BY <1>2, <2>1, <2>2, <3>1, <3>3
    <3> QED BY <3>2, <3>3
  <2> QED BY <2>3, <2>4
<1>5. CASE WaitFails
  BY <1>1, <1>5, WaitFailsHands
<1>6. ASSUME NEW c \in Devices, Deliver(c)
      PROVE  ~health'[d] \/ e \in events' \/ d \in checker'.out
  BY <1>1, <1>2, <1>6, DeliverMarks
<1> QED BY <1>3, <1>4, <1>5, <1>6, StepKinds DEF Handover

\* Every error of a watched GPU that the lists select marks the device it concerns,
\* or is still on its way.  Two devices on one GPU are two entries for one key of
\* parentToDeviceMap: without OwnGPU the theorem is false (checkHealth).
THEOREM ErrorsArrive ==
  ASSUME NoZero, OwnGPU
  PROVE  Spec => []ErrorIsNotLost
<1>1. Init => ErrorIsNotLost
  BY DEF Init, ErrorIsNotLost
<1>2. HealthInv /\ ErrorIsNotLost /\ [Next]_vars => ErrorIsNotLost'
  BY LostNext
<1> QED BY <1>1, <1>2, HealthInvInit, HealthInvNext, PTL DEF Spec
=============================================================================
