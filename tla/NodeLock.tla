------------------------------ MODULE NodeLock ------------------------------
(***************************************************************************)
(* pkg/util/nodelock: a lock kept as an annotation of the node object.     *)
(* Every operation reads the object and sends it back whole; the API       *)
(* server (external) refuses an Update of an object that changed since it  *)
(* was read.  The calls are not atomic: one action is one request.         *)
(* Lockers run LockNode (the Volcano scheduler), Releasers run             *)
(* ReleaseNodeLock (the plugin's Allocate handler); the plugin's           *)
(* registration loop patches another annotation of the same object.        *)
(***************************************************************************)
EXTENDS Integers, FiniteSets

CONSTANTS
  Lockers, Releasers,
  MaxLockRetry,  \* further attempts after the first Update
  Lease,         \* five minutes, in ticks
  Faults,        \* which faults may happen
  MaxTime,       \* bound: ticks of the clock
  MaxPatches     \* bound: changes of the registration annotation

FaultKinds ==
  {"error",  \* a request fails and changes nothing
   "lost"}   \* an Update is applied but its reply is lost

ASSUME ConstantsAssumption ==
  /\ Lockers \cap Releasers = {} /\ {"none", "garbled"} \cap Lockers = {}
  /\ MaxLockRetry \in Nat /\ Lease \in Nat /\ MaxTime \in Nat /\ MaxPatches \in Nat
  /\ Faults \subseteq FaultKinds

VARIABLES
  lock,     \* the lock annotation: NoLock, Garbled or [by, at]; "by" is not stored,
            \* it only serves the properties
  reg,      \* the registration annotation, by its version
  now,      \* the clock
  proc,     \* proc[x]: the call x is in
  holders,  \* the lockers whose LockNode returned nil and whose lock nobody who found
            \* it has released (serves the properties)
  forced    \* a retry has replaced or removed a lock that its call had not found
            \* (serves the properties)

vars == <<lock, reg, now, proc, holders, forced>>

Procs == Lockers \cup Releasers
NoLock == [by |-> "none", at |-> 0]
Garbled == [by |-> "garbled", at |-> 0]  \* not a time of RFC 3339
Locks == {NoLock, Garbled} \cup [by : Lockers, at : 0 .. MaxTime]

Idle == [pc |-> "idle", fresh |-> FALSE, reg |-> 0, stamp |-> 0,
         found |-> FALSE, tries |-> 0]

Reads == {"lock.get", "set.get", "set.again", "rel.get", "rel.again"}
Writes == {"set.put", "rel.put"}

Init == /\ lock \in {NoLock, Garbled}
        /\ reg = 0
        /\ now = 0
        /\ proc = [x \in Procs |-> Idle]
        /\ holders = {}
        /\ forced = FALSE

\* Mutant of Expired: the age of the lock is not looked at.
ExpiredMutant == lock \notin {NoLock, Garbled}

\* A lock that cannot be parsed never expires: LockNode returns the error.
Expired == lock \notin {NoLock, Garbled} /\ now - lock.at > Lease

-----------------------------------------------------------------------------
StartLock(l) ==
  /\ proc[l].pc = "idle"
  /\ proc' = [proc EXCEPT ![l] = [Idle EXCEPT !.pc = "lock.get"]]
  /\ UNCHANGED <<lock, reg, now, holders, forced>>

StartRelease(r) ==
  /\ proc[r].pc = "idle"
  /\ proc' = [proc EXCEPT ![r] = [Idle EXCEPT !.pc = "rel.get"]]
  /\ UNCHANGED <<lock, reg, now, holders, forced>>

\* A copy of the object, ready to be changed and sent back.
ReadTo(x, pc) == [proc[x] EXCEPT !.pc = pc, !.fresh = TRUE, !.reg = reg, !.stamp = now]

\* Mutant of SetGet: LockNode has looked already.
SetGetMutant(x) == ReadTo(x, "set.put")

\* setNodeLock reads the node anew and refuses one that is locked.
SetGet(x) == IF lock = NoLock THEN ReadTo(x, "set.put") ELSE Idle

\* What a successful Get leads to; "idle" is a return.
AfterRead(x) ==
  CASE proc[x].pc = "lock.get" ->
         IF lock = NoLock THEN [Idle EXCEPT !.pc = "set.get"]
         ELSE IF Expired THEN [Idle EXCEPT !.pc = "rel.get"] ELSE Idle
    [] proc[x].pc = "set.get" -> SetGet(x)
    [] proc[x].pc = "set.again" -> ReadTo(x, "set.put")
    [] proc[x].pc = "rel.get" ->
         IF lock # NoLock THEN [ReadTo(x, "rel.put") EXCEPT !.found = TRUE]
         ELSE IF x \in Lockers THEN [Idle EXCEPT !.pc = "set.get"] ELSE Idle
    [] proc[x].pc = "rel.again" -> ReadTo(x, "rel.put")

Get(x) ==
  /\ proc[x].pc \in Reads
  /\ proc' = [proc EXCEPT ![x] = AfterRead(x)]
  /\ UNCHANGED <<lock, reg, now, holders, forced>>

\* Mutants of Retry: one attempt too many; attempts that are not counted.
RetryMutant(x) ==
  IF proc[x].tries <= MaxLockRetry
  THEN [proc[x] EXCEPT !.tries = @ + 1,
          !.pc = IF @ \in {"set.put", "set.again"} THEN "set.again" ELSE "rel.again"]
  ELSE Idle
RetryUncounted(x) ==
  [proc[x] EXCEPT !.pc = IF @ \in {"set.put", "set.again"} THEN "set.again" ELSE "rel.again"]

\* The retry loop reads the object again and, unlike the first attempt, does
\* not look at the lock; a failed Get in the loop costs an attempt as well.
Retry(x) ==
  IF proc[x].tries < MaxLockRetry
  THEN [proc[x] EXCEPT !.tries = @ + 1,
          !.pc = IF @ \in {"set.put", "set.again"} THEN "set.again" ELSE "rel.again"]
  ELSE Idle

GetFails(x) ==
  /\ "error" \in Faults
  /\ proc[x].pc \in Reads
  /\ proc' = [proc EXCEPT ![x] =
       IF @.pc \in {"set.again", "rel.again"} THEN Retry(x) ELSE Idle]
  /\ UNCHANGED <<lock, reg, now, holders, forced>>

\* Mutant of Current: the object is sent without its version.
CurrentMutant(x) == TRUE

Current(x) == proc[x].fresh

\* A successful Update ends the call, or the release inside LockNode.
Done(x) == IF proc[x].pc = "rel.put" /\ x \in Lockers
           THEN [Idle EXCEPT !.pc = "set.get"] ELSE Idle

\* The lock that x is about to replace or remove is not the one it found, or was told of.
Trespasses(x) == lock # NoLock /\ IF proc[x].pc = "set.put" THEN lock.by # x ELSE ~proc[x].found

\* The server accepts the copy only if it is of the current object; every other
\* copy is stale from then on, and the lock another call found is no longer there.
Write(x, next) ==
  /\ Current(x)
  /\ reg' = proc[x].reg
  /\ lock' = IF proc[x].pc = "set.put" THEN [by |-> x, at |-> proc[x].stamp] ELSE NoLock
  /\ proc' = [y \in Procs |-> IF y = x THEN [next EXCEPT !.found = FALSE]
                             ELSE [proc[y] EXCEPT !.fresh = FALSE, !.found = FALSE]]
  /\ forced' = (forced \/ (proc[x].tries > 0 /\ Trespasses(x)))

Released(x) == IF proc[x].found THEN holders \ {lock.by} ELSE holders

Update(x) ==
  /\ proc[x].pc \in Writes
  /\ Write(x, Done(x))
  /\ holders' = IF proc[x].pc = "rel.put" THEN Released(x) ELSE holders \cup {x}
  /\ UNCHANGED now

UpdateLost(x) ==
  /\ "lost" \in Faults
  /\ proc[x].pc \in Writes
  /\ Write(x, Retry(x))
  /\ holders' = IF proc[x].pc = "rel.put" THEN Released(x) ELSE holders
  /\ UNCHANGED now

UpdateFails(x) ==
  /\ proc[x].pc \in Writes
  /\ ~Current(x) \/ "error" \in Faults
  /\ proc' = [proc EXCEPT ![x] = Retry(x)]
  /\ UNCHANGED <<lock, reg, now, holders, forced>>

\* RegisterInAnnotation: a merge patch, which no version protects.
PatchRegistration ==
  /\ reg < MaxPatches
  /\ reg' = reg + 1
  /\ proc' = [y \in Procs |-> [proc[y] EXCEPT !.fresh = FALSE]]
  /\ UNCHANGED <<lock, now, holders, forced>>

Tick ==
  /\ now < MaxTime
  /\ now' = now + 1
  /\ UNCHANGED <<lock, reg, proc, holders, forced>>

Step(x) == Get(x) \/ GetFails(x) \/ Update(x) \/ UpdateLost(x) \/ UpdateFails(x)

Next == \/ \E l \in Lockers : StartLock(l)
        \/ \E r \in Releasers : StartRelease(r)
        \/ \E x \in Procs : Step(x)
        \/ PatchRegistration
        \/ Tick

Spec == Init /\ [][Next]_vars

\* A call that was made runs on.
FairSpec == Spec /\ \A x \in Procs : WF_vars(Step(x))
-----------------------------------------------------------------------------
\* Every variable has its type; no call makes more attempts than MaxLockRetry.
TypeOK ==
  /\ lock \in Locks
  /\ reg \in 0 .. MaxPatches
  /\ now \in 0 .. MaxTime
  /\ proc \in [Procs -> [pc : {"idle"} \cup Reads \cup Writes, fresh : BOOLEAN,
                         reg : 0 .. MaxPatches, stamp : 0 .. MaxTime,
                         found : BOOLEAN, tries : 0 .. MaxLockRetry]]
  /\ holders \subseteq Lockers
  /\ forced \in BOOLEAN

\* The first Update of a call, if the server accepts it, takes a lock that is free, or
\* removes the lock the call found, which is still there.
FirstTryIsSafe ==
  \A x \in Procs :
    proc[x].fresh /\ proc[x].tries = 0 =>
      /\ proc[x].pc = "set.put" => lock = NoLock
      /\ proc[x].pc = "rel.put" => lock # NoLock /\ proc[x].found

\* At most one locker was told that it holds the lock, and the annotation stands for it.
HolderIsRecorded == holders \subseteq {lock.by}

\* Among any lockers and releasers the lock has one owner, who loses it only to a call
\* that found it: unless a retry, which does not look at the lock, has trespassed; no first
\* attempt does (setNodeLock, ReleaseNodeLock, LockNode).
LockIsOwned == FirstTryIsSafe /\ (forced \/ HolderIsRecorded)

\* Sending the whole object back never undoes a registration patched meanwhile.
NoLostRegistration == [][reg' >= reg]_vars

\* Every call returns, whatever the API server answers.
CallReturns == \A x \in Procs : proc[x].pc # "idle" ~> proc[x].pc = "idle"

\* What caller x in state s saw of the lock and means to act on, and whether something
\* has come between.
ViewOf(x, s) ==
  CASE s.pc = "rel.get" /\ x \in Lockers -> "expired"
    [] s.pc \in {"set.put", "set.again"} -> "free"
    [] s.pc \in {"rel.put", "rel.again"} -> "held"
    [] OTHER -> "none"
BlindOf(s) == \/ s.pc \in {"set.again", "rel.again"}
              \/ s.pc \in Writes /\ (~s.fresh \/ s.tries > 0)

View == [x \in Procs |-> ViewOf(x, proc[x])]
Blind == [x \in Procs |-> BlindOf(proc[x])]

Lock == INSTANCE LeaseLock WITH view <- View, blind <- Blind

\* The annotation, read and written by requests that may conflict, fail or be lost,
\* behaves like the abstract lock.
ImplementsLeaseLock == Lock!Spec
=============================================================================
