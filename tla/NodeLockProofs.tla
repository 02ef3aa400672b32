--------------------------- MODULE NodeLockProofs ---------------------------
(***************************************************************************)
(* Theorems about the node lock of NodeLock, for any lockers and           *)
(* releasers, any faults and calls of any duration.                        *)
(***************************************************************************)
EXTENDS NodeLock, TLAPS

PCs == {"idle"} \cup Reads \cup Writes
ProcStates == [pc : PCs, fresh : BOOLEAN, reg : 0 .. MaxPatches, stamp : 0 .. MaxTime,
               found : BOOLEAN, tries : 0 .. MaxLockRetry]

InRelease == {"rel.get", "rel.again", "rel.put"}

\* A copy the server would accept carries the registration that is there, and its time
\* is not ahead of the clock; the reads that do not look at the lock are those of a
\* retry; only lockers set the lock.
KnownCall(x, s) ==
  /\ s.fresh => s.reg = reg
  /\ s.stamp <= now
  /\ s.pc \in {"set.get", "rel.get"} => s.tries = 0
  /\ s.pc \in {"set.again", "rel.again"} => s.tries > 0
  /\ x \in Releasers => s.pc \in {"idle"} \cup InRelease

\* What the copy of a first attempt says of the lock, as long as the server would accept it.
SoundCopy(s) ==
  s.fresh /\ s.tries = 0 =>
    /\ s.pc = "set.put" => lock = NoLock
    /\ s.pc = "rel.put" => lock # NoLock /\ s.found

CallsInv ==
  /\ TypeOK
  /\ \A x \in Procs : KnownCall(x, proc[x]) /\ SoundCopy(proc[x])

-----------------------------------------------------------------------------
(* The steps of a call.                                                      *)

LEMMA IdleTyped ==
  /\ Idle \in ProcStates /\ Idle.pc = "idle" /\ ~Idle.fresh /\ ~Idle.found
  /\ Idle.tries = 0 /\ Idle.stamp = 0
BY ConstantsAssumption DEF Idle, ProcStates, PCs

LEMMA StartTyped ==
  ASSUME NEW pc \in PCs
  PROVE  /\ [Idle EXCEPT !.pc = pc] \in ProcStates
         /\ [Idle EXCEPT !.pc = pc].pc = pc
         /\ ~[Idle EXCEPT !.pc = pc].fresh /\ ~[Idle EXCEPT !.pc = pc].found
         /\ [Idle EXCEPT !.pc = pc].tries = 0 /\ [Idle EXCEPT !.pc = pc].stamp = 0
BY IdleTyped DEF ProcStates

LEMMA ReadToTyped ==
  ASSUME TypeOK, NEW x \in Procs, NEW pc \in PCs
  PROVE  /\ ReadTo(x, pc) \in ProcStates
         /\ ReadTo(x, pc).pc = pc /\ ReadTo(x, pc).fresh
         /\ ReadTo(x, pc).reg = reg /\ ReadTo(x, pc).stamp = now
         /\ ReadTo(x, pc).tries = proc[x].tries
<1>1. proc[x] \in ProcStates /\ reg \in 0 .. MaxPatches /\ now \in 0 .. MaxTime
  BY DEF TypeOK, ProcStates, PCs
<1> QED BY <1>1 DEF ReadTo, ProcStates

\* What a read leads to, by the place it is made at.
LEMMA AfterReadIs ==
  ASSUME NEW x \in Procs
  PROVE  /\ proc[x].pc = "lock.get" =>
              AfterRead(x) = IF lock = NoLock THEN [Idle EXCEPT !.pc = "set.get"]
                             ELSE IF Expired THEN [Idle EXCEPT !.pc = "rel.get"] ELSE Idle
         /\ proc[x].pc = "set.get" =>
              AfterRead(x) = IF lock = NoLock THEN ReadTo(x, "set.put") ELSE Idle
         /\ proc[x].pc = "set.again" => AfterRead(x) = ReadTo(x, "set.put")
         /\ proc[x].pc = "rel.get" =>
              AfterRead(x) = IF lock # NoLock THEN [ReadTo(x, "rel.put") EXCEPT !.found = TRUE]
                             ELSE IF x \in Lockers THEN [Idle EXCEPT !.pc = "set.get"] ELSE Idle
         /\ proc[x].pc = "rel.again" => AfterRead(x) = ReadTo(x, "rel.put")
BY DEF AfterRead, SetGet

\* The copy that finds the lock to be released.
LEMMA FindTyped ==
  ASSUME TypeOK, NEW x \in Procs, NEW s, s = [ReadTo(x, "rel.put") EXCEPT !.found = TRUE]
  PROVE  /\ s \in ProcStates /\ s.pc = "rel.put" /\ s.fresh /\ s.found
         /\ s.reg = reg /\ s.stamp = now /\ s.tries = proc[x].tries
<1>1. /\ ReadTo(x, "rel.put") \in ProcStates
      /\ ReadTo(x, "rel.put").pc = "rel.put" /\ ReadTo(x, "rel.put").fresh
      /\ ReadTo(x, "rel.put").reg = reg /\ ReadTo(x, "rel.put").stamp = now
      /\ ReadTo(x, "rel.put").tries = proc[x].tries
  BY ReadToTyped DEF PCs, Writes
<1> QED BY <1>1 DEF ProcStates

LEMMA RetryIs ==
  ASSUME TypeOK, NEW x \in Procs, proc[x].pc \in Reads \cup Writes
  PROVE  /\ Retry(x) \in ProcStates
         /\ \/ Retry(x) = Idle
            \/ /\ Retry(x).pc = IF proc[x].pc \in {"set.put", "set.again"} THEN "set.again" ELSE "rel.again"
               /\ Retry(x).fresh = proc[x].fresh /\ Retry(x).reg = proc[x].reg
               /\ Retry(x).tries > 0 /\ Retry(x).stamp = proc[x].stamp
<1>1. proc[x] \in ProcStates
  BY DEF TypeOK, ProcStates, PCs
<1>2. CASE proc[x].tries < MaxLockRetry
  <2> DEFINE pc == IF proc[x].pc \in {"set.put", "set.again"} THEN "set.again" ELSE "rel.again"
  <2>1. Retry(x) = [proc[x] EXCEPT !.tries = proc[x].tries + 1, !.pc = pc]
    BY <1>2 DEF Retry
  <2>2. pc \in PCs
    BY DEF PCs, Reads
  <2>3. proc[x].tries + 1 \in 0 .. MaxLockRetry
    BY <1>1, <1>2, ConstantsAssumption DEF ProcStates
  <2> HIDE DEF pc
  <2>4. proc[x].tries + 1 > 0
    BY <1>1, ConstantsAssumption DEF ProcStates
  <2>5. /\ Retry(x) \in ProcStates
        /\ Retry(x).pc = pc
        /\ Retry(x).fresh = proc[x].fresh /\ Retry(x).reg = proc[x].reg
        /\ Retry(x).tries > 0 /\ Retry(x).stamp = proc[x].stamp
    BY <1>1, <2>1, <2>2, <2>3, <2>4 DEF ProcStates
  <2> QED BY <2>5 DEF pc
<1>3. CASE ~(proc[x].tries < MaxLockRetry)
  BY <1>3, IdleTyped DEF Retry
<1> QED BY <1>2, <1>3

LEMMA DoneIs ==
  ASSUME NEW x \in Procs
  PROVE  /\ Done(x) \in ProcStates /\ ~Done(x).fresh /\ Done(x).tries = 0 /\ Done(x).stamp = 0
         /\ Done(x).pc = IF proc[x].pc = "rel.put" /\ x \in Lockers THEN "set.get" ELSE "idle"
BY IdleTyped, StartTyped DEF Done, PCs, Reads

\* What a write leaves of its own call and of the others.
LEMMA WriteIs ==
  ASSUME TypeOK, NEW x \in Procs, NEW next \in ProcStates, Write(x, next)
  PROVE  /\ proc' \in [Procs -> ProcStates]
         /\ proc'[x].pc = next.pc /\ proc'[x].fresh = next.fresh
         /\ proc'[x].reg = next.reg /\ proc'[x].tries = next.tries
         /\ proc'[x].stamp = next.stamp
         /\ \A y \in Procs \ {x} :
              /\ proc'[y].pc = proc[y].pc /\ ~proc'[y].fresh
              /\ proc'[y].tries = proc[y].tries /\ proc'[y].stamp = proc[y].stamp
<1> DEFINE own == [next EXCEPT !.found = FALSE]
           other(y) == [proc[y] EXCEPT !.fresh = FALSE, !.found = FALSE]
<1>1. proc' = [y \in Procs |-> IF y = x THEN own ELSE other(y)]
  BY Zenon DEF Write
<1>2. /\ own \in ProcStates /\ own.pc = next.pc /\ own.fresh = next.fresh
      /\ own.reg = next.reg /\ own.tries = next.tries /\ own.stamp = next.stamp
  BY DEF ProcStates
<1>3. ASSUME NEW y \in Procs
      PROVE  /\ other(y) \in ProcStates /\ other(y).pc = proc[y].pc /\ ~other(y).fresh
             /\ other(y).tries = proc[y].tries /\ other(y).stamp = proc[y].stamp
  <2>1. proc[y] \in ProcStates
    BY DEF TypeOK, ProcStates, PCs
  <2> QED BY <2>1 DEF ProcStates
<1> HIDE DEF own, other
<1>4. proc' \in [Procs -> ProcStates]
  BY <1>1, <1>2, <1>3
<1>5. proc'[x] = own /\ \A y \in Procs \ {x} : proc'[y] = other(y)
  BY <1>1
<1> QED BY <1>2, <1>3, <1>4, <1>5

\* A call that starts, reads or fails changes nothing but itself.
LocalStep(x) == \/ x \in Lockers /\ StartLock(x)
                \/ x \in Releasers /\ StartRelease(x)
                \/ Get(x) \/ GetFails(x) \/ UpdateFails(x)

\* What a call is after such a step, in terms of LeaseLock too.
Moves(x, s) ==
  \/ ViewOf(x, s) = "none" /\ ~BlindOf(s)
  \/ ViewOf(x, s) = "expired" /\ ~BlindOf(s) /\ Expired
  \/ ViewOf(x, s) = "free" /\ ~BlindOf(s) /\ lock = NoLock /\ x \in Lockers
  \/ /\ ViewOf(x, s) = "held" /\ ~BlindOf(s) /\ lock # NoLock
     /\ x \in Releasers \/ ViewOf(x, proc[x]) = "expired"
  \/ /\ ViewOf(x, s) = ViewOf(x, proc[x]) /\ ViewOf(x, s) \in {"free", "held"} /\ BlindOf(s)

\* The view of a call depends on its place only.
LEMMA ViewIs ==
  ASSUME NEW x, NEW s
  PROVE  /\ s.pc \in {"idle", "lock.get", "set.get"} => ViewOf(x, s) = "none" /\ ~BlindOf(s)
         /\ s.pc = "rel.get" =>
              ~BlindOf(s) /\ ViewOf(x, s) = IF x \in Lockers THEN "expired" ELSE "none"
         /\ s.pc \in {"set.put", "set.again"} => ViewOf(x, s) = "free"
         /\ s.pc \in {"rel.put", "rel.again"} => ViewOf(x, s) = "held"
         /\ s.pc \in {"set.again", "rel.again"} => BlindOf(s)
         /\ s.pc \in Writes => (BlindOf(s) <=> ~s.fresh \/ s.tries > 0)
         /\ BlindOf(s) \in BOOLEAN
BY DEF ViewOf, BlindOf, Writes

LEMMA StartMoves ==
  ASSUME NEW x \in Procs, NEW s, s.pc \in {"idle", "lock.get", "set.get", "rel.get"},
         s.pc = "rel.get" => x \in Releasers \/ Expired
  PROVE  Moves(x, s)
<1>0. Lockers \cap Releasers = {}
  BY ConstantsAssumption
<1> QED BY <1>0, ViewIs DEF Moves

\* What a call may become on its own, and that it stays known and sound.
Becomes(x, s) == s \in ProcStates /\ KnownCall(x, s) /\ SoundCopy(s) /\ Moves(x, s)

LEMMA StartBecomes ==
  ASSUME CallsInv, NEW x \in Procs, NEW pc \in {"idle", "lock.get", "set.get", "rel.get"},
         pc = "rel.get" => x \in Releasers \/ Expired,
         x \in Releasers => pc \in {"idle", "rel.get"}
  PROVE  Becomes(x, [Idle EXCEPT !.pc = pc]) /\ Becomes(x, Idle)
<1> DEFINE s == [Idle EXCEPT !.pc = pc]
<1>0. now >= 0
  BY DEF CallsInv, TypeOK
<1>1. s \in ProcStates /\ s.pc = pc /\ ~s.fresh /\ s.tries = 0 /\ s.stamp = 0
  BY StartTyped DEF PCs, Reads
<1> HIDE DEF s
<1>2. Becomes(x, s)
  BY <1>0, <1>1, StartMoves DEF Becomes, KnownCall, SoundCopy, InRelease
<1>3. Becomes(x, Idle)
  BY <1>0, IdleTyped, StartMoves DEF Becomes, KnownCall, SoundCopy
<1> QED BY <1>2, <1>3 DEF s

LEMMA RetryBecomes ==
  ASSUME CallsInv, NEW x \in Procs, proc[x].pc \in Writes \cup {"set.again", "rel.again"}
  PROVE  Becomes(x, Retry(x))
<1>1. /\ KnownCall(x, proc[x]) /\ TypeOK /\ proc[x].pc \in Reads \cup Writes
      /\ now \in Nat
  BY ConstantsAssumption DEF CallsInv, TypeOK, Reads
<1>2. CASE Retry(x) = Idle
  BY <1>1, <1>2, StartBecomes
<1>3. CASE Retry(x) # Idle
  <2>1. /\ Retry(x) \in ProcStates
        /\ Retry(x).pc = IF proc[x].pc \in {"set.put", "set.again"} THEN "set.again" ELSE "rel.again"
        /\ Retry(x).fresh = proc[x].fresh /\ Retry(x).reg = proc[x].reg
        /\ Retry(x).tries > 0 /\ Retry(x).stamp = proc[x].stamp
    BY <1>1, <1>3, RetryIs
  <2>2. KnownCall(x, Retry(x))
    BY <1>1, <2>1 DEF KnownCall, InRelease
  <2>3. SoundCopy(Retry(x))
    BY <2>1 DEF SoundCopy
  <2>4. Moves(x, Retry(x))
    <3>1. BlindOf(Retry(x))
      BY <2>1, ViewIs
    <3>2. CASE proc[x].pc \in {"set.put", "set.again"}
      <4>1. ViewOf(x, proc[x]) = "free" /\ ViewOf(x, Retry(x)) = "free"
        BY <2>1, <3>2, ViewIs
      <4> QED BY <3>1, <4>1 DEF Moves
    <3>3. CASE proc[x].pc \in {"rel.put", "rel.again"}
      <4>1. ViewOf(x, proc[x]) = "held" /\ ViewOf(x, Retry(x)) = "held"
        BY <2>1, <3>3, ViewIs
      <4> QED BY <3>1, <4>1 DEF Moves
    <3> QED BY <3>2, <3>3 DEF Writes
  <2> QED BY <2>1, <2>2, <2>3, <2>4 DEF Becomes
<1> QED BY <1>2, <1>3

LEMMA GetBecomes ==
  ASSUME CallsInv, NEW x \in Procs, proc[x].pc \in Reads
  PROVE  Becomes(x, AfterRead(x))
<1>0. /\ TypeOK /\ KnownCall(x, proc[x]) /\ Lockers \cap Releasers = {} /\ now \in Nat
      /\ x \in Lockers \cup Releasers
  BY ConstantsAssumption DEF CallsInv, TypeOK, Procs
<1>1. x \in Releasers => proc[x].pc \in {"rel.get", "rel.again"} /\ x \notin Lockers
  BY <1>0 DEF KnownCall, InRelease, Reads
<1> DEFINE start(pc) == [Idle EXCEPT !.pc = pc]
<1>2. CASE proc[x].pc = "lock.get"
  <2>1. AfterRead(x) = IF lock = NoLock THEN start("set.get")
                       ELSE IF Expired THEN start("rel.get") ELSE Idle
    BY <1>2, AfterReadIs
  <2>2. Becomes(x, start("set.get")) /\ Becomes(x, Idle)
    BY <1>1, <1>2, StartBecomes
  <2>3. Expired => Becomes(x, start("rel.get"))
    BY <1>1, <1>2, StartBecomes
  <2> HIDE DEF start
  <2> QED BY <2>1, <2>2, <2>3
<1>3. CASE proc[x].pc = "set.get"
  <2>1. AfterRead(x) = IF lock = NoLock THEN ReadTo(x, "set.put") ELSE Idle
    BY <1>3, AfterReadIs
  <2>2. Becomes(x, Idle)
    BY <1>1, <1>3, StartBecomes
  <2>3. ASSUME lock = NoLock
        PROVE  Becomes(x, ReadTo(x, "set.put"))
    <3> DEFINE s == ReadTo(x, "set.put")
    <3>1. s \in ProcStates /\ s.pc = "set.put" /\ s.fresh /\ s.reg = reg /\ s.stamp = now
          /\ s.tries = 0
      BY <1>0, <1>3, ReadToTyped DEF KnownCall, PCs, Writes
    <3> HIDE DEF s
    <3>2. ViewOf(x, s) = "free" /\ ~BlindOf(s)
      BY <3>1, ViewIs DEF Writes
    <3>3. Becomes(x, s)
      BY <1>0, <1>1, <1>3, <2>3, <3>1, <3>2 DEF Becomes, KnownCall, SoundCopy, Moves
    <3> QED BY <3>3 DEF s
  <2> QED BY <2>1, <2>2, <2>3
<1>4. CASE proc[x].pc = "rel.get"
  <2>1. CASE lock # NoLock
    <3> DEFINE s == [ReadTo(x, "rel.put") EXCEPT !.found = TRUE]
    <3>1. AfterRead(x) = s
      BY <1>4, <2>1, AfterReadIs
    <3>2. s \in ProcStates /\ s.pc = "rel.put" /\ s.fresh /\ s.found /\ s.reg = reg
          /\ s.stamp = now /\ s.tries = 0
      BY <1>0, <1>4, FindTyped DEF KnownCall
    <3> HIDE DEF s
    <3>3. /\ ViewOf(x, s) = "held" /\ ~BlindOf(s)
          /\ x \in Lockers => ViewOf(x, proc[x]) = "expired"
      BY <1>4, <3>2, ViewIs DEF Writes
    <3>4. Becomes(x, s)
      BY <1>0, <2>1, <3>2, <3>3 DEF Becomes, KnownCall, SoundCopy, Moves, InRelease
    <3> QED BY <3>1, <3>4
  <2>2. CASE lock = NoLock
    <3>1. AfterRead(x) = IF x \in Lockers THEN start("set.get") ELSE Idle
      BY <1>4, <2>2, AfterReadIs
    <3>2. x \in Lockers => Becomes(x, start("set.get"))
      BY <1>1, StartBecomes
    <3>3. Becomes(x, Idle)
      BY StartBecomes
    <3> HIDE DEF start
    <3> QED BY <3>1, <3>2, <3>3
  <2> QED BY <2>1, <2>2
<1>5. CASE proc[x].pc \in {"set.again", "rel.again"}
  <2> DEFINE pc == IF proc[x].pc = "set.again" THEN "set.put" ELSE "rel.put"
             s == ReadTo(x, pc)
  <2>1. AfterRead(x) = s
    BY <1>5, AfterReadIs
  <2>2. pc \in PCs
    BY DEF PCs, Writes
  <2>3. s \in ProcStates /\ s.pc = pc /\ s.fresh /\ s.reg = reg /\ s.stamp = now /\ s.tries > 0
    <3> HIDE DEF pc
    <3> QED BY <1>0, <1>5, <2>2, ReadToTyped DEF KnownCall
  <2> HIDE DEF s
  <2>4. /\ ViewOf(x, s) = ViewOf(x, proc[x]) /\ ViewOf(x, s) \in {"free", "held"}
        /\ BlindOf(s)
    BY <1>5, <2>3, ViewIs DEF Writes
  <2>5. x \in Releasers => s.pc = "rel.put"
    BY <1>1, <1>5, <2>3
  <2>6. KnownCall(x, s) /\ SoundCopy(s)
    BY <1>0, <2>3, <2>5 DEF KnownCall, SoundCopy, InRelease
  <2>7. Moves(x, s)
    BY <2>4 DEF Moves
  <2> QED BY <2>1, <2>3, <2>6, <2>7 DEF Becomes
<1> QED BY <1>2, <1>3, <1>4, <1>5 DEF Reads

LEMMA LocalIs ==
  ASSUME CallsInv, NEW x \in Procs, LocalStep(x)
  PROVE  /\ UNCHANGED <<lock, reg, now, holders, forced>>
         /\ \E s : proc' = [proc EXCEPT ![x] = s] /\ Becomes(x, s)
<1>0. Lockers \cap Releasers = {}
  BY ConstantsAssumption
<1>1. UNCHANGED <<lock, reg, now, holders, forced>>
  BY DEF LocalStep, StartLock, StartRelease, Get, GetFails, UpdateFails
<1>2. CASE x \in Lockers /\ StartLock(x)
  <2>1. proc' = [proc EXCEPT ![x] = [Idle EXCEPT !.pc = "lock.get"]]
    BY <1>2 DEF StartLock
  <2> QED BY <1>0, <1>1, <1>2, <2>1, StartBecomes
<1>3. CASE x \in Releasers /\ StartRelease(x)
  <2>1. proc' = [proc EXCEPT ![x] = [Idle EXCEPT !.pc = "rel.get"]]
    BY <1>3 DEF StartRelease
  <2> QED BY <1>1, <1>3, <2>1, StartBecomes
<1>4. CASE Get(x)
  BY <1>1, <1>4, GetBecomes DEF Get
<1>5. CASE GetFails(x)
  <2>1. proc' = [proc EXCEPT ![x] = IF proc[x].pc \in {"set.again", "rel.again"}
                                    THEN Retry(x) ELSE Idle]
    BY <1>5 DEF GetFails
  <2>2. Becomes(x, Idle)
    BY StartBecomes
  <2> QED BY <1>1, <2>1, <2>2, RetryBecomes
<1>6. CASE UpdateFails(x)
  BY <1>1, <1>6, RetryBecomes DEF UpdateFails
<1> QED BY <1>2, <1>3, <1>4, <1>5, <1>6 DEF LocalStep

\* Both outcomes of a write that the server accepts.
LEMMA AcceptedIs ==
  ASSUME CallsInv, NEW x \in Procs, Update(x) \/ UpdateLost(x)
  PROVE  /\ proc[x].pc \in Writes /\ proc[x].fresh /\ now' = now /\ reg' = reg
         /\ \E next \in {Done(x), Retry(x)} : Write(x, next)
         /\ lock' = IF proc[x].pc = "set.put" THEN [by |-> x, at |-> proc[x].stamp] ELSE NoLock
         /\ forced' = (forced \/ (proc[x].tries > 0 /\ Trespasses(x)))
         /\ proc[x].pc = "set.put" => x \in Lockers /\ holders' \in {holders, holders \cup {x}}
         /\ proc[x].pc = "rel.put" => holders' = Released(x)
<1>1. /\ proc[x].pc \in Writes /\ now' = now
      /\ \E next \in {Done(x), Retry(x)} : Write(x, next)
  BY Zenon DEF Update, UpdateLost
<1>2. /\ proc[x].fresh /\ reg' = proc[x].reg
      /\ lock' = IF proc[x].pc = "set.put" THEN [by |-> x, at |-> proc[x].stamp] ELSE NoLock
      /\ forced' = (forced \/ (proc[x].tries > 0 /\ Trespasses(x)))
  BY <1>1, Zenon DEF Write, Current
<1>3. proc[x].pc = "set.put" => x \in Lockers
  BY DEF CallsInv, KnownCall, InRelease, Procs
<1>4. /\ proc[x].pc = "set.put" => holders' \in {holders, holders \cup {x}}
      /\ proc[x].pc = "rel.put" => holders' = Released(x)
  BY DEF Update, UpdateLost
<1> QED BY <1>1, <1>2, <1>3, <1>4 DEF CallsInv, KnownCall

\* A patch of the registration leaves every copy stale, and nothing else of a call changed.
LEMMA PatchIs ==
  ASSUME TypeOK, PatchRegistration
  PROVE  /\ proc' \in [Procs -> ProcStates]
         /\ \A y \in Procs : /\ ~proc'[y].fresh /\ proc'[y].pc = proc[y].pc
                              /\ proc'[y].tries = proc[y].tries /\ proc'[y].stamp = proc[y].stamp
<1>1. proc' = [y \in Procs |-> [proc[y] EXCEPT !.fresh = FALSE]]
  BY DEF PatchRegistration
<1>2. ASSUME NEW y \in Procs
      PROVE  LET s == [proc[y] EXCEPT !.fresh = FALSE]
             IN  /\ s \in ProcStates /\ ~s.fresh /\ s.pc = proc[y].pc
                 /\ s.tries = proc[y].tries /\ s.stamp = proc[y].stamp
  <2>1. proc[y] \in ProcStates
    BY DEF TypeOK, ProcStates, PCs
  <2> QED BY <2>1 DEF ProcStates
<1> QED BY <1>1, <1>2

LEMMA CallsInvInit == Init => CallsInv
<1> SUFFICES ASSUME Init PROVE CallsInv
  OBVIOUS
<1>1. proc \in [Procs -> ProcStates] /\ \A x \in Procs : proc[x] = Idle
  BY IdleTyped DEF Init
<1>2. lock \in Locks /\ reg \in 0 .. MaxPatches /\ now = 0 /\ now \in 0 .. MaxTime
      /\ holders = {} /\ forced = FALSE
  BY ConstantsAssumption DEF Init, Locks
<1>3. TypeOK
  BY <1>1, <1>2 DEF TypeOK, ProcStates, PCs
<1> QED BY <1>1, <1>2, <1>3, IdleTyped DEF CallsInv, KnownCall, SoundCopy

LEMMA CallsInvNext == CallsInv /\ [Next]_vars => CallsInv'
<1> SUFFICES ASSUME CallsInv, [Next]_vars PROVE CallsInv'
  OBVIOUS
<1>0. /\ proc \in [Procs -> ProcStates] /\ lock \in Locks /\ reg \in 0 .. MaxPatches
      /\ now \in 0 .. MaxTime /\ now \in Nat /\ holders \subseteq Lockers /\ forced \in BOOLEAN
  BY ConstantsAssumption DEF CallsInv, TypeOK, ProcStates, PCs
<1>1. ASSUME NEW x \in Procs, LocalStep(x)
      PROVE  CallsInv'
  <2>1. UNCHANGED <<lock, reg, now, holders, forced>>
    BY <1>1, LocalIs
  <2>2. PICK s : proc' = [proc EXCEPT ![x] = s] /\ Becomes(x, s)
    BY <1>1, LocalIs
  <2>3. /\ proc' \in [Procs -> ProcStates]
        /\ proc'[x] = s /\ \A y \in Procs \ {x} : proc'[y] = proc[y]
    BY <1>0, <2>2 DEF Becomes
  <2>4. TypeOK'
    BY <1>0, <2>1, <2>3 DEF TypeOK, ProcStates, PCs
  <2>5. ASSUME NEW y \in Procs
        PROVE  (KnownCall(y, proc[y]) /\ SoundCopy(proc[y]))'
    <3>1. KnownCall(y, proc'[y]) /\ SoundCopy(proc'[y])
      BY <2>2, <2>3 DEF CallsInv, Becomes
    <3> QED BY <2>1, <3>1 DEF KnownCall, SoundCopy
  <2> QED BY <2>4, <2>5 DEF CallsInv
<1>2. ASSUME NEW x \in Procs, Update(x) \/ UpdateLost(x)
      PROVE  CallsInv'
  <2>1. PICK next \in {Done(x), Retry(x)} : Write(x, next)
    BY <1>2, AcceptedIs
  <2>2. /\ next \in ProcStates /\ next.stamp <= now
        /\ next.fresh => next.reg = reg /\ next.tries > 0
        /\ next.pc \in {"set.get", "rel.get"} => next.tries = 0
        /\ next.pc \in {"set.again", "rel.again"} => next.tries > 0
        /\ x \in Releasers => next.pc \in {"idle"} \cup InRelease
    <3>1. proc[x].pc \in Writes /\ KnownCall(x, proc[x]) /\ TypeOK
      BY <1>2, AcceptedIs DEF CallsInv
    <3>2. CASE next = Done(x)
      BY <1>0, <3>1, <3>2, DoneIs, ConstantsAssumption
    <3>3. CASE next = Retry(x)
      BY <1>0, <3>1, <3>3, RetryIs, IdleTyped DEF KnownCall, InRelease
    <3> QED BY <3>2, <3>3
  <2>3. /\ proc' \in [Procs -> ProcStates]
        /\ proc'[x].pc = next.pc /\ proc'[x].fresh = next.fresh /\ proc'[x].reg = next.reg
        /\ proc'[x].tries = next.tries /\ proc'[x].stamp = next.stamp
        /\ \A y \in Procs \ {x} :
             /\ proc'[y].pc = proc[y].pc /\ ~proc'[y].fresh
             /\ proc'[y].tries = proc[y].tries /\ proc'[y].stamp = proc[y].stamp
    BY <2>1, <2>2, WriteIs DEF CallsInv
  <2>4. proc[x] \in ProcStates /\ reg' = reg /\ now' = now /\ proc[x].pc \in Writes
    BY <1>0, <1>2, AcceptedIs
  <2>5. lock' \in Locks
    BY <1>2, <2>4, AcceptedIs DEF Locks, ProcStates
  <2>6. holders' \subseteq Lockers
    BY <1>0, <1>2, <2>4, AcceptedIs DEF Released, Writes
  <2>7. forced' \in BOOLEAN
    BY <1>2, AcceptedIs
  <2>8. TypeOK'
    BY <1>0, <2>3, <2>4, <2>5, <2>6, <2>7 DEF TypeOK, ProcStates, PCs
  <2>9. ASSUME NEW y \in Procs
        PROVE  (KnownCall(y, proc[y]) /\ SoundCopy(proc[y]))'
    <3>1. CASE y = x
      BY <2>2, <2>3, <2>4, <3>1 DEF KnownCall, SoundCopy
    <3>2. CASE y # x
      <4>1. KnownCall(y, proc[y])
        BY DEF CallsInv
      <4> QED BY <2>3, <2>4, <3>2, <4>1 DEF KnownCall, SoundCopy
    <3> QED BY <3>1, <3>2
  <2> QED BY <2>8, <2>9 DEF CallsInv
<1>3. CASE PatchRegistration
  <2>2. /\ proc' = [y \in Procs |-> [proc[y] EXCEPT !.fresh = FALSE]]
        /\ reg' = reg + 1 /\ reg < MaxPatches /\ UNCHANGED <<lock, now, holders, forced>>
    BY <1>3 DEF PatchRegistration
  <2>3. /\ proc' \in [Procs -> ProcStates]
        /\ \A y \in Procs : /\ ~proc'[y].fresh /\ proc'[y].pc = proc[y].pc
                             /\ proc'[y].tries = proc[y].tries /\ proc'[y].stamp = proc[y].stamp
    BY <1>3, PatchIs DEF CallsInv
  <2>4. reg' \in 0 .. MaxPatches
    BY <1>0, <2>2, ConstantsAssumption
  <2>5. TypeOK'
    BY <1>0, <2>2, <2>3, <2>4 DEF TypeOK, ProcStates, PCs
  <2>6. ASSUME NEW y \in Procs
        PROVE  (KnownCall(y, proc[y]) /\ SoundCopy(proc[y]))'
    <3>1. KnownCall(y, proc[y])
      BY DEF CallsInv
    <3> QED BY <2>2, <2>3, <3>1 DEF KnownCall, SoundCopy
  <2> QED BY <2>5, <2>6 DEF CallsInv
<1>4. CASE Tick
  <2>1. /\ now' = now + 1 /\ now' \in 0 .. MaxTime
        /\ UNCHANGED <<lock, reg, proc, holders, forced>>
    BY <1>0, <1>4, ConstantsAssumption DEF Tick
  <2>2. TypeOK'
    BY <2>1 DEF CallsInv, TypeOK, Locks
  <2>3. ASSUME NEW y \in Procs
        PROVE  (KnownCall(y, proc[y]) /\ SoundCopy(proc[y]))'
    <3>1. KnownCall(y, proc[y]) /\ SoundCopy(proc[y]) /\ proc[y].stamp \in Int
      BY <1>0 DEF CallsInv, ProcStates
    <3> QED BY <1>0, <2>1, <3>1 DEF KnownCall, SoundCopy
  <2> QED BY <2>2, <2>3 DEF CallsInv
<1>5. CASE UNCHANGED vars
  <2>1. UNCHANGED <<lock, reg, now, proc, holders, forced>>
    BY <1>5 DEF vars
  <2> QED BY <2>1 DEF CallsInv, TypeOK, Locks, KnownCall, SoundCopy
<1> QED
  BY <1>1, <1>2, <1>3, <1>4, <1>5 DEF Next, Step, LocalStep, Procs

LEMMA CallsInvAlways == Spec => []CallsInv
BY CallsInvInit, CallsInvNext, PTL DEF Spec

\* Every variable has its type, and no call makes more attempts than MaxLockRetry
\* (setNodeLock, ReleaseNodeLock).
THEOREM TypeCorrect == Spec => []TypeOK
<1>1. CallsInv => TypeOK
  BY DEF CallsInv
<1> QED BY <1>1, CallsInvAlways, PTL

-----------------------------------------------------------------------------
(* The registration annotation.                                              *)

LEMMA RegistrationStays ==
  ASSUME CallsInv, Next
  PROVE  reg' >= reg
<1>0. reg \in Nat
  BY ConstantsAssumption DEF CallsInv, TypeOK
<1>1. ASSUME NEW x \in Procs, LocalStep(x) \/ Update(x) \/ UpdateLost(x)
      PROVE  reg' = reg
  BY <1>1, LocalIs, AcceptedIs
<1>2. CASE PatchRegistration
  BY <1>0, <1>2 DEF PatchRegistration
<1>3. CASE Tick
  BY <1>0, <1>3 DEF Tick
<1> QED BY <1>0, <1>1, <1>2, <1>3 DEF Next, Step, LocalStep, Procs

\* However many callers write the object, crash into each other or lose replies, the
\* copy of the registration in what they send back is the current one: a write of an
\* older copy is refused (LockNode, ReleaseNodeLock, PatchNodeAnnotations).
THEOREM RegistrationIsKept == Spec => NoLostRegistration
<1>1. CallsInv /\ Next => reg' >= reg
  BY RegistrationStays
<1> QED BY <1>1, CallsInvInit, CallsInvNext, PTL DEF Spec, NoLostRegistration

-----------------------------------------------------------------------------
(* The lock.                                                                 *)

OwnedInv == CallsInv /\ (forced \/ HolderIsRecorded)

\* Unless a retry trespasses, a write keeps the record of the holder: the lock is free
\* when it is taken, and found by the call that removes it.
LEMMA WriteKeepsOwner ==
  ASSUME OwnedInv, NEW x \in Procs, Update(x) \/ UpdateLost(x)
  PROVE  (forced \/ HolderIsRecorded)'
<1> SUFFICES ASSUME ~forced'
             PROVE  HolderIsRecorded'
  OBVIOUS
<1>1. /\ ~forced /\ ~(proc[x].tries > 0 /\ Trespasses(x))
      /\ proc[x].pc \in Writes /\ proc[x].fresh
      /\ holders \subseteq {lock.by} /\ holders \subseteq Lockers
  BY AcceptedIs DEF OwnedInv, CallsInv, TypeOK, HolderIsRecorded
<1>2. SoundCopy(proc[x]) /\ proc[x].tries \in Nat
  BY ConstantsAssumption DEF OwnedInv, CallsInv, TypeOK
<1>3. NoLock.by = "none" /\ "none" \notin Lockers
  BY ConstantsAssumption DEF NoLock
<1>4. CASE proc[x].pc = "set.put"
  <2>1. lock = NoLock \/ lock.by = x
    BY <1>1, <1>2, <1>4 DEF SoundCopy, Trespasses
  <2>2. holders \subseteq {x}
    BY <1>1, <1>3, <2>1
  <2>3. lock'.by = x /\ holders' \in {holders, holders \cup {x}}
    BY <1>4, AcceptedIs DEF OwnedInv
  <2> QED BY <2>2, <2>3 DEF HolderIsRecorded
<1>5. CASE proc[x].pc = "rel.put"
  <2>1. lock = NoLock \/ proc[x].found
    BY <1>1, <1>2, <1>5 DEF SoundCopy, Trespasses
  <2>2. lock' = NoLock /\ holders' = Released(x)
    BY <1>5, AcceptedIs DEF OwnedInv
  <2>3. holders' = {}
    BY <1>1, <1>3, <2>1, <2>2 DEF Released
  <2> QED BY <2>3 DEF HolderIsRecorded
<1> QED BY <1>1, <1>4, <1>5 DEF Writes

LEMMA OwnedNext == OwnedInv /\ [Next]_vars => OwnedInv'
<1> SUFFICES ASSUME OwnedInv, [Next]_vars PROVE OwnedInv'
  OBVIOUS
<1>1. CallsInv /\ CallsInv'
  BY CallsInvNext DEF OwnedInv
<1>2. ASSUME NEW x \in Procs, LocalStep(x)
      PROVE  (forced \/ HolderIsRecorded)'
  BY <1>1, <1>2, LocalIs DEF OwnedInv, HolderIsRecorded
<1>3. ASSUME PatchRegistration \/ Tick \/ UNCHANGED vars
      PROVE  (forced \/ HolderIsRecorded)'
  BY <1>3 DEF PatchRegistration, Tick, vars, OwnedInv, HolderIsRecorded
<1>4. (forced \/ HolderIsRecorded)'
  BY <1>2, <1>3, WriteKeepsOwner DEF Next, Step, LocalStep, Procs
<1> QED BY <1>1, <1>4 DEF OwnedInv

\* Whoever and however many lock and release, and whatever fails: a first attempt takes
\* a free lock or removes the one its call found, and the lock has one owner, the
\* annotation standing for it, as long as no retry has trespassed (LockNode, setNodeLock,
\* ReleaseNodeLock).
THEOREM LockHasItsOwner == Spec => []LockIsOwned
<1>1. Init => OwnedInv
  BY CallsInvInit DEF OwnedInv, Init, HolderIsRecorded
<1>2. OwnedInv => LockIsOwned
  BY DEF OwnedInv, CallsInv, SoundCopy, LockIsOwned, FirstTryIsSafe
<1> QED BY <1>1, <1>2, OwnedNext, PTL DEF Spec

-----------------------------------------------------------------------------
(* The refinement of LeaseLock.                                              *)

LEMMA CallersAre == Lock!Callers = Procs
BY DEF Lock!Callers, Procs

LEMMA LockInit == Init => Lock!Init
<1> SUFFICES ASSUME Init PROVE Lock!Init
  OBVIOUS
<1>1. \A x \in Procs : ViewOf(x, proc[x]) = "none" /\ BlindOf(proc[x]) = FALSE
  BY IdleTyped, ViewIs DEF Init
<1>2. View = [x \in Procs |-> "none"] /\ Blind = [x \in Procs |-> FALSE]
  BY <1>1 DEF View, Blind
<1>3. lock \in {NoLock, Garbled} /\ now = 0
  BY DEF Init
<1> QED BY <1>2, <1>3, CallersAre DEF Lock!Init

LEMMA LockLocal ==
  ASSUME CallsInv, NEW x \in Procs, LocalStep(x)
  PROVE  [Lock!Next]_(Lock!vars)
<1>1. PICK s : proc' = [proc EXCEPT ![x] = s] /\ Becomes(x, s)
  BY LocalIs
<1>2. UNCHANGED <<lock, now>> /\ proc \in [Procs -> ProcStates]
  BY LocalIs DEF CallsInv, TypeOK, ProcStates, PCs
<1>3. proc'[x] = s /\ \A y \in Procs \ {x} : proc'[y] = proc[y]
  BY <1>1, <1>2
<1>4. View' = [View EXCEPT ![x] = ViewOf(x, s)] /\ Blind' = [Blind EXCEPT ![x] = BlindOf(s)]
  BY <1>3 DEF View, Blind
<1>5. BlindOf(s) \in BOOLEAN /\ Blind \in [Procs -> BOOLEAN] /\ View[x] = ViewOf(x, proc[x])
  BY ViewIs DEF Blind, View
<1>6. ~BlindOf(s) => Lock!Look(x, ViewOf(x, s))
  BY <1>2, <1>4, <1>5 DEF Lock!Look
<1>7. CASE ViewOf(x, s) = "none" /\ ~BlindOf(s)
  BY <1>6, <1>7, CallersAre DEF Lock!Next, Lock!Leave
<1>8. CASE ViewOf(x, s) = "expired" /\ ~BlindOf(s) /\ Expired
  <2>1. x \in Lockers
    BY <1>8 DEF ViewOf
  <2> QED BY <1>6, <1>8, <2>1 DEF Lock!Next, Lock!SeeExpired, Expired
<1>9. CASE ViewOf(x, s) = "free" /\ ~BlindOf(s) /\ lock = NoLock /\ x \in Lockers
  BY <1>6, <1>9 DEF Lock!Next, Lock!SeeFree
<1>10. CASE /\ ViewOf(x, s) = "held" /\ ~BlindOf(s) /\ lock # NoLock
            /\ x \in Releasers \/ ViewOf(x, proc[x]) = "expired"
  BY <1>5, <1>6, <1>10, CallersAre DEF Lock!Next, Lock!SeeHeld
<1>11. CASE ViewOf(x, s) = ViewOf(x, proc[x]) /\ ViewOf(x, s) \in {"free", "held"} /\ BlindOf(s)
  <2>1. View' = View
    BY <1>4, <1>11 DEF View
  <2>2. ASSUME NEW y \in Procs
        PROVE  Blind'[y] = (Blind[y] \/ (y \in {x} /\ View[y] \in {"free", "held"}))
    <3>1. CASE y = x
      <4>1. Blind'[y] = BlindOf(s) /\ View[y] \in {"free", "held"}
        BY <1>4, <1>5, <1>11, <3>1
      <4> QED BY <1>5, <1>11, <3>1, <4>1
    <3>2. CASE y # x
      <4>1. Blind'[y] = Blind[y] /\ Blind[y] \in BOOLEAN
        BY <1>4, <1>5, <3>2
      <4> QED BY <3>2, <4>1
    <3> QED BY <3>1, <3>2
  <2>3. Blind' = [y \in Procs |-> Blind[y] \/ (y \in {x} /\ View[y] \in {"free", "held"})]
    BY <2>2 DEF Blind
  <2>4. Lock!Disturb({x})
    BY <1>2, <2>1, <2>3, CallersAre DEF Lock!Disturb
  <2> QED BY <2>4, CallersAre DEF Lock!Next
<1> QED BY <1>1, <1>7, <1>8, <1>9, <1>10, <1>11 DEF Becomes, Moves

\* A write takes the lock or gives it up; every call that meant to act is disturbed by it.
LEMMA LockWrite ==
  ASSUME CallsInv, NEW x \in Procs, Update(x) \/ UpdateLost(x)
  PROVE  Lock!Next
<1>1. PICK next \in {Done(x), Retry(x)} : Write(x, next)
  BY AcceptedIs
<1>2. /\ proc[x].pc \in Writes /\ proc[x].fresh /\ now' = now /\ TypeOK
      /\ KnownCall(x, proc[x]) /\ SoundCopy(proc[x])
  BY AcceptedIs DEF CallsInv
<1>3. /\ next \in ProcStates
      /\ \/ next.pc \in {"idle", "set.get"}
         \/ next.pc = IF proc[x].pc = "set.put" THEN "set.again" ELSE "rel.again"
  BY <1>2, DoneIs, RetryIs, IdleTyped DEF Writes
<1>4. /\ proc'[x].pc = next.pc
      /\ \A y \in Procs \ {x} : proc'[y].pc = proc[y].pc /\ ~proc'[y].fresh
      /\ proc' \in [Procs -> ProcStates]
  BY <1>1, <1>2, <1>3, WriteIs
<1>5. ASSUME NEW y \in Procs \ {x}
      PROVE  ViewOf(y, proc'[y]) = ViewOf(y, proc[y])
  BY <1>4 DEF ViewOf
<1>6. /\ ViewOf(x, proc[x]) = IF proc[x].pc = "set.put" THEN "free" ELSE "held"
      /\ ViewOf(x, proc'[x]) \in {"none", ViewOf(x, proc[x])}
  BY <1>2, <1>3, <1>4, ViewIs DEF Writes
<1>7. \/ View' = [View EXCEPT ![x] = "none"]
      \/ View' = View
  BY <1>5, <1>6 DEF View
<1>8. ASSUME NEW y \in Procs
      PROVE  BlindOf(proc'[y]) = (ViewOf(y, proc'[y]) \in {"free", "held"})
  <2>1. CASE y = x
    BY <1>3, <1>4, <2>1, ViewIs
  <2>2. CASE y # x
    <3>1. ~proc'[y].fresh /\ proc'[y].pc \in PCs
      BY <1>4, <2>2 DEF ProcStates
    <3> QED BY <3>1, ViewIs DEF PCs, Reads, Writes
  <2> QED BY <2>1, <2>2
<1>9. Blind' = [y \in Procs |-> View'[y] \in {"free", "held"}]
  BY <1>8 DEF Blind, View
<1>10. Lock!Change(x)
  BY <1>2, <1>7, <1>9, CallersAre DEF Lock!Change
<1>11. View[x] = ViewOf(x, proc[x]) /\ Blind[x] = BlindOf(proc[x])
  BY DEF View, Blind
<1>12. /\ proc[x].tries \in Nat /\ proc[x].stamp \in 0 .. now
  BY <1>2, ConstantsAssumption DEF KnownCall, TypeOK
<1>13. ~Blind[x] => proc[x].tries = 0
  BY <1>2, <1>11, <1>12, ViewIs
<1>14. CASE proc[x].pc = "set.put"
  <2>1. x \in Lockers /\ lock' = [by |-> x, at |-> proc[x].stamp]
    BY <1>14, AcceptedIs
  <2>2. View[x] = "free" /\ (Blind[x] \/ lock = NoLock)
    BY <1>2, <1>6, <1>11, <1>13, <1>14 DEF SoundCopy
  <2> QED BY <1>10, <1>12, <2>1, <2>2 DEF Lock!Next, Lock!Take
<1>15. CASE proc[x].pc = "rel.put"
  <2>1. lock' = NoLock
    BY <1>15, AcceptedIs
  <2>2. View[x] = "held" /\ (Blind[x] \/ lock # NoLock)
    BY <1>2, <1>6, <1>11, <1>13, <1>15 DEF SoundCopy
  <2> QED BY <1>10, <2>1, <2>2, CallersAre DEF Lock!Next, Lock!Give
<1> QED BY <1>2, <1>14, <1>15 DEF Writes

LEMMA LockPatch ==
  ASSUME CallsInv, PatchRegistration
  PROVE  Lock!Next
<1>1. UNCHANGED <<lock, now>> /\ TypeOK
  BY DEF PatchRegistration, CallsInv
<1>2. /\ \A y \in Procs : ~proc'[y].fresh /\ proc'[y].pc = proc[y].pc
      /\ proc' \in [Procs -> ProcStates]
  BY <1>1, PatchIs
<1>3. View' = View
  BY <1>2 DEF View, ViewOf
<1>4. ASSUME NEW y \in Procs
      PROVE  BlindOf(proc'[y]) =
               (BlindOf(proc[y]) \/ (y \in Procs /\ ViewOf(y, proc[y]) \in {"free", "held"}))
  <2>1. proc'[y].pc \in PCs /\ proc'[y].pc = proc[y].pc /\ ~proc'[y].fresh
    BY <1>2 DEF ProcStates
  <2> QED BY <2>1, ViewIs DEF PCs, Reads, Writes
<1>5. Blind' = [y \in Procs |-> Blind[y] \/ (y \in Procs /\ View[y] \in {"free", "held"})]
  BY <1>4 DEF Blind, View
<1>6. Lock!Disturb(Procs)
  BY <1>1, <1>3, <1>5, CallersAre DEF Lock!Disturb
<1> QED BY <1>6, CallersAre DEF Lock!Next

LEMMA LockNext ==
  ASSUME CallsInv, [Next]_vars
  PROVE  [Lock!Next]_(Lock!vars)
<1>1. CASE Tick
  BY <1>1 DEF Tick, Lock!Next, Lock!Tick, View, Blind
<1>2. CASE UNCHANGED vars
  BY <1>2 DEF vars, Lock!vars, View, Blind
<1> QED
  BY <1>1, <1>2, LockLocal, LockWrite, LockPatch DEF Next, Step, LocalStep, Procs

\* Requests that may fail, conflict, be lost and be repeated on an annotation anybody can
\* write behave like a lock with a lease on which callers look before they act: every step
\* looks, disturbs, takes the lock, gives it up or is invisible.
THEOREM LeaseLockIsImplemented == Spec => ImplementsLeaseLock
<1>1. CallsInv /\ [Next]_vars => [Lock!Next]_(Lock!vars)
  BY LockNext
<1> QED BY <1>1, LockInit, CallsInvAlways, PTL DEF Spec, ImplementsLeaseLock, Lock!Spec
=============================================================================
