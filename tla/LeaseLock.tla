----------------------------- MODULE LeaseLock -----------------------------
(***************************************************************************)
(* What the node lock promises, and no more: a lock with a lease.  A       *)
(* caller looks at the lock before it changes it.  As long as nothing      *)
(* interferes it changes the lock it looked at: it takes one that is free, *)
(* it gives up one that is held.  Whoever was interfered with is blind: it *)
(* may still change the lock, whatever has become of it.  A locker gives   *)
(* up a lock only if it saw one whose lease had run out.  NodeLock is      *)
(* shown to implement this.                                                *)
(***************************************************************************)
EXTENDS Integers

CONSTANTS Lockers,    \* who may take the lock
          Releasers,  \* who may ask for it to be released
          Lease,      \* a lock older than this has expired
          NoLock,
          Garbled     \* a lock without a legible time, which may be there at first

VARIABLES lock,   \* NoLock, Garbled or [by, at]
          now,
          view,   \* view[x]: "free", "held" or "expired" was seen by x, or "none"
          blind   \* blind[x]: x means to act on what it saw, but was interfered with

vars == <<lock, now, view, blind>>

Callers == Lockers \cup Releasers

Init == /\ lock \in {NoLock, Garbled}
        /\ now = 0
        /\ view = [x \in Callers |-> "none"]
        /\ blind = [x \in Callers |-> FALSE]

Look(x, seen) == /\ view' = [view EXCEPT ![x] = seen]
                 /\ blind' = [blind EXCEPT ![x] = FALSE]
                 /\ UNCHANGED <<lock, now>>

SeeFree(l) == lock = NoLock /\ Look(l, "free")

SeeExpired(l) == /\ lock \notin {NoLock, Garbled}
                 /\ now - lock.at > Lease
                 /\ Look(l, "expired")

SeeHeld(x) == /\ lock # NoLock
              /\ x \in Releasers \/ view[x] = "expired"
              /\ Look(x, "held")

Leave(x) == Look(x, "none")

\* Others than those who hold the lock change the object it is kept in, and requests fail.
Disturb(S) == /\ blind' = [x \in Callers |-> blind[x] \/ (x \in S /\ view[x] \in {"free", "held"})]
              /\ UNCHANGED <<lock, now, view>>

\* A change made by x: the others were interfered with, and so was x if it does not
\* hear of its success.
Change(x) == /\ \/ view' = [view EXCEPT ![x] = "none"]
                \/ view' = view
             /\ blind' = [y \in Callers |-> view'[y] \in {"free", "held"}]
             /\ UNCHANGED now

Take(l) == /\ view[l] = "free"
           /\ blind[l] \/ lock = NoLock
           /\ \E t \in 0 .. now : lock' = [by |-> l, at |-> t]
           /\ Change(l)

Give(x) == /\ view[x] = "held"
           /\ blind[x] \/ lock # NoLock
           /\ lock' = NoLock
           /\ Change(x)

Tick == now' = now + 1 /\ UNCHANGED <<lock, view, blind>>

Next == \/ \E l \in Lockers : SeeFree(l) \/ SeeExpired(l) \/ Take(l)
        \/ \E x \in Callers : SeeHeld(x) \/ Give(x) \/ Leave(x)
        \/ \E S \in SUBSET Callers : Disturb(S)
        \/ Tick

Spec == Init /\ [][Next]_vars
=============================================================================
