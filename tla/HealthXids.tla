----------------------------- MODULE HealthXids -----------------------------
(***************************************************************************)
(* Which Xid errors the health check examines (pkg/rm/health.go).  The     *)
(* environment variables DP_DISABLE_HEALTHCHECKS and                       *)
(* DP_ENABLE_HEALTHCHECKS are lists of Xid numbers; together with six      *)
(* hard-coded application errors they become a map from Xids to "ignored". *)
(* A list is given as the set of its entries, whose order has no influence *)
(* on the map: numbers, All for "all" and "xids", Malformed for the rest.  *)
(***************************************************************************)
EXTENDS Integers

CONSTANTS All, Malformed

ASSUME EntriesAssumption ==
  All \in Int \ Nat /\ Malformed \in Int \ Nat /\ All # Malformed

\* The key that stands for every Xid; no error has this number.
allXIDs == 0

\* Application errors: the GPU should still be healthy.
ignoredXids == {13, 31, 43, 45, 68, 109}

\* "all" replaces whatever else the list says.
newHealthCheckXIDs(list) == IF All \in list THEN {allXIDs} ELSE list \cap Nat

\* Mutant of DisabledXids: a disabled Xid stays disabled.
DisabledXidsMutant(disable, enable) ==
  LET off == newHealthCheckXIDs(disable) \cup ignoredXids
  IN [x \in off \cup newHealthCheckXIDs(enable) |-> x \in off]

\* getDisabledHealthCheckXids: what is enabled overrides what is disabled.
DisabledXids(disable, enable) ==
  LET off == newHealthCheckXIDs(disable) \cup ignoredXids
      on == newHealthCheckXIDs(enable)
  IN [x \in off \cup on |-> x \notin on]

IsAllDisabled(map) == allXIDs \in DOMAIN map /\ map[allXIDs]

IsDisabled(map, x) ==
  IF allXIDs \in DOMAIN map /\ ~map[allXIDs] THEN FALSE
  ELSE IF x \in DOMAIN map THEN map[x] ELSE IsAllDisabled(map)

\* What checkHealth makes of the map: nothing is examined if all is disabled, or else
\* every Xid that is not.
Examined(map, x) == ~IsAllDisabled(map) /\ ~IsDisabled(map, x)

\* What the two lists say of Xid x in the words of their documentation: an Xid
\* is examined unless it is an application error or disabled, and an enabled
\* one is examined in any case.
Selected(disable, enable, x) ==
  \/ {x, All} \cap enable # {}
  \/ {x, All} \cap disable = {} /\ x \notin ignoredXids
=============================================================================
