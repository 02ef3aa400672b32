---------------------------- MODULE MCNodeLock ----------------------------
(* A small instance of NodeLock.                                           *)
EXTENDS NodeLock

MCFaults == FaultKinds
=============================================================================
