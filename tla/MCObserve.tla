----------------------------- MODULE MCObserve ------------------------------
(***************************************************************************)
(* One CR and one watched object that no CR owns, so that its changes are  *)
(* broadcast; neither, the CR or the watched object is in a restricted     *)
(* namespace.                                                              *)
(***************************************************************************)
EXTENDS Observe, TLC

CONSTANTS k1, s1, a, b

NoOwners == [s \in Secondaries |-> Nobody]
=============================================================================
