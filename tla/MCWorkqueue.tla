---------------------------- MODULE MCWorkqueue ----------------------------
(***************************************************************************)
(* Workqueue on small instances.  Each configuration names the events that *)
(* arrive, the declared queue behaviour and what happens to the pool.      *)
(***************************************************************************)
EXTENDS Workqueue, TLC

KindsAll == {"plain", "coalesced", "aware"}
=============================================================================
