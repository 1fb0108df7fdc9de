---------------------------- MODULE MCLifecycle ----------------------------
(***************************************************************************)
(* Lifecycle with three deletion stages, the second one conditional, and   *)
(* one cluster-scoped resource.                                            *)
(***************************************************************************)
EXTENDS Lifecycle, TLC

CONSTANTS app, job, db, ns

ThreeStages == <<{app}, {job}, {db}>>
OneStage == <<{app}>>
=============================================================================
