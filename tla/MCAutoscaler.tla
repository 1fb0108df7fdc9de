---------------------------- MODULE MCAutoscaler ----------------------------
(* Two activations of a CRD that share two overrides.                      *)
EXTENDS Autoscaler
=============================================================================
