------------------------- MODULE MCDependencyGraph -------------------------
(* All catalogs of a few CRDs, a dependency on an unknown CRD included.    *)
EXTENDS DependencyGraph
=============================================================================
