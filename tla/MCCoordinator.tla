--------------------------- MODULE MCCoordinator ---------------------------
(***************************************************************************)
(* Coordinator on a catalog of three CRDs: an application that needs its   *)
(* database healthy and its cache started.                                 *)
(***************************************************************************)
EXTENDS Coordinator, TLC

CONSTANTS db, cache, app

Catalog == {db, cache, app}
Needs == (app :> {db, cache}) @@ (db :> {}) @@ (cache :> {})
NeedsHealthy == {<<app, db>>}
Sorted == <<cache, db, app>>

\* The same without the cache, for the runs in which leadership is lost.
Pair == {db, app}
PairNeeds == (app :> {db}) @@ (db :> {})
PairSorted == <<db, app>>
=============================================================================
