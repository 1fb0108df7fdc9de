--------------------------- MODULE StagedTeardown ---------------------------
(***************************************************************************)
(* What the runtime promises about a custom resource and the resources it  *)
(* provisions for it: nothing is provisioned for a custom resource that no *)
(* longer exists; a resource is deleted only after the deletion of its     *)
(* custom resource has begun, and only once everything that has to go      *)
(* before it has gone; and the custom resource itself goes last.           *)
(*                                                                         *)
(* Lifecycle implements this specification (README.md).                    *)
(***************************************************************************)
EXTENDS FiniteSets

CONSTANTS Resources,   \* what one custom resource provisions
          Before,      \* Before[r]: what must be gone before r is deleted
          Awaited,     \* what must be gone before the custom resource goes
          Requested    \* what must at least have been asked to go

VARIABLES life,        \* "live", "deleting" or "gone": the custom resource
          left,        \* the resources that exist
          doomed       \* those of them whose deletion has been requested

vars == <<life, left, doomed>>

Init == life = "live" /\ left = {} /\ doomed = {}

Provision ==
    /\ life # "gone"
    /\ \E S \in SUBSET Resources : left' = left \cup S
    /\ UNCHANGED <<life, doomed>>

Doom ==
    /\ life # "live"
    /\ \E S \in SUBSET left :
          /\ \A r \in S : Before[r] \cap left = {}
          /\ doomed' = doomed \cup S
    /\ UNCHANGED <<life, left>>

Vanish ==
    /\ \E r \in doomed : left' = left \ {r} /\ doomed' = doomed \ {r}
    /\ UNCHANGED life

Condemn ==
    /\ life = "live" /\ life' = "deleting"
    /\ UNCHANGED <<left, doomed>>

End ==
    /\ life # "gone" /\ life' = "gone"
    /\ Awaited \cap left = {}
    /\ Requested \cap left \subseteq doomed
    /\ UNCHANGED <<left, doomed>>

Next == Provision \/ Doom \/ Vanish \/ Condemn \/ End

Spec == Init /\ [][Next]_vars
=============================================================================
