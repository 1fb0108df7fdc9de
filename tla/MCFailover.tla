----------------------------- MODULE MCFailover -----------------------------
(***************************************************************************)
(* Failover on two replicas.  Of the components only those are listed that *)
(* tell the orders of start and shutdown apart: the first and the last.    *)
(***************************************************************************)
EXTENDS Failover, TLC

HS == "http server"
Started == <<HS, "inrun controller">>
=============================================================================
