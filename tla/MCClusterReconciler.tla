------------------------- MODULE MCClusterReconciler -------------------------
(* Model values for ClusterReconciler: a cluster declaring two subnets,    *)
(* "control-plane" and "worker", in that order, or three with a second    *)
(* worker subnet between them.                                            *)
EXTENDS ClusterReconciler

CONSTANTS cp, worker, worker2

MCSubnetOrder == <<cp, worker>>

MCSubnetOrder3 == <<cp, worker2, worker>>
=============================================================================
