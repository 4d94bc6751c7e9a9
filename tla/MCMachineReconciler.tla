------------------------- MODULE MCMachineReconciler -------------------------
(* Model values for MachineReconciler: one subnet, a control-plane machine *)
(* and a worker on it.                                                     *)
EXTENDS MachineReconciler

CONSTANTS cp, m1, m2

MCSubnetOrder == <<cp>>
MCControlPlane == {m1}
MCMachineSubnet == [m \in Machines |-> cp]
=============================================================================
