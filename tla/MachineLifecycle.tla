-------------------------- MODULE MachineLifecycle --------------------------
(***************************************************************************)
(* What the machine controller promises of each NvidiaBMMMachine (spec     *)
(* 4.5 and the gate enforcement of spec 8).  A machine waits for its       *)
(* cluster to be Ready and then for its bootstrap data; only then is it    *)
(* taken under management by its finalizer, gets an instance, which is     *)
(* polled until Ready.  A deleted machine is released and then gone; one   *)
(* deleted before it has a finalizer is gone at once.                      *)
(*                                                                         *)
(* Becoming Ready is the platform's business (an instance may end in       *)
(* Error and be polled forever), and creating the instance needs platform  *)
(* capacity, so neither is promised; taking a machine under management     *)
(* once its gates are met, and finishing a deletion, are.                  *)
(***************************************************************************)
CONSTANT Machines

VARIABLE mphase

MPhases == {"WaitingForCluster", "WaitingForBootstrap", "Unmanaged",
            "Provisioning", "Polling", "Ready", "Deleting", "Gone"}

Waiting == {"WaitingForCluster", "WaitingForBootstrap", "Unmanaged"}

MLifecycleTypeOK == mphase \in [Machines -> MPhases]

MLifecycleInit == mphase \in [Machines -> {"WaitingForCluster"}]

Move(m, from, to) == mphase[m] \in from /\ mphase' = [mphase EXCEPT ![m] = to]

(* The cluster becomes Ready, for all its waiting machines at once; each  *)
(* may already have its bootstrap data.                                    *)
ClusterReady ==
    LET waiting == {m \in Machines : mphase[m] = "WaitingForCluster"}
    IN /\ waiting # {}
       /\ \E next \in [waiting -> {"WaitingForBootstrap", "Unmanaged"}] :
            mphase' = [m \in Machines |-> IF m \in waiting THEN next[m]
                                                         ELSE mphase[m]]

\* The bootstrap provider sets the data secret's name.
BootstrapReady(m) == Move(m, {"WaitingForBootstrap"}, "Unmanaged")

\* Both gates are met and the finalizer is attached.
Manage(m) == Move(m, {"Unmanaged"}, "Provisioning")

\* The instance is created and its ID cached.
Provision(m) == Move(m, {"Provisioning"}, "Polling")

\* The instance was seen in its terminal Ready state.
BecomeReady(m) == Move(m, {"Polling"}, "Ready")

StartDelete(m) == Move(m, {"Provisioning", "Polling", "Ready"}, "Deleting")

\* Deleted before the finalizer: the object goes at once.
Drop(m) == Move(m, Waiting, "Gone")

Finish(m) == Move(m, {"Deleting"}, "Gone")

MLifecycleNext ==
    \/ ClusterReady
    \/ \E m \in Machines :
        \/ BootstrapReady(m) \/ Manage(m) \/ Provision(m)
        \/ BecomeReady(m) \/ StartDelete(m) \/ Drop(m) \/ Finish(m)

MLifecycleSpec ==
    /\ MLifecycleInit
    /\ [][MLifecycleNext]_mphase
    /\ \A m \in Machines : WF_mphase(Manage(m)) /\ WF_mphase(Finish(m))
=============================================================================
