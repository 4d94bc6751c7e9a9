-------------------------- MODULE ClusterLifecycle --------------------------
(***************************************************************************)
(* What the cluster controller promises of one NvidiaBMMCluster (spec      *)
(* 4.4): it is taken under management by its finalizer, converges until   *)
(* it is Ready, and once deleted is released and then gone.  An object     *)
(* deleted before it has a finalizer is gone at once.  Nothing else: the   *)
(* resources themselves are the detailed specification's business.        *)
(***************************************************************************)
VARIABLE phase

Phases == {"Unmanaged", "Converging", "Ready", "Deleting", "Gone"}

LifecycleTypeOK == phase \in Phases

LifecycleInit == phase = "Unmanaged"

\* The finalizer is attached.
Manage == phase = "Unmanaged" /\ phase' = "Converging"

\* Every step of the network succeeded in one pass.
Converge == phase = "Converging" /\ phase' = "Ready"

\* The object is deleted while the controller manages it.
StartDelete == phase \in {"Converging", "Ready"} /\ phase' = "Deleting"

\* The object is deleted before the finalizer is attached.
Drop == phase = "Unmanaged" /\ phase' = "Gone"

\* Every delete succeeded and the finalizer is removed.
Finish == phase = "Deleting" /\ phase' = "Gone"

LifecycleNext == Manage \/ Converge \/ StartDelete \/ Drop \/ Finish

(* The controller keeps reconciling, so taking the object under            *)
(* management, converging and finishing a deletion each happen once they   *)
(* stay possible; deletion itself is the user's choice.                    *)
LifecycleSpec ==
    /\ LifecycleInit
    /\ [][LifecycleNext]_phase
    /\ WF_phase(Manage)
    /\ WF_phase(Converge)
    /\ WF_phase(Finish)
=============================================================================
