-------------------------- MODULE MachineReconciler --------------------------
(***************************************************************************)
(* NvidiaBMMMachineReconciler (internal/controller, the file named         *)
(* nvidiabmmcluster_controller_test.go, lines 176-690) and the MachineScope *)
(* it calls (pkg/scope/machine.go, lines 1-239), composed with the cluster *)
(* controller: the machine controller reads the stored NvidiaBMMCluster,   *)
(* both call the same platform, and every machine is reconciled by its own *)
(* worker, concurrently with the others and with the cluster.              *)
(*                                                                         *)
(* A pass reads the NvidiaBMMMachine, its Machine and the NvidiaBMMCluster *)
(* (seen), works on an in-memory copy (mmem) and the deferred              *)
(* patchHelper.Patch writes only the NvidiaBMMMachine back.                *)
(***************************************************************************)
EXTENDS ClusterReconciler

CONSTANTS
    Machines,        \* the NvidiaBMMMachines of the cluster
    ControlPlane,    \* those whose Machine has the control-plane label
    MachineSubnet    \* Spec.Network.SubnetName of every machine

ASSUME /\ ControlPlane \subseteq Machines
       /\ MachineSubnet \in [Machines -> SubnetNames]

VARIABLES
    mobj,        \* the stored NvidiaBMMMachine of every machine
    mdeleting,   \* its DeletionTimestamp is set
    mremoved,    \* the API server has deleted it
    bootstrap,   \* Machine.Spec.Bootstrap.DataSecretName is set
    endpoint,    \* the stored NvidiaBMMCluster Spec.ControlPlaneEndpoint host
    mpc,         \* where each machine's pass is
    mmem,        \* each pass's in-memory NvidiaBMMMachine
    seen         \* each pass's in-memory NvidiaBMMCluster

clusterPass == <<obj, deleting, removed, pc, mem, cursor, todo>>
machineVars == <<mobj, mdeleting, mremoved, bootstrap, endpoint, mpc, mmem, seen>>
allVars == <<vars, machineVars>>

NoState == "unset"    \* the empty InstanceState string

\* NvidiaBMMMachineStatus (Conditions and MachineID left out) and finalizer.
\* An address is named by the instance it belongs to.
MObject == [instance: IdOrNone, state: InstStates \cup {NoState},
            ready: BOOLEAN, addresses: SUBSET Ids, finalizer: BOOLEAN]

\* What a pass keeps of the NvidiaBMMCluster it read.
Seen == [vpc: IdOrNone, subnet: IdOrNone, endpoint: IdOrNone]

MPcs == {"idle", "create", "poll", "delete", "patch"}

EmptyMachine == [instance |-> NoId, state |-> NoState, ready |-> FALSE,
                 addresses |-> {}, finalizer |-> FALSE]

MachineTypeOK ==
    /\ TypeOK
    /\ mobj \in [Machines -> MObject]
    /\ mmem \in [Machines -> MObject]
    /\ mdeleting \in [Machines -> BOOLEAN]
    /\ mremoved \in [Machines -> BOOLEAN]
    /\ bootstrap \in [Machines -> BOOLEAN]
    /\ endpoint \in IdOrNone
    /\ mpc \in [Machines -> MPcs]
    /\ seen \in [Machines -> Seen]

MachineInit ==
    /\ Init
    /\ mobj = [m \in Machines |-> EmptyMachine]
    /\ mmem = mobj
    /\ mdeleting = [m \in Machines |-> FALSE]
    /\ mremoved = [m \in Machines |-> FALSE]
    /\ bootstrap = [m \in Machines |-> FALSE]
    /\ endpoint = NoId
    /\ mpc = [m \in Machines |-> "idle"]
    /\ seen = [m \in Machines |-> [vpc |-> NoId, subnet |-> NoId,
                                   endpoint |-> NoId]]

\* The instances a machine holds: stored on the NvidiaBMMMachine while it
\* exists, or in the pass not yet patched.
HeldBy(m) ==
    LET stored == IF mremoved[m] THEN {} ELSE {mobj[m].instance}
        pass == IF mpc[m] = "idle" THEN {} ELSE {mmem[m].instance}
    IN (stored \cup pass) \ {NoId}

(* NewMachineScope: every parameter is set by Reconcile; OrgName is the    *)
(* orgName the ClusterScope read from the credentials Secret, so the scope *)
(* is built exactly when NewClusterScope succeeded.                        *)
NewMachineScope == NewClusterScope

\* MachineScope.IsControlPlane: the Machine has the control-plane label.
IsControlPlane(m) == m \in ControlPlane

(* MachineScope.GetBootstrapData: the secret the Machine names holds the   *)
(* data; it is only called once the name is set.                           *)
GetBootstrapData(m) == bootstrap[m]

(* MachineScope.GetSubnetID and VPCID: the machine's subnet ID and the VPC *)
(* ID in the NvidiaBMMCluster status the pass read; NoId when the key is   *)
(* missing or the ID empty, and then createInstance fails.                 *)
GetSubnetID(m) == seen[m].subnet
MachineVPCID(m) == seen[m].vpc

-----------------------------------------------------------------------------
\* Mutant: the finalizer is added before the readiness and bootstrap gates.
MReconcileFinalizerBeforeGates(m) ==
    /\ mpc[m] = "idle"
    /\ ~mremoved[m] /\ ~removed
    /\ ~mdeleting[m] /\ ~mobj[m].finalizer
    /\ mmem' = [mmem EXCEPT ![m] = [mobj[m] EXCEPT !.finalizer = TRUE]]
    /\ mpc' = [mpc EXCEPT ![m] = "patch"]
    /\ UNCHANGED <<vars, mobj, mdeleting, mremoved, bootstrap, endpoint, seen>>

\* Mutant: the bootstrap secret name is not checked before the finalizer.
MReconcileNoBootstrapGate(m) ==
    /\ mpc[m] = "idle"
    /\ ~mremoved[m]
    /\ ~removed
    /\ obj.status.ready
    /\ seen' = [seen EXCEPT ![m] =
                  [vpc |-> obj.status.vpc,
                   subnet |-> obj.status.subnets[MachineSubnet[m]],
                   endpoint |-> endpoint]]
    /\ \/ /\ ~NewMachineScope
          /\ mmem' = [mmem EXCEPT ![m] = mobj[m]]
          /\ mpc' = [mpc EXCEPT ![m] = "patch"]
       \/ /\ NewMachineScope
          /\ mdeleting[m]
          /\ mmem' = [mmem EXCEPT ![m] = mobj[m]]
          /\ mpc' = [mpc EXCEPT ![m] = "delete"]
       \/ /\ NewMachineScope
          /\ ~mdeleting[m]
          /\ ~mobj[m].finalizer
          /\ mmem' = [mmem EXCEPT ![m] = [mobj[m] EXCEPT !.finalizer = TRUE]]
          /\ mpc' = [mpc EXCEPT ![m] = "patch"]
       \/ /\ NewMachineScope
          /\ ~mdeleting[m]
          /\ mobj[m].finalizer
          /\ mmem' = [mmem EXCEPT ![m] = mobj[m]]
          /\ mpc' = [mpc EXCEPT ![m] =
                       IF mobj[m].instance = NoId THEN "create" ELSE "poll"]
    /\ UNCHANGED <<vars, mobj, mdeleting, mremoved, bootstrap, endpoint>>

(* Reconcile: fetch the NvidiaBMMMachine, its Machine, the Cluster and the *)
(* NvidiaBMMCluster (which must exist); wait while the cluster is not      *)
(* Ready or the bootstrap secret name is unset; install the deferred       *)
(* patch and build the scopes, whose error ends the pass; then             *)
(* reconcileDelete, or the finalizer, reconcileInstance or createInstance. *)
MReconcile(m) ==
    /\ mpc[m] = "idle"
    /\ ~mremoved[m]
    /\ ~removed
    /\ obj.status.ready
    /\ bootstrap[m]
    /\ seen' = [seen EXCEPT ![m] =
                  [vpc |-> obj.status.vpc,
                   subnet |-> obj.status.subnets[MachineSubnet[m]],
                   endpoint |-> endpoint]]
    /\ \/ /\ ~NewMachineScope
          /\ mmem' = [mmem EXCEPT ![m] = mobj[m]]
          /\ mpc' = [mpc EXCEPT ![m] = "patch"]
       \/ /\ NewMachineScope
          /\ mdeleting[m]
          /\ mmem' = [mmem EXCEPT ![m] = mobj[m]]
          /\ mpc' = [mpc EXCEPT ![m] = "delete"]
       \/ /\ NewMachineScope
          /\ ~mdeleting[m]
          /\ ~mobj[m].finalizer
          /\ mmem' = [mmem EXCEPT ![m] = [mobj[m] EXCEPT !.finalizer = TRUE]]
          /\ mpc' = [mpc EXCEPT ![m] = "patch"]
       \/ /\ NewMachineScope
          /\ ~mdeleting[m]
          /\ mobj[m].finalizer
          /\ mmem' = [mmem EXCEPT ![m] = mobj[m]]
          /\ mpc' = [mpc EXCEPT ![m] =
                       IF mobj[m].instance = NoId THEN "create" ELSE "poll"]
    /\ UNCHANGED <<vars, mobj, mdeleting, mremoved, bootstrap, endpoint>>

\* Mutant: the ID of the answer is cached whatever its status code.
MCreateCachesOnError(m) ==
    /\ mpc[m] = "create"
    /\ mpc' = [mpc EXCEPT ![m] = "patch"]
    /\ \/ Created("Instance") /\ UNCHANGED faults
       \/ CreateRefused /\ UNCHANGED platformVars
    /\ mmem' = [mmem EXCEPT ![m].instance = nextId, ![m].state = "Pending"]
    /\ UNCHANGED <<clusterPass, mobj, mdeleting, mremoved, bootstrap, endpoint, seen>>

\* Mutant: the new instance's ID is not cached on the machine.
MCreateNoCache(m) ==
    /\ mpc[m] = "create"
    /\ mpc' = [mpc EXCEPT ![m] = "patch"]
    /\ {seen[m].vpc, seen[m].subnet} \subseteq live
    /\ Created("Instance")
    /\ UNCHANGED <<faults, mmem, clusterPass, mobj, mdeleting, mremoved,
                   bootstrap, endpoint, seen>>

(* createInstance: the bootstrap data is read, the subnet ID must be in    *)
(* the cluster status and both it and the VPC ID must parse, and the Site  *)
(* ID must resolve, else the pass fails; the platform then refuses an      *)
(* instance on a subnet or VPC it does not hold.  On success the instance  *)
(* ID and state are cached (and the provider ID composed).                 *)
MCreate(m) ==
    /\ mpc[m] = "create"
    /\ mpc' = [mpc EXCEPT ![m] = "patch"]
    /\ GetBootstrapData(m)
    /\ LET net == {MachineVPCID(m), GetSubnetID(m)}
       IN \/ /\ NoId \in net \/ ~SiteIDResolves
             /\ UNCHANGED <<platformVars, faults, mmem>>
          \/ /\ NoId \notin net
             /\ net \subseteq live
             /\ Created("Instance")
             /\ mmem' = [mmem EXCEPT ![m].instance = NewId,
                                     ![m].state = "Pending"]
             /\ UNCHANGED faults
          \/ /\ NoId \notin net
             /\ \/ CreateRefused
                \/ ~(net \subseteq live) /\ UNCHANGED faults
             /\ UNCHANGED <<platformVars, mmem>>
          \/ /\ NoId \notin net
             /\ net \subseteq live
             /\ Created("Instance")
             /\ Fault("createLost")
             /\ UNCHANGED mmem
    /\ UNCHANGED <<clusterPass, mobj, mdeleting, mremoved, bootstrap, endpoint, seen>>

\* Mutant: an instance in Error counts as finished and the machine as Ready.
MPollReadyOnError(m) ==
    LET i == mmem[m].instance
        addrs == IF i \in addressed THEN {i} ELSE mmem[m].addresses
        isReady == instState[i] \in {"Ready", "Error"}
    IN
    /\ mpc[m] = "poll"
    /\ mpc' = [mpc EXCEPT ![m] = "patch"]
    /\ \/ /\ i \in live
          /\ mmem' = [mmem EXCEPT ![m].state = instState[i],
                                  ![m].addresses = addrs,
                                  ![m].ready = @ \/ isReady]
          /\ seen' = [seen EXCEPT ![m].endpoint =
                        IF /\ isReady
                           /\ IsControlPlane(m)
                           /\ @ = NoId
                           /\ i \in addressed
                        THEN i ELSE @]
          /\ UNCHANGED faults
       \/ /\ \/ i \notin live /\ UNCHANGED faults
             \/ Fault("getError")
          /\ UNCHANGED <<mmem, seen>>
    /\ UNCHANGED <<platformVars, clusterPass,
                   mobj, mdeleting, mremoved, bootstrap, endpoint>>

(* reconcileInstance: GetInstance; a non-200 answer fails the pass.        *)
(* Otherwise the state is mirrored and every interface address collected;  *)
(* on "Ready" the machine is marked ready and a control-plane machine      *)
(* sets the endpoint of its in-memory NvidiaBMMCluster if that is unset.   *)
MPoll(m) ==
    LET i == mmem[m].instance
        addrs == IF i \in addressed THEN {i} ELSE mmem[m].addresses
        isReady == instState[i] = "Ready"
    IN
    /\ mpc[m] = "poll"
    /\ mpc' = [mpc EXCEPT ![m] = "patch"]
    /\ \/ /\ i \in live
          /\ mmem' = [mmem EXCEPT ![m].state = instState[i],
                                  ![m].addresses = addrs,
                                  ![m].ready = @ \/ isReady]
          /\ seen' = [seen EXCEPT ![m].endpoint =
                        IF /\ isReady
                           /\ IsControlPlane(m)
                           /\ @ = NoId
                           /\ i \in addressed
                        THEN i ELSE @]
          /\ UNCHANGED faults
       \/ /\ \/ i \notin live /\ UNCHANGED faults
             \/ Fault("getError")
          /\ UNCHANGED <<mmem, seen>>
    /\ UNCHANGED <<platformVars, clusterPass,
                   mobj, mdeleting, mremoved, bootstrap, endpoint>>

\* Mutant: the finalizer is removed without calling DeleteInstance.
MDeleteNoCall(m) ==
    /\ mpc[m] = "delete"
    /\ mpc' = [mpc EXCEPT ![m] = "patch"]
    /\ mmem' = [mmem EXCEPT ![m].finalizer = FALSE]
    /\ UNCHANGED <<platformVars, faults, clusterPass, mobj, mdeleting,
                   mremoved, bootstrap, endpoint, seen>>

\* Mutant: the finalizer is kept after the instance is deleted.
MDeleteKeepsFinalizer(m) ==
    /\ mpc[m] = "delete"
    /\ mpc' = [mpc EXCEPT ![m] = "patch"]
    /\ \/ mmem[m].instance = NoId /\ mmem' = [mmem EXCEPT ![m].finalizer = FALSE]
                                /\ UNCHANGED platformVars
       \/ mmem[m].instance # NoId /\ DeleteOk(mmem[m].instance) /\ UNCHANGED mmem
    /\ UNCHANGED <<faults, clusterPass, mobj, mdeleting, mremoved, bootstrap,
                   endpoint, seen>>

(* reconcileDelete: DeleteInstance with an empty body if an instance ID is *)
(* cached (200 and 204 succeed), then RemoveFinalizer.                     *)
MDelete(m) ==
    LET i == mmem[m].instance
        unfinalized == [mmem EXCEPT ![m].finalizer = FALSE]
    IN
    /\ mpc[m] = "delete"
    /\ mpc' = [mpc EXCEPT ![m] = "patch"]
    /\ \/ /\ i = NoId
          /\ mmem' = unfinalized
          /\ UNCHANGED <<platformVars, faults>>
       \/ /\ i # NoId
          /\ DeleteOk(i)
          /\ mmem' = unfinalized
          /\ UNCHANGED faults
       \/ /\ i # NoId
          /\ DeleteFails(i)
          /\ UNCHANGED <<platformVars, mmem>>
       \/ /\ i # NoId
          /\ DeleteOk(i)
          /\ Fault("deleteLost")
          /\ UNCHANGED mmem
    /\ UNCHANGED <<clusterPass, mobj, mdeleting, mremoved, bootstrap,
                   endpoint, seen>>

(* The deferred patchHelper.Patch of the NvidiaBMMMachine alone: the       *)
(* in-memory NvidiaBMMCluster and Machine of the scopes are dropped.       *)
MPatch(m) ==
    /\ mpc[m] = "patch"
    /\ mpc' = [mpc EXCEPT ![m] = "idle"]
    /\ \/ /\ ~mremoved[m]
          /\ mobj' = [mobj EXCEPT ![m] = mmem[m]]
          /\ mremoved' = [mremoved EXCEPT ![m] = mdeleting[m] /\ ~mmem[m].finalizer]
          /\ UNCHANGED faults
       \/ /\ ~mremoved[m]
          /\ Fault("patchFail")
          /\ UNCHANGED <<mobj, mremoved>>
       \/ /\ mremoved[m]
          /\ UNCHANGED <<mobj, mremoved, faults>>
    /\ UNCHANGED <<platformVars, clusterPass, mdeleting, bootstrap, endpoint,
                   mmem, seen>>

-----------------------------------------------------------------------------
(* The bootstrap provider stores the bootstrap data secret and sets its    *)
(* name on the Machine.                                                    *)
SetBootstrap(m) ==
    /\ ~bootstrap[m]
    /\ bootstrap' = [bootstrap EXCEPT ![m] = TRUE]
    /\ UNCHANGED <<vars, mobj, mdeleting, mremoved, endpoint, mpc, mmem, seen>>

(* The Machine is deleted; without a finalizer its NvidiaBMMMachine goes   *)
(* at once.                                                                *)
MRequestDelete(m) ==
    /\ ~mdeleting[m]
    /\ mdeleting' = [mdeleting EXCEPT ![m] = TRUE]
    /\ mremoved' = [mremoved EXCEPT ![m] = ~mobj[m].finalizer]
    /\ UNCHANGED <<vars, mobj, bootstrap, endpoint, mpc, mmem, seen>>

MachineController(m) ==
    /\ \/ MReconcile(m)
       \/ MCreate(m)
       \/ MPoll(m)
       \/ MDelete(m)
       \/ MPatch(m)
    /\ UNCHANGED credentials

(* The CAPI Cluster controller deletes the NvidiaBMMCluster only after     *)
(* every Machine of the cluster is gone.                                   *)
ProviderNext ==
    \/ ClusterController /\ UNCHANGED machineVars
    \/ RequestDelete /\ (\A m \in Machines : mremoved[m]) /\ UNCHANGED machineVars
    \/ DeleteSecret /\ UNCHANGED machineVars
    \/ \E m \in Machines : MachineController(m)
    \/ \E m \in Machines : SetBootstrap(m) \/ MRequestDelete(m)
    \/ Drift /\ UNCHANGED <<clusterVars, machineVars>>
    \/ Provision /\ UNCHANGED <<clusterVars, machineVars>>

(* Every object has its own worker, invoked again after every pass, so the *)
(* cluster controller and each machine's controller are weakly fair.       *)
ProviderSpec ==
    /\ MachineInit
    /\ [][ProviderNext]_allVars
    /\ WF_allVars(ClusterController /\ UNCHANGED machineVars)
    /\ \A m \in Machines : WF_allVars(MachineController(m))

-----------------------------------------------------------------------------
(* NoOrphanInstance: every instance on the platform is held by exactly one *)
(* machine, stored or in the pass that created it.  An instance nobody     *)
(* holds is a bare-metal host allocated forever; one held twice is deleted *)
(* under the other's feet.  About createInstance followed by the deferred  *)
(* patch, and reconcileDelete.                                             *)
NoOrphanInstance ==
    \A i \in LiveOf("Instance") :
        \E m \in Machines : /\ i \in HeldBy(m)
                          /\ \A n \in Machines \ {m} : i \notin HeldBy(n)

(* EndpointAdopted: once a control-plane machine is Ready with an address, *)
(* the cluster has a control-plane endpoint (spec 4.5 and 8, endpoint      *)
(* adoption from the first ready control-plane machine).                   *)
EndpointAdopted ==
    \A m \in ControlPlane :
        (mobj[m].ready /\ mobj[m].addresses # {}) => endpoint # NoId

(* ReadyMeansInstanceReady: a machine whose stored status is Ready holds   *)
(* an instance the platform reported Ready, and which is still Ready while  *)
(* it exists.  reconcileInstance sets Ready only on the "Ready" state; an   *)
(* instance that went to Error is polled forever and never makes its       *)
(* machine Ready, nor is it replaced.                                      *)
ReadyMeansInstanceReady ==
    \A m \in Machines :
        mobj[m].ready =>
            /\ mobj[m].instance # NoId
            /\ mobj[m].state = "Ready"
            /\ mobj[m].instance \in live => instState[mobj[m].instance] = "Ready"

(* MachineDeletionCompletes: a deleted machine's NvidiaBMMMachine is       *)
(* eventually removed, its instance deleted first.                         *)
MachineDeletionCompletes ==
    \A m \in Machines : mdeleting[m] ~> mremoved[m]

-----------------------------------------------------------------------------
(* Refinement of MachineLifecycle: each machine's phase of spec 4.5 is     *)
(* read off its stored NvidiaBMMMachine, the gates MReconcile checks (the  *)
(* stored cluster's Ready flag and the bootstrap secret name), and the     *)
(* deletion.                                                               *)
MPhase(m) ==
    CASE mremoved[m]              -> "Gone"
      [] mdeleting[m]             -> "Deleting"
      [] mobj[m].ready            -> "Ready"
      [] mobj[m].instance # NoId  -> "Polling"
      [] mobj[m].finalizer        -> "Provisioning"
      [] ~obj.status.ready        -> "WaitingForCluster"
      [] ~bootstrap[m]            -> "WaitingForBootstrap"
      [] OTHER                    -> "Unmanaged"

MLifecycle == INSTANCE MachineLifecycle WITH mphase <- [m \in Machines |-> MPhase(m)]

(* MachineLifecycleRefined: every behaviour of the machine controller,     *)
(* with the cluster controller and the platform, is one of spec 4.5's      *)
(* lifecycle: no instance and no finalizer before both gates are met (spec *)
(* 8, gate enforcement), Ready only after an instance, no way back, and a  *)
(* machine whose gates are met is eventually managed.  About Reconcile's   *)
(* gates, createInstance and reconcileInstance.                            *)
MachineLifecycleRefined == MLifecycle!MLifecycleSpec
=============================================================================
