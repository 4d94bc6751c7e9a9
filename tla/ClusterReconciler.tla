-------------------------- MODULE ClusterReconciler --------------------------
(***************************************************************************)
(* NvidiaBMMClusterReconciler (internal/controller, the file named         *)
(* nvidiabmmmachine_controller_test.go, lines 38-629) and the ClusterScope *)
(* accessors it calls (pkg/scope/machine.go, lines 240-440).               *)
(*                                                                         *)
(* One reconcile pass reads the NvidiaBMMCluster, works on that in-memory  *)
(* copy (mem) while it makes blocking calls to the platform, and the       *)
(* deferred patchHelper.Patch writes mem back at the end.  Every platform  *)
(* call is one step, so drift and the other controller interleave between  *)
(* them; pc is where the pass is.  A failed call returns an error, which   *)
(* ends the pass at the deferred patch.                                    *)
(***************************************************************************)
EXTENDS BMMPlatform, Sequences, SequencesExt

CONSTANTS
    SubnetOrder,   \* Spec.Subnets, by name, in the order of the list
    HasNSG,        \* Spec.VPC.NetworkSecurityGroup != nil
    SiteRef,       \* Spec.SiteRef: given by "id", by "name" only, or "empty"
    Faults,        \* the failures the platform and the API server may show
    MaxFaults      \* how many failures happen in a behaviour

\* SiteReference: a Site CRD Name, or the Site UUID as ID.
SiteRefKinds == {"id", "name", "empty"}

FaultKinds == {"getError", "createFail", "createLost",
               "deleteFail", "deleteLost", "patchFail", "secretLoss"}

(* NvidiaBMMClusterSpec as far as the controller branches on it: at least *)
(* one subnet (MinItems=1), an optional NSG and the site reference.  Names *)
(* are not checked unique; a repeated name finds its own ID in the map on  *)
(* its second turn and is verified, so distinct names lose nothing.       *)
ClusterSpec ==
    /\ IsInjective(SubnetOrder)
    /\ Len(SubnetOrder) >= 1
    /\ HasNSG \in BOOLEAN
    /\ SiteRef \in SiteRefKinds

ASSUME /\ ClusterSpec
       /\ Faults \subseteq FaultKinds
       /\ MaxFaults \in Nat

\* The SubnetSpec.Name of each entry of Spec.Subnets; CIDR, Role and
\* Labels only fill the create request and are left out.
SubnetNames == ToSet(SubnetOrder)

VARIABLES
    obj,        \* the stored NvidiaBMMCluster: status and finalizer
    deleting,   \* its DeletionTimestamp is set
    removed,    \* the API server has deleted it (no finalizer left)
    pc,         \* where the reconcile pass is
    mem,        \* the pass's in-memory copy of the object
    cursor,     \* index into Spec.Subnets of the subnet loop
    todo,       \* subnets the delete loop has not deleted yet
    faults,     \* failures so far
    credentials \* the Secret of Spec.Authentication.SecretRef

clusterVars == <<obj, deleting, removed, pc, mem, cursor, todo, faults,
                 credentials>>
vars == <<platformVars, clusterVars>>

IdOrNone == Ids \cup {NoId}

\* NvidiaBMMClusterStatus with its NetworkStatus; Conditions are left out.
Status == [vpc: IdOrNone, ipBlock: IdOrNone, nsg: IdOrNone,
           subnets: [SubnetNames -> IdOrNone], ready: BOOLEAN]

EmptyStatus == [vpc |-> NoId, ipBlock |-> NoId, nsg |-> NoId,
                subnets |-> [s \in SubnetNames |-> NoId], ready |-> FALSE]

\* NvidiaBMMCluster: its Status and the finalizer of its ObjectMeta.
Object == [status: Status, finalizer: BOOLEAN]

(* AuthenticationSpec.SecretRef: the Secret holds endpoint, orgName and    *)
(* token ("valid"), or it is gone or lacks one of them ("absent").        *)
CredentialStates == {"valid", "absent"}

Pcs == {"idle", "vpc", "vpcCreate", "ipblock", "ipblockCreate", "subnet",
        "subnetCreate", "nsg", "nsgCreate", "delNSG", "delSubnets",
        "delVPC", "patch"}

\* The ids a status points to.
Recorded(st) ==
    ({st.vpc, st.ipBlock, st.nsg} \cup Range(st.subnets)) \ {NoId}

\* The ids the pass in flight holds and has not written back yet.
InFlight == IF pc = "idle" THEN {} ELSE Recorded(mem.status)

\* One more failure of kind k, if the configuration allows it.
Fault(k) ==
    /\ k \in Faults
    /\ faults < MaxFaults
    /\ faults' = faults + 1

\* A Create call that returns an error: a fault, or the platform's quota.
CreateRefused ==
    \/ Fault("createFail")
    \/ ~CanCreate /\ UNCHANGED faults

\* A Delete call of id i that returns an error or a status other than 200
\* and 204: a fault, or the 404 for an id already gone.
DeleteFails(i) ==
    \/ Fault("deleteFail")
    \/ DeleteNotFound(i) /\ UNCHANGED faults

(* NewClusterScope: with no pre-built client it reads the credentials     *)
(* Secret, which must exist and hold endpoint, orgName and token, and      *)
(* builds the client.  A Secret missing a key fails as an absent one does. *)
NewClusterScope == credentials = "valid"

(* ClusterScope.SiteID: SiteRef.ID is used as is; a name-only reference    *)
(* is not implemented and fails, as does an empty one.                     *)
SiteIDResolves == SiteRef = "id"

\* The subnet the loop is at.
CurSubnet == SubnetOrder[cursor]

SetStatus(m, f, v) == [m EXCEPT !.status[f] = v]
SetSubnet(m, s, v) == [m EXCEPT !.status.subnets[s] = v]
WithReady(m) == [m EXCEPT !.status.ready = TRUE]

TypeOK ==
    /\ PlatformTypeOK
    /\ obj \in Object
    /\ mem \in Object
    /\ deleting \in BOOLEAN
    /\ removed \in BOOLEAN
    /\ pc \in Pcs
    /\ cursor \in 1..(Len(SubnetOrder) + 1)
    /\ todo \subseteq SubnetNames
    /\ faults \in 0..MaxFaults
    /\ credentials \in CredentialStates

Init ==
    /\ PlatformInit
    /\ obj = [status |-> EmptyStatus, finalizer |-> FALSE]
    /\ deleting = FALSE
    /\ removed = FALSE
    /\ pc = "idle"
    /\ mem = obj
    /\ cursor = 1
    /\ todo = {}
    /\ faults = 0
    /\ credentials = "valid"

-----------------------------------------------------------------------------
\* Mutant: the finalizer pass goes on to the network instead of requeueing.
ReconcileNoRequeue ==
    /\ pc = "idle"
    /\ ~removed
    /\ cursor' = 1
    /\ todo' = {}
    /\ \/ ~NewClusterScope /\ mem' = obj /\ pc' = "patch"
       \/ NewClusterScope /\ deleting /\ mem' = obj /\ pc' = "delNSG"
       \/ /\ NewClusterScope /\ ~deleting
          /\ mem' = [obj EXCEPT !.finalizer = TRUE]
          /\ pc' = IF SiteIDResolves THEN "vpc" ELSE "patch"
    /\ UNCHANGED <<platformVars, obj, deleting, removed, faults>>

(* Reconcile: fetch the object and install the deferred patch, then       *)
(* NewClusterScope, whose error ends the pass; then reconcileDelete, or    *)
(* reconcileNormal: add the finalizer (and requeue) if it is missing, else *)
(* resolve the Site ID, whose error ends the pass, and reconcile the VPC.  *)
Reconcile ==
    /\ pc = "idle"
    /\ ~removed
    /\ cursor' = 1
    /\ todo' = {}
    /\ \/ /\ ~NewClusterScope
          /\ mem' = obj
          /\ pc' = "patch"
       \/ /\ NewClusterScope
          /\ deleting
          /\ mem' = obj
          /\ pc' = "delNSG"
       \/ /\ NewClusterScope
          /\ ~deleting
          /\ ~obj.finalizer
          /\ mem' = [obj EXCEPT !.finalizer = TRUE]
          /\ pc' = "patch"
       \/ /\ NewClusterScope
          /\ ~deleting
          /\ obj.finalizer
          /\ mem' = obj
          /\ pc' = IF SiteIDResolves THEN "vpc" ELSE "patch"
    /\ UNCHANGED <<platformVars, obj, deleting, removed, faults>>

\* Mutant: the cached VPC ID is trusted without GetVpc.
VPCVerifyTrustCache ==
    /\ pc = "vpc"
    /\ \/ mem.status.vpc = NoId /\ pc' = "vpcCreate"
       \/ mem.status.vpc # NoId /\ pc' = "ipblock"
    /\ UNCHANGED <<platformVars, obj, deleting, removed, mem, cursor, todo, faults>>

(* reconcileVPC, first half: a cached VPC ID is verified with GetVpc; an   *)
(* error or a non-200 answer both clear it, and the VPC is created anew.   *)
VPCVerify ==
    /\ pc = "vpc"
    /\ \/ /\ mem.status.vpc = NoId
          /\ pc' = "vpcCreate"
          /\ UNCHANGED <<mem, faults>>
       \/ /\ mem.status.vpc \in live
          /\ pc' = "ipblock"
          /\ UNCHANGED <<mem, faults>>
       \/ /\ mem.status.vpc # NoId
          /\ \/ mem.status.vpc \notin live /\ UNCHANGED faults
             \/ Fault("getError")
          /\ mem' = SetStatus(mem, "vpc", NoId)
          /\ pc' = "vpcCreate"
    /\ UNCHANGED <<platformVars, obj, deleting, removed, cursor, todo>>

(* reconcileVPC, second half: CreateVpc; only a 201 with an ID is cached.  *)
VPCCreate ==
    /\ pc = "vpcCreate"
    /\ \/ /\ Created("VPC")
          /\ mem' = SetStatus(mem, "vpc", NewId)
          /\ pc' = "ipblock"
          /\ UNCHANGED faults
       \/ /\ CreateRefused
          /\ pc' = "patch"
          /\ UNCHANGED <<platformVars, mem>>
       \/ /\ Created("VPC")
          /\ Fault("createLost")
          /\ pc' = "patch"
          /\ UNCHANGED mem
    /\ UNCHANGED <<obj, deleting, removed, cursor, todo>>

\* Mutant: the cached IP block ID is not consulted; a block is always created.
IPBlockVerifyNoCheck ==
    /\ pc = "ipblock"
    /\ pc' = "ipblockCreate"
    /\ UNCHANGED <<platformVars, obj, deleting, removed, mem, cursor, todo, faults>>

(* ensureIPBlock, first half: a cached IP block that GetIpblock does not   *)
(* confirm is replaced, but its ID is only overwritten on success.         *)
IPBlockVerify ==
    /\ pc = "ipblock"
    /\ \/ /\ mem.status.ipBlock \in live
          /\ pc' = "subnet"
          /\ UNCHANGED faults
       \/ /\ mem.status.ipBlock = NoId
          /\ pc' = "ipblockCreate"
          /\ UNCHANGED faults
       \/ /\ mem.status.ipBlock # NoId
          /\ \/ mem.status.ipBlock \notin live /\ UNCHANGED faults
             \/ Fault("getError")
          /\ pc' = "ipblockCreate"
    /\ UNCHANGED <<platformVars, obj, deleting, removed, mem, cursor, todo>>

(* ensureIPBlock, second half: CreateIpblock of the fixed 10.0.0.0/16.     *)
IPBlockCreate ==
    /\ pc = "ipblockCreate"
    /\ \/ /\ Created("IPBlock")
          /\ mem' = SetStatus(mem, "ipBlock", NewId)
          /\ pc' = "subnet"
          /\ UNCHANGED faults
       \/ /\ CreateRefused
          /\ pc' = "patch"
          /\ UNCHANGED <<platformVars, mem>>
       \/ /\ Created("IPBlock")
          /\ Fault("createLost")
          /\ pc' = "patch"
          /\ UNCHANGED mem
    /\ UNCHANGED <<obj, deleting, removed, cursor, todo>>

(* reconcileSubnets loop, check of one subnet: a cached ID that GetSubnet  *)
(* does not confirm is deleted from the map and the subnet re-created.     *)
(* After the last subnet, SubnetsReady is set and the NSG is reconciled,   *)
(* or, without one, the cluster is marked ready.                           *)
SubnetVerify ==
    /\ pc = "subnet"
    /\ \/ /\ cursor > Len(SubnetOrder)
          /\ IF HasNSG THEN pc' = "nsg" /\ mem' = mem
                       ELSE pc' = "patch" /\ mem' = WithReady(mem)
          /\ UNCHANGED <<cursor, faults>>
       \/ /\ cursor <= Len(SubnetOrder)
          /\ mem.status.subnets[CurSubnet] \in live
          /\ cursor' = cursor + 1
          /\ UNCHANGED <<pc, mem, faults>>
       \/ /\ cursor <= Len(SubnetOrder)
          /\ mem.status.subnets[CurSubnet] = NoId
          /\ pc' = "subnetCreate"
          /\ UNCHANGED <<mem, cursor, faults>>
       \/ /\ cursor <= Len(SubnetOrder)
          /\ mem.status.subnets[CurSubnet] # NoId
          /\ \/ mem.status.subnets[CurSubnet] \notin live /\ UNCHANGED faults
             \/ Fault("getError")
          /\ mem' = SetSubnet(mem, CurSubnet, NoId)
          /\ pc' = "subnetCreate"
          /\ UNCHANGED cursor
    /\ UNCHANGED <<platformVars, obj, deleting, removed, todo>>

(* reconcileSubnets loop, creation of one subnet in the cluster's IP block *)
(* with the prefix length of its CIDR; an error ends the loop.             *)
SubnetCreate ==
    /\ pc = "subnetCreate"
    /\ \/ /\ Created("Subnet")
          /\ mem' = SetSubnet(mem, CurSubnet, NewId)
          /\ cursor' = cursor + 1
          /\ pc' = "subnet"
          /\ UNCHANGED faults
       \/ /\ CreateRefused
          /\ pc' = "patch"
          /\ UNCHANGED <<platformVars, mem, cursor>>
       \/ /\ Created("Subnet")
          /\ Fault("createLost")
          /\ pc' = "patch"
          /\ UNCHANGED <<mem, cursor>>
    /\ UNCHANGED <<obj, deleting, removed, todo>>

(* reconcileNSG, first half: as for the VPC, a failed or negative          *)
(* GetNetworkSecurityGroup clears the cached ID.                           *)
NSGVerify ==
    /\ pc = "nsg"
    /\ \/ /\ mem.status.nsg = NoId
          /\ pc' = "nsgCreate"
          /\ UNCHANGED <<mem, faults>>
       \/ /\ mem.status.nsg \in live
          /\ mem' = WithReady(mem)
          /\ pc' = "patch"
          /\ UNCHANGED faults
       \/ /\ mem.status.nsg # NoId
          /\ \/ mem.status.nsg \notin live /\ UNCHANGED faults
             \/ Fault("getError")
          /\ mem' = SetStatus(mem, "nsg", NoId)
          /\ pc' = "nsgCreate"
    /\ UNCHANGED <<platformVars, obj, deleting, removed, cursor, todo>>

\* Mutant: the created NSG's ID is not stored in the status.
NSGCreateNoCache ==
    /\ pc = "nsgCreate"
    /\ \/ Created("NSG") /\ mem' = WithReady(mem) /\ UNCHANGED faults
       \/ CreateRefused /\ UNCHANGED <<platformVars, mem>>
       \/ Created("NSG") /\ Fault("createLost") /\ UNCHANGED mem
    /\ pc' = "patch"
    /\ UNCHANGED <<obj, deleting, removed, cursor, todo>>

(* reconcileNSG, second half: CreateNetworkSecurityGroup with the rules    *)
(* translated; on success reconcileNormal marks the cluster ready.         *)
NSGCreate ==
    /\ pc = "nsgCreate"
    /\ \/ /\ Created("NSG")
          /\ mem' = WithReady(SetStatus(mem, "nsg", NewId))
          /\ pc' = "patch"
          /\ UNCHANGED faults
       \/ /\ CreateRefused
          /\ pc' = "patch"
          /\ UNCHANGED <<platformVars, mem>>
       \/ /\ Created("NSG")
          /\ Fault("createLost")
          /\ pc' = "patch"
          /\ UNCHANGED mem
    /\ UNCHANGED <<obj, deleting, removed, cursor, todo>>

\* Mutant: the delete loop ranges over the map's values, not its keys.
DeleteNSGSwapKeyValue ==
    /\ pc = "delNSG"
    /\ \/ mem.status.nsg = NoId /\ UNCHANGED <<platformVars, faults>> /\ pc' = "delSubnets"
       \/ mem.status.nsg # NoId /\ DeleteOk(mem.status.nsg) /\ UNCHANGED faults /\ pc' = "delSubnets"
       \/ mem.status.nsg # NoId /\ DeleteFails(mem.status.nsg) /\ UNCHANGED platformVars /\ pc' = "patch"
       \/ mem.status.nsg # NoId /\ DeleteOk(mem.status.nsg) /\ Fault("deleteLost") /\ pc' = "patch"
    /\ todo' = {mem.status.subnets[s] : s \in SubnetNames} \ {NoId}
    /\ UNCHANGED <<obj, deleting, removed, mem, cursor>>

\* Mutant: after the NSG, reconcileDelete goes straight to the VPC.
DeleteNSGSkipSubnets ==
    /\ pc = "delNSG"
    /\ \/ mem.status.nsg = NoId /\ UNCHANGED <<platformVars, faults>> /\ pc' = "delVPC"
       \/ mem.status.nsg # NoId /\ DeleteOk(mem.status.nsg) /\ UNCHANGED faults /\ pc' = "delVPC"
       \/ mem.status.nsg # NoId /\ DeleteFails(mem.status.nsg) /\ UNCHANGED platformVars /\ pc' = "patch"
       \/ mem.status.nsg # NoId /\ DeleteOk(mem.status.nsg) /\ Fault("deleteLost") /\ pc' = "patch"
    /\ todo' = {}
    /\ UNCHANGED <<obj, deleting, removed, mem, cursor>>

-----------------------------------------------------------------------------
(* reconcileDelete, NSG: deleted if an ID is cached; 200 and 204 succeed.  *)
(* The subnet loop then ranges over the SubnetIDs map.                     *)
DeleteNSG ==
    /\ pc = "delNSG"
    /\ \/ /\ mem.status.nsg = NoId
          /\ UNCHANGED <<platformVars, faults>>
          /\ pc' = "delSubnets"
       \/ /\ mem.status.nsg # NoId
          /\ DeleteOk(mem.status.nsg)
          /\ UNCHANGED faults
          /\ pc' = "delSubnets"
       \/ /\ mem.status.nsg # NoId
          /\ DeleteFails(mem.status.nsg)
          /\ UNCHANGED platformVars
          /\ pc' = "patch"
       \/ /\ mem.status.nsg # NoId
          /\ DeleteOk(mem.status.nsg)
          /\ Fault("deleteLost")
          /\ pc' = "patch"
    /\ todo' = {s \in SubnetNames : mem.status.subnets[s] # NoId}
    /\ UNCHANGED <<obj, deleting, removed, mem, cursor>>

\* Mutant: a failed subnet delete is logged and the loop goes on.
DeleteSubnetContinueOnError ==
    /\ pc = "delSubnets"
    /\ \/ todo = {} /\ pc' = "delVPC" /\ UNCHANGED <<platformVars, todo, faults>>
       \/ \E s \in todo :
            /\ todo' = todo \ {s}
            /\ UNCHANGED pc
            /\ \/ DeleteOk(mem.status.subnets[s]) /\ UNCHANGED faults
               \/ DeleteFails(mem.status.subnets[s]) /\ UNCHANGED platformVars
    /\ UNCHANGED <<obj, deleting, removed, mem, cursor>>

\* Mutant: the loop stops one subnet early.
DeleteSubnetOffByOne ==
    /\ pc = "delSubnets"
    /\ \/ Cardinality(todo) <= 1 /\ pc' = "delVPC" /\ UNCHANGED <<platformVars, todo, faults>>
       \/ \E s \in todo :
            \/ DeleteOk(mem.status.subnets[s]) /\ todo' = todo \ {s} /\ UNCHANGED <<pc, faults>>
            \/ DeleteFails(mem.status.subnets[s]) /\ pc' = "patch" /\ UNCHANGED <<platformVars, todo>>
            \/ DeleteOk(mem.status.subnets[s]) /\ Fault("deleteLost") /\ pc' = "patch" /\ UNCHANGED todo
    /\ UNCHANGED <<obj, deleting, removed, mem, cursor>>

(* reconcileDelete, subnets: Go ranges over the map in no fixed order, so  *)
(* any remaining subnet may be next; the first error ends the pass.        *)
DeleteSubnet ==
    /\ pc = "delSubnets"
    /\ \/ /\ todo = {}
          /\ pc' = "delVPC"
          /\ UNCHANGED <<platformVars, todo, faults>>
       \/ \E s \in todo :
            \/ /\ DeleteOk(mem.status.subnets[s])
               /\ todo' = todo \ {s}
               /\ UNCHANGED <<pc, faults>>
            \/ /\ DeleteFails(mem.status.subnets[s])
               /\ pc' = "patch"
               /\ UNCHANGED <<platformVars, todo>>
            \/ /\ DeleteOk(mem.status.subnets[s])
               /\ Fault("deleteLost")
               /\ pc' = "patch"
               /\ UNCHANGED todo
    /\ UNCHANGED <<obj, deleting, removed, mem, cursor>>

\* Mutant: a failed VPC delete still removes the finalizer.
DeleteVPCIgnoreError ==
    /\ pc = "delVPC"
    /\ mem' = [mem EXCEPT !.finalizer = FALSE]
    /\ \/ mem.status.vpc = NoId /\ UNCHANGED <<platformVars, faults>>
       \/ mem.status.vpc # NoId /\ DeleteOk(mem.status.vpc) /\ UNCHANGED faults
       \/ mem.status.vpc # NoId /\ DeleteFails(mem.status.vpc) /\ UNCHANGED platformVars
    /\ pc' = "patch"
    /\ UNCHANGED <<obj, deleting, removed, cursor, todo>>

\* Mutant: with no VPC ID cached the finalizer is kept.
DeleteVPCNoIdKeepsFinalizer ==
    /\ pc = "delVPC"
    /\ \/ mem.status.vpc = NoId /\ UNCHANGED <<platformVars, faults, mem>>
       \/ mem.status.vpc # NoId /\ DeleteOk(mem.status.vpc) /\ mem' = [mem EXCEPT !.finalizer = FALSE] /\ UNCHANGED faults
       \/ mem.status.vpc # NoId /\ DeleteFails(mem.status.vpc) /\ UNCHANGED <<platformVars, mem>>
       \/ mem.status.vpc # NoId /\ DeleteOk(mem.status.vpc) /\ Fault("deleteLost") /\ UNCHANGED mem
    /\ pc' = "patch"
    /\ UNCHANGED <<obj, deleting, removed, cursor, todo>>

(* reconcileDelete, VPC, then RemoveFinalizer once every delete succeeded. *)
(* The IP block created by ensureIPBlock is not deleted.                   *)
DeleteVPC ==
    /\ pc = "delVPC"
    /\ \/ /\ mem.status.vpc = NoId
          /\ mem' = [mem EXCEPT !.finalizer = FALSE]
          /\ UNCHANGED <<platformVars, faults>>
       \/ /\ mem.status.vpc # NoId
          /\ DeleteOk(mem.status.vpc)
          /\ mem' = [mem EXCEPT !.finalizer = FALSE]
          /\ UNCHANGED faults
       \/ /\ mem.status.vpc # NoId
          /\ DeleteFails(mem.status.vpc)
          /\ UNCHANGED <<platformVars, mem>>
       \/ /\ mem.status.vpc # NoId
          /\ DeleteOk(mem.status.vpc)
          /\ Fault("deleteLost")
          /\ UNCHANGED mem
    /\ pc' = "patch"
    /\ UNCHANGED <<obj, deleting, removed, cursor, todo>>

(* The deferred patchHelper.Patch: writes the finalizer and status of mem. *)
(* Its error is only logged.  An object that has lost its last finalizer   *)
(* while being deleted is gone; one already gone cannot be patched.        *)
Patch ==
    /\ pc = "patch"
    /\ pc' = "idle"
    /\ \/ /\ ~removed
          /\ obj' = mem
          /\ removed' = (deleting /\ ~mem.finalizer)
          /\ UNCHANGED faults
       \/ /\ ~removed
          /\ Fault("patchFail")
          /\ UNCHANGED <<obj, removed>>
       \/ /\ removed
          /\ UNCHANGED <<obj, removed, faults>>
    /\ UNCHANGED <<platformVars, deleting, mem, cursor, todo>>

-----------------------------------------------------------------------------
(* The user (or the CAPI Cluster controller) deletes the NvidiaBMMCluster; *)
(* without a finalizer the API server removes it at once.                  *)
RequestDelete ==
    /\ ~deleting
    /\ deleting' = TRUE
    /\ removed' = ~obj.finalizer
    /\ UNCHANGED <<platformVars, obj, pc, mem, cursor, todo, faults,
                   credentials>>

(* The credentials Secret is deleted, as deleting the namespace does: a    *)
(* Secret has no finalizer and goes at once, before the objects that wait  *)
(* on theirs.                                                              *)
DeleteSecret ==
    /\ "secretLoss" \in Faults
    /\ credentials = "valid"
    /\ credentials' = "absent"
    /\ UNCHANGED <<platformVars, obj, deleting, removed, pc, mem, cursor,
                   todo, faults>>

ClusterController ==
    /\ \/ Reconcile
       \/ VPCVerify \/ VPCCreate
       \/ IPBlockVerify \/ IPBlockCreate
       \/ SubnetVerify \/ SubnetCreate
       \/ NSGVerify \/ NSGCreate
       \/ DeleteNSG \/ DeleteSubnet \/ DeleteVPC
       \/ Patch
    /\ UNCHANGED credentials

Next ==
    \/ ClusterController
    \/ RequestDelete
    \/ DeleteSecret
    \/ Drift /\ UNCHANGED clusterVars

(* The controller is invoked again after every pass (requeue, error        *)
(* backoff, or the periodic resync), so its steps are weakly fair.         *)
(* Deletion and drift are up to the environment and get no fairness.       *)
Spec == Init /\ [][Next]_vars /\ WF_vars(ClusterController)

-----------------------------------------------------------------------------
(* The network the status describes exists on the platform.                *)
NetworkUp(st) ==
    /\ st.ready
    /\ {st.vpc, st.ipBlock} \cup Range(st.subnets) \subseteq live
    /\ HasNSG => st.nsg \in live

(* NoOrphanResource: every resource the platform holds for the cluster is  *)
(* recorded in the stored status, or in the pass that just created it and  *)
(* has not patched yet.  A resource outside both is leaked: nothing will   *)
(* ever verify, reuse or delete it.  About the create-then-cache sequence  *)
(* of reconcileVPC/ensureIPBlock/reconcileSubnets/reconcileNSG and the     *)
(* deferred patch.                                                         *)
NoOrphanResource ==
    ~removed => live \subseteq Recorded(obj.status) \cup InFlight

(* VPCDeletedLast: when reconcileDelete deletes the VPC, neither the NSG   *)
(* nor any subnet it recorded is still on the platform (spec 4.4: reverse  *)
(* creation order, a failure aborts the remaining deletes).                *)
VPCDeletedLast ==
    [][\A v \in live \ live' :
         (kindOf[v] = "VPC" /\ drifts' = drifts) =>
            \A i \in Recorded(mem.status) :
               kindOf[i] \in {"Subnet", "NSG"} => i \notin live']_vars

(* NetworkReleased: once the finalizer is gone and the object with it, the *)
(* VPC, NSG and every subnet the status recorded are gone from the         *)
(* platform.  About reconcileDelete removing the finalizer only after all  *)
(* its deletes succeeded, over retries after partial failures.             *)
NetworkReleased ==
    removed =>
        \A i \in Recorded(obj.status) :
           kindOf[i] \in {"VPC", "Subnet", "NSG"} => i \notin live

(* NothingLeftBehind: once the object is gone, none of the resources the   *)
(* controller created for it is left on the platform.                      *)
NothingLeftBehind ==
    removed => live = {}

(* Idempotent: while the stored status describes a network that exists,   *)
(* no step creates anything on the platform: a pass over a converged       *)
(* cluster only verifies (spec 8, idempotence).  About the verify-then-    *)
(* create of reconcileVPC, ensureIPBlock, reconcileSubnets, reconcileNSG.  *)
Idempotent == [][NetworkUp(obj.status) => nextId' = nextId]_vars

(* DeletionCompletes: a deleted NvidiaBMMCluster is eventually removed;    *)
(* its finalizer does not stay forever once failures stop.                 *)
DeletionCompletes == deleting ~> removed

(* Converges: unless it is deleted, the cluster's network is eventually    *)
(* and for good up and marked ready, after drift and failures.             *)
Converges == <>[](deleting \/ NetworkUp(obj.status))
-----------------------------------------------------------------------------
(* Refinement of ClusterLifecycle: the phase of spec 4.4 is read off the   *)
(* stored object; a pass in flight does not count until its patch.         *)
Phase ==
    CASE removed          -> "Gone"
      [] deleting         -> "Deleting"
      [] ~obj.finalizer   -> "Unmanaged"
      [] obj.status.ready -> "Ready"
      [] OTHER            -> "Converging"

Lifecycle == INSTANCE ClusterLifecycle WITH phase <- Phase

(* LifecycleRefined: the stored NvidiaBMMCluster goes through the phases   *)
(* of spec 4.4 in order (the finalizer pass requeues before any network    *)
(* step, Ready is only reached from Converging, a deleted object is gone   *)
(* only through Deleting or before its finalizer) and, under the           *)
(* controller's fairness, every phase it may leave on its own is left.     *)
LifecycleRefined == Lifecycle!LifecycleSpec
=============================================================================
