---------------------------- MODULE BMMPlatform ----------------------------
(***************************************************************************)
(* The NVIDIA BMM REST platform, the external collaborator both controllers *)
(* call.  It is not code of this repository: it is the environment of the  *)
(* model.  A resource is a number handed out once (the platform generates  *)
(* the UUID), of one kind, and live until deleted.  Create returns a fresh *)
(* id or an error; Get tells whether an id is live; Delete of an id that  *)
(* is already gone succeeds (spec section 6), or, if NotFoundOnDelete,     *)
(* answers 404.  Outside the controllers, an operator or another tool may  *)
(* delete any live resource ("drift").                                     *)
(***************************************************************************)
EXTENDS Naturals, FiniteSets

CONSTANTS
    MaxIds,     \* how many resources the platform hands out (its quota)
    MaxDrift,   \* how many resources are deleted behind the controllers' back
    NotFoundOnDelete  \* Delete of an absent id answers 404 rather than 200/204

ASSUME MaxIds \in Nat /\ MaxDrift \in Nat /\ NotFoundOnDelete \in BOOLEAN

VARIABLES
    live,       \* the ids of the resources that currently exist
    kindOf,     \* the kind of the resource behind every id handed out
    nextId,     \* the id the next successful Create returns
    drifts,     \* external deletions so far
    instState,  \* the provisioning state of every instance
    addressed   \* the instances whose interfaces have an IP address

platformVars == <<live, kindOf, nextId, drifts, instState, addressed>>

Ids == 1..MaxIds
NoId == 0                      \* the empty string "" of an unset id field
Kinds == {"VPC", "IPBlock", "Subnet", "NSG", "Instance"}
InstStates == {"Pending", "Provisioning", "Ready", "Error"}

PlatformTypeOK ==
    /\ live \subseteq Ids
    /\ kindOf \in [Ids -> Kinds \cup {"none"}]
    /\ nextId \in 1..(MaxIds + 1)
    /\ drifts \in 0..MaxDrift
    /\ instState \in [Ids -> InstStates \cup {"none"}]
    /\ addressed \subseteq Ids

PlatformInit ==
    /\ live = {}
    /\ kindOf = [i \in Ids |-> "none"]
    /\ nextId = 1
    /\ drifts = 0
    /\ instState = [i \in Ids |-> "none"]
    /\ addressed = {}

\* The platform still has room for a new resource.
CanCreate == nextId <= MaxIds

\* The id a successful Create returns in this step.
NewId == nextId

\* A Create of kind k takes effect on the platform.
Created(k) ==
    /\ CanCreate
    /\ live' = live \cup {NewId}
    /\ kindOf' = [kindOf EXCEPT ![NewId] = k]
    /\ nextId' = nextId + 1
    /\ instState' = IF k = "Instance"
                       THEN [instState EXCEPT ![NewId] = "Pending"]
                       ELSE instState
    /\ UNCHANGED <<drifts, addressed>>

\* A Delete of id i takes effect; deleting an absent id changes nothing.
Deleted(i) ==
    /\ live' = live \ {i}
    /\ UNCHANGED <<kindOf, nextId, drifts, instState, addressed>>

\* A Delete of id i answered 200 or 204.
DeleteOk(i) ==
    /\ i \in live \/ ~NotFoundOnDelete
    /\ Deleted(i)

\* A Delete of an id that is already gone, answered 404.
DeleteNotFound(i) == i \notin live /\ NotFoundOnDelete

\* Someone outside the controllers deletes a live resource.
Drift ==
    /\ drifts < MaxDrift
    /\ \E i \in live : live' = live \ {i}
    /\ drifts' = drifts + 1
    /\ UNCHANGED <<kindOf, nextId, instState, addressed>>

(* The platform's provisioning workflow moves a live instance on:          *)
(* Pending -> Provisioning -> Ready, or to Error before it is Ready; an    *)
(* instance gets its IP address once it is provisioning.                   *)
Provision ==
    /\ \E i \in live :
          \/ /\ instState[i] = "Pending"
             /\ instState' = [instState EXCEPT ![i] = "Provisioning"]
             /\ UNCHANGED addressed
          \/ /\ instState[i] \in {"Provisioning", "Ready"}
             /\ i \notin addressed
             /\ addressed' = addressed \cup {i}
             /\ UNCHANGED instState
          \/ /\ instState[i] = "Provisioning"
             /\ instState' = [instState EXCEPT ![i] = "Ready"]
             /\ UNCHANGED addressed
          \/ /\ instState[i] \in {"Pending", "Provisioning"}
             /\ instState' = [instState EXCEPT ![i] = "Error"]
             /\ UNCHANGED addressed
    /\ UNCHANGED <<live, kindOf, nextId, drifts>>

\* The live resources of kind k.
LiveOf(k) == {i \in live : kindOf[i] = k}
=============================================================================
