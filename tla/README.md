# TLA+ models of cluster-api-provider-nvidia-bmm

These TLA+ modules model the two reconcilers of this Cluster API infrastructure
provider and the NVIDIA BMM platform they call. The TLC configurations check them.
Every action is written from the Go source under `src/`. `PROJECT.json` maps each
definition to the lines it models.

## The system

The file names in `src/internal/controller/` are misleading.

- **Cluster controller**: `NvidiaBMMClusterReconciler`, in
  `nvidiabmmmachine_controller_test.go`, lines 38-628.
  - Creates the network in order: VPC → IP block → subnets → optional NSG.
  - Each step verifies a cached ID with a Get, or creates the resource and caches
    the new ID in the status.
  - On deletion it removes the NSG, then every subnet (a loop over a Go map),
    then the VPC, and then the finalizer.
- **Machine controller**: `NvidiaBMMMachineReconciler`, in
  `nvidiabmmcluster_controller_test.go`, lines 176-690.
  - Waits until the NvidiaBMMCluster is Ready and the bootstrap secret name is set.
  - Then it adds a finalizer, creates one instance on the machine's subnet, and
    polls it until it is Ready.
  - A control-plane machine sets the cluster's control-plane endpoint.
  - On deletion it deletes the instance and removes the finalizer.
- **ClusterScope / MachineScope** (`src/pkg/scope/machine.go`): accessors over the
  in-memory objects. Nothing is persisted by them. `NewClusterScope` reads the
  credentials Secret (endpoint, orgName, token); `NewMachineScope` requires a
  non-empty org name; `SiteID` accepts only an ID reference; `SetProviderID`
  writes `nvidia-bmm://<org>/<tenant>/<site>/<uuid>` on both machine objects
  (not modelled, see below).
- **Persistence**: each `Reconcile` reads its object and works on that in-memory
  copy. A deferred `patchHelper.Patch` writes it back at the end. The patch error
  is only logged.
- **How the parts interact**:
  - The machine controller reads the stored NvidiaBMMCluster (Ready, VPC ID,
    subnet IDs) at the start of its pass.
  - Both controllers call the same platform.
  - Every object has its own worker, so the cluster and each machine interleave
    freely.
  - CAPI deletes the NvidiaBMMCluster only after the cluster's Machines are gone.

## Modules

| Module | Models |
|---|---|
| `BMMPlatform` | The platform, which is the environment and not repository code. A resource is an id from `1..MaxIds`, handed out once in order, with its kind. The platform's quota is `MaxIds`. `Created(k)`, `Deleted(i)` and `DeleteOk(i)`/`DeleteNotFound(i)` cover Delete; `NotFoundOnDelete` says whether a delete of an absent id answers 404. `Drift` is an external deletion, bounded by `MaxDrift`. `Provision` is the instance workflow Pending → Provisioning → Ready / Error, plus the instance's IP address. |
| `ClusterReconciler` | The cluster controller. State: `obj` (stored status and finalizer), `deleting`, `removed`, and the pass's `pc`, `mem` (in-memory copy), `cursor` (index into `Spec.Subnets`) and `todo` (subnets the delete loop has not yet deleted). There is one action per platform call, so drift and the other controllers interleave between calls. `Patch` is the deferred patch. `Faults` selects which failures may happen; `MaxFaults` bounds them. |
| `MachineReconciler` | Extends `ClusterReconciler` with a set of `Machines`. State: `mobj`, `mdeleting`, `mremoved`, `bootstrap`, the stored `endpoint`, and per pass `mpc`, `mmem` and `seen` (the copy of the NvidiaBMMCluster the pass read). Actions: `MReconcile` (fetch, gates, finalizer, branch), `MCreate` (createInstance), `MPoll` (reconcileInstance), `MDelete` (reconcileDelete) and `MPatch`. `ProviderSpec` composes the machine controller with the cluster controller. |
| `ClusterLifecycle` | The abstract lifecycle spec 4.4 promises of one NvidiaBMMCluster: Unmanaged → Converging → Ready, Deleting → Gone, with Manage, Converge and Finish weakly fair. It models the spec, not code. `ClusterReconciler` maps its state to a phase (`Phase`) and instantiates it (`Lifecycle == INSTANCE ClusterLifecycle WITH phase <- Phase`). |
| `MachineLifecycle` | The abstract lifecycle spec 4.5 promises of each NvidiaBMMMachine: WaitingForCluster → WaitingForBootstrap → Unmanaged → Provisioning → Polling → Ready, Deleting → Gone; a machine deleted before it has a finalizer is gone at once. The cluster becoming Ready moves every waiting machine in one step. Only Manage and Finish are weakly fair: Ready depends on the platform, and an instance needs quota. `MachineReconciler` maps each machine to a phase (`MPhase`) and instantiates it. |
| `MCClusterReconciler`, `MCMachineReconciler` | Model values: subnets `cp` and `worker` (`MCSubnetOrder`), or `cp`, `worker2` and `worker` (`MCSubnetOrder3`); machines `m1` (control plane) and `m2`. |

Correspondence with the code:

- A Go `""` ID is `NoId` (0).
- The subnet map is a function from subnet names to ids, with `NoId` meaning
  "key absent".
- Each failed call ends the pass at the deferred patch (`pc = "patch"`), as the
  `return err` does.
- Every error branch of the code is a disjunct, including the ones that clear a
  cached ID:
  - a Get that errors or answers non-200;
  - a Create that errors, answers non-201, or is refused by the quota;
  - a Delete that errors or answers neither 200 nor 204.
- The credentials Secret is the variable `credentials` (`valid` or `absent`).
  `NewClusterScope` and `NewMachineScope` fail on an absent one, before the
  deletion branch, as the code does. `DeleteSecret` (fault kind `secretLoss`)
  deletes it, as a namespace deletion does.
- `SiteRef` says whether `Spec.SiteRef` gives an ID, only a name, or nothing;
  only an ID lets a pass past `SiteID`. Every run uses an ID.
- The fault kinds:
  - `createLost` and `deleteLost` mean the call took effect but its answer was lost.
  - `patchFail` is the logged patch error. A controller crash, or a restart in
    the middle of a pass, loses the pass the same way. Nothing but the patch is
    persisted, so `patchFail` at any point of a pass models the crash.
- Each operator under a `\* Mutant:` comment is a plausible bug in the action
  that follows it, listed under `mutants` in `PROJECT.json`. The specifications
  never use them.

## Runs

Passing runs (each finishes in about a minute or less):

| Run | Bounds | Checks |
|---|---|---|
| `ClusterSafety` | 3 subnets (`MCSubnetOrder3`) and an NSG; createFail/deleteFail/secretLoss ≤ 2; drift ≤ 2; 404 on absent delete; 8 ids | `TypeOK`; `NoOrphanResource` (every live resource is recorded in the stored status or in the pass that created it); `NetworkReleased` (once the object is gone, its VPC, subnets and NSG are gone); `VPCDeletedLast` (action property: the VPC is never deleted while a recorded subnet or NSG is live, for any order of the map loop); `Idempotent` (action property: while the stored status describes a network that exists, no step creates anything, spec 8) |
| `ClusterFaults` | 2 subnets and an NSG; getError, createFail, createLost, deleteFail, deleteLost, patchFail ≤ 2; drift ≤ 1; 16 ids | `NetworkReleased`, `VPCDeletedLast`, `DeletionCompletes` (`deleting ~> removed`), `Converges` (`<>[]` deleting or the network up and Ready), `LifecycleRefined` (the controller implements `ClusterLifecycle`) |
| `MachineSafety` | cluster and machine `m1`; createFail/deleteFail/getError ≤ 1; the Secret may be deleted; drift ≤ 1; 5 ids | `MachineTypeOK`; `NoOrphanInstance` (every live instance is held by exactly one existing machine, stored or in flight); `ReadyMeansInstanceReady` (a Ready machine holds an instance the platform reported Ready; an Error instance never makes it Ready) |
| `MachinePair` | machines `m1` and `m2` with free interleaving; a quota of one instance | `NoOrphanInstance`, `MachineDeletionCompletes` (every deleted machine is eventually removed, its instance deleted), `MachineLifecycleRefined` (every machine follows `MachineLifecycle`) |
| `MachineFaults` | `m1`; createLost/deleteLost/patchFail ≤ 1; drift ≤ 1 | `MachineDeletionCompletes`, `MachineLifecycleRefined` |

Runs that find a real disagreement (each checks one property; see `findings` in
`PROJECT.json`):

- `OrphanOnGetError`: a transport error of GetVpc clears the ID. A second VPC is
  created and the first is leaked (`NoOrphanResource`).
- `IPBlockLeak`: `reconcileDelete` never deletes the IP block
  (`NothingLeftBehind`).
- `DeleteStuckOnNotFound`: only 200/204 count as success. If the platform answers
  404 for a resource already gone (here after a lost delete answer), deletion
  never completes (`DeletionCompletes`).
- `EndpointNotAdopted`: the endpoint is set on an in-memory NvidiaBMMCluster that
  is never patched (`EndpointAdopted`).
- `InstanceLeakOnCreateTimeout`: a lost CreateInstance answer leads to a second
  instance, and the first is held by no machine (`NoOrphanInstance`).
- `DeleteStuckWithoutCredentials`: both controllers build their scopes, which
  read the credentials Secret, before the deletion branch. Once the Secret is
  gone (a namespace deletion removes it at once), a deleted cluster never loses
  its finalizer (`DeletionCompletes`).
- `MachineDeleteStuckOnNotFound`: the machine's `reconcileDelete` has the same
  200/204 rule (line 666). A DeleteInstance whose answer is lost is retried,
  answered 404, and the NvidiaBMMMachine keeps its finalizer forever
  (`MachineDeletionCompletes`).

Two more disagreements were met and are listed as hazards, not runs: a failed
patch loses the IDs created in its pass (`NoOrphanResource` fails with
`patchFail`), and the Ready flag is never reset after the VPC drifts away.
An instance deleted behind the machine's back is also only a hazard: the machine
fails on every poll and is never re-provisioned. Spec 4.5 does not ask for
re-provisioning, and the model shows such a machine is still deleted cleanly.
`Idempotent` holds only without `getError`. With it, a GetVpc transport error
on a pass over a converged network leads to a second CreateVpc. This is the path
of `OrphanOnGetError`.

Why these bounds are enough:

- **Fault and drift budgets.** One fault or one drift per behaviour reaches every
  failure branch of every step, at every point of a pass and of the deletion.
  The cluster runs take two: `ClusterSafety` two faults and two drifts,
  `ClusterFaults` two faults of every kind, so a failure can hit the retry of
  an earlier one. The composed machine runs keep one, to stay within five
  minutes.
- **Subnets.** `ClusterSafety` declares three subnets, so the creation loop
  resumes from the middle of the list and the delete loop meets every order of
  a map with more than two keys; the other runs use two, which already give
  both delete orders.
- **Quota.** The id quota is large enough for every re-creation the budgets
  allow. A lost patch leaks the whole network of its pass (five resources), so
  `ClusterFaults` needs 16 ids for two of them and a drift. With fewer, the
  leaked networks use up the quota, every later create is refused and
  `Converges` fails: this is the lost-patch leak listed as a hazard, seen
  through the quota, not a separate disagreement. At its limit the quota also
  exercises the refusal.
- **Two machines.** Two machines, with one quota slot, exercise two workers
  creating concurrently.
- **Machine-run network.** The machine runs use one subnet and no NSG. This keeps
  the composition within five minutes, and it fires the no-NSG branch of
  `SubnetVerify`.
- **Coverage.** Together, the passing runs fire every action and every disjunct.

## Fairness

Only the controllers' steps are weakly fair:

- `WF(ClusterController)`;
- `WF(MachineController(m))` for each machine.

The controller-runtime work queue re-invokes a reconciler after every pass:

- on a requeue or a `RequeueAfter`;
- after an error, with backoff;
- on the periodic resync.

So a pass that is enabled is eventually run. Deletion requests, bootstrap data,
drift, the provisioning workflow and faults get no fairness. Liveness therefore
holds whatever the environment does. The fault and drift budgets are finite,
which makes "eventually failures stop" part of every behaviour.

## Refinement

`ClusterFaults` checks `LifecycleRefined == Lifecycle!LifecycleSpec`. The phase is
read off the model's state:

- Gone once removed;
- Deleting once the DeletionTimestamp is set;
- Unmanaged without a stored finalizer;
- Ready when the stored status is Ready;
- otherwise Converging.

Every controller step is then either a step of the lifecycle or a stutter. The
lifecycle's fairness holds because the controller's does. Together with
`Converges` and `DeletionCompletes`, this shows that the controller keeps spec
4.4's promise under every fault `ClusterFaults` allows. `DeleteStuckWithoutCredentials`
shows the promise breaking when the Secret goes away.

`MachinePair` and `MachineFaults` check `MachineLifecycleRefined`, where
`MLifecycle == INSTANCE MachineLifecycle WITH mphase <- [m \in Machines |-> MPhase(m)]`.
Each machine's phase is read off its state, in this order:

- Gone once removed;
- Deleting once the Machine is deleted;
- Ready with a stored Ready flag;
- Polling with a cached instance ID;
- Provisioning with a stored finalizer;
- otherwise WaitingForCluster, WaitingForBootstrap or Unmanaged, from the gates
  `MReconcile` checks: the stored cluster's Ready flag and the bootstrap secret
  name.

This is the gate enforcement of spec 8: neither a finalizer nor an instance
appears before both gates are met. The stale cluster Ready flag, with the drift
of `MachineFaults`, does not break it.

## Not modelled

- Status conditions, logging and the request bodies: no property tells them
  apart. This covers `AdditionalInterfaces`, `SSHKeyGroups`, the labels, the
  subnet CIDR and Role, `MachineScope.Role` (only logged), `Name`/`Namespace`
  and `TenantID` (copied into the request and the provider ID).
- The provider ID. `pkg/providerid` is not in this repository;
  `SetProviderID` formats the new instance ID into a string stored in the same
  patch as the instance ID, and `MachineScope.ProviderID`, which parses it back,
  has no caller. A round-trip property would check the spec's grammar rather
  than this code. An org name containing `/` would give an unparsable provider
  ID; that is a unit test's question.
- The failure to read the bootstrap data Secret in `GetBootstrapData`: it fails
  `createInstance` before any platform call, as a refused create does, and is
  folded into the gate `bootstrap[m]`.
- The NSG rule translation in `reconcileNSG` (lowercasing and defaulting of each
  rule). It takes `&rule.Name` and `&rule.PortRange` of the range variable;
  with the per-iteration loop variables of Go 1.22, which the Cluster API
  v1beta2 dependency requires, these do not alias. It has no control flow and
  is a unit test's job.
- `InstanceTypeSpec.ID` and `MachineID` are documented as mutually exclusive,
  but neither the types nor `createInstance` validate it, and both are sent.
  What the platform does with both is not in the spec; this is a request-body
  question with no interleaving, so it is left to a unit test.
- `parseCIDR` and the `/16` IP-block capacity. Only the prefix length reaches the
  platform, and spec 9 leaves the allocation inside the block open.
- A name-only site reference. It fails `SiteID` on every pass, a plain
  configuration error. The model has it (`SiteRef`), but no run uses it.
- A Secret with an empty `orgName`. It passes `NewClusterScope` and fails
  `NewMachineScope`.
- `PatchObject` and `Close` of both scopes: the controllers never call them.
- `testutil/mock_client.go`: its method names do not match the generated client,
  and the controllers take the concrete client type, so nothing calls it.
- The `Machine` object, on which `SetProviderID`/`SetAddresses` also write but
  which is never patched.
- Paused clusters.
- The machine template types: declarations with no behaviour.
- Two control-plane machines racing for the control-plane endpoint. The code
  writes the endpoint only on the in-memory NvidiaBMMCluster, which is never
  patched (`EndpointNotAdopted`), so in this code there is no shared write to
  race on. A race exists only in a fixed version, which is not this program.

Every operation of the repository's code that changes state is now an action
or an operator of a module, or is listed above with the reason it is left out.

The cluster's own `DeletionCompletes` is not restated in the composed runs. CAPI
deletes the NvidiaBMMCluster only after its machines, so with machines it adds
nothing to `ClusterFaults`.
