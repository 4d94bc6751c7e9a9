\* Every failure the code meets, two of them in a behaviour: Get errors,
\* creates and deletes that fail or whose answer is lost, a lost status
\* patch, and one drifted resource.  A lost patch leaks a whole network of
\* five resources, so the quota of 16 ids covers three networks and a drift.
CONSTANTS
    cp = cp
    worker = worker
    worker2 = worker2
    SubnetOrder <- MCSubnetOrder
    HasNSG = TRUE
    SiteRef = "id"
    Faults = {"getError", "createFail", "createLost", "deleteFail", "deleteLost", "patchFail"}
    MaxFaults = 2
    MaxDrift = 1
    NotFoundOnDelete = FALSE
    MaxIds = 16
SPECIFICATION Spec
INVARIANT NetworkReleased
PROPERTY VPCDeletedLast
PROPERTY DeletionCompletes
PROPERTY Converges
PROPERTY LifecycleRefined
CHECK_DEADLOCK FALSE
