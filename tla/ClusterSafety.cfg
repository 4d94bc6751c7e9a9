\* Benign failures and drift on a cluster of three subnets: creates and
\* deletes that fail without effect, the credentials Secret deleted, and
\* up to two resources deleted behind the controller's back.
CONSTANTS
    cp = cp
    worker = worker
    worker2 = worker2
    SubnetOrder <- MCSubnetOrder3
    HasNSG = TRUE
    SiteRef = "id"
    Faults = {"createFail", "deleteFail", "secretLoss"}
    MaxFaults = 2
    MaxDrift = 2
    NotFoundOnDelete = TRUE
    MaxIds = 8
SPECIFICATION Spec
INVARIANT TypeOK
INVARIANT NoOrphanResource
INVARIANT NetworkReleased
PROPERTY VPCDeletedLast
CHECK_DEADLOCK FALSE
PROPERTY Idempotent
