\* The credentials Secret is deleted (as a namespace deletion does) while the
\* NvidiaBMMCluster waits on its finalizer: every later pass fails to build
\* the ClusterScope before it reaches reconcileDelete.
CONSTANTS
    cp = cp
    worker = worker
    worker2 = worker2
    SubnetOrder <- MCSubnetOrder
    HasNSG = TRUE
    SiteRef = "id"
    Faults = {"secretLoss"}
    MaxFaults = 0
    MaxDrift = 0
    NotFoundOnDelete = FALSE
    MaxIds = 7
SPECIFICATION Spec
PROPERTY DeletionCompletes
CHECK_DEADLOCK FALSE
