CONSTANTS
    cp = cp
    worker = worker
    worker2 = worker2
    SubnetOrder <- MCSubnetOrder
    HasNSG = TRUE
    SiteRef = "id"
    Faults = {"getError"}
    MaxFaults = 1
    MaxDrift = 0
    NotFoundOnDelete = FALSE
    MaxIds = 7
SPECIFICATION Spec
INVARIANT NoOrphanResource
CHECK_DEADLOCK FALSE
