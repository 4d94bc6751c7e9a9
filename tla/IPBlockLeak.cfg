CONSTANTS
    cp = cp
    worker = worker
    worker2 = worker2
    SubnetOrder <- MCSubnetOrder
    HasNSG = TRUE
    SiteRef = "id"
    Faults = {}
    MaxFaults = 0
    MaxDrift = 0
    NotFoundOnDelete = FALSE
    MaxIds = 5
SPECIFICATION Spec
INVARIANT NothingLeftBehind
CHECK_DEADLOCK FALSE
