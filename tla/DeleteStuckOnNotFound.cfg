\* A Delete whose 200 answer is lost, on a platform that answers 404 for a
\* resource already gone: the retried delete fails forever.
CONSTANTS
    cp = cp
    worker = worker
    worker2 = worker2
    SubnetOrder <- MCSubnetOrder
    HasNSG = TRUE
    SiteRef = "id"
    Faults = {"deleteLost"}
    MaxFaults = 1
    MaxDrift = 0
    NotFoundOnDelete = TRUE
    MaxIds = 7
SPECIFICATION Spec
PROPERTY DeletionCompletes
CHECK_DEADLOCK FALSE
