\* One machine whose DeleteInstance succeeds but whose answer is lost, on a
\* platform that answers 404 for an instance already gone: reconcileDelete
\* accepts only 200 and 204, so the retried delete fails forever.
CONSTANTS
    cp = cp
    m1 = m1
    m2 = m2
    SubnetOrder <- MCSubnetOrder
    Machines = {m1}
    ControlPlane <- MCControlPlane
    MachineSubnet <- MCMachineSubnet
    HasNSG = FALSE
    SiteRef = "id"
    Faults = {"deleteLost"}
    MaxFaults = 1
    MaxDrift = 0
    NotFoundOnDelete = TRUE
    MaxIds = 4
SPECIFICATION ProviderSpec
PROPERTY MachineDeletionCompletes
CHECK_DEADLOCK FALSE
