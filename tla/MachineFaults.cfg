\* One machine with the failures that lose an answer or a write: deletion
\* of the machine and of the cluster must still complete.
CONSTANTS
    cp = cp
    m1 = m1
    m2 = m2
    SubnetOrder <- MCSubnetOrder
    Machines = {m1}
    ControlPlane <- MCControlPlane
    MachineSubnet <- MCMachineSubnet
    HasNSG = FALSE
    SiteRef = "id"
    Faults = {"createLost", "deleteLost", "patchFail"}
    MaxFaults = 1
    MaxDrift = 1
    NotFoundOnDelete = FALSE
    MaxIds = 5
SPECIFICATION ProviderSpec
PROPERTY MachineDeletionCompletes
PROPERTY MachineLifecycleRefined
CHECK_DEADLOCK FALSE
