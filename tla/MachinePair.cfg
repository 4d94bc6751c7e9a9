\* Two machines (one control plane, one worker) on one subnet, competing for
\* a platform quota that holds one instance, without failures.
CONSTANTS
    cp = cp
    m1 = m1
    m2 = m2
    SubnetOrder <- MCSubnetOrder
    Machines = {m1, m2}
    ControlPlane <- MCControlPlane
    MachineSubnet <- MCMachineSubnet
    HasNSG = FALSE
    SiteRef = "id"
    Faults = {}
    MaxFaults = 0
    MaxDrift = 0
    NotFoundOnDelete = FALSE
    MaxIds = 4
SPECIFICATION ProviderSpec
INVARIANT NoOrphanInstance
PROPERTY MachineDeletionCompletes
PROPERTY MachineLifecycleRefined
CHECK_DEADLOCK FALSE
