\* A CreateInstance whose answer is lost leaves an instance no machine holds.
CONSTANTS
    cp = cp
    m1 = m1
    m2 = m2
    SubnetOrder <- MCSubnetOrder
    Machines = {m1}
    ControlPlane <- MCControlPlane
    MachineSubnet <- MCMachineSubnet
    HasNSG = FALSE
    SiteRef = "id"
    Faults = {"createLost"}
    MaxFaults = 1
    MaxDrift = 0
    NotFoundOnDelete = FALSE
    MaxIds = 5
SPECIFICATION ProviderSpec
INVARIANT NoOrphanInstance
CHECK_DEADLOCK FALSE
