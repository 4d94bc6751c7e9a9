\* A control-plane machine reaching Ready must give the cluster its endpoint.
CONSTANTS
    cp = cp
    m1 = m1
    m2 = m2
    SubnetOrder <- MCSubnetOrder
    Machines = {m1}
    ControlPlane <- MCControlPlane
    MachineSubnet <- MCMachineSubnet
    HasNSG = FALSE
    SiteRef = "id"
    Faults = {}
    MaxFaults = 0
    MaxDrift = 0
    NotFoundOnDelete = FALSE
    MaxIds = 4
SPECIFICATION ProviderSpec
INVARIANT EndpointAdopted
CHECK_DEADLOCK FALSE
