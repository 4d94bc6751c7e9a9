\* The cluster controller and one machine's controller, with failures a retry
\* repairs, one external deletion, and the credentials Secret deleted at any
\* point: safety only, since a lost Secret stops every later pass.
CONSTANTS
    cp = cp
    m1 = m1
    m2 = m2
    SubnetOrder <- MCSubnetOrder
    Machines = {m1}
    ControlPlane <- MCControlPlane
    MachineSubnet <- MCMachineSubnet
    HasNSG = FALSE
    SiteRef = "id"
    Faults = {"createFail", "deleteFail", "getError", "secretLoss"}
    MaxFaults = 1
    MaxDrift = 1
    NotFoundOnDelete = FALSE
    MaxIds = 5
SPECIFICATION ProviderSpec
INVARIANT MachineTypeOK
INVARIANT NoOrphanInstance
INVARIANT ReadyMeansInstanceReady
CHECK_DEADLOCK FALSE
