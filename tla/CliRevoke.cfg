CONSTANTS
    u1 = u1
    g1 = g1
    None = None
    UserIds = {u1}
    NameOf <- OneUser
    Names = {"alice"}
    GroupIds = {g1}
    GroupName <- OneGroup
    GroupNames = {"web"}
    PortOf <- OnePort
    Ports = {80}
    IPs = {"a"}
    MaxCopies = 1
    MaxRotations = 1
    MaxToggles = 0
    Faults = {}
    ReAdd = FALSE

SPECIFICATION CliSpec
INVARIANT
    RevokeCutsOff
