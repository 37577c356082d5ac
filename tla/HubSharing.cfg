CONSTANTS
    u1 = u1
    u2 = u2
    g1 = g1
    g2 = g2
    None = None
    UserIds = {u1, u2}
    NameOf <- TwoNames
    Names = {"alice", "bob"}
    GroupIds = {g1}
    GroupName <- OneGroup
    GroupNames = {"web"}
    PortOf <- OnePort
    Ports = {80}
    IPs = {"a", "b"}
    MaxCopies = 2
    MaxRotations = 0
    MaxToggles = 1
    Faults = {"flush"}
    ReAdd = TRUE

SPECIFICATION FairSpec
INVARIANT
    DesiredIsOpen
PROPERTY
    MaintainRepairs
