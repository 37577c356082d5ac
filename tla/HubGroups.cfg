CONSTANTS
    u1 = u1
    u2 = u2
    g1 = g1
    g2 = g2
    None = None
    UserIds = {u1}
    NameOf <- OneUser
    Names = {"alice"}
    GroupIds = {g1, g2}
    GroupName <- TwoGroupNames
    GroupNames = {"web", "ssh"}
    PortOf <- TwoPorts
    Ports = {80, 22}
    IPs = {"a"}
    MaxCopies = 1
    MaxRotations = 0
    MaxToggles = 1
    Faults = {"fw", "crash", "flush"}
    ReAdd = FALSE

SPECIFICATION Spec
INVARIANTS
    GuardClosesGroupPorts
    FirewallMatchesDatabase
