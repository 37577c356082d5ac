CONSTANTS
    None = None
    Users = {"alice"}
    Groups = {"web"}
    IPs = {"a"}
    Ports = {80, 22}
    Configs <- Reconfigured
    MaxTokens = 1
    AgentFaults = {"net", "fw", "disk", "crash", "flush"}

SPECIFICATION FairSpec
INVARIANTS
    TypeOK
    GuardSurvives
    SavedIsOnDisk
PROPERTIES
    NodeConverges
    GuardReachesDisk
    OnlyListedPorts
