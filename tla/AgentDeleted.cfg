CONSTANTS
    None = None
    Users = {"alice"}
    Groups = {"web"}
    IPs = {"a"}
    Ports = {80}
    Configs <- Listed
    MaxTokens = 1
    AgentFaults = {}

SPECIFICATION Spec
INVARIANT
    RejectedNodeIsClosed
