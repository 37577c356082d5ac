SPECIFICATION Spec
CONSTANTS
    ann = ann
    bob = bob
    near = near
    far = far
    Keys <- MCKeys
    Ports <- MCPorts
    Server = server
    Commands = {command}
    None = None
    MaxRules = 2
    MaxFlushes = 1
INVARIANTS FirstMatchIsIntent
PROPERTIES GuardHolds GuardSynced ClosedOnlyOnRequest ImplementsFirewall
CHECK_DEADLOCK FALSE
