SPECIFICATION FairSpec
CONSTANTS
    ann = ann
    bob = bob
    shared = shared
    second = second
    Keys <- MCKeys
    Server = server
    Commands = {command}
    None = None
    MaxRules = 2
    MaxEvents = 3
PROPERTIES HostRulesUntouched NoGap Idempotent Repairs
CHECK_DEADLOCK FALSE
