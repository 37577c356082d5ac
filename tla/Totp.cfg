CONSTANTS
    Requests = {r1, r2}
    Kinds = {"stepup", "enroll", "activate", "disable"}
    MaxFailures = 1
    MaxSecrets = 2
    MaxTime = 2
    MaxErrors = 1

SPECIFICATION Spec
SYMMETRY RequestSymmetry
INVARIANTS
    TypeOK
    CapHolds
    CodeConsumedOnce
    EnabledIsConfirmed
PROPERTY
    ReplacingNeedsCode
