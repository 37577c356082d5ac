CONSTANTS
    Hosts = {a, b}
    Senders = {a}
    Proxies = {p}
    Requests = {r1, r2}
    MaxFailures = 2
    MaxSecrets = 2
    MaxErrors = 1
    NoHost = NoHost

SPECIFICATION FairSpec
INVARIANTS
    TypeOK
    OverrunBounded
    LockoutIsOwn
    AdmittedIsAdmin
PROPERTIES
    LockoutEnds
