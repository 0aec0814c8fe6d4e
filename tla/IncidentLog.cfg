SPECIFICATION Spec
CONSTANTS
    Addr = {a1, a2, a3}
    MAX_INCIDENTS_PER_CPU = 2
    BatchSize = 1
    LateStamp = {TRUE, FALSE}
    MaxIncidents = 4
    MaxFailures = 1
INVARIANTS
    Accounted NeverUnderestimates
PROPERTY
    EventuallyExported
CHECK_DEADLOCK FALSE
