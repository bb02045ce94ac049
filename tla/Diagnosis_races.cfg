CONSTANTS
    Incident = {i1, i2}
    AlertOf <- OneAlert
    Api = {c1, c2}
    Worker = {w1, w2}
    Msg = {m1, m2}
    Reserve = 0
    Run = {r1, r2}
    None = None
    Endpoints = {"webhook", "analyze"}
    MaxRetries = 0
    Faults = {"db", "broker", "crash", "disconnect"}
    MaxFaults = 1
SPECIFICATION Spec
SYMMETRY Symmetry
INVARIANTS
    TypeOK
    NoAcceptedAlertLost
    OneDiagnosisAtATime
    FailedOnlyAfterDeadLetter
PROPERTY
    ImplementsLifecycle
\* A quiet system may stop.
CHECK_DEADLOCK FALSE
