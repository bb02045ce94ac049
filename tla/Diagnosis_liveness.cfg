CONSTANTS
    Incident = {i1}
    AlertOf <- OneAlert
    Api = {c1}
    Worker = {w1}
    Msg = {m1, m2, m3, m4}
    Reserve = 2
    Run = {r1}
    None = None
    Endpoints = {"webhook", "create"}
    MaxRetries = 1
    Faults = {"db", "broker", "crash"}
    MaxFaults = 1
SPECIFICATION FairSpec
INVARIANT
    NoAcceptedAlertLost
PROPERTIES
    DiagnosisConcludes
    StuckOnlyBehindRunOrDeadLetter
CHECK_DEADLOCK FALSE
