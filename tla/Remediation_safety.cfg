CONSTANTS
    Incident = {i1}
    Approval = {a1, a2}
    Proc = {p1, p2, p3}
    None = None
    Faults = {"cancel", "db", "crash", "reset"}
SPECIFICATION Spec
SYMMETRY Symmetry
INVARIANTS
    TypeOK
    AtMostOneRestart
    RestartOnlyIfGranted
    RecoveryExcludesRestart
    ExecutedMeansClosed
PROPERTIES
    ImplementsRestartOnce
    StatusFollowsTable
    ApprovalFollowsChain
\* A quiet system, with every call served, may stop.
CHECK_DEADLOCK FALSE
