CONSTANTS
    Incident = {i1}
    Approval = {a1}
    Proc = {p1}
    None = None
    Faults = {"cancel"}
SPECIFICATION Spec
INVARIANTS
    FailedMeansNotApplied
\* A quiet system, with every call served, may stop.
CHECK_DEADLOCK FALSE
