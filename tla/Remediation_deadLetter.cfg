CONSTANTS
    Incident = {i1}
    Approval = {a1}
    Proc = {p1, p2}
    None = None
    Faults = {}
SPECIFICATION Spec
PROPERTIES
    DeadLetterSparesRemediation
\* A quiet system, with every call served, may stop.
CHECK_DEADLOCK FALSE
