CONSTANTS
    Incident = {i1}
    Approval = {a1, a2}
    Proc = {p1, p2}
    None = None
    Faults = {"cancel", "reset"}
SPECIFICATION FairSpec
PROPERTIES
    RemediationEnds
    ClaimedApprovalSettles
\* A quiet system, with every call served, may stop.
CHECK_DEADLOCK FALSE
