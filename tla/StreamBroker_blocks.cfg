CONSTANTS
    Run = {r1, r2}
    Client = {c1, c2}
    Buffer = 2
    MaxEvents = 3
    Nobody = Nobody
SPECIFICATION FairSpec
PROPERTIES
    PublisherNeverBlocked
\* The runs are over once everything is published and read.
CHECK_DEADLOCK FALSE
