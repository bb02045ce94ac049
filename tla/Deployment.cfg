CONSTANTS
    Deployments <- SmallDeployments
    Config <- Figures
    Token = {"", " ", "t1", "t2", "t3"}
    WorkerName = {"", "w1", "w2"}
    Consumers <- AroundOne
    Depth = {2000, 2001, 2002}
    Rate = {10, 11}
SPECIFICATION DeploymentSpec
INVARIANTS
    DeploymentTypeOK
    PassedExactlyOnWindow
    FailedMeansExhausted
    RestartsAreGuarded
    RealAlertsAreNotStranded
    RealRestartsPassOnMeasurements
\* Everything is decided, or a process is not there.
CHECK_DEADLOCK FALSE
