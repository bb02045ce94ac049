SPECIFICATION Spec
CONSTANT
    Config <- Configurations
INVARIANT
    CancelledIsNoVerdict
CHECK_DEADLOCK FALSE
