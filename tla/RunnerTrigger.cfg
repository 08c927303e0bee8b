SPECIFICATION FairSpec
CONSTANTS
    InitialBackoff = 1
    MaxBackoff = 5
    MaxGateways = 2
    FailureCap = 2
PROPERTY TriggerOpensSession
\* A stopped runner has nothing left to do.
CHECK_DEADLOCK FALSE
