SPECIFICATION FairSpec
CONSTANTS
    InitialBackoff = 1
    MaxBackoff = 5
    MaxGateways = 2
    FailureCap = 2
INVARIANTS TypeOK NoLinkLeftOpen ReportFitsTask StopMeansOver
PROPERTIES NoAttemptOnceStopping ImplementsLifecycle StopCompletes KeepsTrying
\* A stopped runner has nothing left to do.
CHECK_DEADLOCK FALSE
