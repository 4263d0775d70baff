\* One process, started and crashed at will, beside repeated probes; complete
\* room history.
SPECIFICATION HealthFairSpec
CONSTANTS
    Procs = {p1}
    MaxPeer = 3
    MaxNonce = 3
    PollLimit = 2
    RecoverLimit = 5
    MayExpire = FALSE
    ProvisionedSeq = 1
    ProvisionNonce = 1
INVARIANTS
    QuietVerdictIsExact
    HeldVerdictIsRunning
    UnhealthyIsExplained
PROPERTIES
    RecoveryCompletes
    InputsSettle
CHECK_DEADLOCK FALSE
