CONSTANTS
    NumJobs = 2
    Deps <- OneAfterAnother
    DeviceJobs = {2}
    Workers = {w1}
    LeaseTime = 2
    MaxTime = 3
    MaxInstance = 2
    MaxAttempt = 2
SPECIFICATION FairSpec
INVARIANTS
    TypeOK
    ExclusiveAuthority
    RegistryAgrees
PROPERTIES
    CancelledForGood
    CancellationEnds
