\* Two topics without DLQ, the second draining (availableNow), two restarts.
CONSTANTS
    NumTopics = 2
    MaxAttempts = 2
    FailFastModes = {FALSE}
    DlqEnabled = FALSE
    BatchTopics = {2}
    SharingModes = {{}}
SPECIFICATION FairSpec
INVARIANTS
    FinishedAbandonsOnlyRestarts
    ExhaustedMeansAllRestarts
PROPERTIES
    ShutdownHonoured
    FailureAnswered
