\* Two topics with their DLQ queries, one restart each, with and without
\* fail_fast, with their own or one shared checkpoint.
CONSTANTS
    NumTopics = 2
    MaxAttempts = 1
    FailFastModes = {TRUE, FALSE}
    DlqEnabled = TRUE
    BatchTopics = {}
    SharingModes = {{}, {1, 2}}
SPECIFICATION Spec
INVARIANTS
    RestartOnCleanSlate
    StopLeavesNothing
PROPERTIES
    RestartIsIsolated
    ContractSpec
