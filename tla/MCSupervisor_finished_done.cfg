\* One topic, one restart.
CONSTANTS
    NumTopics = 1
    MaxAttempts = 1
    FailFastModes = {FALSE}
    DlqEnabled = TRUE
    BatchTopics = {}
    SharingModes = {{}}
SPECIFICATION Spec
INVARIANT
    FinishedMeansDone
