\* Four documents, two topics, at most two changes, two runs.
CONSTANTS
    c1 = c1
    c2 = c2
    c3 = c3
    t1 = t1
    t2 = t2
    Repositories = {"file", "registry"}
    Columns <- MCColumns
    Types <- MCTypes
    Documents <- MCDocuments
    Modes = {"full"}
    NumTopics = 2
    MaxChanges = 2
    MaxRuns = 2
SPECIFICATION Spec
INVARIANTS
    SameRefSameSchema
    PinnedIsStable
    WrongFormatOnlyFromCache
    RestartKeepsColumns
CHECK_DEADLOCK FALSE
