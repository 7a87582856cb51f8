\* Two pipelines of three records on one table, two keys, one failure.
CONSTANTS
    Writers = {w1, w2}
    Keys = {k1, k2}
    NumRecords = 3
    MaxBatch = 2
    MaxFailures = 1
SPECIFICATION FairSpec
INVARIANTS
    KeysUnique
    NoKeyLost
    NewerBatchWins
PROPERTY
    AllCommitted
CHECK_DEADLOCK FALSE
