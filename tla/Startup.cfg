\* Two topics with DLQ; every spec with at most two problems, every overlay of
\* one key, every source and its options over a spec with at most one.
CONSTANTS
    NumTopics = 2
    DlqEnabled = TRUE
    PlainSource <- MCPlainSource
    SourceInputs <- MCSourceInputs
SPECIFICATION Spec
INVARIANTS
    ReportedTogether
    ForeseenNeverStarts
    OnlyLateProblemsOrphan
    SupervisedAllRun
    PrecedenceAsDocumented
