\* Two records, two releases, every routing, one record expiring, one failed
\* query or ended run.
CONSTANTS
    MaxOffset = 2
    MaxVersion = 2
    MaxOffsetsPerTrigger = 2
    MaxFailures = 1
    MaxExpired = 1
SPECIFICATION FairSpec
INVARIANTS
    WrittenOnce
    RoutedToOneTable
PROPERTIES
    CommittedIsFinal
    AtomicSpec
    RecordsArrive
CHECK_DEADLOCK FALSE
