\* One query restarted once, three publishers, one progress report, and a
\* queue that can be full.
CONSTANTS
    q1 = q1
    Query = {q1}
    Publishers <- MCPublishers
    Payloads <- MCPayloads
    QueueCapacity = 2
    MaxProgress = 1
    MaxRestarts = 1
SPECIFICATION FairSpec
INVARIANTS
    FanOutComplete
    InPostingOrder
    ClosedSeesOneEvent
    BacklogShown
PROPERTIES
    FailureReported
    
CHECK_DEADLOCK FALSE
