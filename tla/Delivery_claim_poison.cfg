\* Claim: one record, a release in between, no retention.
CONSTANTS
    MaxOffset = 1
    MaxVersion = 2
    MaxOffsetsPerTrigger = 1
    MaxFailures = 1
    MaxExpired = 0
SPECIFICATION Spec
INVARIANT
    PoisonLandsInDlq
CHECK_DEADLOCK FALSE
