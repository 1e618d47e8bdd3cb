CONSTANTS
    NumEvents = 1
    Feeds <- RedFeeds
    TagsFilter <- MCFilter
    Policy <- MCPolicy
    Recipient = "NIA"
    QueueMax <- MCQueueMax
    SubHwm = 1
    MaxBreaks = 0
    MaxCrashes = 0
SPECIFICATION Spec
INVARIANTS
    UnconfiguredMarkingDenied
CHECK_DEADLOCK FALSE
