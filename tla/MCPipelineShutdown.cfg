CONSTANTS
    NumEvents = 1
    Feeds <- AmberFeed
    TagsFilter <- MCFilter
    Policy <- MCPolicy
    Recipient = "NIA"
    QueueMax <- MCQueueMax
    SubHwm = 1
    MaxBreaks = 0
    MaxCrashes = 0
SPECIFICATION FairSpec
PROPERTIES
    ShutdownCompletes
CHECK_DEADLOCK FALSE
