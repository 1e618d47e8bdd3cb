CONSTANTS
    NumEvents = 3
    Feeds <- MCFeeds
    TagsFilter <- MCFilter
    Policy <- MCPolicy
    Recipient = "NIA"
    QueueMax <- MCQueueMax
    SubHwm = 2
    MaxBreaks = 1
    MaxCrashes = 1
SPECIFICATION FairSpec
INVARIANTS
    PipelineTypeOK
    EveryEventAccountedFor
    StrictStaysHome
PROPERTIES
    ImplementsFeedPromise
    EveryEventSettles
CHECK_DEADLOCK FALSE
