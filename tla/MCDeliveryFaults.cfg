CONSTANTS
    Tx = {t1}
    EnvChoices <- FaultEnvelopes
    TrustStores <- Stores
    Certificates = {"fpTls", "fpNew"}
    Rules <- MCRules
    Recipients <- MCRecipients
    MaxAttempts = 2
    MaxConcurrent = 1
    TxQueueMax = 1
    DeadLetterMax = 1
    SinkModes = {"opencti"}
    MaxFaults = 2
SPECIFICATION FairSpec
INVARIANTS
    AckedWasImported
    ImportsWithinAttempts
    OnlyVouchedForImported
    RefusalHolds
    AnswerHeardDecides
    TelemetryTellsOfImports
PROPERTIES
    SettledIsFinal
    ImplementsThreatExchange
    EveryTransactionSettles
    EveryHandlerEnds
CHECK_DEADLOCK FALSE
