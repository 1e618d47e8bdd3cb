CONSTANTS
    Tx = {t1}
    EnvChoices <- PairEnvelopes
    TrustStores <- OneStore
    Certificates = {"fpTls"}
    Rules <- MCRules
    Recipients <- MCRecipients
    MaxAttempts = 2
    MaxConcurrent = 1
    TxQueueMax = 1
    DeadLetterMax = 1
    SinkModes = {"opencti", "mock"}
    MaxFaults = 0
SPECIFICATION Spec
INVARIANTS
    AckedIsInOpenCTI
CHECK_DEADLOCK FALSE
