CONSTANTS
    Tx = {t1, t2}
    EnvChoices <- PairEnvelopes
    TrustStores <- OneStore
    Certificates = {"fpTls"}
    Rules <- MCRules
    Recipients <- MCRecipients
    MaxAttempts = 2
    MaxConcurrent = 2
    TxQueueMax = 1
    DeadLetterMax = 1
    SinkModes = {"opencti"}
    MaxFaults = 0
SPECIFICATION Spec
INVARIANTS
    TypeOK
    OneOutcome
    DeadLetterWindow
    PermitsConserved
CHECK_DEADLOCK FALSE
SYMMETRY TxSymmetry
