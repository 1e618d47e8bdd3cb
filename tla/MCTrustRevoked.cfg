CONSTANTS
    Suites <- MCSuites
    Agencies <- MCAgencies
    Sender = "RAW"
    Receiver = "NIA"
    Exports <- MCExports
    Operators = {"operator"}
    Suspects = {"RAW"}
    MaxOps = 1
    MaxDeaths = 0
    Rules <- MCRules
SPECIFICATION Spec
INVARIANTS
    RevokedIsRejected
CHECK_DEADLOCK FALSE
