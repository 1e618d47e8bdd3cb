CONSTANTS
    Suites <- MCSuites
    Agencies <- MCAgencies
    Sender = "RAW"
    Receiver = "NIA"
    Exports <- MCExports
    Operators = {"operator"}
    Suspects = {"RAW"}
    MaxOps = 3
    MaxDeaths = 2
    Rules <- MCRules
SPECIFICATION Spec
INVARIANTS
    ServesOnlyComplete
    AcceptedKeyNotOlder
    RevocationsAreKept
    FinishedMeansUsable
PROPERTIES
    BootstrapKeepsKeys
CHECK_DEADLOCK FALSE
