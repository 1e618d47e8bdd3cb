CONSTANTS
    TrustStores <- MCTrustStores
    RuleLists <- MCRuleLists
    Envelopes <- MCEnvelopes
SPECIFICATION Spec
INVARIANTS
    AcceptedIsVouchedFor
    PolicyFailsClosed
    StrangersLearnNothing
CHECK_DEADLOCK FALSE
