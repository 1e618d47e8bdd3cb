CONSTANTS
    Iterations = 1
    Cryptos <- MCCryptos
    Profiles <- MCProfiles
    EventCount = 2
    Discard = 1
    Window = 1
    MaxLines = 2
    MaxRetried = 1
    MaxFailures = 1
SPECIFICATION FairSpec
INVARIANTS
    CampaignTypeOK
    LabelsTrue
    CryptosNotMixed
    ArchiveCovers
    AnalysedOnce
    WarmUpExcluded
    SuccessMeansComplete
PROPERTIES
    CampaignEnds
CHECK_DEADLOCK FALSE
