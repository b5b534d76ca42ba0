SPECIFICATION FairSpec
CONSTANTS
    PROJECTS <- MCOne
    NoKey = "none"
    MaxChanges = 2
    Refreshes = TRUE
    Servers <- MCPlainServers
    SASL_USER = TRUE
    WANT_CAPS <- MCWant
    Burst = 1
    Quiet = FALSE
    LinkFaults <- MCEof
    Mishaps <- MCWatchMishaps
    MaxMishaps = 1
    Asks <- MCNoAsks
INVARIANTS SingleFlight CommitsHandedOver
PROPERTIES CountsCatchUp TopicCatchesUp
