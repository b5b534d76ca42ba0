SPECIFICATION FairSpec
CONSTANTS
    PROJECTS <- MCTwo
    NoKey = "none"
    MaxChanges = 0
    Refreshes = TRUE
    Servers <- MCServers
    SASL_USER = TRUE
    WANT_CAPS <- MCWant
    Burst = 1
    Quiet = TRUE
    LinkFaults <- MCEveryFault
    Mishaps <- MCSessionMishaps
    MaxMishaps = 1
    Asks <- MCAsks
INVARIANTS TypeOK NothingSaidEarly
PROPERTIES LiveLinkIsKept BotSettles
