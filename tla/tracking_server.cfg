SPECIFICATION FairSpec
CONSTANTS
    Controllers = {u}
    Senders = {s1, s2}
    IndexWrap = 2
    ListenMayFail = TRUE
INVARIANTS
    TypeOK
    LatestDelivered
    StoppedIsQuiet
    TerminatesOnlyUnheard
PROPERTIES
    StopReturns
    GoneTrackerForgotten
    ImplementsLink
CHECK_DEADLOCK FALSE
