SPECIFICATION FairSpec
CONSTANTS
    ClientLights = {"Normal", "SDCardError"}
    MaxThreads = 2
INVARIANTS
    TypeOK
    PointersHold
    LastShown
    DeadIsTrue
PROPERTIES
    DeadIsShown
    InterruptEnds
