SPECIFICATION FairSpec
CONSTANTS
    Faults = {"stop", "start", "listen"}
    Points <- MCPoints
    Unit = 2
INVARIANTS
    TypeOK
    ServicesAgree
    QuietWhenOff
    FreshCommand
    BoxesWiped
PROPERTIES
    PointIsPixel
    JoinNears
    SwitchReturns
CHECK_DEADLOCK FALSE
