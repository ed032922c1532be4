CONSTANTS
    MaxRoute = 2
    MaxRev = 8
    MaxFuel = 2
    Disturbances <- AllDisturbances
    Nil = Nil
SPECIFICATION FairSpec
INVARIANTS TypeOK RouteRemembered
PROPERTIES RecordedRouteRemoved ExposureConverges
CHECK_DEADLOCK FALSE
