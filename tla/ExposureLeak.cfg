CONSTANTS
    MaxRoute = 1
    MaxRev = 8
    MaxFuel = 1
    Disturbances = {"edit"}
    Nil = Nil
SPECIFICATION FairSpec
PROPERTIES RouteRemoved
CHECK_DEADLOCK FALSE
