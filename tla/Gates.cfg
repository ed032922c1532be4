CONSTANTS
    Tenants = {alpha, bravo}
    Externals = {FALSE, TRUE}
    MaxRev = 7
    MaxFuel = 2
    Disturbances <- AllDisturbances
    Nil = Nil
SPECIFICATION FairSpec
INVARIANTS TypeOK
PROPERTIES ChildrenGated RotationRollsOut
CHECK_DEADLOCK FALSE
