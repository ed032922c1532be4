CONSTANTS
    MaxRev = 7
    MaxDepRev = 7
    MaxFuel = 0
    MaxExt = 1
    Replicas = {1}
    Disturbances = {}
    Nil = Nil
SPECIFICATION FairSpec
PROPERTIES StatusConverges
CHECK_DEADLOCK FALSE
