CONSTANTS
    Images = {1}
    Replicas = {0, 3}
    MaxCount = 3
    Autoscaling <- SomeAutoscaling
    Availability = {}
    MaxRev = 9
    MaxFuel = 0
    Disturbances = {}
    Nil = Nil
SPECIFICATION FairSpec
PROPERTIES AutoscaledReady
CHECK_DEADLOCK FALSE
