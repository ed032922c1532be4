CONSTANTS
    Images = {1, 2}
    Replicas = {0, 3}
    MaxCount = 3
    Autoscaling <- SomeAutoscaling
    Availability <- SomeAvailability
    MaxRev = 7
    MaxFuel = 2
    Disturbances <- AllDisturbances
    Nil = Nil
SPECIFICATION FairSpec
INVARIANTS TypeOK
PROPERTIES ScaleKept ScaleConverges BudgetSatisfiable StatusSettles
CHECK_DEADLOCK FALSE
