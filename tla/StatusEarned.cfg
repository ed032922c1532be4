CONSTANTS
    MaxRev = 9
    MaxDepRev = 9
    MaxFuel = 1
    MaxExt = 2
    Disturbances = {"edit"}
    Replicas = {1}
    Nil = Nil
SPECIFICATION Spec
PROPERTIES ReadyIsEarned
CHECK_DEADLOCK FALSE
