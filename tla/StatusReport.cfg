CONSTANTS
    MaxRev = 8
    MaxDepRev = 7
    MaxFuel = 1
    MaxExt = 1
    Disturbances <- AllDisturbances
    Replicas = {1}
    Nil = Nil
SPECIFICATION FairSpec
INVARIANTS TypeOK
PROPERTIES GenerationGuard UnrelatedKept GenerationTracked PromptStatusConverges
CHECK_DEADLOCK FALSE
