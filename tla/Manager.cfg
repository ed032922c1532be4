CONSTANTS
    Pods = {p1, p2, p3}
    Sizes = {1, 2}
    Settings <- SomeSettings
    MaxFuel = 3
    Disturbances <- AllDisturbances
    Nil = Nil
SPECIFICATION FairSpec
INVARIANTS TypeOK ExclusiveLeader
PROPERTIES LeaderReturns SingletonRolls
