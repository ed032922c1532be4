CONSTANTS
    Pods = {p1, p2, p3}
    Sizes = {2}
    Settings <- DefaultSettings
    MaxFuel = 1
    Disturbances = {"rollout"}
    Nil = Nil
SPECIFICATION FairSpec
PROPERTIES ManagerRolls
