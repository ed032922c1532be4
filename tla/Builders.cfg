CONSTANTS
    Kinds <- AllKinds
    Values = {1, 2}
    Specs <- SomeSpecs
    MaxFuel = 3
    Nil = Nil
SPECIFICATION Spec
INVARIANTS TypeOK LikeNew Quiet
PROPERTIES ForeignKept
CHECK_DEADLOCK FALSE
