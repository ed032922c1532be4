CONSTANTS
    Managers = {m1}
    Kinds <- MixedKinds
    Contents <- TwoContents
    MaxRev = 6
    MaxFuel = 2
    Nil = Nil
SPECIFICATION FairSpec
INVARIANTS TypeOK DependencyOrder
PROPERTIES OwnWritesOnly AtomicDecisions Convergence
CHECK_DEADLOCK FALSE
