SPECIFICATION Spec
CONSTANTS
    p1 = p1
    tier1 = tier1
    tier2 = tier2
    None = None
    Phones <- OnePhone
    Sessions <- ThreeSessions
    Owner <- SamePhone
    Plans <- Tiers
    PlanOf <- Upgrading
    Handlers = {h1, h2}
    Sweepers = {b1}
    Cancellers = {}
    SweepLimit = 2
    Faults <- EarlyFaults
    MaxFaults = 1
SYMMETRY WorkerSymmetry
INVARIANTS
    ExclusiveActivation
    NoDoubleCharge
    SubscriptionsAccounted
PROPERTIES
    OutcomeFinal
CHECK_DEADLOCK FALSE
