SPECIFICATION FairSpec
CONSTANTS
    p1 = p1
    tier1 = tier1
    tier2 = tier2
    None = None
    Phones <- OnePhone
    Sessions <- OneSession
    Owner <- SamePhone
    Plans <- Tiers
    PlanOf <- Upgrading
    Handlers = {h1}
    Sweepers = {b1}
    Cancellers = {c1}
    SweepLimit = 1
    Faults <- EveryFault
    MaxFaults = 2
INVARIANTS
    TypeOK
    PaymentsAccounted
PROPERTIES
    ImplementsPurchases
    SavedCardResolved
CHECK_DEADLOCK FALSE
