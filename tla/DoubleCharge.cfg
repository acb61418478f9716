SPECIFICATION Spec
CONSTANTS
    p1 = p1
    tier1 = tier1
    tier2 = tier2
    None = None
    Phones <- OnePhone
    Sessions <- OneSession
    Owner <- SamePhone
    Plans <- Tiers
    PlanOf <- Upgrading
    Handlers = {}
    Sweepers = {b1}
    Cancellers = {}
    SweepLimit = 1
    Faults = {"arb"}
    MaxFaults = 1
INVARIANTS
    NoDoubleCharge
CHECK_DEADLOCK FALSE
