SPECIFICATION Spec
CONSTANTS
    None = None
    low = low
    high = high
    Listings = {l1}
    Messages = {m1, m2}
    Asks = {low, high}
    Bids = {high}
    Fits <- WithinBid
    Syncs = {s1, s2}
    Chats = {c1}
    Reconcilers = {}
    MaxBusy = 2
    MaxEdits = 3
    MaxRequests = 1
    MaxFaults = 0
INVARIANTS
    TypeOK
    NotifiedOnce
    RevisionsAccounted
PROPERTIES
    ApprovedIsFinal
SYMMETRY Alike
CHECK_DEADLOCK FALSE
