SPECIFICATION FairSpec
CONSTANTS
    None = None
    low = low
    high = high
    Listings = {l1}
    Messages = {m1}
    Asks = {low, high}
    Bids = {low}
    Fits <- WithinBid
    Syncs = {s1}
    Chats = {c1}
    Reconcilers = {r1}
    MaxBusy = 2
    MaxEdits = 2
    MaxRequests = 0
    MaxFaults = 1
PROPERTIES
    QualifyingIsMatched
    RecipientsAreTold
CHECK_DEADLOCK FALSE
