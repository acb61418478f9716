SPECIFICATION FairSpec
CONSTANTS
    seller = seller
    buyer = buyer
    watch1 = watch1
    watch2 = watch2
    wanted = wanted
    m1 = m1
    m2 = m2
    Users <- TwoUsers
    Postings <- ThreePostings
    Matches <- OneMatch
    FsPosting <- WatchOf
    WtbPosting <- WantedOf
    OwnerOf <- Owners
    Shareable = {}
    Handlers = {h1, h2}
    ComplimentaryLimit = 1
    MatchLimit = 2
    Managed = {}
    MaxRequests = 4
    MaxFaults = 0
PROPERTIES
    RevealedIsDelivered
    CallsEnd
CHECK_DEADLOCK FALSE
