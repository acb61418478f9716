SPECIFICATION Spec
CONSTANTS
    seller = seller
    buyer = buyer
    watch1 = watch1
    watch2 = watch2
    wanted = wanted
    m1 = m1
    m2 = m2
    Users <- TwoUsers
    Postings <- ThreePostings
    Matches <- TwoMatches
    FsPosting <- WatchOf
    WtbPosting <- WantedOf
    OwnerOf <- Owners
    Shareable = {watch2}
    Handlers = {h1, h2}
    ComplimentaryLimit = 1
    MatchLimit = 2
    Managed = {buyer}
    MaxRequests = 3
    MaxFaults = 1
INVARIANTS
    TypeOK
    ApprovalsAccounted
    ContactAuthorized
    MessagesSentOnce
PROPERTIES
    ConsentKept
CHECK_DEADLOCK FALSE
