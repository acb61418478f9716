SPECIFICATION Spec
CONSTANTS
    seller = seller
    buyer = buyer
    own = own
    mirrored = mirrored
    request = request
    low = low
    high = high
    Nobody = Nobody
    None = None
    Users <- TwoUsers
    Members = {buyer}
    Entitlements = {"none", "weekly"}
    Trial = 1
    Grant <- OneTask
    WeeklyLimit = 1
    Bounds <- BoundsOf
    Listings <- TwoListings
    Requests = {request}
    Owner <- OwnerOf
    Direct = {own}
    Chats = {request}
    Terms = {low, high}
    Fits <- WithinBid
    Starts <- Replies
    Handlers = {h1, h2}
    Cap = 1
    MemberCap = 2
    MatchLimit = 2
INVARIANTS
    TypeOK
    AllowanceKept
    RepliesAccounted
CHECK_DEADLOCK FALSE
