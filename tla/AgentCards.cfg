SPECIFICATION FairSpec
CONSTANTS
    seller = seller
    buyer = buyer
    own = own
    mirrored = mirrored
    request = request
    low = low
    high = high
    Nobody = Nobody
    None = None
    Users <- TwoUsers
    Members = {buyer}
    Entitlements = {"none"}
    Trial = 1
    Grant <- OneTask
    WeeklyLimit = 1
    Bounds <- BoundsOfCards
    Listings = {own}
    Requests = {request}
    Owner <- OwnerOf
    Direct = {own}
    Chats = {request}
    Terms = {low, high}
    Fits <- WithinBid
    Starts <- Cards
    Handlers = {h1, h2}
    Cap = 1
    MemberCap = 2
    MatchLimit = 2
PROPERTIES
    OwnersSeeMatches
