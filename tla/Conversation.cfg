SPECIFICATION Spec
CONSTANTS
    daytona = daytona
    sub = sub
    low = low
    high = high
    Items = {daytona, sub}
    Dialed = {daytona}
    Prices = {low, high}
    Scripts <- Conversations
    Results = {0, 2}
    ItemCap = 1
    Allowance = 1
    Named = FALSE
    Handlers = {h1, h2}
    Admin = Admin
    None = None
INVARIANTS
    TypeOK
    OneDraft
    ReviewedBeforePosted
    ApprovalsCounted
PROPERTIES
    ConfirmedOnce
    StopEndsPlan
CHECK_DEADLOCK FALSE
