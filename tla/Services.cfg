SPECIFICATION Spec
CONSTANTS
    u1 = u1
    s1 = s1
    c1 = c1
    c2 = c2
    c3 = c3
    None = None
    Blank = Blank
    Users = {u1}
    Jobs = {j1, j2}
    Slots = 5
    MorningSlots = {0, 1}
    DormantSlots = {3, 4}
    DigestSlots = {0, 1}
    DormantAfter = 3
    DormantRepeat = 8
    Forever = 1000
    MaxLag = 1
    Listings = {l1, l2}
    SellerOf <- OneSeller
    Buyers = {b1, b2}
    Postings = {p1}
    Requests = {w1}
    Dealers = {d1, d2}
    Phones = {ph1, ph2}
    Trial = 1
    WeeklyLimit = 1
    Contacts <- InOrder
    BatchLimit = 2
    Tasks = {t1, t2}
    Texts = {x1, r1}
    Replies = {r1}
    Webhooks = {h1, h2}
    ContentWindow = 2
    PhantomWindow = 1
    EchoWindow = 3
    Tracked = 1
    DeliveryStarts <- AllDays
    OutreachStarts <- AllParts
    InboxStarts <- AllMail
    Starts <- OneStirs
INVARIANTS
    TypeOK
    DeliveriesSpaced
    NewsIsTold
    AskedOnce
    LookupsBounded
    HeardOnce
CHECK_DEADLOCK FALSE
