\* The wallet, recharged by an order and an offline slip, pays for a reservation.
\* Beside it, an editor of event orders, who waits for every answer or not.
SPECIFICATION SideSpec
CONSTANTS
    r1 = r1
    w = w
    o1 = o1
    o2 = o2
    s1 = s1
    d1 = d1
    d2 = d2
    c1 = c1
    Reservation <- OneReservation
    Total <- Two
    AtBooking <- One
    AgentSource <- OneReservation
    Wallet = w
    Order <- OneOrder
    Slip <- OneSlip
    Draw <- TwoDraws
    Till = {}
    Extras = 0
    For <- ForWallet
    Offline <- OneSlip
    FirstNight = 1
    ClientKey = {}
    Declinable <- OneOrder
    Successes = 2
    MaxAmount = 2
    FnsOf <- Functions
    Wording <- Words
    MaxActs <- Acts
    MaxSent = 2
    MaxOthers = 1
INVARIANTS
    
    
    DeskIsHonest
PROPERTIES
    EditsAreKept
CHECK_DEADLOCK FALSE
