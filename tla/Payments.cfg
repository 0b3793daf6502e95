\* A reservation, half of it due when booking, two orders, a manual payment and one at check-out.
SPECIFICATION PSpec
CONSTANTS
    r1 = r1
    w = w
    o1 = o1
    o2 = o2
    s1 = s1
    d1 = d1
    d2 = d2
    c1 = c1
    Reservation <- OneReservation
    Total <- Two
    AtBooking <- One
    AgentSource = {}
    Wallet = w
    Order <- TwoOrders
    Slip <- OneSlip
    Draw = {}
    Till <- OneTill
    Extras = 1
    For <- ForStay
    Offline = {}
    FirstNight = 1
    ClientKey = {}
    Declinable <- OneOrder
    Successes = 1
    MaxAmount = 2
INVARIANT AdvanceAccounting
PROPERTY CancelledStaysCancelled
CHECK_DEADLOCK FALSE
