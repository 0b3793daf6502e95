\* Two charges, two payments, one shift and two days.
SPECIFICATION BackSpec
CONSTANTS
    c1 = c1
    c2 = c2
    p1 = p1
    p2 = p2
    s1 = s1
    NoShift = NoShift
    Room = Room
    Charge <- Charges
    Ordered <- OneCharge
    Payment <- Payments
    Shift <- OneShift
    Amount <- OneOrTwo
    RoomTotal = 1
    MaxDay = 2
    MaxRequests = 2
SYMMETRY Symmetry
INVARIANTS
    FolioIsSound
PROPERTIES
    DocumentsAgree
CHECK_DEADLOCK FALSE
