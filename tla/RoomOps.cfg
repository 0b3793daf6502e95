\* Two stays, two rooms, two tickets, requests one at a time.
SPECIFICATION Spec
CONSTANTS
    s1 = s1
    s2 = s2
    a = a
    b = b
    r1 = r1
    r2 = r2
    t1 = t1
    t2 = t2
    k1 = k1
    k2 = k2
    NoRoom = NoRoom
    NoTask = NoTask
    Stay <- TwoStays
    BookedRoom <- TwoBooked
    StayOf <- Owner
    Room <- TwoRooms
    Task <- OneTask
    Ticket <- TwoTickets
    Meeting = {}
    BoardStatus <- NeverBack
    AdminStatus <- NoStatus
    Overlapping = FALSE
    MaxInFlight = 1
SYMMETRY Interchangeable
INVARIANTS
    StatusIsTrue
PROPERTIES
    ImplementsRegister
