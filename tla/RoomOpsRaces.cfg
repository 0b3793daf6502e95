\* Requests overlap: what remains true.
SPECIFICATION RacesSpec
CONSTANTS
    s1 = s1
    s2 = s2
    a = a
    b = b
    r1 = r1
    r2 = r2
    t1 = t1
    t2 = t2
    k1 = k1
    k2 = k2
    NoRoom = NoRoom
    NoTask = NoTask
    Stay <- TwoStays
    BookedRoom <- TwoBooked
    StayOf <- Owner
    Room <- TwoRooms
    Task <- TwoTasks
    Ticket <- TwoTickets
    Meeting <- SameNights
    BoardStatus <- AnyStatus
    AdminStatus <- AnyStatus
    Overlapping = TRUE
    MaxInFlight = 1
SYMMETRY Alike
INVARIANTS
    TypeOK
    OnePartyPerRoom
    StaysHaveTheirRooms
PROPERTIES
    ClosedReservationsStayClosed
    OnlyStaleWritesPart
    OnlyOverridesUndoWork
