\* One room night with up to three rooms, three holds of one or two rooms.
SPECIFICATION FairSpec
CONSTANTS
    k1 = k1
    h1 = h1
    h2 = h2
    h3 = h3
    Key <- OneKey
    Hold <- Holds
    Entry = {}
    ClientKey = {}
    MaxRooms = 2
    MaxAvailable = 3
INVARIANTS
    TypeOK
    HeldAccounting
    SoldAccounting
    HoldsAreHonoured
PROPERTIES
    ImplementsLedger
    ExpiredHoldsLeave
