\* One group with two blocks, an entry of up to two nights, a hold; one room a row.
SPECIFICATION GSpec
CONSTANTS
    k1 = k1
    k2 = k2
    h1 = h1
    g1 = g1
    g2 = g2
    b1 = b1
    b2 = b2
    e1 = e1
    e2 = e2
    Key <- TwoKeys
    Hold <- OneHold
    Entry <- OneEntry
    Block <- Blocks
    Group = {g1}
    GroupOf <- OneGroup
    ClientKey = {}
    MaxRooms = 1
    MaxAvailable = 1
SYMMETRY Interchangeable
INVARIANTS
    RowsMatchBlocks
    PickupIsHonoured
PROPERTY OnlyCutsOversell
