\* A client may send its own idempotency key with a cancellation.
SPECIFICATION Spec
CONSTANTS
    k1 = k1
    h1 = h1
    h2 = h2
    h3 = h3
    Key <- OneKey
    Hold <- Holds
    Entry = {}
    ClientKey = {retry}
    MaxRooms = 1
    MaxAvailable = 2
INVARIANT SoldAccounting
