\* One worker, two versions of a booking, two vouchers, one fault.
SPECIFICATION FairSpec
CONSTANTS
    w1 = w1
    Worker <- Workers
    MaxVersion = 2
    MaxVouchers = 2
    MaxAttempts = 2
    MaxFaults = 1
INVARIANTS
    ChannelCaughtUp
    VouchersInOrder
PROPERTIES
    ChannelNeverGoesBack
    OutboxDrains
CHECK_DEADLOCK FALSE
