\* Two stays, one hotel, agents and guests, patient or not, both providers.
SPECIFICATION Spec
CONSTANTS
    Stay <- Stays
    Default = "s1"
    Hotel <- Hotels
    EligibleAt <- Eligible
    DueNow <- Due
    Free <- NoCost
    MaxClicks <- Clicks
INVARIANTS
    PageIsConsistent
    ConfirmationIsEarned
    BusyIsReleased
CHECK_DEADLOCK FALSE
