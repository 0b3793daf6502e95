\* Two hotels, two assignments, two admins, two nights, three edits; some 2,500 requests.
SPECIFICATION RSpec
CONSTANTS
    a1 = a1
    a2 = a2
    r1 = r1
    r2 = r2
    Hotel <- Hotels
    Home = "home"
    Row <- TwoRows
    Admin <- Admins
    Price <- Prices
    BandPrice <- OnePrice
    MaxNight = 1
    MaxEdits = 3
    Request <- Requests
    Instalment <- Instalments
    MaxDay = 3
SYMMETRY Sym
INVARIANTS
    OnePriceANight
    SearchedIsListed
    RequestAddsUp
PROPERTIES
    RackSavesTakeEffect
CHECK_DEADLOCK FALSE
