\* Two events of at most two days, two functions in one space, at most two clerks;
\* or two plans, two room types, one agent, at most two editors.
SPECIFICATION BSpec
CONSTANTS
    e1 = e1
    e2 = e2
    f1 = f1
    f2 = f2
    k1 = k1
    k2 = k2
    s1 = s1
    g1 = g1
    m1 = m1
    m2 = m2
    r1 = r1
    r2 = r2
    x1 = x1
    x2 = x2
    Event <- Events2
    Fn <- Fns2
    Clerk <- Clerks
    Space <- OneSpace
    Opening <- Running
    MaxDay = 2
    Place <- Places
    MaxRequests = 4
    Agent <- OneAgent
    RoomType <- Rooms2
    Master <- Masters2
    Code <- Codes
    Editor <- Editors2
    MaxAsked = 3
SYMMETRY Sym
INVARIANTS
    OneClerkIsSafe
    AgentsHaveWholePlans
    CodesFollowTheMaster
PROPERTIES
    OnlyReopeningClashes
CHECK_DEADLOCK FALSE
