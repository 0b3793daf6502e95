------------------------------ MODULE Banquets ------------------------------
(***************************************************************************)
(* Banquet events, their functions in the hotel's spaces, and the order    *)
(* (BEO) of each function (banquets.service.ts).  A request that edits an  *)
(* event, places a function or finalizes an order reads before it writes;  *)
(* the clerks' requests interleave.                                        *)
(***************************************************************************)
EXTENDS Integers, FiniteSets

CONSTANTS
    Event, Fn,      \* events and functions that may be created
    Clerk,          \* who may be at the desk
    Space,          \* the hotel's function spaces
    Place,          \* where and when a function may be: a space, a day, [from, to)
    Opening,        \* the statuses an event is created in
    MaxDay,         \* bound: days of the calendar
    MaxRequests     \* bound: requests besides the creation of events and orders

VARIABLES
    event,     \* status and dates of each event
    fn,        \* event, place and status of each function
    available, \* the spaces that are active and in service
    beo,       \* the order of each function
    staff,     \* the clerks at work
    desk,      \* the request each of them has between its read and its write
    requests

vars == <<event, fn, available, beo, staff, desk, requests>>

Day == 1..MaxDay
Dates == {d \in [from : Day, to : Day] : d.from <= d.to}
Covers(dates, place) == dates.from <= place.day /\ place.day <= dates.to
Overlap(p, q) ==
    /\ p.space = q.space /\ p.day = q.day
    /\ p.from < q.to /\ q.from < p.to

NextStatus == [INQUIRY     |-> {"TENTATIVE", "CANCELLED"},
               TENTATIVE   |-> {"CONFIRMED", "CANCELLED"},
               CONFIRMED   |-> {"IN_PROGRESS", "CANCELLED"},
               IN_PROGRESS |-> {"COMPLETED", "CANCELLED"},
               COMPLETED   |-> {},
               CANCELLED   |-> {}]
Status == DOMAIN NextStatus
Closed == {"COMPLETED", "CANCELLED"}
\* TENTATIVE, CONFIRMED and IN_PROGRESS functions are treated alike: "BOOKED".
FnStatus == {"BOOKED", "COMPLETED", "CANCELLED"}

ASSUME BanquetsAssumption ==
    /\ IsFiniteSet(Clerk)
    /\ Opening \subseteq Status /\ MaxDay \in Nat \ {0} /\ MaxRequests \in Nat
    /\ Place \subseteq {p \in [space : Space, day : Day, from : Nat, to : Nat] : p.from < p.to}

NoEvent == [status |-> "none"]
NoFn == [status |-> "none"]
NoBeo == [status |-> "none", detailed |-> FALSE]
Idle == [op |-> "idle"]

Events == {e \in Event : event[e] # NoEvent}
Fns == {f \in Fn : fn[f] # NoFn}
Of(e) == {f \in Fns : fn[f].event = e}
Open(e) == event[e].status \notin Closed
Holding(f) == fn[f].status # "CANCELLED" /\ Open(fn[f].event)

Init ==
    /\ event = [e \in Event |-> NoEvent] /\ fn = [f \in Fn |-> NoFn]
    /\ available = Space /\ beo = [f \in Fn |-> NoBeo]
    /\ staff \in SUBSET Clerk \ {{}}
    /\ desk = [c \in Clerk |-> Idle] /\ requests = 0

Begin(c, request) ==
    /\ c \in staff /\ desk[c] = Idle
    /\ requests < MaxRequests /\ requests' = requests + 1
    /\ desk' = [desk EXCEPT ![c] = request]
Done(c) == desk' = [desk EXCEPT ![c] = Idle] /\ UNCHANGED requests

\* A request that reads nothing it later writes by.
Immediate(c) == Begin(c, Idle)

-----------------------------------------------------------------------------
\* Events.
CreateEvent(c, e) ==
    /\ event[e] = NoEvent /\ c \in staff /\ desk[c] = Idle
    /\ \E s \in Opening, d \in Dates :
        event' = [event EXCEPT ![e] = [status |-> s, dates |-> d]]
    /\ UNCHANGED <<fn, available, beo, staff, desk, requests>>

\* New dates must hold the functions that were read.  A request that names no
\* status or no dates writes back those it read.
ReadEvent(c, e) ==
    /\ e \in Events
    /\ \E s \in NextStatus[event[e].status] \cup {event[e].status}, d \in Dates :
        /\ d # event[e].dates =>
             \A f \in Of(e) : fn[f].status # "CANCELLED" => Covers(d, fn[f].place)
        /\ Begin(c, [op |-> "event", of |-> e, was |-> event[e].status, status |-> s, dates |-> d])
    /\ UNCHANGED <<event, fn, available, beo, staff>>

\* Mutant: the event alone is cancelled.
ReleaseNothing(e) == fn

\* A cancellation releases the functions that are not over.
Release(e) == [f \in Fn |-> IF f \in Of(e) /\ fn[f].status \notin Closed
                              THEN [fn[f] EXCEPT !.status = "CANCELLED"] ELSE fn[f]]

WriteEvent(c) ==
    /\ desk[c].op = "event" /\ Done(c)
    /\ LET r == desk[c]
       IN  /\ event' = [event EXCEPT ![r.of] = [status |-> r.status, dates |-> r.dates]]
           /\ fn' = IF r.status = "CANCELLED" /\ r.was # "CANCELLED" THEN Release(r.of) ELSE fn
    /\ UNCHANGED <<available, beo, staff>>

-----------------------------------------------------------------------------
\* Functions.  What is read: the event is open and holds the day, the space
\* is available unless the function is to be cancelled.
Admits(e, place, status) ==
    /\ Open(e) /\ Covers(event[e].dates, place)
    /\ status = "CANCELLED" \/ place.space \in available

\* "same" is an update that names no status.
ReadFunction(c) ==
    /\ \E e \in Events, p \in Place, s \in FnStatus \cup {"same"} :
        /\ Admits(e, p, s)
        /\ \/ /\ s \in {"BOOKED", "COMPLETED"}
              /\ Begin(c, [op |-> "create", event |-> e, place |-> p, status |-> s])
           \/ \E f \in Of(e) :
                /\ fn[f].status = "COMPLETED" => s = "COMPLETED"
                /\ Begin(c, [op |-> "update", of |-> f, event |-> e, place |-> p, status |-> s])
    /\ UNCHANGED <<event, fn, available, beo, staff>>

\* Mutant: only the start of the new function is tested.
FreeAtStart(place, others) ==
    \A g \in others : Holding(g) =>
        LET p == fn[g].place
        IN  ~(p.space = place.space /\ p.day = place.day /\ p.from <= place.from /\ place.from < p.to)

\* Under the lock of the space and day: the conflict test, then the write.
Free(place, others) == \A g \in others : Holding(g) => ~Overlap(fn[g].place, place)

\* Mutant: an update is written without the test.
WriteFunctionUntested(c) ==
    /\ desk[c].op \in {"create", "update"} /\ Done(c)
    /\ LET r == desk[c]
           Write(f, s) == fn' = [fn EXCEPT ![f] = [event |-> r.event, place |-> r.place, status |-> s]]
       IN  \/ r.op = "create" /\ Free(r.place, Fns) /\ \E f \in Fn \ Fns : Write(f, r.status)
           \/ r.op = "update" /\ Write(r.of, IF r.status = "same" THEN fn[r.of].status ELSE r.status)
    /\ UNCHANGED <<event, available, beo, staff>>

WriteFunction(c) ==
    /\ desk[c].op \in {"create", "update"} /\ Done(c)
    /\ LET r == desk[c]
           Write(f, s) == fn' = [fn EXCEPT ![f] = [event |-> r.event, place |-> r.place, status |-> s]]
       IN  \/ r.op = "create" /\ Free(r.place, Fns) /\ \E f \in Fn \ Fns : Write(f, r.status)
           \/ r.op = "update" /\ Free(r.place, Fns \ {r.of})
                /\ Write(r.of, IF r.status = "same" THEN fn[r.of].status ELSE r.status)
           \/ ~Free(r.place, Fns \ (IF r.op = "update" THEN {r.of} ELSE {})) /\ UNCHANGED fn
    /\ UNCHANGED <<event, available, beo, staff>>

UpdateSpace(c, s) ==
    /\ Immediate(c)
    /\ available' = IF s \in available THEN available \ {s} ELSE available \cup {s}
    /\ UNCHANGED <<event, fn, beo, staff>>

-----------------------------------------------------------------------------
\* Orders.  An edit replaces the requirements and reopens the order.
\* Mutant: the function is not looked up.
CreateBeoOfAny(c, f) ==
    /\ beo[f] = NoBeo /\ c \in staff /\ desk[c] = Idle
    /\ beo' = [beo EXCEPT ![f] = [status |-> "DRAFT", detailed |-> FALSE]]
    /\ UNCHANGED <<event, fn, available, staff, desk, requests>>

CreateBeo(c, f) ==
    /\ f \in Fns /\ beo[f] = NoBeo /\ c \in staff /\ desk[c] = Idle
    /\ beo' = [beo EXCEPT ![f] = [status |-> "DRAFT", detailed |-> FALSE]]
    /\ UNCHANGED <<event, fn, available, staff, desk, requests>>

\* Mutant: an edit does not reopen the order.
UpdateBeoOnly(c, f) ==
    /\ beo[f] # NoBeo /\ Immediate(c)
    /\ \E d \in BOOLEAN : beo' = [beo EXCEPT ![f].detailed = d]
    /\ UNCHANGED <<event, fn, available, staff>>

UpdateBeo(c, f) ==
    /\ beo[f] # NoBeo /\ Immediate(c)
    /\ \E d \in BOOLEAN : beo' = [beo EXCEPT ![f] = [status |-> "DRAFT", detailed |-> d]]
    /\ UNCHANGED <<event, fn, available, staff>>

ReadFinalize(c, f) ==
    /\ beo[f].detailed /\ Begin(c, [op |-> "finalize", of |-> f])
    /\ UNCHANGED <<event, fn, available, beo, staff>>

WriteFinalize(c) ==
    /\ desk[c].op = "finalize" /\ Done(c)
    /\ beo' = [beo EXCEPT ![desk[c].of].status = "FINAL"]
    /\ UNCHANGED <<event, fn, available, staff>>

Next == \E c \in Clerk :
    \/ \E e \in Event : CreateEvent(c, e) \/ ReadEvent(c, e)
    \/ WriteEvent(c)
    \/ ReadFunction(c)
    \/ WriteFunction(c)
    \/ \E s \in Space : UpdateSpace(c, s)
    \/ \E f \in Fn : CreateBeo(c, f) \/ UpdateBeo(c, f) \/ ReadFinalize(c, f)
    \/ WriteFinalize(c)

Spec == Init /\ [][Next]_vars

-----------------------------------------------------------------------------
\* Events, functions and orders are well formed, and a function belongs to an
\* event that exists.
BanquetsTypeOK ==
    /\ \A e \in Events : event[e] \in [status : Status, dates : Dates]
    /\ \A f \in Fns : fn[f] \in [event : Events, place : Place, status : FnStatus]
    /\ available \subseteq Space /\ staff \subseteq Clerk
    /\ \A f \in Fn : \/ beo[f] = NoBeo
                     \/ f \in Fns /\ beo[f] \in [status : {"DRAFT", "FINAL"}, detailed : BOOLEAN]
    /\ \A c \in Clerk : desk[c] # Idle => c \in staff

Clashes == {pair \in Fns \X Fns : /\ pair[1] # pair[2]
                                  /\ Holding(pair[1]) /\ Holding(pair[2])
                                  /\ Overlap(fn[pair[1]].place, fn[pair[2]].place)}
Alone == Cardinality(staff) = 1

\* The docs promise "overlap-safe booking": no space is held by two functions
\* at once (the conflict test of banquets.service.ts:139 and 143).
SpaceHeldOnce == Clashes = {}

\* One clerk at a time, no sequence of edits (moving, cancelling and booking
\* again, closing an event) gives a space to two functions at once.
SpaceHeldOnceAlone == Alone => SpaceHeldOnce

\* One clerk at a time, every function that stands is within the dates of its
\* event, and a cancelled event holds none that is not over: the three tests
\* of updateEvent and functionInput cover each other's edits.
FunctionsFollowEvent ==
    Alone => \A f \in Fns : fn[f].status # "CANCELLED" =>
        /\ Covers(event[fn[f].event].dates, fn[f].place)
        /\ event[fn[f].event].status = "CANCELLED" => fn[f].status = "COMPLETED"

\* One clerk at a time, a FINAL order states its requirements, whatever was
\* edited after it was finalized.
FinalOrdersAreDetailed ==
    Alone => \A f \in Fn : beo[f].status = "FINAL" => beo[f].detailed

\* However many clerks there are, placing a function never takes a space that
\* is held: two functions come to share one only by a late write that reopens
\* an event another clerk has closed.
OnlyReopeningClashes ==
    [][Clashes' \subseteq Clashes \/ \E e \in Events : ~Open(e) /\ Open(e)']_vars

\* One clerk at a time, no sequence of edits breaks what the three tests of the
\* service guard: spaces, dates of events, final orders.
OneClerkIsSafe ==
    BanquetsTypeOK /\ SpaceHeldOnceAlone /\ FunctionsFollowEvent /\ FinalOrdersAreDetailed
=============================================================================
