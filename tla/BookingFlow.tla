----------------------------- MODULE BookingFlow -----------------------------
(***************************************************************************)
(* The booking page (BookingFlow.tsx), for guests and for agents, with the *)
(* part of the server it talks to.  Every request is answered, or fails,   *)
(* at any later time and in any order; what follows an answer uses what    *)
(* the page showed when the request was sent, and writes what it shows     *)
(* now.  The party, which the page lets change without a new search, and   *)
(* amounts are left out.                                                   *)
(***************************************************************************)
EXTENDS Integers, Sequences, FiniteSets

CONSTANTS
    Stay,        \* the dates that may be asked for
    Default,     \* those the page starts with
    Hotel,
    EligibleAt,  \* the hotels in the agent's rate book, by stay
    DueNow,      \* the stays an agent must pay something for when booking
    Free,        \* the stays that cost nothing, all of the price discounted
    MaxClicks    \* bound: what an agent or a guest does, patient or not

None == "none"
Visitor == [agent : BOOLEAN, patient : BOOLEAN]
ASSUME BookingFlowAssumption ==
    /\ Default \in Stay
    /\ EligibleAt \in [Stay -> SUBSET Hotel] /\ DueNow \subseteq Stay
    /\ Free \subseteq Stay \ DueNow
    /\ MaxClicks \in [Visitor -> Nat] /\ None \notin Hotel \cup Stay

VARIABLES
    mode,      \* agent or guest; does the user wait while the page is busy; payment provider
    url,       \* the search in the address bar
    page,      \* what the page shows
    rateBook,  \* the agent's eligible hotels, the stay they are asked for, and older questions
    calls,     \* requests under way
    checkout,  \* the payment window, or Closed
    holds, bookings,  \* the server's, by number
    clicks,
    crossed    \* has an answer met a form changed since the question?

vars == <<mode, url, page, rateBook, calls, checkout, holds, bookings, clicks, crossed>>
Closed == [booking |-> 0, order |-> 0]

Search == [stay : Stay, hotel : Hotel \cup {None}]
Option == [stay : Stay, hotel : Hotel]
NoOption == [stay |-> None, hotel |-> None]
Form(p) == [stay |-> p.stay, hotel |-> p.hotel]
Asked(p) == IF mode.agent THEN p.stay ELSE None

Cleared(p) == [p EXCEPT !.options = {}, !.selected = NoOption, !.hold = 0, !.cart = NoOption]

Init ==
    /\ mode \in [agent : BOOLEAN, patient : BOOLEAN, mock : BOOLEAN]
    /\ url \in Search
    /\ page = [stay |-> Default, hotel |-> None, step |-> IF mode.agent THEN "hotels" ELSE "search",
               catalog |-> FALSE, options |-> {}, cart |-> NoOption, selected |-> NoOption,
               hold |-> 0, holdExpired |-> FALSE, reservation |-> 0, order |-> 0,
               opened |-> <<0, 0>>, busy |-> FALSE]
    /\ rateBook = [eligible |-> {}, asking |-> Asked(page), late |-> {}]
    /\ calls = {[op |-> "hotels", id |-> 0, search |-> url]}
    /\ checkout = Closed /\ holds = <<>> /\ bookings = <<>> /\ clicks = 0 /\ crossed = FALSE

-----------------------------------------------------------------------------
\* What the user does.  The payment window covers the page.
Click ==
    /\ clicks < MaxClicks[[agent |-> mode.agent, patient |-> mode.patient]] /\ clicks' = clicks + 1
    /\ checkout = Closed /\ (mode.patient => ~page.busy)
    /\ UNCHANGED <<mode, checkout, holds, bookings, crossed>>

\* The rate book is asked for whenever the dates, the hotel or the catalogue change.
AskAgain(changed) ==
    rateBook' = IF ~changed THEN rateBook
                ELSE [rateBook EXCEPT !.asking = Asked(page'),
                                      !.late = @ \cup ({rateBook.asking} \ {None})]
FormChanged == Form(page') # Form(page)

\* An agent may choose from the hotel picker too, which is opened beside any
\* step but the confirmation, and stays open.
selectHotel(h) ==
    /\ Click
    /\ page.catalog
    /\ page' = IF mode.agent THEN [Cleared(page) EXCEPT !.hotel = h, !.step = "search"]
               ELSE [page EXCEPT !.hotel = h]
    /\ IF mode.agent THEN h \in rateBook.eligible /\ (mode.patient => page.step # "confirmation")
       ELSE page.step = "search"
    /\ AskAgain(FormChanged)
    /\ UNCHANGED <<url, calls>>

\* Mutant: rooms and holds of the old dates are kept.
updateDatesOnly(s) ==
    /\ Click
    /\ page.step \in (IF mode.agent THEN {"search", "room", "guest", "payment"} ELSE {"search"})
    /\ page' = [page EXCEPT !.stay = s]
    /\ AskAgain(FormChanged)
    /\ UNCHANGED <<url, calls>>

updateDates(s) ==
    /\ Click
    /\ page.step \in (IF mode.agent THEN {"search", "room", "guest", "payment"} ELSE {"search"})
    /\ page' = IF mode.agent THEN [Cleared(page) EXCEPT !.stay = s, !.step = "search"]
               ELSE [page EXCEPT !.stay = s]
    /\ AskAgain(FormChanged)
    /\ UNCHANGED <<url, calls>>

\* Searching puts the form in the address bar, which asks for the hotels again.
searchBooking(p) ==
    /\ mode.agent => page.hotel # None
    /\ page' = [p EXCEPT !.busy = TRUE]
    /\ url' = [stay |-> page.stay,
               hotel |-> IF mode.agent /\ page.hotel \notin rateBook.eligible THEN None ELSE page.hotel]
    /\ calls' = calls \cup {[op |-> "search", id |-> clicks', search |-> Form(page)]}
                      \cup (IF url' = url THEN {}
                            ELSE {[op |-> "hotels", id |-> clicks', search |-> url']})
    /\ UNCHANGED rateBook

Book ==
    /\ Click
    /\ \/ page.step = "search"
       \/ mode.agent /\ page.step \in {"guest", "payment"}
       \/ mode.agent /\ page.step = "room" /\ page.options = {}
    /\ searchBooking(page)
recheckAvailability ==
    /\ Click
    /\ ~mode.agent /\ page.step = "guest" /\ page.hold # 0 /\ page.holdExpired
    /\ searchBooking([page EXCEPT !.hold = 0, !.holdExpired = FALSE, !.selected = NoOption,
                                  !.cart = NoOption, !.step = "search"])

\* The agent's booking rail leads back to the rooms found, and the summary
\* beside the guest's form does so whatever was found.
ShowTariff ==
    /\ Click
    /\ mode.agent
    /\ \/ page.step \in {"room", "guest", "payment"} /\ page.options # {}
       \/ page.step = "guest" /\ page.hold # 0 /\ page.selected # NoOption
    /\ page' = [page EXCEPT !.step = "room"]
    /\ UNCHANGED <<url, rateBook, calls>>

toggleCartOption(o) ==
    /\ Click
    /\ mode.agent /\ page.step = "room" /\ o \in page.options
    /\ page' = [page EXCEPT !.cart = IF @ = o THEN NoOption ELSE o]
    /\ UNCHANGED <<url, rateBook, calls>>

\* The dates are the form's, the room is the option's.  The cards' buttons wait
\* while the page is busy, the agent's booking rail does not.
createHold(o) ==
    /\ Click
    /\ page.step = "room"
    /\ \/ o \in page.options /\ ~page.busy
       \/ mode.agent /\ o = page.cart
    /\ page' = [page EXCEPT !.busy = TRUE]
    /\ calls' = calls \cup {[op |-> "hold", id |-> clicks', stay |-> page.stay, option |-> o,
                             hold |-> 0]}
    /\ UNCHANGED <<url, rateBook>>

submitGuest(method) ==
    /\ Click
    /\ page.step = "guest" /\ page.hold # 0 /\ ~page.holdExpired /\ ~page.busy
    /\ mode.agent => page.selected # NoOption
    /\ method \in (IF ~mode.agent THEN {"ONLINE"}
                   ELSE IF page.stay \in DueNow THEN {"WALLET", "ONLINE", "OFFLINE"}
                   ELSE {"WALLET"})
    /\ page' = [page EXCEPT !.busy = TRUE]
    /\ calls' = calls \cup {[op |-> "submit", id |-> clicks', at |-> "book", hold |-> page.hold,
                             method |-> method, booking |-> 0, served |-> FALSE]}
    /\ UNCHANGED <<url, rateBook>>

\* The demo provider is told at once; Razorpay opens its window first.
Opening(p, id) == [op |-> "open", id |-> id, booking |-> p.reservation, order |-> p.order]
Paying(c) == [op |-> "pay", id |-> c.id, at |-> "verify", booking |-> c.booking,
              order |-> c.order, served |-> FALSE]
completePayment ==
    /\ Click
    /\ page.step = "payment" /\ page.reservation # 0 /\ page.order # 0 /\ ~page.busy
    /\ page' = [page EXCEPT !.busy = TRUE]
    /\ LET c == Opening(page, clicks')
       IN  calls' = calls \cup {IF mode.mock THEN Paying(c) ELSE c}
    /\ UNCHANGED <<url, rateBook>>

-----------------------------------------------------------------------------
\* What the server does with a request; it may be done although the page never
\* hears of it.
Booking(h, method) ==
    [hold |-> h, method |-> method, proof |-> FALSE, ordered |-> FALSE, captured |-> FALSE,
     confirmed |-> method = "WALLET" /\ holds[h].stay \in DueNow]

serveHold(c) ==
    /\ c.op = "hold" /\ c.hold = 0
    /\ holds' = Append(holds, [stay |-> c.stay, hotel |-> c.option.hotel, status |-> "ACTIVE"])
    /\ calls' = (calls \ {c}) \cup {[c EXCEPT !.hold = Len(holds')]}
    /\ UNCHANGED bookings

Served(c) == calls' = (calls \ {c}) \cup {[c EXCEPT !.served = TRUE]}

\* Mutant: the hold's status is not tested.
serveBookingOfAny(c) ==
    /\ c.op = "submit" /\ c.at = "book" /\ ~c.served
    /\ holds' = [holds EXCEPT ![c.hold].status = "CONVERTED"]
    /\ bookings' = Append(bookings, Booking(c.hold, c.method))
    /\ calls' = (calls \ {c}) \cup {[c EXCEPT !.served = TRUE, !.booking = Len(bookings')]}

serveBooking(c) ==
    /\ c.op = "submit" /\ c.at = "book" /\ ~c.served
    /\ holds[c.hold].status = "ACTIVE"
    /\ holds' = [holds EXCEPT ![c.hold].status = "CONVERTED"]
    /\ bookings' = Append(bookings, Booking(c.hold, c.method))
    /\ calls' = (calls \ {c}) \cup {[c EXCEPT !.served = TRUE, !.booking = Len(bookings')]}

serveProof(c) ==
    /\ c.op = "submit" /\ c.at = "proof" /\ ~c.served
    /\ bookings' = [bookings EXCEPT ![c.booking].proof = TRUE]
    /\ Served(c) /\ UNCHANGED holds
serveOrder(c) ==
    /\ c.op = "submit" /\ c.at = "order" /\ ~c.served
    /\ bookings' = [bookings EXCEPT ![c.booking].ordered = TRUE]
    /\ Served(c) /\ UNCHANGED holds

\* The demo provider's payment is for the booking's own order.
serveVerify(c) ==
    /\ c.op = "pay" /\ c.at = "verify" /\ ~c.served
    /\ IF mode.mock THEN bookings[c.booking].ordered /\ ~bookings[c.booking].confirmed
       ELSE c.order = c.booking
    /\ bookings' = [bookings EXCEPT ![c.booking].confirmed = TRUE]
    /\ Served(c) /\ UNCHANGED holds

Serve(c) ==
    /\ serveHold(c) \/ serveBooking(c) \/ serveProof(c) \/ serveOrder(c) \/ serveVerify(c)
    /\ UNCHANGED <<mode, url, page, rateBook, checkout, clicks, crossed>>

\* The provider tells the server of a payment by itself.
Webhook(b) ==
    /\ bookings[b].captured /\ ~bookings[b].confirmed
    /\ bookings' = [bookings EXCEPT ![b].confirmed = TRUE]
    /\ UNCHANGED <<mode, url, page, rateBook, calls, checkout, holds, clicks, crossed>>
Expire(h) ==
    /\ holds[h].status = "ACTIVE"
    /\ holds' = [holds EXCEPT ![h].status = "EXPIRED"]
    /\ UNCHANGED <<mode, url, page, rateBook, calls, checkout, bookings, clicks, crossed>>

-----------------------------------------------------------------------------
\* What the page does with the answers.
Matches(h) == page.hotel = h \/ (~mode.agent /\ page.hotel = None)

hotelsLand(c) ==
    /\ c.op = "hotels"
    /\ page' = [page EXCEPT !.catalog = TRUE, !.stay = c.search.stay, !.hotel = c.search.hotel,
                            !.step = IF mode.agent /\ c.search.hotel # None /\ @ = "hotels"
                                     THEN "search" ELSE @]
    /\ AskAgain(TRUE)
    /\ crossed' = (crossed \/ (FormChanged /\ (page.options # {} \/ page.hold # 0)))
    /\ calls' = calls \ {c}
    /\ UNCHANGED checkout

searchLand(c) ==
    /\ c.op = "search"
    /\ \E found \in {{}, {o \in Option : o.stay = c.search.stay
                                      /\ c.search.hotel \in {None, o.hotel}}} :
         page' = [Cleared(page) EXCEPT !.options = found, !.step = "room", !.busy = FALSE]
    /\ crossed' = (crossed \/ Form(page) # c.search)
    /\ calls' = calls \ {c}
    /\ UNCHANGED <<rateBook, checkout>>

holdLand(c) ==
    /\ c.op = "hold" /\ c.hold # 0
    /\ page' = [page EXCEPT !.selected = c.option, !.hold = c.hold, !.holdExpired = FALSE,
                            !.step = "guest", !.busy = FALSE]
    /\ crossed' = (crossed \/ c.stay # page.stay \/ ~Matches(c.option.hotel))
    /\ calls' = calls \ {c}
    /\ UNCHANGED <<rateBook, checkout>>

\* An agent's checkout opens by itself, once for a reservation and an order.
Shows(p, c, next) ==
    LET opens == /\ mode.agent /\ p.step = "payment" /\ p.reservation # 0 /\ p.order # 0
                 /\ p.opened # <<p.reservation, p.order>>
    IN  /\ page' = IF opens THEN [p EXCEPT !.opened = <<p.reservation, p.order>>, !.busy = TRUE] ELSE p
        /\ calls' = (calls \ {c}) \cup next \cup (IF opens THEN {Opening(p, c.id)} ELSE {})

At(c, stage) == {[c EXCEPT !.at = stage, !.served = FALSE]}
\* Mutant: no guest's booking needs an order.
CostlessAny(c) == ~mode.agent

\* A guest's booking with no balance needs no order.
Costless(c) == ~mode.agent /\ holds[bookings[c.booking].hold].stay \in Free

submitLand(c) ==
    /\ c.op = "submit"
    /\ \/ c.at = "book" /\ c.served
          /\ Shows(page, c, At(c, IF c.method = "OFFLINE" THEN "proof" ELSE "load"))
       \/ c.at = "proof" /\ c.served /\ Shows(page, c, At(c, "load"))
       \/ c.at = "load" /\ ~Costless(c)
          /\ Shows([page EXCEPT !.reservation = c.booking], c,
                   At(c, IF c.method = "ONLINE" THEN "order" ELSE "wallet"))
       \/ c.at = "load" /\ Costless(c)
          /\ Shows([page EXCEPT !.reservation = c.booking, !.step = "confirmation", !.busy = FALSE],
                   c, {})
       \/ c.at = "wallet" /\ Shows([page EXCEPT !.step = "confirmation", !.busy = FALSE], c, {})
       \/ c.at = "order" /\ c.served
          /\ Shows([page EXCEPT !.order = c.booking, !.step = "payment", !.busy = FALSE], c, {})
    /\ UNCHANGED <<rateBook, checkout, crossed>>

\* Mutant: the page goes on without the answer of the verification.
payLandUnanswered(c) ==
    /\ c.op = "pay"
    /\ \/ c.at = "verify" /\ Shows(page, c, At(c, "load"))
       \/ c.at = "load"
          /\ Shows([page EXCEPT !.reservation = c.booking, !.step = "confirmation", !.busy = FALSE],
                   c, {})
    /\ UNCHANGED <<rateBook, checkout, crossed>>

payLand(c) ==
    /\ c.op = "pay"
    /\ \/ c.at = "verify" /\ c.served /\ Shows(page, c, At(c, "load"))
       \/ c.at = "load"
          /\ Shows([page EXCEPT !.reservation = c.booking, !.step = "confirmation", !.busy = FALSE],
                   c, {})
    /\ UNCHANGED <<rateBook, checkout, crossed>>

\* A second window takes the place of the first.
openLand(c) ==
    /\ c.op = "open" /\ ~mode.mock
    /\ checkout' = [booking |-> c.booking, order |-> c.order]
    /\ page' = [page EXCEPT !.busy = FALSE]
    /\ calls' = calls \ {c}
    /\ UNCHANGED <<rateBook, crossed>>

\* Mutant: only an answer releases the page.
FailBusy(c) ==
    /\ page' = page
    /\ calls' = calls \ {c}
    /\ UNCHANGED <<rateBook, checkout, crossed>>

\* A request that fails leaves its message; the page goes on.
Fail(c) ==
    /\ page' = IF c.op = "hotels" THEN page ELSE [page EXCEPT !.busy = FALSE]
    /\ calls' = calls \ {c}
    /\ UNCHANGED <<rateBook, checkout, crossed>>

Land(c) ==
    /\ \/ hotelsLand(c) \/ searchLand(c) \/ holdLand(c) \/ submitLand(c) \/ payLand(c)
       \/ openLand(c) \/ Fail(c)
    /\ UNCHANGED <<mode, url, holds, bookings, clicks>>

\* The rate book, or none if it fails.  A hotel that is not in it is dropped.
rateBookLand ==
    /\ rateBook.asking # None
    /\ \E eligible \in {EligibleAt[rateBook.asking], {}} :
         LET dropped == /\ page.catalog /\ page.hotel # None
                        /\ eligible = EligibleAt[rateBook.asking] /\ page.hotel \notin eligible
         IN  /\ page' = IF ~dropped THEN page
                        ELSE [page EXCEPT !.hotel = None, !.options = {}, !.selected = NoOption,
                                          !.cart = NoOption,
                                          !.step = IF @ = "confirmation" THEN @ ELSE "hotels"]
             /\ rateBook' = [rateBook EXCEPT !.eligible = eligible,
                                             !.asking = IF dropped THEN page.stay ELSE None]
    /\ UNCHANGED <<mode, url, calls, checkout, holds, bookings, clicks, crossed>>

\* Mutant: it is.
lateRateBookUsed(s) ==
    /\ s \in rateBook.late
    /\ rateBook' = [rateBook EXCEPT !.late = @ \ {s}, !.eligible = EligibleAt[s]]
    /\ UNCHANGED <<mode, url, page, calls, checkout, holds, bookings, clicks, crossed>>

\* The answer to an older question is not used.
lateRateBookLand(s) ==
    /\ s \in rateBook.late
    /\ rateBook' = [rateBook EXCEPT !.late = @ \ {s}]
    /\ UNCHANGED <<mode, url, page, calls, checkout, holds, bookings, clicks, crossed>>

\* The page's clock runs on after the hold has become a booking.
HoldClock ==
    /\ page.hold # 0 /\ ~page.holdExpired
    /\ holds[page.hold].status # "ACTIVE"
    /\ page' = [page EXCEPT !.holdExpired = TRUE]
    /\ UNCHANGED <<mode, url, rateBook, calls, checkout, holds, bookings, clicks, crossed>>

\* The payment window: an order is paid once.
Pay ==
    /\ checkout # Closed /\ ~bookings[checkout.order].captured
    /\ bookings' = [bookings EXCEPT ![checkout.order].captured = TRUE]
    /\ calls' = calls \cup {Paying([id |-> -checkout.order, booking |-> checkout.booking,
                                    order |-> checkout.order])}
    /\ page' = [page EXCEPT !.busy = TRUE]
    /\ checkout' = Closed
    /\ UNCHANGED <<mode, url, rateBook, holds, clicks, crossed>>
\* A window that is closed, or stays open after a payment that failed.
Dismiss ==
    /\ checkout # Closed
    /\ checkout' \in {Closed, checkout}
    /\ page' = [page EXCEPT !.busy = FALSE]
    /\ UNCHANGED <<mode, url, rateBook, calls, holds, bookings, clicks, crossed>>

-----------------------------------------------------------------------------
User ==
    \/ \E h \in Hotel : selectHotel(h)
    \/ \E s \in Stay : updateDates(s)
    \/ Book \/ recheckAvailability \/ ShowTariff \/ completePayment
    \/ \E o \in Option : toggleCartOption(o) \/ createHold(o)
    \/ \E m \in {"WALLET", "ONLINE", "OFFLINE"} : submitGuest(m)

Next ==
    \/ User
    \/ \E c \in calls : Serve(c) \/ Land(c)
    \/ rateBookLand \/ \E s \in Stay : lateRateBookLand(s)
    \/ HoldClock \/ Pay \/ Dismiss
    \/ \E h \in DOMAIN holds : Expire(h)
    \/ \E b \in DOMAIN bookings : Webhook(b)

Spec == Init /\ [][Next]_vars

-----------------------------------------------------------------------------
\* Shapes of the variables, and no number of something that does not exist.
BookingFlowTypeOK ==
    /\ page.stay \in Stay /\ page.hotel \in Hotel \cup {None}
    /\ page.step \in {"hotels", "search", "room", "guest", "payment", "confirmation"}
    /\ page.options \subseteq Option
    /\ page.cart \in page.options \cup {NoOption}
    /\ page.selected \in Option \cup {NoOption}
    /\ page.hold \in 0..Len(holds) /\ page.reservation \in 0..Len(bookings)
    /\ page.order # 0 => bookings[page.order].ordered
    /\ rateBook.eligible \subseteq Hotel /\ rateBook.asking \in Stay \cup {None}
    /\ url \in Search /\ clicks \in Nat
    /\ \A i, j \in DOMAIN bookings : i # j => bookings[i].hold # bookings[j].hold

\* However the dates, the hotel and the catalogue change while rate books are
\* under way, once the page has settled an agent is offered the hotels of the
\* dates shown, or none, and has chosen one of them, or none
\* (BookingFlow.tsx:420-449).
RateBookIsCurrent ==
    mode.agent /\ rateBook.asking = None =>
        /\ rateBook.eligible \in {{}, EligibleAt[page.stay]}
        /\ page.catalog /\ rateBook.eligible # {} => page.hotel \in rateBook.eligible \cup {None}

\* The rooms offered, and the room held, are for the dates and the hotel the
\* page shows, on every way back, round and through a dropped hotel or an
\* expired hold: only an answer that met a form changed since its question
\* can part them (BookingFlow.tsx:402, 493, 534, 554).
ShownIsHeld ==
    ~crossed =>
        /\ page.step = "room" =>
             \A o \in page.options : o.stay = page.stay /\ Matches(o.hotel)
        /\ page.step = "guest" =>
             /\ page.hold # 0 /\ holds[page.hold].stay = page.stay
             /\ Matches(holds[page.hold].hotel)
             /\ page.selected = [stay |-> page.stay, hotel |-> holds[page.hold].hotel]

\* What the page shows belongs together: its rate book, rooms, hold and form.
PageIsConsistent == BookingFlowTypeOK /\ RateBookIsCurrent /\ ShownIsHeld

\* A user who waits while the page is busy is told that a booking is confirmed
\* only if it is, or waits for a proof to be approved, or has nothing to pay
\* for now: an agent's with nothing due yet, a guest's that costs nothing
\* (BookingFlow.tsx:596-613, 649-650, 709).
ConfirmationIsEarned ==
    mode.patient /\ page.step = "confirmation" =>
        LET b == bookings[page.reservation]
            stay == holds[b.hold].stay
        IN  \/ b.confirmed \/ b.proof
            \/ mode.agent /\ b.method = "WALLET" /\ stay \notin DueNow
            \/ ~mode.agent /\ stay \in Free

\* Not so, and checked by no run: the server leaves the bookings with nothing to
\* pay PENDING_PAYMENT (reservations.service.ts:334), and nothing will be paid.
ShownAsItIs ==
    mode.patient /\ page.step = "confirmation" =>
        bookings[page.reservation].confirmed \/ bookings[page.reservation].proof

\* The page is busy only while a request is under way that will release it,
\* whatever it meets: no early return, failure or closed window locks the page
\* (BookingFlow.tsx:520-670).
BusyIsReleased ==
    page.busy => \E c \in calls : c.op \in {"search", "hold", "submit", "pay", "open"}
=============================================================================
