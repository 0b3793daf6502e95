---------------------------- MODULE PagesProofs ----------------------------
(***************************************************************************)
(* Theorems about two pages of the web front end: BookingFlow, where a stay*)
(* is booked, and BanquetDesk, where banquet orders are edited, for any    *)
(* number of requests under way, and answers late, lost or out of order.   *)
(***************************************************************************)
EXTENDS BookingFlow, BanquetDesk, SequenceTheorems, TLAPS

-----------------------------------------------------------------------------
(***************************************************************************)
(* BookingFlow: the guest, the page and the server.                        *)
(***************************************************************************)

\* What the server keeps.
Method == {"WALLET", "ONLINE", "OFFLINE"}
Held == [stay : Stay, hotel : Hotel, status : {"ACTIVE", "EXPIRED", "CONVERTED"}]
Booked == [hold : Nat, method : Method, proof : BOOLEAN, ordered : BOOLEAN,
           captured : BOOLEAN, confirmed : BOOLEAN]

\* What the page shows and asks.
Step == {"hotels", "search", "room", "guest", "payment", "confirmation"}
Page == [stay : Stay, hotel : Hotel \cup {None}, step : Step, catalog : BOOLEAN,
         options : SUBSET Option, cart : Option \cup {NoOption},
         selected : Option \cup {NoOption}, hold : Nat, holdExpired : BOOLEAN,
         reservation : Nat, order : Nat, opened : Nat \X Nat, busy : BOOLEAN]
RateBook == [eligible : SUBSET Hotel, asking : Stay \cup {None}, late : SUBSET Stay]

HotelsCall == [op : {"hotels"}, id : Int, search : Search]
SearchCall == [op : {"search"}, id : Int, search : Search]
HoldCall == [op : {"hold"}, id : Int, stay : Stay, option : Option, hold : Nat]
SubmitCall == [op : {"submit"}, id : Int, at : {"book", "proof", "load", "wallet", "order"},
               hold : Nat, method : Method, booking : Nat, served : BOOLEAN]
OpenCall == [op : {"open"}, id : Int, booking : Nat, order : Nat]
PayCall == [op : {"pay"}, id : Int, at : {"verify", "load"}, booking : Nat, order : Nat,
            served : BOOLEAN]
Pending == HotelsCall \cup SearchCall \cup HoldCall \cup SubmitCall \cup OpenCall \cup PayCall

FlowTypes ==
    /\ mode \in [agent : BOOLEAN, patient : BOOLEAN, mock : BOOLEAN]
    /\ url \in Search /\ page \in Page /\ rateBook \in RateBook /\ calls \subseteq Pending
    /\ checkout \in [booking : Nat, order : Nat]
    /\ holds \in Seq(Held) /\ bookings \in Seq(Booked)
    /\ clicks \in Nat

Hold(h) == h \in 1..Len(holds)
Reserved(b) == b \in 1..Len(bookings)

\* A hold becomes one booking, of a guest or an agent as it was asked for, and
\* what an agent's wallet pays for at once is confirmed.
Server ==
    /\ \A b \in 1..Len(bookings) :
         /\ Hold(bookings[b].hold) /\ holds[bookings[b].hold].status = "CONVERTED"
         /\ bookings[b].method # "ONLINE" => mode.agent
         /\ bookings[b].method = "WALLET" /\ holds[bookings[b].hold].stay \in DueNow
              => bookings[b].confirmed
    /\ \A i, j \in 1..Len(bookings) : i # j => bookings[i].hold # bookings[j].hold

\* The numbers the page and the window have are of what exists.
PageRefs ==
    /\ page.cart \in page.options \cup {NoOption}
    /\ page.hold # 0 => Hold(page.hold)
    /\ page.reservation # 0 => Reserved(page.reservation)
    /\ page.order # 0 => Reserved(page.order) /\ bookings[page.order].ordered
    /\ checkout # Closed => Reserved(checkout.booking) /\ Reserved(checkout.order)

\* So are those of a request, and what the server did for it is done.
CallOK(c) ==
    /\ c.op = "search" /\ mode.agent => c.search.hotel # None
    /\ c.op = "hold" =>
         /\ c.hold # 0 => /\ Hold(c.hold) /\ holds[c.hold].stay = c.stay
                          /\ holds[c.hold].hotel = c.option.hotel
         /\ ~crossed => c.option.stay = c.stay
    /\ c.op = "submit" =>
         /\ Hold(c.hold) /\ (c.method # "ONLINE" => mode.agent)
         /\ c.at # "book" \/ c.served =>
              Reserved(c.booking) /\ bookings[c.booking].method = c.method
         /\ c.method = "OFFLINE" /\ (c.at \in {"load", "wallet"} \/ (c.at = "proof" /\ c.served))
              => bookings[c.booking].proof
         /\ c.at = "wallet" => c.method # "ONLINE"
         /\ c.at = "order" /\ c.served => bookings[c.booking].ordered
    /\ c.op = "open" => Reserved(c.booking) /\ Reserved(c.order)
    /\ c.op = "pay" =>
         /\ Reserved(c.booking) /\ Reserved(c.order)
         /\ c.served \/ c.at = "load" => bookings[c.booking].confirmed
CallRefs == \A c \in calls : CallOK(c)

\* The rate book asked for is that of the dates shown.
AskingIsCurrent ==
    /\ ~mode.agent => rateBook.asking = None
    /\ mode.agent /\ rateBook.asking # None => rateBook.asking = page.stay

\* The rooms an agent may come back to are of the form, too.
OptionsMatch ==
    ~crossed /\ (mode.agent \/ page.step = "room") =>
        \A o \in page.options : o.stay = page.stay /\ Matches(o.hotel)
GuestHolds ==
    ~crossed /\ page.step = "guest" =>
        /\ page.hold # 0 /\ holds[page.hold].stay = page.stay
        /\ Matches(holds[page.hold].hotel)
        /\ page.selected = [stay |-> page.stay, hotel |-> holds[page.hold].hotel]

\* An agent's payment step has opened its window.
OpenedOnce ==
    mode.agent /\ page.step = "payment" /\ page.reservation # 0 /\ page.order # 0 =>
        page.opened = <<page.reservation, page.order>>

\* A user who waits has one request under way, and no window with it; while a
\* booking is being made the page is not past it.
Under == {c \in calls : c.op # "hotels"}
OneAtATime ==
    mode.patient =>
        /\ \A c, d \in Under : c = d
        /\ Under # {} => page.busy /\ checkout = Closed
        /\ \A c \in Under : c.op = "submit" =>
             /\ page.step \in {"guest", "hotels", "search"}
             /\ c.at \in {"wallet", "order"} => page.reservation = c.booking

Earned ==
    mode.patient /\ page.step = "confirmation" =>
        /\ Reserved(page.reservation)
        /\ \/ bookings[page.reservation].confirmed \/ bookings[page.reservation].proof
           \/ /\ mode.agent /\ bookings[page.reservation].method = "WALLET"
              /\ holds[bookings[page.reservation].hold].stay \notin DueNow
           \/ ~mode.agent /\ holds[bookings[page.reservation].hold].stay \in Free

BusyWaits == page.busy => Under # {}

FlowInv ==
    /\ FlowTypes /\ Server /\ PageRefs /\ CallRefs
    /\ AskingIsCurrent /\ RateBookIsCurrent
    /\ OptionsMatch /\ GuestHolds
    /\ OpenedOnce /\ BusyWaits /\ OneAtATime /\ Earned

-----------------------------------------------------------------------------
(***************************************************************************)
(* What a step leaves as it was.                                           *)
(***************************************************************************)

\* What the server keeps it does not lose.
Grows ==
    /\ mode' = mode /\ (crossed => crossed')
    /\ Len(holds) <= Len(holds') /\ Len(bookings) <= Len(bookings')
    /\ \A h \in 1..Len(holds) : holds'[h].stay = holds[h].stay /\ holds'[h].hotel = holds[h].hotel
    /\ \A b \in 1..Len(bookings) :
         /\ bookings'[b].method = bookings[b].method /\ bookings'[b].hold = bookings[b].hold
         /\ bookings[b].proof => bookings'[b].proof
         /\ bookings[b].ordered => bookings'[b].ordered
         /\ bookings[b].confirmed => bookings'[b].confirmed

\* Lengths are numbers.
LEMMA Lengths ==
    ASSUME FlowTypes
    PROVE  /\ Len(holds) \in Nat /\ Len(bookings) \in Nat
           /\ \A h : Hold(h) => h \in Nat /\ h # 0 /\ holds[h] \in Held
           /\ \A b : Reserved(b) => b \in Nat /\ b # 0 /\ bookings[b] \in Booked
BY DEF FlowTypes, Hold, Reserved

LEMMA ServerSame ==
    ASSUME FlowInv, UNCHANGED <<mode, holds, bookings>>
    PROVE  Server' /\ ((crossed => crossed') => Grows)
BY DEF FlowInv, FlowTypes, Server, Grows, Hold

\* A request that was in order is.
LEMMA CallStays ==
    ASSUME FlowInv, Grows, NEW c, CallOK(c), Len(holds') \in Nat, Len(bookings') \in Nat
    PROVE  CallOK(c)'
<1>1. Len(holds) \in Nat /\ Len(bookings) \in Nat
  BY Lengths DEF FlowInv
<1>2. \A h : Hold(h) => Hold(h)' /\ holds'[h].stay = holds[h].stay /\ holds'[h].hotel = holds[h].hotel
  BY <1>1 DEF Grows, Hold
<1>3. \A b : Reserved(b) =>
        /\ Reserved(b)' /\ bookings'[b].method = bookings[b].method
        /\ bookings[b].proof => bookings'[b].proof
        /\ bookings[b].ordered => bookings'[b].ordered
        /\ bookings[b].confirmed => bookings'[b].confirmed
  BY <1>1 DEF Grows, Reserved
<1>4. mode' = mode /\ (~crossed' => ~crossed)
  BY DEF Grows
<1> QED
  BY <1>2, <1>3, <1>4 DEF CallOK

LEMMA CallsStay ==
    ASSUME FlowInv, Grows, Len(holds') \in Nat, Len(bookings') \in Nat,
           \A c \in calls' : c \in calls \/ CallOK(c)'
    PROVE  CallRefs'
BY CallStays DEF FlowInv, CallRefs

\* The form and the rate book are as they were.
LEMMA RateBookSame ==
    ASSUME FlowInv, mode' = mode, rateBook' = rateBook, page'.stay = page.stay,
           page'.hotel = page.hotel, page'.catalog = page.catalog
    PROVE  AskingIsCurrent' /\ RateBookIsCurrent'
BY DEF FlowInv, AskingIsCurrent, RateBookIsCurrent

\* The page shows the rooms or the hold it showed.
LEMMA ShownSame ==
    ASSUME FlowInv, Grows, page'.stay = page.stay, page'.hotel = page.hotel,
           page'.options \subseteq page.options,
           page'.step = "room" => page.step = "room" \/ mode.agent,
           page'.step = "guest" => /\ page.step = "guest" /\ page'.hold = page.hold
                                   /\ page'.selected = page.selected
    PROVE  OptionsMatch' /\ GuestHolds'
<1>1. \A h : Matches(h)' <=> Matches(h)
  BY DEF Matches, Grows
<1>2. mode' = mode /\ (~crossed' => ~crossed)
  BY DEF Grows
<1>3. OptionsMatch'
  BY <1>1, <1>2 DEF FlowInv, OptionsMatch
<1>4. GuestHolds'
  <2> SUFFICES ASSUME ~crossed', page'.step = "guest"
               PROVE  /\ page'.hold # 0 /\ holds'[page'.hold].stay = page'.stay
                      /\ page'.hotel = holds'[page'.hold].hotel \/ (~mode'.agent /\ page'.hotel = None)
                      /\ page'.selected = [stay |-> page'.stay, hotel |-> holds'[page'.hold].hotel]
    BY DEF GuestHolds, Matches
  <2>1. PICK h : h = page.hold
    OBVIOUS
  <2>2. /\ h # 0 /\ holds[h].stay = page.stay
        /\ page.hotel = holds[h].hotel \/ (~mode.agent /\ page.hotel = None)
        /\ page.selected = [stay |-> page.stay, hotel |-> holds[h].hotel]
    BY <2>1, <1>2 DEF FlowInv, GuestHolds, Matches
  <2>3. h \in 1..Len(holds)
    BY <2>1, <2>2 DEF FlowInv, PageRefs, Hold
  <2>4. holds'[h].stay = holds[h].stay /\ holds'[h].hotel = holds[h].hotel
    BY <2>3 DEF Grows
  <2>5. page'.hold = h /\ page'.selected = page.selected
    BY <2>1
  <2> QED
    BY <2>2, <2>4, <2>5, <1>2
<1> QED
  BY <1>3, <1>4

\* A confirmation that was earned is.
LEMMA EarnedSame ==
    ASSUME FlowInv, Grows, Len(holds') \in Nat, Len(bookings') \in Nat,
           page'.step = "confirmation" =>
             page.step = "confirmation" /\ page'.reservation = page.reservation
    PROVE  Earned'
<1> SUFFICES ASSUME mode.patient, page'.step = "confirmation"
             PROVE  /\ page'.reservation \in 1..Len(bookings')
                    /\ \/ bookings'[page'.reservation].confirmed \/ bookings'[page'.reservation].proof
                       \/ /\ mode.agent /\ bookings'[page'.reservation].method = "WALLET"
                          /\ holds'[bookings'[page'.reservation].hold].stay \notin DueNow
                       \/ ~mode.agent /\ holds'[bookings'[page'.reservation].hold].stay \in Free
  BY DEF Earned, Grows, Reserved
<1>1. PICK b : b = page.reservation
  OBVIOUS
<1>2. /\ b \in 1..Len(bookings)
      /\ \/ bookings[b].confirmed \/ bookings[b].proof
         \/ /\ mode.agent /\ bookings[b].method = "WALLET"
            /\ holds[bookings[b].hold].stay \notin DueNow
         \/ ~mode.agent /\ holds[bookings[b].hold].stay \in Free
  BY <1>1 DEF FlowInv, Earned, Reserved
<1>3. bookings[b].hold \in 1..Len(holds)
  BY <1>2 DEF FlowInv, Server, Hold
<1>4. /\ bookings'[b].method = bookings[b].method /\ bookings'[b].hold = bookings[b].hold
      /\ bookings[b].proof => bookings'[b].proof
      /\ bookings[b].confirmed => bookings'[b].confirmed
      /\ b \in 1..Len(bookings')
  BY <1>2, Lengths DEF FlowInv, Grows
<1>5. holds'[bookings[b].hold].stay = holds[bookings[b].hold].stay
  BY <1>3 DEF Grows
<1>6. page'.reservation = b
  BY <1>1
<1> QED
  BY <1>2, <1>4, <1>5, <1>6
-----------------------------------------------------------------------------
(***************************************************************************)
(* Requests begin, go on and end.                                          *)
(***************************************************************************)

\* Nothing is asked.
LEMMA AsksNothing ==
    ASSUME FlowInv, mode' = mode, mode.patient => ~page.busy, Under' = Under,
           page'.busy = page.busy
    PROVE  BusyWaits' /\ OneAtATime'
BY DEF FlowInv, BusyWaits, OneAtATime

\* A user asks, who waited if need be.
LEMMA AsksOne ==
    ASSUME FlowInv, mode' = mode, mode.patient => ~page.busy, checkout' = Closed, page'.busy,
           \E n : /\ Under' = Under \cup {n}
                  /\ n.op = "submit" => page'.step = "guest" /\ n.at = "book"
    PROVE  BusyWaits' /\ OneAtATime'
BY DEF FlowInv, BusyWaits, OneAtATime

\* A request goes on.
LEMMA GoesOn ==
    ASSUME FlowInv, mode' = mode, NEW c \in Under, checkout' = checkout, page'.busy = page.busy,
           \E d : /\ Under' = (Under \ {c}) \cup {d}
                  /\ mode.patient /\ d.op = "submit" =>
                       /\ page'.step \in {"guest", "hotels", "search"}
                       /\ d.at \in {"wallet", "order"} => page'.reservation = d.booking
    PROVE  BusyWaits' /\ OneAtATime'
<1>1. PICK d :
        /\ Under' = (Under \ {c}) \cup {d}
        /\ mode.patient /\ d.op = "submit" =>
             /\ page'.step \in {"guest", "hotels", "search"}
             /\ d.at \in {"wallet", "order"} => page'.reservation = d.booking
  OBVIOUS
<1>2. BusyWaits'
  BY <1>1 DEF BusyWaits
<1>3. OneAtATime'
  <2> SUFFICES ASSUME mode.patient
               PROVE  OneAtATime'
    BY DEF OneAtATime
  <2>1. Under = {c} /\ page.busy /\ checkout = Closed
    BY DEF FlowInv, OneAtATime
  <2>2. Under' = {d}
    BY <1>1, <2>1
  <2> QED
    BY <1>1, <2>1, <2>2 DEF OneAtATime
<1> QED
  BY <1>2, <1>3

\* A request ends, and releases the page.
LEMMA Ending ==
    ASSUME FlowInv, mode' = mode, NEW c \in Under, Under' = Under \ {c}, ~page'.busy
    PROVE  BusyWaits' /\ OneAtATime'
<1>1. BusyWaits'
  BY DEF BusyWaits
<1>2. mode.patient => Under' = {}
  BY DEF FlowInv, OneAtATime
<1>3. OneAtATime'
  BY <1>2 DEF OneAtATime
<1> QED
  BY <1>1, <1>3

\* Requests wait, and the page may be taken back.
LEMMA StillWaiting ==
    ASSUME FlowInv, mode' = mode, Under' = Under, checkout' = checkout, page'.busy = page.busy,
           page'.step = page.step \/ page'.step \in {"hotels", "search"},
           page'.reservation = page.reservation
    PROVE  BusyWaits' /\ OneAtATime'
BY DEF FlowInv, BusyWaits, OneAtATime

\* An agent's payment step keeps its window.
LEMMA OpenedSame ==
    ASSUME FlowInv, mode' = mode,
           page'.step = "payment" => /\ page.step = "payment" /\ page'.opened = page.opened
                                     /\ page'.reservation = page.reservation
                                     /\ page'.order = page.order
    PROVE  OpenedOnce'
BY DEF FlowInv, OpenedOnce

-----------------------------------------------------------------------------
\* A page that shows an answer, and the window that an agent's payment step opens.
LEMMA ShowsDoes ==
    ASSUME FlowInv, mode' = mode, NEW c \in calls, NEW p \in Page, NEW next, Shows(p, c, next)
    PROVE  /\ page' \in Page
           /\ page'.stay = p.stay /\ page'.hotel = p.hotel /\ page'.catalog = p.catalog
           /\ page'.options = p.options /\ page'.cart = p.cart /\ page'.selected = p.selected
           /\ page'.hold = p.hold /\ page'.step = p.step
           /\ page'.reservation = p.reservation /\ page'.order = p.order
           /\ OpenedOnce'
           /\ \/ page' = p /\ calls' = (calls \ {c}) \cup next
              \/ /\ mode.agent /\ p.step = "payment" /\ p.reservation # 0 /\ p.order # 0
                 /\ p.opened # <<p.reservation, p.order>>
                 /\ page'.busy /\ calls' = (calls \ {c}) \cup next \cup {Opening(p, c.id)}
<1> DEFINE opens == /\ mode.agent /\ p.step = "payment" /\ p.reservation # 0 /\ p.order # 0
                    /\ p.opened # <<p.reservation, p.order>>
           paid == [p EXCEPT !.opened = <<p.reservation, p.order>>, !.busy = TRUE]
<1>1. p.reservation \in Nat /\ p.order \in Nat
  BY DEF Page
<1>2. /\ paid \in Page
      /\ paid.stay = p.stay /\ paid.hotel = p.hotel /\ paid.catalog = p.catalog
      /\ paid.options = p.options /\ paid.cart = p.cart /\ paid.selected = p.selected
      /\ paid.hold = p.hold /\ paid.step = p.step
      /\ paid.reservation = p.reservation /\ paid.order = p.order
      /\ paid.opened = <<p.reservation, p.order>> /\ paid.busy
  BY <1>1 DEF Page
<1>3. CASE opens
  <2>1. page' = paid /\ calls' = (calls \ {c}) \cup next \cup {Opening(p, c.id)}
    BY <1>3 DEF Shows
  <2> HIDE DEF paid
  <2>2. OpenedOnce'
    BY <1>2, <2>1 DEF OpenedOnce
  <2> QED
    BY <1>2, <1>3, <2>1, <2>2
<1>4. CASE ~opens
  <2>1. page' = p /\ calls' = (calls \ {c}) \cup next
    BY <1>4 DEF Shows
  <2>2. OpenedOnce'
    BY <1>4, <2>1 DEF OpenedOnce
  <2> QED
    BY <2>1, <2>2
<1> QED
  BY <1>3, <1>4
\* The request that opens the window.
LEMMA OpensOK ==
    ASSUME NEW p, NEW id \in Int, p.reservation \in Nat, p.order \in Nat
    PROVE  /\ Opening(p, id) \in OpenCall /\ Opening(p, id).op = "open"
           /\ Opening(p, id).booking = p.reservation /\ Opening(p, id).order = p.order
BY DEF Opening, OpenCall

\* What the page shows for an answer, when the rest stays.
LEMMA ShowsKeeps ==
    ASSUME FlowInv, UNCHANGED <<mode, url, rateBook, checkout, holds, bookings, clicks, crossed>>,
           NEW c \in calls, c.op \in {"submit", "pay"}, c.id \in Int,
           NEW p \in Page, NEW next, Shows(p, c, next),
           p.stay = page.stay, p.hotel = page.hotel, p.catalog = page.catalog,
           p.options = page.options, p.cart = page.cart, p.hold = page.hold,
           p.selected = page.selected,
           p.step = page.step \/ p.step \in {"payment", "confirmation"},
           p.reservation # 0 => Reserved(p.reservation),
           p.order # 0 => Reserved(p.order) /\ bookings[p.order].ordered,
           mode.patient /\ p.step = "confirmation" =>
             /\ Reserved(p.reservation)
             /\ \/ bookings[p.reservation].confirmed \/ bookings[p.reservation].proof
                \/ /\ mode.agent /\ bookings[p.reservation].method = "WALLET"
                   /\ holds[bookings[p.reservation].hold].stay \notin DueNow
                \/ ~mode.agent /\ holds[bookings[p.reservation].hold].stay \in Free,
           \/ next = {} /\ ~p.busy
           \/ \E d \in Pending :
                /\ next = {d} /\ CallOK(d) /\ d.op = c.op /\ p.busy = page.busy
                /\ mode.patient => /\ p.step = page.step
                                   /\ p.step # "payment" \/ p = page
                /\ mode.patient /\ d.op = "submit" /\ d.at \in {"wallet", "order"} =>
                     p.reservation = d.booking
    PROVE  FlowInv'
<1>1. /\ page' \in Page
      /\ page'.stay = p.stay /\ page'.hotel = p.hotel /\ page'.catalog = p.catalog
      /\ page'.options = p.options /\ page'.cart = p.cart /\ page'.selected = p.selected
      /\ page'.hold = p.hold /\ page'.step = p.step
      /\ page'.reservation = p.reservation /\ page'.order = p.order
      /\ OpenedOnce'
      /\ \/ page' = p /\ calls' = (calls \ {c}) \cup next
         \/ /\ mode.agent /\ p.step = "payment" /\ p.reservation # 0 /\ p.order # 0
            /\ p.opened # <<p.reservation, p.order>>
            /\ page'.busy /\ calls' = (calls \ {c}) \cup next \cup {Opening(p, c.id)}
  BY ShowsDoes
<1>2. Server' /\ Grows /\ Len(holds') \in Nat /\ Len(bookings') \in Nat
  BY ServerSame, Lengths DEF FlowInv
<1>3. p.reservation \in Nat /\ p.order \in Nat
  BY DEF Page
<1>4. Opening(p, c.id) \in OpenCall /\ Opening(p, c.id).op = "open"
      /\ Opening(p, c.id).booking = p.reservation /\ Opening(p, c.id).order = p.order
  BY <1>3, OpensOK
<1>5. ASSUME NEW d \in calls'
      PROVE  d \in calls \/ (d \in Pending /\ CallOK(d))
  <2>1. \/ d \in calls \/ d \in next
        \/ d = Opening(p, c.id) /\ p.reservation # 0 /\ p.order # 0
    BY <1>1
  <2>2. CASE d \in next
    BY <2>2
  <2>3. CASE d = Opening(p, c.id) /\ p.reservation # 0 /\ p.order # 0
    <3>1. d \in Pending
      BY <2>3, <1>4 DEF Pending
    <3>2. CallOK(d)
      BY <2>3, <1>4 DEF CallOK
    <3> QED
      BY <3>1, <3>2
  <2> QED
    BY <2>1, <2>2, <2>3
<1>6. FlowTypes'
  BY <1>1, <1>5 DEF FlowInv, FlowTypes
<1>7. PageRefs'
  BY <1>1 DEF FlowInv, PageRefs, Hold, Reserved
<1>8. CallRefs'
  BY <1>2, <1>5, CallStays, CallsStay
<1>9. AskingIsCurrent' /\ RateBookIsCurrent'
  BY <1>1, RateBookSame
<1>10. OptionsMatch' /\ GuestHolds'
  <2>1. page'.stay = page.stay /\ page'.hotel = page.hotel /\ page'.options = page.options
        /\ page'.hold = page.hold /\ page'.selected = page.selected
    BY <1>1
  <2>2. page'.step \in {"room", "guest"} => page'.step = page.step
    BY <1>1
  <2> QED
    BY <2>1, <2>2, <1>2, ShownSame
<1>11. c \in Under /\ Under' = {d \in calls' : d.op # "hotels"}
  BY DEF Under
<1>12. BusyWaits' /\ OneAtATime'
  <2>1. CASE next = {} /\ ~p.busy
    <3>1. CASE page' = p /\ calls' = (calls \ {c}) \cup next
      <4>1. Under' = Under \ {c} /\ ~page'.busy
        BY <2>1, <3>1 DEF Under
      <4> QED
        BY <4>1, <1>11, Ending
    <3>2. CASE page'.busy /\ calls' = (calls \ {c}) \cup next \cup {Opening(p, c.id)}
      <4>1. Under' = (Under \ {c}) \cup {Opening(p, c.id)}
        BY <2>1, <3>2, <1>4 DEF Under
      <4>2. BusyWaits'
        BY <4>1 DEF BusyWaits
      <4>3. OneAtATime'
        <5> SUFFICES ASSUME mode.patient
                     PROVE  OneAtATime'
          BY DEF OneAtATime
        <5>1. Under = {c} /\ checkout = Closed
          BY <1>11 DEF FlowInv, OneAtATime
        <5>2. Under' = {Opening(p, c.id)}
          BY <4>1, <5>1
        <5> QED
          BY <5>1, <5>2, <1>4, <3>2 DEF OneAtATime
      <4> QED
        BY <4>2, <4>3
    <3> QED
      BY <1>1, <3>1, <3>2
  <2>2. CASE ~(next = {} /\ ~p.busy)
    <3>1. PICK d \in Pending :
            /\ next = {d} /\ CallOK(d) /\ d.op = c.op /\ p.busy = page.busy
            /\ mode.patient => p.step = page.step /\ (p.step # "payment" \/ p = page)
            /\ mode.patient /\ d.op = "submit" /\ d.at \in {"wallet", "order"} =>
                 p.reservation = d.booking
      BY <2>2
    <3>2. CASE page' = p /\ calls' = (calls \ {c}) \cup next
      <4>1. Under' = (Under \ {c}) \cup {d} /\ page'.busy = page.busy
        BY <3>1, <3>2 DEF Under
      <4>2. mode.patient /\ d.op = "submit" =>
              /\ page'.step \in {"guest", "hotels", "search"}
              /\ d.at \in {"wallet", "order"} => page'.reservation = d.booking
        BY <3>1, <1>1, <1>11 DEF FlowInv, OneAtATime
      <4> QED
        BY <4>1, <4>2, <1>11, GoesOn
    <3>3. CASE /\ mode.agent /\ p.step = "payment" /\ p.reservation # 0 /\ p.order # 0
               /\ p.opened # <<p.reservation, p.order>>
               /\ page'.busy /\ calls' = (calls \ {c}) \cup next \cup {Opening(p, c.id)}
      <4>1. Opening(p, c.id) \in Under'
        BY <3>3, <1>4 DEF Under
      <4>2. ~mode.patient
        BY <3>1, <3>3 DEF FlowInv, OpenedOnce
      <4> QED
        BY <4>1, <4>2 DEF BusyWaits, OneAtATime
    <3> QED
      BY <1>1, <3>2, <3>3
  <2> QED
    BY <2>1, <2>2
<1>13. Earned'
  BY <1>1 DEF Earned, Reserved
<1> QED
  BY <1>1, <1>2, <1>6, <1>7, <1>8, <1>9, <1>10, <1>12, <1>13 DEF FlowInv

\* The shapes of the requests, by kind.
LEMMA CallFields ==
    ASSUME NEW c \in Pending
    PROVE  /\ c.id \in Int
           /\ c.op \in {"hotels", "search", "hold", "submit", "open", "pay"}
           /\ c.op = "hotels" => c \in HotelsCall
           /\ c.op = "search" => c \in SearchCall
           /\ c.op = "hold" => c \in HoldCall
           /\ c.op = "submit" => c \in SubmitCall
           /\ c.op = "open" => c \in OpenCall
           /\ c.op = "pay" => c \in PayCall
BY DEF Pending, HotelsCall, SearchCall, HoldCall, SubmitCall, OpenCall, PayCall
\* A request at its next stage.
LEMMA NextStage ==
    ASSUME NEW c, NEW stage,
           \/ c \in SubmitCall /\ stage \in {"proof", "load", "wallet", "order"}
           \/ c \in PayCall /\ stage = "load"
    PROVE  \E d \in Pending :
             /\ At(c, stage) = {d}
             /\ d.op = c.op /\ d.at = stage /\ ~d.served /\ d.booking = c.booking
             /\ c \in SubmitCall => d \in SubmitCall /\ d.hold = c.hold /\ d.method = c.method
             /\ c \in PayCall => d \in PayCall /\ d.order = c.order
<1> DEFINE d == [c EXCEPT !.at = stage, !.served = FALSE]
<1>1. At(c, stage) = {d}
  BY DEF At
<1>2. CASE c \in SubmitCall /\ stage \in {"proof", "load", "wallet", "order"}
  <2>1. /\ d \in SubmitCall /\ d.op = c.op /\ d.at = stage /\ ~d.served /\ d.booking = c.booking
        /\ d.hold = c.hold /\ d.method = c.method
    BY <1>2 DEF SubmitCall
  <2>2. c \notin PayCall /\ d \in Pending
    BY <1>2, <2>1 DEF SubmitCall, PayCall, Pending
  <2> HIDE DEF d
  <2> QED
    BY <1>1, <2>1, <2>2
<1>3. CASE c \in PayCall /\ stage = "load"
  <2>1. /\ d \in PayCall /\ d.op = c.op /\ d.at = stage /\ ~d.served /\ d.booking = c.booking
        /\ d.order = c.order
    BY <1>3 DEF PayCall
  <2>2. c \notin SubmitCall /\ d \in Pending
    BY <1>3, <2>1 DEF SubmitCall, PayCall, Pending
  <2> HIDE DEF d
  <2> QED
    BY <1>1, <2>1, <2>2
<1> QED
  BY <1>2, <1>3

\* The page as it is, may be shown again.
LEMMA PageAsIs ==
    ASSUME FlowInv
    PROVE  /\ page \in Page
           /\ page.reservation # 0 => Reserved(page.reservation)
           /\ page.order # 0 => Reserved(page.order) /\ bookings[page.order].ordered
           /\ mode.patient /\ page.step = "confirmation" =>
                /\ Reserved(page.reservation)
                /\ \/ bookings[page.reservation].confirmed \/ bookings[page.reservation].proof
                   \/ /\ mode.agent /\ bookings[page.reservation].method = "WALLET"
                      /\ holds[bookings[page.reservation].hold].stay \notin DueNow
                   \/ ~mode.agent /\ holds[bookings[page.reservation].hold].stay \in Free
BY DEF FlowInv, FlowTypes, PageRefs, Earned

LEMMA SubmitLands ==
    ASSUME FlowInv, NEW c \in calls, submitLand(c),
           UNCHANGED <<mode, url, holds, bookings, clicks>>
    PROVE  FlowInv'
<1>1. c \in SubmitCall /\ c.op = "submit" /\ CallOK(c) /\ c.id \in Int /\ c.booking \in Nat
      /\ c.method \in Method
  BY CallFields DEF submitLand, FlowInv, FlowTypes, CallRefs, SubmitCall
<1>2. UNCHANGED <<mode, url, rateBook, checkout, holds, bookings, clicks, crossed>>
  BY DEF submitLand
<1>3. c \in Under
  BY <1>1 DEF Under
<1>4. /\ Hold(c.hold) /\ (c.method # "ONLINE" => mode.agent)
      /\ c.at # "book" \/ c.served => Reserved(c.booking) /\ bookings[c.booking].method = c.method
      /\ c.method = "OFFLINE" /\ (c.at \in {"load", "wallet"} \/ (c.at = "proof" /\ c.served))
           => bookings[c.booking].proof
      /\ c.at = "wallet" => c.method # "ONLINE"
      /\ c.at = "order" /\ c.served => bookings[c.booking].ordered
  BY <1>1 DEF CallOK
<1>5. ASSUME NEW d \in SubmitCall, d.op = c.op, d.booking = c.booking, d.hold = c.hold,
             d.method = c.method, ~d.served, d.at \in {"proof", "load", "wallet", "order"},
             Reserved(c.booking) /\ bookings[c.booking].method = c.method,
             d.at \in {"load", "wallet"} /\ c.method = "OFFLINE" => bookings[c.booking].proof,
             d.at = "wallet" => c.method # "ONLINE"
      PROVE  CallOK(d)
  BY <1>1, <1>4, <1>5 DEF CallOK
<1>6. mode.patient => /\ page.step \in {"guest", "hotels", "search"}
                      /\ c.at \in {"wallet", "order"} => page.reservation = c.booking
  BY <1>1, <1>3 DEF FlowInv, OneAtATime
<1>7. CASE c.at = "book" /\ c.served
           /\ Shows(page, c, At(c, IF c.method = "OFFLINE" THEN "proof" ELSE "load"))
  <2>1. PICK stage \in {"proof", "load"} :
          /\ stage = IF c.method = "OFFLINE" THEN "proof" ELSE "load"
          /\ Shows(page, c, At(c, stage))
    BY <1>7
  <2>2. PICK d \in Pending :
          /\ At(c, stage) = {d} /\ d \in SubmitCall
          /\ d.op = c.op /\ d.at = stage /\ ~d.served /\ d.booking = c.booking
          /\ d.hold = c.hold /\ d.method = c.method
    BY <1>1, NextStage
  <2>3. CallOK(d)
    BY <1>4, <1>5, <1>7, <2>1, <2>2
  <2> QED
    BY <1>1, <1>2, <1>6, <2>1, <2>2, <2>3, PageAsIs, ShowsKeeps
<1>8. CASE c.at = "proof" /\ c.served /\ Shows(page, c, At(c, "load"))
  <2>2. PICK d \in Pending :
          /\ At(c, "load") = {d} /\ d \in SubmitCall
          /\ d.op = c.op /\ d.at = "load" /\ ~d.served /\ d.booking = c.booking
          /\ d.hold = c.hold /\ d.method = c.method
    BY <1>1, NextStage
  <2>3. CallOK(d)
    BY <1>4, <1>5, <1>8, <2>2
  <2> QED
    BY <1>1, <1>2, <1>6, <1>8, <2>2, <2>3, PageAsIs, ShowsKeeps
<1>9. CASE /\ c.at = "load" /\ ~Costless(c)
           /\ Shows([page EXCEPT !.reservation = c.booking], c,
                    At(c, IF c.method = "ONLINE" THEN "order" ELSE "wallet"))
  <2>1. PICK stage \in {"order", "wallet"} :
          /\ stage = IF c.method = "ONLINE" THEN "order" ELSE "wallet"
          /\ Shows([page EXCEPT !.reservation = c.booking], c, At(c, stage))
    BY <1>9
  <2>2. PICK d \in Pending :
          /\ At(c, stage) = {d} /\ d \in SubmitCall
          /\ d.op = c.op /\ d.at = stage /\ ~d.served /\ d.booking = c.booking
          /\ d.hold = c.hold /\ d.method = c.method
    BY <1>1, NextStage
  <2>3. CallOK(d)
    BY <1>4, <1>5, <1>9, <2>1, <2>2
  <2>4. PICK p : p = [page EXCEPT !.reservation = c.booking]
    OBVIOUS
  <2>5. /\ p \in Page /\ p.stay = page.stay /\ p.hotel = page.hotel /\ p.catalog = page.catalog
        /\ p.options = page.options /\ p.cart = page.cart /\ p.hold = page.hold
        /\ p.selected = page.selected /\ p.step = page.step /\ p.reservation = c.booking
        /\ p.order = page.order /\ p.busy = page.busy
    BY <1>1, <2>4, PageAsIs DEF Page
  <2>6. Reserved(c.booking)
    BY <1>4, <1>9
  <2>7. mode.patient => p.step \notin {"payment", "confirmation"}
    BY <1>6, <2>5
  <2>8. Shows(p, c, {d})
    BY <2>1, <2>2, <2>4
  <2>9. /\ p.reservation # 0 => Reserved(p.reservation)
        /\ p.order # 0 => Reserved(p.order) /\ bookings[p.order].ordered
    BY <2>5, <2>6, PageAsIs
  <2>10. /\ d.op = c.op /\ p.busy = page.busy
         /\ mode.patient => p.step = page.step /\ (p.step # "payment" \/ p = page)
         /\ mode.patient /\ d.op = "submit" /\ d.at \in {"wallet", "order"} =>
              p.reservation = d.booking
    BY <2>2, <2>5, <2>7
  <2> QED
    BY <1>1, <1>2, <2>3, <2>5, <2>7, <2>8, <2>9, <2>10, ShowsKeeps
<1>10. CASE c.at = "wallet" /\ Shows([page EXCEPT !.step = "confirmation", !.busy = FALSE], c, {})
  <2>4. PICK p : p = [page EXCEPT !.step = "confirmation", !.busy = FALSE]
    OBVIOUS
  <2>5. /\ p \in Page /\ p.stay = page.stay /\ p.hotel = page.hotel /\ p.catalog = page.catalog
        /\ p.options = page.options /\ p.cart = page.cart /\ p.hold = page.hold
        /\ p.selected = page.selected /\ p.step = "confirmation" /\ p.reservation = page.reservation
        /\ p.order = page.order /\ ~p.busy
    BY <2>4, PageAsIs DEF Page, Step
  <2>6. Reserved(c.booking) /\ bookings[c.booking].method = c.method
    BY <1>4, <1>10
  <2>7. c.method = "OFFLINE" => bookings[c.booking].proof
    BY <1>4, <1>10
  <2>8. c.method = "WALLET" =>
          /\ mode.agent
          /\ holds[bookings[c.booking].hold].stay \in DueNow => bookings[c.booking].confirmed
    BY <1>4, <2>6 DEF FlowInv, Server, Reserved
  <2>9. c.method \in {"WALLET", "OFFLINE"}
    BY <1>1, <1>4, <1>10 DEF Method
  <2>10. mode.patient => p.reservation = c.booking
    BY <1>6, <1>10, <2>5
  <2>11. mode.patient /\ p.step = "confirmation" =>
           /\ Reserved(p.reservation)
           /\ \/ bookings[p.reservation].confirmed \/ bookings[p.reservation].proof
              \/ /\ mode.agent /\ bookings[p.reservation].method = "WALLET"
                 /\ holds[bookings[p.reservation].hold].stay \notin DueNow
              \/ ~mode.agent /\ holds[bookings[p.reservation].hold].stay \in Free
    BY <2>6, <2>7, <2>8, <2>9, <2>10
  <2>12. /\ p.reservation # 0 => Reserved(p.reservation)
         /\ p.order # 0 => Reserved(p.order) /\ bookings[p.order].ordered
    BY <2>5, PageAsIs
  <2> QED
    BY <1>1, <1>2, <1>10, <2>4, <2>5, <2>11, <2>12, ShowsKeeps
<1>12. CASE /\ c.at = "load" /\ Costless(c)
            /\ Shows([page EXCEPT !.reservation = c.booking, !.step = "confirmation",
                                  !.busy = FALSE], c, {})
  <2>4. PICK p : p = [page EXCEPT !.reservation = c.booking, !.step = "confirmation", !.busy = FALSE]
    OBVIOUS
  <2>5. /\ p \in Page /\ p.stay = page.stay /\ p.hotel = page.hotel /\ p.catalog = page.catalog
        /\ p.options = page.options /\ p.cart = page.cart /\ p.hold = page.hold
        /\ p.selected = page.selected /\ p.step = "confirmation" /\ p.reservation = c.booking
        /\ p.order = page.order /\ ~p.busy
    BY <1>1, <2>4, PageAsIs DEF Page, Step
  <2>6. Reserved(c.booking)
    BY <1>4, <1>12
  <2>7. ~mode.agent /\ holds[bookings[c.booking].hold].stay \in Free
    BY <1>12 DEF Costless
  <2>8. /\ p.reservation # 0 => Reserved(p.reservation)
        /\ p.order # 0 => Reserved(p.order) /\ bookings[p.order].ordered
    BY <2>5, <2>6, PageAsIs
  <2>9. Shows(p, c, {})
    BY <1>12, <2>4
  <2> QED
    BY <1>1, <1>2, <2>5, <2>6, <2>7, <2>8, <2>9, ShowsKeeps
<1>11. CASE /\ c.at = "order" /\ c.served
            /\ Shows([page EXCEPT !.order = c.booking, !.step = "payment", !.busy = FALSE], c, {})
  <2>4. PICK p : p = [page EXCEPT !.order = c.booking, !.step = "payment", !.busy = FALSE]
    OBVIOUS
  <2>5. /\ p \in Page /\ p.stay = page.stay /\ p.hotel = page.hotel /\ p.catalog = page.catalog
        /\ p.options = page.options /\ p.cart = page.cart /\ p.hold = page.hold
        /\ p.selected = page.selected /\ p.step = "payment" /\ p.reservation = page.reservation
        /\ p.order = c.booking /\ ~p.busy
    BY <1>1, <2>4, PageAsIs DEF Page, Step
  <2>6. Reserved(c.booking) /\ bookings[c.booking].ordered
    BY <1>4, <1>11
  <2> QED
    BY <1>1, <1>2, <1>11, <2>4, <2>5, <2>6, PageAsIs, ShowsKeeps
<1> QED
  BY <1>7, <1>8, <1>9, <1>10, <1>11, <1>12 DEF submitLand

LEMMA PayLands ==
    ASSUME FlowInv, NEW c \in calls, payLand(c),
           UNCHANGED <<mode, url, holds, bookings, clicks>>
    PROVE  FlowInv'
<1>1. c \in PayCall /\ c.op = "pay" /\ CallOK(c) /\ c.id \in Int /\ c.booking \in Nat
  BY CallFields DEF payLand, FlowInv, FlowTypes, CallRefs, PayCall
<1>2. UNCHANGED <<mode, url, rateBook, checkout, holds, bookings, clicks, crossed>>
  BY DEF payLand
<1>3. /\ Reserved(c.booking) /\ Reserved(c.order)
      /\ c.served \/ c.at = "load" => bookings[c.booking].confirmed
  BY <1>1 DEF CallOK
<1>4. CASE c.at = "verify" /\ c.served /\ Shows(page, c, At(c, "load"))
  <2>1. PICK d \in Pending :
          /\ At(c, "load") = {d} /\ d \in PayCall
          /\ d.op = c.op /\ d.at = "load" /\ ~d.served /\ d.booking = c.booking
          /\ d.order = c.order
    BY <1>1, NextStage
  <2>2. CallOK(d)
    BY <1>1, <1>3, <1>4, <2>1 DEF CallOK
  <2>3. d.op # "submit"
    BY <1>1, <2>1
  <2> QED
    BY <1>1, <1>2, <1>4, <2>1, <2>2, <2>3, PageAsIs, ShowsKeeps
<1>5. CASE /\ c.at = "load"
           /\ Shows([page EXCEPT !.reservation = c.booking, !.step = "confirmation",
                                 !.busy = FALSE], c, {})
  <2>4. PICK p : p = [page EXCEPT !.reservation = c.booking, !.step = "confirmation", !.busy = FALSE]
    OBVIOUS
  <2>5. /\ p \in Page /\ p.stay = page.stay /\ p.hotel = page.hotel /\ p.catalog = page.catalog
        /\ p.options = page.options /\ p.cart = page.cart /\ p.hold = page.hold
        /\ p.selected = page.selected /\ p.step = "confirmation" /\ p.reservation = c.booking
        /\ p.order = page.order /\ ~p.busy
    BY <1>1, <2>4, PageAsIs DEF Page, Step
  <2> QED
    BY <1>1, <1>2, <1>3, <1>5, <2>4, <2>5, PageAsIs, ShowsKeeps
<1> QED
  BY <1>4, <1>5 DEF payLand
-----------------------------------------------------------------------------
(***************************************************************************)
(* The other answers.                                                      *)
(***************************************************************************)

\* A page without rooms and hold.
LEMMA ClearedPage ==
    ASSUME NEW p \in Page
    PROVE  /\ Cleared(p) \in Page
           /\ Cleared(p).stay = p.stay /\ Cleared(p).hotel = p.hotel /\ Cleared(p).catalog = p.catalog
           /\ Cleared(p).step = p.step /\ Cleared(p).busy = p.busy /\ Cleared(p).opened = p.opened
           /\ Cleared(p).reservation = p.reservation /\ Cleared(p).order = p.order
           /\ Cleared(p).options = {} /\ Cleared(p).hold = 0 /\ Cleared(p).cart = NoOption
           /\ Cleared(p).selected = NoOption
BY DEF Cleared, Page

\* The requests that are left were there before.
LEMMA LandFrame ==
    ASSUME FlowInv, UNCHANGED <<mode, holds, bookings>>, crossed => crossed', NEW c \in calls,
           calls' = calls \ {c}
    PROVE  /\ Server' /\ Grows /\ CallRefs' /\ Len(holds') \in Nat /\ Len(bookings') \in Nat
           /\ Under' = Under \ {c}
<1>1. Server' /\ Grows /\ Len(holds') \in Nat /\ Len(bookings') \in Nat
  BY ServerSame, Lengths DEF FlowInv
<1>2. CallRefs'
  BY <1>1, CallsStay
<1> QED
  BY <1>1, <1>2 DEF Under

\* The rate book asked for again.
LEMMA AskedAgain ==
    ASSUME FlowInv, mode' = mode, page' \in Page, NEW changed \in BOOLEAN, AskAgain(changed),
           ~changed => /\ page'.stay = page.stay /\ page'.catalog = page.catalog
                       /\ page'.hotel = page.hotel
    PROVE  rateBook' \in RateBook /\ AskingIsCurrent' /\ RateBookIsCurrent'
<1>1. CASE changed
  <2>1. rateBook' = [rateBook EXCEPT !.asking = Asked(page'),
                                     !.late = @ \cup ({rateBook.asking} \ {None})]
    BY <1>1 DEF AskAgain
  <2>2. rateBook \in RateBook
    BY DEF FlowInv, FlowTypes
  <2>3. Asked(page') \in Stay \cup {None}
        /\ (~mode.agent => Asked(page') = None) /\ (mode.agent => Asked(page') = page'.stay)
    BY DEF Asked, Page
  <2>4. rateBook.late \cup ({rateBook.asking} \ {None}) \subseteq Stay
    BY <2>2 DEF RateBook
  <2>5. rateBook' \in RateBook /\ rateBook'.asking = Asked(page')
    BY <2>1, <2>2, <2>3, <2>4 DEF RateBook
  <2>6. mode.agent => rateBook'.asking # None
    BY <2>3, <2>5, BookingFlowAssumption DEF Page
  <2> QED
    BY <2>3, <2>5, <2>6 DEF AskingIsCurrent, RateBookIsCurrent
<1>2. CASE ~changed
  <2>1. rateBook' = rateBook
    BY <1>2 DEF AskAgain
  <2> QED
    BY <1>2, <2>1, RateBookSame DEF FlowInv, FlowTypes
<1> QED
  BY <1>1, <1>2

LEMMA HotelsLands ==
    ASSUME FlowInv, NEW c \in calls, hotelsLand(c), UNCHANGED <<mode, url, holds, bookings, clicks>>
    PROVE  FlowInv'
<1>1. c \in HotelsCall /\ c.op = "hotels" /\ c.search \in Search
  BY CallFields DEF hotelsLand, FlowInv, FlowTypes, HotelsCall
<1>2. c.search.stay \in Stay /\ c.search.hotel \in Hotel \cup {None}
  BY <1>1 DEF Search
<1>3. /\ page' \in Page /\ page'.stay = c.search.stay /\ page'.hotel = c.search.hotel /\ page'.catalog
      /\ page'.step = page.step \/ page'.step = "search"
      /\ page'.options = page.options /\ page'.cart = page.cart /\ page'.hold = page.hold
      /\ page'.selected = page.selected /\ page'.reservation = page.reservation
      /\ page'.order = page.order /\ page'.opened = page.opened /\ page'.busy = page.busy
  BY <1>2, PageAsIs DEF hotelsLand, Page, Step
<1>4. /\ crossed' = (crossed \/ (FormChanged /\ (page.options # {} \/ page.hold # 0)))
      /\ calls' = calls \ {c} /\ checkout' = checkout /\ AskAgain(TRUE)
  BY DEF hotelsLand
<1>5. Server' /\ Grows /\ CallRefs' /\ Len(holds') \in Nat /\ Len(bookings') \in Nat /\ Under' = Under
  BY <1>1, <1>4, LandFrame DEF Under
<1>6. rateBook' \in RateBook /\ AskingIsCurrent' /\ RateBookIsCurrent'
  BY <1>3, <1>4, AskedAgain
<1>7. FlowTypes'
  BY <1>3, <1>4, <1>6 DEF FlowInv, FlowTypes
<1>8. PageRefs'
  BY <1>3, <1>4 DEF FlowInv, PageRefs, Hold, Reserved
<1>9. OptionsMatch' /\ GuestHolds'
  <2>1. CASE crossed'
    BY <2>1 DEF OptionsMatch, GuestHolds
  <2>2. CASE ~FormChanged
    <3>1. page'.stay = page.stay /\ page'.hotel = page.hotel
      BY <2>2 DEF FormChanged, Form
    <3> QED
      BY <3>1, <1>3, <1>5, ShownSame
  <2>3. CASE ~crossed' /\ page.options = {} /\ page.hold = 0
    BY <2>3, <1>3, <1>4 DEF OptionsMatch, GuestHolds, FlowInv
  <2> QED
    BY <2>1, <2>2, <2>3, <1>4
<1>10. OpenedOnce' /\ BusyWaits' /\ OneAtATime'
  BY <1>3, <1>4, <1>5, OpenedSame, StillWaiting
<1>11. Earned'
  BY <1>3, <1>5, EarnedSame
<1> QED
  BY <1>5, <1>6, <1>7, <1>8, <1>9, <1>10, <1>11 DEF FlowInv

LEMMA SearchLands ==
    ASSUME FlowInv, NEW c \in calls, searchLand(c), UNCHANGED <<mode, url, holds, bookings, clicks>>
    PROVE  FlowInv'
<1>1. c \in SearchCall /\ c.op = "search" /\ c.search \in Search /\ c \in Under
      /\ (mode.agent => c.search.hotel # None)
  BY CallFields DEF searchLand, FlowInv, FlowTypes, SearchCall, Under, CallRefs, CallOK
<1> DEFINE rooms == {o \in Option : o.stay = c.search.stay /\ c.search.hotel \in {None, o.hotel}}
<1>2. PICK found \in {{}, rooms} :
        page' = [Cleared(page) EXCEPT !.options = found, !.step = "room", !.busy = FALSE]
  BY DEF searchLand
<1>2a. found \in SUBSET Option
       /\ \A o \in found : o.stay = c.search.stay /\ c.search.hotel \in {None, o.hotel}
  OBVIOUS
<1> HIDE DEF rooms
<1>3. PICK p \in Page : p = Cleared(page)
  BY PageAsIs, ClearedPage
<1>4. /\ page' \in Page /\ page'.stay = p.stay /\ page'.hotel = p.hotel /\ page'.catalog = p.catalog
      /\ page'.step = "room" /\ page'.options = found /\ page'.cart = p.cart /\ page'.hold = p.hold
      /\ page'.selected = p.selected /\ page'.reservation = p.reservation
      /\ page'.order = p.order /\ ~page'.busy
  BY <1>2, <1>2a, <1>3 DEF Page, Step
<1>5. /\ page'.stay = page.stay /\ page'.hotel = page.hotel /\ page'.catalog = page.catalog
      /\ page'.cart = NoOption /\ page'.hold = 0
      /\ page'.reservation = page.reservation /\ page'.order = page.order
  BY <1>3, <1>4, PageAsIs, ClearedPage
<1>6. /\ crossed' = (crossed \/ Form(page) # c.search)
      /\ calls' = calls \ {c} /\ UNCHANGED <<rateBook, checkout>>
  BY DEF searchLand
<1>7. /\ Server' /\ Grows /\ CallRefs' /\ Len(holds') \in Nat /\ Len(bookings') \in Nat
      /\ Under' = Under \ {c}
  BY <1>6, LandFrame
<1>8. FlowTypes'
  BY <1>4, <1>6 DEF FlowInv, FlowTypes
<1>9. PageRefs'
  BY <1>5, <1>6 DEF FlowInv, PageRefs, Hold, Reserved
<1>10. AskingIsCurrent' /\ RateBookIsCurrent'
  BY <1>5, <1>6, RateBookSame
<1>11. OptionsMatch' /\ GuestHolds'
  <2>1. ASSUME ~crossed', NEW o \in found
        PROVE  o.stay = page'.stay /\ (page'.hotel = o.hotel \/ (~mode'.agent /\ page'.hotel = None))
    <3>0. Form(page) = c.search /\ Form(page).stay = page.stay /\ Form(page).hotel = page.hotel
      <4>1. Form(page) = c.search
        BY <2>1, <1>6
      <4>2. Form(page).stay = page.stay /\ Form(page).hotel = page.hotel
        BY DEF Form
      <4> QED
        BY <4>1, <4>2
    <3>1. page.stay = c.search.stay /\ page.hotel = c.search.hotel
      BY <3>0
    <3> QED
      BY <3>1, <1>1, <1>2a, <1>5
  <2> QED
    BY <2>1, <1>4 DEF OptionsMatch, GuestHolds, Matches
<1>12. OpenedOnce' /\ BusyWaits' /\ OneAtATime'
  BY <1>1, <1>4, <1>7, OpenedSame, Ending
<1>13. Earned'
  BY <1>4, <1>7, EarnedSame
<1> QED
  BY <1>7, <1>8, <1>9, <1>10, <1>11, <1>12, <1>13 DEF FlowInv

LEMMA HoldLands ==
    ASSUME FlowInv, NEW c \in calls, holdLand(c), UNCHANGED <<mode, url, holds, bookings, clicks>>
    PROVE  FlowInv'
<1>1. c \in HoldCall /\ c.op = "hold" /\ c.hold # 0 /\ c.option \in Option /\ c.hold \in Nat
      /\ c \in Under
  BY CallFields DEF holdLand, FlowInv, FlowTypes, HoldCall, Under
<1>2. /\ Hold(c.hold) /\ holds[c.hold].stay = c.stay /\ holds[c.hold].hotel = c.option.hotel
      /\ ~crossed => c.option.stay = c.stay
  BY <1>1 DEF FlowInv, CallRefs, CallOK
<1>3. /\ page' = [page EXCEPT !.selected = c.option, !.hold = c.hold, !.holdExpired = FALSE,
                              !.step = "guest", !.busy = FALSE]
      /\ crossed' = (crossed \/ c.stay # page.stay \/ ~Matches(c.option.hotel))
      /\ calls' = calls \ {c} /\ UNCHANGED <<rateBook, checkout>>
  BY DEF holdLand
<1>4. /\ page' \in Page /\ page'.stay = page.stay /\ page'.hotel = page.hotel
      /\ page'.catalog = page.catalog /\ page'.step = "guest" /\ page'.options = page.options
      /\ page'.cart = page.cart /\ page'.hold = c.hold /\ page'.selected = c.option
      /\ page'.reservation = page.reservation /\ page'.order = page.order /\ ~page'.busy
  BY <1>1, <1>3, PageAsIs DEF Page, Step
<1>5. /\ Server' /\ Grows /\ CallRefs' /\ Len(holds') \in Nat /\ Len(bookings') \in Nat
      /\ Under' = Under \ {c}
  BY <1>3, LandFrame
<1>6. FlowTypes'
  BY <1>3, <1>4 DEF FlowInv, FlowTypes
<1>7. PageRefs'
  BY <1>2, <1>3, <1>4 DEF FlowInv, PageRefs, Hold, Reserved
<1>8. AskingIsCurrent' /\ RateBookIsCurrent'
  BY <1>3, <1>4, RateBookSame
<1>9. OptionsMatch'
  BY <1>3, <1>4 DEF FlowInv, OptionsMatch, Matches
<1>10. GuestHolds'
  <2> SUFFICES ASSUME ~crossed'
               PROVE  /\ page'.hold # 0 /\ holds'[page'.hold].stay = page'.stay
                      /\ \/ page'.hotel = holds'[page'.hold].hotel
                         \/ ~mode'.agent /\ page'.hotel = None
                      /\ page'.selected = [stay |-> page'.stay, hotel |-> holds'[page'.hold].hotel]
    BY DEF GuestHolds, Matches
  <2>1. ~crossed /\ c.stay = page.stay /\ Matches(c.option.hotel)
    BY <1>3
  <2>2. c.option = [stay |-> page.stay, hotel |-> c.option.hotel]
    BY <2>1, <1>1, <1>2 DEF Option
  <2> QED
    BY <2>1, <2>2, <1>1, <1>2, <1>4 DEF Matches
<1>11. OpenedOnce' /\ BusyWaits' /\ OneAtATime'
  BY <1>1, <1>4, <1>5, OpenedSame, Ending
<1>12. Earned'
  BY <1>4, <1>5, EarnedSame
<1> QED
  BY <1>5, <1>6, <1>7, <1>8, <1>9, <1>10, <1>11, <1>12 DEF FlowInv

\* The page is released, and nothing else on it changes.
LEMMA Released ==
    ASSUME FlowInv, NEW c \in Under, calls' = calls \ {c}, page' = [page EXCEPT !.busy = FALSE],
           UNCHANGED <<mode, url, rateBook, holds, bookings, clicks, crossed>>,
           checkout' \in [booking : Nat, order : Nat],
           checkout' # Closed => Reserved(checkout'.booking) /\ Reserved(checkout'.order)
    PROVE  FlowInv'
<1>1. c \in calls
  BY DEF Under
<1>2. /\ page' \in Page /\ page'.stay = page.stay /\ page'.hotel = page.hotel
      /\ page'.catalog = page.catalog /\ page'.step = page.step /\ page'.options = page.options
      /\ page'.cart = page.cart /\ page'.hold = page.hold /\ page'.selected = page.selected
      /\ page'.reservation = page.reservation /\ page'.order = page.order
      /\ page'.opened = page.opened /\ ~page'.busy
  BY PageAsIs DEF Page
<1>3. /\ Server' /\ Grows /\ CallRefs' /\ Len(holds') \in Nat /\ Len(bookings') \in Nat
      /\ Under' = Under \ {c}
  BY <1>1, LandFrame
<1>4. FlowTypes'
  BY <1>2 DEF FlowInv, FlowTypes
<1>5. PageRefs'
  BY <1>2 DEF FlowInv, PageRefs, Hold, Reserved
<1>6. AskingIsCurrent' /\ RateBookIsCurrent'
  BY <1>2, RateBookSame
<1>7. OptionsMatch' /\ GuestHolds'
  BY <1>2, <1>3, ShownSame
<1>8. OpenedOnce' /\ BusyWaits' /\ OneAtATime'
  BY <1>2, <1>3, OpenedSame, Ending
<1>9. Earned'
  BY <1>2, <1>3, EarnedSame
<1> QED
  BY <1>3, <1>4, <1>5, <1>6, <1>7, <1>8, <1>9 DEF FlowInv

LEMMA OpenLands ==
    ASSUME FlowInv, NEW c \in calls, openLand(c), UNCHANGED <<mode, url, holds, bookings, clicks>>
    PROVE  FlowInv'
<1>1. c \in OpenCall /\ c.op = "open" /\ c \in Under /\ c.booking \in Nat /\ c.order \in Nat
  BY CallFields DEF openLand, FlowInv, FlowTypes, OpenCall, Under
<1>2. Reserved(c.booking) /\ Reserved(c.order)
  BY <1>1 DEF FlowInv, CallRefs, CallOK
<1> QED
  BY <1>1, <1>2, Released DEF openLand

LEMMA Fails ==
    ASSUME FlowInv, NEW c \in calls, Fail(c), UNCHANGED <<mode, url, holds, bookings, clicks>>
    PROVE  FlowInv'
<1>1. CASE c.op # "hotels"
  <2>1. c \in Under
    BY <1>1 DEF Under
  <2> QED
    BY <1>1, <2>1, Released DEF Fail, FlowInv, FlowTypes, PageRefs
<1>2. CASE c.op = "hotels"
  <2>1. UNCHANGED <<page, rateBook, checkout, crossed>> /\ calls' = calls \ {c}
    BY <1>2 DEF Fail
  <2>2. /\ Server' /\ Grows /\ CallRefs' /\ Len(holds') \in Nat /\ Len(bookings') \in Nat
        /\ Under' = Under
    BY <1>2, <2>1, LandFrame DEF Under
  <2>3. FlowTypes'
    BY <2>1 DEF FlowInv, FlowTypes
  <2>4. PageRefs'
    BY <2>1 DEF FlowInv, PageRefs, Hold, Reserved
  <2>5. AskingIsCurrent' /\ RateBookIsCurrent'
    BY <2>1, RateBookSame
  <2>6. OptionsMatch' /\ GuestHolds'
    BY <2>1, <2>2, ShownSame
  <2>7. OpenedOnce' /\ BusyWaits' /\ OneAtATime'
    BY <2>1, <2>2, OpenedSame, StillWaiting
  <2>8. Earned'
    BY <2>1, <2>2, EarnedSame
  <2> QED
    BY <2>2, <2>3, <2>4, <2>5, <2>6, <2>7, <2>8 DEF FlowInv
<1> QED
  BY <1>1, <1>2

LEMMA Lands == ASSUME FlowInv, NEW c \in calls, Land(c) PROVE FlowInv'
BY HotelsLands, SearchLands, HoldLands, SubmitLands, PayLands, OpenLands, Fails DEF Land
-----------------------------------------------------------------------------
(***************************************************************************)
(* What the server does.                                                   *)
(***************************************************************************)

\* A step of the server, with an answer or by itself.
LEMMA ServerMoves ==
    ASSUME FlowInv, UNCHANGED <<mode, url, page, rateBook, checkout, clicks, crossed>>,
           Grows, Server', holds' \in Seq(Held), bookings' \in Seq(Booked),
           \/ calls' = calls
           \/ \E c \in calls, d \in Pending :
                /\ c.op # "hotels" /\ d.op = c.op /\ calls' = (calls \ {c}) \cup {d} /\ CallOK(d)'
                /\ d.op = "submit" => d.at = c.at /\ (d.at = "book" \/ d.booking = c.booking)
    PROVE  FlowInv'
<1>1. Len(holds') \in Nat /\ Len(bookings') \in Nat /\ Len(holds) \in Nat /\ Len(bookings) \in Nat
  BY DEF FlowInv, FlowTypes
<1>2. FlowTypes' /\ CallRefs'
  <2>1. FlowTypes'
    BY DEF FlowInv, FlowTypes
  <2>2. CallRefs'
    BY <1>1, CallsStay
  <2> QED
    BY <2>1, <2>2
<1>3. PageRefs'
  <2>1. \A h : Hold(h) => Hold(h)'
    BY <1>1 DEF Hold, Grows
  <2>2. \A b : Reserved(b) => Reserved(b)' /\ (bookings[b].ordered => bookings'[b].ordered)
    BY <1>1 DEF Reserved, Grows
  <2> QED
    BY <2>1, <2>2 DEF FlowInv, PageRefs
<1>4. AskingIsCurrent' /\ RateBookIsCurrent'
  BY RateBookSame
<1>5. OptionsMatch' /\ GuestHolds'
  BY ShownSame
<1>6. OpenedOnce'
  BY OpenedSame
<1>7. BusyWaits' /\ OneAtATime'
  <2>1. CASE calls' = calls
    <3>1. Under' = Under
      BY <2>1 DEF Under
    <3> QED
      BY <3>1, StillWaiting
  <2>2. CASE calls' # calls
    <3>1. PICK c \in calls, d \in Pending :
            /\ c.op # "hotels" /\ d.op = c.op /\ calls' = (calls \ {c}) \cup {d}
            /\ d.op = "submit" => d.at = c.at /\ (d.at = "book" \/ d.booking = c.booking)
      BY <2>2
    <3>2. c \in Under /\ Under' = (Under \ {c}) \cup {d}
      BY <3>1 DEF Under
    <3>3. mode.patient /\ d.op = "submit" =>
            /\ page'.step \in {"guest", "hotels", "search"}
            /\ d.at \in {"wallet", "order"} => page'.reservation = d.booking
      BY <3>1, <3>2 DEF FlowInv, OneAtATime
    <3> QED
      BY <3>2, <3>3, GoesOn
  <2> QED
    BY <2>1, <2>2
<1>8. Earned'
  BY <1>1, EarnedSame
<1> QED
  BY <1>2, <1>3, <1>4, <1>5, <1>6, <1>7, <1>8 DEF FlowInv

\* A mark is put on a booking.
LEMMA BookingMarked ==
    ASSUME FlowInv, NEW b, Reserved(b), UNCHANGED <<mode, holds>>, crossed => crossed',
           \/ bookings' = [bookings EXCEPT ![b].proof = TRUE]
           \/ bookings' = [bookings EXCEPT ![b].ordered = TRUE]
           \/ bookings' = [bookings EXCEPT ![b].confirmed = TRUE]
           \/ bookings' = [bookings EXCEPT ![b].captured = TRUE]
    PROVE  /\ bookings' \in Seq(Booked) /\ Len(bookings') = Len(bookings)
           /\ Grows /\ Server' /\ \A i : Reserved(i)' <=> Reserved(i)
<1>1. bookings \in Seq(Booked) /\ Len(bookings) \in Nat /\ b \in 1..Len(bookings)
  BY DEF FlowInv, FlowTypes, Reserved
<1>2. bookings[b] \in Booked
  BY <1>1
<1>3. PICK x \in Booked :
        /\ bookings' = [bookings EXCEPT ![b] = x]
        /\ x.method = bookings[b].method /\ x.hold = bookings[b].hold
        /\ bookings[b].proof => x.proof
        /\ bookings[b].ordered => x.ordered
        /\ bookings[b].confirmed => x.confirmed
  <2>1. CASE bookings' = [bookings EXCEPT ![b].proof = TRUE]
    BY <1>2, <2>1 DEF Booked
  <2>2. CASE bookings' = [bookings EXCEPT ![b].ordered = TRUE]
    BY <1>2, <2>2 DEF Booked
  <2>3. CASE bookings' = [bookings EXCEPT ![b].confirmed = TRUE]
    BY <1>2, <2>3 DEF Booked
  <2>4. CASE bookings' = [bookings EXCEPT ![b].captured = TRUE]
    BY <1>2, <2>4 DEF Booked
  <2> QED
    BY <2>1, <2>2, <2>3, <2>4
<1>4. /\ bookings' \in Seq(Booked) /\ Len(bookings') = Len(bookings)
      /\ \A i \in 1..Len(bookings) : bookings'[i] = IF i = b THEN x ELSE bookings[i]
  BY <1>1, <1>3, ExceptSeq
<1>5. Grows
  BY <1>1, <1>3, <1>4 DEF Grows, FlowInv, FlowTypes
<1>6. Server'
  BY <1>1, <1>3, <1>4 DEF FlowInv, Server, Hold
<1>7. \A i : Reserved(i)' <=> Reserved(i)
  BY <1>4 DEF Reserved
<1> QED
  BY <1>4, <1>5, <1>6, <1>7
LEMMA HoldServed ==
    ASSUME FlowInv, NEW c \in calls, serveHold(c),
           UNCHANGED <<mode, url, page, rateBook, checkout, clicks, crossed>>
    PROVE  FlowInv'
<1>1. c \in HoldCall /\ c.op = "hold" /\ CallOK(c)
  BY CallFields DEF serveHold, FlowInv, FlowTypes, CallRefs
<1>2. PICK n \in Nat : n = Len(holds) + 1
  BY Lengths DEF FlowInv
<1>3. PICK x \in Held : x.stay = c.stay /\ x.hotel = c.option.hotel /\ holds' = Append(holds, x)
  <2>1. [stay |-> c.stay, hotel |-> c.option.hotel, status |-> "ACTIVE"] \in Held
    BY <1>1 DEF HoldCall, Option, Held
  <2> QED
    BY <2>1 DEF serveHold
<1>4. /\ holds' \in Seq(Held) /\ Len(holds') = n /\ holds'[n] = x
      /\ \A i \in 1..Len(holds) : holds'[i] = holds[i]
  BY <1>2, <1>3, AppendProperties DEF FlowInv, FlowTypes
<1>5. Grows
  BY <1>2, <1>4 DEF Grows, FlowInv, FlowTypes, serveHold
<1>6. Server'
  BY <1>2, <1>4, Lengths DEF FlowInv, Server, Hold, serveHold
<1>7. PICK d : d = [c EXCEPT !.hold = n]
  OBVIOUS
<1>8. d \in HoldCall /\ d.op = "hold" /\ d.stay = c.stay /\ d.option = c.option /\ d.hold = n
  BY <1>1, <1>7 DEF HoldCall
<1>9. calls' = (calls \ {c}) \cup {d}
  BY <1>4, <1>7 DEF serveHold
<1>10. CallOK(d)'
  BY <1>1, <1>2, <1>3, <1>4, <1>8 DEF CallOK, Hold
<1>11. d \in Pending
  BY <1>8 DEF Pending
<1> QED
  BY <1>1, <1>4, <1>5, <1>6, <1>8, <1>9, <1>10, <1>11, ServerMoves DEF serveHold, FlowInv, FlowTypes

LEMMA BookingServed ==
    ASSUME FlowInv, NEW c \in calls, serveBooking(c),
           UNCHANGED <<mode, url, page, rateBook, checkout, clicks, crossed>>
    PROVE  FlowInv'
<1>1. c \in SubmitCall /\ c.op = "submit" /\ c.at = "book" /\ c.method \in Method /\ c.hold \in Nat
      /\ Hold(c.hold) /\ (c.method # "ONLINE" => mode.agent)
  BY CallFields DEF serveBooking, FlowInv, FlowTypes, CallRefs, CallOK, SubmitCall
<1>2. PICK n \in Nat : n = Len(bookings) + 1
  BY Lengths DEF FlowInv
<1>3. PICK h \in 1..Len(holds) : h = c.hold
  BY <1>1 DEF Hold
<1>4. holds \in Seq(Held) /\ holds[h] \in Held /\ holds[h].status = "ACTIVE" /\ Len(holds) \in Nat
      /\ bookings \in Seq(Booked) /\ Len(bookings) \in Nat
  BY <1>3 DEF FlowInv, FlowTypes, serveBooking
<1>5. PICK x \in Held :
        /\ x.stay = holds[h].stay /\ x.hotel = holds[h].hotel /\ x.status = "CONVERTED"
        /\ holds' = [holds EXCEPT ![h] = x]
  BY <1>3, <1>4 DEF serveBooking, Held
<1>6. /\ holds' \in Seq(Held) /\ Len(holds') = Len(holds)
      /\ \A i \in 1..Len(holds) : holds'[i] = IF i = h THEN x ELSE holds[i]
  BY <1>4, <1>5, ExceptSeq
<1>7. PICK b \in Booked :
        /\ b.hold = h /\ b.method = c.method /\ bookings' = Append(bookings, b)
        /\ b.confirmed <=> (b.method = "WALLET" /\ holds[h].stay \in DueNow)
  <2>1. PICK b : b = Booking(c.hold, c.method)
    OBVIOUS
  <2>2. b \in Booked /\ b.hold = h /\ b.method = c.method
        /\ (b.confirmed <=> (b.method = "WALLET" /\ holds[h].stay \in DueNow))
    BY <1>1, <1>3, <2>1 DEF Booking, Booked
  <2> QED
    BY <2>1, <2>2 DEF serveBooking
<1>8. /\ bookings' \in Seq(Booked) /\ Len(bookings') = n /\ bookings'[n] = b
      /\ \A i \in 1..Len(bookings) : bookings'[i] = bookings[i]
  BY <1>2, <1>4, <1>7, AppendProperties
<1>9. Grows
  BY <1>2, <1>4, <1>5, <1>6, <1>8 DEF Grows
<1>10. Server'
  <2>1. \A i \in 1..Len(bookings) :
          /\ bookings[i].hold \in 1..Len(holds) /\ holds[bookings[i].hold].status = "CONVERTED"
          /\ bookings[i].hold # h
    BY <1>4 DEF FlowInv, Server, Hold
  <2>2. \A i \in 1..n : i \in 1..Len(bookings) \/ i = n
    BY <1>2, <1>4
  <2>3. ASSUME NEW i \in 1..n
        PROVE  /\ bookings'[i].hold \in 1..Len(holds)
               /\ holds'[bookings'[i].hold].status = "CONVERTED"
               /\ bookings'[i].method # "ONLINE" => mode.agent
               /\ bookings'[i].method = "WALLET" /\ holds'[bookings'[i].hold].stay \in DueNow
                    => bookings'[i].confirmed
    <3>1. CASE i = n
      BY <3>1, <1>1, <1>5, <1>6, <1>7, <1>8
    <3>2. CASE i \in 1..Len(bookings)
      <4>1. bookings'[i] = bookings[i]
        BY <3>2, <1>8
      <4>2. holds'[bookings[i].hold] = holds[bookings[i].hold]
        BY <3>2, <2>1, <1>6
      <4> QED
        BY <3>2, <4>1, <4>2, <2>1 DEF FlowInv, Server
    <3> QED
      BY <2>2, <3>1, <3>2
  <2>4. ASSUME NEW i \in 1..n, NEW j \in 1..n, i # j
        PROVE  bookings'[i].hold # bookings'[j].hold
    BY <2>1, <2>2, <2>4, <1>7, <1>8 DEF FlowInv, Server
  <2> QED
    BY <2>3, <2>4, <1>6, <1>8 DEF Server, Hold
<1>11. PICK d : d = [c EXCEPT !.served = TRUE, !.booking = n]
  OBVIOUS
<1>12. d \in SubmitCall /\ d.op = "submit" /\ d.at = "book" /\ d.hold = c.hold /\ d.method = c.method
       /\ d.booking = n /\ d.served
  BY <1>1, <1>11 DEF SubmitCall
<1>13. calls' = (calls \ {c}) \cup {d}
  BY <1>8, <1>11 DEF serveBooking
<1>14. CallOK(d)'
  BY <1>1, <1>2, <1>6, <1>7, <1>8, <1>12 DEF CallOK, Hold, Reserved
<1>15. d \in Pending
  BY <1>12 DEF Pending
<1> QED
  BY <1>1, <1>6, <1>8, <1>9, <1>10, <1>12, <1>13, <1>14, <1>15, ServerMoves

\* What the server has done for a request.
LEMMA ServedCall ==
    ASSUME NEW c, c \in SubmitCall \cup PayCall, Served(c)
    PROVE  \E d \in Pending :
             /\ calls' = (calls \ {c}) \cup {d} /\ d.served
             /\ d.op = c.op /\ d.at = c.at /\ d.booking = c.booking
             /\ c \in SubmitCall => d \in SubmitCall /\ d.hold = c.hold /\ d.method = c.method
             /\ c \in PayCall => d \in PayCall /\ d.order = c.order
<1> DEFINE d == [c EXCEPT !.served = TRUE]
<1>1. calls' = (calls \ {c}) \cup {d}
  BY DEF Served
<1>2. CASE c \in SubmitCall
  <2>1. /\ d \in SubmitCall /\ d.op = c.op /\ d.at = c.at /\ d.served /\ d.booking = c.booking
        /\ d.hold = c.hold /\ d.method = c.method
    BY <1>2 DEF SubmitCall
  <2>2. c \notin PayCall /\ d \in Pending
    BY <1>2, <2>1 DEF SubmitCall, PayCall, Pending
  <2> HIDE DEF d
  <2> QED
    BY <1>1, <2>1, <2>2
<1>3. CASE c \in PayCall
  <2>1. /\ d \in PayCall /\ d.op = c.op /\ d.at = c.at /\ d.served /\ d.booking = c.booking
        /\ d.order = c.order
    BY <1>3 DEF PayCall
  <2>2. c \notin SubmitCall /\ d \in Pending
    BY <1>3, <2>1 DEF SubmitCall, PayCall, Pending
  <2> HIDE DEF d
  <2> QED
    BY <1>1, <2>1, <2>2
<1> QED
  BY <1>2, <1>3

LEMMA MarkServed ==
    ASSUME FlowInv, NEW c \in calls, serveProof(c) \/ serveOrder(c),
           UNCHANGED <<mode, url, page, rateBook, checkout, clicks, crossed>>
    PROVE  FlowInv'
<1>1. c \in SubmitCall /\ c.op = "submit" /\ c.at \in {"proof", "order"} /\ CallOK(c)
      /\ Served(c) /\ holds' = holds
  BY CallFields DEF serveProof, serveOrder, FlowInv, FlowTypes, CallRefs
<1>2. PICK d \in Pending :
        /\ calls' = (calls \ {c}) \cup {d} /\ d.served
        /\ d.op = c.op /\ d.at = c.at /\ d.booking = c.booking
        /\ d.hold = c.hold /\ d.method = c.method
  BY <1>1, ServedCall
<1>3. Reserved(c.booking) /\ bookings[c.booking].method = c.method /\ Hold(c.hold)
      /\ (c.method # "ONLINE" => mode.agent)
  BY <1>1 DEF CallOK
<1>4. bookings' = [bookings EXCEPT ![c.booking].proof = TRUE]
      \/ bookings' = [bookings EXCEPT ![c.booking].ordered = TRUE]
  BY DEF serveProof, serveOrder
<1>5. /\ bookings' \in Seq(Booked) /\ Len(bookings') = Len(bookings)
      /\ Grows /\ Server' /\ \A i : Reserved(i)' <=> Reserved(i)
  BY <1>1, <1>3, <1>4, BookingMarked
<1>6. CASE serveProof(c)
  <2>1. c.at = "proof" /\ bookings' = [bookings EXCEPT ![c.booking].proof = TRUE]
    BY <1>6 DEF serveProof
  <2>2. bookings'[c.booking].proof /\ bookings'[c.booking].method = c.method
    BY <1>3, <2>1 DEF Reserved, FlowInv, FlowTypes, Booked
  <2>3. CallOK(d)'
    BY <1>1, <1>2, <1>3, <1>5, <2>1, <2>2 DEF CallOK, Hold
  <2> QED
    BY <1>1, <1>2, <1>5, <2>3, ServerMoves DEF FlowInv, FlowTypes
<1>7. CASE serveOrder(c)
  <2>1. c.at = "order" /\ bookings' = [bookings EXCEPT ![c.booking].ordered = TRUE]
    BY <1>7 DEF serveOrder
  <2>2. bookings'[c.booking].ordered /\ bookings'[c.booking].method = c.method
    BY <1>3, <2>1 DEF Reserved, FlowInv, FlowTypes, Booked
  <2>3. CallOK(d)'
    BY <1>1, <1>2, <1>3, <1>5, <2>1, <2>2 DEF CallOK, Hold
  <2> QED
    BY <1>1, <1>2, <1>5, <2>3, ServerMoves DEF FlowInv, FlowTypes
<1> QED
  BY <1>6, <1>7

LEMMA VerifyServed ==
    ASSUME FlowInv, NEW c \in calls, serveVerify(c),
           UNCHANGED <<mode, url, page, rateBook, checkout, clicks, crossed>>
    PROVE  FlowInv'
<1>1. c \in PayCall /\ c.op = "pay" /\ CallOK(c) /\ Served(c) /\ holds' = holds
      /\ bookings' = [bookings EXCEPT ![c.booking].confirmed = TRUE]
  BY CallFields DEF serveVerify, FlowInv, FlowTypes, CallRefs
<1>2. PICK d \in Pending :
        /\ calls' = (calls \ {c}) \cup {d} /\ d.served
        /\ d.op = c.op /\ d.at = c.at /\ d.booking = c.booking /\ d.order = c.order
  BY <1>1, ServedCall
<1>3. Reserved(c.booking) /\ Reserved(c.order)
  BY <1>1 DEF CallOK
<1>5. /\ bookings' \in Seq(Booked) /\ Len(bookings') = Len(bookings)
      /\ Grows /\ Server' /\ \A i : Reserved(i)' <=> Reserved(i)
  BY <1>1, <1>3, BookingMarked
<1>6. bookings'[c.booking].confirmed
  BY <1>1, <1>3 DEF Reserved, FlowInv, FlowTypes, Booked
<1>7. CallOK(d)'
  BY <1>1, <1>2, <1>3, <1>5, <1>6 DEF CallOK
<1> QED
  BY <1>1, <1>2, <1>5, <1>7, ServerMoves DEF FlowInv, FlowTypes

LEMMA Serves == ASSUME FlowInv, NEW c \in calls, Serve(c) PROVE FlowInv'
BY HoldServed, BookingServed, MarkServed, VerifyServed DEF Serve

LEMMA WebhookKeeps == ASSUME FlowInv, NEW b \in DOMAIN bookings, Webhook(b) PROVE FlowInv'
<1>1. Reserved(b) /\ bookings' = [bookings EXCEPT ![b].confirmed = TRUE]
  BY DEF Webhook, Reserved, FlowInv, FlowTypes
<1> QED
  BY <1>1, BookingMarked, ServerMoves DEF Webhook, FlowInv, FlowTypes

LEMMA ExpireKeeps == ASSUME FlowInv, NEW h \in DOMAIN holds, Expire(h) PROVE FlowInv'
<1>1. holds \in Seq(Held) /\ h \in 1..Len(holds) /\ holds[h] \in Held /\ Len(holds) \in Nat
      /\ holds[h].status = "ACTIVE" /\ bookings \in Seq(Booked) /\ Len(bookings) \in Nat
  BY DEF Expire, FlowInv, FlowTypes
<1>2. PICK x \in Held : /\ x.stay = holds[h].stay /\ x.hotel = holds[h].hotel
                        /\ holds' = [holds EXCEPT ![h] = x]
  BY <1>1 DEF Expire, Held
<1>3. /\ holds' \in Seq(Held) /\ Len(holds') = Len(holds)
      /\ \A i \in 1..Len(holds) : holds'[i] = IF i = h THEN x ELSE holds[i]
  BY <1>1, <1>2, ExceptSeq
<1>4. Grows
  BY <1>1, <1>2, <1>3 DEF Grows, Expire
<1>5. Server'
  <2>1. \A i \in 1..Len(bookings) : bookings[i].hold \in 1..Len(holds) /\ bookings[i].hold # h
    BY <1>1 DEF FlowInv, Server, Hold
  <2> QED
    BY <1>3, <2>1 DEF FlowInv, Server, Hold, Expire
<1> QED
  BY <1>1, <1>3, <1>4, <1>5, ServerMoves DEF Expire
-----------------------------------------------------------------------------
(***************************************************************************)
(* What comes by itself.                                                   *)
(***************************************************************************)

\* The server is as it was, and the requests that are new are in order.
LEMMA Frame ==
    ASSUME FlowInv, UNCHANGED <<mode, holds, bookings, crossed>>,
           \A c \in calls' : c \in calls \/ CallOK(c)
    PROVE  Server' /\ Grows /\ CallRefs' /\ Len(holds') \in Nat /\ Len(bookings') \in Nat
<1>1. Server' /\ Grows /\ Len(holds') \in Nat /\ Len(bookings') \in Nat
  BY ServerSame, Lengths DEF FlowInv
<1>2. CallRefs'
  BY <1>1, CallStays, CallsStay
<1> QED
  BY <1>1, <1>2

LEMMA RateBookLands == ASSUME FlowInv, rateBookLand PROVE FlowInv'
<1>1. UNCHANGED <<mode, url, calls, checkout, holds, bookings, clicks, crossed>>
  BY DEF rateBookLand
<1>2. mode.agent /\ rateBook.asking = page.stay /\ page.stay \in Stay /\ rateBook \in RateBook
      /\ rateBook.eligible \subseteq Hotel /\ rateBook.late \subseteq Stay
  BY DEF rateBookLand, FlowInv, AskingIsCurrent, FlowTypes, Page, RateBook
<1>3. PICK eligible \in {EligibleAt[rateBook.asking], {}} :
        LET d == /\ page.catalog /\ page.hotel # None
                 /\ eligible = EligibleAt[rateBook.asking] /\ page.hotel \notin eligible
        IN  /\ page' = IF ~d THEN page
                       ELSE [page EXCEPT !.hotel = None, !.options = {}, !.selected = NoOption,
                                         !.cart = NoOption,
                                         !.step = IF @ = "confirmation" THEN @ ELSE "hotels"]
            /\ rateBook' = [rateBook EXCEPT !.eligible = eligible,
                                            !.asking = IF d THEN page.stay ELSE None]
  BY Zenon DEF rateBookLand
<1> DEFINE dropped == /\ page.catalog /\ page.hotel # None
                      /\ eligible = EligibleAt[rateBook.asking] /\ page.hotel \notin eligible
<1>4. /\ rateBook' \in RateBook /\ rateBook'.eligible = eligible
      /\ rateBook'.asking = IF dropped THEN page.stay ELSE None
  <2>1. eligible \subseteq Hotel
    BY <1>2, BookingFlowAssumption
  <2> QED
    BY <1>2, <1>3, <2>1 DEF RateBook
<1>5. Server' /\ Grows /\ CallRefs' /\ Len(holds') \in Nat /\ Len(bookings') \in Nat /\ Under' = Under
  BY <1>1, Frame DEF Under
<1>6. /\ page' \in Page /\ page'.stay = page.stay /\ page'.catalog = page.catalog
      /\ page'.hold = page.hold /\ page'.reservation = page.reservation
      /\ page'.order = page.order /\ page'.opened = page.opened /\ page'.busy = page.busy
      /\ dropped => /\ page'.options = {} /\ page'.cart = NoOption
                    /\ page'.step = IF page.step = "confirmation" THEN "confirmation" ELSE "hotels"
      /\ ~dropped => page' = page
  <2>1. CASE dropped
    BY <1>3, <2>1, PageAsIs DEF Page, Step
  <2>2. CASE ~dropped
    BY <1>3, <2>2, PageAsIs
  <2> QED
    BY <2>1, <2>2
<1>7. FlowTypes'
  BY <1>1, <1>4, <1>6 DEF FlowInv, FlowTypes
<1>8. PageRefs'
  BY <1>1, <1>6 DEF FlowInv, PageRefs, Hold, Reserved
<1>9. AskingIsCurrent' /\ RateBookIsCurrent'
  <2>1. CASE dropped
    <3>1. rateBook'.asking = page'.stay /\ rateBook'.asking # None
      BY <2>1, <1>2, <1>4, <1>6, BookingFlowAssumption
    <3> QED
      BY <3>1, <1>1, <1>2 DEF AskingIsCurrent, RateBookIsCurrent
  <2>2. CASE ~dropped
    BY <2>2, <1>1, <1>2, <1>3, <1>4, <1>6 DEF AskingIsCurrent, RateBookIsCurrent
  <2> QED
    BY <2>1, <2>2
<1>10. OptionsMatch' /\ GuestHolds'
  <2>1. CASE dropped
    BY <2>1, <1>6 DEF OptionsMatch, GuestHolds
  <2>2. CASE ~dropped
    BY <2>2, <1>5, <1>6, ShownSame
  <2> QED
    BY <2>1, <2>2
<1>11. OpenedOnce' /\ BusyWaits' /\ OneAtATime'
  <2>1. page'.step = page.step \/ page'.step = "hotels"
    BY <1>6
  <2> QED
    BY <2>1, <1>1, <1>5, <1>6, OpenedSame, StillWaiting
<1>12. Earned'
  BY <1>5, <1>6, EarnedSame
<1> QED
  BY <1>5, <1>7, <1>8, <1>9, <1>10, <1>11, <1>12 DEF FlowInv

LEMMA LateRateBookLands == ASSUME FlowInv, NEW s \in Stay, lateRateBookLand(s) PROVE FlowInv'
<1>1. /\ UNCHANGED <<mode, url, page, calls, checkout, holds, bookings, clicks, crossed>>
      /\ rateBook' = [rateBook EXCEPT !.late = @ \ {s}]
  BY DEF lateRateBookLand
<1>2. rateBook' \in RateBook /\ rateBook'.eligible = rateBook.eligible
      /\ rateBook'.asking = rateBook.asking
  BY <1>1 DEF FlowInv, FlowTypes, RateBook
<1>3. Server' /\ Grows /\ CallRefs' /\ Len(holds') \in Nat /\ Len(bookings') \in Nat /\ Under' = Under
  BY <1>1, Frame DEF Under
<1>4. FlowTypes'
  BY <1>1, <1>2 DEF FlowInv, FlowTypes
<1>5. PageRefs'
  BY <1>1 DEF FlowInv, PageRefs, Hold, Reserved
<1>6. AskingIsCurrent' /\ RateBookIsCurrent'
  BY <1>1, <1>2 DEF FlowInv, AskingIsCurrent, RateBookIsCurrent
<1>7. OptionsMatch' /\ GuestHolds' /\ OpenedOnce' /\ BusyWaits' /\ OneAtATime' /\ Earned'
  BY <1>1, <1>3, ShownSame, OpenedSame, StillWaiting, EarnedSame
<1> QED
  BY <1>3, <1>4, <1>5, <1>6, <1>7 DEF FlowInv

LEMMA HoldClockKeeps == ASSUME FlowInv, HoldClock PROVE FlowInv'
<1>1. /\ UNCHANGED <<mode, url, rateBook, calls, checkout, holds, bookings, clicks, crossed>>
      /\ page' = [page EXCEPT !.holdExpired = TRUE]
  BY DEF HoldClock
<1>2. /\ page' \in Page /\ page'.stay = page.stay /\ page'.hotel = page.hotel
      /\ page'.catalog = page.catalog /\ page'.step = page.step /\ page'.options = page.options
      /\ page'.cart = page.cart /\ page'.hold = page.hold /\ page'.selected = page.selected
      /\ page'.reservation = page.reservation /\ page'.order = page.order
      /\ page'.opened = page.opened /\ page'.busy = page.busy
  BY <1>1, PageAsIs DEF Page
<1>3. Server' /\ Grows /\ CallRefs' /\ Len(holds') \in Nat /\ Len(bookings') \in Nat /\ Under' = Under
  BY <1>1, Frame DEF Under
<1>4. FlowTypes'
  BY <1>1, <1>2 DEF FlowInv, FlowTypes
<1>5. PageRefs'
  BY <1>1, <1>2 DEF FlowInv, PageRefs, Hold, Reserved
<1>6. AskingIsCurrent' /\ RateBookIsCurrent'
  BY <1>1, <1>2, RateBookSame
<1>7. OptionsMatch' /\ GuestHolds' /\ OpenedOnce' /\ BusyWaits' /\ OneAtATime' /\ Earned'
  BY <1>1, <1>2, <1>3, ShownSame, OpenedSame, StillWaiting, EarnedSame
<1> QED
  BY <1>3, <1>4, <1>5, <1>6, <1>7 DEF FlowInv

\* The payment window closes: no request of a user who waits is under way.
LEMMA WindowAlone ==
    ASSUME FlowInv, checkout # Closed, mode.patient
    PROVE  Under = {}
BY DEF FlowInv, OneAtATime

LEMMA PayKeeps == ASSUME FlowInv, Pay PROVE FlowInv'
<1>1. /\ UNCHANGED <<mode, url, rateBook, holds, clicks, crossed>>
      /\ checkout # Closed /\ checkout' = Closed /\ page' = [page EXCEPT !.busy = TRUE]
      /\ bookings' = [bookings EXCEPT ![checkout.order].captured = TRUE]
  BY DEF Pay
<1>2. Reserved(checkout.booking) /\ Reserved(checkout.order)
      /\ checkout.booking \in Nat /\ checkout.order \in Nat
  BY <1>1 DEF FlowInv, PageRefs, FlowTypes
<1>3. /\ bookings' \in Seq(Booked) /\ Len(bookings') = Len(bookings)
      /\ Grows /\ Server' /\ \A i : Reserved(i)' <=> Reserved(i)
  BY <1>1, <1>2, BookingMarked
<1>4. Len(holds') \in Nat /\ Len(bookings') \in Nat
  BY <1>1, <1>3, Lengths DEF FlowInv
<1>5. PICK d \in PayCall : /\ d.op = "pay" /\ d.at = "verify" /\ ~d.served
                           /\ d.booking = checkout.booking /\ d.order = checkout.order
                           /\ calls' = calls \cup {d}
  <2>1. -checkout.order \in Int
    BY <1>2
  <2>2. PICK d : d = Paying([id |-> -checkout.order, booking |-> checkout.booking,
                             order |-> checkout.order])
    OBVIOUS
  <2>3. d \in PayCall /\ d.op = "pay" /\ d.at = "verify" /\ ~d.served
        /\ d.booking = checkout.booking /\ d.order = checkout.order
    BY <1>2, <2>1, <2>2 DEF Paying, PayCall
  <2>4. calls' = calls \cup {d}
    BY <2>2 DEF Pay
  <2> QED
    BY <2>3, <2>4
<1>6. CallOK(d)'
  BY <1>2, <1>3, <1>5 DEF CallOK
<1>7. CallRefs'
  BY <1>3, <1>4, <1>5, <1>6, CallsStay
<1>8. /\ page' \in Page /\ page'.stay = page.stay /\ page'.hotel = page.hotel
      /\ page'.catalog = page.catalog /\ page'.step = page.step /\ page'.options = page.options
      /\ page'.cart = page.cart /\ page'.hold = page.hold /\ page'.selected = page.selected
      /\ page'.reservation = page.reservation /\ page'.order = page.order
      /\ page'.opened = page.opened /\ page'.busy
  BY <1>1, PageAsIs DEF Page
<1>9. FlowTypes'
  BY <1>1, <1>3, <1>5, <1>8 DEF FlowInv, FlowTypes, Pending, Closed
<1>10. PageRefs'
  <2>1. \A b : Reserved(b) /\ bookings[b].ordered => bookings'[b].ordered
    BY <1>3 DEF Grows, Reserved
  <2> QED
    BY <2>1, <1>1, <1>3, <1>8 DEF FlowInv, PageRefs, Hold
<1>11. AskingIsCurrent' /\ RateBookIsCurrent'
  BY <1>1, <1>8, RateBookSame
<1>12. OptionsMatch' /\ GuestHolds' /\ OpenedOnce' /\ Earned'
  BY <1>1, <1>3, <1>4, <1>8, ShownSame, OpenedSame, EarnedSame
<1>13. Under' = Under \cup {d}
  BY <1>5 DEF Under
<1>14. BusyWaits' /\ OneAtATime'
  <2>1. mode.patient => Under' = {d}
    BY <1>1, <1>13, WindowAlone
  <2> QED
    BY <2>1, <1>1, <1>5, <1>8, <1>13 DEF BusyWaits, OneAtATime
<1> QED
  BY <1>3, <1>7, <1>9, <1>10, <1>11, <1>12, <1>14 DEF FlowInv

LEMMA DismissKeeps == ASSUME FlowInv, Dismiss PROVE FlowInv'
<1>1. /\ UNCHANGED <<mode, url, rateBook, calls, holds, bookings, clicks, crossed>>
      /\ checkout # Closed /\ checkout' \in {Closed, checkout}
      /\ page' = [page EXCEPT !.busy = FALSE]
  BY DEF Dismiss
<1>2. /\ page' \in Page /\ page'.stay = page.stay /\ page'.hotel = page.hotel
      /\ page'.catalog = page.catalog /\ page'.step = page.step /\ page'.options = page.options
      /\ page'.cart = page.cart /\ page'.hold = page.hold /\ page'.selected = page.selected
      /\ page'.reservation = page.reservation /\ page'.order = page.order
      /\ page'.opened = page.opened /\ ~page'.busy
  BY <1>1, PageAsIs DEF Page
<1>3. Server' /\ Grows /\ CallRefs' /\ Len(holds') \in Nat /\ Len(bookings') \in Nat /\ Under' = Under
  BY <1>1, Frame DEF Under
<1>4. FlowTypes'
  BY <1>1, <1>2 DEF FlowInv, FlowTypes, Closed
<1>5. PageRefs'
  BY <1>1, <1>2 DEF FlowInv, PageRefs, Hold, Reserved
<1>6. AskingIsCurrent' /\ RateBookIsCurrent'
  BY <1>1, <1>2, RateBookSame
<1>7. OptionsMatch' /\ GuestHolds' /\ OpenedOnce' /\ Earned'
  BY <1>1, <1>2, <1>3, ShownSame, OpenedSame, EarnedSame
<1>8. BusyWaits' /\ OneAtATime'
  BY <1>1, <1>2, <1>3, WindowAlone DEF BusyWaits, OneAtATime
<1> QED
  BY <1>3, <1>4, <1>5, <1>6, <1>7, <1>8 DEF FlowInv
-----------------------------------------------------------------------------
(***************************************************************************)
(* What the user does.                                                     *)
(***************************************************************************)

LEMMA Clicks ==
    ASSUME FlowInv, Click
    PROVE  /\ UNCHANGED <<mode, checkout, holds, bookings, crossed>> /\ clicks' \in Nat
           /\ checkout = Closed /\ (mode.patient => ~page.busy)
BY DEF Click, FlowInv, FlowTypes

\* The form is edited: the page goes back to the search.
LEMMA FormEdited ==
    ASSUME FlowInv, Click, UNCHANGED <<url, calls>>, AskAgain(FormChanged),
           page' \in Page, page'.step = "search", page'.catalog = page.catalog,
           page'.busy = page.busy, page'.hold \in {0, page.hold},
           page'.reservation = page.reservation, page'.order = page.order,
           page'.cart \in page'.options \cup {NoOption},
           mode.agent => page'.options = {}
    PROVE  FlowInv'
<1>1. UNCHANGED <<mode, checkout, holds, bookings, crossed>> /\ clicks' \in Nat
      /\ (mode.patient => ~page.busy)
  BY Clicks
<1>2. Server' /\ Grows /\ CallRefs' /\ Len(holds') \in Nat /\ Len(bookings') \in Nat /\ Under' = Under
  BY <1>1, Frame DEF Under
<1>3. rateBook' \in RateBook /\ AskingIsCurrent' /\ RateBookIsCurrent'
  <2>1. FormChanged \in BOOLEAN
    BY DEF FormChanged
  <2>2. ~FormChanged => page'.stay = page.stay /\ page'.hotel = page.hotel
    BY DEF FormChanged, Form
  <2> QED
    BY <1>1, <2>1, <2>2, AskedAgain
<1>4. FlowTypes'
  BY <1>1, <1>3 DEF FlowInv, FlowTypes
<1>5. PageRefs'
  BY <1>1 DEF FlowInv, PageRefs, Hold, Reserved
<1>6. OptionsMatch' /\ GuestHolds'
  BY <1>1 DEF OptionsMatch, GuestHolds
<1>7. OpenedOnce' /\ Earned'
  BY <1>1, <1>2, OpenedSame, EarnedSame
<1>8. BusyWaits' /\ OneAtATime'
  BY <1>1, <1>2, AsksNothing
<1> QED
  BY <1>2, <1>3, <1>4, <1>5, <1>6, <1>7, <1>8 DEF FlowInv

\* Something is asked for the form as it is.
LEMMA Asks ==
    ASSUME FlowInv, Click, url' \in Search, rateBook' = rateBook,
           NEW n \in Pending, NEW more \in SUBSET HotelsCall, calls' = calls \cup {n} \cup more,
           n.op # "hotels", CallOK(n), n.op = "submit" => page'.step = "guest" /\ n.at = "book",
           page' \in Page, page'.busy, page'.stay = page.stay, page'.hotel = page.hotel,
           page'.catalog = page.catalog, page'.options = page.options,
           page'.cart \in {NoOption, page.cart}, page'.hold \in {0, page.hold},
           page'.reservation = page.reservation, page'.order = page.order,
           \/ /\ page'.step = page.step /\ page'.hold = page.hold
              /\ page'.selected = page.selected /\ page'.opened = page.opened
           \/ page'.step = "search"
    PROVE  FlowInv'
<1>1. UNCHANGED <<mode, checkout, holds, bookings, crossed>> /\ clicks' \in Nat
      /\ checkout = Closed /\ (mode.patient => ~page.busy)
  BY Clicks
<1>2. \A c \in more : c.op = "hotels" /\ c \in Pending /\ CallOK(c)
  BY DEF HotelsCall, Pending, CallOK
<1>3. Server' /\ Grows /\ CallRefs' /\ Len(holds') \in Nat /\ Len(bookings') \in Nat
  BY <1>1, <1>2, Frame
<1>4. FlowTypes'
  BY <1>1, <1>2 DEF FlowInv, FlowTypes
<1>5. PageRefs'
  BY <1>1 DEF FlowInv, PageRefs, Hold, Reserved
<1>6. AskingIsCurrent' /\ RateBookIsCurrent'
  BY <1>1, RateBookSame
<1>7. OptionsMatch' /\ GuestHolds'
  BY <1>3, ShownSame
<1>8. OpenedOnce' /\ Earned'
  BY <1>1, <1>3, OpenedSame, EarnedSame
<1>9. Under' = Under \cup {n}
  BY <1>2 DEF Under
<1>10. BusyWaits' /\ OneAtATime'
  BY <1>1, <1>9, AsksOne
<1> QED
  BY <1>3, <1>4, <1>5, <1>6, <1>7, <1>8, <1>10 DEF FlowInv

LEMMA HotelKeeps == ASSUME FlowInv, NEW h \in Hotel, selectHotel(h) PROVE FlowInv'
<1>1. Click /\ UNCHANGED <<url, calls>> /\ AskAgain(FormChanged)
  BY DEF selectHotel
<1>2. CASE mode.agent
  <2>1. PICK p \in Page : p = Cleared(page)
    BY PageAsIs, ClearedPage
  <2>2. page' = [p EXCEPT !.hotel = h, !.step = "search"]
    BY <1>2, <2>1 DEF selectHotel
  <2>3. /\ page' \in Page /\ page'.step = "search" /\ page'.catalog = p.catalog
        /\ page'.busy = p.busy /\ page'.hold = p.hold
        /\ page'.reservation = p.reservation /\ page'.order = p.order
        /\ page'.cart = p.cart /\ page'.options = p.options
    BY <2>2 DEF Page, Step
  <2> QED
    BY <1>1, <2>1, <2>3, PageAsIs, ClearedPage, FormEdited
<1>3. CASE ~mode.agent
  <2>1. page' = [page EXCEPT !.hotel = h] /\ page.step = "search"
    BY <1>3 DEF selectHotel
  <2>2. /\ page' \in Page /\ page'.step = "search" /\ page'.catalog = page.catalog
        /\ page'.busy = page.busy /\ page'.hold = page.hold
        /\ page'.reservation = page.reservation /\ page'.order = page.order
        /\ page'.cart = page.cart /\ page'.options = page.options
    BY <2>1, PageAsIs DEF Page, Step
  <2> QED
    BY <1>1, <1>3, <2>2, FormEdited DEF FlowInv, PageRefs
<1> QED
  BY <1>2, <1>3

LEMMA DatesKeep == ASSUME FlowInv, NEW s \in Stay, updateDates(s) PROVE FlowInv'
<1>1. Click /\ UNCHANGED <<url, calls>> /\ AskAgain(FormChanged)
  BY DEF updateDates
<1>2. CASE mode.agent
  <2>1. PICK p \in Page : p = Cleared(page)
    BY PageAsIs, ClearedPage
  <2>2. page' = [p EXCEPT !.stay = s, !.step = "search"]
    BY <1>2, <2>1 DEF updateDates
  <2>3. /\ page' \in Page /\ page'.step = "search" /\ page'.catalog = p.catalog
        /\ page'.busy = p.busy /\ page'.hold = p.hold
        /\ page'.reservation = p.reservation /\ page'.order = p.order
        /\ page'.cart = p.cart /\ page'.options = p.options
    BY <2>2 DEF Page, Step
  <2> QED
    BY <1>1, <2>1, <2>3, PageAsIs, ClearedPage, FormEdited
<1>3. CASE ~mode.agent
  <2>1. page' = [page EXCEPT !.stay = s] /\ page.step = "search"
    BY <1>3 DEF updateDates
  <2>2. /\ page' \in Page /\ page'.step = "search" /\ page'.catalog = page.catalog
        /\ page'.busy = page.busy /\ page'.hold = page.hold
        /\ page'.reservation = page.reservation /\ page'.order = page.order
        /\ page'.cart = page.cart /\ page'.options = page.options
    BY <2>1, PageAsIs DEF Page, Step
  <2> QED
    BY <1>1, <1>3, <2>2, FormEdited DEF FlowInv, PageRefs
<1> QED
  BY <1>2, <1>3

\* A search puts the form in the address bar.
LEMMA Searches ==
    ASSUME FlowInv, Click, NEW p \in Page, searchBooking(p),
           \/ p = page
           \/ /\ p.step = "search" /\ p.hold = 0 /\ p.cart = NoOption
              /\ p.stay = page.stay /\ p.hotel = page.hotel /\ p.catalog = page.catalog
              /\ p.options = page.options /\ p.reservation = page.reservation
              /\ p.order = page.order
    PROVE  FlowInv'
<1>1. /\ page.stay \in Stay /\ page.hotel \in Hotel \cup {None} /\ clicks' \in Nat
      /\ Form(page) \in Search /\ Form(page).hotel = page.hotel
  BY PageAsIs, Clicks DEF Page, Form, Search
<1>2. url' \in Search
  BY <1>1 DEF searchBooking, Search
<1>3. PICK n : n = [op |-> "search", id |-> clicks', search |-> Form(page)]
  OBVIOUS
<1>4. n \in SearchCall /\ n.op = "search" /\ n.search = Form(page)
  BY <1>1, <1>3 DEF SearchCall
<1>5. CallOK(n)
  BY <1>1, <1>4 DEF CallOK, searchBooking
<1>6. PICK more \in SUBSET HotelsCall : calls' = calls \cup {n} \cup more
  <2>1. [op |-> "hotels", id |-> clicks', search |-> url'] \in HotelsCall
    BY <1>1, <1>2 DEF HotelsCall
  <2>2. calls' = calls \cup {n} \cup (IF url' = url THEN {}
                                     ELSE {[op |-> "hotels", id |-> clicks', search |-> url']})
    BY <1>3 DEF searchBooking
  <2> QED
    BY <2>1, <2>2
<1>7. page' = [p EXCEPT !.busy = TRUE] /\ rateBook' = rateBook
  BY DEF searchBooking
<1>8. /\ page' \in Page /\ page'.busy /\ page'.stay = p.stay /\ page'.hotel = p.hotel
      /\ page'.catalog = p.catalog /\ page'.options = p.options /\ page'.cart = p.cart
      /\ page'.hold = p.hold /\ page'.reservation = p.reservation /\ page'.order = p.order
      /\ page'.step = p.step /\ page'.selected = p.selected /\ page'.opened = p.opened
  BY <1>7 DEF Page
<1>9. n \in Pending
  BY <1>4 DEF Pending
<1>10. /\ page'.stay = page.stay /\ page'.hotel = page.hotel /\ page'.catalog = page.catalog
       /\ page'.options = page.options /\ page'.cart \in {NoOption, page.cart}
       /\ page'.hold \in {0, page.hold}
       /\ page'.reservation = page.reservation /\ page'.order = page.order
       /\ \/ /\ page'.step = page.step /\ page'.hold = page.hold
             /\ page'.selected = page.selected /\ page'.opened = page.opened
          \/ page'.step = "search"
  BY <1>8
<1>11. n.op # "hotels" /\ n.op # "submit" /\ page' \in Page /\ page'.busy /\ rateBook' = rateBook
  BY <1>4, <1>7, <1>8
<1> QED
  BY <1>2, <1>5, <1>6, <1>9, <1>10, <1>11, Asks

LEMMA BookKeeps == ASSUME FlowInv, Book PROVE FlowInv'
BY PageAsIs, Searches DEF Book

LEMMA RecheckKeeps == ASSUME FlowInv, recheckAvailability PROVE FlowInv'
<1>1. PICK p : p = [page EXCEPT !.hold = 0, !.holdExpired = FALSE, !.selected = NoOption,
                                !.cart = NoOption, !.step = "search"]
  OBVIOUS
<1>2. /\ p \in Page /\ p.step = "search" /\ p.hold = 0 /\ p.cart = NoOption
      /\ p.stay = page.stay /\ p.hotel = page.hotel /\ p.catalog = page.catalog
      /\ p.options = page.options /\ p.reservation = page.reservation
      /\ p.order = page.order
  BY <1>1, PageAsIs DEF Page, Step
<1>3. Click /\ searchBooking(p)
  BY <1>1 DEF recheckAvailability
<1> QED
  BY <1>2, <1>3, Searches

\* Only the cart changes, or the step an agent goes back to.
LEMMA Looks ==
    ASSUME FlowInv, Click, UNCHANGED <<url, rateBook, calls>>, mode.agent,
           page' \in Page, page'.stay = page.stay, page'.hotel = page.hotel,
           page'.catalog = page.catalog, page'.step = "room", page'.options = page.options,
           page'.cart \in page.options \cup {NoOption}, page'.hold = page.hold,
           page'.reservation = page.reservation, page'.order = page.order, page'.busy = page.busy
    PROVE  FlowInv'
<1>1. UNCHANGED <<mode, checkout, holds, bookings, crossed>> /\ clicks' \in Nat
      /\ (mode.patient => ~page.busy)
  BY Clicks
<1>2. Server' /\ Grows /\ CallRefs' /\ Len(holds') \in Nat /\ Len(bookings') \in Nat /\ Under' = Under
  BY <1>1, Frame DEF Under
<1>3. FlowTypes'
  BY <1>1 DEF FlowInv, FlowTypes
<1>4. PageRefs'
  BY <1>1 DEF FlowInv, PageRefs, Hold, Reserved
<1>5. AskingIsCurrent' /\ RateBookIsCurrent'
  BY <1>1, RateBookSame
<1>6. OptionsMatch' /\ GuestHolds' /\ OpenedOnce' /\ Earned'
  BY <1>1, <1>2, ShownSame, OpenedSame, EarnedSame
<1>7. BusyWaits' /\ OneAtATime'
  BY <1>1, <1>2, AsksNothing
<1> QED
  BY <1>2, <1>3, <1>4, <1>5, <1>6, <1>7 DEF FlowInv

LEMMA TariffKeeps == ASSUME FlowInv, ShowTariff PROVE FlowInv'
<1>1. Click /\ mode.agent /\ page' = [page EXCEPT !.step = "room"] /\ UNCHANGED <<url, rateBook, calls>>
  BY DEF ShowTariff
<1>2. /\ page' \in Page /\ page'.stay = page.stay /\ page'.hotel = page.hotel
      /\ page'.catalog = page.catalog /\ page'.step = "room" /\ page'.options = page.options
      /\ page'.cart = page.cart /\ page'.hold = page.hold
      /\ page'.reservation = page.reservation /\ page'.order = page.order /\ page'.busy = page.busy
  BY <1>1, PageAsIs DEF Page, Step
<1> QED
  BY <1>1, <1>2, Looks DEF FlowInv, PageRefs

LEMMA CartKeeps == ASSUME FlowInv, NEW o \in Option, toggleCartOption(o) PROVE FlowInv'
<1>1. /\ Click /\ mode.agent /\ page.step = "room" /\ o \in page.options
      /\ UNCHANGED <<url, rateBook, calls>>
  BY DEF toggleCartOption
<1>2. PICK cart \in {o, NoOption} : page' = [page EXCEPT !.cart = cart]
  BY DEF toggleCartOption
<1>3. /\ page' \in Page /\ page'.stay = page.stay /\ page'.hotel = page.hotel
      /\ page'.catalog = page.catalog /\ page'.step = "room" /\ page'.options = page.options
      /\ page'.cart = cart /\ page'.hold = page.hold
      /\ page'.reservation = page.reservation /\ page'.order = page.order /\ page'.busy = page.busy
  BY <1>1, <1>2, PageAsIs DEF Page
<1> QED
  BY <1>1, <1>3, Looks

\* The page asks for what it shows, and is busy.
LEMMA AsksFor ==
    ASSUME FlowInv, Click, UNCHANGED <<url, rateBook>>, page' = [page EXCEPT !.busy = TRUE],
           NEW n \in Pending, calls' = calls \cup {n}, n.op # "hotels", CallOK(n),
           n.op = "submit" => page.step = "guest" /\ n.at = "book"
    PROVE  FlowInv'
<1>1. /\ page' \in Page /\ page'.busy /\ page'.stay = page.stay /\ page'.hotel = page.hotel
      /\ page'.catalog = page.catalog /\ page'.options = page.options /\ page'.cart = page.cart
      /\ page'.hold = page.hold /\ page'.reservation = page.reservation
      /\ page'.order = page.order /\ page'.step = page.step
      /\ page'.selected = page.selected /\ page'.opened = page.opened
  BY PageAsIs DEF Page
<1>2. url' \in Search /\ {} \in SUBSET HotelsCall /\ calls' = calls \cup {n} \cup {}
  BY DEF FlowInv, FlowTypes
<1> QED
  BY <1>1, <1>2, Asks

LEMMA CreateHoldKeeps == ASSUME FlowInv, NEW o \in Option, createHold(o) PROVE FlowInv'
<1>1. /\ Click /\ page.step = "room" /\ page' = [page EXCEPT !.busy = TRUE]
      /\ UNCHANGED <<url, rateBook>>
  BY DEF createHold
<1>2. o \in page.options
  <2>1. o # NoOption
    BY BookingFlowAssumption DEF Option, NoOption
  <2> QED
    BY <2>1 DEF createHold, FlowInv, PageRefs
<1>3. page.stay \in Stay /\ clicks' \in Nat
  BY <1>1, PageAsIs, Clicks DEF Page
<1>4. PICK n : n = [op |-> "hold", id |-> clicks', stay |-> page.stay, option |-> o, hold |-> 0]
  OBVIOUS
<1>5. n \in HoldCall /\ n.op = "hold" /\ n.hold = 0 /\ n.option = o /\ n.stay = page.stay
      /\ calls' = calls \cup {n}
  BY <1>3, <1>4 DEF HoldCall, createHold
<1>6. ~crossed => o.stay = page.stay
  BY <1>1, <1>2 DEF FlowInv, OptionsMatch
<1>7. CallOK(n) /\ n \in Pending
  BY <1>5, <1>6 DEF CallOK, Pending
<1> QED
  BY <1>1, <1>5, <1>7, AsksFor

LEMMA SubmitKeeps == ASSUME FlowInv, NEW m \in Method, submitGuest(m) PROVE FlowInv'
<1>1. /\ Click /\ page.step = "guest" /\ page.hold # 0 /\ page' = [page EXCEPT !.busy = TRUE]
      /\ UNCHANGED <<url, rateBook>> /\ (m # "ONLINE" => mode.agent)
  BY DEF submitGuest
<1>2. Hold(page.hold) /\ page.hold \in Nat /\ clicks' \in Nat
  BY <1>1, PageAsIs, Clicks DEF Page, FlowInv, PageRefs
<1>4. PICK n : n = [op |-> "submit", id |-> clicks', at |-> "book", hold |-> page.hold,
                    method |-> m, booking |-> 0, served |-> FALSE]
  OBVIOUS
<1>5. n \in SubmitCall /\ n.op = "submit" /\ n.at = "book" /\ n.hold = page.hold /\ n.method = m
      /\ ~n.served /\ calls' = calls \cup {n}
  BY <1>2, <1>4 DEF SubmitCall, submitGuest
<1>6. CallOK(n) /\ n \in Pending
  BY <1>1, <1>2, <1>5 DEF CallOK, Pending
<1> QED
  BY <1>1, <1>5, <1>6, AsksFor

LEMMA PaymentKeeps == ASSUME FlowInv, completePayment PROVE FlowInv'
<1>1. /\ Click /\ page.reservation # 0 /\ page.order # 0 /\ page' = [page EXCEPT !.busy = TRUE]
      /\ UNCHANGED <<url, rateBook>>
  BY DEF completePayment
<1>2. /\ Reserved(page.reservation) /\ Reserved(page.order) /\ clicks' \in Nat
      /\ page.reservation \in Nat /\ page.order \in Nat
  BY <1>1, PageAsIs, Clicks DEF Page
<1>3. PICK n : n = IF mode.mock THEN Paying(Opening(page, clicks')) ELSE Opening(page, clicks')
  OBVIOUS
<1>4. /\ n \in OpenCall \cup PayCall /\ n.op \in {"open", "pay"}
      /\ n.booking = page.reservation /\ n.order = page.order
      /\ n.op = "pay" => ~n.served /\ n.at = "verify"
  BY <1>2, <1>3 DEF Opening, Paying, OpenCall, PayCall
<1>5. calls' = calls \cup {n}
  BY <1>3 DEF completePayment
<1>6. CallOK(n) /\ n \in Pending
  BY <1>2, <1>4 DEF CallOK, Pending
<1> QED
  BY <1>1, <1>4, <1>5, <1>6, AsksFor

LEMMA Uses == ASSUME FlowInv, User PROVE FlowInv'
BY HotelKeeps, DatesKeep, BookKeeps, RecheckKeeps, TariffKeeps, PaymentKeeps, CartKeeps,
   CreateHoldKeeps, SubmitKeeps DEF User, Method
-----------------------------------------------------------------------------
LEMMA InitFlow == ASSUME Init PROVE FlowInv
<1>1. /\ mode \in [agent : BOOLEAN, patient : BOOLEAN, mock : BOOLEAN] /\ url \in Search
      /\ checkout = Closed /\ holds = <<>> /\ bookings = <<>> /\ clicks = 0 /\ crossed = FALSE
  BY DEF Init
<1>2. /\ page \in Page /\ page.stay = Default /\ page.step \in {"hotels", "search"}
      /\ ~page.catalog /\ page.options = {} /\ page.cart = NoOption /\ page.hold = 0
      /\ page.reservation = 0 /\ page.order = 0 /\ ~page.busy
  BY BookingFlowAssumption DEF Init, Page, Step
<1>3. rateBook \in RateBook /\ rateBook.asking = IF mode.agent THEN Default ELSE None
  <2>1. Asked(page) = (IF mode.agent THEN Default ELSE None)
    BY <1>2 DEF Asked
  <2> QED
    BY <2>1, BookingFlowAssumption DEF Init, RateBook
<1>4. PICK c : c = [op |-> "hotels", id |-> 0, search |-> url]
  OBVIOUS
<1>5. calls = {c} /\ c \in HotelsCall /\ c.op = "hotels"
  BY <1>1, <1>4 DEF Init, HotelsCall
<1>6. FlowTypes
  BY <1>1, <1>2, <1>3, <1>5 DEF FlowTypes, Pending, Closed
<1>7. Server /\ Under = {} /\ CallRefs
  BY <1>1, <1>5 DEF Server, Under, CallRefs, CallOK
<1>8. PageRefs /\ OptionsMatch /\ GuestHolds /\ OpenedOnce /\ BusyWaits /\ OneAtATime /\ Earned
  BY <1>1, <1>2, <1>7 DEF PageRefs, OptionsMatch, GuestHolds, OpenedOnce, BusyWaits, OneAtATime, Earned
<1>9. AskingIsCurrent /\ RateBookIsCurrent
  BY <1>2, <1>3, BookingFlowAssumption DEF AskingIsCurrent, RateBookIsCurrent
<1> QED
  BY <1>6, <1>7, <1>8, <1>9 DEF FlowInv

LEMMA StutterFlow == ASSUME FlowInv, UNCHANGED vars PROVE FlowInv'
<1>1. UNCHANGED <<mode, url, page, rateBook, calls, checkout, holds, bookings, clicks, crossed>>
  BY DEF vars
<1>2. Server' /\ Grows
  BY <1>1, ServerSame
<1> QED
  BY <1>1, <1>2, ServerMoves DEF FlowInv, FlowTypes

LEMMA StepFlow == ASSUME FlowInv, [Next]_vars PROVE FlowInv'
BY Uses, Serves, Lands, RateBookLands, LateRateBookLands, HoldClockKeeps, PayKeeps, DismissKeeps,
   ExpireKeeps, WebhookKeeps, StutterFlow DEF Next

\* Whatever is asked, answered, refused or lost, and in whatever order, the page,
\* the requests under way and the server's bookings fit each other.
THEOREM FlowHolds == Spec => []FlowInv
<1>1. Init => FlowInv
  BY InitFlow
<1>2. FlowInv /\ [Next]_vars => FlowInv'
  BY StepFlow
<1> QED
  BY <1>1, <1>2, PTL DEF Spec

LEMMA FlowShown == ASSUME FlowInv PROVE BookingFlowTypeOK /\ ShownIsHeld
<1>1. Len(holds) \in Nat /\ Len(bookings) \in Nat
  BY Lengths DEF FlowInv
<1>2. BookingFlowTypeOK
  <2>1. /\ page \in Page /\ rateBook \in RateBook /\ url \in Search /\ clicks \in Nat
        /\ bookings \in Seq(Booked) /\ DOMAIN bookings = 1..Len(bookings)
    BY DEF FlowInv, FlowTypes
  <2>2. page.hold \in 0..Len(holds) /\ page.reservation \in 0..Len(bookings)
    BY <1>1, <2>1 DEF FlowInv, PageRefs, Hold, Reserved, Page
  <2>3. page.cart \in page.options \cup {NoOption}
        /\ (page.order # 0 => bookings[page.order].ordered)
    BY DEF FlowInv, PageRefs
  <2>4. \A i, j \in DOMAIN bookings : i # j => bookings[i].hold # bookings[j].hold
    BY <2>1 DEF FlowInv, Server
  <2>5. /\ page.stay \in Stay /\ page.hotel \in Hotel \cup {None} /\ page.step \in Step
        /\ page.options \subseteq Option /\ page.selected \in Option \cup {NoOption}
    BY <2>1 DEF Page
  <2>6. rateBook.eligible \subseteq Hotel /\ rateBook.asking \in Stay \cup {None}
    BY <2>1 DEF RateBook
  <2> QED
    BY <2>1, <2>2, <2>3, <2>4, <2>5, <2>6 DEF BookingFlowTypeOK, Step
<1>3. ShownIsHeld
  BY DEF FlowInv, OptionsMatch, GuestHolds, ShownIsHeld
<1> QED
  BY <1>2, <1>3

\* What the page shows belongs together, however the form changes while
\* requests are under way (BookingFlow.tsx:402-554).
THEOREM PageHolds == Spec => []PageIsConsistent
<1>1. FlowInv => PageIsConsistent
  BY FlowShown DEF PageIsConsistent, FlowInv
<1> QED
  BY <1>1, FlowHolds, PTL

\* A user who waits is told of a confirmation only if it was earned
\* (BookingFlow.tsx:596-613, 709).
THEOREM ConfirmationHolds == Spec => []ConfirmationIsEarned
<1>1. FlowInv => ConfirmationIsEarned
  BY DEF FlowInv, Earned, ConfirmationIsEarned
<1> QED
  BY <1>1, FlowHolds, PTL

\* A busy page waits for a request that will release it (BookingFlow.tsx:520-670).
THEOREM BusyHolds == Spec => []BusyIsReleased
<1>1. FlowInv => BusyIsReleased
  <2> SUFFICES ASSUME FlowInv, page.busy
               PROVE  \E c \in calls : c.op \in {"search", "hold", "submit", "pay", "open"}
    BY DEF BusyIsReleased
  <2>1. PICK c \in calls : c.op # "hotels"
    BY DEF FlowInv, BusyWaits, Under
  <2> QED
    BY <2>1, CallFields DEF FlowInv, FlowTypes
<1> QED
  BY <1>1, FlowHolds, PTL

-----------------------------------------------------------------------------
(***************************************************************************)
(* BanquetDesk: the orders, the drafts and the requests that save them.    *)
(***************************************************************************)

\* What an order or a draft of it may say, and what the page may have seen.
Text == Wording \cup {Blank, Proposed}
Drafted == [text : Text, ack : BOOLEAN]
Ordered == [status : {"MISSING", "DRAFT", "FINAL"}, text : Text, ack : BOOLEAN, rows : Nat]
Shown == [event : BanquetEvent \cup {Nobody}, seen : [Fn -> Ordered], active : Fn \cup {Nobody},
          tab : {"overview", "functions", "beo"}, drafts : [Fn -> Drafted \cup {NoDraft}],
          dirty : SUBSET Fn, busy : BOOLEAN]

\* Requests, and the steps that are left of them.
Op == {"open", "switch", "create", "save", "finalize", "acknowledge", "event", "saveFunction",
       "cancelFunction"}
Steps == {<<"open">>, <<"patch">>, <<"patch", "open">>, <<"post", "open">>,
          <<"patch", "finalize", "open">>, <<"finalize", "open">>, <<"acknowledge", "open">>,
          <<"change", "open">>}
Sent == [op : Op, id : Int, event : BanquetEvent, fn : Fn \cup {Nobody}, steps : Steps,
         draft : Drafted, served : BOOLEAN, seen : [Fn -> Ordered], to : Fn \cup {Nobody}]
StepsOK(c) ==
    /\ c.op = "switch" <=> c.steps = <<"patch">>
    /\ c.op = "create" => c.steps \in {<<"post", "open">>, <<"open">>}
    /\ c.steps = <<"post", "open">> => c.op = "create"
    /\ Head(c.steps) = "patch" => c.op \in {"switch", "save", "finalize"}

DeskTypes ==
    /\ waits \in BOOLEAN /\ acts \in Nat /\ others \in Nat /\ parted \subseteq Fn
    /\ order \in [Fn -> Ordered] /\ shown \in Shown
    /\ sent \subseteq Sent /\ \A c \in sent : StepsOK(c)

Missing == \A f \in Fn : order[f].status = "MISSING" => order[f].text = Blank

\* Where there is no draft, what was seen is what is saved.
NoneIn(f) == shown.drafts[f] = NoDraft
Fresh(seen, e) == \A f \in FnIn(e) \ parted : NoneIn(f) => seen[f].text = order[f].text

\* A draft that is being saved is what the page shows, or was not changed and
\* is a proposal for an order of which nothing is saved.
Patches(c) == Head(c.steps) = "patch"
Saves(c) ==
    /\ ~NoneIn(c.fn)
    /\ \/ shown.drafts[c.fn].text = c.draft.text
       \/ /\ c.fn \notin shown.dirty
          /\ shown.drafts[c.fn].text = Proposed /\ c.draft.text = Blank
    /\ c.served => order[c.fn].text = c.draft.text
SentOK(c) ==
    /\ c.op \in {"save", "finalize", "acknowledge", "create"} => c.fn \in FnIn(c.event)
    /\ c.op = "switch" => c.fn \in Fn /\ c.to \in FnIn(c.event)
    /\ c.op \in {"save", "finalize", "acknowledge"} \/ (c.op = "create" /\ Head(c.steps) = "open")
         => c.fn \in parted \/ ~NoneIn(c.fn)
    /\ c.op = "switch" \/ (Head(c.steps) = "open" /\ c.served) => Fresh(c.seen, c.event)
    /\ Patches(c) /\ c.fn \notin parted => Saves(c)

DirtyDrafts == \A f \in shown.dirty : ~NoneIn(f)
SentOrders == \A c \in sent : SentOK(c)
OneWriter ==
    \A c, d \in sent : Patches(c) /\ Patches(d) /\ c.fn = d.fn /\ c.fn \notin parted => c = d
PageFresh == Fresh(shown.seen, shown.event)
Chosen == shown.active \in FnIn(shown.event) \cup {Nobody} \/ FnIn(shown.event) \subseteq parted

DeskInv ==
    /\ DeskTypes /\ Missing /\ DirtyDrafts /\ SentOrders /\ OneWriter /\ PageFresh /\ Chosen
    /\ DraftsAreSaved /\ OrderIsLoaded

-----------------------------------------------------------------------------
\* The steps of a request, one after the other.
LEMMA StepsAre ==
    /\ Head(<<"open">>) = "open" /\ Head(<<"patch">>) = "patch"
    /\ Head(<<"patch", "open">>) = "patch" /\ Head(<<"post", "open">>) = "post"
    /\ Head(<<"patch", "finalize", "open">>) = "patch"
    /\ Head(<<"finalize", "open">>) = "finalize"
    /\ Head(<<"acknowledge", "open">>) = "acknowledge" /\ Head(<<"change", "open">>) = "change"
    /\ Tail(<<"patch", "open">>) = <<"open">> /\ Tail(<<"post", "open">>) = <<"open">>
    /\ Tail(<<"patch", "finalize", "open">>) = <<"finalize", "open">>
    /\ Tail(<<"finalize", "open">>) = <<"open">> /\ Tail(<<"acknowledge", "open">>) = <<"open">>
    /\ Tail(<<"change", "open">>) = <<"open">>
OBVIOUS

LEMMA StepsDiffer ==
    /\ <<"patch">> # <<"patch", "open">> /\ <<"patch">> # <<"patch", "finalize", "open">>
    /\ <<"open">> # <<"patch">> /\ <<"finalize", "open">> # <<"patch">>
    /\ <<"post", "open">> # <<"open">> /\ <<"post", "open">> # <<"finalize", "open">>
OBVIOUS

\* An order is being written as long as the request's first step is left.
LEMMA WritingIs ==
    ASSUME DeskTypes, NEW f
    PROVE  Writing(f) <=> \E c \in sent : c.fn = f /\ Patches(c)
<1>1. ASSUME NEW c \in sent
      PROVE  (\E i \in DOMAIN c.steps : c.steps[i] = "patch") <=> Patches(c)
  <2>1. c.steps \in Steps
    BY DEF DeskTypes, Sent
  <2>2. \A s \in Steps : (\E i \in DOMAIN s : s[i] = "patch") <=> Head(s) = "patch"
    BY DEF Steps
  <2> QED
    BY <2>1, <2>2 DEF Patches
<1> QED
  BY <1>1 DEF Writing

\* The functions of an event.
LEMMA FnsAre ==
    /\ \A e : FnIn(e) \subseteq Fn
    /\ \A e \in BanquetEvent : First(e) \in FnIn(e) \cup {Nobody}
    /\ FnIn(Nobody) = {} /\ Nobody \notin Fn /\ First(Nobody) = Nobody
<1>1. \A e : FnIn(e) \subseteq Fn
  BY DEF FnIn, Fn
<1>2. ASSUME NEW e \in BanquetEvent, FnIn(e) # {}
      PROVE  FnsOf[e][1] \in FnIn(e)
  <2>1. FnsOf[e] \in Seq(Fn)
    BY BanquetDeskAssumption
  <2>2. PICK i \in DOMAIN FnsOf[e] : TRUE
    BY <1>2 DEF FnIn
  <2>3. 1 \in DOMAIN FnsOf[e]
    BY <2>1, <2>2
  <2> QED
    BY <2>3 DEF FnIn
<1> QED
  BY <1>1, <1>2, BanquetDeskAssumption DEF FnIn, First

\* The function shown is one of the event's, if there is any.
LEMMA ActiveIs ==
    ASSUME DeskTypes
    PROVE  activeFunction \in FnIn(shown.event) \cup {Nobody}
BY FnsAre DEF activeFunction, DeskTypes, Shown

LEMMA DraftsAre ==
    /\ emptyBeo \in Drafted /\ NoDraft \notin Drafted
    /\ emptyBeo.text = Proposed /\ emptyBeo # NoDraft
    /\ \A o \in Ordered : toBeoDraft(o) \in Drafted /\ toBeoDraft(o).text = o.text
    /\ NoOrder \in Ordered /\ NoOrder.text = Blank /\ NothingSeen \in [Fn -> Ordered]
<1>1. emptyBeo \in Drafted /\ emptyBeo.text = Proposed
  BY DEF emptyBeo, Drafted, Text
<1>2. NoDraft \notin Drafted
  BY BanquetDeskAssumption DEF NoDraft, Drafted, Text, Blank, Proposed
<1>3. \A o \in Ordered : toBeoDraft(o) \in Drafted /\ toBeoDraft(o).text = o.text
  BY DEF toBeoDraft, Ordered, Drafted
<1>4. NoOrder \in Ordered /\ NoOrder.text = Blank
  BY DEF NoOrder, Ordered, Text
<1> QED
  BY <1>1, <1>2, <1>3, <1>4 DEF NothingSeen
-----------------------------------------------------------------------------
(***************************************************************************)
(* What a step leaves as it was.                                           *)
(***************************************************************************)

\* Where there is no draft, there was none, and what is saved stays.
Keeps ==
    /\ parted \subseteq parted'
    /\ \A f \in Fn \ parted' : NoneIn(f)' => NoneIn(f) /\ order'[f].text = order[f].text

LEMMA FreshStays ==
    ASSUME Keeps, NEW seen, NEW e, Fresh(seen, e)
    PROVE  Fresh(seen, e)'
<1> SUFFICES ASSUME NEW f \in FnIn(e), f \notin parted', shown'.drafts[f] = NoDraft
             PROVE  seen[f].text = order'[f].text
  BY DEF Fresh, NoneIn
<1>1. f \in Fn
  BY FnsAre
<1> QED
  BY <1>1 DEF Keeps, Fresh, NoneIn

\* A request that was in order is, when the draft it saves is left alone.
LEMMA SentStill ==
    ASSUME DeskTypes, parted \subseteq parted', \A f \in Fn \ parted' : NoneIn(f)' => NoneIn(f),
           NEW c, c.fn \in Fn \cup {Nobody}, StepsOK(c), SentOK(c),
           Fresh(c.seen, c.event) => Fresh(c.seen, c.event)',
           Patches(c) /\ c.fn \notin parted' => Saves(c)'
    PROVE  SentOK(c)'
<1>1. c.op \in {"save", "finalize", "acknowledge", "create", "switch"} => c.fn \in Fn
  BY FnsAre DEF SentOK
<1> QED
  BY <1>1 DEF SentOK, Patches

LEMMA SentStays ==
    ASSUME DeskTypes, Keeps, NEW c, c.fn \in Fn \cup {Nobody}, StepsOK(c), SentOK(c),
           Patches(c) /\ c.fn \notin parted' =>
             /\ shown'.drafts[c.fn] = shown.drafts[c.fn]
             /\ c.fn \in shown'.dirty => c.fn \in shown.dirty
             /\ c.served => order'[c.fn].text = order[c.fn].text
    PROVE  SentOK(c)'
<1>1. parted \subseteq parted' /\ \A f \in Fn \ parted' : NoneIn(f)' => NoneIn(f)
  BY DEF Keeps
<1>3. Fresh(c.seen, c.event) => Fresh(c.seen, c.event)'
  <2>1. PICK s, e : s = c.seen /\ e = c.event
    OBVIOUS
  <2>2. Fresh(s, e) => Fresh(s, e)'
    BY FreshStays
  <2> QED
    BY <2>1, <2>2 DEF Fresh, NoneIn
<1>5. Patches(c) /\ c.fn \notin parted' => Saves(c)'
  <2> SUFFICES ASSUME Patches(c), c.fn \notin parted'
               PROVE  Saves(c)'
    OBVIOUS
  <2>1. Saves(c)
    BY <1>1 DEF SentOK
  <2> QED
    BY <2>1 DEF Saves, NoneIn
<1> QED
  BY <1>1, <1>3, <1>5, SentStill

\* What is shown of the orders, is.
LEMMA LoadedStays ==
    ASSUME DeskInv, parted \subseteq parted', order' = order, shown'.tab = "beo" => shown.tab = "beo",
           shown'.event = shown.event, shown'.seen = shown.seen, shown'.active = shown.active,
           shown'.drafts = shown.drafts
    PROVE  OrderIsLoaded'
<1>1. \A f : DraftOf(f)' = DraftOf(f)
  BY DEF DraftOf
<1>2. activeFunction' = activeFunction
  BY DEF activeFunction
<1>3. OnOrder' => OnOrder
  BY <1>2 DEF OnOrder, On
<1> QED
  BY <1>1, <1>2, <1>3 DEF DeskInv, OrderIsLoaded

\* No draft changes.
LEMMA QuietStep ==
    ASSUME DeskInv, DeskTypes', order' = order, parted \subseteq parted',
           shown'.drafts = shown.drafts, shown'.dirty = shown.dirty,
           \A c \in sent' : c \in sent \/ SentOK(c),
           OneWriter', Fresh(shown'.seen, shown'.event), Chosen', OrderIsLoaded'
    PROVE  DeskInv'
<1>1. Keeps
  BY DEF Keeps, NoneIn
<1>2. Missing' /\ DirtyDrafts'
  BY DEF DeskInv, Missing, DirtyDrafts, NoneIn
<1>3. SentOrders'
  <2> SUFFICES ASSUME NEW c \in sent'
               PROVE  SentOK(c)'
    BY DEF SentOrders
  <2>1. c.fn \in Fn \cup {Nobody} /\ StepsOK(c)
    BY DEF DeskTypes, Sent
  <2>2. SentOK(c)
    BY DEF DeskInv, SentOrders
  <2> QED
    BY <1>1, <2>1, <2>2, SentStays DEF DeskInv
<1>4. PageFresh'
  <2>1. PICK s, e : s = shown'.seen /\ e = shown'.event
    OBVIOUS
  <2>2. Fresh(s, e)'
    BY <1>1, <2>1, FreshStays
  <2> QED
    BY <2>1, <2>2 DEF PageFresh, Fresh, NoneIn
<1>5. DraftsAreSaved'
  BY DEF DeskInv, DraftsAreSaved
<1> QED
  BY <1>2, <1>3, <1>4, <1>5 DEF DeskInv

\* Who writes an order, when a request begins, goes on or ends.
LEMMA WriterBegins ==
    ASSUME DeskInv, parted \subseteq parted', NEW n, sent' = sent \cup {n},
           Patches(n) => n.fn \in parted' \/ ~Writing(n.fn)
    PROVE  OneWriter'
BY WritingIs DEF DeskInv, OneWriter, Patches
LEMMA WriterGoesOn ==
    ASSUME DeskInv, parted \subseteq parted', NEW c \in sent, NEW d, sent' = (sent \ {c}) \cup {d},
           Patches(d) => Patches(c) /\ d.fn = c.fn
    PROVE  OneWriter'
BY DEF DeskInv, OneWriter, Patches
LEMMA WriterEnds ==
    ASSUME DeskInv, parted \subseteq parted', sent' \subseteq sent
    PROVE  OneWriter'
BY DEF DeskInv, OneWriter, Patches
-----------------------------------------------------------------------------
(***************************************************************************)
(* What the editor does.                                                   *)
(***************************************************************************)

LEMMA DraftOfIs ==
    ASSUME DeskInv, NEW f \in Fn \cup {Nobody}
    PROVE  /\ DraftOf(f) \in Drafted
           /\ f \in Fn /\ ~NoneIn(f) => DraftOf(f) = shown.drafts[f]
           /\ f \in Fn /\ NoneIn(f) => DraftOf(f) = emptyBeo
BY DraftsAre, FnsAre DEF DeskInv, DeskTypes, Shown, DraftOf, NoneIn

LEMMA RequestIs ==
    ASSUME DeskInv, NEW op \in Op, NEW e \in BanquetEvent, NEW f \in Fn \cup {Nobody},
           NEW steps \in Steps
    PROVE  \E n \in Sent : /\ Request(op, e, f, steps) = n
                           /\ n.op = op /\ n.event = e /\ n.fn = f /\ n.steps = steps
                           /\ n.draft = DraftOf(f) /\ ~n.served
<1> DEFINE n == Request(op, e, f, steps)
<1>1. n = [op |-> op, id |-> acts + 1, event |-> e, fn |-> f, steps |-> steps, draft |-> DraftOf(f),
           served |-> FALSE, seen |-> NothingSeen, to |-> Nobody]
  BY DEF Request, Call
<1>2. acts + 1 \in Int
  BY DEF DeskInv, DeskTypes
<1>3. n \in Sent
  BY <1>1, <1>2, DraftOfIs, DraftsAre DEF Sent
<1> HIDE DEF n
<1>4. n.op = op /\ n.event = e /\ n.fn = f /\ n.steps = steps /\ n.draft = DraftOf(f) /\ ~n.served
  BY <1>1
<1> QED
  BY <1>3, <1>4 DEF n

LEMMA DoesIs ==
    ASSUME DeskInv, NEW d \in Shown, Does(d), sent' \subseteq Sent, \A c \in sent' : StepsOK(c),
           parted' \subseteq Fn
    PROVE  DeskTypes' /\ order' = order /\ shown' = d
BY DEF DeskInv, DeskTypes, Does

\* The editor asks for something, and the page goes on showing what it showed.
LEMMA AsksOfDesk ==
    ASSUME DeskInv, NEW d \in Shown, Does(d), NEW n \in Sent, StepsOK(n), SentOK(n),
           sent' = sent \cup {n}, parted \subseteq parted', parted' \subseteq Fn,
           Patches(n) => n.fn \in parted' \/ ~Writing(n.fn),
           d.event = shown.event, d.seen = shown.seen, d.active = shown.active,
           d.drafts = shown.drafts, d.dirty = shown.dirty, OrderIsLoaded'
    PROVE  DeskInv'
<1>1. DeskTypes' /\ order' = order /\ shown' = d
  BY DoesIs DEF DeskInv, DeskTypes
<1>2. OneWriter'
  BY WriterBegins
<1>3. Fresh(shown'.seen, shown'.event)
  BY <1>1 DEF DeskInv, PageFresh
<1>4. Chosen'
  BY <1>1 DEF DeskInv, Chosen
<1> QED
  BY <1>1, <1>2, <1>3, <1>4, QuietStep

\* The page waits.
LEMMA BusyIs ==
    ASSUME DeskInv
    PROVE  /\ Busy \in Shown /\ Busy.event = shown.event /\ Busy.seen = shown.seen
           /\ Busy.active = shown.active /\ Busy.tab = shown.tab /\ Busy.drafts = shown.drafts
           /\ Busy.dirty = shown.dirty
BY DEF DeskInv, DeskTypes, Busy, Shown

\* So it does when it asks for something in the order's own name.
LEMMA BusyAsks ==
    ASSUME DeskInv, Does(Busy), NEW n \in Sent, StepsOK(n), SentOK(n),
           sent' = sent \cup {n}, parted \subseteq parted', parted' \subseteq Fn,
           Patches(n) => n.fn \in parted' \/ ~Writing(n.fn)
    PROVE  DeskInv'
<1>1. order' = order /\ shown' = Busy
  BY DEF Does
<1>2. OrderIsLoaded'
  BY <1>1, BusyIs, LoadedStays
<1> QED
  BY <1>1, <1>2, BusyIs, AsksOfDesk

LEMMA OpensEvent == ASSUME DeskInv, NEW e \in BanquetEvent, openEvent(e) PROVE DeskInv'
<1>1. PICK n \in Sent : /\ Request("open", e, Nobody, <<"open">>) = n
                        /\ n.op = "open" /\ n.event = e /\ n.fn = Nobody /\ n.steps = <<"open">>
                        /\ ~n.served
  BY RequestIs DEF Op, Steps
<1>2. StepsOK(n) /\ ~Patches(n)
  BY <1>1, StepsAre, StepsDiffer DEF StepsOK, Patches
<1>3. SentOK(n)
  BY <1>1, <1>2 DEF SentOK
<1> QED
  BY <1>1, <1>2, <1>3, BusyAsks DEF openEvent, Sends, DeskInv, DeskTypes

LEMMA Changes ==
    ASSUME DeskInv, NEW op \in {"event", "saveFunction", "cancelFunction"}, shown.event # Nobody,
           Does(Busy), Sends(Request(op, shown.event, Nobody, <<"change", "open">>)),
           parted' = parted
    PROVE  DeskInv'
<1>0. shown.event \in BanquetEvent
  BY DEF DeskInv, DeskTypes, Shown
<1>1. PICK n \in Sent : /\ Request(op, shown.event, Nobody, <<"change", "open">>) = n
                        /\ n.op = op /\ n.fn = Nobody /\ n.steps = <<"change", "open">>
                        /\ ~n.served
  BY <1>0, RequestIs DEF Op, Steps
<1>2. StepsOK(n) /\ ~Patches(n) /\ Head(n.steps) # "open"
  BY <1>1, StepsAre, StepsDiffer DEF StepsOK, Patches
<1>3. SentOK(n)
  BY <1>1, <1>2 DEF SentOK
<1> QED
  BY <1>1, <1>2, <1>3, BusyAsks DEF Sends, DeskInv, DeskTypes

LEMMA ChangesEvent == ASSUME DeskInv, changeEvent PROVE DeskInv'
BY Changes DEF changeEvent
LEMMA ChangesFunction ==
    ASSUME DeskInv, NEW op \in {"saveFunction", "cancelFunction"}, changeFunction(op)
    PROVE  DeskInv'
BY Changes DEF changeFunction, On

LEMMA EnsuresBeo == ASSUME DeskInv, NEW f \in Fn, ensureBeo(f) PROVE DeskInv'
<1>0. shown.event \in BanquetEvent /\ f \in FnIn(shown.event)
  BY DEF DeskInv, DeskTypes, Shown, ensureBeo, On
<1>1. PICK n \in Sent : /\ Request("create", shown.event, f, <<"post", "open">>) = n
                        /\ n.op = "create" /\ n.fn = f /\ n.steps = <<"post", "open">>
                        /\ n.event = shown.event /\ ~n.served
  BY <1>0, RequestIs DEF Op, Steps
<1>2. StepsOK(n) /\ ~Patches(n) /\ Head(n.steps) # "open"
  BY <1>1, StepsAre, StepsDiffer DEF StepsOK, Patches
<1>3. SentOK(n)
  BY <1>0, <1>1, <1>2 DEF SentOK
<1> QED
  BY <1>1, <1>2, <1>3, BusyAsks DEF ensureBeo, Sends, DeskInv, DeskTypes

\* The order on the screen has a draft, and may be saved.
LEMMA OnOrderIs ==
    ASSUME DeskInv, OnOrder
    PROVE  /\ shown.event \in BanquetEvent /\ activeFunction \in FnIn(shown.event)
           /\ activeFunction \in Fn
           /\ activeFunction \in parted \/ ~NoneIn(activeFunction)
<1>1. shown.event \in BanquetEvent
  BY DEF DeskInv, DeskTypes, Shown, OnOrder, On
<1>2. activeFunction \in FnIn(shown.event)
  BY ActiveIs DEF DeskInv, OnOrder
<1>3. activeFunction \in parted \/ ~NoneIn(activeFunction)
  BY DEF DeskInv, OrderIsLoaded, NoneIn
<1> QED
  BY <1>1, <1>2, <1>3, FnsAre

LEMMA SavesOrder ==
    ASSUME DeskInv, OnOrder, Does(Busy), NEW op \in {"save", "finalize"}, NEW steps \in Steps,
           Head(steps) = "patch" \/ op = "finalize", steps # <<"patch">>, steps # <<"post", "open">>,
           Head(steps) # "open",
           Sends(Request(op, shown.event, activeFunction, steps)),
           parted \subseteq parted', parted' \subseteq Fn,
           Head(steps) = "patch" => Overlaps(activeFunction)
    PROVE  DeskInv'
<1>0. PICK f \in Fn : f = activeFunction /\ f \in FnIn(shown.event) /\ shown.event \in BanquetEvent
                      /\ (f \in parted \/ ~NoneIn(f))
  BY OnOrderIs
<1>1. PICK n \in Sent : /\ Request(op, shown.event, f, steps) = n
                        /\ n.op = op /\ n.fn = f /\ n.steps = steps
                        /\ n.event = shown.event /\ ~n.served /\ n.draft = DraftOf(f)
  BY <1>0, RequestIs DEF Op
<1>2. StepsOK(n)
  BY <1>1 DEF StepsOK
<1>3. SentOK(n)
  <2>1. f \notin parted => n.draft = shown.drafts[f]
    BY <1>0, <1>1, DraftOfIs
  <2> QED
    BY <1>0, <1>1, <2>1 DEF SentOK, Saves, Patches
<1>4. Patches(n) => n.fn \in parted' \/ ~Writing(n.fn)
  BY <1>0, <1>1 DEF Overlaps, Patches
<1> QED
  BY <1>0, <1>1, <1>2, <1>3, <1>4, BusyAsks DEF Sends

LEMMA OverlapsIs ==
    ASSUME DeskInv, NEW f \in Fn, Overlaps(f)
    PROVE  parted \subseteq parted' /\ parted' \subseteq Fn
BY DEF Overlaps, DeskInv, DeskTypes

LEMMA SavesBeo == ASSUME DeskInv, saveBEO PROVE DeskInv'
<1>1. /\ OnOrder /\ Does(Busy) /\ Overlaps(activeFunction)
      /\ Sends(Request("save", shown.event, activeFunction, <<"patch", "open">>))
  BY DEF saveBEO
<1>2. parted \subseteq parted' /\ parted' \subseteq Fn
  BY <1>1, OnOrderIs, OverlapsIs
<1>3. <<"patch", "open">> \in Steps /\ <<"patch", "open">> # <<"patch">>
      /\ <<"patch", "open">> # <<"post", "open">>
  BY DEF Steps
<1> QED
  BY <1>1, <1>2, <1>3, StepsAre, SavesOrder

LEMMA FinalizesBeo == ASSUME DeskInv, finalizeBEO PROVE DeskInv'
<1>1. OnOrder /\ Does(Busy)
  BY DEF finalizeBEO
<1>2. CASE /\ Sends(Request("finalize", shown.event, activeFunction, <<"patch", "finalize", "open">>))
           /\ Overlaps(activeFunction)
  <2>1. parted \subseteq parted' /\ parted' \subseteq Fn
    BY <1>1, <1>2, OnOrderIs, OverlapsIs
  <2>2. /\ <<"patch", "finalize", "open">> \in Steps /\ <<"patch", "finalize", "open">> # <<"patch">>
        /\ <<"patch", "finalize", "open">> # <<"post", "open">>
    BY DEF Steps
  <2> QED
    BY <1>1, <1>2, <2>1, <2>2, StepsAre, SavesOrder
<1>3. CASE /\ Sends(Request("finalize", shown.event, activeFunction, <<"finalize", "open">>))
           /\ UNCHANGED parted
  <2>1. /\ <<"finalize", "open">> \in Steps /\ <<"finalize", "open">> # <<"patch">>
        /\ <<"finalize", "open">> # <<"post", "open">>
    BY DEF Steps
  <2>2. parted \subseteq parted' /\ parted' \subseteq Fn
    BY <1>3 DEF DeskInv, DeskTypes
  <2> QED
    BY <1>1, <1>3, <2>1, <2>2, StepsAre, SavesOrder
<1> QED
  BY <1>2, <1>3 DEF finalizeBEO
\* A draft is made of what was seen, or one that was saved is no longer marked.
LEMMA LoadStep ==
    ASSUME DeskInv, DeskTypes', order' = order, parted \subseteq parted',
           \A g \in Fn : \/ shown'.drafts[g] = shown.drafts[g]
                         \/ /\ NoneIn(g) /\ shown'.drafts[g] # NoDraft
                            /\ g \in parted' \/ shown'.drafts[g].text = order[g].text,
           shown'.dirty \subseteq shown.dirty,
           \A g \in shown.dirty \ shown'.dirty :
               \/ g \in parted' \/ shown'.drafts[g].text = order[g].text
               \/ shown'.drafts[g].text = Proposed /\ order[g].text = Blank,
           \A c \in sent' : c \in sent \/ SentOK(c),
           OneWriter', Fresh(shown'.seen, shown'.event), Chosen', OrderIsLoaded'
    PROVE  DeskInv'
<1>1. Keeps
  BY DEF Keeps, NoneIn
<1>2. Missing' /\ DirtyDrafts'
  BY DEF DeskInv, DeskTypes, Shown, Missing, DirtyDrafts, NoneIn
<1>3. SentOrders'
  <2> SUFFICES ASSUME NEW c \in sent'
               PROVE  SentOK(c)'
    BY DEF SentOrders
  <2>1. c.fn \in Fn \cup {Nobody} /\ StepsOK(c)
    BY DEF DeskTypes, Sent
  <2>2. SentOK(c)
    BY DEF DeskInv, SentOrders
  <2>3. Patches(c) /\ c.fn \notin parted' => ~NoneIn(c.fn) /\ c.fn \in Fn
    BY <2>1, <2>2, FnsAre DEF SentOK, Saves, StepsOK, Patches
  <2>4. Patches(c) /\ c.fn \notin parted' =>
          shown'.drafts[c.fn] = shown.drafts[c.fn] /\ (c.fn \in shown'.dirty => c.fn \in shown.dirty)
    BY <2>3
  <2> QED
    BY <1>1, <2>1, <2>2, <2>4, SentStays DEF DeskInv
<1>4. PageFresh'
  <2>1. PICK s, e : s = shown'.seen /\ e = shown'.event
    OBVIOUS
  <2>2. Fresh(s, e)'
    BY <1>1, <2>1, FreshStays
  <2> QED
    BY <2>1, <2>2 DEF PageFresh, Fresh, NoneIn
<1>5. DraftsAreSaved'
  BY DEF DeskInv, DraftsAreSaved, NoneIn
<1> QED
  BY <1>2, <1>3, <1>4, <1>5 DEF DeskInv

LEMMA LoadedIs ==
    ASSUME NEW d \in Shown, NEW f \in Fn, NEW o \in Ordered
    PROVE  \E r \in Shown :
             /\ Loaded(d, f, o) = r
             /\ r.event = d.event /\ r.seen = d.seen /\ r.active = d.active /\ r.tab = d.tab
             /\ r.dirty = d.dirty /\ r.drafts[f] # NoDraft
             /\ \A g \in Fn : \/ r.drafts[g] = d.drafts[g]
                              \/ g = f /\ d.drafts[f] = NoDraft /\ r.drafts[f].text = o.text
<1>1. toBeoDraft(o) \in Drafted /\ toBeoDraft(o).text = o.text /\ toBeoDraft(o) # NoDraft
  BY DraftsAre
<1>2. CASE d.drafts[f] = NoDraft
  <2>1. Loaded(d, f, o) = [d EXCEPT !.drafts[f] = toBeoDraft(o)]
    BY <1>2 DEF Loaded
  <2>2. PICK x \in Drafted : x = toBeoDraft(o) /\ x.text = o.text /\ x # NoDraft
    BY <1>1
  <2>3. PICK r : r = [d EXCEPT !.drafts[f] = x]
    OBVIOUS
  <2>4. /\ r \in Shown /\ r.event = d.event /\ r.seen = d.seen /\ r.active = d.active
        /\ r.tab = d.tab /\ r.dirty = d.dirty /\ r.busy = d.busy
        /\ r.drafts = [d.drafts EXCEPT ![f] = x] /\ d.drafts \in [Fn -> Drafted \cup {NoDraft}]
    BY <2>3 DEF Shown
  <2>5. Loaded(d, f, o) = r
    BY <2>1, <2>2, <2>3
  <2>6. r.drafts[f] = x /\ \A g \in Fn : r.drafts[g] = d.drafts[g] \/ g = f
    BY <2>4
  <2> QED
    BY <1>2, <2>2, <2>4, <2>5, <2>6
<1>3. CASE d.drafts[f] # NoDraft
  <2>1. Loaded(d, f, o) = d
    BY <1>3 DEF Loaded
  <2> QED
    BY <1>3, <2>1
<1> QED
  BY <1>2, <1>3

\* The page turns to a function of the event, and loads its order or leaves it.
LEMMA TurnsTo ==
    ASSUME DeskInv, NEW f \in FnIn(shown.event), NEW tab \in {"overview", "functions", "beo"},
           NEW d \in Shown, d.event = shown.event, d.seen = shown.seen, d.active = f, d.tab = tab,
           d.drafts = shown.drafts, d.dirty = shown.dirty,
           \/ Does(Loaded(d, f, shown.seen[f]))
           \/ Does(d) /\ ~Exists(shown.seen[f]),
           UNCHANGED <<sent, parted>>
    PROVE  DeskInv'
<1>1. f \in Fn /\ shown \in Shown /\ shown.seen[f] \in Ordered /\ f # Nobody
  BY FnsAre DEF DeskInv, DeskTypes, Shown
<1>2. /\ d.event = shown.event /\ d.seen = shown.seen /\ d.active = f /\ d.tab = tab
      /\ d.drafts = shown.drafts /\ d.dirty = shown.dirty
  OBVIOUS
<1>3. PICK r \in Shown, load \in BOOLEAN :
        /\ Does(r) /\ (~load => ~Exists(shown.seen[f]))
        /\ r.event = shown.event /\ r.seen = shown.seen /\ r.active = f /\ r.tab = tab
        /\ r.dirty = shown.dirty /\ (load => r.drafts[f] # NoDraft)
        /\ \A g \in Fn : \/ r.drafts[g] = shown.drafts[g]
                         \/ g = f /\ NoneIn(f) /\ r.drafts[f].text = shown.seen[f].text /\ load
  <2>1. CASE Does(Loaded(d, f, shown.seen[f]))
    <3>1. PICK o \in Ordered : o = shown.seen[f]
      BY <1>1
    <3>3. PICK r \in Shown :
            /\ Loaded(d, f, o) = r
            /\ r.event = d.event /\ r.seen = d.seen /\ r.active = d.active /\ r.tab = d.tab
            /\ r.dirty = d.dirty /\ r.drafts[f] # NoDraft
            /\ \A g \in Fn : \/ r.drafts[g] = d.drafts[g]
                             \/ g = f /\ d.drafts[f] = NoDraft /\ r.drafts[f].text = o.text
      <4>1. f \in Fn /\ d \in Shown /\ o \in Ordered
        BY <1>1
      <4> QED
        BY <4>1, LoadedIs
    <3>4. \A g \in Fn : \/ r.drafts[g] = shown.drafts[g]
                        \/ g = f /\ NoneIn(f) /\ r.drafts[f].text = shown.seen[f].text
      BY <1>2, <3>1, <3>3 DEF NoneIn
    <3>5. Does(r)
      BY <2>1, <3>1, <3>3
    <3> QED
      BY <1>2, <3>3, <3>4, <3>5
  <2>2. CASE Does(d) /\ ~Exists(shown.seen[f])
    BY <2>2, <1>2
  <2> QED
    BY <2>1, <2>2
<1>4. DeskTypes' /\ order' = order /\ shown' = r
  BY <1>3, DoesIs DEF DeskInv, DeskTypes
<1>5. f \in parted \/ (NoneIn(f) => shown.seen[f].text = order[f].text)
  BY DEF DeskInv, PageFresh, Fresh
<1>6. activeFunction' = f
  BY <1>3, <1>4 DEF activeFunction
<1>7. OrderIsLoaded'
  BY <1>3, <1>4, <1>6 DEF OrderIsLoaded, OnOrder, On
<1>8. Chosen' /\ OneWriter'
  BY <1>3, <1>4, WriterEnds DEF Chosen
<1>9. Fresh(shown'.seen, shown'.event)
  BY <1>3, <1>4 DEF DeskInv, PageFresh
<1>10. \A g \in Fn : \/ shown'.drafts[g] = shown.drafts[g]
                     \/ /\ NoneIn(g) /\ shown'.drafts[g] # NoDraft
                        /\ g \in parted' \/ shown'.drafts[g].text = order[g].text
  BY <1>3, <1>4, <1>5
<1> QED
  BY <1>3, <1>4, <1>7, <1>8, <1>9, <1>10, LoadStep

\* The page turns to another tab.
LEMMA TabTurned ==
    ASSUME DeskInv, NEW tab \in {"overview", "functions", "beo"}
    PROVE  \E d \in Shown : /\ d = [shown EXCEPT !.tab = tab]
                            /\ d.event = shown.event /\ d.seen = shown.seen
                            /\ d.active = shown.active /\ d.tab = tab
                            /\ d.drafts = shown.drafts /\ d.dirty = shown.dirty
<1>1. PICK d : d = [shown EXCEPT !.tab = tab]
  OBVIOUS
<1>2. /\ d \in Shown /\ d.event = shown.event /\ d.seen = shown.seen /\ d.active = shown.active
      /\ d.tab = tab /\ d.drafts = shown.drafts /\ d.dirty = shown.dirty
  BY <1>1 DEF DeskInv, DeskTypes, Shown
<1> QED
  BY <1>1, <1>2

LEMMA ClicksTab ==
    ASSUME DeskInv, NEW tab \in {"overview", "functions", "beo"}, clickTab(tab)
    PROVE  DeskInv'
<1>1. UNCHANGED <<sent, parted>>
  BY DEF clickTab
<1>2. CASE tab = "beo" /\ activeFunction # Nobody
  <2>1. PICK f \in FnIn(shown.event) : f = activeFunction
    BY <1>2, ActiveIs DEF DeskInv
  <2>2. PICK d : d = [shown EXCEPT !.tab = tab, !.active = f]
    OBVIOUS
  <2>3. /\ d \in Shown /\ d.event = shown.event /\ d.seen = shown.seen /\ d.active = f
        /\ d.tab = tab /\ d.drafts = shown.drafts /\ d.dirty = shown.dirty
    BY <2>2, FnsAre DEF DeskInv, DeskTypes, Shown
  <2>4. Does(Loaded(d, f, shown.seen[f]))
    BY <1>2, <2>1, <2>2 DEF clickTab
  <2> QED
    BY Zenon, <1>1, <2>3, <2>4, TurnsTo
<1>3. CASE ~(tab = "beo" /\ activeFunction # Nobody)
  <2>1. PICK d \in Shown : /\ d = [shown EXCEPT !.tab = tab]
                           /\ d.event = shown.event /\ d.seen = shown.seen
                           /\ d.active = shown.active /\ d.tab = tab
                           /\ d.drafts = shown.drafts /\ d.dirty = shown.dirty
    BY TabTurned
  <2>2. Does(d)
    BY <1>3, <2>1 DEF clickTab
  <2>3. DeskTypes' /\ order' = order /\ shown' = d
    BY <1>1, <2>2, DoesIs DEF DeskInv, DeskTypes
  <2>4. activeFunction' = activeFunction
    BY <2>1, <2>3 DEF activeFunction
  <2>5. OrderIsLoaded'
    BY <1>3, <2>1, <2>3, <2>4 DEF OrderIsLoaded, OnOrder, On
  <2>6. Chosen' /\ OneWriter' /\ Fresh(shown'.seen, shown'.event)
    BY <1>1, <2>1, <2>3, WriterEnds DEF Chosen, DeskInv, PageFresh
  <2> QED
    BY <1>1, <2>1, <2>3, <2>5, <2>6, QuietStep
<1> QED
  BY <1>2, <1>3

LEMMA Acknowledges == ASSUME DeskInv, updateRequirement PROVE DeskInv'
<1>0. PICK f \in Fn : f = activeFunction /\ f \in FnIn(shown.event) /\ shown.event \in BanquetEvent
                      /\ (f \in parted \/ ~NoneIn(f))
  BY OnOrderIs DEF updateRequirement
<1>1. PICK m \in Sent : /\ Request("acknowledge", shown.event, f, <<"acknowledge", "open">>) = m
                        /\ m.op = "acknowledge" /\ m.fn = f /\ m.steps = <<"acknowledge", "open">>
                        /\ m.event = shown.event /\ ~m.served
  BY <1>0, RequestIs DEF Op, Steps
<1>2. PICK n : n = [m EXCEPT !.seen = shown.seen]
  OBVIOUS
<1>3. /\ n \in Sent /\ n.op = "acknowledge" /\ n.fn = f /\ n.steps = <<"acknowledge", "open">>
      /\ n.event = shown.event /\ ~n.served
  BY <1>1, <1>2 DEF Sent, DeskInv, DeskTypes, Shown
<1>4. StepsOK(n) /\ ~Patches(n)
  BY <1>3, StepsAre, StepsDiffer DEF StepsOK, Patches
<1>5. SentOK(n)
  BY <1>0, <1>3, <1>4 DEF SentOK
<1>6. sent' = sent \cup {n} /\ Does(shown) /\ parted' = parted /\ shown' = shown /\ order' = order
  BY <1>0, <1>1, <1>2 DEF updateRequirement, Sends, Does
<1>7. OrderIsLoaded'
  BY <1>6, LoadedStays
<1> QED
  BY <1>3, <1>4, <1>5, <1>6, <1>7, AsksOfDesk DEF DeskInv, DeskTypes

\* What is left behind is saved first, if the editor agrees.
LEMMA SwitchAsks ==
    ASSUME DeskInv, NEW f \in FnIn(shown.event), NEW tab \in {"functions", "beo"},
           shown.active \in shown.dirty, Does([shown EXCEPT !.tab = tab]),
           \/ /\ Sends([Request("switch", shown.event, shown.active, <<"patch">>) EXCEPT
                          !.to = f, !.seen = shown.seen])
              /\ Overlaps(shown.active)
           \/ UNCHANGED <<sent, parted>>
    PROVE  DeskInv'
<1>1. PICK left \in Fn : left = shown.active /\ left \in shown.dirty /\ ~NoneIn(left)
  BY DEF DeskInv, DirtyDrafts, DeskTypes, Shown
<1>2. PICK d \in Shown : /\ d = [shown EXCEPT !.tab = tab]
                         /\ d.event = shown.event /\ d.seen = shown.seen
                         /\ d.active = shown.active /\ d.tab = tab
                         /\ d.drafts = shown.drafts /\ d.dirty = shown.dirty
  BY TabTurned
<1>3. parted \subseteq parted' /\ parted' \subseteq Fn
  BY <1>1, OverlapsIs DEF DeskInv, DeskTypes
<1>4. Does(d) /\ order' = order /\ shown' = d
  BY <1>2 DEF Does
<1>5. OrderIsLoaded'
  <2>1. activeFunction' = activeFunction
    BY <1>2, <1>4 DEF activeFunction
  <2>2. CASE left \in FnIn(shown.event)
    <3>1. activeFunction = left
      BY <1>1, <2>2 DEF activeFunction
    <3> QED
      BY <1>1, <1>2, <1>4, <2>1, <3>1 DEF OrderIsLoaded, NoneIn
  <2>3. CASE left \notin FnIn(shown.event)
    <3>1. FnIn(shown.event) \subseteq parted
      BY <1>1, <2>3, FnsAre DEF DeskInv, Chosen
    <3>2. activeFunction \in FnIn(shown.event) \cup {Nobody}
      BY ActiveIs DEF DeskInv
    <3>3. activeFunction = Nobody => ~OnOrder'
      BY <2>1 DEF OnOrder
    <3> QED
      BY <1>3, <2>1, <3>1, <3>2, <3>3 DEF OrderIsLoaded
  <2> QED
    BY <2>2, <2>3
<1>6. CASE UNCHANGED <<sent, parted>>
  <2>1. DeskTypes'
    BY <1>4, <1>6, DoesIs DEF DeskInv, DeskTypes
  <2>2. Chosen' /\ OneWriter' /\ Fresh(shown'.seen, shown'.event)
    BY <1>2, <1>4, <1>6, WriterEnds DEF Chosen, DeskInv, PageFresh
  <2> QED
    BY <1>2, <1>4, <1>5, <1>6, <2>1, <2>2, QuietStep
<1>7. CASE /\ Sends([Request("switch", shown.event, shown.active, <<"patch">>) EXCEPT
                       !.to = f, !.seen = shown.seen])
           /\ Overlaps(shown.active)
  <2>1. shown.event \in BanquetEvent /\ f \in Fn
    BY FnsAre DEF DeskInv, DeskTypes, Shown
  <2>2. PICK m \in Sent : /\ Request("switch", shown.event, left, <<"patch">>) = m
                          /\ m.op = "switch" /\ m.fn = left /\ m.steps = <<"patch">>
                          /\ m.event = shown.event /\ ~m.served /\ m.draft = DraftOf(left)
    BY <2>1, RequestIs DEF Op, Steps
  <2>3. PICK n : n = [m EXCEPT !.to = f, !.seen = shown.seen]
    OBVIOUS
  <2>4. /\ n \in Sent /\ n.op = "switch" /\ n.fn = left /\ n.steps = <<"patch">>
        /\ n.event = shown.event /\ ~n.served /\ n.draft = DraftOf(left)
        /\ n.to = f /\ n.seen = shown.seen
    BY <2>1, <2>2, <2>3 DEF Sent, DeskInv, DeskTypes, Shown
  <2>5. sent' = sent \cup {n}
    BY <1>1, <1>7, <2>2, <2>3 DEF Sends
  <2>6. StepsOK(n)
    BY <2>4, StepsAre, StepsDiffer DEF StepsOK
  <2>7. SentOK(n)
    <3>1. n.draft = shown.drafts[left]
      BY <1>1, <2>4, DraftOfIs
    <3>2. Fresh(n.seen, n.event)
      BY <2>4 DEF DeskInv, PageFresh
    <3> QED
      BY <1>1, <2>4, <3>1, <3>2 DEF SentOK, Saves
  <2>8. Patches(n) => n.fn \in parted' \/ ~Writing(n.fn)
    BY <1>1, <1>7, <2>4 DEF Overlaps
  <2> QED
    BY <1>2, <1>3, <1>4, <1>5, <2>4, <2>5, <2>6, <2>7, <2>8, AsksOfDesk
<1> QED
  BY <1>6, <1>7

LEMMA SelectsFunction ==
    ASSUME DeskInv, NEW f \in Fn, NEW tab \in {"functions", "beo"}, selectFunction(f, tab)
    PROVE  DeskInv'
<1>1. f \in FnIn(shown.event)
  BY DEF selectFunction
<1>2. CASE /\ Does(Selected([shown EXCEPT !.tab = tab], f, shown.seen[f]))
           /\ UNCHANGED <<sent, parted>>
  <2>1. PICK d : d = [shown EXCEPT !.tab = tab, !.active = f]
    OBVIOUS
  <2>2. /\ d \in Shown /\ d.event = shown.event /\ d.seen = shown.seen /\ d.active = f
        /\ d.tab = tab /\ d.drafts = shown.drafts /\ d.dirty = shown.dirty
    BY <2>1 DEF DeskInv, DeskTypes, Shown
  <2>3. [[shown EXCEPT !.tab = tab] EXCEPT !.active = f] = d
    BY <2>1
  <2>4. \/ Does(Loaded(d, f, shown.seen[f]))
        \/ Does(d) /\ ~Exists(shown.seen[f])
    BY <1>2, <2>3 DEF Selected
  <2> QED
    BY Zenon, <1>1, <1>2, <2>2, <2>4, TurnsTo
<1>3. CASE ~(shown.active \notin shown.dirty \cup {f} \/ shown.active = f)
  <2>1. shown.active \in shown.dirty
    BY <1>3
  <2>2. /\ Does([shown EXCEPT !.tab = tab])
        /\ \/ /\ Sends([Request("switch", shown.event, shown.active, <<"patch">>) EXCEPT
                          !.to = f, !.seen = shown.seen])
              /\ Overlaps(shown.active)
           \/ UNCHANGED <<sent, parted>>
    BY Zenon, <1>3 DEF selectFunction
  <2> QED
    BY Zenon, <1>1, <2>1, <2>2, SwitchAsks
<1> QED
  BY <1>2, <1>3 DEF selectFunction
LEMMA UpdatesDraft == ASSUME DeskInv, NEW t \in Wording \cup {Blank}, updateDraft(t) PROVE DeskInv'
<1>1. PICK f \in Fn : f = activeFunction
  BY OnOrderIs DEF updateDraft
<1>2. PICK x \in Drafted : x = [DraftOf(f) EXCEPT !.text = t]
  <2>1. DraftOf(f) \in Drafted
    BY DraftOfIs
  <2> QED
    BY <2>1 DEF Drafted, Text
<1>3. PICK d : d = [shown EXCEPT !.drafts[f] = x, !.dirty = @ \cup {f}]
  OBVIOUS
<1>4. /\ d \in Shown /\ d.event = shown.event /\ d.seen = shown.seen /\ d.active = shown.active
      /\ d.tab = shown.tab /\ d.dirty = shown.dirty \cup {f}
      /\ d.drafts[f] = x /\ \A g \in Fn : g # f => d.drafts[g] = shown.drafts[g]
  BY <1>3 DEF DeskInv, DeskTypes, Shown
<1>5. Does(d) /\ Overlaps(f) /\ sent' = sent /\ x # NoDraft
  BY <1>1, <1>2, <1>3, DraftsAre DEF updateDraft
<1>6. parted \subseteq parted' /\ parted' \subseteq Fn
  BY <1>5, OverlapsIs
<1>7. DeskTypes' /\ order' = order /\ shown' = d
  BY <1>4, <1>5, <1>6, DoesIs DEF DeskInv, DeskTypes
<1>8. Keeps
  BY <1>4, <1>5, <1>6, <1>7 DEF Keeps, NoneIn
<1>9. Missing' /\ DirtyDrafts' /\ Chosen' /\ OneWriter'
  BY <1>4, <1>5, <1>6, <1>7, WriterEnds
     DEF DeskInv, DeskTypes, Shown, Missing, DirtyDrafts, NoneIn, Chosen
<1>10. SentOrders'
  <2> SUFFICES ASSUME NEW c \in sent'
               PROVE  SentOK(c)'
    BY DEF SentOrders
  <2>1. c \in sent /\ c.fn \in Fn \cup {Nobody} /\ StepsOK(c) /\ SentOK(c)
    BY <1>5 DEF DeskInv, DeskTypes, Sent, SentOrders
  <2>2. Patches(c) /\ c.fn \notin parted' => c.fn # f /\ c.fn \in Fn
    <3>1. Patches(c) /\ c.fn = f => Writing(f)
      BY <2>1, WritingIs DEF DeskInv
    <3>2. Patches(c) => c.fn \in Fn
      BY <2>1, FnsAre DEF StepsOK, Patches, SentOK
    <3> QED
      BY <1>5, <3>1, <3>2 DEF Overlaps
  <2>3. Patches(c) /\ c.fn \notin parted' =>
          shown'.drafts[c.fn] = shown.drafts[c.fn] /\ (c.fn \in shown'.dirty => c.fn \in shown.dirty)
    BY <1>4, <1>7, <2>2
  <2> QED
    BY <1>7, <1>8, <2>1, <2>3, SentStays DEF DeskInv
<1>11. PageFresh'
  <2>1. PICK s, e : s = shown.seen /\ e = shown.event
    OBVIOUS
  <2>2. Fresh(s, e)'
    BY <1>8, <2>1, FreshStays DEF DeskInv, PageFresh
  <2> QED
    BY <1>4, <1>7, <2>1, <2>2 DEF PageFresh, Fresh, NoneIn
<1>12. DraftsAreSaved'
  BY <1>4, <1>6, <1>7 DEF DeskInv, DraftsAreSaved
<1>13. OrderIsLoaded'
  <2>1. activeFunction' = f
    BY <1>1, <1>4, <1>7 DEF activeFunction
  <2> QED
    BY <1>4, <1>5, <1>7, <2>1 DEF OrderIsLoaded
<1> QED
  BY <1>7, <1>9, <1>10, <1>11, <1>12, <1>13 DEF DeskInv

LEMMA Edits == ASSUME DeskInv, Editing PROVE DeskInv'
BY OpensEvent, ClicksTab, EnsuresBeo, SelectsFunction, UpdatesDraft, ChangesFunction, SavesBeo,
   FinalizesBeo, Acknowledges, ChangesEvent DEF Editing
-----------------------------------------------------------------------------
(***************************************************************************)
(* The server, and other desks.                                            *)
(***************************************************************************)

\* What an order becomes: only a save changes what it says.
LEMMA OutcomeIs ==
    ASSUME DeskInv, NEW c \in sent, NEW o \in Outcome(c)
    PROVE  /\ o \in Ordered /\ c.fn \in FnIn(c.event) /\ c.fn \in Fn
           /\ o.status = "MISSING" => o.text = Blank
           /\ Patches(c) => o.text = c.draft.text
           /\ ~Patches(c) => o.text = order[c.fn].text
<1>1. c.fn \in FnIn(c.event) /\ c.fn \in Fn
  BY FnsAre DEF Outcome
<1>2. order[c.fn] \in Ordered /\ c.draft \in Drafted /\ c.steps \in Steps
      /\ (order[c.fn].status = "MISSING" => order[c.fn].text = Blank)
  BY <1>1 DEF DeskInv, DeskTypes, Sent, Missing
<1>3. Head(c.steps) \in {"open", "patch", "post", "finalize", "acknowledge", "change"}
  BY <1>2, StepsAre DEF Steps
<1>4. CASE Head(c.steps) = "patch"
  <2>1. o = Written(order[c.fn], c.draft)
    BY <1>1, <1>4 DEF Outcome
  <2>2. o \in Ordered /\ o.status = "DRAFT" /\ o.text = c.draft.text
    BY <1>2, <2>1 DEF Written, Ordered, Drafted
  <2> QED
    BY <1>1, <1>4, <2>2 DEF Patches
<1>5. CASE Head(c.steps) = "post"
  <2>1. o = Created(order[c.fn])
    BY <1>1, <1>5 DEF Outcome
  <2>2. o \in Ordered /\ o.text = order[c.fn].text /\ o.status # "MISSING"
    BY <1>2, <2>1 DEF Created, Exists, NoOrder, Ordered
  <2> QED
    BY <1>1, <1>5, <2>2 DEF Patches
<1>6. CASE Head(c.steps) = "finalize"
  <2>1. o = [order[c.fn] EXCEPT !.status = "FINAL"]
    BY <1>1, <1>6 DEF Outcome
  <2>2. o \in Ordered /\ o.text = order[c.fn].text /\ o.status # "MISSING"
    BY <1>2, <2>1 DEF Ordered
  <2> QED
    BY <1>1, <1>6, <2>2 DEF Patches
<1>7. CASE Head(c.steps) = "acknowledge"
  <2>1. o = [order[c.fn] EXCEPT !.ack = TRUE]
    BY <1>1, <1>7 DEF Outcome
  <2>2. o \in Ordered /\ o.text = order[c.fn].text /\ o.status = order[c.fn].status
    BY <1>2, <2>1 DEF Ordered
  <2> QED
    BY <1>1, <1>2, <1>7, <2>2 DEF Patches
<1>8. CASE Head(c.steps) \in {"open", "change"}
  BY <1>1, <1>8 DEF Outcome
<1> QED
  BY <1>3, <1>4, <1>5, <1>6, <1>7, <1>8

\* The server has done what a request asks for.
LEMMA ServeStep ==
    ASSUME DeskInv, UNCHANGED <<waits, shown, acts, others, parted>>, NEW c \in sent,
           NEW d \in Sent, sent' = (sent \ {c}) \cup {d}, StepsOK(d), SentOK(d)',
           Patches(d) => Patches(c) /\ d.fn = c.fn,
           order' \in [Fn -> Ordered], Missing',
           \A f \in Fn \ parted : \/ order'[f].text = order[f].text
                                  \/ Patches(c) /\ c.fn = f /\ order'[f].text = c.draft.text
    PROVE  DeskInv'
<1>1. DeskTypes' /\ DirtyDrafts' /\ Chosen' /\ OneWriter'
  BY WriterGoesOn DEF DeskInv, DeskTypes, DirtyDrafts, NoneIn, Chosen
<1>2. SentOK(c) /\ (Patches(c) /\ c.fn \notin parted => Saves(c))
  BY DEF DeskInv, SentOrders, SentOK
<1>3. Keeps
  BY <1>2 DEF Keeps, NoneIn, Saves
<1>4. SentOrders'
  <2> SUFFICES ASSUME NEW e \in sent'
               PROVE  SentOK(e)'
    BY DEF SentOrders
  <2>1. CASE e = d
    BY <2>1
  <2>2. CASE e \in sent /\ e # c
    <3>1. e.fn \in Fn \cup {Nobody} /\ StepsOK(e) /\ SentOK(e)
      BY <2>2 DEF DeskInv, DeskTypes, Sent, SentOrders
    <3>2. Patches(e) /\ e.fn \notin parted => e.fn \in Fn /\ ~(Patches(c) /\ c.fn = e.fn)
      BY <2>2, <3>1, FnsAre DEF DeskInv, OneWriter, StepsOK, Patches, SentOK
    <3>3. Patches(e) /\ e.fn \notin parted' => order'[e.fn].text = order[e.fn].text
      BY <3>2
    <3> QED
      BY <1>3, <3>1, <3>3, SentStays DEF DeskInv
  <2> QED
    BY <2>1, <2>2
<1>5. PageFresh'
  <2>1. PICK s, e : s = shown.seen /\ e = shown.event
    OBVIOUS
  <2>2. Fresh(s, e)'
    BY <1>3, <2>1, FreshStays DEF DeskInv, PageFresh
  <2> QED
    BY <2>1, <2>2 DEF PageFresh, Fresh, NoneIn
<1>6. DraftsAreSaved'
  BY <1>2 DEF DeskInv, DraftsAreSaved, Saves
<1>7. OrderIsLoaded'
  BY DEF DeskInv, OrderIsLoaded, OnOrder, On, activeFunction
<1> QED
  BY <1>1, <1>4, <1>5, <1>6, <1>7 DEF DeskInv

LEMMA DeskServes == ASSUME DeskInv, NEW c \in sent, DeskServe(c) PROVE DeskInv'
<1>0. /\ c \in Sent /\ StepsOK(c) /\ SentOK(c) /\ c.steps \in Steps /\ c.event \in BanquetEvent
      /\ order \in [Fn -> Ordered] /\ Missing
  BY DEF DeskInv, DeskTypes, SentOrders, Sent
<1>1. PICK d : d = [c EXCEPT !.served = TRUE]
  OBVIOUS
<1>2. /\ d \in Sent /\ d.op = c.op /\ d.event = c.event /\ d.fn = c.fn /\ d.steps = c.steps
      /\ d.draft = c.draft /\ d.seen = c.seen /\ d.to = c.to /\ d.served
  BY <1>0, <1>1 DEF Sent
<1>3. StepsOK(d) /\ (Patches(d) <=> Patches(c))
  BY <1>0, <1>2 DEF StepsOK, Patches
<1>4. UNCHANGED <<waits, shown, acts, others, parted>>
  BY DEF DeskServe
<1>5. CASE Head(c.steps) = "change" /\ sent' = (sent \ {c}) \cup {d} /\ UNCHANGED order
  <2>1. SentOK(d)'
    BY <1>0, <1>2, <1>4, <1>5, StepsAre DEF SentOK, Patches, NoneIn, Fresh, StepsOK
  <2>2. Missing'
    BY <1>0, <1>5 DEF Missing
  <2> QED
    BY <1>0, <1>2, <1>3, <1>4, <1>5, <2>1, <2>2, ServeStep
<1>6. CASE /\ Head(c.steps) = "open" /\ UNCHANGED order
           /\ sent' = (sent \ {c}) \cup {[c EXCEPT !.served = TRUE, !.seen = Snapshot(c.event)]}
  <2>1. Snapshot(c.event) \in [Fn -> Ordered]
    BY <1>0, DraftsAre DEF Snapshot
  <2>2. PICK e : e = [c EXCEPT !.served = TRUE, !.seen = Snapshot(c.event)]
    OBVIOUS
  <2>3. /\ e \in Sent /\ e.op = c.op /\ e.event = c.event /\ e.fn = c.fn /\ e.steps = c.steps
        /\ e.seen = Snapshot(c.event)
    BY <1>0, <2>1, <2>2 DEF Sent
  <2>4. StepsOK(e) /\ ~Patches(e) /\ e.op # "switch"
    BY <1>0, <1>6, <2>3, StepsAre DEF StepsOK, Patches
  <2>5. \A f \in FnIn(c.event) : Snapshot(c.event)[f] = order[f]
    BY FnsAre DEF Snapshot
  <2>6. Fresh(e.seen, e.event)'
    BY <1>6, <2>3, <2>5 DEF Fresh
  <2>7. SentOK(e)'
    BY <1>0, <1>4, <1>6, <2>3, <2>4, <2>6 DEF SentOK, Patches, NoneIn
  <2>8. Missing'
    BY <1>0, <1>6 DEF Missing
  <2> QED
    BY <1>0, <1>4, <1>6, <2>2, <2>3, <2>4, <2>7, <2>8, ServeStep
<1>7. CASE \E o \in Outcome(c) : /\ order' = [order EXCEPT ![c.fn] = o]
                                 /\ sent' = (sent \ {c}) \cup {d}
  <2>1. PICK o \in Outcome(c) : order' = [order EXCEPT ![c.fn] = o]
    BY <1>7
  <2>2. /\ o \in Ordered /\ c.fn \in FnIn(c.event) /\ c.fn \in Fn
        /\ o.status = "MISSING" => o.text = Blank
        /\ Patches(c) => o.text = c.draft.text
        /\ ~Patches(c) => o.text = order[c.fn].text
    BY OutcomeIs
  <2>3. order' \in [Fn -> Ordered] /\ \A f \in Fn : order'[f] = IF f = c.fn THEN o ELSE order[f]
    BY <1>0, <2>1, <2>2
  <2>4. Missing'
    BY <1>0, <2>2, <2>3 DEF Missing
  <2>5. \A f \in Fn \ parted : \/ order'[f].text = order[f].text
                               \/ Patches(c) /\ c.fn = f /\ order'[f].text = c.draft.text
    BY <2>2, <2>3
  <2>6. Head(c.steps) # "open"
    BY <1>0, <2>1, StepsAre DEF Outcome
  <2>7. c.op = "switch" => Fresh(c.seen, c.event)'
    <3>1. c.op = "switch" => Fresh(c.seen, c.event)
      BY <1>0 DEF SentOK
    <3>2. \A f \in FnIn(c.event) : f \in Fn
      BY FnsAre
    <3>3. Patches(c) /\ c.fn \notin parted => ~NoneIn(c.fn)
      BY <1>0 DEF SentOK, Saves
    <3> QED
      BY <1>4, <2>5, <3>1, <3>2, <3>3 DEF Fresh, NoneIn
  <2>8. Patches(c) /\ c.fn \notin parted => Saves(d)'
    <3>1. Patches(c) /\ c.fn \notin parted => Saves(c)
      BY <1>0 DEF SentOK
    <3> QED
      BY <1>2, <1>4, <2>2, <2>3, <3>1 DEF Saves, NoneIn
  <2>9. SentOK(d)'
    <3>1. d.op = "switch" => Fresh(d.seen, d.event)'
      BY <1>2, <2>7 DEF Fresh, NoneIn
    <3> QED
      BY <1>0, <1>2, <1>4, <2>6, <2>8, <3>1 DEF SentOK, Patches, NoneIn
  <2> QED
    BY <1>2, <1>3, <1>4, <1>7, <2>3, <2>4, <2>5, <2>9, ServeStep
<1> QED
  BY <1>1, <1>5, <1>6, <1>7 DEF DeskServe
\* What another desk makes of an order is an order.
LEMMA OthersOrderIs ==
    ASSUME DeskInv, NEW f \in Fn, OtherDesk(f)
    PROVE  /\ order' \in [Fn -> Ordered] /\ Missing'
           /\ \A g \in Fn : g # f => order'[g] = order[g]
<1>1. /\ order \in [Fn -> Ordered] /\ order[f] \in Ordered
      /\ order[f].status = "MISSING" => order[f].text = Blank
  BY DEF DeskInv, DeskTypes, Missing
<1>2. PICK n : /\ order' = [order EXCEPT ![f] = n]
               /\ \/ n = Created(order[f])
                  \/ \E t \in Wording : n = Written(order[f], [text |-> t, ack |-> FALSE])
                  \/ n = [order[f] EXCEPT !.status = "FINAL"]
                  \/ Exists(order[f]) /\ n = [order[f] EXCEPT !.ack = TRUE]
  BY Zenon DEF OtherDesk
<1>3. n \in Ordered /\ (n.status = "MISSING" => n.text = Blank)
  <2>1. CASE n = Created(order[f])
    BY <1>1, <2>1, DraftsAre DEF Created, Exists, NoOrder, Ordered, Text
  <2>2. CASE \E t \in Wording : n = Written(order[f], [text |-> t, ack |-> FALSE])
    <3>1. PICK t \in Wording : n = [status |-> "DRAFT", text |-> t, ack |-> FALSE, rows |-> order[f].rows + 1]
      BY <2>2 DEF Written
    <3> QED
      BY <1>1, <3>1 DEF Ordered, Text
  <2>3. CASE n = [order[f] EXCEPT !.status = "FINAL"]
    BY <1>1, <2>3 DEF Ordered
  <2>4. CASE Exists(order[f]) /\ n = [order[f] EXCEPT !.ack = TRUE]
    BY <1>1, <2>4 DEF Ordered, Exists
  <2> QED
    BY <1>2, <2>1, <2>2, <2>3, <2>4
<1>4. order' \in [Fn -> Ordered] /\ \A g \in Fn : order'[g] = IF g = f THEN n ELSE order[g]
  BY <1>1, <1>2, <1>3
<1>5. Missing'
  BY <1>3, <1>4 DEF DeskInv, Missing
<1> QED
  BY <1>4, <1>5

LEMMA OtherDesks == ASSUME DeskInv, NEW f \in Fn, OtherDesk(f) PROVE DeskInv'
<1>1. /\ order' \in [Fn -> Ordered] /\ Missing'
      /\ \A g \in Fn : g # f => order'[g] = order[g]
  BY OthersOrderIs
<1>2. /\ UNCHANGED <<waits, shown, sent, acts>> /\ others' = others + 1
      /\ parted' = (IF Known(f) THEN parted \cup {f} ELSE parted)
  BY DEF OtherDesk
<1>3. parted \subseteq parted' /\ parted' \subseteq Fn /\ (f \in parted' \/ ~Known(f))
  BY <1>2 DEF DeskInv, DeskTypes
<1>4. DeskTypes' /\ DirtyDrafts' /\ Chosen' /\ OneWriter'
  BY <1>1, <1>2, <1>3, WriterEnds DEF DeskInv, DeskTypes, DirtyDrafts, NoneIn, Chosen
<1>5. \A g \in Fn \ parted' : NoneIn(g)' => NoneIn(g)
  BY <1>2 DEF NoneIn
<1>6. SentOrders'
  <2> SUFFICES ASSUME NEW c \in sent
               PROVE  SentOK(c)'
    BY <1>2 DEF SentOrders
  <2>1. c.fn \in Fn \cup {Nobody} /\ StepsOK(c) /\ SentOK(c)
    BY DEF DeskInv, DeskTypes, Sent, SentOrders
  <2>2. Fresh(c.seen, c.event) => Fresh(c.seen, c.event)'
    <3>1. \A g \in FnIn(c.event) : g \in Fn /\ (g = f => f \in parted')
      BY <1>3, FnsAre DEF Known
    <3> QED
      BY <1>1, <1>2, <1>3, <3>1 DEF Fresh, NoneIn
  <2>3. Patches(c) /\ c.fn \notin parted' => Saves(c)'
    <3>1. Patches(c) /\ c.fn \notin parted' => Saves(c) /\ c.fn \in Fn
      BY <1>3, <2>1, FnsAre DEF SentOK, StepsOK, Patches
    <3>2. Patches(c) /\ c.fn \notin parted' => c.fn # f
      BY <1>3, <3>1 DEF Known, Saves, NoneIn
    <3> QED
      BY <1>1, <1>2, <3>1, <3>2 DEF Saves, NoneIn
  <2> QED
    BY <1>3, <1>5, <2>1, <2>2, <2>3, SentStill DEF DeskInv
<1>7. PageFresh'
  BY <1>1, <1>2, <1>3, FnsAre DEF DeskInv, PageFresh, Fresh, NoneIn, Known
<1>8. DraftsAreSaved'
  BY <1>1, <1>2, <1>3 DEF DeskInv, DraftsAreSaved, Known
<1>9. OrderIsLoaded'
  BY <1>2, <1>3 DEF DeskInv, OrderIsLoaded, OnOrder, On, activeFunction
<1> QED
  BY <1>1, <1>4, <1>6, <1>7, <1>8, <1>9 DEF DeskInv
-----------------------------------------------------------------------------
(***************************************************************************)
(* What the page does with the answers.                                    *)
(***************************************************************************)

LEMMA RequestHolds ==
    ASSUME DeskInv, NEW c \in sent
    PROVE  /\ c \in Sent /\ StepsOK(c) /\ SentOK(c) /\ c.steps \in Steps /\ c.event \in BanquetEvent
           /\ c.fn \in Fn \cup {Nobody} /\ c.seen \in [Fn -> Ordered]
           /\ Patches(c) => c.fn \in Fn
           /\ Patches(c) /\ c.fn \notin parted => Saves(c)
<1>1. c \in Sent /\ StepsOK(c) /\ SentOK(c)
  BY DEF DeskInv, DeskTypes, SentOrders
<1>2. c.steps \in Steps /\ c.event \in BanquetEvent /\ c.fn \in Fn \cup {Nobody}
      /\ c.seen \in [Fn -> Ordered]
  BY <1>1 DEF Sent
<1>3. Patches(c) => c.fn \in Fn
  BY <1>1, <1>2, FnsAre DEF StepsOK, SentOK, Patches
<1> QED
  BY <1>1, <1>2, <1>3 DEF SentOK

\* A request goes on to its next step, which writes no order's contents.
LEMMA NextIs ==
    ASSUME DeskInv, NEW c \in sent, Head(c.steps) # "open", c.op # "switch"
    PROVE  /\ Head(Tail(c.steps)) = "open" \/ Head(c.steps) = "patch"
           /\ \E d \in Sent : /\ Next1(c) = d
                              /\ d.op = c.op /\ d.fn = c.fn /\ d.event = c.event
                              /\ ~d.served /\ StepsOK(d) /\ ~Patches(d)
                              /\ d.op = "create" => Head(c.steps) = "post"
<1>1. c \in Sent /\ StepsOK(c) /\ c.steps \in Steps
  BY RequestHolds
<1>2. /\ Tail(c.steps) \in {<<"open">>, <<"finalize", "open">>}
      /\ Head(Tail(c.steps)) = "open" \/ Head(c.steps) = "patch"
      /\ c.op = "create" => Head(c.steps) = "post" /\ Tail(c.steps) = <<"open">>
  BY <1>1, StepsAre DEF Steps, StepsOK
<1>3. PICK d : d = [c EXCEPT !.steps = Tail(c.steps), !.served = FALSE]
  OBVIOUS
<1>4. /\ d \in Sent /\ d.op = c.op /\ d.fn = c.fn /\ d.event = c.event
      /\ d.steps = Tail(c.steps) /\ ~d.served
  BY <1>1, <1>2, <1>3 DEF Sent, Steps
<1>5. StepsOK(d) /\ ~Patches(d)
  BY <1>2, <1>4, StepsAre, StepsDiffer DEF StepsOK, Patches
<1>6. Next1(c) = d
  BY <1>3 DEF Next1
<1> QED
  BY <1>2, <1>4, <1>5, <1>6

\* On its way to open the event, the page waits.
LEMMA OnItsWayIs ==
    ASSUME NEW d \in Shown, NEW c
    PROVE  \E r \in Shown : /\ OnItsWay(d, c) = r
                            /\ r.event = d.event /\ r.seen = d.seen /\ r.active = d.active
                            /\ r.tab = d.tab /\ r.drafts = d.drafts /\ r.dirty = d.dirty
<1>1. PICK r : r = [d EXCEPT !.busy = TRUE]
  OBVIOUS
<1>2. /\ r \in Shown /\ r.event = d.event /\ r.seen = d.seen /\ r.active = d.active
      /\ r.tab = d.tab /\ r.drafts = d.drafts /\ r.dirty = d.dirty
  BY <1>1 DEF Shown
<1> QED
  BY <1>1, <1>2 DEF OnItsWay

LEMMA OtherLands ==
    ASSUME DeskInv, NEW c \in sent, otherLand(c), UNCHANGED <<waits, order, acts, others>>
    PROVE  DeskInv'
<1>1. StepsOK(c) /\ SentOK(c) /\ Head(c.steps) # "open" /\ Head(c.steps) # "post" /\ c.op # "switch"
  BY RequestHolds, StepsAre DEF otherLand, StepsOK
<1>2. PICK d \in Sent : /\ Next1(c) = d
                        /\ d.op = c.op /\ d.fn = c.fn /\ d.event = c.event
                        /\ ~d.served /\ StepsOK(d) /\ ~Patches(d) /\ d.op # "create"
  BY <1>1, NextIs
<1>3. shown \in Shown
  BY DEF DeskInv, DeskTypes
<1>4. PICK r \in Shown :
        /\ OnItsWay(shown, c) = r
        /\ r.event = shown.event /\ r.seen = shown.seen /\ r.active = shown.active
        /\ r.tab = shown.tab /\ r.drafts = shown.drafts /\ r.dirty = shown.dirty
  BY <1>3, OnItsWayIs
<1>5. shown' = r /\ sent' = (sent \ {c}) \cup {d} /\ parted' = parted /\ order' = order
  BY <1>2, <1>4 DEF otherLand, Continues
<1>6. SentOK(d)
  BY <1>1, <1>2 DEF SentOK
<1>7. DeskTypes'
  BY <1>2, <1>4, <1>5 DEF DeskInv, DeskTypes
<1>8. OneWriter' /\ Chosen' /\ Fresh(shown'.seen, shown'.event)
  BY <1>2, <1>4, <1>5, WriterGoesOn DEF DeskInv, Chosen, PageFresh
<1>9. OrderIsLoaded'
  BY <1>4, <1>5, LoadedStays
<1> QED
  BY <1>2, <1>4, <1>5, <1>6, <1>7, <1>8, <1>9, QuietStep

\* What the page turns to once the event is opened again, or could not be.
LEMMA ResumedIs ==
    ASSUME DeskInv, NEW c \in sent, Head(c.steps) = "open", NEW d \in Shown
    PROVE  \E r \in Shown :
             /\ Resumed(d, c) = r
             /\ r.event = d.event /\ r.seen = d.seen /\ r.drafts = d.drafts /\ r.dirty = d.dirty
             /\ \/ r.active = d.active /\ r.tab \in {d.tab, "functions"}
                \/ /\ r.active = c.fn /\ r.tab = "beo" /\ c.fn \in FnIn(c.event)
                   /\ c.fn \in parted \/ ~NoneIn(c.fn)
<1>1. SentOK(c) /\ c.fn \in Fn \cup {Nobody}
  BY RequestHolds
<1>2. CASE c.op \in {"save", "finalize", "create", "acknowledge"}
  <2>1. PICK r : r = [d EXCEPT !.active = c.fn, !.tab = "beo"]
    OBVIOUS
  <2>2. /\ r \in Shown /\ r.event = d.event /\ r.seen = d.seen /\ r.drafts = d.drafts
        /\ r.dirty = d.dirty /\ r.active = c.fn /\ r.tab = "beo"
    BY <1>1, <2>1 DEF Shown
  <2> QED
    BY <1>1, <1>2, <2>1, <2>2 DEF Resumed, SentOK
<1>3. CASE c.op = "saveFunction"
  <2>1. PICK r : r = [d EXCEPT !.tab = "functions"]
    OBVIOUS
  <2>2. /\ r \in Shown /\ r.event = d.event /\ r.seen = d.seen /\ r.drafts = d.drafts
        /\ r.dirty = d.dirty /\ r.active = d.active /\ r.tab = "functions"
    BY <2>1 DEF Shown
  <2> QED
    BY <1>3, <2>1, <2>2 DEF Resumed
<1>4. CASE c.op \notin {"save", "finalize", "create", "acknowledge", "saveFunction"}
  BY <1>4 DEF Resumed
<1> QED
  BY <1>2, <1>3, <1>4

LEMMA EventLands ==
    ASSUME DeskInv, NEW c \in sent, c.served, eventLand(c), UNCHANGED <<waits, order, acts, others>>
    PROVE  DeskInv'
<1>1. /\ StepsOK(c) /\ SentOK(c) /\ Head(c.steps) = "open" /\ c.event \in BanquetEvent
      /\ c.seen \in [Fn -> Ordered]
  BY RequestHolds DEF eventLand
<1>2. PICK d : d = [shown EXCEPT !.event = c.event, !.seen = c.seen, !.active = First(c.event),
                                 !.tab = "overview", !.busy = FALSE]
  OBVIOUS
<1>3. First(c.event) \in FnIn(c.event) \cup {Nobody} /\ First(c.event) \in Fn \cup {Nobody}
  BY <1>1, FnsAre
<1>4. /\ d \in Shown /\ d.event = c.event /\ d.seen = c.seen /\ d.active = First(c.event)
      /\ d.tab = "overview" /\ d.drafts = shown.drafts /\ d.dirty = shown.dirty
  BY <1>1, <1>2, <1>3 DEF DeskInv, DeskTypes, Shown
<1>5. PICK r \in Shown :
        /\ Resumed(d, c) = r
        /\ r.event = d.event /\ r.seen = d.seen /\ r.drafts = d.drafts /\ r.dirty = d.dirty
        /\ \/ r.active = d.active /\ r.tab \in {d.tab, "functions"}
           \/ /\ r.active = c.fn /\ r.tab = "beo" /\ c.fn \in FnIn(c.event)
              /\ c.fn \in parted \/ ~NoneIn(c.fn)
  BY <1>1, <1>4, ResumedIs
<1>6. shown' = r /\ sent' = sent \ {c} /\ parted' = parted /\ order' = order
  BY <1>2, <1>5 DEF eventLand, Ends
<1>7. DeskTypes'
  BY <1>5, <1>6 DEF DeskInv, DeskTypes
<1>8. OneWriter' /\ Chosen'
  BY <1>3, <1>4, <1>5, <1>6, WriterEnds DEF Chosen
<1>9. Fresh(shown'.seen, shown'.event)
  <2>1. Fresh(c.seen, c.event)
    BY <1>1 DEF SentOK
  <2> QED
    BY <1>4, <1>5, <1>6, <2>1
<1>10. OrderIsLoaded'
  <2>1. CASE r.tab # "beo"
    BY <1>6, <2>1 DEF OrderIsLoaded, OnOrder, On
  <2>2. CASE r.active = c.fn /\ c.fn \in FnIn(c.event) /\ (c.fn \in parted \/ ~NoneIn(c.fn))
    <3>1. activeFunction' = c.fn
      BY <1>4, <1>5, <1>6, <2>2 DEF activeFunction
    <3> QED
      BY <1>4, <1>5, <1>6, <2>2, <3>1 DEF OrderIsLoaded, NoneIn
  <2> QED
    BY <1>4, <1>5, <2>1, <2>2
<1>11. shown'.drafts = shown.drafts /\ shown'.dirty = shown.dirty
  BY <1>4, <1>5, <1>6
<1> QED
  BY <1>6, <1>7, <1>8, <1>9, <1>10, <1>11, QuietStep
\* Nothing is lost with a request that failed; its event may be another now.
LEMMA DeskFails == ASSUME DeskInv, NEW c \in sent, DeskFail(c) PROVE DeskInv'
<1>0. /\ sent' = sent \ {c} /\ order' = order /\ UNCHANGED <<waits, acts, others>>
      /\ parted' = parted \cup Strays(shown')
  BY DEF DeskFail, Ends
<1>1. PICK d : d = [shown EXCEPT !.busy = FALSE]
  OBVIOUS
<1>2. /\ d \in Shown /\ d.event = shown.event /\ d.seen = shown.seen /\ d.active = shown.active
      /\ d.tab = shown.tab /\ d.drafts = shown.drafts /\ d.dirty = shown.dirty
  BY <1>1 DEF DeskInv, DeskTypes, Shown
<1>3. PICK r \in Shown :
        /\ shown' = r
        /\ r.event = shown.event /\ r.seen = shown.seen
        /\ r.drafts = shown.drafts /\ r.dirty = shown.dirty
        /\ \/ r.active = shown.active /\ r.tab \in {shown.tab, "functions"}
           \/ /\ r.active = c.fn /\ r.tab = "beo" /\ c.fn \in FnIn(c.event)
              /\ c.fn \in parted \/ ~NoneIn(c.fn)
  <2>1. CASE Head(c.steps) = "open"
    <3>1. shown' = Resumed(d, c)
      BY <1>1, <2>1 DEF DeskFail
    <3> QED
      BY <1>2, <2>1, <3>1, ResumedIs
  <2>2. CASE Head(c.steps) # "open"
    <3>1. shown' \in {shown, d}
      BY <1>1, <2>2 DEF DeskFail
    <3>2. shown \in Shown
      BY DEF DeskInv, DeskTypes
    <3>3. CASE shown' = shown
      BY <3>2, <3>3
    <3>4. CASE shown' = d
      BY <1>2, <3>4
    <3> QED
      BY <3>1, <3>3, <3>4
  <2> QED
    BY <2>1, <2>2
<1>4. parted \subseteq parted' /\ parted' \subseteq Fn
  BY <1>0, FnsAre DEF Strays, DeskInv, DeskTypes
<1>5. DeskTypes'
  BY <1>0, <1>3, <1>4 DEF DeskInv, DeskTypes
<1>6. OneWriter' /\ Fresh(shown'.seen, shown'.event)
  BY <1>0, <1>3, <1>4, WriterEnds DEF DeskInv, PageFresh
<1>7. r.active \in FnIn(r.event) \cup {Nobody} \/ FnIn(r.event) \subseteq parted'
  BY <1>0, <1>3 DEF Strays
<1>8. Chosen'
  BY <1>3, <1>7 DEF Chosen
<1>9. OrderIsLoaded'
  <2>1. CASE r.active = shown.active /\ r.tab \in {shown.tab, "functions"}
    BY <1>0, <1>3, <1>4, <2>1, LoadedStays
  <2>2. CASE r.active = c.fn /\ c.fn \in FnIn(c.event) /\ (c.fn \in parted \/ ~NoneIn(c.fn))
    <3>1. CASE c.fn \in FnIn(r.event)
      <4>1. activeFunction' = c.fn
        BY <1>3, <2>2, <3>1 DEF activeFunction
      <4> QED
        BY <1>3, <1>4, <2>2, <4>1 DEF OrderIsLoaded, NoneIn
    <3>2. CASE c.fn \notin FnIn(r.event)
      <4>1. activeFunction' \in FnIn(r.event) \cup {Nobody}
        BY <1>3, <1>5, FnsAre DEF activeFunction, DeskTypes, Shown
      <4>2. OnOrder' => activeFunction' # Nobody
        BY DEF OnOrder
      <4>3. c.fn # Nobody
        BY <2>2, FnsAre
      <4> QED
        BY <1>7, <2>2, <3>2, <4>1, <4>2, <4>3 DEF OrderIsLoaded
    <3> QED
      BY <3>1, <3>2
  <2> QED
    BY <1>3, <2>1, <2>2
<1>10. shown'.drafts = shown.drafts /\ shown'.dirty = shown.dirty
  BY <1>3
<1> QED
  BY <1>0, <1>4, <1>5, <1>6, <1>8, <1>9, <1>10, QuietStep
\* An order whose save was answered is what was written.
LEMMA SavedIs ==
    ASSUME DeskInv, NEW c \in sent, c.served, Head(c.steps) = "patch"
    PROVE  /\ c.fn \in Fn
           /\ c.fn \in shown.dirty =>
                c.fn \in parted \/ shown.drafts[c.fn].text = order[c.fn].text
           /\ c.fn \notin parted => ~NoneIn(c.fn)
BY RequestHolds DEF Patches, Saves

LEMMA UnmarkedIs ==
    ASSUME DeskInv, NEW f \in Fn
    PROVE  \E d \in Shown : /\ [shown EXCEPT !.dirty = @ \ {f}] = d
                            /\ d.event = shown.event /\ d.seen = shown.seen
                            /\ d.active = shown.active /\ d.tab = shown.tab
                            /\ d.drafts = shown.drafts /\ d.dirty = shown.dirty \ {f}
<1>1. PICK d : d = [shown EXCEPT !.dirty = @ \ {f}]
  OBVIOUS
<1>2. /\ d \in Shown /\ d.event = shown.event /\ d.seen = shown.seen /\ d.active = shown.active
      /\ d.tab = shown.tab /\ d.drafts = shown.drafts /\ d.dirty = shown.dirty \ {f}
  BY <1>1 DEF DeskInv, DeskTypes, Shown
<1> QED
  BY <1>1, <1>2

\* The changes were saved, and the request goes on.
LEMMA SaveLands ==
    ASSUME DeskInv, NEW c \in sent, c.served, patchLand(c), c.op # "switch",
           UNCHANGED <<waits, order, acts, others>>
    PROVE  DeskInv'
<1>1. StepsOK(c) /\ SentOK(c) /\ Head(c.steps) = "patch"
  BY RequestHolds DEF patchLand
<1>2. /\ c.fn \in Fn
      /\ c.fn \in shown.dirty => c.fn \in parted \/ shown.drafts[c.fn].text = order[c.fn].text
  BY <1>1, SavedIs
<1>3. PICK d \in Sent : /\ Next1(c) = d
                        /\ d.op = c.op /\ d.fn = c.fn /\ d.event = c.event
                        /\ ~d.served /\ StepsOK(d) /\ ~Patches(d) /\ d.op # "create"
  BY <1>1, NextIs
<1>4. PICK s \in Shown : /\ [shown EXCEPT !.dirty = @ \ {c.fn}] = s
                         /\ s.event = shown.event /\ s.seen = shown.seen
                         /\ s.active = shown.active /\ s.tab = shown.tab
                         /\ s.drafts = shown.drafts /\ s.dirty = shown.dirty \ {c.fn}
  BY <1>2, UnmarkedIs
<1>5. PICK r \in Shown :
        /\ OnItsWay(s, c) = r
        /\ r.event = s.event /\ r.seen = s.seen /\ r.active = s.active
        /\ r.tab = s.tab /\ r.drafts = s.drafts /\ r.dirty = s.dirty
  BY OnItsWayIs
<1>6. shown' = r /\ sent' = (sent \ {c}) \cup {d} /\ parted' = parted /\ order' = order
  BY <1>3, <1>4, <1>5 DEF patchLand, Continues
<1>7. SentOK(d)
  BY <1>1, <1>3 DEF SentOK
<1>8. DeskTypes'
  BY <1>3, <1>5, <1>6 DEF DeskInv, DeskTypes
<1>9. OneWriter' /\ Chosen' /\ Fresh(shown'.seen, shown'.event)
  BY <1>3, <1>4, <1>5, <1>6, WriterGoesOn DEF DeskInv, Chosen, PageFresh
<1>10. OrderIsLoaded'
  BY <1>4, <1>5, <1>6, LoadedStays
<1>11. /\ shown'.drafts = shown.drafts /\ shown'.dirty = shown.dirty \ {c.fn}
       /\ \A e \in sent' : e \in sent \/ SentOK(e)
  BY <1>4, <1>5, <1>6, <1>7
<1> QED
  BY <1>2, <1>6, <1>8, <1>9, <1>10, <1>11, LoadStep

\* The page turns to another function once what was left is saved.
LEMMA SwitchLands ==
    ASSUME DeskInv, NEW c \in sent, c.served, patchLand(c), c.op = "switch",
           UNCHANGED <<waits, order, acts, others>>
    PROVE  DeskInv'
<1>1. /\ StepsOK(c) /\ SentOK(c) /\ Head(c.steps) = "patch" /\ c.event \in BanquetEvent
      /\ c.seen \in [Fn -> Ordered]
  BY RequestHolds DEF patchLand
<1>2. /\ c.fn \in Fn /\ (c.fn \notin parted => ~NoneIn(c.fn))
      /\ c.fn \in shown.dirty => c.fn \in parted \/ shown.drafts[c.fn].text = order[c.fn].text
  BY <1>1, SavedIs
<1>3. PICK f \in Fn, o \in Ordered : f = c.to /\ o = c.seen[f] /\ f \in FnIn(c.event)
  BY <1>1, FnsAre DEF SentOK
<1>4. f \in parted \/ (NoneIn(f) => o.text = order[f].text)
  BY <1>1, <1>3 DEF SentOK, Fresh
<1>5. PICK s \in Shown : /\ [shown EXCEPT !.dirty = @ \ {c.fn}] = s
                         /\ s.event = shown.event /\ s.seen = shown.seen
                         /\ s.active = shown.active /\ s.tab = shown.tab
                         /\ s.drafts = shown.drafts /\ s.dirty = shown.dirty \ {c.fn}
  BY <1>2, UnmarkedIs
<1>6. PICK d : d = [s EXCEPT !.active = f]
  OBVIOUS
<1>7. /\ d \in Shown /\ d.event = shown.event /\ d.seen = shown.seen /\ d.active = f
      /\ d.tab = shown.tab /\ d.drafts = shown.drafts /\ d.dirty = shown.dirty \ {c.fn}
  BY <1>5, <1>6 DEF Shown
<1>8. /\ shown' = Selected(s, f, o) /\ sent' = sent \ {c} /\ order' = order
      /\ parted' = parted \cup Strays(shown') \cup Missed(c)
  BY <1>3, <1>5 DEF patchLand, Ends
<1>9. PICK r \in Shown :
        /\ shown' = r
        /\ r.event = shown.event /\ r.seen = shown.seen /\ r.active = f /\ r.tab = shown.tab
        /\ r.dirty = shown.dirty \ {c.fn} /\ (r.drafts[f] # NoDraft \/ ~Exists(o))
        /\ \A g \in Fn : \/ r.drafts[g] = shown.drafts[g]
                         \/ g = f /\ NoneIn(f) /\ r.drafts[f] # NoDraft /\ r.drafts[f].text = o.text
  <2>1. CASE Exists(o)
    <3>1. PICK r \in Shown :
            /\ Loaded(d, f, o) = r
            /\ r.event = d.event /\ r.seen = d.seen /\ r.active = d.active /\ r.tab = d.tab
            /\ r.dirty = d.dirty /\ r.drafts[f] # NoDraft
            /\ \A g \in Fn : \/ r.drafts[g] = d.drafts[g]
                             \/ g = f /\ d.drafts[f] = NoDraft /\ r.drafts[f].text = o.text
      <4>1. d \in Shown /\ f \in Fn /\ o \in Ordered
        BY <1>7
      <4> QED
        BY <4>1, LoadedIs
    <3>2. shown' = r
      BY <1>6, <1>8, <2>1, <3>1 DEF Selected
    <3> QED
      BY <1>7, <3>1, <3>2 DEF NoneIn
  <2>2. CASE ~Exists(o)
    BY <1>6, <1>7, <1>8, <2>2 DEF Selected
  <2> QED
    BY <2>1, <2>2
<1>10. parted \subseteq parted' /\ parted' \subseteq Fn
  BY <1>3, <1>8, FnsAre DEF Strays, Missed, DeskInv, DeskTypes
<1>11. DeskTypes'
  BY <1>8, <1>9, <1>10 DEF DeskInv, DeskTypes
<1>12. OneWriter' /\ Fresh(shown'.seen, shown'.event)
  BY <1>8, <1>9, <1>10, WriterEnds DEF DeskInv, PageFresh
<1>13. f \in FnIn(r.event) \/ FnIn(r.event) \subseteq parted'
  BY <1>3, <1>8, <1>9, FnsAre DEF Strays
<1>14. Chosen'
  BY <1>9, <1>13 DEF Chosen
<1>15. OrderIsLoaded'
  <2>1. CASE f \in FnIn(r.event)
    <3>1. activeFunction' = f
      BY <1>9, <2>1 DEF activeFunction
    <3>2. Exists(shown.seen[f]) /\ ~Exists(o) /\ NoneIn(f) => f \in parted'
      BY <1>3, <1>8 DEF Missed, NoneIn
    <3>3. OnOrder' => Exists(shown.seen[f])
      BY <1>9, <3>1 DEF OnOrder
    <3> QED
      BY <1>9, <3>1, <3>2, <3>3 DEF OrderIsLoaded, NoneIn
  <2>2. CASE FnIn(r.event) \subseteq parted'
    <3>1. activeFunction' \in FnIn(r.event) \cup {Nobody}
      BY <1>9, <1>11, FnsAre DEF activeFunction, DeskTypes, Shown
    <3>2. OnOrder' => activeFunction' # Nobody
      BY DEF OnOrder
    <3> QED
      BY <2>2, <3>1, <3>2 DEF OrderIsLoaded
  <2> QED
    BY <1>13, <2>1, <2>2
<1>16. \A g \in Fn : \/ shown'.drafts[g] = shown.drafts[g]
                     \/ /\ NoneIn(g) /\ shown'.drafts[g] # NoDraft
                        /\ g \in parted' \/ shown'.drafts[g].text = order[g].text
  BY <1>4, <1>9, <1>10
<1>17. \A g \in shown.dirty \ shown'.dirty : g \in parted' \/ shown'.drafts[g].text = order[g].text
  <2> SUFFICES ASSUME c.fn \in shown.dirty, c.fn \notin parted'
               PROVE  shown'.drafts[c.fn].text = order[c.fn].text
    BY <1>9
  <2>1. ~NoneIn(c.fn) /\ shown.drafts[c.fn].text = order[c.fn].text
    BY <1>2, <1>10
  <2> QED
    BY <1>2, <1>16, <2>1
<1>18. shown'.dirty \subseteq shown.dirty /\ \A e \in sent' : e \in sent
  BY <1>8, <1>9
<1> QED
  BY <1>8, <1>10, <1>11, <1>12, <1>14, <1>15, <1>16, <1>17, <1>18, LoadStep
\* A new order's proposal stands for an order of which nothing is saved.
LEMMA PostLands ==
    ASSUME DeskInv, NEW c \in sent, postLand(c), UNCHANGED <<waits, order, acts, others>>
    PROVE  DeskInv'
<1>1. /\ StepsOK(c) /\ SentOK(c) /\ Head(c.steps) = "post" /\ Head(c.steps) # "open"
      /\ c.op = "create" /\ c.steps \in Steps /\ c.op # "switch"
  BY RequestHolds, StepsAre DEF postLand, Steps, StepsOK
<1>2. PICK f \in Fn : f = c.fn /\ f \in FnIn(c.event)
  BY <1>1, FnsAre DEF SentOK
<1>3. PICK n \in Sent : /\ Next1(c) = n
                        /\ n.op = c.op /\ n.fn = c.fn /\ n.event = c.event
                        /\ ~n.served /\ StepsOK(n) /\ ~Patches(n)
  BY <1>1, NextIs
<1>4. PICK d : d = [shown EXCEPT !.drafts[f] = emptyBeo]
  OBVIOUS
<1>5. /\ d \in Shown /\ d.event = shown.event /\ d.seen = shown.seen /\ d.active = shown.active
      /\ d.tab = shown.tab /\ d.dirty = shown.dirty /\ d.drafts[f] = emptyBeo
      /\ \A g \in Fn : g # f => d.drafts[g] = shown.drafts[g]
  BY <1>4, DraftsAre DEF DeskInv, DeskTypes, Shown
<1>6. PICK r \in Shown :
        /\ OnItsWay(d, c) = r
        /\ r.event = d.event /\ r.seen = d.seen /\ r.active = d.active
        /\ r.tab = d.tab /\ r.drafts = d.drafts /\ r.dirty = d.dirty
  BY <1>5, OnItsWayIs
<1>7. /\ shown' = r /\ sent' = (sent \ {c}) \cup {n} /\ order' = order
      /\ parted' = (IF f \in shown.dirty \/ order[f].text # Blank THEN parted \cup {f} ELSE parted)
  BY <1>2, <1>3, <1>4, <1>6 DEF postLand, Continues
<1>8. /\ parted \subseteq parted' /\ parted' \subseteq Fn
      /\ f \notin parted' => f \notin shown.dirty /\ order[f].text = Blank
  BY <1>7 DEF DeskInv, DeskTypes
<1>9. /\ shown'.event = shown.event /\ shown'.seen = shown.seen /\ shown'.active = shown.active
      /\ shown'.tab = shown.tab /\ shown'.dirty = shown.dirty /\ shown'.drafts[f] = emptyBeo
      /\ \A g \in Fn : g # f => shown'.drafts[g] = shown.drafts[g]
  BY <1>5, <1>6, <1>7
<1>10. DeskTypes' /\ Missing'
  BY <1>3, <1>6, <1>7, <1>8 DEF DeskInv, DeskTypes, Missing
<1>11. Keeps
  BY <1>7, <1>8, <1>9, DraftsAre DEF Keeps, NoneIn
<1>12. DirtyDrafts' /\ Chosen' /\ OneWriter'
  <2>1. DirtyDrafts'
    BY <1>9, DraftsAre DEF DeskInv, DeskTypes, Shown, DirtyDrafts, NoneIn
  <2>2. Chosen'
    BY <1>8, <1>9 DEF DeskInv, Chosen
  <2> QED
    BY <1>3, <1>7, <1>8, <2>1, <2>2, WriterGoesOn
<1>13. SentOrders'
  <2> SUFFICES ASSUME NEW e \in sent'
               PROVE  SentOK(e)'
    BY DEF SentOrders
  <2>1. CASE e = n
    BY <1>1, <1>2, <1>3, <1>9, <2>1, DraftsAre DEF SentOK, NoneIn
  <2>2. CASE e \in sent
    <3>1. /\ e.fn \in Fn \cup {Nobody} /\ StepsOK(e) /\ SentOK(e)
          /\ Patches(e) /\ e.fn \notin parted => Saves(e)
      BY <2>2, RequestHolds
    <3>2. Fresh(e.seen, e.event) => Fresh(e.seen, e.event)'
      <4>1. PICK s, v : s = e.seen /\ v = e.event
        OBVIOUS
      <4>2. Fresh(s, v) => Fresh(s, v)'
        BY <1>11, FreshStays
      <4> QED
        BY <4>1, <4>2 DEF Fresh, NoneIn
    <3>3. Patches(e) /\ e.fn \notin parted' => Saves(e)'
      <4> SUFFICES ASSUME Patches(e), e.fn \notin parted'
                   PROVE  Saves(e)'
        OBVIOUS
      <4>1. Saves(e) /\ e.fn \in Fn
        BY <1>8, <2>2, <3>1, RequestHolds
      <4>2. CASE e.fn # f
        BY <1>7, <1>9, <4>1, <4>2 DEF Saves, NoneIn
      <4>3. CASE e.fn = f
        <5>1. f \notin shown.dirty /\ order[f].text = Blank /\ f \notin parted
          BY <1>8, <4>3
        <5>2. shown.drafts[f].text \in {Blank, Proposed}
          BY <4>1, <4>3, <5>1 DEF DeskInv, DraftsAreSaved, Saves, NoneIn
        <5>3. e.draft.text \in {Blank, Proposed}
          BY <4>1, <4>3, <5>2 DEF Saves
        <5> QED
          BY <1>7, <1>9, <4>1, <4>3, <5>1, <5>3, DraftsAre DEF Saves, NoneIn
      <4> QED
        BY <4>2, <4>3
    <3> QED
      BY <1>11, <3>1, <3>2, <3>3, SentStill DEF DeskInv, Keeps
  <2> QED
    BY <1>7, <2>1, <2>2
<1>14. PageFresh'
  <2>1. PICK s, v : s = shown.seen /\ v = shown.event
    OBVIOUS
  <2>2. Fresh(s, v)'
    BY <1>11, <2>1, FreshStays DEF DeskInv, PageFresh
  <2> QED
    BY <1>9, <2>1, <2>2 DEF PageFresh, Fresh, NoneIn
<1>15. DraftsAreSaved'
  BY <1>7, <1>8, <1>9, DraftsAre DEF DeskInv, DraftsAreSaved
<1>16. OrderIsLoaded'
  <2>1. activeFunction' = activeFunction /\ activeFunction \in Fn \cup {Nobody}
    BY <1>9, ActiveIs, FnsAre DEF activeFunction, DeskInv
  <2>2. OnOrder' => OnOrder /\ activeFunction \in Fn
    BY <1>9, <2>1 DEF OnOrder, On
  <2> QED
    BY <1>8, <1>9, <2>1, <2>2, DraftsAre DEF DeskInv, OrderIsLoaded
<1> QED
  BY <1>10, <1>12, <1>13, <1>14, <1>15, <1>16 DEF DeskInv

LEMMA DeskLands == ASSUME DeskInv, NEW c \in sent, DeskLand(c) PROVE DeskInv'
<1>1. c.served /\ UNCHANGED <<waits, order, acts, others>>
  BY DEF DeskLand
<1> QED
  BY <1>1, EventLands, SaveLands, SwitchLands, PostLands, OtherLands DEF DeskLand
-----------------------------------------------------------------------------
LEMMA InitDesk == ASSUME DeskInit PROVE DeskInv
<1>1. /\ shown.event = Nobody /\ shown.seen = NothingSeen /\ shown.active = Nobody
      /\ shown.tab = "overview" /\ shown.dirty = {} /\ shown.busy = FALSE
      /\ shown.drafts = [f \in Fn |-> NoDraft] /\ parted = {}
  BY DEF DeskInit
<1>2. shown \in Shown
  BY <1>1, DraftsAre DEF DeskInit, Shown
<1>3. order \in [Fn -> Ordered]
  <2> DEFINE Kept == [status : {"DRAFT"}, text : {Blank} \cup Wording, ack : {FALSE}, rows : {0}]
  <2>1. Kept \subseteq Ordered
    <3> SUFFICES ASSUME NEW o \in Kept
                 PROVE  o \in Ordered
      OBVIOUS
    <3>1. PICK st \in {"DRAFT"}, t \in {Blank} \cup Wording, a \in {FALSE}, n \in {0} :
            o = [status |-> st, text |-> t, ack |-> a, rows |-> n]
      BY Zenon
    <3>2. st \in {"MISSING", "DRAFT", "FINAL"} /\ t \in Text /\ a \in BOOLEAN /\ n \in Nat
      BY DEF Text
    <3> QED
      BY <3>1, <3>2 DEF Ordered
  <2>2. order \in [Fn -> {NoOrder} \cup Kept]
    BY DEF DeskInit
  <2> HIDE DEF Kept
  <2> QED
    BY <2>1, <2>2, DraftsAre
<1>4. ASSUME NEW c \in sent
      PROVE  c \in Sent /\ c.op = "open" /\ c.steps = <<"open">> /\ ~c.served
  <2>1. PICK e \in BanquetEvent : c = Call(0, "open", e, Nobody, <<"open">>, emptyBeo)
    BY DEF DeskInit
  <2>2. c = [op |-> "open", id |-> 0, event |-> e, fn |-> Nobody, steps |-> <<"open">>,
             draft |-> emptyBeo, served |-> FALSE, seen |-> NothingSeen, to |-> Nobody]
    BY <2>1 DEF Call
  <2>3. c \in Sent
    BY <2>2, DraftsAre DEF Sent, Op, Steps
  <2> QED
    BY <2>2, <2>3
<1>5. sent \subseteq Sent /\ \A c \in sent : StepsOK(c) /\ SentOK(c) /\ ~Patches(c)
  BY <1>4, StepsAre, StepsDiffer DEF StepsOK, SentOK, Patches
<1>6. DeskTypes
  BY <1>1, <1>2, <1>3, <1>5 DEF DeskInit, DeskTypes
<1>7. Missing
  BY DraftsAre DEF DeskInit, Missing
<1>8. PageFresh /\ Chosen /\ DirtyDrafts
  BY <1>1, FnsAre DEF PageFresh, Fresh, Chosen, DirtyDrafts
<1>9. DraftsAreSaved /\ OrderIsLoaded
  BY <1>1 DEF DraftsAreSaved, OrderIsLoaded, OnOrder, On
<1> QED
  BY <1>5, <1>6, <1>7, <1>8, <1>9 DEF DeskInv, SentOrders, OneWriter

LEMMA StepDesk == ASSUME DeskInv, [DeskNext]_deskVars PROVE DeskInv'
<1>1. CASE UNCHANGED deskVars
  <2>1. order' = order /\ shown' = shown /\ sent' = sent /\ parted' = parted
    BY <1>1 DEF deskVars
  <2>2. DeskTypes' /\ Chosen' /\ OneWriter' /\ Fresh(shown'.seen, shown'.event)
    BY <1>1 DEF deskVars, DeskInv, DeskTypes, Chosen, OneWriter, PageFresh
  <2>3. OrderIsLoaded'
    BY <2>1, LoadedStays
  <2> QED
    BY <2>1, <2>2, <2>3, QuietStep
<1> QED
  BY <1>1, Edits, DeskServes, DeskLands, DeskFails, OtherDesks DEF DeskNext

\* The banquet page's drafts, requests and what it saw agree with what is saved,
\* but where two hands were at it (BanquetsData.tsx:590-800).
THEOREM DeskHolds == DeskSpec => []DeskInv
<1>1. DeskInit => DeskInv
  BY InitDesk
<1>2. DeskInv /\ [DeskNext]_deskVars => DeskInv'
  BY StepDesk
<1> QED
  BY <1>1, <1>2, PTL DEF DeskSpec

\* A draft without changes to save is what is saved, and an order is shown as it
\* was loaded, for any events, functions and any number of requests under way
\* (BanquetsData.tsx:658-731, 761-790).
THEOREM HonestDesk == DeskSpec => []DeskIsHonest
<1>1. DeskInv => DeskIsHonest
  BY DEF DeskInv, DeskIsHonest
<1> QED
  BY <1>1, DeskHolds, PTL
-----------------------------------------------------------------------------
(***************************************************************************)
(* Edits.                                                                  *)
(***************************************************************************)

\* Whatever the editor does counts.
LEMMA EditorActs == ASSUME DeskInv, Editing PROVE acts' # acts
<1>1. ASSUME NEW d, Does(d) PROVE acts' # acts
  BY <1>1 DEF Does, DeskInv, DeskTypes
<1>2. \E d : Does(d)
  <2>1. ASSUME NEW e, openEvent(e) PROVE \E d : Does(d)
    BY <2>1 DEF openEvent
  <2>2. ASSUME NEW tab, clickTab(tab) PROVE \E d : Does(d)
    BY Zenon, <2>2 DEF clickTab
  <2>3. ASSUME NEW f, NEW tab, selectFunction(f, tab) PROVE \E d : Does(d)
    BY Zenon, <2>3 DEF selectFunction
  <2>4. ASSUME NEW f, ensureBeo(f) PROVE \E d : Does(d)
    BY <2>4 DEF ensureBeo
  <2>5. ASSUME NEW t, updateDraft(t) PROVE \E d : Does(d)
    BY Zenon, <2>5 DEF updateDraft
  <2>6. ASSUME NEW op, changeFunction(op) PROVE \E d : Does(d)
    BY <2>6 DEF changeFunction
  <2>7. ASSUME saveBEO \/ finalizeBEO \/ updateRequirement \/ changeEvent PROVE \E d : Does(d)
    BY <2>7 DEF saveBEO, finalizeBEO, updateRequirement, changeEvent
  <2> QED
    BY Zenon, <2>1, <2>2, <2>3, <2>4, <2>5, <2>6, <2>7 DEF Editing
<1> QED
  BY <1>1, <1>2

EditKept ==
    \A f \in Fn \ parted' :
        f \in shown.dirty /\ acts' = acts =>
           /\ shown'.drafts[f] = shown.drafts[f]
           /\ f \in shown'.dirty \/ order[f].text = shown.drafts[f].text

\* A save that landed is of what the page shows, and loads no other draft.
LEMMA KeptBySaves ==
    ASSUME DeskInv, NEW c \in sent, c.served, patchLand(c)
    PROVE  EditKept
<1>1. Head(c.steps) = "patch" /\ parted \subseteq parted'
  BY DEF patchLand
<1>2. /\ c.fn \in Fn
      /\ c.fn \in shown.dirty => c.fn \in parted \/ shown.drafts[c.fn].text = order[c.fn].text
  BY <1>1, SavedIs
<1>3. PICK s \in Shown : /\ [shown EXCEPT !.dirty = @ \ {c.fn}] = s
                         /\ s.drafts = shown.drafts /\ s.dirty = shown.dirty \ {c.fn}
  BY <1>2, UnmarkedIs
<1>4. shown'.dirty = s.dirty /\ \A f \in shown.dirty : shown'.drafts[f] = shown.drafts[f]
  <2>1. CASE c.op = "switch"
    <3>1. PICK f \in Fn, o \in Ordered : f = c.to /\ o = c.seen[f]
      BY <2>1, RequestHolds, FnsAre DEF SentOK
    <3>2. PICK d : d = [s EXCEPT !.active = f]
      OBVIOUS
    <3>3. d \in Shown /\ d.drafts = shown.drafts /\ d.dirty = s.dirty
      BY <1>3, <3>2 DEF Shown
    <3>4. shown' = Selected(s, f, o)
      BY <1>3, <2>1, <3>1 DEF patchLand
    <3>5. CASE Exists(o)
      <4>1. PICK r \in Shown :
              /\ Loaded(d, f, o) = r /\ r.dirty = d.dirty
              /\ \A g \in Fn : \/ r.drafts[g] = d.drafts[g]
                               \/ g = f /\ d.drafts[f] = NoDraft /\ r.drafts[f].text = o.text
        <5>1. d \in Shown /\ f \in Fn /\ o \in Ordered
          BY <3>3
        <5> QED
          BY <5>1, LoadedIs
      <4>2. shown' = r
        BY <3>2, <3>4, <3>5, <4>1 DEF Selected
      <4>3. \A g \in shown.dirty : g \in Fn /\ shown.drafts[g] # NoDraft
        BY DEF DeskInv, DirtyDrafts, NoneIn, DeskTypes, Shown
      <4> QED
        BY <3>3, <4>1, <4>2, <4>3
    <3>6. CASE ~Exists(o)
      BY <3>2, <3>3, <3>4, <3>6 DEF Selected
    <3> QED
      BY <3>5, <3>6
  <2>2. CASE c.op # "switch"
    <3>1. shown' = OnItsWay(s, c)
      BY <1>3, <2>2 DEF patchLand
    <3> QED
      BY <1>3, <3>1, OnItsWayIs
  <2> QED
    BY <2>1, <2>2
<1> QED
  BY <1>1, <1>2, <1>3, <1>4 DEF EditKept

LEMMA KeptByAnswers ==
    ASSUME DeskInv, NEW c \in sent, DeskLand(c) \/ DeskFail(c)
    PROVE  EditKept
<1>1. shown \in Shown
  BY DEF DeskInv, DeskTypes
<1>2. CASE patchLand(c) /\ c.served
  BY <1>2, KeptBySaves
<1>3. CASE eventLand(c)
  <2>1. PICK d : d = [shown EXCEPT !.event = c.event, !.seen = c.seen, !.active = First(c.event),
                                   !.tab = "overview", !.busy = FALSE]
    OBVIOUS
  <2>2. d.drafts = shown.drafts /\ d.dirty = shown.dirty
    BY <1>1, <2>1 DEF Shown
  <2>3. shown' = Resumed(d, c)
    BY <1>3, <2>1 DEF eventLand
  <2>4. shown'.drafts = d.drafts /\ shown'.dirty = d.dirty
    <3>1. d \in [event : {d.event}, seen : {d.seen}, active : {d.active}, tab : {d.tab},
                 drafts : {d.drafts}, dirty : {d.dirty}, busy : {d.busy}]
      BY <1>1, <2>1 DEF Shown
    <3> QED
      BY <2>3, <3>1 DEF Resumed
  <2> QED
    BY <2>2, <2>4 DEF EditKept
<1>4. CASE postLand(c)
  <2>1. PICK f \in Fn : f = c.fn
    <3>1. c.op = "create"
      BY <1>4, RequestHolds, StepsAre DEF postLand, Steps, StepsOK
    <3> QED
      BY <3>1, RequestHolds, FnsAre DEF SentOK
  <2>2. PICK d : d = [shown EXCEPT !.drafts[f] = emptyBeo]
    OBVIOUS
  <2>3. /\ d \in Shown /\ d.dirty = shown.dirty
        /\ \A g \in Fn : g # f => d.drafts[g] = shown.drafts[g]
    BY <1>1, <2>2, DraftsAre DEF Shown
  <2>4. shown' = OnItsWay(d, c) /\ (f \in shown.dirty => f \in parted')
    BY <1>4, <2>1, <2>2 DEF postLand
  <2>5. shown'.drafts = d.drafts /\ shown'.dirty = d.dirty
    BY <2>3, <2>4, OnItsWayIs
  <2> QED
    BY <2>3, <2>4, <2>5 DEF EditKept
<1>5. CASE otherLand(c)
  <2>1. shown'.drafts = shown.drafts /\ shown'.dirty = shown.dirty
    BY <1>1, <1>5, OnItsWayIs DEF otherLand
  <2> QED
    BY <2>1 DEF EditKept
<1>6. CASE DeskFail(c)
  <2>1. PICK d : d = [shown EXCEPT !.busy = FALSE]
    OBVIOUS
  <2>2. d \in Shown /\ d.drafts = shown.drafts /\ d.dirty = shown.dirty
    BY <1>1, <2>1 DEF Shown
  <2>3. shown'.drafts = shown.drafts /\ shown'.dirty = shown.dirty
    <3>1. CASE Head(c.steps) = "open"
      <4>1. shown' = Resumed(d, c)
        BY <1>6, <2>1, <3>1 DEF DeskFail
      <4> QED
        BY <2>2, <3>1, <4>1, ResumedIs
    <3>2. CASE Head(c.steps) # "open"
      <4>1. shown' \in {shown, d}
        BY <1>6, <2>1, <3>2 DEF DeskFail
      <4> QED
        BY <2>2, <4>1
    <3> QED
      BY <3>1, <3>2
  <2> QED
    BY <2>3 DEF EditKept
<1> QED
  BY <1>2, <1>3, <1>4, <1>5, <1>6 DEF DeskLand

\* What was changed and not saved stays as it is until the editor changes it, and
\* is no longer marked only when it is saved, for any number of requests under
\* way, of answers lost or late and of other desks (BanquetsData.tsx:658-731).
THEOREM EditsHold == DeskSpec => EditsAreKept
<1>1. DeskInv /\ [DeskNext]_deskVars => [EditKept]_deskVars
  <2> SUFFICES ASSUME DeskInv, DeskNext
               PROVE  EditKept
    OBVIOUS
  <2>1. CASE Editing
    BY <2>1, EditorActs DEF EditKept
  <2>2. CASE \E c \in sent : DeskServe(c)
    BY <2>2 DEF DeskServe, EditKept
  <2>3. CASE \E c \in sent : DeskLand(c) \/ DeskFail(c)
    BY <2>3, KeptByAnswers
  <2>4. CASE \E f \in Fn : OtherDesk(f)
    BY <2>4 DEF OtherDesk, EditKept
  <2> QED
    BY <2>1, <2>2, <2>3, <2>4 DEF DeskNext
<1> QED
  BY <1>1, DeskHolds, PTL DEF DeskSpec, EditsAreKept, EditKept
=============================================================================
