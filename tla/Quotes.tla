------------------------------- MODULE Quotes -------------------------------
(***************************************************************************)
(* One request on its way from a price to its payments: the party is put   *)
(* in rooms and a promotion's discount is spread over the nights           *)
(* (availability.service.ts), the booking's terms fix its payment points   *)
(* (agent-payment-terms.ts), and payments fill them.                       *)
(***************************************************************************)
EXTENDS PaymentTerms, FiniteSetsExt

CONSTANTS
    Request,     \* what may be asked: nights (cents), discount, party, room, terms, checkIn
    Instalment,  \* sizes of the payments that arrive
    MaxDay       \* bound: days counted, the booking is made on day 0

VARIABLES
    request,   \* what was asked, or None
    quote,     \* the answer
    snapshot,  \* the payment points fixed by the booking
    verified,  \* the verified payments' sum
    today

qvars == <<request, quote, snapshot, verified, today>>
None == <<>>

Least(S) == CHOOSE x \in S : \A y \in S : x <= y
Most(S) == CHOOSE x \in S : \A y \in S : x >= y

-----------------------------------------------------------------------------
\* Mutant: who is left over is forgotten.
AdultsPlaced(a, left, last) == a
AdultsCounted(a, left, last) == IF last THEN a + left ELSE a

\* Rooms are filled one after another, adults first; who is left over at the
\* last room is counted as an adult of it.
distributeOccupancy(party, room) ==
    LET Place(acc, index) ==
          LET a == Least({acc.adults, room.maxAdults, room.maxOccupancy})
              capacity == Most({0, Least({room.maxChildren, room.maxOccupancy - a})})
              bed == Least({acc.withBed, capacity})
              cot == Least({acc.withoutBed, capacity - bed})
              left == (acc.adults - a) + (acc.withBed - bed) + (acc.withoutBed - cot)
          IN  [adults |-> acc.adults - a, withBed |-> acc.withBed - bed,
               withoutBed |-> acc.withoutBed - cot,
               placed |-> Append(acc.placed,
                  [adults |-> AdultsCounted(a, left, index = party.rooms),
                   children |-> bed + cot])]
    IN  FoldLeft(Place, [adults |-> party.adults, withBed |-> party.withBed,
                         withoutBed |-> party.withoutBed, placed |-> <<>>],
                 [i \in 1..party.rooms |-> i]).placed

occupancyValid(placed, room) ==
    \A i \in DOMAIN placed :
        /\ placed[i].adults <= room.maxAdults /\ placed[i].children <= room.maxChildren
        /\ placed[i].adults + placed[i].children <= room.maxOccupancy

\* Mutant: what the last night cannot take is dropped.
TakenByLast(cents, first, left) == first
TakenBack(cents, first, left) ==
    LET Back(acc, i) ==
          LET extra == Most({0, Least({cents[i] - acc.to[i], acc.left})})
          IN  [left |-> acc.left - extra, to |-> [acc.to EXCEPT ![i] = @ + extra]]
    IN  FoldLeft(Back, [left |-> left, to |-> first],
                 [i \in 1..Len(cents) - 1 |-> Len(cents) - i]).to

\* Each night but the last takes its share, rounded to the cent; the last takes
\* what is left, and what it cannot take goes back to the nights before it.
nightDiscounts(cents, discount) ==
    LET n == Len(cents)
        subtotal == SumSeq(cents)
        share == [i \in 1..n |->
                    IF i = n THEN 0
                    ELSE Least({cents[i], (2 * discount * cents[i] + subtotal) \div (2 * subtotal)})]
        rest == discount - SumSeq(share)
        first == [share EXCEPT ![n] = Least({cents[n], rest})]
    IN  IF discount = 0 \/ subtotal = 0 THEN [i \in 1..n |-> 0]
        ELSE TakenBack(cents, first, rest - first[n])

Quoted(r) ==
    LET subtotal == SumSeq(r.nights)
        discount == Least({subtotal, r.discount})
        placed == distributeOccupancy(r.party, r.room)
        off == nightDiscounts(r.nights, discount)
    IN  [placed |-> placed, available |-> occupancyValid(placed, r.room),
         nights |-> [i \in DOMAIN off |-> r.nights[i] - off[i]],
         total |-> subtotal - discount]

-----------------------------------------------------------------------------
Idle == request = None /\ quote = None /\ snapshot = None /\ verified = 0 /\ today = 0

QInit ==
    /\ request \in Request
    /\ quote = None /\ snapshot = None /\ verified = 0 /\ today = 0

QuoteSelection ==
    /\ request # None /\ quote = None
    /\ quote' = Quoted(request)
    /\ UNCHANGED <<request, snapshot, verified, today>>

\* An agent books what was available.
Book ==
    /\ quote # None /\ snapshot = None /\ quote.available
    /\ snapshot' = calculateAgentPaymentSchedule(quote.total, request.checkIn, Daytime(today),
                                               Merged(request.terms))
    /\ UNCHANGED <<request, quote, verified, today>>

\* A payment may not exceed the balance.
Pay(x) ==
    /\ snapshot # None /\ verified + x <= quote.total
    /\ verified' = verified + x
    /\ UNCHANGED <<request, quote, snapshot, today>>

NextDay ==
    /\ snapshot # None /\ today < MaxDay
    /\ today' = today + 1
    /\ UNCHANGED <<request, quote, snapshot, verified>>

QNext == QuoteSelection \/ Book \/ NextDay \/ \E x \in Instalment : Pay(x)

Schedule == calculateReservationPaymentSchedule(snapshot, verified, Daytime(today))

-----------------------------------------------------------------------------
\* Whatever the discount and the rounding, the nights the guest is charged for
\* add up to the total, and no night costs less than nothing: folios, refunds
\* and revenue are taken from the nights (availability.service.ts:186-204).
NightsAddUp ==
    quote # None =>
        /\ SumSeq(quote.nights) = quote.total
        /\ \A i \in DOMAIN quote.nights : quote.nights[i] >= 0

\* Nobody of the party is forgotten when it is put in rooms, and a party of
\* adults is refused only if no arrangement of it fits (availability.service.ts:255-276).
PartyIsPlaced ==
    quote # None =>
        LET p == request.party  r == request.room
        IN  /\ Len(quote.placed) = p.rooms
            /\ SumSeq([i \in 1..p.rooms |-> quote.placed[i].adults + quote.placed[i].children])
                 = p.adults + p.withBed + p.withoutBed
            /\ p.withBed + p.withoutBed = 0 =>
                 (quote.available <=> p.adults <= p.rooms * Least({r.maxAdults, r.maxOccupancy}))

\* The points of the terms add up to the booking's total, and the page asks the
\* agent for exactly what the server will require (booking-pricing.ts:43-54
\* computes it again).
TermsAddUp ==
    snapshot # None =>
        /\ SumSeq([i \in DOMAIN snapshot |-> snapshot[i].amount]) = quote.total
        /\ dueNowForAgentBooking(quote.total, request.checkIn, Daytime(0), Merged(request.terms))
             = requiredAtBooking(snapshot)

\* No payment is lost, none is counted twice, and a point is paid only when
\* every point due before it is (agent-payment-terms.ts:148-190).
OldestDueFirst ==
    snapshot # None =>
        LET s == Schedule
        IN  /\ SumSeq([i \in DOMAIN s |-> s[i].paidAmount]) = verified
            /\ SumSeq([i \in DOMAIN s |-> s[i].outstandingAmount]) = quote.total - verified
            /\ \A i, j \in DOMAIN s :
                 s[i].dueAt < s[j].dueAt /\ s[j].paidAmount > 0 => s[i].status = "PAID"

\* From the quote to the last payment, the parts of a request add up to it:
\* guests by room, prices by night, points of the terms, payments by point.
RequestAddsUp == NightsAddUp /\ PartyIsPlaced /\ TermsAddUp /\ OldestDueFirst
=============================================================================
