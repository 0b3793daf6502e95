------------------------------ MODULE MCRates ------------------------------
\* The administration of the rates, and requests on their way through quote,
\* booking and payment.  The two share no state and are explored side by side:
\* two hotels, two assignments, two admins, two nights; and three families of
\* requests, one for each of discounts, payment terms and parties.
EXTENDS RateBook, Quotes, TLC
CONSTANTS a1, a2, r1, r2
Hotels == {"home", "away"}
Admins == {a1, a2}
TwoRows == {r1, r2}
Prices == {1, 2}
OnePrice == {1}
Sym == Permutations(Admins) \cup Permutations(TwoRows)

Couple == [adults |-> 2, withBed |-> 0, withoutBed |-> 0, rooms |-> 1]
DoubleRoom == [maxAdults |-> 2, maxChildren |-> 1, maxOccupancy |-> 3]
At(p, d) == [pct |-> p, due |-> d]
Terms == {legacyPaymentMilestones("CREDIT", 0), legacyPaymentMilestones("PERCENTAGE", 5000),
          legacyPaymentMilestones("PERCENTAGE", All),
          <<At(3333, OnBooking), At(3333, 2), At(3334, 1)>>,
          <<At(2500, 1), At(2500, OnBooking), At(5000, 1)>>,
          <<At(1000, 0), At(6000, 3), At(3000, 1)>>}
Nightly == UNION {[1..n -> {0, 1, 3, 8}] : n \in 1..4}

Discounted == [nights : Nightly, discount : {0, 1, 2, 5, 9, 40}, party : {Couple},
               room : {DoubleRoom}, terms : {legacyPaymentMilestones("CREDIT", 0)}, checkIn : {3}]
Financed == [nights : {<<1>>, <<7>>, <<4, 7>>}, discount : {0}, party : {Couple},
             room : {DoubleRoom}, terms : Terms, checkIn : 0..3]
Grouped == [nights : {<<1>>}, discount : {0},
            party : [adults : 1..4, withBed : 0..2, withoutBed : 0..2, rooms : 1..3],
            room : [maxAdults : 1..2, maxChildren : 0..2, maxOccupancy : 1..3],
            terms : {legacyPaymentMilestones("CREDIT", 0)}, checkIn : {0}]
Requests == Discounted \cup Financed \cup Grouped
Instalments == {1, 4}

RInit == Init /\ (Idle \/ (QInit /\ canonical))
RNext == \/ request = None /\ Next /\ UNCHANGED qvars
         \/ QNext /\ UNCHANGED vars
RSpec == RInit /\ [][RNext]_<<vars, qvars>>
=============================================================================
