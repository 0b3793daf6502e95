-------------------------------- MODULE Folio --------------------------------
(***************************************************************************)
(* The money of one stay, from check-in to settlement: folio charges and   *)
(* service orders, payments at the desk and their verification, the        *)
(* cashier's shifts, the checkout, and the night audit that closes a day.  *)
(* Every charge is worth one unit, the room RoomTotal.                     *)
(***************************************************************************)
EXTENDS Integers, FiniteSets, FiniteSetsExt

CONSTANTS
    Charge,        \* charges that may be posted
    Ordered,       \* those posted by a service order
    Payment,       \* payments that may be recorded
    Shift,         \* shifts that may be opened
    RoomTotal,     \* the price of the room
    MaxDay,        \* bound: business dates
    MaxRequests,   \* bound: requests between their read and their write
    Amount,        \* what a payment may be worth
    NoShift

ASSUME FolioAssumption ==
    /\ IsFiniteSet(Charge) /\ IsFiniteSet(Payment)
    /\ Ordered \subseteq Charge /\ NoShift \notin Shift
    /\ RoomTotal \in Nat /\ MaxDay \in Nat \ {0} /\ MaxRequests \in Nat \ {0}
    /\ Amount \subseteq Nat \ {0}

VARIABLES
    stay,          \* "CHECKED_IN" or "CHECKED_OUT"
    charge,        \* "none", "POSTED" or "VOIDED"
    order,         \* the same of the service order that posted a charge
    payment,       \* what was recorded of each payment
    balance,       \* the reservation's balanceAmount
    settlement,    \* the snapshot of the checkout
    shift,         \* the cashier's shifts
    day,           \* the hotel's operational date
    closed,        \* the audited days: the payments each counted
    requests       \* requests between their read and their write

stayVars == <<stay, settlement>>
folioVars == <<charge, order>>
deskVars == <<payment, balance>>
auditVars == <<day, closed>>
fvars == <<stay, settlement, charge, order, payment, balance, shift, day, closed, requests>>

NoPayment == [amount |-> 0, cash |-> FALSE, shift |-> NoShift, verified |-> FALSE, paidOn |-> 0]
NoSettlement == [status |-> "none", gross |-> 0]
NotOpened == [status |-> "none", day |-> 0, expected |-> 0]
NotClosed == [done |-> FALSE, payments |-> {}]

Posted == {c \in Charge : charge[c] = "POSTED"}
Verified == {p \in Payment : payment[p].verified}

\* Sums of amounts count units: as many pairs <<x, i>> as f[x] says, for each x.
Units(f, S) == UNION {{x} \X (1..f[x]) : x \in S}
Amounts == [p \in Payment |-> payment[p].amount]
Total(S) == Cardinality(Units(Amounts, S))

\* The one calculation of checkout and desk: what is owed and what is paid.
Gross == RoomTotal + Cardinality(Posted)
Outstanding == Max({Gross - Total(Verified), 0})

OpenShifts == {s \in Shift : shift[s].status = "OPEN"}
\* Mutant: any shift of the day will do.
AnyShift == IF \A s \in Shift : shift[s] = NotOpened THEN NoShift
            ELSE CHOOSE s \in Shift : shift[s] # NotOpened
CurrentShift == IF OpenShifts = {} THEN NoShift ELSE CHOOSE s \in OpenShifts : TRUE

\* A request that reads in one step and writes in a later one.
Request(op, of, read) == [op |-> op, of |-> of, read |-> read]
Arrive(r) ==
    /\ r \notin requests /\ Cardinality(requests) < MaxRequests
    /\ requests' = requests \cup {r}
Finish(r) == r \in requests /\ requests' = requests \ {r}

FInit ==
    /\ stay = "CHECKED_IN" /\ settlement = NoSettlement
    /\ charge = [c \in Charge |-> "none"] /\ order = [c \in Ordered |-> "none"]
    /\ payment = [p \in Payment |-> NoPayment] /\ balance = RoomTotal
    /\ shift = [s \in Shift |-> NotOpened]
    /\ day = 1 /\ closed = [d \in 1..MaxDay |-> NotClosed]
    /\ requests = {}

-----------------------------------------------------------------------------
\* Charges.  The desk and the staff read the stay, then create the row; the
\* key of the request makes a second row of the same charge impossible.
ReadCharge(c) ==
    /\ c \notin Ordered /\ charge[c] = "none" /\ stay # "CHECKED_OUT"
    /\ Arrive(Request("post", c, stay))
    /\ UNCHANGED <<stayVars, folioVars, deskVars, shift, auditVars>>

WriteCharge(c) ==
    /\ \E r \in requests : r.op = "post" /\ r.of = c /\ Finish(r)
    /\ charge' = [charge EXCEPT ![c] = "POSTED"]
    /\ UNCHANGED <<stayVars, order, deskVars, shift, auditVars>>

\* A service order and its charge, in one transaction.
CreateOrder(c) ==
    /\ c \in Ordered /\ order[c] = "none" /\ stay = "CHECKED_IN"
    /\ charge' = [charge EXCEPT ![c] = "POSTED"]
    /\ order' = [order EXCEPT ![c] = "POSTED"]
    /\ UNCHANGED <<stayVars, deskVars, shift, auditVars, requests>>

\* A charge is voided on its own, whatever the stay: read, then the charge,
\* then the order it belonged to when it was read.
ReadVoid(c) ==
    /\ charge[c] = "POSTED"
    /\ Arrive(Request("void", c, IF c \in Ordered THEN order[c] ELSE "none"))
    /\ UNCHANGED <<stayVars, folioVars, deskVars, shift, auditVars>>

WriteVoid(c) ==
    /\ \E r \in requests :
        /\ r.op = "void" /\ r.of = c
        /\ requests' = (requests \ {r}) \cup
                       (IF r.read = "POSTED" THEN {Request("void_order", c, r.read)} ELSE {})
    /\ charge' = [charge EXCEPT ![c] = "VOIDED"]
    /\ UNCHANGED <<stayVars, order, deskVars, shift, auditVars>>

WriteVoidOfOrder(c) ==
    /\ \E r \in requests : r.op = "void_order" /\ r.of = c /\ Finish(r)
    /\ order' = [order EXCEPT ![c] = "VOIDED"]
    /\ UNCHANGED <<stayVars, charge, deskVars, shift, auditVars>>

\* The process ends, or the database refuses: the rest of the request is lost.
Lose(r) ==
    /\ r \in requests /\ requests' = requests \ {r}
    /\ UNCHANGED <<stayVars, folioVars, deskVars, shift, auditVars>>

\* Mutant: the order alone.
VoidOrderOnly(c) ==
    /\ c \in Ordered /\ order[c] = "POSTED"
    /\ order' = [order EXCEPT ![c] = "VOIDED"]
    /\ UNCHANGED <<stayVars, charge, deskVars, shift, auditVars, requests>>

\* An order is voided with its charge.
VoidOrder(c) ==
    /\ c \in Ordered /\ order[c] = "POSTED"
    /\ charge' = [charge EXCEPT ![c] = "VOIDED"]
    /\ order' = [order EXCEPT ![c] = "VOIDED"]
    /\ UNCHANGED <<stayVars, deskVars, shift, auditVars, requests>>

-----------------------------------------------------------------------------
\* Payments.  Cash needs an open shift; whatever is paid goes to that shift.
Record(p, amount, cash, verified) ==
    /\ payment[p] = NoPayment
    /\ cash => CurrentShift # NoShift
    /\ payment' = [payment EXCEPT ![p] =
        [amount |-> amount, cash |-> cash, shift |-> CurrentShift,
         verified |-> verified, paidOn |-> IF verified THEN day ELSE 0]]

PayAtCheckout(p, amount, cash) ==
    /\ stay = "CHECKED_IN" /\ amount <= Outstanding
    /\ Record(p, amount, cash, TRUE)
    /\ UNCHANGED <<stayVars, folioVars, balance, shift, auditVars, requests>>

\* A manual payment waits for its verification; the balance it is tested
\* against is what the last verification left.
PayManually(p, amount, cash) ==
    /\ amount <= balance
    /\ Record(p, amount, cash, FALSE)
    /\ UNCHANGED <<stayVars, folioVars, balance, shift, auditVars, requests>>

\* Mutant: the date of the verification is forgotten.
VerifyUndated(p) ==
    /\ payment[p].amount > 0 /\ ~payment[p].verified
    /\ payment' = [payment EXCEPT ![p].verified = TRUE]
    /\ balance' = Max({RoomTotal - Total(Verified \cup {p}), 0})
    /\ UNCHANGED <<stayVars, folioVars, shift, auditVars, requests>>

\* Mutant: a payment may be verified again.
VerifyAgain(p) ==
    /\ payment[p].amount > 0
    /\ payment' = [payment EXCEPT ![p].verified = TRUE, ![p].paidOn = day]
    /\ balance' = Max({RoomTotal - Total(Verified \cup {p}), 0})
    /\ UNCHANGED <<stayVars, folioVars, shift, auditVars, requests>>

Verify(p) ==
    /\ payment[p].amount > 0 /\ ~payment[p].verified
    /\ payment' = [payment EXCEPT ![p].verified = TRUE, ![p].paidOn = day]
    /\ balance' = Max({RoomTotal - Total(Verified \cup {p}), 0})
    /\ UNCHANGED <<stayVars, folioVars, shift, auditVars, requests>>

-----------------------------------------------------------------------------
\* Checkout: an outstanding balance takes an administrator and a reason.
CheckOut(override) ==
    /\ stay = "CHECKED_IN"
    /\ Outstanding > 0 => override # "none"
    /\ stay' = "CHECKED_OUT"
    /\ settlement' = [gross |-> Gross,
         status |-> CASE Outstanding = 0 -> "SETTLED"
                      [] override = "WRITE_OFF" -> "WRITTEN_OFF"
                      [] OTHER -> "PARTIAL"]
    /\ UNCHANGED <<folioVars, deskVars, shift, auditVars, requests>>

OpenShift(s) ==
    /\ OpenShifts = {} /\ shift[s] = NotOpened
    /\ shift' = [shift EXCEPT ![s] = [status |-> "OPEN", day |-> day, expected |-> 0]]
    /\ UNCHANGED <<stayVars, folioVars, deskVars, auditVars, requests>>

\* The drawer counts what was recorded in the shift, verified or not.
CashOf(s) == Total({p \in Payment : payment[p].shift = s /\ payment[p].cash})

CloseShift(s) ==
    /\ shift[s].status = "OPEN"
    /\ shift' = [shift EXCEPT ![s].status = "CLOSED", ![s].expected = CashOf(s)]
    /\ UNCHANGED <<stayVars, folioVars, deskVars, auditVars, requests>>

\* The night audit closes the current day, once, when its drawer is closed.
OpenToday == {s \in OpenShifts : shift[s].day = day}
PaidOn(d) == {p \in Verified : payment[p].paidOn = d}

CloseDay ==
    /\ closed[day] = NotClosed /\ OpenToday = {}
    /\ closed' = [closed EXCEPT ![day] = [done |-> TRUE, payments |-> PaidOn(day)]]
    /\ UNCHANGED <<stayVars, folioVars, deskVars, shift, day, requests>>

\* Midnight at the hotel.
NextDay ==
    /\ day < MaxDay /\ day' = day + 1
    /\ UNCHANGED <<stayVars, folioVars, deskVars, shift, closed, requests>>

FNext ==
    \/ \E c \in Charge :
        \/ ReadCharge(c) \/ WriteCharge(c) \/ CreateOrder(c)
        \/ ReadVoid(c) \/ WriteVoid(c) \/ WriteVoidOfOrder(c) \/ VoidOrder(c)
    \/ \E r \in requests : Lose(r)
    \/ \E p \in Payment :
        \/ \E amount \in Amount, cash \in BOOLEAN :
            PayAtCheckout(p, amount, cash) \/ PayManually(p, amount, cash)
        \/ Verify(p)
    \/ \E override \in {"none", "WRITE_OFF", "APPROVED"} : CheckOut(override)
    \/ \E s \in Shift : OpenShift(s) \/ CloseShift(s)
    \/ CloseDay \/ NextDay

-----------------------------------------------------------------------------
\* Every variable has its type; a settled stay is checked out.
FolioTypeOK ==
    /\ stay \in {"CHECKED_IN", "CHECKED_OUT"}
    /\ settlement.status # "none" <=> stay = "CHECKED_OUT"
    /\ settlement.status \in {"none", "SETTLED", "WRITTEN_OFF", "PARTIAL"}
    /\ charge \in [Charge -> {"none", "POSTED", "VOIDED"}]
    /\ order \in [Ordered -> {"none", "POSTED", "VOIDED"}]
    /\ \A p \in Payment :
        /\ payment[p].amount \in Nat /\ payment[p].shift \in Shift \cup {NoShift}
        /\ payment[p].paidOn \in 0..MaxDay
        /\ payment[p].verified <=> payment[p].paidOn > 0
    /\ balance \in 0..RoomTotal /\ day \in 1..MaxDay
    /\ Cardinality(OpenShifts) <= 1
    /\ Cardinality(requests) <= MaxRequests

\* What a closed shift expects in its drawer is the cash recorded in it,
\* however payments, verifications and the closing interleave: no payment
\* enters a drawer that is counted.
DrawerMatches ==
    \A s \in Shift : shift[s].status = "CLOSED" => shift[s].expected = CashOf(s)

\* No payment is in the summaries of two audited days, nor in that of a day on
\* which it was not paid, though it may be recorded on one day and verified,
\* or verified again, on the next.
CountedInOneDay ==
    \A d, e \in 1..MaxDay :
        /\ closed[d].payments \subseteq PaidOn(d)
        /\ d # e => closed[d].payments \cap closed[e].payments = {}

\* A service order that is voided is not on the guest's folio: the two rows are
\* voided by two paths, one of which may be cut between its writes.
VoidedOrdersAreNotCharged ==
    \A c \in Ordered : order[c] = "VOIDED" => charge[c] = "VOIDED"

\* Every payment is counted in the drawer of one shift and the summary of at
\* most one day, whatever is recorded and verified while they close; and what is
\* voided is not charged.
FolioIsSound == FolioTypeOK /\ DrawerMatches /\ CountedInOneDay /\ VoidedOrdersAreNotCharged
=============================================================================
