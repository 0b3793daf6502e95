--------------------------- MODULE BackOfficeProofs ---------------------------
(***************************************************************************)
(* Theorems about Folio and TaxDocuments for every set of charges,         *)
(* payments and shifts, however many requests overlap: the drawers, the    *)
(* audited days, the folio, and the documents of a settled stay.           *)
(***************************************************************************)
EXTENDS TaxDocuments, FiniteSetTheorems, TLAPS

-----------------------------------------------------------------------------
(***************************************************************************)
(* Sums are cardinalities of sets of units, so that no induction is needed *)
(* to compare them.                                                        *)
(***************************************************************************)

\* Bounded amounts of finitely many things add up to a natural number.
LEMMA UnitsFinite ==
    ASSUME NEW f, NEW S, IsFiniteSet(S), NEW n \in Nat,
           \A x \in S : f[x] \in Nat /\ f[x] <= n
    PROVE  IsFiniteSet(Units(f, S)) /\ Cardinality(Units(f, S)) \in Nat
<1>1. IsFiniteSet(1..n)
  BY FS_Interval
<1>2. IsFiniteSet(S \X (1..n))
  BY <1>1, FS_Product
<1>3. Units(f, S) \in SUBSET (S \X (1..n))
  <2>1. ASSUME NEW u \in Units(f, S)
        PROVE  u \in S \X (1..n)
    <3>1. PICK x \in S : u \in {x} \X (1..f[x])
      BY <2>1 DEF Units
    <3>2. f[x] \in Nat /\ f[x] <= n
      OBVIOUS
    <3>3. 1..f[x] \subseteq 1..n
      BY <3>2
    <3> QED
      BY <3>1, <3>3
  <2> QED
    BY <2>1
<1>4. IsFiniteSet(Units(f, S))
  BY <1>2, <1>3, FS_Subset
<1> QED
  BY <1>4, FS_CardinalityType

\* Only the amounts of what is counted matter.
LEMMA UnitsFrame ==
    ASSUME NEW f, NEW g, NEW S, \A x \in S : f[x] = g[x]
    PROVE  Units(f, S) = Units(g, S)
BY DEF Units

\* What counts more things, for the same amounts, is no less.
LEMMA UnitsGrow ==
    ASSUME NEW f, NEW S, NEW T, S \subseteq T, IsFiniteSet(Units(f, T))
    PROVE  Cardinality(Units(f, S)) <= Cardinality(Units(f, T))
<1>1. Units(f, S) \in SUBSET Units(f, T)
  BY DEF Units
<1> QED
  BY <1>1, FS_Subset

\* The larger of a number and nought.
LEMMA MaxNought ==
    ASSUME NEW n \in Int
    PROVE  /\ Max({n, 0}) \in Nat
           /\ n <= Max({n, 0})
           /\ Max({n, 0}) > 0 => Max({n, 0}) = n
<1>1. \E x \in {n, 0} : \A y \in {n, 0} : x >= y
  <2>1. CASE n >= 0
    BY <2>1
  <2>2. CASE ~(n >= 0)
    BY <2>2
  <2> QED
    BY <2>1, <2>2
<1>2. /\ Max({n, 0}) \in {n, 0}
      /\ \A y \in {n, 0} : Max({n, 0}) >= y
  BY <1>1 DEF Max
<1> QED
  BY <1>2

\* The most that a note may ask of a line.
LEMMA MostOfLine == Max({RoomTotal, 1}) \in Nat
<1>1. RoomTotal \in Nat
  BY FolioAssumption
<1>2. \E x \in {RoomTotal, 1} : \A y \in {RoomTotal, 1} : x >= y
  <2>1. CASE RoomTotal >= 1
    BY <1>1, <2>1
  <2>2. CASE ~(RoomTotal >= 1)
    BY <1>1, <2>2
  <2> QED
    BY <2>1, <2>2
<1>3. Max({RoomTotal, 1}) \in {RoomTotal, 1}
  BY <1>2 DEF Max
<1> QED
  BY <1>1, <1>3

-----------------------------------------------------------------------------
(***************************************************************************)
(* The parts of the inductive invariant.                                   *)
(***************************************************************************)

StayTypes ==
    /\ stay \in {"CHECKED_IN", "CHECKED_OUT"}
    /\ settlement \in [status : {"none", "SETTLED", "WRITTEN_OFF", "PARTIAL"}, gross : Nat]
    /\ settlement.status # "none" <=> stay = "CHECKED_OUT"

\* What a request read still says something when it is written: no row goes
\* back to "none", and a voided charge of an order is not posted again.
Standing(r) ==
    /\ r.op \in {"post", "void", "void_order", "credit", "cancel"}
    /\ r.op = "post" => r.of \in Charge \ Ordered
    /\ r.op = "void" => /\ r.of \in Charge
                        /\ r.read = "POSTED" => r.of \in Ordered /\ order[r.of] # "none"
    /\ r.op = "void_order" => /\ r.of \in Ordered
                              /\ charge[r.of] = "VOIDED" /\ order[r.of] # "none"
    /\ r.op = "credit" => /\ r.read \in [Line -> 0..Max({RoomTotal, 1})]
                          /\ invoice.status # "none"
    /\ r.op = "cancel" => invoice.status # "none"

RowsInv ==
    /\ charge \in [Charge -> {"none", "POSTED", "VOIDED"}]
    /\ order \in [Ordered -> {"none", "POSTED", "VOIDED"}]
    /\ VoidedOrdersAreNotCharged
    /\ IsFiniteSet(requests) /\ Cardinality(requests) <= MaxRequests
    /\ \A r \in requests : Standing(r)

PaymentType == [amount : Nat, cash : BOOLEAN, shift : Shift \cup {NoShift},
                verified : BOOLEAN, paidOn : 0..MaxDay]

\* Amounts are bounded, so that their sums are numbers.
DeskInv ==
    /\ payment \in [Payment -> PaymentType]
    /\ \E n \in Nat : \A p \in Payment : payment[p].amount <= n
    /\ \A p \in Payment : payment[p].verified <=> payment[p].paidOn > 0
    /\ balance \in 0..RoomTotal
    /\ day \in 1..MaxDay

DrawerInv ==
    /\ shift \in [Shift -> [status : {"none", "OPEN", "CLOSED"}, day : 0..MaxDay, expected : Nat]]
    /\ \A s, t \in OpenShifts : s = t
    /\ DrawerMatches

DayInv ==
    /\ closed \in [1..MaxDay -> [done : BOOLEAN, payments : SUBSET Payment]]
    /\ \A d \in 1..MaxDay : closed[d].payments \subseteq PaidOn(d)

\* The settlement was paid when it was made, and the invoice is for what was
\* settled; the notes are bounded.
TaxInv ==
    /\ settlement.status = "SETTLED" => settlement.gross <= Total(Verified)
    /\ invoice \in [status : {"none", "ISSUED", "CANCELLED"}, lines : [Line -> Nat]]
    /\ invoice.status # "none" =>
         settlement.status = "SETTLED" /\ Sum(invoice.lines) = settlement.gross
    /\ credited \in [Line -> Nat]
    /\ \E n \in Nat : \A l \in Line : credited[l] <= n

BackInv == StayTypes /\ RowsInv /\ DeskInv /\ DrawerInv /\ DayInv /\ TaxInv
-----------------------------------------------------------------------------
(***************************************************************************)
(* The actions by the part of the state they change.                       *)
(***************************************************************************)

Charging ==
    \/ \E c \in Charge :
        \/ ReadCharge(c) \/ WriteCharge(c) \/ CreateOrder(c)
        \/ ReadVoid(c) \/ WriteVoid(c) \/ WriteVoidOfOrder(c) \/ VoidOrder(c)
    \/ \E r \in requests : Lose(r)
Paying == \E p \in Payment :
    \/ \E amount \in Amount, cash \in BOOLEAN :
        PayAtCheckout(p, amount, cash) \/ PayManually(p, amount, cash)
    \/ Verify(p)
Leaving == \E override \in {"none", "WRITE_OFF", "APPROVED"} : CheckOut(override)
Counting == \E s \in Shift : OpenShift(s) \/ CloseShift(s)
Closing == CloseDay \/ NextDay
Documenting == ReadCancel \/ WriteCancel \/ ReadCredit \/ WriteCredit

\* Charging leaves the stay, the payments, the shifts and the days alone.
LEMMA ChargingFrame == Charging => UNCHANGED <<stayVars, deskVars, shift, auditVars>>
<1>1. ASSUME NEW c \in Charge
      PROVE  /\ ReadCharge(c) => UNCHANGED <<stayVars, deskVars, shift, auditVars>>
             /\ WriteCharge(c) => UNCHANGED <<stayVars, deskVars, shift, auditVars>>
             /\ CreateOrder(c) => UNCHANGED <<stayVars, deskVars, shift, auditVars>>
             /\ ReadVoid(c) => UNCHANGED <<stayVars, deskVars, shift, auditVars>>
             /\ WriteVoid(c) => UNCHANGED <<stayVars, deskVars, shift, auditVars>>
             /\ WriteVoidOfOrder(c) => UNCHANGED <<stayVars, deskVars, shift, auditVars>>
             /\ VoidOrder(c) => UNCHANGED <<stayVars, deskVars, shift, auditVars>>
  <2>1. ReadCharge(c) => UNCHANGED <<stayVars, deskVars, shift, auditVars>>
    BY DEF ReadCharge
  <2>2. WriteCharge(c) => UNCHANGED <<stayVars, deskVars, shift, auditVars>>
    BY DEF WriteCharge
  <2>3. CreateOrder(c) => UNCHANGED <<stayVars, deskVars, shift, auditVars>>
    BY DEF CreateOrder
  <2>4. ReadVoid(c) => UNCHANGED <<stayVars, deskVars, shift, auditVars>>
    BY DEF ReadVoid
  <2>5. WriteVoid(c) => UNCHANGED <<stayVars, deskVars, shift, auditVars>>
    BY DEF WriteVoid
  <2>6. WriteVoidOfOrder(c) => UNCHANGED <<stayVars, deskVars, shift, auditVars>>
    BY DEF WriteVoidOfOrder
  <2>7. VoidOrder(c) => UNCHANGED <<stayVars, deskVars, shift, auditVars>>
    BY DEF VoidOrder
  <2> QED
    BY <2>1, <2>2, <2>3, <2>4, <2>5, <2>6, <2>7
<1>2. ASSUME NEW r \in requests
      PROVE  Lose(r) => UNCHANGED <<stayVars, deskVars, shift, auditVars>>
  BY DEF Lose
<1> QED
  BY <1>1, <1>2 DEF Charging

\* Paying leaves everything but the payments and the balance alone.
LEMMA PayingFrame == Paying => UNCHANGED <<stayVars, folioVars, shift, auditVars, requests>>
<1>1. ASSUME NEW p \in Payment, NEW amount \in Amount, NEW cash \in BOOLEAN
      PROVE  /\ PayAtCheckout(p, amount, cash)
                  => UNCHANGED <<stayVars, folioVars, shift, auditVars, requests>>
             /\ PayManually(p, amount, cash)
                  => UNCHANGED <<stayVars, folioVars, shift, auditVars, requests>>
  BY DEF PayAtCheckout, PayManually
<1>2. ASSUME NEW p \in Payment
      PROVE  Verify(p) => UNCHANGED <<stayVars, folioVars, shift, auditVars, requests>>
  BY DEF Verify
<1> QED
  BY <1>1, <1>2 DEF Paying

\* A checkout changes the stay and its settlement only.
LEMMA LeavingFrame == Leaving => UNCHANGED <<folioVars, deskVars, shift, auditVars, requests>>
BY DEF Leaving, CheckOut

\* A shift opens and closes on its own.
LEMMA CountingFrame == Counting => UNCHANGED <<stayVars, folioVars, deskVars, auditVars, requests>>
BY DEF Counting, OpenShift, CloseShift

\* So do the days.
LEMMA ClosingFrame == Closing => UNCHANGED <<stayVars, folioVars, deskVars, shift, requests>>
BY DEF Closing, CloseDay, NextDay

\* Notes and cancellations leave the stay and the desk alone.
LEMMA DocumentingFrame ==
    Documenting => UNCHANGED <<stayVars, folioVars, deskVars, shift, auditVars>>
BY DEF Documenting, ReadCancel, WriteCancel, ReadCredit, WriteCredit

\* Every step is one of these, the issue of the invoice, or none.
LEMMA Steps ==
    ASSUME [TNext]_tvars
    PROVE  \/ (Charging \/ Paying \/ Leaving \/ Counting \/ Closing)
                /\ UNCHANGED <<invoice, credited>>
           \/ Documenting
           \/ Issue
           \/ UNCHANGED tvars
<1>1. FNext => Charging \/ Paying \/ Leaving \/ Counting \/ Closing
  BY DEF FNext, Charging, Paying, Leaving, Counting, Closing
<1> QED
  BY <1>1 DEF TNext, Documenting

\* The frames of a step, by the part of the state.
LEMMA Changes ==
    ASSUME [TNext]_tvars
    PROVE  /\ Leaving \/ UNCHANGED stayVars
           /\ Paying \/ UNCHANGED deskVars
           /\ Counting \/ UNCHANGED shift
           /\ Closing \/ UNCHANGED auditVars
           /\ Charging \/ Documenting \/ UNCHANGED <<folioVars, requests>>
           /\ Issue \/ Documenting \/ UNCHANGED <<invoice, credited>>
<1>1. Issue => UNCHANGED <<stayVars, folioVars, deskVars, shift, auditVars, requests>>
  BY DEF Issue, fvars, stayVars, folioVars, deskVars, auditVars
<1>2. UNCHANGED tvars => UNCHANGED <<stayVars, folioVars, deskVars, shift, auditVars, requests,
                                     invoice, credited>>
  BY DEF tvars, fvars, stayVars, folioVars, deskVars, auditVars
<1> QED
  BY <1>1, <1>2, Steps, ChargingFrame, PayingFrame, LeavingFrame, CountingFrame, ClosingFrame,
     DocumentingFrame
-----------------------------------------------------------------------------
(***************************************************************************)
(* Types of what the actions compute.                                      *)
(***************************************************************************)

\* The folio's gross is a natural number.
LEMMA GrossType ==
    Gross \in Nat
<1>1. Posted \in SUBSET Charge
  BY DEF Posted
<1>2. IsFiniteSet(Posted)
  BY <1>1, FS_Subset, FolioAssumption
<1> QED
  BY <1>2, FS_CardinalityType, FolioAssumption DEF Gross

\* So is what any payments add up to.
LEMMA TotalType ==
    ASSUME DeskInv, NEW S, S \subseteq Payment
    PROVE  IsFiniteSet(Units(Amounts, S)) /\ Total(S) \in Nat
<1>1. PICK n \in Nat : \A p \in Payment : payment[p].amount <= n
  BY DEF DeskInv
<1>2. IsFiniteSet(S)
  BY FS_Subset, FolioAssumption
<1>3. \A p \in S : Amounts[p] \in Nat /\ Amounts[p] <= n
  BY <1>1 DEF Amounts, DeskInv, PaymentType
<1> QED
  BY <1>2, <1>3, UnitsFinite DEF Total

\* And what is outstanding; when it is nought, the gross is paid.
LEMMA OutstandingType ==
    ASSUME DeskInv
    PROVE  /\ Outstanding \in Nat
           /\ Outstanding = 0 => Gross <= Total(Verified)
<1>1. Total(Verified) \in Nat
  BY TotalType DEF Verified
<1>2. Gross - Total(Verified) \in Int
  BY <1>1, GrossType
<1>3. DEFINE n == Gross - Total(Verified)
<1>4. n \in Int /\ Outstanding = Max({n, 0})
  BY <1>2 DEF Outstanding
<1>5. Outstanding \in Nat /\ n <= Outstanding
  <2> HIDE DEF n
  <2> QED
    BY <1>4, MaxNought
<1> QED
  BY <1>1, <1>5, GrossType

\* The room's balance stays between nought and its price.
LEMMA BalanceType ==
    ASSUME DeskInv, NEW S, S \subseteq Payment
    PROVE  Max({RoomTotal - Total(S), 0}) \in 0..RoomTotal
<1>1. Total(S) \in Nat /\ RoomTotal \in Nat
  BY TotalType, FolioAssumption
<1>2. DEFINE n == RoomTotal - Total(S)
<1>3. n \in Int /\ n <= RoomTotal
  BY <1>1
<1>4. /\ Max({n, 0}) \in Nat
      /\ Max({n, 0}) > 0 => Max({n, 0}) = n
  <2> HIDE DEF n
  <2> QED
    BY <1>3, MaxNought
<1>5. Max({n, 0}) \in 0..RoomTotal
  <2> HIDE DEF n
  <2> QED
    BY <1>1, <1>3, <1>4
<1> QED
  BY <1>5

-----------------------------------------------------------------------------
(***************************************************************************)
(* Each part of the invariant is kept by every step.                       *)
(***************************************************************************)

\* A stay has a settlement from its checkout on.
LEMMA StayStep ==
    ASSUME StayTypes, DeskInv, [TNext]_tvars
    PROVE  StayTypes'
<1>1. CASE Leaving
  <2>1. PICK override \in {"none", "WRITE_OFF", "APPROVED"} : CheckOut(override)
    BY <1>1 DEF Leaving
  <2>2. /\ stay' = "CHECKED_OUT"
        /\ settlement' = [gross |-> Gross,
             status |-> CASE Outstanding = 0 -> "SETTLED"
                          [] override = "WRITE_OFF" -> "WRITTEN_OFF"
                          [] OTHER -> "PARTIAL"]
    BY <2>1 DEF CheckOut
  <2>3. settlement'.status \in {"SETTLED", "WRITTEN_OFF", "PARTIAL"}
    BY <2>2
  <2>4. settlement' \in [status : {"none", "SETTLED", "WRITTEN_OFF", "PARTIAL"}, gross : Nat]
    BY <2>2, GrossType
  <2> QED
    BY <2>2, <2>3, <2>4 DEF StayTypes
<1>2. CASE UNCHANGED stayVars
  BY <1>2 DEF stayVars, StayTypes
<1> QED
  BY <1>1, <1>2, Changes

\* What was paid has its type, and is verified on a date.
LEMMA DeskStep ==
    ASSUME DeskInv, DrawerInv, [TNext]_tvars
    PROVE  DeskInv'
<1>1. day' \in 1..MaxDay
  <2>1. CASE NextDay
    BY <2>1, FolioAssumption DEF NextDay, DeskInv
  <2>2. CASE CloseDay \/ UNCHANGED auditVars
    BY <2>2 DEF CloseDay, auditVars, DeskInv
  <2> QED
    BY <2>1, <2>2, Changes DEF Closing
<1>2. CASE UNCHANGED deskVars
  BY <1>1, <1>2 DEF DeskInv, deskVars
<1>3. CASE Paying
  <2>1. ASSUME NEW p \in Payment, NEW amount \in Amount, NEW cash \in BOOLEAN,
               NEW verified \in BOOLEAN, Record(p, amount, cash, verified), UNCHANGED balance
        PROVE  DeskInv'
    <3>1. CurrentShift \in Shift \cup {NoShift}
      BY DEF CurrentShift, OpenShifts
    <3>2. DEFINE row == [amount |-> amount, cash |-> cash, shift |-> CurrentShift,
                         verified |-> verified, paidOn |-> IF verified THEN day ELSE 0]
    <3>3. payment' = [payment EXCEPT ![p] = row]
      BY <2>1 DEF Record
    <3>4. row \in PaymentType
      <4>1. amount \in Nat
        BY FolioAssumption
      <4>2. (IF verified THEN day ELSE 0) \in 0..MaxDay
        BY FolioAssumption DEF DeskInv
      <4> QED
        BY <4>1, <4>2, <3>1 DEF PaymentType
    <3>5. row.verified <=> row.paidOn > 0
      BY DEF DeskInv
    <3>6. row.amount = amount /\ amount \in Nat
      BY FolioAssumption
    <3>7. payment' \in [Payment -> PaymentType]
      BY <3>3, <3>4 DEF DeskInv
    <3>8. \A q \in Payment : payment'[q] = IF q = p THEN row ELSE payment[q]
      BY <3>3 DEF DeskInv
    <3>9. \A q \in Payment : payment'[q].verified <=> payment'[q].paidOn > 0
      BY <3>5, <3>8 DEF DeskInv
    <3>10. \E n \in Nat : \A q \in Payment : payment'[q].amount <= n
      <4>1. PICK n \in Nat : \A q \in Payment : payment[q].amount <= n
        BY DEF DeskInv
      <4>2. \A q \in Payment : payment[q].amount \in Nat
        BY DEF DeskInv, PaymentType
      <4>3. \A q \in Payment : payment'[q].amount <= n + amount
        <5> HIDE DEF row
        <5> QED
          BY <3>6, <3>8, <4>1, <4>2
      <4> QED
        BY <3>6, <4>3
    <3> QED
      BY <1>1, <2>1, <3>7, <3>9, <3>10 DEF DeskInv
  <2>2. ASSUME NEW p \in Payment, Verify(p)
        PROVE  DeskInv'
    <3>1. /\ payment' = [payment EXCEPT ![p].verified = TRUE, ![p].paidOn = day]
          /\ balance' = Max({RoomTotal - Total(Verified \cup {p}), 0})
      BY <2>2 DEF Verify
    <3>2. balance' \in 0..RoomTotal
      BY <3>1, BalanceType DEF Verified
    <3>3. payment[p] \in PaymentType /\ day \in 0..MaxDay /\ day > 0
      BY DEF DeskInv
    <3>4. /\ payment' \in [Payment -> PaymentType]
          /\ payment'[p].verified = TRUE /\ payment'[p].paidOn = day
          /\ payment'[p].amount = payment[p].amount
          /\ \A q \in Payment \ {p} : payment'[q] = payment[q]
      BY <3>1, <3>3 DEF DeskInv, PaymentType
    <3>5. \A q \in Payment : payment'[q].verified <=> payment'[q].paidOn > 0
      BY <3>3, <3>4 DEF DeskInv
    <3>6. \E n \in Nat : \A q \in Payment : payment'[q].amount <= n
      BY <3>4 DEF DeskInv
    <3> QED
      BY <1>1, <3>2, <3>4, <3>5, <3>6 DEF DeskInv
  <2>3. ASSUME NEW p \in Payment, NEW amount \in Amount, NEW cash \in BOOLEAN,
               PayAtCheckout(p, amount, cash) \/ PayManually(p, amount, cash)
        PROVE  DeskInv'
    <3>1. UNCHANGED balance
      BY <2>3 DEF PayAtCheckout, PayManually
    <3>2. CASE Record(p, amount, cash, TRUE)
      BY <2>1, <3>1, <3>2
    <3>3. CASE Record(p, amount, cash, FALSE)
      BY <2>1, <3>1, <3>3
    <3> QED
      BY <2>3, <3>2, <3>3 DEF PayAtCheckout, PayManually
  <2> QED
    BY <1>3, <2>2, <2>3 DEF Paying
<1> QED
  BY <1>2, <1>3, Changes
\* A payment keeps what was recorded of it, a verified one all of it; new cash
\* goes into an open drawer.
LEMMA PaymentsKept ==
    ASSUME DeskInv, [TNext]_tvars, NEW p \in Payment
    PROVE  /\ payment[p] # NoPayment =>
                /\ payment'[p].amount = payment[p].amount
                /\ payment'[p].shift = payment[p].shift
                /\ payment'[p].cash = payment[p].cash
           /\ payment[p].verified => payment'[p] = payment[p]
           /\ payment[p] = NoPayment /\ payment'[p].cash => payment'[p].shift \in OpenShifts
<1>1. CASE UNCHANGED deskVars
  BY <1>1 DEF deskVars, NoPayment
<1>2. ASSUME NEW q \in Payment, NEW amount \in Amount, NEW cash \in BOOLEAN,
             NEW verified \in BOOLEAN, Record(q, amount, cash, verified)
      PROVE  /\ p # q => payment'[p] = payment[p]
             /\ payment[q] = NoPayment
             /\ payment'[q].cash => payment'[q].shift \in OpenShifts
  <2>1. payment' = [payment EXCEPT ![q] =
          [amount |-> amount, cash |-> cash, shift |-> CurrentShift,
           verified |-> verified, paidOn |-> IF verified THEN day ELSE 0]]
    BY <1>2 DEF Record
  <2>2. /\ payment'[q].cash = cash /\ payment'[q].shift = CurrentShift
        /\ p # q => payment'[p] = payment[p]
    BY <2>1 DEF DeskInv
  <2>3. CurrentShift # NoShift => CurrentShift \in OpenShifts
    BY DEF CurrentShift
  <2> QED
    BY <1>2, <2>2, <2>3 DEF Record
<1>3. NoPayment.verified = FALSE /\ NoPayment.cash = FALSE
  BY DEF NoPayment
<1>4. ASSUME NEW q \in Payment, Verify(q)
      PROVE  /\ p # q => payment'[p] = payment[p]
             /\ ~payment[q].verified /\ payment[q] # NoPayment
             /\ payment'[q].amount = payment[q].amount
             /\ payment'[q].shift = payment[q].shift
             /\ payment'[q].cash = payment[q].cash
  <2>1. /\ payment' = [payment EXCEPT ![q].verified = TRUE, ![q].paidOn = day]
        /\ payment[q].amount > 0 /\ ~payment[q].verified
    BY <1>4 DEF Verify
  <2>2. payment[q] # NoPayment
    BY <2>1 DEF NoPayment
  <2>3. payment[q] \in PaymentType
    BY DEF DeskInv
  <2> QED
    BY <2>1, <2>2, <2>3 DEF DeskInv, PaymentType
<1>5. ASSUME NEW q \in Payment, NEW amount \in Amount, NEW cash \in BOOLEAN,
             PayAtCheckout(q, amount, cash) \/ PayManually(q, amount, cash)
      PROVE  Record(q, amount, cash, TRUE) \/ Record(q, amount, cash, FALSE)
  BY <1>5 DEF PayAtCheckout, PayManually
<1>6. CASE Paying
  <2>1. ASSUME NEW q \in Payment, NEW amount \in Amount, NEW cash \in BOOLEAN,
               PayAtCheckout(q, amount, cash) \/ PayManually(q, amount, cash)
        PROVE  /\ p # q => payment'[p] = payment[p]
               /\ payment[q] = NoPayment
               /\ payment'[q].cash => payment'[q].shift \in OpenShifts
    BY <2>1, <1>5, <1>2
  <2>2. CASE \E q \in Payment, amount \in Amount, cash \in BOOLEAN :
               PayAtCheckout(q, amount, cash) \/ PayManually(q, amount, cash)
    <3>1. PICK q \in Payment : /\ p # q => payment'[p] = payment[p]
                               /\ payment[q] = NoPayment
                               /\ payment'[q].cash => payment'[q].shift \in OpenShifts
      BY <2>1, <2>2
    <3> QED
      BY <3>1, <1>3
  <2>3. CASE \E q \in Payment : Verify(q)
    BY <1>3, <1>4, <2>3
  <2> QED
    BY <1>6, <2>2, <2>3 DEF Paying
<1> QED
  BY <1>1, <1>6, Changes

\* So the cash of a drawer that is not open stays what it is.
LEMMA CashKept ==
    ASSUME DeskInv, [TNext]_tvars, NEW s, s \notin OpenShifts
    PROVE  CashOf(s)' = CashOf(s)
<1>1. DEFINE S == {p \in Payment : payment[p].shift = s /\ payment[p].cash}
             T == {p \in Payment : payment'[p].shift = s /\ payment'[p].cash}
<1>2. \A p \in Payment : p \in S <=> p \in T
  <2>1. NoPayment.cash = FALSE
    BY DEF NoPayment
  <2> QED
    BY <2>1, PaymentsKept
<1>3. S = T
  BY <1>2
<1>4. \A p \in S : Amounts[p] = (Amounts')[p]
  <2>1. \A p \in S : payment[p] # NoPayment
    BY DEF NoPayment
  <2>2. \A p \in S : payment'[p].amount = payment[p].amount
    BY <2>1, PaymentsKept
  <2> QED
    BY <2>2 DEF Amounts
<1>5. Units(Amounts, S) = Units(Amounts', S)
  <2> HIDE DEF S
  <2> QED
    BY <1>4, UnitsFrame
<1> QED
  BY <1>3, <1>5 DEF CashOf, Total, Units

\* One drawer is open at a time; a closed one expects what it took.
LEMMA DrawerStep ==
    ASSUME DeskInv, DrawerInv, [TNext]_tvars
    PROVE  DrawerInv'
<1>1. CASE UNCHANGED shift
  <2>1. OpenShifts' = OpenShifts
    BY <1>1 DEF OpenShifts
  <2>2. ASSUME NEW s \in Shift, shift[s].status = "CLOSED"
        PROVE  shift'[s].expected = CashOf(s)'
    <3>1. s \notin OpenShifts
      BY <2>2 DEF OpenShifts
    <3> QED
      BY <1>1, <2>2, <3>1, CashKept DEF DrawerInv, DrawerMatches
  <2> QED
    BY <1>1, <2>1, <2>2 DEF DrawerInv, DrawerMatches
<1>2. ASSUME NEW s \in Shift, OpenShift(s)
      PROVE  DrawerInv'
  <2>1. /\ OpenShifts = {}
        /\ shift' = [shift EXCEPT ![s] = [status |-> "OPEN", day |-> day, expected |-> 0]]
    BY <1>2 DEF OpenShift
  <2>2. day \in 0..MaxDay
    BY DEF DeskInv
  <2>3. /\ shift'[s] = [status |-> "OPEN", day |-> day, expected |-> 0]
        /\ \A t \in Shift \ {s} : shift'[t] = shift[t]
        /\ shift' \in [Shift -> [status : {"none", "OPEN", "CLOSED"}, day : 0..MaxDay,
                                 expected : Nat]]
    BY <2>1, <2>2 DEF DrawerInv
  <2>4. \A t, u \in OpenShifts' : t = u
    BY <2>1, <2>3 DEF OpenShifts
  <2>5. ASSUME NEW t \in Shift, shift'[t].status = "CLOSED"
        PROVE  shift'[t].expected = CashOf(t)'
    <3>1. t # s /\ shift[t].status = "CLOSED" /\ shift'[t] = shift[t]
      BY <2>3, <2>5
    <3> QED
      BY <2>1, <3>1, CashKept DEF DrawerInv, DrawerMatches
  <2> QED
    BY <2>3, <2>4, <2>5 DEF DrawerInv, DrawerMatches
<1>3. ASSUME NEW s \in Shift, CloseShift(s)
      PROVE  DrawerInv'
  <2>1. /\ shift[s].status = "OPEN"
        /\ shift' = [shift EXCEPT ![s].status = "CLOSED", ![s].expected = CashOf(s)]
        /\ UNCHANGED payment
    BY <1>3 DEF CloseShift, deskVars
  <2>2. CashOf(s) \in Nat
    BY TotalType DEF CashOf
  <2>3. \A t \in Shift : CashOf(t)' = CashOf(t)
    BY <2>1 DEF CashOf, Total, Units, Amounts
  <2>4. /\ shift'[s].status = "CLOSED" /\ shift'[s].expected = CashOf(s)
        /\ \A t \in Shift \ {s} : shift'[t] = shift[t]
        /\ shift' \in [Shift -> [status : {"none", "OPEN", "CLOSED"}, day : 0..MaxDay,
                                 expected : Nat]]
    BY <2>1, <2>2 DEF DrawerInv
  <2>5. \A t, u \in OpenShifts' : t = u
    BY <2>4 DEF OpenShifts, DrawerInv
  <2> QED
    BY <2>3, <2>4, <2>5 DEF DrawerInv, DrawerMatches
<1> QED
  BY <1>1, <1>2, <1>3, Changes DEF Counting

\* A closed day's payments were paid on it, and stay so.
LEMMA DayStep ==
    ASSUME DeskInv, DayInv, [TNext]_tvars
    PROVE  DayInv'
<1>1. \A d \in 1..MaxDay : PaidOn(d) \subseteq PaidOn(d)'
  BY PaymentsKept DEF PaidOn, Verified
<1>2. CASE UNCHANGED closed
  BY <1>1, <1>2 DEF DayInv
<1>3. CASE CloseDay
  <2>1. closed' = [closed EXCEPT ![day] = [done |-> TRUE, payments |-> PaidOn(day)]]
    BY <1>3 DEF CloseDay
  <2>2. day \in 1..MaxDay /\ PaidOn(day) \in SUBSET Payment
    BY DEF DeskInv, PaidOn, Verified
  <2>3. /\ closed'[day].payments = PaidOn(day)
        /\ \A d \in (1..MaxDay) \ {day} : closed'[d] = closed[d]
        /\ closed' \in [1..MaxDay -> [done : BOOLEAN, payments : SUBSET Payment]]
    BY <2>1, <2>2 DEF DayInv
  <2>4. \A d \in 1..MaxDay : closed'[d].payments \subseteq PaidOn(d)
    BY <2>3 DEF DayInv
  <2> QED
    BY <1>1, <2>3, <2>4 DEF DayInv
<1> QED
  BY <1>2, <1>3, Changes DEF Closing, NextDay, auditVars
\* No row of an order that exists is undone, and no invoice.
RowsForward ==
    /\ \A c \in Ordered : /\ order[c] # "none" => order'[c] # "none"
                          /\ order[c] # "none" /\ charge[c] = "VOIDED" => charge'[c] = "VOIDED"
    /\ invoice.status # "none" => invoice'.status # "none"

\* Then a request in flight stands as it did.
LEMMA StandingKept ==
    ASSUME RowsForward, NEW r, Standing(r)
    PROVE  r.op \in {"post", "void", "void_order", "credit", "cancel"}
           /\ (r.op = "post" => r.of \in Charge \ Ordered)
           /\ (r.op = "void" => /\ r.of \in Charge
                                /\ r.read = "POSTED" => r.of \in Ordered /\ order'[r.of] # "none")
           /\ (r.op = "void_order" => /\ r.of \in Ordered
                                      /\ charge'[r.of] = "VOIDED" /\ order'[r.of] # "none")
           /\ (r.op = "credit" => /\ r.read \in [Line -> 0..Max({RoomTotal, 1})]
                                  /\ invoice'.status # "none")
           /\ (r.op = "cancel" => invoice'.status # "none")
BY DEF RowsForward, Standing

\* A request that arrives or leaves keeps the requests bounded.
LEMMA ArriveBounds ==
    ASSUME IsFiniteSet(requests), Cardinality(requests) <= MaxRequests, NEW r, Arrive(r)
    PROVE  IsFiniteSet(requests') /\ Cardinality(requests') <= MaxRequests
<1>1. /\ r \notin requests /\ Cardinality(requests) < MaxRequests
      /\ requests' = requests \cup {r}
  BY DEF Arrive
<1>2. IsFiniteSet(requests') /\ Cardinality(requests') = Cardinality(requests) + 1
  BY <1>1, FS_AddElement
<1>3. Cardinality(requests) \in Nat
  BY FS_CardinalityType
<1> QED
  BY <1>1, <1>2, <1>3, FolioAssumption

\* One that is served leaves them bounded.
LEMMA FinishBounds ==
    ASSUME IsFiniteSet(requests), Cardinality(requests) <= MaxRequests,
           requests' \subseteq requests
    PROVE  IsFiniteSet(requests') /\ Cardinality(requests') <= MaxRequests
<1>1. requests' \in SUBSET requests
  OBVIOUS
<1>2. IsFiniteSet(requests') /\ Cardinality(requests') <= Cardinality(requests)
  BY <1>1, FS_Subset
<1>3. Cardinality(requests) \in Nat /\ Cardinality(requests') \in Nat
  BY <1>2, FS_CardinalityType
<1> QED
  BY <1>2, <1>3, FolioAssumption

\* A charge's void that leaves the void of its order behind is still one request.
LEMMA ReplaceBounds ==
    ASSUME IsFiniteSet(requests), Cardinality(requests) <= MaxRequests,
           NEW r \in requests, NEW q, requests' = (requests \ {r}) \cup {q}
    PROVE  IsFiniteSet(requests') /\ Cardinality(requests') <= MaxRequests
<1>1. IsFiniteSet(requests \ {r}) /\ Cardinality(requests \ {r}) = Cardinality(requests) - 1
  BY FS_RemoveElement
<1>2. Cardinality(requests) \in Nat
  BY FS_CardinalityType
<1>3. IsFiniteSet((requests \ {r}) \cup {q})
      /\ Cardinality((requests \ {r}) \cup {q}) \in {Cardinality(requests) - 1, Cardinality(requests)}
  BY <1>1, <1>2, FS_AddElement
<1> QED
  BY <1>2, <1>3, FolioAssumption

\* The rows move forward in every step.
LEMMA RowsMove ==
    ASSUME RowsInv, TaxInv, [TNext]_tvars
    PROVE  /\ RowsForward
           /\ charge' \in [Charge -> {"none", "POSTED", "VOIDED"}]
           /\ order' \in [Ordered -> {"none", "POSTED", "VOIDED"}]
           /\ \A c \in Ordered : order'[c] = "VOIDED" => charge'[c] = "VOIDED"
<1> DEFINE Moved ==
    /\ charge' \in [Charge -> {"none", "POSTED", "VOIDED"}]
    /\ order' \in [Ordered -> {"none", "POSTED", "VOIDED"}]
    /\ \A c \in Ordered : /\ order[c] # "none" => order'[c] # "none"
                          /\ order[c] # "none" /\ charge[c] = "VOIDED" => charge'[c] = "VOIDED"
                          /\ order'[c] = "VOIDED" => charge'[c] = "VOIDED"
<1>1. invoice.status # "none" => invoice'.status # "none"
  <2>1. CASE Issue
    BY <2>1 DEF Issue
  <2>2. CASE Documenting
    BY <2>2 DEF Documenting, ReadCancel, WriteCancel, ReadCredit, WriteCredit, TaxInv
  <2>3. CASE UNCHANGED <<invoice, credited>>
    BY <2>3
  <2> QED
    BY <2>1, <2>2, <2>3, Changes
<1> USE FolioAssumption
<1>2. ASSUME UNCHANGED folioVars
      PROVE  Moved
  BY <1>2 DEF folioVars, RowsInv, VoidedOrdersAreNotCharged
<1>3. ASSUME NEW c \in Charge, WriteCharge(c)
      PROVE  Moved
  <2>1. PICK r \in requests : r.op = "post" /\ r.of = c
    BY <1>3 DEF WriteCharge
  <2>2. c \notin Ordered
    BY <2>1 DEF RowsInv, Standing
  <2> QED
    BY <1>3, <2>2 DEF WriteCharge, RowsInv, VoidedOrdersAreNotCharged
<1>4. ASSUME NEW c \in Charge, CreateOrder(c)
      PROVE  Moved
  BY <1>4 DEF CreateOrder, RowsInv, VoidedOrdersAreNotCharged
<1>5. ASSUME NEW c \in Charge, WriteVoid(c)
      PROVE  Moved
  <2>1. charge' = [charge EXCEPT ![c] = "VOIDED"] /\ UNCHANGED order
    BY <1>5 DEF WriteVoid
  <2> QED
    BY <2>1 DEF RowsInv, VoidedOrdersAreNotCharged
<1>6. ASSUME NEW c \in Charge, WriteVoidOfOrder(c)
      PROVE  Moved
  <2>1. PICK r \in requests : r.op = "void_order" /\ r.of = c
    BY <1>6 DEF WriteVoidOfOrder
  <2>2. c \in Ordered /\ charge[c] = "VOIDED"
    BY <2>1 DEF RowsInv, Standing
  <2>3. order' = [order EXCEPT ![c] = "VOIDED"] /\ UNCHANGED charge
    BY <1>6 DEF WriteVoidOfOrder
  <2> QED
    BY <2>2, <2>3 DEF RowsInv, VoidedOrdersAreNotCharged
<1>7. ASSUME NEW c \in Charge, VoidOrder(c)
      PROVE  Moved
  BY <1>7 DEF VoidOrder, RowsInv, VoidedOrdersAreNotCharged
<1>8. ASSUME NEW c \in Charge, ReadCharge(c) \/ ReadVoid(c)
      PROVE  UNCHANGED folioVars
  BY <1>8 DEF ReadCharge, ReadVoid, folioVars
<1>9. ASSUME NEW r \in requests, Lose(r)
      PROVE  UNCHANGED folioVars
  BY <1>9 DEF Lose, folioVars
<1>10. ASSUME Charging
      PROVE  Moved
  <2> HIDE DEF Moved
  <2> QED
    BY <1>10, <1>2, <1>3, <1>4, <1>5, <1>6, <1>7, <1>8, <1>9 DEF Charging
<1>11. Moved
  <2> HIDE DEF Moved
  <2> QED
    BY <1>2, <1>10, Changes, DocumentingFrame
<1> QED
  BY <1>1, <1>11 DEF RowsForward
\* A request that arrives leaves the others standing.
LEMMA ArriveStands ==
    ASSUME RowsInv, RowsForward, NEW q, Arrive(q), Standing(q)
    PROVE  /\ IsFiniteSet(requests') /\ Cardinality(requests') <= MaxRequests
           /\ \A r \in requests' : Standing(r)'
<1>1. requests' = requests \cup {q}
  BY DEF Arrive
<1>2. \A r \in requests : Standing(r)
  BY DEF RowsInv
<1>3. ASSUME NEW r \in requests'
      PROVE  Standing(r)'
  <2>1. Standing(r)
    BY <1>1, <1>2, <1>3
  <2> QED
    BY <2>1, StandingKept DEF Standing, Line
<1>4. IsFiniteSet(requests) /\ Cardinality(requests) <= MaxRequests
  BY DEF RowsInv
<1> QED
  BY <1>3, <1>4, ArriveBounds

\* One that is served leaves those that remain standing.
LEMMA FinishStands ==
    ASSUME RowsInv, RowsForward, requests' \subseteq requests
    PROVE  /\ IsFiniteSet(requests') /\ Cardinality(requests') <= MaxRequests
           /\ \A r \in requests' : Standing(r)'
<1>1. ASSUME NEW r \in requests'
      PROVE  Standing(r)'
  <2>1. Standing(r)
    BY <1>1 DEF RowsInv
  <2> QED
    BY <2>1, StandingKept DEF Standing, Line
<1>2. IsFiniteSet(requests) /\ Cardinality(requests) <= MaxRequests
  BY DEF RowsInv
<1> QED
  BY <1>1, <1>2, FinishBounds

\* Whatever overlaps, a voided order is not charged.
LEMMA RowsStep ==
    ASSUME RowsInv, TaxInv, [TNext]_tvars
    PROVE  RowsInv'
<1> DEFINE Served ==
    /\ IsFiniteSet(requests') /\ Cardinality(requests') <= MaxRequests
    /\ \A r \in requests' : Standing(r)'
<1>1. RowsForward
  BY RowsMove
<1>2. ASSUME requests' \subseteq requests
      PROVE  Served
  BY <1>1, <1>2, FinishStands
<1>3. ASSUME NEW c \in Charge, ReadCharge(c)
      PROVE  Served
  <2>1. /\ Arrive(Request("post", c, stay)) /\ c \notin Ordered
    BY <1>3 DEF ReadCharge
  <2>2. Standing(Request("post", c, stay))
    BY <2>1 DEF Standing, Request
  <2> QED
    BY <1>1, <2>1, <2>2, ArriveStands
<1>4. ASSUME NEW c \in Charge, ReadVoid(c)
      PROVE  Served
  <2>1. PICK read : /\ read = IF c \in Ordered THEN order[c] ELSE "none"
                    /\ Arrive(Request("void", c, read))
    BY <1>4 DEF ReadVoid
  <2>2. Standing(Request("void", c, read))
    BY <2>1 DEF Standing, Request
  <2> QED
    BY <1>1, <2>1, <2>2, ArriveStands
<1>5. ASSUME NEW c \in Charge, WriteVoid(c)
      PROVE  Served
  <2>1. PICK r \in requests :
          /\ r.op = "void" /\ r.of = c
          /\ requests' = (requests \ {r}) \cup
               (IF r.read = "POSTED" THEN {Request("void_order", c, r.read)} ELSE {})
    BY <1>5 DEF WriteVoid
  <2>2. CASE r.read # "POSTED"
    BY <1>2, <2>1, <2>2
  <2>3. CASE r.read = "POSTED"
    <3>1. DEFINE q == Request("void_order", c, r.read)
    <3>2. requests' = (requests \ {r}) \cup {q}
      BY <2>1, <2>3
    <3>3. Standing(r) /\ charge \in [Charge -> {"none", "POSTED", "VOIDED"}]
      BY <2>1 DEF RowsInv
    <3>4. c \in Ordered /\ order[c] # "none"
      BY <2>1, <2>3, <3>3 DEF Standing
    <3>5. charge'[c] = "VOIDED" /\ order'[c] # "none"
      BY <1>5, <3>3, <3>4 DEF WriteVoid
    <3>6. q.op = "void_order" /\ q.of = c
      BY DEF Request
    <3>7. Standing(q)'
      <4> HIDE DEF q
      <4> QED
        BY <3>4, <3>5, <3>6 DEF Standing
    <3>8. ASSUME NEW s \in requests
          PROVE  Standing(s)'
      <4>1. Standing(s)
        BY DEF RowsInv
      <4> QED
        BY <1>1, <4>1, StandingKept DEF Standing, Line
    <3>9. IsFiniteSet(requests') /\ Cardinality(requests') <= MaxRequests
      <4>1. IsFiniteSet(requests) /\ Cardinality(requests) <= MaxRequests
        BY DEF RowsInv
      <4> HIDE DEF q
      <4> QED
        BY <3>2, <4>1, ReplaceBounds
    <3> HIDE DEF q
    <3> QED
      BY <3>2, <3>7, <3>8, <3>9
  <2> QED
    BY <2>2, <2>3
<1>6. ASSUME NEW c \in Charge, WriteCharge(c) \/ CreateOrder(c) \/ WriteVoidOfOrder(c) \/ VoidOrder(c)
      PROVE  requests' \subseteq requests
  <2>1. WriteCharge(c) => requests' \subseteq requests
    BY DEF WriteCharge, Finish
  <2>2. CreateOrder(c) => requests' \subseteq requests
    BY DEF CreateOrder
  <2>3. WriteVoidOfOrder(c) => requests' \subseteq requests
    BY DEF WriteVoidOfOrder, Finish
  <2>4. VoidOrder(c) => requests' \subseteq requests
    BY DEF VoidOrder
  <2> QED
    BY <1>6, <2>1, <2>2, <2>3, <2>4
<1>7. ASSUME NEW r \in requests, Lose(r)
      PROVE  requests' \subseteq requests
  BY <1>7 DEF Lose
<1>8. ASSUME ReadCancel
      PROVE  Served
  <2>1. Arrive(Request("cancel", Room, Nothing)) /\ invoice.status = "ISSUED"
    BY <1>8 DEF ReadCancel
  <2>2. Standing(Request("cancel", Room, Nothing))
    BY <2>1 DEF Standing, Request
  <2> QED
    BY <1>1, <2>1, <2>2, ArriveStands
<1>9. ASSUME ReadCredit
      PROVE  Served
  <2>1. PICK note \in Notes : Arrive(Request("credit", Room, note))
    BY <1>9 DEF ReadCredit
  <2>2. invoice.status = "ISSUED" /\ note \in [Line -> 0..Max({RoomTotal, 1})]
    BY <1>9, <2>1 DEF ReadCredit, Notes
  <2>3. Standing(Request("credit", Room, note))
    BY <2>2 DEF Standing, Request
  <2> QED
    BY <1>1, <2>1, <2>3, ArriveStands
<1>10. ASSUME WriteCancel \/ WriteCredit
       PROVE  requests' \subseteq requests
  <2>1. WriteCancel => requests' \subseteq requests
    BY DEF WriteCancel, Finish
  <2>2. WriteCredit => requests' \subseteq requests
    BY DEF WriteCredit, Finish
  <2> QED
    BY <1>10, <2>1, <2>2
<1>11. Served
  <2> HIDE DEF Served
  <2>1. CASE Charging
    BY <2>1, <1>2, <1>3, <1>4, <1>5, <1>6, <1>7 DEF Charging
  <2>2. CASE Documenting
    BY <2>2, <1>2, <1>8, <1>9, <1>10 DEF Documenting
  <2>3. CASE UNCHANGED <<folioVars, requests>>
    BY <2>3, <1>2
  <2> QED
    BY <2>1, <2>2, <2>3, Changes
<1>12. charge' \in [Charge -> {"none", "POSTED", "VOIDED"}]
       /\ order' \in [Ordered -> {"none", "POSTED", "VOIDED"}]
       /\ \A c \in Ordered : order'[c] = "VOIDED" => charge'[c] = "VOIDED"
  BY RowsMove
<1> QED
  BY <1>11, <1>12 DEF RowsInv, VoidedOrdersAreNotCharged
\* What is verified only grows.
LEMMA PaidGrows ==
    ASSUME DeskInv, DeskInv', [TNext]_tvars
    PROVE  /\ Total(Verified) \in Nat /\ Total(Verified)' \in Nat
           /\ Total(Verified) <= Total(Verified)'
<1>1. Total(Verified) \in Nat
  BY TotalType DEF Verified
<1>2. DEFINE S == Verified
             T == Verified'
             f == Amounts
             g == Amounts'
<1>3. S \subseteq T /\ T \subseteq Payment
  BY PaymentsKept DEF Verified
<1>4. \A p \in S : f[p] = g[p]
  BY PaymentsKept DEF Verified, Amounts
<1>5. PICK n \in Nat : \A p \in Payment : payment'[p].amount <= n
  BY DEF DeskInv
<1>6. \A p \in T : g[p] \in Nat /\ g[p] <= n
  BY <1>3, <1>5 DEF Amounts, DeskInv, PaymentType
<1>7. IsFiniteSet(T)
  BY <1>3, FS_Subset, FolioAssumption
<1>8. Total(Verified) = Cardinality(Units(f, S)) /\ Total(Verified)' = Cardinality(Units(g, T))
  BY DEF Total, Units
<1>9. /\ Cardinality(Units(g, T)) \in Nat
      /\ Cardinality(Units(f, S)) <= Cardinality(Units(g, T))
  <2> HIDE DEF S, T, f, g
  <2>1. IsFiniteSet(Units(g, T)) /\ Cardinality(Units(g, T)) \in Nat
    BY <1>6, <1>7, UnitsFinite
  <2>2. Units(f, S) = Units(g, S)
    BY <1>4, UnitsFrame
  <2>3. Cardinality(Units(g, S)) <= Cardinality(Units(g, T))
    BY <1>3, <2>1, UnitsGrow
  <2> QED
    BY <2>1, <2>2, <2>3
<1> QED
  BY <1>1, <1>8, <1>9

\* What was settled stays paid, and invoiced as it was settled.
LEMMA TaxStep ==
    ASSUME StayTypes, RowsInv, DeskInv, DeskInv', TaxInv, [TNext]_tvars
    PROVE  TaxInv'
<1>1. settlement'.status = "SETTLED" => settlement'.gross <= Total(Verified)'
  <2>1. CASE UNCHANGED stayVars
    <3>1. UNCHANGED settlement /\ settlement.gross \in Nat
      BY <2>1 DEF stayVars, StayTypes
    <3> QED
      BY <3>1, PaidGrows DEF TaxInv
  <2>2. CASE Leaving
    <3>1. PICK override \in {"none", "WRITE_OFF", "APPROVED"} : CheckOut(override)
      BY <2>2 DEF Leaving
    <3>2. settlement' = [gross |-> Gross,
             status |-> CASE Outstanding = 0 -> "SETTLED"
                          [] override = "WRITE_OFF" -> "WRITTEN_OFF"
                          [] OTHER -> "PARTIAL"]
      BY <3>1 DEF CheckOut
    <3>3. settlement'.status = "SETTLED" => Outstanding = 0
      BY <3>2
    <3>4. settlement'.gross = Gross
      BY <3>2
    <3> QED
      BY <3>3, <3>4, OutstandingType, PaidGrows, GrossType
  <2> QED
    BY <2>1, <2>2, Changes
<1>2. Lines \in [Line -> Nat]
  BY FolioAssumption DEF Lines
<1>3. invoice' \in [status : {"none", "ISSUED", "CANCELLED"}, lines : [Line -> Nat]]
  <2>1. CASE Issue
    BY <2>1, <1>2 DEF Issue
  <2>2. CASE Documenting
    <3>1. CASE WriteCancel
      BY <3>1 DEF WriteCancel, TaxInv
    <3>2. CASE ReadCancel \/ ReadCredit \/ WriteCredit
      BY <3>2 DEF ReadCancel, ReadCredit, WriteCredit, TaxInv
    <3> QED
      BY <2>2, <3>1, <3>2 DEF Documenting
  <2>3. CASE UNCHANGED <<invoice, credited>>
    BY <2>3 DEF TaxInv
  <2> QED
    BY <2>1, <2>2, <2>3, Changes
<1>4. invoice'.status # "none" =>
        settlement'.status = "SETTLED" /\ Sum(invoice'.lines) = settlement'.gross
  <2>1. CASE Issue
    BY <2>1 DEF Issue, fvars
  <2>2. CASE Documenting
    <3>1. UNCHANGED settlement
      BY <2>2, DocumentingFrame DEF stayVars
    <3>2. CASE WriteCancel
      <4>1. PICK r \in requests : r.op = "cancel"
        BY <3>2 DEF WriteCancel
      <4>2. invoice.status # "none"
        BY <4>1 DEF RowsInv, Standing
      <4>3. invoice'.lines = invoice.lines
        BY <3>2 DEF WriteCancel, TaxInv
      <4> QED
        BY <3>1, <4>2, <4>3 DEF TaxInv
    <3>3. CASE ReadCancel \/ ReadCredit \/ WriteCredit
      BY <3>1, <3>3 DEF ReadCancel, ReadCredit, WriteCredit, TaxInv
    <3> QED
      BY <2>2, <3>2, <3>3 DEF Documenting
  <2>3. CASE UNCHANGED <<invoice, credited>> /\ UNCHANGED stayVars
    BY <2>3 DEF TaxInv, stayVars
  <2>4. CASE UNCHANGED <<invoice, credited>> /\ Leaving
    <3>1. stay = "CHECKED_IN"
      BY <2>4 DEF Leaving, CheckOut
    <3>2. settlement.status = "none"
      BY <3>1 DEF StayTypes
    <3> QED
      BY <2>4, <3>2 DEF TaxInv
  <2> QED
    BY <2>1, <2>2, <2>3, <2>4, Changes
<1>5. /\ credited' \in [Line -> Nat]
      /\ \E n \in Nat : \A l \in Line : credited'[l] <= n
  <2>1. CASE WriteCredit
    <3>1. PICK r \in requests : r.op = "credit" /\ credited' = [l \in Line |-> credited[l] + r.read[l]]
      BY <2>1 DEF WriteCredit
    <3>2. r.read \in [Line -> 0..Max({RoomTotal, 1})]
      BY <3>1 DEF RowsInv, Standing
    <3>3. PICK n \in Nat : \A l \in Line : credited[l] <= n
      BY DEF TaxInv
    <3>4. PICK m \in Nat : m = Max({RoomTotal, 1})
      BY MostOfLine
    <3>5. \A l \in Line : r.read[l] \in Nat /\ r.read[l] <= m
      <4>1. PICK note : note = r.read /\ note \in [Line -> 0..m]
        BY <3>2, <3>4
      <4>2. \A l \in Line : note[l] \in 0..m
        BY <4>1
      <4> QED
        BY <4>1, <4>2
    <3>6. \A l \in Line : credited[l] \in Nat
      BY DEF TaxInv
    <3>7. \A l \in Line : credited'[l] = credited[l] + r.read[l]
      BY <3>1
    <3>8. \A l \in Line : credited'[l] \in Nat /\ credited'[l] <= n + m
      BY <3>3, <3>5, <3>6, <3>7
    <3>9. credited' \in [Line -> Nat]
      BY <3>1, <3>5, <3>6
    <3> QED
      BY <3>8, <3>9
  <2>2. CASE UNCHANGED credited
    BY <2>2 DEF TaxInv
  <2>3. Issue \/ ReadCancel \/ WriteCancel \/ ReadCredit => UNCHANGED credited
    BY DEF Issue, ReadCancel, WriteCancel, ReadCredit
  <2> QED
    BY <2>1, <2>2, <2>3, Changes DEF Documenting
<1> QED
  BY <1>1, <1>3, <1>4, <1>5 DEF TaxInv, Sum, Units, Line

-----------------------------------------------------------------------------
(***************************************************************************)
(* The theorems.                                                           *)
(***************************************************************************)

\* The empty hotel of Init satisfies every part of the invariant.
LEMMA BackInit == TInit => BackInv
<1> SUFFICES ASSUME TInit
             PROVE  BackInv
  OBVIOUS
<1> USE DEF TInit, FInit
<1>1. StayTypes
  BY DEF StayTypes, NoSettlement
<1>2. RowsInv
  BY FS_EmptySet, FolioAssumption DEF RowsInv, VoidedOrdersAreNotCharged
<1>3. DeskInv
  <2>1. NoPayment \in PaymentType
    BY FolioAssumption DEF NoPayment, PaymentType
  <2>2. \A p \in Payment : payment[p] = NoPayment
    OBVIOUS
  <2>3. \A p \in Payment : payment[p].amount = 0 /\ ~payment[p].verified /\ payment[p].paidOn = 0
    BY <2>2 DEF NoPayment
  <2>4. \A p \in Payment : payment[p].amount <= 0
    BY <2>3
  <2> QED
    BY <2>1, <2>2, <2>3, <2>4, FolioAssumption DEF DeskInv
<1>4. DrawerInv
  BY FolioAssumption DEF DrawerInv, OpenShifts, DrawerMatches, NotOpened
<1>5. DayInv
  BY DEF DayInv, NotClosed
<1>6. TaxInv
  <2>1. Nothing \in [Line -> Nat] /\ \A l \in Line : Nothing[l] <= 0
    BY DEF Nothing
  <2> QED
    BY <2>1 DEF TaxInv, NoSettlement
<1> QED
  BY <1>1, <1>2, <1>3, <1>4, <1>5, <1>6 DEF BackInv

\* The invariant of the back office is inductive.
LEMMA BackInvariant == TSpec => []BackInv
<1>1. BackInv /\ [TNext]_tvars => BackInv'
  <2> SUFFICES ASSUME BackInv, [TNext]_tvars
               PROVE  BackInv'
    OBVIOUS
  <2>1. StayTypes /\ RowsInv /\ DeskInv /\ DrawerInv /\ DayInv /\ TaxInv
    BY DEF BackInv
  <2>2. DeskInv'
    BY <2>1, DeskStep
  <2> QED
    BY <2>1, <2>2, StayStep, RowsStep, DrawerStep, DayStep, TaxStep DEF BackInv
<1> QED
  BY BackInit, <1>1, PTL DEF TSpec

\* Every payment is counted in the drawer of one shift and the summary of at
\* most one day, and a voided service order is not charged: for every number of
\* charges, payments, shifts and days, with all requests overlapping.
THEOREM FolioSound == TSpec => []FolioIsSound
<1>1. BackInv => FolioIsSound
  <2> SUFFICES ASSUME BackInv
               PROVE  FolioIsSound
    OBVIOUS
  <2>1. StayTypes /\ RowsInv /\ DeskInv /\ DrawerInv /\ DayInv
    BY DEF BackInv
  <2>2. Cardinality(OpenShifts) <= 1
    <3>1. CASE OpenShifts = {}
      BY <3>1, FS_EmptySet
    <3>2. CASE OpenShifts # {}
      <4>1. PICK s \in OpenShifts : TRUE
        BY <3>2
      <4>2. OpenShifts = {s}
        BY <2>1, <4>1 DEF DrawerInv
      <4>3. Cardinality(OpenShifts) = 1
        BY <4>2, FS_Singleton, Zenon
      <4> QED
        BY <4>3
    <3> QED
      BY <3>1, <3>2
  <2>3. \A p \in Payment :
          /\ payment[p].amount \in Nat /\ payment[p].shift \in Shift \cup {NoShift}
          /\ payment[p].paidOn \in 0..MaxDay
          /\ payment[p].verified <=> payment[p].paidOn > 0
    BY <2>1 DEF DeskInv, PaymentType
  <2>4. FolioTypeOK
    BY <2>1, <2>2, <2>3 DEF FolioTypeOK, StayTypes, RowsInv, DeskInv
  <2>5. CountedInOneDay
    <3>1. ASSUME NEW d \in 1..MaxDay, NEW e \in 1..MaxDay
          PROVE  /\ closed[d].payments \subseteq PaidOn(d)
                 /\ d # e => closed[d].payments \cap closed[e].payments = {}
      <4>1. closed[d].payments \subseteq PaidOn(d) /\ closed[e].payments \subseteq PaidOn(e)
        BY <2>1 DEF DayInv
      <4>2. d # e => PaidOn(d) \cap PaidOn(e) = {}
        BY DEF PaidOn
      <4> QED
        BY <4>1, <4>2
    <3> QED
      BY <3>1 DEF CountedInOneDay
  <2> QED
    BY <2>1, <2>4, <2>5 DEF FolioIsSound, DrawerInv, RowsInv
<1> QED
  BY BackInvariant, <1>1, PTL

\* A settled invoice leaves nothing to collect, whatever is charged, voided,
\* credited or paid after the settlement, so that no TDS is ever recorded
\* against it: with notes and cancellations overlapping as they like.
THEOREM NothingLeft == TSpec => []NothingLeftForTds
<1>1. BackInv => NothingLeftForTds
  <2> SUFFICES ASSUME BackInv, invoice.status # "none"
               PROVE  Receivable <= 0
    BY DEF NothingLeftForTds
  <2>1. StayTypes /\ DeskInv /\ TaxInv
    BY DEF BackInv
  <2>2. /\ Sum(invoice.lines) = settlement.gross /\ settlement.gross <= Total(Verified)
        /\ settlement.gross \in Nat
    BY <2>1 DEF TaxInv, StayTypes
  <2>3. Total(Verified) \in Nat
    BY <2>1, TotalType DEF Verified
  <2>4. Sum(credited) \in Nat
    <3>1. PICK n \in Nat : \A l \in Line : credited[l] <= n
      BY <2>1 DEF TaxInv
    <3>2. \A l \in Line : credited[l] \in Nat /\ credited[l] <= n
      BY <2>1, <3>1 DEF TaxInv
    <3>3. IsFiniteSet(Line)
      BY FolioAssumption, FS_AddElement DEF Line
    <3> QED
      BY <3>2, <3>3, UnitsFinite DEF Sum
  <2> QED
    BY <2>2, <2>3, <2>4 DEF Receivable
<1> QED
  BY BackInvariant, <1>1, PTL
-----------------------------------------------------------------------------
(***************************************************************************)
(* Notes and cancellations, whatever overlaps.                             *)
(***************************************************************************)

\* A step that leaves the documents alone, and whose new requests are neither
\* notes nor cancellations, changes nothing of what the others found.
LEMMA DocumentsStand ==
    ASSUME UNCHANGED <<invoice, credited>>
    PROVE  /\ \A r : StillHolds(r) => StillHolds(r)'
           /\ CreditWithinInvoice => CreditWithinInvoice'
BY DEF StillHolds, CreditWithinInvoice, Remaining, Line, Nothing

\* The requests about charges are not statutory.
LEMMA ChargingArrivals ==
    ASSUME Charging
    PROVE  Statutory' \subseteq Statutory
<1>1. ASSUME NEW x, x.op \notin {"credit", "cancel"}, requests' \subseteq requests \cup {x}
      PROVE  Statutory' \subseteq Statutory
  BY <1>1 DEF Statutory
<1>2. ASSUME requests' \subseteq requests
      PROVE  Statutory' \subseteq Statutory
  BY <1>2 DEF Statutory
<1>3. ASSUME NEW c \in Charge, ReadCharge(c)
      PROVE  Statutory' \subseteq Statutory
  <2>1. PICK x : x = Request("post", c, stay)
    OBVIOUS
  <2>2. x.op = "post" /\ requests' = requests \cup {x}
    BY <1>3, <2>1 DEF ReadCharge, Arrive, Request
  <2> QED
    BY <1>1, <2>2
<1>4. ASSUME NEW c \in Charge, ReadVoid(c)
      PROVE  Statutory' \subseteq Statutory
  <2>1. PICK read : Arrive(Request("void", c, read))
    BY <1>4 DEF ReadVoid
  <2>2. PICK x : x = Request("void", c, read)
    OBVIOUS
  <2>3. x.op = "void" /\ requests' = requests \cup {x}
    BY <2>1, <2>2 DEF Arrive, Request
  <2> QED
    BY <1>1, <2>3
<1>5. ASSUME NEW c \in Charge, WriteVoid(c)
      PROVE  Statutory' \subseteq Statutory
  <2>1. PICK r \in requests :
          requests' = (requests \ {r}) \cup
             (IF r.read = "POSTED" THEN {Request("void_order", c, r.read)} ELSE {})
    BY <1>5 DEF WriteVoid
  <2>2. PICK x : x = Request("void_order", c, r.read)
    OBVIOUS
  <2>3. x.op = "void_order" /\ requests' \subseteq requests \cup {x}
    BY <2>1, <2>2 DEF Request
  <2> QED
    BY <1>1, <2>3
<1>6. ASSUME NEW c \in Charge,
             WriteCharge(c) \/ CreateOrder(c) \/ WriteVoidOfOrder(c) \/ VoidOrder(c)
      PROVE  Statutory' \subseteq Statutory
  <2>1. WriteCharge(c) => requests' \subseteq requests
    BY DEF WriteCharge, Finish
  <2>2. CreateOrder(c) => requests' \subseteq requests
    BY DEF CreateOrder
  <2>3. WriteVoidOfOrder(c) => requests' \subseteq requests
    BY DEF WriteVoidOfOrder, Finish
  <2>4. VoidOrder(c) => requests' \subseteq requests
    BY DEF VoidOrder
  <2> QED
    BY <1>2, <1>6, <2>1, <2>2, <2>3, <2>4
<1>7. ASSUME NEW r \in requests, Lose(r)
      PROVE  Statutory' \subseteq Statutory
  BY <1>2, <1>7 DEF Lose
<1> QED
  BY <1>3, <1>4, <1>5, <1>6, <1>7 DEF Charging

\* The three parts of the property, as a formula of one step.
Written == Statutory \ Statutory'
OvercreditStep ==
    /\ \A r \in Statutory' \ Statutory : StillHolds(r)'
    /\ \A r \in Statutory \cap Statutory' : StillHolds(r) => StillHolds(r)' \/ Written # {}
    /\ CreditWithinInvoice => CreditWithinInvoice' \/ \E r \in Written : ~StillHolds(r)

\* Where the documents stand and what arrives finds its room, the step is one.
LEMMA StandingStep ==
    ASSUME UNCHANGED <<invoice, credited>>,
           \A r \in Statutory' \ Statutory : StillHolds(r)'
    PROVE  OvercreditStep
BY DocumentsStand DEF OvercreditStep

\* The write of a note or a cancellation: what remains is whether it found what
\* it read.
LEMMA WritingStep ==
    ASSUME NEW r \in Statutory, Finish(r),
           CreditWithinInvoice /\ StillHolds(r) => CreditWithinInvoice'
    PROVE  OvercreditStep
<1>1. r \in Written
  BY DEF Written, Statutory, Finish
<1>2. Statutory' \subseteq Statutory
  BY DEF Statutory, Finish
<1> QED
  BY <1>1, <1>2 DEF OvercreditStep

\* A note that still finds what it read takes no more than is left.
LEMMA NoteWithin ==
    ASSUME BackInv, WriteCredit
    PROVE  OvercreditStep
<1>1. RowsInv /\ TaxInv
  BY DEF BackInv
<1>2. PICK r \in requests :
        /\ r.op = "credit" /\ Finish(r)
        /\ credited' = [l \in Line |-> credited[l] + r.read[l]]
  BY DEF WriteCredit
<1>3. invoice' = invoice
  BY DEF WriteCredit
<1>4. ASSUME CreditWithinInvoice, StillHolds(r), NEW l \in Line
      PROVE  credited'[l] <= invoice'.lines[l]
  <2>1. credited[l] \in Nat /\ invoice.lines[l] \in Nat /\ credited[l] <= invoice.lines[l]
    BY <1>1, <1>4 DEF TaxInv, CreditWithinInvoice
  <2>2. r.read[l] \in Nat
    <3>1. r.read \in [Line -> 0..Max({RoomTotal, 1})]
      BY <1>1, <1>2 DEF RowsInv, Standing
    <3>2. PICK m \in Nat : m = Max({RoomTotal, 1})
      BY MostOfLine
    <3>3. PICK note : note = r.read /\ note \in [Line -> 0..m]
      BY <3>1, <3>2
    <3>4. note[l] \in 0..m
      BY <3>3
    <3> QED
      BY <3>3, <3>4
  <2>3. r.read[l] > 0 => r.read[l] <= invoice.lines[l] - credited[l]
    BY <1>2, <1>4 DEF StillHolds, Remaining
  <2>4. credited'[l] = credited[l] + r.read[l]
    BY <1>2
  <2> QED
    BY <1>3, <2>1, <2>2, <2>3, <2>4
<1>5. CreditWithinInvoice /\ StillHolds(r) => CreditWithinInvoice'
  BY <1>3, <1>4 DEF CreditWithinInvoice, StillHolds, Line
<1>6. r \in Statutory
  BY <1>2 DEF Statutory
<1> QED
  BY <1>2, <1>5, <1>6, WritingStep

\* A cancellation that still finds no note leaves a cancelled invoice without.
LEMMA CancelWithin ==
    ASSUME BackInv, WriteCancel
    PROVE  OvercreditStep
<1>1. TaxInv
  BY DEF BackInv
<1>2. PICK r \in requests : r.op = "cancel" /\ Finish(r)
  BY DEF WriteCancel
<1>3. credited' = credited /\ invoice'.lines = invoice.lines
  BY <1>1 DEF WriteCancel, TaxInv
<1>4. CreditWithinInvoice /\ StillHolds(r) => CreditWithinInvoice'
  BY <1>2, <1>3 DEF CreditWithinInvoice, StillHolds, Line, Nothing
<1>5. r \in Statutory
  BY <1>2 DEF Statutory
<1> QED
  BY <1>2, <1>4, <1>5, WritingStep

\* A note finds what it takes of each line, a cancellation no note.
LEMMA ArrivingFinds ==
    ASSUME BackInv, ReadCredit \/ ReadCancel
    PROVE  OvercreditStep
<1>1. UNCHANGED <<invoice, credited>> /\ invoice.status = "ISSUED"
  BY DEF ReadCredit, ReadCancel
<1>2. \A l \in Line : Remaining(l)' = Remaining(l)
  BY <1>1 DEF Remaining
<1>3. CASE ReadCredit
  <2>1. PICK note \in Notes : Arrive(Request("credit", Room, note))
    BY <1>3 DEF ReadCredit
  <2>2. PICK x : x = Request("credit", Room, note)
    OBVIOUS
  <2>3. x.op = "credit" /\ x.read = note /\ requests' = requests \cup {x}
    BY <2>1, <2>2 DEF Arrive, Request
  <2>4. \A l \in Line : note[l] > 0 => note[l] <= Remaining(l)
    BY DEF Notes
  <2>5. StillHolds(x)'
    BY <1>1, <1>2, <2>3, <2>4 DEF StillHolds, Line
  <2>6. \A r \in Statutory' \ Statutory : r = x
    BY <2>3 DEF Statutory
  <2> QED
    BY <1>1, <2>5, <2>6, StandingStep
<1>4. CASE ReadCancel
  <2>1. PICK x : x = Request("cancel", Room, Nothing)
    OBVIOUS
  <2>2. x.op = "cancel" /\ requests' = requests \cup {x} /\ credited = Nothing
    BY <1>4, <2>1 DEF ReadCancel, Arrive, Request
  <2>3. StillHolds(x)'
    BY <1>1, <2>2 DEF StillHolds, Nothing, Line
  <2>4. \A r \in Statutory' \ Statutory : r = x
    BY <2>2 DEF Statutory
  <2> QED
    BY <1>1, <2>3, <2>4, StandingStep
<1> QED
  BY <1>3, <1>4

\* An invoice is issued before any note or cancellation of it is read.
LEMMA IssueWithin ==
    ASSUME BackInv, Issue
    PROVE  OvercreditStep
<1>1. /\ invoice.status = "none" /\ invoice' = [status |-> "ISSUED", lines |-> Lines]
      /\ credited' = credited /\ requests' = requests
  BY DEF Issue, fvars
<1>2. Statutory = {}
  <2>1. \A r \in requests : Standing(r)
    BY DEF BackInv, RowsInv
  <2> QED
    BY <1>1, <2>1 DEF Standing, Statutory
<1>3. Statutory' = {}
  BY <1>1, <1>2 DEF Statutory
<1>4. CreditWithinInvoice => CreditWithinInvoice'
  <2> SUFFICES ASSUME CreditWithinInvoice
               PROVE  CreditWithinInvoice'
    OBVIOUS
  <2>1. credited = Nothing
    BY <1>1 DEF CreditWithinInvoice
  <2>2. \A l \in Line : credited'[l] <= invoice'.lines[l]
    BY <1>1, <2>1, FolioAssumption DEF Nothing, Lines
  <2> QED
    BY <1>1, <2>2 DEF CreditWithinInvoice, Line
<1> QED
  BY <1>2, <1>3, <1>4 DEF OvercreditStep

\* Only an overlap of notes and cancellations credits an invoice beyond its
\* lines, or credits a cancelled one: whatever requests overlap, each finds its
\* room when it reads and loses it only to another that is written first; the
\* property assumes nothing of the order in which the desks work.
THEOREM OvercreditsExplained == TSpec => OnlyOverlapsOvercredit
<1>1. BackInv /\ [TNext]_tvars => OvercreditStep
  <2> SUFFICES ASSUME BackInv, [TNext]_tvars
               PROVE  OvercreditStep
    OBVIOUS
  <2>1. CASE Issue
    BY <2>1, IssueWithin
  <2>2. CASE Documenting
    BY <2>2, NoteWithin, CancelWithin, ArrivingFinds DEF Documenting
  <2>3. CASE UNCHANGED <<invoice, credited>> /\ Charging
    BY <2>3, ChargingArrivals, StandingStep
  <2>4. CASE UNCHANGED <<invoice, credited, requests>>
    <3>1. Statutory' = Statutory
      BY <2>4 DEF Statutory
    <3> QED
      BY <2>4, <3>1, StandingStep
  <2> QED
    BY <2>1, <2>2, <2>3, <2>4, Changes
<1> QED
  BY <1>1, BackInvariant, PTL DEF TSpec, OnlyOverlapsOvercredit, OvercreditStep, Written

\* The documents of a settled stay agree with what was settled and paid, with
\* all requests overlapping, but for notes and cancellations that overlap.
THEOREM DocumentsSound == TSpec => DocumentsAgree
  BY NothingLeft, OvercreditsExplained DEF DocumentsAgree
=============================================================================
