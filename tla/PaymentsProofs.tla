---------------------------- MODULE PaymentsProofs ----------------------------
(***************************************************************************)
(* Theorems about Payments for every agent, order, slip and reservation:   *)
(* what a reservation shows is what was paid for it, and every unit of the *)
(* wallet is accounted for.                                                *)
(***************************************************************************)
EXTENDS Payments, FiniteSetTheorems, TLAPS

-----------------------------------------------------------------------------
(***************************************************************************)
(* How a sum of amounts behaves when a payment joins it or changes.  Each  *)
(* is the cardinality of a set of units, so no induction is needed.        *)
(***************************************************************************)

\* The units that Sum counts.
Units(amt, S) == {u \in S \X (1..MaxAmount) : u[2] <= amt[u[1]]}

\* A sum over finitely many payments is a natural number.
LEMMA SumType ==
    ASSUME NEW amt, NEW S, IsFiniteSet(S)
    PROVE  IsFiniteSet(Units(amt, S)) /\ Sum(amt, S) \in Nat
<1>1. IsFiniteSet(1..MaxAmount)
  BY FS_Interval, PaymentsAssumption
<1>2. IsFiniteSet(S \X (1..MaxAmount))
  BY <1>1, FS_Product
<1>3. Units(amt, S) \in SUBSET (S \X (1..MaxAmount))
  BY DEF Units
<1>4. IsFiniteSet(Units(amt, S))
  BY <1>2, <1>3, FS_Subset
<1> QED
  BY <1>4, FS_CardinalityType DEF Units, Sum

\* Payments of nothing add up to nothing; so do no payments.
LEMMA SumNothing ==
    ASSUME NEW amt, NEW S, \A p \in S : amt[p] = 0
    PROVE  Sum(amt, S) = 0
<1>1. Units(amt, S) = {}
  BY DEF Units
<1> QED
  BY <1>1, FS_EmptySet DEF Units, Sum

\* One payment's sum is its amount.
LEMMA SumOne ==
    ASSUME NEW amt, NEW p, amt[p] \in 0..MaxAmount
    PROVE  Sum(amt, {p}) = amt[p]
<1>1. PICK n \in Nat : n = amt[p] /\ n <= MaxAmount
  BY PaymentsAssumption
<1>2. Units(amt, {p}) = {p} \X (1..n)
  <2>1. ASSUME NEW u, u \in Units(amt, {p})
        PROVE  u \in {p} \X (1..n)
    BY <2>1, <1>1, PaymentsAssumption DEF Units
  <2>2. ASSUME NEW u, u \in {p} \X (1..n)
        PROVE  u \in Units(amt, {p})
    BY <2>2, <1>1, PaymentsAssumption DEF Units
  <2> QED
    BY <2>1, <2>2
<1>3. Cardinality({p} \X (1..n)) = n
  <2>1. IsFiniteSet({p}) /\ Cardinality({p}) = 1
    BY FS_Singleton
  <2>2. IsFiniteSet(1..n) /\ Cardinality(1..n) = n
    BY FS_Interval
  <2>3. Cardinality({p} \X (1..n)) = Cardinality({p}) * Cardinality(1..n)
    BY <2>1, <2>2, FS_Product, Zenon
  <2>4. Cardinality({p} \X (1..n)) = 1 * n
    BY <2>1, <2>2, <2>3, Zenon
  <2> QED
    BY <2>4
<1>4. Sum(amt, {p}) = Cardinality(Units(amt, {p}))
  BY DEF Units, Sum
<1> QED
  BY <1>1, <1>2, <1>3, <1>4, Zenon

\* The sum over payments that split in two is the sum of the two.
LEMMA SumUnion ==
    ASSUME NEW amt, NEW S, NEW T, IsFiniteSet(S), IsFiniteSet(T), S \cap T = {}
    PROVE  Sum(amt, S \cup T) = Sum(amt, S) + Sum(amt, T)
<1>1. IsFiniteSet(Units(amt, S)) /\ IsFiniteSet(Units(amt, T))
  BY SumType
<1>2. Units(amt, S \cup T) = Units(amt, S) \cup Units(amt, T)
  BY DEF Units
<1>3. Units(amt, S) \cap Units(amt, T) = {}
  BY DEF Units
<1>4. Cardinality(Units(amt, S) \cup Units(amt, T))
        = Cardinality(Units(amt, S)) + Cardinality(Units(amt, T))
          - Cardinality(Units(amt, S) \cap Units(amt, T))
  BY <1>1, FS_Union
<1>5. Sum(amt, S) \in Nat /\ Sum(amt, T) \in Nat
  BY SumType
<1>6. /\ Sum(amt, S \cup T) = Cardinality(Units(amt, S \cup T))
      /\ Sum(amt, S) = Cardinality(Units(amt, S))
      /\ Sum(amt, T) = Cardinality(Units(amt, T))
  BY DEF Units, Sum
<1>7. Sum(amt, S \cup T) = Sum(amt, S) + Sum(amt, T) - 0
  BY <1>2, <1>3, <1>4, <1>6, FS_EmptySet
<1> QED
  BY <1>5, <1>7

\* Fewer payments add up to no more.
LEMMA SumSubset ==
    ASSUME NEW amt, NEW S, NEW T, IsFiniteSet(S), T \subseteq S
    PROVE  Sum(amt, T) <= Sum(amt, S)
<1>1. IsFiniteSet(Units(amt, S))
  BY SumType
<1>2. Units(amt, T) \in SUBSET Units(amt, S)
  BY DEF Units
<1> QED
  BY <1>1, <1>2, FS_Subset DEF Units, Sum

\* Only the amounts of the payments counted matter.
LEMMA SumFrame ==
    ASSUME NEW amt, NEW bmt, NEW S, \A p \in S : amt[p] = bmt[p]
    PROVE  Sum(amt, S) = Sum(bmt, S)
<1>1. Units(amt, S) = Units(bmt, S)
  BY DEF Units
<1> QED
  BY <1>1 DEF Units, Sum

\* A payment that joins adds its amount.
LEMMA SumJoin ==
    ASSUME NEW amt, NEW S, NEW p, IsFiniteSet(S), p \notin S,
           amt[p] \in 0..MaxAmount
    PROVE  Sum(amt, S \cup {p}) = Sum(amt, S) + amt[p]
<1>1. IsFiniteSet({p}) /\ S \cap {p} = {}
  BY FS_Singleton
<1>2. Sum(amt, S \cup {p}) = Sum(amt, S) + Sum(amt, {p})
  BY <1>1, SumUnion, Zenon
<1> QED
  BY <1>2, SumOne, Zenon

\* A payment whose amount rises from nothing adds it.
LEMMA SumRaise ==
    ASSUME NEW amt, NEW bmt, NEW S, NEW p, IsFiniteSet(S), p \in S,
           amt[p] = 0, bmt[p] \in 0..MaxAmount,
           \A q \in S \ {p} : amt[q] = bmt[q]
    PROVE  Sum(bmt, S) = Sum(amt, S) + bmt[p]
<1> DEFINE L == S \ {p}
<1>1. IsFiniteSet(L) /\ p \notin L
  BY FS_RemoveElement
<1>2. S = L \cup {p}
  OBVIOUS
<1>3. \A q \in L : amt[q] = bmt[q]
  OBVIOUS
<1> HIDE DEF L
<1>4. Sum(amt, L \cup {p}) = Sum(amt, L) + amt[p]
  <2>1. amt[p] \in 0..MaxAmount
    BY PaymentsAssumption
  <2> QED
    BY <1>1, <2>1, SumJoin
<1>5. Sum(bmt, L \cup {p}) = Sum(bmt, L) + bmt[p]
  BY <1>1, SumJoin
<1>6. Sum(amt, L) = Sum(bmt, L)
  BY <1>3, SumFrame
<1>7. Sum(amt, L) \in Nat
  BY <1>1, SumType
<1> QED
  BY <1>2, <1>4, <1>5, <1>6, <1>7

\* More payments, of the same amounts, add up to no less.
LEMMA SumGrows ==
    ASSUME NEW amt, NEW bmt, NEW S, NEW T, IsFiniteSet(T), S \subseteq T,
           \A p \in S : amt[p] = bmt[p]
    PROVE  Sum(amt, S) <= Sum(bmt, T)
<1>1. Sum(amt, S) = Sum(bmt, S)
  BY SumFrame
<1>2. Sum(bmt, S) <= Sum(bmt, T)
  BY SumSubset
<1> QED
  BY <1>1, <1>2

-----------------------------------------------------------------------------
(***************************************************************************)
(* What a step does to the verified payments of each reservation.          *)
(***************************************************************************)

\* The payments of a reservation are finitely many.
LEMMA VerifiedFinite ==
    ASSUME NEW pay, NEW r
    PROVE  /\ VerifiedOf(pay, r) \subseteq PaymentId
           /\ IsFiniteSet(VerifiedOf(pay, r))
           /\ IsFiniteSet(VerifiedOf(pay, r) \cap Draw)
<1>1. VerifiedOf(pay, r) \in SUBSET PaymentId
  BY DEF VerifiedOf
<1>2. IsFiniteSet(VerifiedOf(pay, r))
  BY <1>1, PaymentsAssumption, FS_Subset
<1>3. VerifiedOf(pay, r) \cap Draw \in SUBSET VerifiedOf(pay, r)
  OBVIOUS
<1> QED
  BY <1>1, <1>2, <1>3, FS_Subset

-----------------------------------------------------------------------------
(***************************************************************************)
(* The inductive invariant behind AdvanceAccounting.                       *)
(***************************************************************************)

\* An order that was not created has neither payment nor credit, and the
\* gateway has not seen it.
OrdersOpened ==
    \A o \in Order : attempt[o] = "NONE" =>
        /\ payment[o] = "NONE" /\ credits[o] = 0
        /\ o \notin captured /\ o \notin declined

\* What pays for a reservation pays for one that exists.
Booked ==
    \A p \in PaymentId :
        For[p] # Wallet /\ (payment[p] # "NONE" \/ (p \in Order /\ attempt[p] # "NONE"))
            => status[For[p]] # "NONE"

\* An event in the API process was sent by the gateway, and written.
InFlight == \A e \in handling : Sent(e) /\ hook[e] = "RECEIVED"

PayInv == PTypeOK /\ AdvanceAccounting /\ PaidIsConfirmed /\ OrdersOpened
          /\ Booked /\ InFlight

\* An event is about an order.
LEMMA EventFields ==
    ASSUME NEW e \in Event
    PROVE  e.order \in Order /\ e.order \in PaymentId
BY DEF Event, PaymentId

\* What a payment is for is a reservation or the wallet.
LEMMA ForStays ==
    ASSUME NEW p \in PaymentId, For[p] # Wallet
    PROVE  For[p] \in Reservation
BY PaymentsAssumption

\* A step that leaves the verified payments of a reservation alone leaves what
\* is told of it alone.
LEMMA ToldFrame ==
    ASSUME NEW q,
           \A p \in PaymentId : For[p] = q =>
               /\ payment'[p] = "VERIFIED" <=> payment[p] = "VERIFIED"
               /\ payment[p] = "VERIFIED" => amount[p] = amount'[p]
               /\ p \in untold' <=> p \in untold
    PROVE  Told(q)' = Told(q)
<1> DEFINE V == VerifiedOf(payment, q) \ untold
<1>1. VerifiedOf(payment', q) \ untold' = V
  BY DEF VerifiedOf
<1>2. \A p \in V : amount[p] = amount'[p]
  BY DEF VerifiedOf
<1> HIDE DEF V
<1>3. Sum(amount, V) = Sum(amount', V)
  BY <1>2, SumFrame
<1>4. Told(q) = Sum(amount, V)
  BY DEF Told, V
<1>5. Told(q)' = Sum(amount', VerifiedOf(payment', q) \ untold')
  BY DEF Told
<1> QED
  BY <1>1, <1>3, <1>4, <1>5

\* The amounts that Settle writes are those of the payments verified by then.
LEMMA SettledAccounting ==
    ASSUME PTypeOK, AdvanceAccounting, PaidIsConfirmed,
           NEW r \in Reservation, NEW paid, NEW st, Settle(r, paid, st),
           paid \in Nat, paid = Paid(r)',
           \A p \in PaymentId : For[p] # r =>
               payment'[p] = payment[p] /\ amount'[p] = amount[p],
           st \in PayIntent \cup {"CANCELLED"},
           paid = Total[r] /\ Total[r] > 0 => st # "PENDING_PAYMENT"
    PROVE  /\ AdvanceAccounting' /\ PaidIsConfirmed'
           /\ status' \in [Reservation -> PayIntent \cup {"NONE", "CANCELLED"}]
           /\ advance' \in [Reservation -> 0..MaxAmount]
           /\ balance' \in [Reservation -> 0..MaxAmount]
           /\ untold' \subseteq Till
           /\ \A q \in Reservation : status[q] # "NONE" => status'[q] # "NONE"
           /\ status'[r] # "NONE"
<1>1. /\ Total[r] \in 0..MaxAmount /\ MaxAmount \in Nat /\ paid <= Total[r]
      /\ NonNegative(Total[r] - paid) = Total[r] - paid
      /\ Total[r] - paid \in 0..MaxAmount /\ paid \in 0..MaxAmount
  BY PaymentsAssumption DEF Settle, NonNegative
<1>2. /\ status' = [status EXCEPT ![r] = st]
      /\ advance' = [advance EXCEPT ![r] = paid]
      /\ balance' = [balance EXCEPT ![r] = Total[r] - paid]
      /\ untold' = {p \in untold : For[p] # r}
  BY <1>1 DEF Settle, Tell
<1>3. /\ status \in [Reservation -> PayIntent \cup {"NONE", "CANCELLED"}]
      /\ advance \in [Reservation -> 0..MaxAmount]
      /\ balance \in [Reservation -> 0..MaxAmount]
      /\ untold \subseteq {p \in Till : payment[p] = "VERIFIED"}
  BY DEF PTypeOK, AdvanceAccounting
<1>4. AdvanceAccounting'
  <2>1. untold' \subseteq {p \in Till : payment'[p] = "VERIFIED"}
    BY <1>2, <1>3 DEF PaymentId
  <2>2. ASSUME NEW q \in Reservation, status'[q] # "NONE"
        PROVE  advance'[q] = Told(q)' /\ balance'[q] = Total[q] - Told(q)'
    <3>1. CASE q = r
      <4>1. VerifiedOf(payment', r) \ untold' = VerifiedOf(payment', r)
        BY <1>2 DEF VerifiedOf
      <4>2. Told(r)' = Sum(amount', VerifiedOf(payment', r) \ untold')
        BY DEF Told
      <4>3. Told(r)' = Paid(r)'
        BY <4>1, <4>2 DEF Paid
      <4> QED
        BY <3>1, <4>3, <1>2, <1>3
    <3>2. CASE q # r
      <4>1. \A p \in PaymentId : For[p] = q =>
                /\ payment'[p] = "VERIFIED" <=> payment[p] = "VERIFIED"
                /\ payment[p] = "VERIFIED" => amount[p] = amount'[p]
                /\ p \in untold' <=> p \in untold
        BY <3>2, <1>2
      <4>2. Told(q)' = Told(q)
        BY <4>1, ToldFrame
      <4> QED
        BY <3>2, <4>2, <2>2, <1>2, <1>3 DEF AdvanceAccounting
    <3> QED
      BY <3>1, <3>2
  <2> QED
    BY <2>1, <2>2 DEF AdvanceAccounting
<1>5. PaidIsConfirmed'
  <2> SUFFICES ASSUME NEW q \in Reservation, Payable(q)', Total[q] > 0, balance'[q] = 0
               PROVE  status'[q] = "CONFIRMED"
    BY DEF PaidIsConfirmed
  <2>1. CASE q = r
    BY <2>1, <1>1, <1>2, <1>3 DEF Payable, PayIntent
  <2>2. CASE q # r
    BY <2>2, <1>2, <1>3 DEF PaidIsConfirmed, Payable
  <2> QED
    BY <2>1, <2>2
<1>6. \A q \in Reservation : status[q] # "NONE" => status'[q] # "NONE"
  BY <1>2, <1>3 DEF PayIntent
<1>7. status'[r] # "NONE"
  BY <1>2, <1>3 DEF PayIntent
<1>8. status' \in [Reservation -> PayIntent \cup {"NONE", "CANCELLED"}]
  BY <1>2, <1>3
<1>9. /\ advance' \in [Reservation -> 0..MaxAmount]
      /\ balance' \in [Reservation -> 0..MaxAmount]
      /\ untold' \subseteq Till
  BY <1>1, <1>2, <1>3
<1> QED
  BY <1>4, <1>5, <1>6, <1>7, <1>8, <1>9

\* A step that settles nothing and verifies nothing that is told, and changes
\* no status but to cancel a reservation, keeps the amounts right.
LEMMA UnsettledAccounting ==
    ASSUME PTypeOK, AdvanceAccounting, PaidIsConfirmed,
           advance' = advance, balance' = balance,
           untold' \subseteq {p \in Till : payment'[p] = "VERIFIED"},
           \A q \in Reservation : Told(q)' = Told(q),
           \A q \in Reservation :
               status'[q] = status[q] \/ (status[q] # "NONE" /\ status'[q] = "CANCELLED")
    PROVE  AdvanceAccounting' /\ PaidIsConfirmed'
<1>1. AdvanceAccounting'
  BY DEF AdvanceAccounting
<1>2. PaidIsConfirmed'
  BY DEF PaidIsConfirmed, Payable, PayIntent
<1> QED
  BY <1>1, <1>2

\* A step that leaves the verified payments alone leaves what is paid and told.
LEMMA PaidFrame ==
    ASSUME AdvanceAccounting, untold' = untold,
           \A p \in PaymentId : payment[p] = "VERIFIED" <=> payment'[p] = "VERIFIED",
           \A p \in PaymentId : payment[p] = "VERIFIED" => amount[p] = amount'[p]
    PROVE  /\ \A q \in Reservation : Told(q)' = Told(q)
           /\ untold' \subseteq {p \in Till : payment'[p] = "VERIFIED"}
<1>1. ASSUME NEW q \in Reservation
      PROVE  Told(q)' = Told(q)
  BY ToldFrame
<1>2. untold' \subseteq {p \in Till : payment'[p] = "VERIFIED"}
  BY DEF AdvanceAccounting, PaymentId
<1> QED
  BY <1>1, <1>2

\* What is paid is a natural number, now and after the step; what the wallet
\* paid is told.
LEMMA PaidType ==
    ASSUME NEW q
    PROVE  /\ Paid(q) \in Nat /\ WalletPaid(q) \in Nat /\ WalletPaid(q) <= Paid(q)
           /\ Paid(q)' \in Nat
           /\ Told(q) \in Nat /\ (PTypeOK => WalletPaid(q) <= Told(q))
<1> DEFINE V == VerifiedOf(payment, q)
<1>1. /\ IsFiniteSet(V) /\ IsFiniteSet(V \cap Draw)
      /\ IsFiniteSet(VerifiedOf(payment', q))
  BY VerifiedFinite
<1>2. V \cap Draw \subseteq V /\ V \ untold \in SUBSET V
  OBVIOUS
<1>3. IsFiniteSet(V \ untold)
  BY <1>1, <1>2, FS_Subset
<1>4. PTypeOK => V \cap Draw \subseteq V \ untold
  BY PaymentsAssumption DEF PTypeOK
<1>5. Sum(amount', VerifiedOf(payment', q)) \in Nat
  BY <1>1, SumType
<1>6. /\ Paid(q) = Sum(amount, V) /\ WalletPaid(q) = Sum(amount, V \cap Draw)
      /\ Told(q) = Sum(amount, V \ untold)
      /\ Paid(q)' = Sum(amount', VerifiedOf(payment', q))
  BY DEF Paid, WalletPaid, Told
<1> HIDE DEF V
<1>7. /\ Sum(amount, V) \in Nat /\ Sum(amount, V \cap Draw) \in Nat
      /\ Sum(amount, V \ untold) \in Nat
  BY <1>1, <1>3, SumType
<1>8. Sum(amount, V \cap Draw) <= Sum(amount, V)
  BY <1>1, <1>2, SumSubset
<1>9. PTypeOK => Sum(amount, V \cap Draw) <= Sum(amount, V \ untold)
  BY <1>3, <1>4, SumSubset
<1> QED
  BY <1>5, <1>6, <1>7, <1>8, <1>9

\* A draw d of a from the wallet pays a more for its reservation r.
LEMMA DrawPays ==
    ASSUME PTypeOK, NEW r \in Reservation, NEW d \in Draw, NEW a \in 0..MaxAmount,
           WalletPayment(d, r, a)
    PROVE  /\ Paid(r)' = Paid(r) + a
           /\ \A p \in PaymentId : For[p] # r =>
                  payment'[p] = payment[p] /\ amount'[p] = amount[p]
<1>1. /\ d \in PaymentId /\ payment[d] = "NONE" /\ For[d] = r
      /\ payment' = [payment EXCEPT ![d] = "VERIFIED"]
      /\ amount' = [amount EXCEPT ![d] = a]
  BY DEF WalletPayment, PaymentId
<1>2. /\ payment \in [PaymentId -> {"NONE", "READ", "UNVERIFIED", "VERIFIED"}]
      /\ amount \in [PaymentId -> 0..MaxAmount]
  BY DEF PTypeOK
<1>3. ASSUME NEW p \in PaymentId, For[p] # r
      PROVE  payment'[p] = payment[p] /\ amount'[p] = amount[p]
  BY <1>1, <1>2, <1>3
<1>4. Paid(r)' = Paid(r) + a
  <2> DEFINE V == VerifiedOf(payment, r)
  <2>1. VerifiedOf(payment', r) = V \cup {d}
    BY <1>1, <1>2 DEF VerifiedOf
  <2>2. IsFiniteSet(V)
    BY VerifiedFinite
  <2>3. d \notin V
    BY <1>1 DEF VerifiedOf
  <2>4. \A p \in V : amount[p] = amount'[p]
    BY <1>1, <1>2 DEF VerifiedOf
  <2>5. amount'[d] = a
    BY <1>1, <1>2
  <2> HIDE DEF V
  <2>6. Sum(amount, V) = Sum(amount', V)
    BY <2>4, SumFrame
  <2>7. Sum(amount', V \cup {d}) = Sum(amount', V) + amount'[d]
    BY <2>2, <2>3, <2>5, SumJoin
  <2>8. Sum(amount', VerifiedOf(payment', r)) = Sum(amount', V \cup {d})
    BY <2>1, Zenon
  <2> QED
    BY <2>5, <2>6, <2>7, <2>8 DEF V, Paid
<1> QED
  BY <1>3, <1>4

\* At the start.
LEMMA PayInit == PInit => PayInv
<1> SUFFICES ASSUME PInit PROVE PayInv
  OBVIOUS
<1>1. 0 \in 0..MaxAmount /\ 0 \in Nat
  BY PaymentsAssumption
<1>2. due \in [Reservation -> 0..MaxAmount]
  BY PaymentsAssumption DEF PInit
<1>3. PTypeOK
  BY <1>1, <1>2 DEF PTypeOK, PInit, PaymentStatus
<1>4. AdvanceAccounting /\ PaidIsConfirmed
  BY DEF PInit, AdvanceAccounting, PaidIsConfirmed, Payable, PayIntent
<1>5. OrdersOpened
  BY DEF PInit, OrdersOpened, PaymentId
<1>6. Booked
  BY DEF PInit, Booked
<1>7. InFlight
  BY DEF PInit, InFlight
<1> QED
  BY <1>3, <1>4, <1>5, <1>6, <1>7 DEF PayInv

\* Booking by wallet.
LEMMA BookByWalletStep ==
    ASSUME PayInv, NEW r \in Reservation, NEW d \in Draw, BookByWallet(r, d)
    PROVE  PayInv'
<1> DEFINE a == AtBooking[r]
<1>1. /\ a \in 0..MaxAmount /\ a > 0 /\ a \in Nat /\ d \in PaymentId /\ d \notin Order
      /\ d \notin Slip /\ wallet - a \in Nat /\ WalletPayment(d, r, a)
      /\ Settle(r, a, "CONFIRMED") /\ status[r] = "NONE"
      /\ For[d] = r /\ payment[d] = "NONE"
      /\ wallet' = wallet - a
      /\ payment' = [payment EXCEPT ![d] = "VERIFIED"]
      /\ amount' = [amount EXCEPT ![d] = a]
  <2>1. /\ status[r] = "NONE" /\ a > 0 /\ WalletPayment(d, r, a)
        /\ Settle(r, a, "CONFIRMED")
    BY DEF BookByWallet
  <2>2. /\ For[d] = r /\ payment[d] = "NONE" /\ wallet >= a /\ wallet' = wallet - a
        /\ payment' = [payment EXCEPT ![d] = "VERIFIED"]
        /\ amount' = [amount EXCEPT ![d] = a]
    BY <2>1 DEF WalletPayment
  <2>3. d \in PaymentId /\ d \notin Order /\ d \notin Slip
    BY PaymentsAssumption DEF PaymentId
  <2>4. a \in 0..MaxAmount /\ a \in Nat
    BY PaymentsAssumption
  <2>5. wallet - a \in Nat
    BY <2>2, <2>4 DEF PayInv, PTypeOK
  <2> QED
    BY <2>1, <2>2, <2>3, <2>4, <2>5
<1>2. PTypeOK /\ AdvanceAccounting /\ PaidIsConfirmed
  BY DEF PayInv
<1>3. Paid(r) = 0
  <2>1. r # Wallet
    BY PaymentsAssumption
  <2>2. VerifiedOf(payment, r) = {}
    BY <1>1, <2>1 DEF VerifiedOf, PayInv, Booked
  <2> QED
    BY <2>2, SumNothing DEF Paid
<1> HIDE DEF a
<1>4. /\ Paid(r)' = Paid(r) + a
      /\ \A p \in PaymentId : For[p] # r =>
             payment'[p] = payment[p] /\ amount'[p] = amount[p]
  BY <1>1, <1>2, DrawPays
<1>5. a = Paid(r)'
  BY <1>1, <1>3, <1>4
<1>6. "CONFIRMED" \in PayIntent \cup {"CANCELLED"}
  BY DEF PayIntent
<1>7. /\ AdvanceAccounting' /\ PaidIsConfirmed'
      /\ status' \in [Reservation -> PayIntent \cup {"NONE", "CANCELLED"}]
      /\ advance' \in [Reservation -> 0..MaxAmount]
      /\ balance' \in [Reservation -> 0..MaxAmount]
      /\ untold' \subseteq Till
      /\ \A q \in Reservation : status[q] # "NONE" => status'[q] # "NONE"
      /\ status'[r] # "NONE"
  BY <1>1, <1>2, <1>4, <1>5, <1>6, SettledAccounting
<1>8. PTypeOK'
  BY <1>1, <1>2, <1>7 DEF PTypeOK, BookByWallet, PaymentStatus, stayVars, gateVars, hookVars
<1>9. OrdersOpened'
  BY <1>1 DEF PayInv, PTypeOK, OrdersOpened, BookByWallet, gateVars, PaymentId
<1>10. Booked'
  <2> SUFFICES ASSUME NEW p \in PaymentId, For[p] # Wallet,
                      payment'[p] # "NONE" \/ (p \in Order /\ attempt'[p] # "NONE")
               PROVE  status'[For[p]] # "NONE"
    BY DEF Booked
  <2>1. CASE p = d
    BY <2>1, <1>1, <1>7
  <2>2. CASE p # d
    <3>1. payment'[p] = payment[p] /\ attempt' = attempt
      BY <2>2, <1>1 DEF PayInv, PTypeOK, BookByWallet
    <3> QED
      BY <3>1, <1>7, ForStays DEF PayInv, Booked
  <2> QED
    BY <2>1, <2>2
<1>11. InFlight'
  BY DEF PayInv, InFlight, Sent, BookByWallet, gateVars, hookVars
<1> QED
  BY <1>7, <1>8, <1>9, <1>10, <1>11 DEF PayInv

\* Booking otherwise.
LEMMA BookUnpaidStep ==
    ASSUME PayInv, NEW r \in Reservation, BookUnpaid(r)
    PROVE  PayInv'
<1>1. /\ Settle(r, 0, "PENDING_PAYMENT") /\ status[r] = "NONE"
      /\ payment' = payment /\ amount' = amount /\ attempt' = attempt
  BY DEF BookUnpaid
<1>2. PTypeOK /\ AdvanceAccounting /\ PaidIsConfirmed
  BY DEF PayInv
<1>3. Paid(r) = 0
  <2>1. r # Wallet
    BY PaymentsAssumption
  <2>2. VerifiedOf(payment, r) = {}
    BY <1>1, <2>1 DEF VerifiedOf, PayInv, Booked
  <2> QED
    BY <2>2, SumNothing DEF Paid
<1>4. Paid(r)' = Paid(r)
  BY <1>1 DEF Paid
<1>5. /\ 0 \in Nat /\ 0 = Paid(r)'
      /\ ~(0 = Total[r] /\ Total[r] > 0)
      /\ "PENDING_PAYMENT" \in PayIntent \cup {"CANCELLED"}
      /\ \A p \in PaymentId : For[p] # r =>
             payment'[p] = payment[p] /\ amount'[p] = amount[p]
  BY <1>1, <1>3, <1>4, PaymentsAssumption DEF PayIntent
<1>6. /\ AdvanceAccounting' /\ PaidIsConfirmed'
      /\ status' \in [Reservation -> PayIntent \cup {"NONE", "CANCELLED"}]
      /\ advance' \in [Reservation -> 0..MaxAmount]
      /\ balance' \in [Reservation -> 0..MaxAmount]
      /\ untold' \subseteq Till
      /\ \A q \in Reservation : status[q] # "NONE" => status'[q] # "NONE"
      /\ status'[r] # "NONE"
  BY <1>1, <1>2, <1>5, SettledAccounting
<1>7. PTypeOK'
  BY <1>2, <1>6 DEF PTypeOK, BookUnpaid, stayVars, walletVars, gateVars, hookVars
<1>8. OrdersOpened' /\ InFlight'
  BY DEF PayInv, OrdersOpened, InFlight, Sent, BookUnpaid, walletVars, gateVars, hookVars
<1>9. Booked'
  BY <1>1, <1>6, ForStays DEF PayInv, Booked
<1> QED
  BY <1>6, <1>7, <1>8, <1>9 DEF PayInv

\* A milestone falls due.
LEMMA MilestoneStep ==
    ASSUME PayInv, NEW r \in Reservation, MilestoneFallsDue(r)
    PROVE  PayInv'
<1>1. /\ payment' = payment /\ amount' = amount /\ attempt' = attempt
      /\ status' = status /\ advance' = advance /\ balance' = balance
      /\ untold' = untold
  BY DEF MilestoneFallsDue, bookVars
<1>2. PTypeOK /\ AdvanceAccounting /\ PaidIsConfirmed
  BY DEF PayInv
<1>3. /\ \A q \in Reservation : Told(q)' = Told(q)
      /\ untold' \subseteq {p \in Till : payment'[p] = "VERIFIED"}
  BY <1>1, <1>2, PaidFrame
<1>4. AdvanceAccounting' /\ PaidIsConfirmed'
  BY <1>1, <1>2, <1>3, UnsettledAccounting
<1>5. Total[r] \in 0..MaxAmount
  BY PaymentsAssumption
<1>6. PTypeOK'
  BY <1>1, <1>2, <1>5 DEF PTypeOK, MilestoneFallsDue, bookVars, walletVars, gateVars, hookVars
<1>7. OrdersOpened' /\ InFlight' /\ Booked'
  BY DEF PayInv, OrdersOpened, InFlight, Sent, Booked, MilestoneFallsDue, bookVars,
         walletVars, gateVars, hookVars
<1> QED
  BY <1>4, <1>6, <1>7 DEF PayInv

\* A payment of what is due.
LEMMA PayDueStep ==
    ASSUME PayInv, NEW r \in Reservation, NEW d \in Draw, PayDue(r, d)
    PROVE  PayInv'
<1> DEFINE a == due[r] - Paid(r)
           paid == Paid(r) + a
           st == IF paid >= Total[r] /\ status[r] = "PENDING_PAYMENT"
                 THEN "CONFIRMED" ELSE status[r]
<1>1. PTypeOK /\ AdvanceAccounting /\ PaidIsConfirmed
  BY DEF PayInv
<1>2. Paid(r) \in Nat /\ due[r] \in 0..MaxAmount /\ MaxAmount \in Nat
  BY <1>1, PaidType, PaymentsAssumption DEF PTypeOK
<1>3. Payable(r) /\ a > 0 /\ WalletPayment(d, r, a) /\ MilestonePaid(r, a)
  BY DEF PayDue
<1>4. a \in 0..MaxAmount /\ paid \in Nat
  BY <1>2, <1>3
<1>5. Settle(r, paid, st)
  BY <1>3 DEF MilestonePaid
<1>6. st \in PayIntent \cup {"CANCELLED"} /\ (paid = Total[r] /\ Total[r] > 0 => st # "PENDING_PAYMENT")
  BY <1>2, <1>3, <1>4 DEF Payable, PayIntent
<1> HIDE DEF a
<1>7. /\ Paid(r)' = Paid(r) + a
      /\ \A p \in PaymentId : For[p] # r =>
             payment'[p] = payment[p] /\ amount'[p] = amount[p]
  BY <1>1, <1>3, <1>4, DrawPays
<1>8. paid = Paid(r)'
  BY <1>7
<1> HIDE DEF paid, st
<1>9. /\ AdvanceAccounting' /\ PaidIsConfirmed'
      /\ status' \in [Reservation -> PayIntent \cup {"NONE", "CANCELLED"}]
      /\ advance' \in [Reservation -> 0..MaxAmount]
      /\ balance' \in [Reservation -> 0..MaxAmount]
      /\ untold' \subseteq Till
      /\ \A q \in Reservation : status[q] # "NONE" => status'[q] # "NONE"
      /\ status'[r] # "NONE"
  BY <1>1, <1>4, <1>5, <1>6, <1>7, <1>8, SettledAccounting
<1>10. /\ d \in PaymentId /\ d \notin Order /\ d \notin Slip /\ For[d] = r
       /\ wallet - a \in Nat /\ wallet' = wallet - a
       /\ payment' = [payment EXCEPT ![d] = "VERIFIED"]
       /\ amount' = [amount EXCEPT ![d] = a]
  BY <1>1, <1>3, <1>4, PaymentsAssumption DEF WalletPayment, PaymentId, PTypeOK
<1>11. /\ UNCHANGED <<stayVars, attempt, credits, refunded, cancelKeys, gateVars, hookVars>>
       /\ payStatus' = [payStatus EXCEPT ![r] =
              IF Paid(r) + a >= Total[r] THEN "PAID" ELSE "PARTIALLY_PAID"]
  BY <1>3 DEF MilestonePaid
<1>12. PTypeOK'
  BY <1>1, <1>4, <1>9, <1>10, <1>11 DEF PTypeOK, PaymentStatus, stayVars, gateVars, hookVars
<1>13. OrdersOpened'
  BY <1>10, <1>11 DEF PayInv, PTypeOK, OrdersOpened, gateVars, PaymentId
<1>14. Booked'
  <2> SUFFICES ASSUME NEW p \in PaymentId, For[p] # Wallet,
                      payment'[p] # "NONE" \/ (p \in Order /\ attempt'[p] # "NONE")
               PROVE  status'[For[p]] # "NONE"
    BY DEF Booked
  <2>1. CASE p = d
    BY <2>1, <1>10, <1>9
  <2>2. CASE p # d
    <3>1. payment'[p] = payment[p] /\ attempt' = attempt
      BY <2>2, <1>10, <1>11 DEF PayInv, PTypeOK
    <3> QED
      BY <3>1, <1>9, ForStays DEF PayInv, Booked
  <2> QED
    BY <2>1, <2>2
<1>15. InFlight'
  BY <1>11 DEF PayInv, InFlight, Sent, gateVars, hookVars
<1> QED
  BY <1>9, <1>12, <1>13, <1>14, <1>15 DEF PayInv
\* A cancellation changes no amount of the reservation.
LEMMA CancelStep ==
    ASSUME PayInv, NEW r \in Reservation, NEW key \in ClientKey \cup {r},
           NEW penalty \in {0, FirstNight}, Cancel(r, key, penalty)
    PROVE  PayInv'
<1> DEFINE refund == NonNegative(Paid(r) - penalty)
           back == LesserOf(WalletPaid(r), refund)
<1>1. CancelWith(r, key, refund, back)
  BY DEF Cancel
<1>2. PTypeOK /\ AdvanceAccounting /\ PaidIsConfirmed
  BY DEF PayInv
<1>3. back \in Nat
  <2>1. Paid(r) \in Nat /\ WalletPaid(r) \in Nat /\ penalty \in Nat
    BY PaidType, PaymentsAssumption
  <2> QED
    BY <2>1 DEF LesserOf, NonNegative
<1> HIDE DEF refund, back
<1>4. /\ payment' = payment /\ amount' = amount /\ attempt' = attempt
      /\ advance' = advance /\ balance' = balance /\ untold' = untold
      /\ status' = [status EXCEPT ![r] = "CANCELLED"] /\ status[r] # "NONE"
  BY <1>1 DEF CancelWith
<1>5. /\ \A q \in Reservation : Told(q)' = Told(q)
      /\ untold' \subseteq {p \in Till : payment'[p] = "VERIFIED"}
  BY <1>2, <1>4, PaidFrame
<1>6. \A q \in Reservation :
        status'[q] = status[q] \/ (status[q] # "NONE" /\ status'[q] = "CANCELLED")
  BY <1>2, <1>4 DEF PTypeOK
<1>7. AdvanceAccounting' /\ PaidIsConfirmed'
  BY <1>2, <1>4, <1>5, <1>6, UnsettledAccounting
<1>8. PTypeOK'
  <2>1. status' \in [Reservation -> PayIntent \cup {"NONE", "CANCELLED"}]
    BY <1>2, <1>4 DEF PTypeOK
  <2>2. payStatus' \in [Reservation -> PaymentStatus]
    BY <1>1, <1>2 DEF PTypeOK, CancelWith, PaymentStatus
  <2>3. /\ wallet' = wallet + back /\ refunded' = [refunded EXCEPT ![r] = @ + back]
        /\ cancelKeys' = cancelKeys \cup {key}
    BY <1>1 DEF CancelWith
  <2>4. /\ wallet' \in Nat /\ refunded' \in [Reservation -> Nat]
        /\ cancelKeys' \subseteq ClientKey \cup Reservation
    BY <1>2, <1>3, <2>3 DEF PTypeOK
  <2> QED
    BY <1>1, <1>2, <2>1, <2>2, <2>4 DEF PTypeOK, CancelWith, stayVars, gateVars, hookVars
<1>9. OrdersOpened' /\ InFlight'
  BY <1>1 DEF PayInv, OrdersOpened, InFlight, Sent, CancelWith, gateVars, hookVars
<1>10. Booked'
  BY <1>2, <1>4, <1>6, ForStays DEF PayInv, Booked
<1> QED
  BY <1>7, <1>8, <1>9, <1>10 DEF PayInv

\* The transaction that verifies payment d and recalculates its reservation.
LEMMA RecalculateKeeps ==
    ASSUME PTypeOK, AdvanceAccounting, PaidIsConfirmed,
           NEW d \in PaymentId, For[d] # Wallet, status[For[d]] # "NONE",
           Recalculate(For[d], [payment EXCEPT ![d] = "VERIFIED"]), amount' = amount
    PROVE  /\ AdvanceAccounting' /\ PaidIsConfirmed'
           /\ status' \in [Reservation -> PayIntent \cup {"NONE", "CANCELLED"}]
           /\ advance' \in [Reservation -> 0..MaxAmount]
           /\ balance' \in [Reservation -> 0..MaxAmount]
           /\ untold' \subseteq Till
           /\ payStatus' \in [Reservation -> PaymentStatus]
           /\ payment' = [payment EXCEPT ![d] = "VERIFIED"]
           /\ \A q \in Reservation : status[q] # "NONE" => status'[q] # "NONE"
<1> DEFINE r == For[d]
           paid == Sum(amount, VerifiedOf([payment EXCEPT ![d] = "VERIFIED"], r))
           full == paid >= Total[r]
           agentPaid == r \in AgentSource /\ paid > 0
           st == IF status[r] = "PENDING_PAYMENT" /\ (full \/ agentPaid)
                 THEN "CONFIRMED" ELSE status[r]
<1>1. r \in Reservation
  BY ForStays
<1>2. /\ payment' = [payment EXCEPT ![d] = "VERIFIED"]
      /\ Settle(r, paid, st)
  BY Zenon DEF Recalculate
<1>3. payStatus' \in [Reservation -> PaymentStatus]
  BY <1>1 DEF Recalculate, PTypeOK, PaymentStatus
<1>4. paid = Paid(r)'
  BY <1>2 DEF Paid
<1>5. paid \in Nat
  BY <1>4, PaidType
<1>6. \A p \in PaymentId : For[p] # r => payment'[p] = payment[p] /\ amount'[p] = amount[p]
  BY <1>2 DEF PTypeOK
<1> HIDE DEF paid
<1>7. /\ st \in PayIntent \cup {"CANCELLED"}
      /\ paid = Total[r] /\ Total[r] > 0 => st # "PENDING_PAYMENT"
  BY <1>1, <1>5, PaymentsAssumption DEF PTypeOK, PayIntent
<1> HIDE DEF r, st
<1>8. /\ AdvanceAccounting' /\ PaidIsConfirmed'
      /\ status' \in [Reservation -> PayIntent \cup {"NONE", "CANCELLED"}]
      /\ advance' \in [Reservation -> 0..MaxAmount]
      /\ balance' \in [Reservation -> 0..MaxAmount]
      /\ untold' \subseteq Till
      /\ \A q \in Reservation : status[q] # "NONE" => status'[q] # "NONE"
  BY <1>1, <1>2, <1>4, <1>5, <1>6, <1>7, SettledAccounting
<1> QED
  BY <1>2, <1>3, <1>8

\* A credit keeps the types.
LEMMA CreditKeeps ==
    ASSUME PTypeOK, NEW p \in Order \cup Slip, Credit(p)
    PROVE  wallet' \in Nat /\ credits' \in [Order \cup Slip -> Nat]
<1>1. amount[p] \in Nat /\ wallet \in Nat /\ credits \in [Order \cup Slip -> Nat]
  BY PaymentsAssumption DEF PTypeOK, PaymentId
<1> QED
  BY <1>1 DEF Credit

\* The success of order o's payment, whichever path reports it.
LEMMA RecordKeeps ==
    ASSUME PayInv, NEW o \in Order, attempt[o] # "NONE", RecordSuccess(o),
           hook' \in [Event -> {"NONE", "RECEIVED", "PROCESSED", "FAILED"}],
           handling' \subseteq Event, answered' \subseteq Event
    PROVE  PTypeOK' /\ AdvanceAccounting' /\ PaidIsConfirmed' /\ OrdersOpened' /\ Booked'
<1>1. PTypeOK /\ AdvanceAccounting /\ PaidIsConfirmed /\ o \in PaymentId
      /\ o \in Order \cup Slip
  BY DEF PayInv, PaymentId
<1>2. /\ attempt' = [attempt EXCEPT ![o] = "SUCCESS"] /\ amount' = amount
      /\ due' = due /\ stay' = stay /\ cancelKeys' = cancelKeys
      /\ captured' = captured /\ declined' = declined
  BY DEF RecordSuccess, stayVars, gateVars
<1>3. attempt' \in [Order -> {"NONE", "PENDING", "SUCCESS", "FAILED"}]
  BY <1>1, <1>2 DEF PTypeOK
<1>4. CASE For[o] = Wallet
  <2>1. /\ Credit(o)
        /\ status' = status /\ payStatus' = payStatus /\ advance' = advance
        /\ balance' = balance /\ payment' = payment /\ refunded' = refunded
        /\ untold' = untold
    BY <1>4 DEF RecordSuccess, bookVars
  <2>2. /\ \A q \in Reservation : Told(q)' = Told(q)
        /\ untold' \subseteq {p \in Till : payment'[p] = "VERIFIED"}
    BY <1>1, <1>2, <2>1, PaidFrame
  <2>3. AdvanceAccounting' /\ PaidIsConfirmed'
    BY <1>1, <2>1, <2>2, UnsettledAccounting
  <2>4. wallet' \in Nat /\ credits' \in [Order \cup Slip -> Nat]
    BY <1>1, <2>1, CreditKeeps
  <2>5. PTypeOK'
    BY <1>1, <1>2, <1>3, <2>1, <2>4 DEF PTypeOK
  <2>6. OrdersOpened'
    BY <1>1, <1>2, <2>1 DEF PayInv, OrdersOpened, PTypeOK, Credit
  <2>7. Booked'
    BY <1>1, <1>2, <1>4, <2>1 DEF PayInv, Booked, PTypeOK
  <2> QED
    BY <2>3, <2>5, <2>6, <2>7
<1>5. CASE For[o] # Wallet
  <2>1. /\ Recalculate(For[o], [payment EXCEPT ![o] = "VERIFIED"])
        /\ wallet' = wallet /\ credits' = credits /\ refunded' = refunded
    BY <1>5 DEF RecordSuccess, walletVars
  <2>2. status[For[o]] # "NONE"
    BY <1>1, <1>5 DEF PayInv, Booked
  <2>3. /\ AdvanceAccounting' /\ PaidIsConfirmed'
        /\ status' \in [Reservation -> PayIntent \cup {"NONE", "CANCELLED"}]
        /\ advance' \in [Reservation -> 0..MaxAmount]
        /\ balance' \in [Reservation -> 0..MaxAmount]
        /\ untold' \subseteq Till
        /\ payStatus' \in [Reservation -> PaymentStatus]
        /\ payment' = [payment EXCEPT ![o] = "VERIFIED"]
        /\ \A q \in Reservation : status[q] # "NONE" => status'[q] # "NONE"
    BY <1>1, <1>2, <1>5, <2>1, <2>2, RecalculateKeeps
  <2>4. PTypeOK'
    BY <1>1, <1>2, <1>3, <2>1, <2>3 DEF PTypeOK
  <2>5. OrdersOpened'
    BY <1>1, <1>2, <2>1, <2>3 DEF PayInv, OrdersOpened, PTypeOK, PaymentId
  <2>6. Booked'
    <3> SUFFICES ASSUME NEW p \in PaymentId, For[p] # Wallet,
                        payment'[p] # "NONE" \/ (p \in Order /\ attempt'[p] # "NONE")
                 PROVE  status'[For[p]] # "NONE"
      BY DEF Booked
    <3>1. CASE p = o
      BY <3>1, <2>2, <2>3, ForStays
    <3>2. CASE p # o
      <4>1. payment'[p] = payment[p] /\ (p \in Order => attempt'[p] = attempt[p])
        BY <3>2, <1>1, <1>2, <2>3 DEF PTypeOK
      <4> QED
        BY <4>1, <2>3, ForStays DEF PayInv, Booked
    <3> QED
      BY <3>1, <3>2
  <2> QED
    BY <2>3, <2>4, <2>5, <2>6
<1> QED
  BY <1>4, <1>5
\* A step that leaves the money alone leaves what is said of it true.
LEMMA MoneyFrame ==
    ASSUME PayInv, UNCHANGED moneyVars,
           captured \subseteq captured', declined \subseteq declined',
           captured' \subseteq Order, declined' \subseteq Order,
           \A o \in (captured' \cup declined') \ (captured \cup declined) :
               attempt[o] # "NONE",
           hook' \in [Event -> {"NONE", "RECEIVED", "PROCESSED", "FAILED"}],
           handling' \subseteq Event, answered' \subseteq Event
    PROVE  PTypeOK' /\ AdvanceAccounting' /\ PaidIsConfirmed' /\ OrdersOpened' /\ Booked'
<1> USE DEF moneyVars, bookVars, stayVars, walletVars
<1>1. PTypeOK /\ AdvanceAccounting /\ PaidIsConfirmed
  BY DEF PayInv
<1>2. /\ \A q \in Reservation : Told(q)' = Told(q)
      /\ untold' \subseteq {p \in Till : payment'[p] = "VERIFIED"}
  BY <1>1, PaidFrame
<1>3. AdvanceAccounting' /\ PaidIsConfirmed'
  BY <1>1, <1>2, UnsettledAccounting
<1>4. PTypeOK'
  BY <1>1 DEF PTypeOK
<1>5. OrdersOpened'
  BY <1>1 DEF PayInv, OrdersOpened
<1>6. Booked'
  BY <1>1 DEF PayInv, Booked
<1> QED
  BY <1>3, <1>4, <1>5, <1>6

\* An order is created.
LEMMA CreateOrderStep ==
    ASSUME PayInv, NEW o \in Order, NEW a \in Amounts, CreateOrder(o, a)
    PROVE  PayInv'
<1>1. PTypeOK /\ AdvanceAccounting /\ PaidIsConfirmed /\ o \in PaymentId /\ a \in 0..MaxAmount
  BY PaymentsAssumption DEF PayInv, PaymentId, Amounts
<1>2. /\ attempt[o] = "NONE" /\ payment[o] = "NONE"
      /\ For[o] # Wallet => status[For[o]] # "NONE"
      /\ attempt' = [attempt EXCEPT ![o] = "PENDING"]
      /\ amount' = [amount EXCEPT ![o] = a]
      /\ payment' = payment /\ UNCHANGED bookVars
  BY DEF CreateOrder, PayInv, OrdersOpened, Payable, PayIntent
<1>3. /\ \A q \in Reservation : Told(q)' = Told(q)
      /\ untold' \subseteq {p \in Till : payment'[p] = "VERIFIED"}
  <2>1. \A p \in PaymentId : payment[p] = "VERIFIED" => amount[p] = amount'[p]
    BY <1>1, <1>2 DEF PTypeOK
  <2>2. AdvanceAccounting /\ untold' = untold
    BY <1>1, <1>2 DEF bookVars
  <2> QED
    BY <1>2, <2>1, <2>2, PaidFrame
<1>4. AdvanceAccounting' /\ PaidIsConfirmed'
  BY <1>1, <1>2, <1>3, UnsettledAccounting DEF bookVars
<1>5. PTypeOK'
  BY <1>1, <1>2 DEF PTypeOK, CreateOrder, bookVars, stayVars, walletVars, gateVars, hookVars
<1>6. OrdersOpened'
  BY <1>1, <1>2 DEF PayInv, OrdersOpened, PTypeOK, CreateOrder, walletVars, gateVars
<1>7. Booked'
  BY <1>1, <1>2 DEF PayInv, Booked, PTypeOK, bookVars
<1>8. InFlight'
  BY DEF PayInv, InFlight, Sent, CreateOrder, gateVars, hookVars
<1> QED
  BY <1>4, <1>5, <1>6, <1>7, <1>8 DEF PayInv

\* The gateway tries.
LEMMA GatewayStep ==
    ASSUME PayInv, NEW o \in Order, Decline(o) \/ Capture(o)
    PROVE  PayInv'
<1>1. /\ captured \subseteq captured' /\ declined \subseteq declined'
      /\ captured' \subseteq Order /\ declined' \subseteq Order
      /\ \A x \in (captured' \cup declined') \ (captured \cup declined) :
            attempt[x] # "NONE"
      /\ UNCHANGED moneyVars /\ UNCHANGED hookVars
  BY DEF PayInv, PTypeOK, Decline, Capture
<1>2. /\ hook' \in [Event -> {"NONE", "RECEIVED", "PROCESSED", "FAILED"}]
      /\ handling' \subseteq Event /\ answered' \subseteq Event
  BY <1>1 DEF PayInv, PTypeOK, hookVars
<1>3. PTypeOK' /\ AdvanceAccounting' /\ PaidIsConfirmed' /\ OrdersOpened' /\ Booked'
  BY <1>1, <1>2, MoneyFrame
<1>4. InFlight'
  BY <1>1 DEF PayInv, InFlight, Sent, hookVars
<1> QED
  BY <1>3, <1>4 DEF PayInv

\* The browser returns.
LEMMA VerifyCheckoutStep ==
    ASSUME PayInv, NEW o \in Order, VerifyCheckout(o)
    PROVE  PayInv'
<1>1. /\ attempt[o] # "NONE" /\ RecordSuccess(o) /\ UNCHANGED hookVars
      /\ captured' = captured /\ declined' = declined
  BY DEF VerifyCheckout, RecordSuccess, gateVars
<1>2. /\ hook' \in [Event -> {"NONE", "RECEIVED", "PROCESSED", "FAILED"}]
      /\ handling' \subseteq Event /\ answered' \subseteq Event
  BY <1>1 DEF PayInv, PTypeOK, hookVars
<1>3. PTypeOK' /\ AdvanceAccounting' /\ PaidIsConfirmed' /\ OrdersOpened' /\ Booked'
  BY <1>1, <1>2, RecordKeeps
<1>4. InFlight'
  BY <1>1 DEF PayInv, InFlight, Sent, hookVars
<1> QED
  BY <1>3, <1>4 DEF PayInv

\* A handler that ends keeps the types, and what is in the process.
LEMMA FinishKeeps ==
    ASSUME PTypeOK, InFlight, NEW e \in handling, NEW answer \in {{e}, {}},
           NEW mark \in {"PROCESSED", "FAILED"}, Finish(e, mark, answer),
           UNCHANGED gateVars
    PROVE  /\ hook' \in [Event -> {"NONE", "RECEIVED", "PROCESSED", "FAILED"}]
           /\ handling' \subseteq Event /\ answered' \subseteq Event
           /\ InFlight'
<1>1. /\ hook' = [hook EXCEPT ![e] = mark] /\ handling' = handling \ {e}
      /\ answered' = answered \cup answer /\ e \in Event
  BY DEF Finish, PTypeOK
<1>2. /\ hook' \in [Event -> {"NONE", "RECEIVED", "PROCESSED", "FAILED"}]
      /\ handling' \subseteq Event /\ answered' \subseteq Event
  BY <1>1 DEF PTypeOK
<1>3. InFlight'
  BY <1>1 DEF PTypeOK, InFlight, Sent, gateVars
<1> QED
  BY <1>2, <1>3

\* The webhook writes an event, or answers that it has it.
LEMMA ReceiveStep ==
    ASSUME PayInv, NEW e \in Event, ReceiveEvent(e)
    PROVE  PayInv'
<1>1. UNCHANGED moneyVars /\ captured' = captured /\ declined' = declined
  BY DEF ReceiveEvent, gateVars
<1>2. /\ hook' \in [Event -> {"NONE", "RECEIVED", "PROCESSED", "FAILED"}]
      /\ handling' \subseteq Event /\ answered' \subseteq Event
  BY DEF PayInv, PTypeOK, ReceiveEvent
<1>3. captured' \subseteq Order /\ declined' \subseteq Order
  BY <1>1 DEF PayInv, PTypeOK
<1>4. PTypeOK' /\ AdvanceAccounting' /\ PaidIsConfirmed' /\ OrdersOpened' /\ Booked'
  BY <1>1, <1>2, <1>3, MoneyFrame
<1>5. InFlight'
  BY <1>1 DEF PayInv, PTypeOK, InFlight, Sent, ReceiveEvent
<1> QED
  BY <1>4, <1>5 DEF PayInv

\* The webhook's transaction of a success.
LEMMA SuccessStep ==
    ASSUME PayInv, NEW e \in Event, ProcessSuccess(e)
    PROVE  PayInv'
<1>1. e \in handling /\ Finish(e, "PROCESSED", {e}) /\ UNCHANGED gateVars
  BY DEF ProcessSuccess, RecordSuccess
<1>2. PTypeOK /\ InFlight
  BY DEF PayInv
<1>3. /\ hook' \in [Event -> {"NONE", "RECEIVED", "PROCESSED", "FAILED"}]
      /\ handling' \subseteq Event /\ answered' \subseteq Event
      /\ InFlight'
  BY <1>1, <1>2, FinishKeeps
<1>4. CASE attempt[e.order] = "SUCCESS"
  <2>1. UNCHANGED moneyVars /\ captured' = captured /\ declined' = declined
    BY <1>4 DEF ProcessSuccess, gateVars
  <2>2. captured' \subseteq Order /\ declined' \subseteq Order
    BY <1>2, <2>1 DEF PTypeOK
  <2>3. PTypeOK' /\ AdvanceAccounting' /\ PaidIsConfirmed' /\ OrdersOpened' /\ Booked'
    BY <1>3, <2>1, <2>2, MoneyFrame
  <2> QED
    BY <1>3, <2>3 DEF PayInv
<1>5. CASE attempt[e.order] # "SUCCESS"
  <2>1. RecordSuccess(e.order) /\ e.outcome = "SUCCESS"
    BY <1>5 DEF ProcessSuccess
  <2>2. e.order \in Order
    BY EventFields
  <2>3. e.order \in captured
    BY <1>1, <1>2, <2>1 DEF InFlight, Sent
  <2>4. attempt[e.order] # "NONE"
    BY <2>2, <2>3 DEF PayInv, OrdersOpened
  <2>5. PTypeOK' /\ AdvanceAccounting' /\ PaidIsConfirmed' /\ OrdersOpened' /\ Booked'
    BY <1>3, <2>1, <2>2, <2>4, RecordKeeps
  <2> QED
    BY <1>3, <2>5 DEF PayInv
<1> QED
  BY <1>4, <1>5

\* The webhook's transaction of a failure.
LEMMA FailureStep ==
    ASSUME PayInv, NEW e \in Event, ProcessFailure(e)
    PROVE  PayInv'
<1>1. /\ e \in handling /\ Finish(e, "PROCESSED", {e}) /\ UNCHANGED gateVars
      /\ e.outcome = "FAILED"
      /\ UNCHANGED <<status, advance, balance, untold, stayVars, amount, payment,
                     walletVars, cancelKeys>>
      /\ attempt' = [attempt EXCEPT ![e.order] = "FAILED"]
      /\ payStatus' = [r \in Reservation |->
                         IF r = For[e.order] THEN "FAILED" ELSE payStatus[r]]
  BY DEF ProcessFailure
<1>2. PTypeOK /\ InFlight /\ AdvanceAccounting /\ PaidIsConfirmed /\ e.order \in Order
      /\ e.order \in PaymentId
  BY EventFields DEF PayInv
<1>3. /\ hook' \in [Event -> {"NONE", "RECEIVED", "PROCESSED", "FAILED"}]
      /\ handling' \subseteq Event /\ answered' \subseteq Event
      /\ InFlight'
  BY <1>1, <1>2, FinishKeeps
<1>4. attempt[e.order] # "NONE"
  <2>1. e.order \in declined
    BY <1>1, <1>2 DEF InFlight, Sent
  <2> QED
    BY <1>2, <2>1 DEF PayInv, OrdersOpened
<1>5. /\ \A q \in Reservation : Told(q)' = Told(q)
      /\ untold' \subseteq {p \in Till : payment'[p] = "VERIFIED"}
  BY <1>1, <1>2, PaidFrame
<1>6. AdvanceAccounting' /\ PaidIsConfirmed'
  BY <1>1, <1>2, <1>5, UnsettledAccounting
<1>7. PTypeOK'
  BY <1>1, <1>2, <1>3 DEF PTypeOK, PaymentStatus, stayVars, walletVars, gateVars
<1>8. OrdersOpened'
  BY <1>1, <1>2 DEF PayInv, PTypeOK, OrdersOpened, walletVars, gateVars
<1>9. Booked'
  BY <1>1, <1>2, <1>4 DEF PayInv, PTypeOK, Booked
<1> QED
  BY <1>3, <1>6, <1>7, <1>8, <1>9 DEF PayInv

\* The transaction aborts, or the process restarts.
LEMMA AbortStep ==
    ASSUME PayInv, (\E e \in Event : ProcessingFails(e)) \/ Restart
    PROVE  PayInv'
<1>1. UNCHANGED moneyVars /\ captured' = captured /\ declined' = declined
  BY DEF ProcessingFails, Restart, gateVars
<1>2. /\ hook' \in [Event -> {"NONE", "RECEIVED", "PROCESSED", "FAILED"}]
      /\ handling' \subseteq Event /\ answered' \subseteq Event
      /\ InFlight'
  <2>1. PTypeOK /\ InFlight
    BY DEF PayInv
  <2>2. CASE Restart
    BY <2>1, <2>2 DEF PTypeOK, InFlight, Restart
  <2>3. CASE \E e \in Event : ProcessingFails(e)
    <3>1. PICK e \in Event : ProcessingFails(e)
      BY <2>3
    <3>2. e \in handling /\ Finish(e, "FAILED", {}) /\ UNCHANGED gateVars
      BY <3>1 DEF ProcessingFails
    <3> QED
      BY <2>1, <3>2, FinishKeeps
  <2> QED
    BY <2>2, <2>3
<1>3. captured' \subseteq Order /\ declined' \subseteq Order
  BY <1>1 DEF PayInv, PTypeOK
<1>4. PTypeOK' /\ AdvanceAccounting' /\ PaidIsConfirmed' /\ OrdersOpened' /\ Booked'
  BY <1>1, <1>2, <1>3, MoneyFrame
<1> QED
  BY <1>2, <1>4 DEF PayInv

\* A manual or offline payment is begun.
LEMMA BeginSlipStep ==
    ASSUME PayInv, NEW s \in Slip, NEW a \in Amounts, BeginSlip(s, a)
    PROVE  PayInv'
<1>1. PTypeOK /\ AdvanceAccounting /\ PaidIsConfirmed /\ s \in PaymentId
      /\ s \notin Order /\ a \in 0..MaxAmount
  BY PaymentsAssumption DEF PayInv, PaymentId, Amounts
<1>2. /\ payment[s] = "NONE"
      /\ For[s] # Wallet => status[For[s]] # "NONE"
      /\ payment' = [payment EXCEPT ![s] = "READ"]
      /\ amount' = [amount EXCEPT ![s] = a]
      /\ attempt' = attempt /\ UNCHANGED bookVars
  BY DEF BeginSlip
<1>3. /\ \A q \in Reservation : Told(q)' = Told(q)
      /\ untold' \subseteq {p \in Till : payment'[p] = "VERIFIED"}
  <2>1. \A p \in PaymentId : payment[p] = "VERIFIED" => amount[p] = amount'[p]
    BY <1>1, <1>2 DEF PTypeOK
  <2>2. \A p \in PaymentId : payment[p] = "VERIFIED" <=> payment'[p] = "VERIFIED"
    BY <1>1, <1>2 DEF PTypeOK
  <2>3. AdvanceAccounting /\ untold' = untold
    BY <1>1, <1>2 DEF bookVars
  <2> QED
    BY <2>1, <2>2, <2>3, PaidFrame
<1>4. AdvanceAccounting' /\ PaidIsConfirmed'
  BY <1>1, <1>2, <1>3, UnsettledAccounting DEF bookVars
<1>5. PTypeOK'
  BY <1>1, <1>2 DEF PTypeOK, BeginSlip, bookVars, stayVars, walletVars, gateVars, hookVars
<1>6. OrdersOpened'
  BY <1>1, <1>2 DEF PayInv, OrdersOpened, PTypeOK, BeginSlip, walletVars, gateVars, PaymentId
<1>7. Booked'
  BY <1>1, <1>2 DEF PayInv, Booked, PTypeOK, bookVars
<1>8. InFlight'
  BY DEF PayInv, InFlight, Sent, BeginSlip, gateVars, hookVars
<1> QED
  BY <1>4, <1>5, <1>6, <1>7, <1>8 DEF PayInv

\* It is written.
LEMMA RecordSlipStep ==
    ASSUME PayInv, NEW s \in Slip, RecordSlip(s)
    PROVE  PayInv'
<1>1. PTypeOK /\ AdvanceAccounting /\ PaidIsConfirmed /\ s \in PaymentId /\ s \notin Order
  BY PaymentsAssumption DEF PayInv, PaymentId
<1>2. /\ payment[s] = "READ"
      /\ payment' = [payment EXCEPT ![s] = "UNVERIFIED"]
      /\ payStatus' = [r \in Reservation |->
                         IF r = For[s] THEN "PENDING" ELSE payStatus[r]]
      /\ UNCHANGED <<status, advance, balance, untold, stayVars, attempt, amount,
                     walletVars, cancelKeys, gateVars, hookVars>>
  BY DEF RecordSlip
<1>3. /\ \A q \in Reservation : Told(q)' = Told(q)
      /\ untold' \subseteq {p \in Till : payment'[p] = "VERIFIED"}
  <2>1. \A p \in PaymentId : payment[p] = "VERIFIED" <=> payment'[p] = "VERIFIED"
    BY <1>1, <1>2 DEF PTypeOK
  <2> QED
    BY <1>1, <1>2, <2>1, PaidFrame
<1>4. AdvanceAccounting' /\ PaidIsConfirmed'
  BY <1>1, <1>2, <1>3, UnsettledAccounting
<1>5. PTypeOK'
  BY <1>1, <1>2 DEF PTypeOK, PaymentStatus, stayVars, walletVars, gateVars, hookVars
<1>6. OrdersOpened'
  BY <1>1, <1>2 DEF PayInv, OrdersOpened, PTypeOK, walletVars, gateVars, PaymentId
<1>7. Booked'
  BY <1>1, <1>2 DEF PayInv, Booked, PTypeOK
<1>8. InFlight'
  BY <1>2 DEF PayInv, InFlight, Sent, gateVars, hookVars
<1> QED
  BY <1>4, <1>5, <1>6, <1>7, <1>8 DEF PayInv

\* It is verified.
LEMMA VerifySlipStep ==
    ASSUME PayInv, NEW s \in Slip, VerifySlip(s)
    PROVE  PayInv'
<1>1. PTypeOK /\ AdvanceAccounting /\ PaidIsConfirmed /\ s \in PaymentId /\ s \notin Order
      /\ s \in Order \cup Slip
  BY PaymentsAssumption DEF PayInv, PaymentId
<1>2. /\ payment[s] = "UNVERIFIED" /\ amount' = amount /\ attempt' = attempt
      /\ UNCHANGED stayVars
      /\ cancelKeys' = cancelKeys /\ UNCHANGED gateVars /\ UNCHANGED hookVars
  BY DEF VerifySlip
<1>3. InFlight'
  BY <1>2 DEF PayInv, InFlight, Sent, gateVars, hookVars
<1>4. CASE For[s] = Wallet
  <2>1. /\ Credit(s) /\ payment' = [payment EXCEPT ![s] = "VERIFIED"]
        /\ UNCHANGED bookVars /\ refunded' = refunded
    BY <1>4 DEF VerifySlip
  <2>2. /\ \A q \in Reservation : Told(q)' = Told(q)
        /\ untold' \subseteq {p \in Till : payment'[p] = "VERIFIED"}
    <3>1. \A q \in Reservation : q # For[s]
      BY <1>4, PaymentsAssumption
    <3>2. /\ \A p \in PaymentId \ {s} : payment'[p] = payment[p] /\ amount'[p] = amount[p]
          /\ payment'[s] = "VERIFIED" /\ untold' = untold
      BY <1>1, <1>2, <2>1 DEF PTypeOK, bookVars
    <3>3. ASSUME NEW q \in Reservation
          PROVE  Told(q)' = Told(q)
      <4>1. \A p \in PaymentId : For[p] = q => p # s
        BY <3>1
      <4> QED
        BY <3>2, <4>1, ToldFrame
    <3>4. untold' \subseteq {p \in Till : payment'[p] = "VERIFIED"}
      BY <1>1, <3>2 DEF AdvanceAccounting, PaymentId
    <3> QED
      BY <3>3, <3>4
  <2>3. AdvanceAccounting' /\ PaidIsConfirmed'
    BY <1>1, <2>1, <2>2, UnsettledAccounting DEF bookVars
  <2>4. wallet' \in Nat /\ credits' \in [Order \cup Slip -> Nat]
    BY <1>1, <2>1, CreditKeeps
  <2>5. PTypeOK'
    BY <1>1, <1>2, <2>1, <2>4 DEF PTypeOK, bookVars, stayVars, gateVars, hookVars
  <2>6. OrdersOpened'
    BY <1>1, <1>2, <2>1 DEF PayInv, OrdersOpened, PTypeOK, Credit, gateVars, PaymentId
  <2>7. Booked'
    BY <1>1, <1>2, <1>4, <2>1 DEF PayInv, Booked, PTypeOK, bookVars
  <2> QED
    BY <1>3, <2>3, <2>5, <2>6, <2>7 DEF PayInv
<1>5. CASE For[s] # Wallet
  <2>1. /\ Recalculate(For[s], [payment EXCEPT ![s] = "VERIFIED"])
        /\ wallet' = wallet /\ credits' = credits /\ refunded' = refunded
    BY <1>5 DEF VerifySlip, walletVars
  <2>2. status[For[s]] # "NONE"
    BY <1>1, <1>2, <1>5 DEF PayInv, Booked
  <2>3. /\ AdvanceAccounting' /\ PaidIsConfirmed'
        /\ status' \in [Reservation -> PayIntent \cup {"NONE", "CANCELLED"}]
        /\ advance' \in [Reservation -> 0..MaxAmount]
        /\ balance' \in [Reservation -> 0..MaxAmount]
        /\ untold' \subseteq Till
        /\ payStatus' \in [Reservation -> PaymentStatus]
        /\ payment' = [payment EXCEPT ![s] = "VERIFIED"]
        /\ \A q \in Reservation : status[q] # "NONE" => status'[q] # "NONE"
    BY <1>1, <1>2, <1>5, <2>1, <2>2, RecalculateKeeps
  <2>4. PTypeOK'
    BY <1>1, <1>2, <2>1, <2>3 DEF PTypeOK, stayVars, gateVars, hookVars
  <2>5. OrdersOpened'
    BY <1>1, <1>2, <2>1, <2>3 DEF PayInv, OrdersOpened, PTypeOK, PaymentId, gateVars
  <2>6. Booked'
    <3> SUFFICES ASSUME NEW p \in PaymentId, For[p] # Wallet,
                        payment'[p] # "NONE" \/ (p \in Order /\ attempt'[p] # "NONE")
                 PROVE  status'[For[p]] # "NONE"
      BY DEF Booked
    <3>1. CASE p = s
      BY <3>1, <2>2, <2>3, ForStays
    <3>2. CASE p # s
      <4>1. payment'[p] = payment[p]
        BY <3>2, <1>1, <1>2, <2>3 DEF PTypeOK
      <4> QED
        BY <4>1, <1>2, <2>3, ForStays DEF PayInv, Booked
    <3> QED
      BY <3>1, <3>2
  <2> QED
    BY <1>3, <2>3, <2>4, <2>5, <2>6 DEF PayInv
<1> QED
  BY <1>4, <1>5

\* The guest comes and goes.
LEMMA StayStep ==
    ASSUME PayInv, NEW r \in Reservation, CheckIn(r) \/ CheckOut(r)
    PROVE  PayInv'
<1>1. /\ \E to \in {"CHECKED_IN", "CHECKED_OUT"} : stay' = [stay EXCEPT ![r] = to]
      /\ UNCHANGED <<bookVars, due, attempt, amount, payment, walletVars, cancelKeys,
                     gateVars, hookVars>>
  BY DEF CheckIn, CheckOut, MoveStay
<1>2. PTypeOK /\ AdvanceAccounting /\ PaidIsConfirmed
  BY DEF PayInv
<1>3. /\ status' = status /\ advance' = advance /\ balance' = balance
      /\ untold' = untold /\ payment' = payment /\ amount' = amount
  BY <1>1 DEF bookVars
<1>4. /\ \A q \in Reservation : Told(q)' = Told(q)
      /\ untold' \subseteq {p \in Till : payment'[p] = "VERIFIED"}
  BY <1>2, <1>3, PaidFrame
<1>5. AdvanceAccounting' /\ PaidIsConfirmed'
  BY <1>2, <1>3, <1>4, UnsettledAccounting
<1>6. stay' \in [Reservation -> {"EXPECTED", "CHECKED_IN", "CHECKED_OUT"}]
  BY <1>1, <1>2 DEF PTypeOK
<1>7. PTypeOK'
  BY <1>1, <1>2, <1>6 DEF PTypeOK, bookVars, walletVars, gateVars, hookVars
<1>8. OrdersOpened' /\ InFlight' /\ Booked'
  BY <1>1 DEF PayInv, OrdersOpened, InFlight, Sent, Booked, bookVars, walletVars,
              gateVars, hookVars
<1> QED
  BY <1>5, <1>7, <1>8 DEF PayInv

\* A payment taken at check-out is verified, and told by nobody.
LEMMA TillStep ==
    ASSUME PayInv, NEW t \in Till, NEW a \in Amounts, RecordCheckoutPayment(t, a)
    PROVE  PayInv'
<1>1. PTypeOK /\ AdvanceAccounting /\ PaidIsConfirmed /\ t \in PaymentId
      /\ t \notin Order /\ For[t] # Wallet /\ a \in 0..MaxAmount
  BY PaymentsAssumption DEF PayInv, PaymentId, Amounts
<1>2. /\ payment[t] = "NONE" /\ status[For[t]] # "NONE"
      /\ payment' = [payment EXCEPT ![t] = "VERIFIED"]
      /\ amount' = [amount EXCEPT ![t] = a]
      /\ untold' = untold \cup {t}
      /\ UNCHANGED <<status, payStatus, advance, balance, stayVars, attempt, walletVars,
                     cancelKeys, gateVars, hookVars>>
  BY DEF RecordCheckoutPayment
<1>3. /\ payment'[t] = "VERIFIED"
      /\ \A p \in PaymentId \ {t} : payment'[p] = payment[p] /\ amount'[p] = amount[p]
  BY <1>1, <1>2 DEF PTypeOK
<1>4. untold' \subseteq {p \in Till : payment'[p] = "VERIFIED"}
  BY <1>1, <1>2, <1>3 DEF AdvanceAccounting, PaymentId
<1>5. ASSUME NEW q \in Reservation
      PROVE  Told(q)' = Told(q)
  <2> DEFINE V == VerifiedOf(payment, q) \ untold
  <2>1. VerifiedOf(payment', q) \ untold' = V
    BY <1>2, <1>3 DEF VerifiedOf
  <2>2. \A p \in V : amount[p] = amount'[p]
    BY <1>2, <1>3 DEF VerifiedOf
  <2> HIDE DEF V
  <2>3. Sum(amount, V) = Sum(amount', V)
    BY <2>2, SumFrame
  <2>4. Told(q) = Sum(amount, V)
    BY DEF Told, V
  <2>5. Told(q)' = Sum(amount', VerifiedOf(payment', q) \ untold')
    BY DEF Told
  <2> QED
    BY <2>1, <2>3, <2>4, <2>5
<1>6. AdvanceAccounting' /\ PaidIsConfirmed'
  BY <1>1, <1>2, <1>4, <1>5, UnsettledAccounting
<1>7. PTypeOK'
  BY <1>1, <1>2 DEF PTypeOK, stayVars, walletVars, gateVars, hookVars
<1>8. OrdersOpened'
  BY <1>1, <1>2 DEF PayInv, OrdersOpened, PTypeOK, walletVars, gateVars, PaymentId
<1>9. Booked'
  BY <1>1, <1>2, <1>3 DEF PayInv, Booked
<1>10. InFlight'
  BY <1>2 DEF PayInv, InFlight, Sent, gateVars, hookVars
<1> QED
  BY <1>6, <1>7, <1>8, <1>9, <1>10 DEF PayInv

\* Every step.
LEMMA PayStep ==
    ASSUME PayInv, [PayNext]_payVars
    PROVE  PayInv'
<1>1. CASE BookNext
  BY <1>1, BookByWalletStep, PayDueStep, BookUnpaidStep, MilestoneStep, CancelStep
     DEF BookNext
<1>2. CASE GatewayNext
  BY <1>2, CreateOrderStep, GatewayStep, VerifyCheckoutStep, ReceiveStep, SuccessStep,
     FailureStep, AbortStep DEF GatewayNext
<1>3. CASE SlipNext
  BY <1>3, BeginSlipStep, RecordSlipStep, VerifySlipStep DEF SlipNext
<1>4. CASE TillNext
  BY <1>4, StayStep, TillStep DEF TillNext
<1>5. CASE UNCHANGED payVars
  <2>1. UNCHANGED moneyVars /\ captured' = captured /\ declined' = declined
        /\ hook' = hook /\ handling' = handling /\ answered' = answered
    BY <1>5 DEF payVars, gateVars, hookVars
  <2>2. /\ captured' \subseteq Order /\ declined' \subseteq Order
        /\ hook' \in [Event -> {"NONE", "RECEIVED", "PROCESSED", "FAILED"}]
        /\ handling' \subseteq Event /\ answered' \subseteq Event
    BY <2>1 DEF PayInv, PTypeOK
  <2>3. PTypeOK' /\ AdvanceAccounting' /\ PaidIsConfirmed' /\ OrdersOpened' /\ Booked'
    BY <2>1, <2>2, MoneyFrame
  <2>4. InFlight'
    BY <2>1 DEF PayInv, InFlight, Sent
  <2> QED
    BY <2>3, <2>4 DEF PayInv
<1> QED
  BY <1>1, <1>2, <1>3, <1>4, <1>5 DEF PayNext

\* The invariant holds in every state.
LEMMA PayInvariant == PSpec => []PayInv
<1>1. PayInv /\ [PayNext]_payVars => PayInv'
  BY PayStep
<1> QED
  BY <1>1, PayInit, PTL DEF PSpec

\* A reservation shows what its verified payments add up to, but for those taken
\* at check-out since the last payment of another kind, whichever of the
\* callback, the webhook, the wallet, an administrator or an offline proof
\* recorded the others, in whatever order and however often the gateway
\* reports them; with client keys or without.
THEOREM AdvanceCorrect == PSpec => []AdvanceAccounting
<1>1. PayInv => AdvanceAccounting
  BY DEF PayInv
<1> QED
  BY <1>1, PayInvariant, PTL

\* At the start of a step a cancelled reservation is cancelled, and at its end:
\* no payment that is recorded later takes it back.
THEOREM CancelledForGood == PSpec => CancelledStaysCancelled
<1> DEFINE Stays == \A r \in Reservation : status[r] = "CANCELLED" => status'[r] = "CANCELLED"
<1>1. ASSUME PayInv, NEW q \in Reservation, NEW paid, NEW st, Settle(q, paid, st),
             status[q] = "CANCELLED" => st = "CANCELLED"
      PROVE  Stays
  BY <1>1 DEF Settle, PayInv, PTypeOK
<1>2. ASSUME PayInv, NEW p \in PaymentId, For[p] # Wallet, NEW pay, Recalculate(For[p], pay)
      PROVE  Stays
  <2>1. PICK paid, st : Settle(For[p], paid, st)
                        /\ (status[For[p]] = "CANCELLED" => st = "CANCELLED")
    BY <1>2, Zenon DEF Recalculate
  <2> QED
    BY <1>1, <1>2, <2>1, ForStays
<1>3. ASSUME PayInv, NEW o \in Order, RecordSuccess(o)
      PROVE  Stays
  <2>1. o \in PaymentId
    BY DEF PaymentId
  <2> QED
    BY <1>2, <1>3, <2>1 DEF RecordSuccess, bookVars
<1>4. ASSUME PayInv, BookNext PROVE Stays
  <2>1. CASE \E r \in Reservation, d \in Draw : BookByWallet(r, d)
    BY <1>1, <1>4, <2>1 DEF BookByWallet
  <2>2. CASE \E r \in Reservation, d \in Draw : PayDue(r, d)
    <3>1. PICK r \in Reservation, d \in Draw : PayDue(r, d)
      BY <2>2
    <3>2. PICK paid, st : Settle(r, paid, st)
      BY <3>1 DEF PayDue, MilestonePaid
    <3>3. status[r] # "CANCELLED"
      BY <3>1 DEF PayDue, Payable, PayIntent
    <3> QED
      BY <1>1, <1>4, <3>2, <3>3
  <2>3. CASE \E r \in Reservation : BookUnpaid(r)
    BY <1>1, <1>4, <2>3 DEF BookUnpaid
  <2>4. CASE \E r \in Reservation : MilestoneFallsDue(r)
    BY <2>4 DEF MilestoneFallsDue, bookVars
  <2>5. CASE \E r \in Reservation : \E key \in ClientKey \cup {r}, penalty \in {0, FirstNight} :
               Cancel(r, key, penalty)
    BY <1>4, <2>5 DEF Cancel, CancelWith, PayInv, PTypeOK
  <2> QED
    BY <1>4, <2>1, <2>2, <2>3, <2>4, <2>5 DEF BookNext
<1>5. ASSUME PayInv, GatewayNext PROVE Stays
  <2>1. CASE \E o \in Order, a \in Amounts : CreateOrder(o, a)
    BY <2>1 DEF CreateOrder, bookVars
  <2>2. CASE \E o \in Order : Decline(o) \/ Capture(o)
    BY <2>2 DEF Decline, Capture, moneyVars, bookVars
  <2>3. CASE \E o \in Order : VerifyCheckout(o)
    BY <1>3, <1>5, <2>3 DEF VerifyCheckout
  <2>4. CASE \E e \in Event : ReceiveEvent(e) \/ ProcessFailure(e) \/ ProcessingFails(e)
    BY <2>4 DEF ReceiveEvent, ProcessFailure, ProcessingFails, moneyVars, bookVars
  <2>5. CASE \E e \in Event : ProcessSuccess(e)
    <3>1. PICK e \in Event : ProcessSuccess(e)
      BY <2>5
    <3>2. e.order \in Order
      BY EventFields
    <3>3. (UNCHANGED <<moneyVars, gateVars>>) \/ RecordSuccess(e.order)
      BY <3>1 DEF ProcessSuccess
    <3> QED
      BY <1>3, <1>5, <3>2, <3>3 DEF moneyVars, bookVars
  <2>6. CASE Restart
    BY <2>6 DEF Restart, moneyVars, bookVars
  <2> QED
    BY <1>5, <2>1, <2>2, <2>3, <2>4, <2>5, <2>6 DEF GatewayNext
<1>6. ASSUME PayInv, SlipNext PROVE Stays
  <2>1. CASE \E s \in Slip, a \in Amounts : BeginSlip(s, a)
    BY <2>1 DEF BeginSlip, bookVars
  <2>2. CASE \E s \in Slip : RecordSlip(s)
    BY <2>2 DEF RecordSlip
  <2>3. CASE \E s \in Slip : VerifySlip(s)
    <3>1. PICK s \in Slip : VerifySlip(s)
      BY <2>3
    <3>2. s \in PaymentId
      BY DEF PaymentId
    <3> QED
      BY <1>2, <1>6, <3>1, <3>2 DEF VerifySlip, bookVars
  <2> QED
    BY <1>6, <2>1, <2>2, <2>3 DEF SlipNext
<1>7. ASSUME TillNext PROVE Stays
  BY <1>7 DEF TillNext, CheckIn, CheckOut, MoveStay, RecordCheckoutPayment, bookVars
<1>8. PayInv /\ [PayNext]_payVars => [Stays]_payVars
  BY <1>4, <1>5, <1>6, <1>7 DEF PayNext
<1> QED
  BY <1>8, PayInvariant, PTL DEF PSpec, CancelledStaysCancelled

-----------------------------------------------------------------------------
(***************************************************************************)
(* The units that the credits of the wallet are worth.                     *)
(***************************************************************************)

\* The units that WalletAccounting counts for the recharges.
CreditUnits(amt, crd) ==
    {u \in Recharges \X (1..MaxAmount) \X (1..MostCredits) :
        u[2] <= amt[u[1]] /\ u[3] <= crd[u[1]]}

\* They are finitely many.
LEMMA CreditUnitsFinite ==
    ASSUME NEW amt, NEW crd
    PROVE  IsFiniteSet(CreditUnits(amt, crd))
<1> DEFINE S == (Recharges \X (1..MaxAmount)) \X (1..MostCredits)
           T == Recharges \X (1..MaxAmount) \X (1..MostCredits)
           f == [v \in S |-> <<v[1][1], v[1][2], v[2]>>]
<1>1. IsFiniteSet(S)
  <2>1. Recharges \in SUBSET PaymentId
    BY DEF Recharges, PaymentId
  <2>2. IsFiniteSet(Recharges)
    BY <2>1, PaymentsAssumption, FS_Subset
  <2>3. IsFiniteSet(1..MaxAmount) /\ IsFiniteSet(1..MostCredits)
    <3>1. MaxAmount \in Nat /\ MostCredits \in Nat
      BY PaymentsAssumption DEF MostCredits
    <3> QED
      BY <3>1, FS_Interval
  <2>4. IsFiniteSet(Recharges \X (1..MaxAmount))
    BY <2>2, <2>3, FS_Product
  <2> QED
    BY <2>3, <2>4, FS_Product
<1>2. f \in Surjection(S, T)
  <2>1. f \in [S -> T]
    OBVIOUS
  <2>2. ASSUME NEW t \in T PROVE \E v \in S : f[v] = t
    <3>1. t = <<t[1], t[2], t[3]>> /\ <<<<t[1], t[2]>>, t[3]>> \in S
      OBVIOUS
    <3>2. f[<<<<t[1], t[2]>>, t[3]>>] = t
      BY <3>1
    <3> QED
      BY <3>1, <3>2
  <2> QED
    BY <2>1, <2>2 DEF Surjection
<1>3. IsFiniteSet(T)
  BY <1>1, <1>2, FS_Surjection
<1>4. CreditUnits(amt, crd) \in SUBSET T
  BY DEF CreditUnits
<1> QED
  BY <1>3, <1>4, FS_Subset

\* The amount of a recharge that was not credited does not matter.
LEMMA CreditFrame ==
    ASSUME NEW amt, NEW crd, NEW bmt,
           \A p \in Recharges : crd[p] = 0 \/ amt[p] = bmt[p]
    PROVE  CreditUnits(amt, crd) = CreditUnits(bmt, crd)
<1>1. ASSUME NEW u \in Recharges \X (1..MaxAmount) \X (1..MostCredits)
      PROVE  u[2] <= amt[u[1]] /\ u[3] <= crd[u[1]]
               <=> u[2] <= bmt[u[1]] /\ u[3] <= crd[u[1]]
  <2>1. u[1] \in Recharges /\ u[3] \in 1..MostCredits /\ MostCredits \in Nat
    BY PaymentsAssumption DEF MostCredits
  <2>2. crd[u[1]] = 0 => ~(u[3] <= crd[u[1]])
    BY <2>1
  <2> QED
    BY <2>1, <2>2
<1> QED
  BY <1>1 DEF CreditUnits

\* A credit of p adds the units of its amount.
LEMMA CreditAdds ==
    ASSUME NEW amt, NEW crd, NEW drc, NEW p \in Recharges,
           amt[p] \in 0..MaxAmount, crd[p] \in Nat, drc[p] = crd[p] + 1,
           drc[p] <= MostCredits,
           \A q \in Recharges \ {p} : drc[q] = crd[q]
    PROVE  Cardinality(CreditUnits(amt, drc)) = Cardinality(CreditUnits(amt, crd)) + amt[p]
<1> DEFINE c == crd[p] + 1
           f == [i \in 1..amt[p] |-> <<p, i, c>>]
           B == {<<p, i, c>> : i \in 1..amt[p]}
<1>1. /\ amt[p] \in Nat /\ amt[p] <= MaxAmount /\ MaxAmount \in Nat
      /\ MostCredits \in Nat /\ c \in 1..MostCredits
  BY PaymentsAssumption DEF MostCredits
<1>2. IsFiniteSet(B) /\ Cardinality(B) = amt[p]
  <2>1. f \in Bijection(1..amt[p], B)
    <3>1. f \in [1..amt[p] -> B]
      OBVIOUS
    <3>2. \A i, j \in 1..amt[p] : f[i] = f[j] => i = j
      OBVIOUS
    <3>3. \A t \in B : \E i \in 1..amt[p] : f[i] = t
      OBVIOUS
    <3> QED
      BY <3>1, <3>2, <3>3 DEF Bijection, Injection, Surjection, IsInjective
  <2>2. ExistsBijection(1..amt[p], B)
    BY <2>1 DEF ExistsBijection
  <2>3. IsFiniteSet(1..amt[p]) /\ Cardinality(1..amt[p]) = amt[p]
    <3>1. \A n \in Nat : IsFiniteSet(1..n) /\ Cardinality(1..n) = n
      BY FS_Interval
    <3> QED
      BY <1>1, <3>1
  <2> HIDE DEF B
  <2> QED
    BY <2>2, <2>3, FS_Bijection
<1>3. CreditUnits(amt, drc) = CreditUnits(amt, crd) \cup B
  <2>1. ASSUME NEW u, u \in CreditUnits(amt, drc), u \notin CreditUnits(amt, crd)
        PROVE  u \in B
    <3>1. /\ u \in Recharges \X (1..MaxAmount) \X (1..MostCredits)
          /\ u[2] <= amt[u[1]] /\ u[3] <= drc[u[1]] /\ ~(u[3] <= crd[u[1]])
      BY <2>1 DEF CreditUnits
    <3>2. u[1] = p
      BY <3>1
    <3>3. u[3] = c /\ u[2] \in 1..amt[p]
      BY <1>1, <3>1, <3>2
    <3>4. u = <<u[1], u[2], u[3]>>
      BY <3>1
    <3> QED
      BY <3>2, <3>3, <3>4
  <2>2. ASSUME NEW u, u \in CreditUnits(amt, crd)
        PROVE  u \in CreditUnits(amt, drc)
    <3>1. /\ u \in Recharges \X (1..MaxAmount) \X (1..MostCredits)
          /\ u[2] <= amt[u[1]] /\ u[3] <= crd[u[1]] /\ u[3] \in Nat
      BY <2>2 DEF CreditUnits
    <3>2. u[3] <= drc[u[1]]
      BY <3>1
    <3> QED
      BY <3>1, <3>2 DEF CreditUnits
  <2>3. ASSUME NEW i \in 1..amt[p]
        PROVE  <<p, i, c>> \in CreditUnits(amt, drc)
    BY <1>1, <2>3 DEF CreditUnits
  <2> QED
    BY <2>1, <2>2, <2>3
<1>4. CreditUnits(amt, crd) \cap B = {}
  BY <1>1 DEF CreditUnits
<1> HIDE DEF B
<1>5. IsFiniteSet(CreditUnits(amt, crd))
  BY CreditUnitsFinite
<1>6. Cardinality(CreditUnits(amt, crd) \cup B)
        = Cardinality(CreditUnits(amt, crd)) + Cardinality(B)
          - Cardinality(CreditUnits(amt, crd) \cap B)
  BY <1>2, <1>5, FS_Union
<1>7. Cardinality(CreditUnits(amt, crd) \cap B) = 0
  BY <1>4, FS_EmptySet
<1>8. Cardinality(CreditUnits(amt, crd)) \in Nat
  BY <1>5, FS_CardinalityType
<1> QED
  BY <1>1, <1>2, <1>3, <1>6, <1>7, <1>8
-----------------------------------------------------------------------------
(***************************************************************************)
(* The inductive invariant behind WalletIsSound.  A success of an order is *)
(* credited by the transaction that first marks its attempt, and again by  *)
(* an event only where a failure came in between; so the credits of an     *)
(* order are bounded by its processed events and the browser's return.     *)
(***************************************************************************)

\* The success events of order o that were processed.
Done(o) == {e \in Event : e.order = o /\ e.outcome = "SUCCESS" /\ hook[e] = "PROCESSED"}

CreditsCounted ==
    \A o \in Order :
        credits[o] <= Cardinality(Done(o)) + (IF attempt[o] \in {"NONE", "PENDING"}
                                              THEN 0 ELSE 1)

\* A slip on the wallet is credited by its approval, once.
SlipCredits ==
    \A s \in Slip :
        credits[s] = IF For[s] = Wallet /\ payment[s] = "VERIFIED" THEN 1 ELSE 0

\* An order that was never declined is credited by its success, once.
OrderCredits ==
    \A o \in Order \ declined :
        credits[o] <= 1 /\ (attempt[o] # "SUCCESS" => credits[o] = 0)

\* A success is credited while the attempt is not marked with it, and only the
\* one event of a failure unmarks it, once.
FailureOf(o) == [order |-> o, outcome |-> "FAILED", copy |-> 1]
Unmarked(o) == hook[FailureOf(o)] = "PROCESSED"
CreditsPerMark ==
    \A o \in Order :
        credits[o] <= (IF Unmarked(o) THEN 1 ELSE 0) + (IF attempt[o] = "SUCCESS" THEN 1 ELSE 0)

\* Nothing was given back for a reservation that no request cancelled.
RefundOnce == \A r \in Reservation : r \notin cancelKeys => refunded[r] = 0

CreditInv == PayInv /\ CreditsCounted /\ SlipCredits /\ OrderCredits
             /\ CreditsPerMark /\ declined \subseteq Declinable

WalletInv == CreditInv /\ RefundOnce /\ RefundWithinPaid /\ WalletAccounting

\* WalletAccounting, in sums.
LEMMA AccountingInSums ==
    /\ WalletAccounting <=>
         Cardinality(CreditUnits(amount, credits)) + Sum(refunded, Reservation)
           = wallet + Sum(amount, Drawn)
    /\ WalletAccounting' <=>
         Cardinality(CreditUnits(amount', credits')) + Sum(refunded', Reservation)
           = wallet' + Sum(amount', Drawn')
BY DEF WalletAccounting, CreditUnits, Sum

\* The sums are natural numbers.
LEMMA WalletTypes ==
    /\ Cardinality(CreditUnits(amount, credits)) \in Nat
    /\ Sum(refunded, Reservation) \in Nat
    /\ Sum(amount, Drawn) \in Nat
    /\ IsFiniteSet(Drawn)
<1>1. Drawn \in SUBSET PaymentId
  BY DEF Drawn, PaymentId
<1>2. IsFiniteSet(Drawn)
  BY <1>1, PaymentsAssumption, FS_Subset
<1>3. Sum(amount, Drawn) \in Nat
  BY <1>2, SumType
<1>4. Sum(refunded, Reservation) \in Nat
  BY PaymentsAssumption, SumType
<1>5. Cardinality(CreditUnits(amount, credits)) \in Nat
  BY CreditUnitsFinite, FS_CardinalityType
<1> QED
  BY <1>2, <1>3, <1>4, <1>5

\* A step that draws nothing leaves what the wallet paid.
LEMMA DrawFrame ==
    ASSUME \A d \in Draw : payment'[d] = "VERIFIED" <=> payment[d] = "VERIFIED",
           \A d \in Draw : payment[d] = "VERIFIED" => amount'[d] = amount[d]
    PROVE  /\ Sum(amount', Drawn') = Sum(amount, Drawn)
           /\ \A q : WalletPaid(q)' = WalletPaid(q)
<1>1. Drawn' = Drawn
  BY DEF Drawn
<1>2. \A d \in Drawn : amount'[d] = amount[d]
  BY DEF Drawn
<1>3. Sum(amount', Drawn) = Sum(amount, Drawn)
  BY <1>2, SumFrame
<1>4. ASSUME NEW q
      PROVE  WalletPaid(q)' = WalletPaid(q)
  <2> DEFINE V == VerifiedOf(payment, q) \cap Draw
  <2>1. VerifiedOf(payment', q) \cap Draw = V
    BY DEF VerifiedOf, PaymentId
  <2>2. \A d \in V : amount'[d] = amount[d]
    BY DEF VerifiedOf
  <2> HIDE DEF V
  <2>3. Sum(amount', V) = Sum(amount, V)
    BY <2>2, SumFrame
  <2>4. WalletPaid(q) = Sum(amount, V)
    BY DEF WalletPaid, V
  <2>5. WalletPaid(q)' = Sum(amount', VerifiedOf(payment', q) \cap Draw)
    BY DEF WalletPaid
  <2> QED
    BY <2>1, <2>3, <2>4, <2>5
<1> QED
  BY <1>1, <1>3, <1>4

\* A step that leaves the wallet, its credits, its refunds and its draws.
LEMMA WalletFrame ==
    ASSUME WalletAccounting, RefundWithinPaid, UNCHANGED walletVars,
           \A d \in Draw : payment'[d] = "VERIFIED" <=> payment[d] = "VERIFIED",
           \A d \in Draw : payment[d] = "VERIFIED" => amount'[d] = amount[d],
           \A p \in Recharges : credits[p] = 0 \/ amount'[p] = amount[p]
    PROVE  WalletAccounting' /\ RefundWithinPaid'
<1>1. wallet' = wallet /\ credits' = credits /\ refunded' = refunded
  BY DEF walletVars
<1>2. /\ Sum(amount', Drawn') = Sum(amount, Drawn)
      /\ \A q : WalletPaid(q)' = WalletPaid(q)
  BY DrawFrame
<1>3. CreditUnits(amount, credits) = CreditUnits(amount', credits)
  <2>1. \A p \in Recharges : credits[p] = 0 \/ amount[p] = amount'[p]
    OBVIOUS
  <2> QED
    BY <2>1, CreditFrame
<1>4. WalletAccounting'
  BY <1>1, <1>2, <1>3, AccountingInSums
<1>5. RefundWithinPaid'
  BY <1>1, <1>2 DEF RefundWithinPaid
<1> QED
  BY <1>4, <1>5

\* A payment from the wallet leaves as much less in it.
LEMMA DrawKeepsWallet ==
    ASSUME PTypeOK, WalletAccounting, RefundWithinPaid,
           NEW r \in Reservation, NEW d \in Draw, NEW a \in 0..MaxAmount,
           WalletPayment(d, r, a), credits' = credits, refunded' = refunded
    PROVE  WalletAccounting' /\ RefundWithinPaid'
<1>1. /\ d \in PaymentId /\ payment[d] = "NONE" /\ wallet' = wallet - a
      /\ payment' = [payment EXCEPT ![d] = "VERIFIED"]
      /\ amount' = [amount EXCEPT ![d] = a]
      /\ wallet \in Nat /\ a \in Nat
  BY PaymentsAssumption DEF WalletPayment, PaymentId, PTypeOK
<1>2. /\ payment \in [PaymentId -> {"NONE", "READ", "UNVERIFIED", "VERIFIED"}]
      /\ amount \in [PaymentId -> 0..MaxAmount] /\ Draw \subseteq PaymentId
  BY DEF PTypeOK, PaymentId
<1>3. CreditUnits(amount, credits) = CreditUnits(amount', credits)
  <2>1. \A p \in Recharges : p \in PaymentId /\ p # d
    BY PaymentsAssumption DEF Recharges, PaymentId
  <2>2. \A p \in Recharges : credits[p] = 0 \/ amount[p] = amount'[p]
    BY <2>1, <1>1, <1>2
  <2> QED
    BY <2>2, CreditFrame
<1>4. Sum(amount', Drawn') = Sum(amount, Drawn) + a
  <2> DEFINE D == Drawn
  <2>1. Drawn' = D \cup {d}
    BY <1>1, <1>2 DEF Drawn
  <2>2. IsFiniteSet(D) /\ Sum(amount, D) \in Nat
    BY WalletTypes
  <2>3. d \notin D
    BY <1>1 DEF Drawn
  <2>4. \A p \in D : amount[p] = amount'[p]
    BY <1>1, <1>2, <2>3 DEF Drawn
  <2>5. amount'[d] = a
    BY <1>1, <1>2
  <2> HIDE DEF D
  <2>6. Sum(amount, D) = Sum(amount', D)
    BY <2>4, SumFrame
  <2>7. Sum(amount', D \cup {d}) = Sum(amount', D) + amount'[d]
    BY <2>2, <2>3, <2>5, SumJoin
  <2>8. Sum(amount', Drawn') = Sum(amount', D \cup {d})
    BY <2>1, Zenon
  <2> QED
    BY <2>5, <2>6, <2>7, <2>8 DEF D
<1>5. WalletAccounting'
  <2>1. /\ Cardinality(CreditUnits(amount, credits)) \in Nat
        /\ Sum(refunded, Reservation) \in Nat
        /\ Sum(amount, Drawn) \in Nat
    BY WalletTypes
  <2>2. Cardinality(CreditUnits(amount, credits)) + Sum(refunded, Reservation)
          = wallet + Sum(amount, Drawn)
    BY AccountingInSums
  <2>3. Cardinality(CreditUnits(amount', credits')) + Sum(refunded', Reservation)
          = wallet' + Sum(amount', Drawn')
    BY <1>1, <1>3, <1>4, <2>1, <2>2
  <2> QED
    BY <2>3, AccountingInSums
<1>6. RefundWithinPaid'
  <2> SUFFICES ASSUME NEW q \in Reservation
               PROVE  refunded[q] <= WalletPaid(q)'
    BY DEF RefundWithinPaid
  <2> DEFINE V == VerifiedOf(payment, q) \cap Draw
             W == VerifiedOf(payment', q) \cap Draw
  <2>1. V \subseteq W
    BY <1>1, <1>2 DEF VerifiedOf
  <2>2. \A p \in V : amount[p] = amount'[p]
    BY <1>1, <1>2 DEF VerifiedOf
  <2>3. IsFiniteSet(V) /\ IsFiniteSet(W)
    BY VerifiedFinite
  <2> HIDE DEF V, W
  <2>4. Sum(amount, V) <= Sum(amount', W)
    BY <2>1, <2>2, <2>3, SumGrows
  <2>5. Sum(amount, V) \in Nat /\ Sum(amount', W) \in Nat
    BY <2>3, SumType
  <2>6. refunded[q] <= Sum(amount, V) /\ refunded[q] \in Nat
    BY DEF RefundWithinPaid, WalletPaid, V, PTypeOK
  <2>7. refunded[q] <= Sum(amount', W)
    BY <2>4, <2>5, <2>6
  <2> QED
    BY <2>7 DEF WalletPaid, W
<1> QED
  BY <1>5, <1>6

\* A credit is in the wallet.
LEMMA CreditKeepsWallet ==
    ASSUME PTypeOK, WalletAccounting, RefundWithinPaid,
           NEW p \in Order \cup Slip, For[p] = Wallet, Credit(p), credits[p] + 1 <= MostCredits,
           amount' = amount, refunded' = refunded,
           \A d \in Draw : payment'[d] = payment[d]
    PROVE  WalletAccounting' /\ RefundWithinPaid'
<1>1. /\ p \in PaymentId /\ p \in Recharges
      /\ wallet' = wallet + amount[p] /\ credits' = [credits EXCEPT ![p] = @ + 1]
  BY DEF PaymentId, Recharges, Credit
<1>2. /\ credits \in [Order \cup Slip -> Nat] /\ amount[p] \in 0..MaxAmount
      /\ amount[p] \in Nat /\ wallet \in Nat
  BY <1>1, PaymentsAssumption DEF PTypeOK
<1>3. /\ Sum(amount', Drawn') = Sum(amount, Drawn)
      /\ \A q : WalletPaid(q)' = WalletPaid(q)
  <2>1. \A d \in Draw : payment'[d] = "VERIFIED" <=> payment[d] = "VERIFIED"
    OBVIOUS
  <2> QED
    BY <2>1, DrawFrame
<1>4. /\ credits[p] \in Nat
      /\ credits'[p] = credits[p] + 1 /\ credits'[p] <= MostCredits
      /\ \A q \in Recharges \ {p} : credits'[q] = credits[q]
  BY <1>1, <1>2 DEF Recharges
<1>5. Cardinality(CreditUnits(amount, credits'))
        = Cardinality(CreditUnits(amount, credits)) + amount[p]
  <2>1. p \in Recharges /\ amount[p] \in 0..MaxAmount
    BY <1>1, <1>2
  <2> QED
    BY <2>1, <1>4, CreditAdds
<1>6. WalletAccounting'
  <2>1. /\ Cardinality(CreditUnits(amount, credits)) \in Nat
        /\ Sum(refunded, Reservation) \in Nat
        /\ Sum(amount, Drawn) \in Nat
    BY WalletTypes
  <2>2. Cardinality(CreditUnits(amount, credits)) + Sum(refunded, Reservation)
          = wallet + Sum(amount, Drawn)
    BY AccountingInSums
  <2>3. Cardinality(CreditUnits(amount', credits')) + Sum(refunded', Reservation)
          = wallet' + Sum(amount', Drawn')
    BY <1>1, <1>2, <1>3, <1>5, <2>1, <2>2
  <2> QED
    BY <2>3, AccountingInSums
<1>7. RefundWithinPaid'
  BY <1>3 DEF RefundWithinPaid
<1> QED
  BY <1>6, <1>7
\* The gateway sends at most Successes success events for an order.
LEMMA DoneBound ==
    ASSUME NEW o \in Order
    PROVE  /\ IsFiniteSet(Done(o)) /\ Cardinality(Done(o)) \in 0..Successes
           /\ IsFiniteSet(Done(o)') /\ Cardinality(Done(o)') \in 0..Successes
<1> DEFINE S == {e \in Event : e.order = o /\ e.outcome = "SUCCESS"}
           f == [i \in 1..Successes |-> [order |-> o, outcome |-> "SUCCESS", copy |-> i]]
<1>1. IsFiniteSet(1..Successes) /\ Cardinality(1..Successes) = Successes
  <2>1. \A n \in Nat : IsFiniteSet(1..n) /\ Cardinality(1..n) = n
    BY FS_Interval
  <2> QED
    BY <2>1, PaymentsAssumption
<1>2. f \in Surjection(1..Successes, S)
  <2>1. f \in [1..Successes -> S]
    BY DEF Event
  <2>2. ASSUME NEW e \in S PROVE \E i \in 1..Successes : f[i] = e
    <3>1. e \in [order : Order, outcome : {"SUCCESS"}, copy : 1..Successes]
      BY DEF Event
    <3>2. e.copy \in 1..Successes /\ f[e.copy] = e
      BY <3>1
    <3> QED
      BY <3>2
  <2> QED
    BY <2>1, <2>2 DEF Surjection
<1>3. IsFiniteSet(S) /\ Cardinality(S) <= Cardinality(1..Successes)
  BY <1>1, <1>2, FS_Surjection
<1>4. Done(o) \in SUBSET S /\ Done(o)' \in SUBSET S
  BY DEF Done
<1> HIDE DEF S
<1>5. /\ IsFiniteSet(Done(o)) /\ Cardinality(Done(o)) <= Cardinality(S)
      /\ IsFiniteSet(Done(o)') /\ Cardinality(Done(o)') <= Cardinality(S)
  BY <1>3, <1>4, FS_Subset
<1>6. /\ Cardinality(Done(o)) \in Nat /\ Cardinality(Done(o)') \in Nat
      /\ Cardinality(S) \in Nat
  BY <1>3, <1>5, FS_CardinalityType
<1> QED
  BY <1>1, <1>3, <1>5, <1>6, PaymentsAssumption

\* A step that credits nothing keeps the counts of credits.
LEMMA CountsFrame ==
    ASSUME PTypeOK, CreditsCounted, SlipCredits, OrderCredits, CreditsPerMark,
           credits' = credits, declined \subseteq declined',
           \A e \in Event : hook[e] = "PROCESSED" => hook'[e] = "PROCESSED",
           \A o \in Order : attempt[o] \notin {"NONE", "PENDING"} =>
                                attempt'[o] \notin {"NONE", "PENDING"},
           \A o \in Order : attempt[o] = "SUCCESS" =>
               attempt'[o] = "SUCCESS" \/ (o \in declined' /\ ~Unmarked(o) /\ Unmarked(o)'),
           \A s \in Slip : For[s] = Wallet =>
               (payment'[s] = "VERIFIED" <=> payment[s] = "VERIFIED")
    PROVE  CreditsCounted' /\ SlipCredits' /\ OrderCredits' /\ CreditsPerMark'
<1>1. CreditsCounted'
  <2> SUFFICES ASSUME NEW o \in Order
               PROVE  credits[o] <= Cardinality(Done(o)')
                                    + (IF attempt'[o] \in {"NONE", "PENDING"} THEN 0 ELSE 1)
    BY DEF CreditsCounted
  <2>1. Done(o) \in SUBSET Done(o)'
    BY DEF Done
  <2>2. IsFiniteSet(Done(o)')
    BY DoneBound
  <2>3. Cardinality(Done(o)) <= Cardinality(Done(o)') /\ Cardinality(Done(o)') \in Nat
    BY <2>1, <2>2, FS_Subset, FS_CardinalityType
  <2>4. Cardinality(Done(o)) \in Nat
    BY DoneBound, PaymentsAssumption
  <2>5. credits[o] <= Cardinality(Done(o)) + (IF attempt[o] \in {"NONE", "PENDING"}
                                              THEN 0 ELSE 1)
    BY DEF CreditsCounted
  <2>6. credits[o] \in Nat
    BY DEF PTypeOK
  <2> QED
    BY <2>3, <2>4, <2>5, <2>6
<1>2. SlipCredits'
  BY DEF SlipCredits
<1>3. OrderCredits'
  BY DEF OrderCredits
<1>4. CreditsPerMark'
  <2> SUFFICES ASSUME NEW o \in Order
               PROVE  credits[o] <= (IF Unmarked(o)' THEN 1 ELSE 0)
                                    + (IF attempt'[o] = "SUCCESS" THEN 1 ELSE 0)
    BY DEF CreditsPerMark
  <2>1. credits[o] <= (IF Unmarked(o) THEN 1 ELSE 0)
                      + (IF attempt[o] = "SUCCESS" THEN 1 ELSE 0)
    BY DEF CreditsPerMark
  <2>2. Unmarked(o) => Unmarked(o)'
    BY DEF Unmarked, FailureOf, Event
  <2>3. credits[o] \in Nat
    BY DEF PTypeOK
  <2> QED
    BY <2>1, <2>2, <2>3
<1> QED
  BY <1>1, <1>2, <1>3, <1>4

\* A step that credits nothing, declines nothing and settles no slip on the
\* wallet keeps the counts.
LEMMA QuietCounts ==
    ASSUME CreditInv, PayInv', credits' = credits,
           declined \subseteq declined', declined' \subseteq Declinable,
           \A e \in Event : hook[e] = "PROCESSED" => hook'[e] = "PROCESSED",
           \A o \in Order : attempt[o] \notin {"NONE", "PENDING"} =>
                                attempt'[o] \notin {"NONE", "PENDING"},
           \A o \in Order : attempt[o] = "SUCCESS" =>
               attempt'[o] = "SUCCESS" \/ (o \in declined' /\ ~Unmarked(o) /\ Unmarked(o)'),
           \A s \in Slip : For[s] = Wallet =>
               (payment'[s] = "VERIFIED" <=> payment[s] = "VERIFIED")
    PROVE  CreditInv'
<1>1. PTypeOK /\ CreditsCounted /\ SlipCredits /\ OrderCredits /\ CreditsPerMark
  BY DEF CreditInv, PayInv
<1>2. CreditsCounted' /\ SlipCredits' /\ OrderCredits' /\ CreditsPerMark'
  BY <1>1, CountsFrame
<1> QED
  BY <1>2 DEF CreditInv

\* A success of a recharge credits it, by the browser's return or by an event
\* that is then done.
LEMMA RechargeCounts ==
    ASSUME CreditInv, PayInv', NEW o \in Order, For[o] = Wallet, RecordSuccess(o),
           attempt[o] # "SUCCESS",
           \/ attempt[o] = "PENDING" /\ hook' = hook
           \/ \E e \in handling : /\ e.order = o /\ e.outcome = "SUCCESS"
                                  /\ hook' = [hook EXCEPT ![e] = "PROCESSED"]
    PROVE  CreditInv' /\ credits[o] + 1 <= MostCredits
<1>1. /\ Credit(o) /\ payment' = payment /\ refunded' = refunded
      /\ attempt' = [attempt EXCEPT ![o] = "SUCCESS"] /\ amount' = amount
      /\ cancelKeys' = cancelKeys /\ declined' = declined
      /\ credits' = [credits EXCEPT ![o] = @ + 1]
  BY DEF RecordSuccess, Credit, gateVars
<1>2. PTypeOK /\ o \notin Slip
  BY PaymentsAssumption DEF CreditInv, PayInv
<1>3. /\ credits[o] \in Nat /\ credits'[o] = credits[o] + 1
      /\ attempt'[o] = "SUCCESS"
      /\ \A x \in Order \ {o} : attempt'[x] = attempt[x] /\ credits'[x] = credits[x]
      /\ \A s \in Slip : credits'[s] = credits[s]
  BY <1>1, <1>2 DEF PTypeOK
<1>4. ASSUME NEW x \in Order
      PROVE  /\ Cardinality(Done(x)) \in Nat /\ Cardinality(Done(x)') \in Nat
             /\ Cardinality(Done(x)) <= Cardinality(Done(x)')
             /\ Cardinality(Done(x)) <= Successes
  <2>1. Done(x) \in SUBSET Done(x)'
    BY <1>2 DEF Done, PTypeOK
  <2>2. IsFiniteSet(Done(x)')
    BY DoneBound
  <2>3. Cardinality(Done(x)) <= Cardinality(Done(x)') /\ Cardinality(Done(x)') \in Nat
    BY <2>1, <2>2, FS_Subset, FS_CardinalityType
  <2>4. Cardinality(Done(x)) \in 0..Successes
    BY DoneBound
  <2> QED
    BY <2>3, <2>4, PaymentsAssumption
<1>5. credits[o] <= Successes /\ credits'[o] <= Cardinality(Done(o)') + 1
  <2>1. CASE attempt[o] = "PENDING" /\ hook' = hook
    <3>1. credits[o] <= Cardinality(Done(o)) + 0
      BY <2>1 DEF CreditInv, CreditsCounted
    <3> QED
      BY <3>1, <1>3, <1>4, PaymentsAssumption
  <2>2. CASE \E e \in handling : /\ e.order = o /\ e.outcome = "SUCCESS"
                                 /\ hook' = [hook EXCEPT ![e] = "PROCESSED"]
    <3>1. PICK e \in handling : /\ e.order = o /\ e.outcome = "SUCCESS"
                                /\ hook' = [hook EXCEPT ![e] = "PROCESSED"]
      BY <2>2
    <3>2. e \in Event /\ hook[e] = "RECEIVED"
      BY DEF CreditInv, PayInv, PTypeOK, InFlight
    <3>3. Done(o)' = Done(o) \cup {e} /\ e \notin Done(o)
      BY <1>2, <3>1, <3>2 DEF Done, PTypeOK
    <3>4. IsFiniteSet(Done(o)) /\ IsFiniteSet(Done(o)')
      BY DoneBound
    <3>5. Cardinality(Done(o) \cup {e}) = Cardinality(Done(o)) + 1
      BY <3>3, <3>4, FS_AddElement
    <3>6. Cardinality(Done(o)') = Cardinality(Done(o)) + 1
      BY <3>3, <3>5
    <3>7. Cardinality(Done(o)') <= Successes
      BY DoneBound, PaymentsAssumption
    <3>8. credits[o] <= Cardinality(Done(o)) + 1
      BY <1>3, <1>4 DEF CreditInv, CreditsCounted
    <3> QED
      BY <1>3, <1>4, <3>6, <3>7, <3>8, PaymentsAssumption
  <2> QED
    BY <2>1, <2>2
<1>6. CreditsCounted'
  <2> SUFFICES ASSUME NEW x \in Order
               PROVE  credits'[x] <= Cardinality(Done(x)')
                                     + (IF attempt'[x] \in {"NONE", "PENDING"} THEN 0 ELSE 1)
    BY DEF CreditsCounted
  <2>1. CASE x = o
    BY <2>1, <1>3, <1>5
  <2>2. CASE x # o
    <3>1. credits[x] <= Cardinality(Done(x)) + (IF attempt[x] \in {"NONE", "PENDING"}
                                                THEN 0 ELSE 1)
      BY DEF CreditInv, CreditsCounted
    <3>2. credits[x] \in Nat
      BY <1>2 DEF PTypeOK
    <3> QED
      BY <2>2, <3>1, <3>2, <1>3, <1>4
  <2> QED
    BY <2>1, <2>2
<1>7. SlipCredits'
  BY <1>1, <1>3 DEF CreditInv, SlipCredits
<1>8. OrderCredits'
  BY <1>1, <1>3 DEF CreditInv, OrderCredits
<1>9. credits[o] + 1 <= MostCredits /\ declined' \subseteq Declinable
  BY <1>1, <1>3, <1>5, PaymentsAssumption DEF MostCredits, CreditInv
<1>10. CreditsPerMark'
  <2> SUFFICES ASSUME NEW x \in Order
               PROVE  credits'[x] <= (IF Unmarked(x)' THEN 1 ELSE 0)
                                     + (IF attempt'[x] = "SUCCESS" THEN 1 ELSE 0)
    BY DEF CreditsPerMark
  <2>1. credits[x] <= (IF Unmarked(x) THEN 1 ELSE 0)
                      + (IF attempt[x] = "SUCCESS" THEN 1 ELSE 0)
    BY DEF CreditInv, CreditsPerMark
  <2>2. Unmarked(x)' <=> Unmarked(x)
    <3>1. CASE hook' = hook
      BY <3>1 DEF Unmarked
    <3>2. CASE \E e \in handling : /\ e.order = o /\ e.outcome = "SUCCESS"
                                   /\ hook' = [hook EXCEPT ![e] = "PROCESSED"]
      <4>1. PICK e \in handling : /\ e.outcome = "SUCCESS"
                                  /\ hook' = [hook EXCEPT ![e] = "PROCESSED"]
        BY <3>2
      <4>2. e # FailureOf(x) /\ FailureOf(x) \in Event
        BY <4>1 DEF FailureOf, Event
      <4> QED
        BY <1>2, <4>1, <4>2 DEF Unmarked, PTypeOK
    <3> QED
      BY <3>1, <3>2
  <2>3. credits[x] \in Nat
    BY <1>2 DEF PTypeOK
  <2>4. CASE x = o
    <3>1. credits[x] <= (IF Unmarked(x) THEN 1 ELSE 0) + 0
      BY <2>1, <2>4
    <3>2. credits'[x] = credits[x] + 1 /\ attempt'[x] = "SUCCESS"
      BY <1>3, <2>4
    <3> QED
      BY <2>2, <2>3, <3>1, <3>2
  <2>5. CASE x # o
    <3>1. credits'[x] = credits[x] /\ attempt'[x] = attempt[x]
      BY <1>3, <2>5
    <3> QED
      BY <2>1, <2>2, <3>1
  <2> QED
    BY <2>4, <2>5
<1> QED
  BY <1>6, <1>7, <1>8, <1>9, <1>10 DEF CreditInv

\* A slip on the wallet that is verified is credited, once.
LEMMA SlipCounts ==
    ASSUME CreditInv, PayInv', NEW s \in Slip, VerifySlip(s)
    PROVE  CreditInv' /\ (For[s] = Wallet => credits[s] + 1 <= MostCredits)
<1>1. /\ payment[s] = "UNVERIFIED" /\ payment' = [payment EXCEPT ![s] = "VERIFIED"]
      /\ attempt' = attempt /\ declined' = declined /\ hook' = hook
  BY DEF VerifySlip, Recalculate, gateVars, hookVars
<1>2. PTypeOK /\ s \notin Order /\ s \in PaymentId
  BY PaymentsAssumption DEF CreditInv, PayInv, PaymentId
<1>3. CASE For[s] # Wallet
  <2>1. credits' = credits
    BY <1>3 DEF VerifySlip, walletVars
  <2>2. \A x \in Slip : For[x] = Wallet =>
            (payment'[x] = "VERIFIED" <=> payment[x] = "VERIFIED")
    BY <1>1, <1>2, <1>3 DEF PTypeOK, PaymentId
  <2>3. declined' \subseteq Declinable
    BY <1>1 DEF CreditInv
  <2> QED
    BY <1>1, <1>3, <2>1, <2>2, <2>3, QuietCounts
<1>4. CASE For[s] = Wallet
  <2>1. credits' = [credits EXCEPT ![s] = @ + 1]
    BY <1>4 DEF VerifySlip, Credit
  <2>2. credits[s] = 0
    BY <1>1 DEF CreditInv, SlipCredits
  <2>3. /\ \A o \in Order : credits'[o] = credits[o]
        /\ \A x \in Slip \ {s} : credits'[x] = credits[x] /\ payment'[x] = payment[x]
        /\ credits'[s] = 1 /\ payment'[s] = "VERIFIED"
    BY <1>1, <1>2, <2>1, <2>2 DEF PTypeOK, PaymentId
  <2>4. CreditsCounted'
    <3>1. \A o \in Order : Done(o)' = Done(o)
      BY <1>1 DEF Done
    <3> QED
      BY <1>1, <2>3, <3>1 DEF CreditInv, CreditsCounted
  <2>5. SlipCredits'
    BY <1>4, <2>3 DEF CreditInv, SlipCredits
  <2>6. OrderCredits' /\ declined' \subseteq Declinable
    BY <1>1, <2>3 DEF CreditInv, OrderCredits
  <2>7. credits[s] + 1 <= MostCredits
    BY <2>2, PaymentsAssumption DEF MostCredits
  <2>8. CreditsPerMark'
    BY <1>1, <2>3 DEF CreditInv, CreditsPerMark, Unmarked
  <2> QED
    BY <2>4, <2>5, <2>6, <2>7, <2>8 DEF CreditInv
<1> QED
  BY <1>3, <1>4

\* At the start nothing was credited, and the wallet is empty.
LEMMA WalletInit == PInit => WalletInv
<1> SUFFICES ASSUME PInit PROVE WalletInv
  OBVIOUS
<1>1. PayInv
  BY PayInit
<1>2. CreditsCounted
  <2> SUFFICES ASSUME NEW o \in Order
               PROVE  credits[o] <= Cardinality(Done(o)) + 0
    BY DEF CreditsCounted, PInit
  <2>1. Cardinality(Done(o)) \in Nat /\ credits[o] = 0
    BY DoneBound, PaymentsAssumption DEF PInit
  <2> QED
    BY <2>1
<1>3. SlipCredits
  BY DEF PInit, SlipCredits, PaymentId
<1>4. OrderCredits /\ CreditsPerMark /\ RefundOnce /\ declined \subseteq Declinable
  BY DEF PInit, OrderCredits, CreditsPerMark, RefundOnce
<1>5. RefundWithinPaid
  BY PaidType DEF PInit, RefundWithinPaid
<1>6. WalletAccounting
  <2>1. CreditUnits(amount, credits) = {}
    BY PaymentsAssumption DEF CreditUnits, PInit, Recharges, MostCredits
  <2>2. Sum(refunded, Reservation) = 0
    BY SumNothing DEF PInit
  <2>3. Drawn = {}
    BY DEF Drawn, PInit, PaymentId
  <2>4. Sum(amount, Drawn) = 0
    BY <2>3, SumNothing
  <2>5. Cardinality(CreditUnits(amount, credits)) = 0
    BY <2>1, FS_EmptySet
  <2> QED
    BY <2>2, <2>4, <2>5, AccountingInSums DEF PInit
<1> QED
  BY <1>1, <1>2, <1>3, <1>4, <1>5, <1>6 DEF WalletInv, CreditInv

\* A booking or a milestone paid from the wallet.
LEMMA DrawStep ==
    ASSUME WalletInv, CreditInv', NEW r \in Reservation, NEW d \in Draw,
           BookByWallet(r, d) \/ PayDue(r, d)
    PROVE  WalletInv'
<1>1. PICK a \in 0..MaxAmount : WalletPayment(d, r, a)
  <2>1. CASE BookByWallet(r, d)
    BY <2>1, PaymentsAssumption DEF BookByWallet
  <2>2. CASE PayDue(r, d)
    <3> DEFINE a == due[r] - Paid(r)
    <3>1. Paid(r) \in Nat /\ due[r] \in 0..MaxAmount
      BY PaidType DEF WalletInv, CreditInv, PayInv, PTypeOK
    <3>2. a > 0 /\ WalletPayment(d, r, a)
      BY <2>2 DEF PayDue
    <3>3. a \in 0..MaxAmount
      BY <3>1, <3>2, PaymentsAssumption
    <3> QED
      BY <3>2, <3>3
  <2> QED
    BY <2>1, <2>2
<1>2. /\ credits' = credits /\ refunded' = refunded /\ cancelKeys' = cancelKeys
  BY DEF BookByWallet, PayDue, MilestonePaid
<1>3. PTypeOK /\ WalletAccounting /\ RefundWithinPaid
  BY DEF WalletInv, CreditInv, PayInv
<1>4. WalletAccounting' /\ RefundWithinPaid'
  BY <1>1, <1>2, <1>3, DrawKeepsWallet
<1>5. RefundOnce'
  BY <1>2 DEF WalletInv, RefundOnce
<1> QED
  BY <1>4, <1>5 DEF WalletInv

\* A cancellation by the service's own key gives back once, and no more than
\* the wallet paid.
LEMMA CancelWalletStep ==
    ASSUME ClientKey = {}, WalletInv, CreditInv', NEW r \in Reservation,
           NEW key \in ClientKey \cup {r},
           NEW penalty \in {0, FirstNight}, Cancel(r, key, penalty)
    PROVE  WalletInv'
<1> DEFINE refund == NonNegative(Paid(r) - penalty)
           back == LesserOf(WalletPaid(r), refund)
<1>1. /\ CancelWith(r, key, refund, back) /\ key = r
  BY DEF Cancel
<1>2. PTypeOK /\ AdvanceAccounting
  BY DEF WalletInv, CreditInv, PayInv
<1>3. back \in Nat /\ back <= WalletPaid(r) /\ WalletPaid(r) \in Nat
  <2>1. Paid(r) \in Nat /\ WalletPaid(r) \in Nat /\ penalty \in Nat
    BY PaidType, PaymentsAssumption
  <2> QED
    BY <2>1 DEF LesserOf, NonNegative
<1>4. back \in 0..MaxAmount
  <2>1. Told(r) = advance[r] /\ advance[r] \in 0..MaxAmount
    BY <1>1, <1>2 DEF AdvanceAccounting, PTypeOK, CancelWith
  <2>2. WalletPaid(r) <= Told(r)
    BY <1>2, PaidType
  <2> QED
    BY <1>3, <2>1, <2>2, PaymentsAssumption
<1> HIDE DEF refund, back
<1>5. /\ payment' = payment /\ amount' = amount /\ attempt' = attempt /\ credits' = credits
      /\ wallet' = wallet + back /\ refunded' = [refunded EXCEPT ![r] = @ + back]
      /\ cancelKeys' = cancelKeys \cup {r} /\ r \notin cancelKeys
      /\ UNCHANGED gateVars /\ UNCHANGED hookVars
  BY <1>1 DEF CancelWith
<1>6. /\ refunded \in [Reservation -> Nat] /\ refunded[r] = 0
      /\ refunded'[r] = back
      /\ \A q \in Reservation \ {r} : refunded[q] = refunded'[q]
  BY <1>2, <1>3, <1>5 DEF WalletInv, RefundOnce, PTypeOK
<1>7. /\ Sum(amount', Drawn') = Sum(amount, Drawn)
      /\ \A q : WalletPaid(q)' = WalletPaid(q)
  <2>1. /\ \A d \in Draw : payment'[d] = "VERIFIED" <=> payment[d] = "VERIFIED"
        /\ \A d \in Draw : payment[d] = "VERIFIED" => amount'[d] = amount[d]
    BY <1>5
  <2> QED
    BY <2>1, DrawFrame
<1>8. RefundWithinPaid'
  <2> SUFFICES ASSUME NEW q \in Reservation
               PROVE  refunded'[q] <= WalletPaid(q)
    BY <1>7 DEF RefundWithinPaid
  <2> QED
    BY <1>3, <1>6 DEF WalletInv, RefundWithinPaid
<1>9. Sum(refunded', Reservation) = Sum(refunded, Reservation) + back
  <2>1. IsFiniteSet(Reservation) /\ refunded'[r] \in 0..MaxAmount
    BY <1>4, <1>6, PaymentsAssumption
  <2>2. Sum(refunded', Reservation) = Sum(refunded, Reservation) + refunded'[r]
    BY <1>6, <2>1, SumRaise
  <2> QED
    BY <1>6, <2>2
<1>10. WalletAccounting'
  <2>1. /\ Cardinality(CreditUnits(amount, credits)) \in Nat
        /\ Sum(refunded, Reservation) \in Nat
        /\ Sum(amount, Drawn) \in Nat
    BY WalletTypes
  <2>2. Cardinality(CreditUnits(amount, credits)) + Sum(refunded, Reservation)
          = wallet + Sum(amount, Drawn)
    BY AccountingInSums DEF WalletInv
  <2>3. wallet \in Nat
    BY <1>2 DEF PTypeOK
  <2>4. Cardinality(CreditUnits(amount', credits')) + Sum(refunded', Reservation)
          = wallet' + Sum(amount', Drawn')
    BY <1>3, <1>5, <1>7, <1>9, <2>1, <2>2, <2>3
  <2> QED
    BY <2>4, AccountingInSums
<1>11. RefundOnce'
  BY <1>5, <1>6 DEF WalletInv, RefundOnce
<1> QED
  BY <1>8, <1>10, <1>11 DEF WalletInv

\* A step that neither credits, draws nor gives back.
LEMMA QuietStep ==
    ASSUME WalletInv, CreditInv', UNCHANGED walletVars, cancelKeys' = cancelKeys,
           \A d \in Draw : payment'[d] = payment[d] /\ amount'[d] = amount[d],
           \A p \in Recharges : credits[p] = 0 \/ amount'[p] = amount[p]
    PROVE  WalletInv'
<1>1. WalletAccounting /\ RefundWithinPaid
  BY DEF WalletInv
<1>2. WalletAccounting' /\ RefundWithinPaid'
  <2>1. /\ \A d \in Draw : payment'[d] = "VERIFIED" <=> payment[d] = "VERIFIED"
        /\ \A d \in Draw : payment[d] = "VERIFIED" => amount'[d] = amount[d]
    OBVIOUS
  <2> QED
    BY <1>1, <2>1, WalletFrame
<1>3. RefundOnce'
  BY DEF WalletInv, RefundOnce, walletVars
<1> QED
  BY <1>2, <1>3 DEF WalletInv

\* A success of a recharge is in the wallet.
LEMMA RechargeWalletStep ==
    ASSUME WalletInv, CreditInv', NEW o \in Order, For[o] = Wallet, RecordSuccess(o),
           credits[o] + 1 <= MostCredits
    PROVE  WalletInv'
<1>1. /\ Credit(o) /\ payment' = payment /\ refunded' = refunded /\ amount' = amount
      /\ cancelKeys' = cancelKeys
  BY DEF RecordSuccess
<1>2. PTypeOK /\ WalletAccounting /\ RefundWithinPaid /\ o \in Order \cup Slip
  BY DEF WalletInv, CreditInv, PayInv
<1>3. \A d \in Draw : payment'[d] = payment[d]
  BY <1>1
<1>4. WalletAccounting' /\ RefundWithinPaid'
  BY <1>1, <1>2, <1>3, CreditKeepsWallet
<1>5. RefundOnce'
  BY <1>1 DEF WalletInv, RefundOnce
<1> QED
  BY <1>4, <1>5 DEF WalletInv

\* A slip that is verified is in the wallet, or pays a reservation.
LEMMA SlipWalletStep ==
    ASSUME WalletInv, CreditInv', NEW s \in Slip, VerifySlip(s),
           For[s] = Wallet => credits[s] + 1 <= MostCredits
    PROVE  WalletInv'
<1>1. /\ payment' = [payment EXCEPT ![s] = "VERIFIED"]
      /\ amount' = amount /\ cancelKeys' = cancelKeys
  BY DEF VerifySlip, Recalculate
<1>2. PTypeOK /\ s \notin Draw /\ s \in Order \cup Slip
  BY PaymentsAssumption DEF WalletInv, CreditInv, PayInv
<1>3. \A d \in Draw : payment'[d] = payment[d]
  BY <1>1, <1>2 DEF PTypeOK, PaymentId
<1>4. CASE For[s] # Wallet
  <2>1. UNCHANGED walletVars
    BY <1>4 DEF VerifySlip
  <2> QED
    BY <1>1, <1>3, <2>1, QuietStep
<1>5. CASE For[s] = Wallet
  <2>1. Credit(s) /\ refunded' = refunded
    BY <1>5 DEF VerifySlip
  <2>2. WalletAccounting /\ RefundWithinPaid
    BY DEF WalletInv
  <2>3. WalletAccounting' /\ RefundWithinPaid'
    BY <1>1, <1>2, <1>3, <1>5, <2>1, <2>2, CreditKeepsWallet
  <2>4. RefundOnce'
    BY <1>1, <2>1 DEF WalletInv, RefundOnce
  <2> QED
    BY <2>3, <2>4 DEF WalletInv
<1> QED
  BY <1>4, <1>5
\* A success the webhook processes: what RechargeCounts needs of it.
LEMMA SuccessOfRecharge ==
    ASSUME CreditInv, NEW e \in Event, ProcessSuccess(e), attempt[e.order] # "SUCCESS"
    PROVE  /\ e.order \in Order /\ RecordSuccess(e.order)
           /\ \E x \in handling : /\ x.order = e.order /\ x.outcome = "SUCCESS"
                                  /\ hook' = [hook EXCEPT ![x] = "PROCESSED"]
           /\ \A x \in Event : hook[x] = "PROCESSED" => hook'[x] = "PROCESSED"
<1>1. e.order \in Order
  BY EventFields
<1>2. /\ RecordSuccess(e.order) /\ e \in handling /\ e.outcome = "SUCCESS"
      /\ hook' = [hook EXCEPT ![e] = "PROCESSED"]
  BY DEF ProcessSuccess, Finish
<1>3. \A x \in Event : hook[x] = "PROCESSED" => hook'[x] = "PROCESSED"
  BY <1>2 DEF CreditInv, PayInv, PTypeOK
<1> QED
  BY <1>1, <1>2, <1>3

\* The counts of the credits, after any step.
LEMMA CreditStep ==
    ASSUME CreditInv, PayInv', [PayNext]_payVars
    PROVE  CreditInv'
<1> DEFINE Quiet ==
      /\ credits' = credits
      /\ declined \subseteq declined' /\ declined' \subseteq Declinable
      /\ \A e \in Event : hook[e] = "PROCESSED" => hook'[e] = "PROCESSED"
      /\ \A o \in Order : attempt[o] \notin {"NONE", "PENDING"} =>
                              attempt'[o] \notin {"NONE", "PENDING"}
      /\ \A o \in Order : attempt[o] = "SUCCESS" =>
             attempt'[o] = "SUCCESS" \/ (o \in declined' /\ ~Unmarked(o) /\ Unmarked(o)')
      /\ \A s \in Slip : For[s] = Wallet =>
             (payment'[s] = "VERIFIED" <=> payment[s] = "VERIFIED")
<1>1. Quiet => CreditInv'
  BY QuietCounts
<1>2. PTypeOK /\ InFlight /\ declined \subseteq Declinable
  BY DEF CreditInv, PayInv
<1>3. Order \subseteq PaymentId /\ Slip \subseteq PaymentId /\ Draw \subseteq PaymentId
      /\ Order \cap Slip = {} /\ Draw \cap Slip = {} /\ Till \cap Slip = {}
  BY PaymentsAssumption DEF PaymentId
<1>4. CASE BookNext
  <2>1. /\ credits' = credits /\ UNCHANGED gateVars /\ UNCHANGED hookVars
        /\ attempt' = attempt
    BY <1>4 DEF BookNext, BookByWallet, PayDue, MilestonePaid, BookUnpaid,
                MilestoneFallsDue, Cancel, CancelWith, walletVars
  <2>2. \A s \in Slip : payment'[s] = payment[s]
    <3>1. CASE payment' = payment
      BY <3>1
    <3>2. CASE \E d \in Draw : payment' = [payment EXCEPT ![d] = "VERIFIED"]
      BY <3>2, <1>2, <1>3 DEF PTypeOK
    <3> QED
      BY <1>4, <3>1, <3>2 DEF BookNext, BookByWallet, PayDue, WalletPayment, BookUnpaid,
                              MilestoneFallsDue, Cancel, CancelWith
  <2>3. Quiet
    BY <1>2, <2>1, <2>2 DEF gateVars, hookVars
  <2> QED
    BY <1>1, <2>3
<1>5. ASSUME NEW o \in Order, NEW a \in Amounts, CreateOrder(o, a) PROVE CreditInv'
  <2>1. Quiet
    BY <1>2, <1>5 DEF CreateOrder, PTypeOK, walletVars, gateVars, hookVars
  <2> QED
    BY <1>1, <2>1
<1>6. ASSUME NEW o \in Order, Decline(o) \/ Capture(o) PROVE CreditInv'
  <2>1. Quiet
    BY <1>2, <1>6 DEF Decline, Capture, moneyVars, walletVars, hookVars
  <2> QED
    BY <1>1, <2>1
<1>7. ASSUME NEW o \in Order, RecordSuccess(o), For[o] # Wallet,
             \A e \in Event : hook[e] = "PROCESSED" => hook'[e] = "PROCESSED"
      PROVE  CreditInv'
  <2>1. /\ payment' = [payment EXCEPT ![o] = "VERIFIED"] /\ credits' = credits
        /\ attempt' = [attempt EXCEPT ![o] = "SUCCESS"] /\ declined' = declined
    BY <1>7 DEF RecordSuccess, Recalculate, walletVars, gateVars
  <2>2. Quiet
    BY <1>2, <1>3, <1>7, <2>1 DEF PTypeOK
  <2> QED
    BY <1>1, <2>2
<1>8. ASSUME NEW o \in Order, VerifyCheckout(o) PROVE CreditInv'
  <2>1. RecordSuccess(o) /\ attempt[o] = "PENDING" /\ hook' = hook
    BY <1>8 DEF VerifyCheckout, hookVars
  <2> QED
    BY <1>7, <2>1, RechargeCounts
<1>9. ASSUME NEW e \in Event, ReceiveEvent(e) PROVE CreditInv'
  <2>1. Quiet
    BY <1>2, <1>9 DEF ReceiveEvent, PTypeOK, moneyVars, walletVars, gateVars
  <2> QED
    BY <1>1, <2>1
<1>10. ASSUME NEW e \in Event, ProcessSuccess(e) PROVE CreditInv'
  <2>1. CASE attempt[e.order] = "SUCCESS"
    <3>1. /\ UNCHANGED <<moneyVars, gateVars>> /\ e \in Event
          /\ hook' = [hook EXCEPT ![e] = "PROCESSED"]
      BY <1>10, <2>1 DEF ProcessSuccess, Finish
    <3>2. Quiet
      BY <1>2, <3>1 DEF PTypeOK, moneyVars, walletVars, gateVars
    <3> QED
      BY <1>1, <3>2
  <2>2. CASE attempt[e.order] # "SUCCESS"
    BY <1>7, <1>10, <2>2, SuccessOfRecharge, RechargeCounts
  <2> QED
    BY <2>1, <2>2
<1>11. ASSUME NEW e \in Event, ProcessFailure(e) PROVE CreditInv'
  <2>1. e.order \in Order /\ e.order \in declined
    BY <1>2, <1>11, EventFields DEF ProcessFailure, InFlight, Sent
  <2>2. /\ attempt' = [attempt EXCEPT ![e.order] = "FAILED"] /\ payment' = payment
        /\ credits' = credits /\ declined' = declined
        /\ hook' = [hook EXCEPT ![e] = "PROCESSED"]
    BY <1>11 DEF ProcessFailure, Finish, walletVars, gateVars
  <2>3. e = FailureOf(e.order) /\ hook[e] = "RECEIVED"
    BY <1>2, <1>11 DEF ProcessFailure, InFlight, Event, FailureOf
  <2>4. ~Unmarked(e.order) /\ Unmarked(e.order)'
    BY <1>2, <2>2, <2>3 DEF Unmarked, PTypeOK
  <2>5. Quiet
    BY <1>2, <2>1, <2>2, <2>4 DEF PTypeOK
  <2> QED
    BY <1>1, <2>5
<1>12. ASSUME NEW e \in Event, ProcessingFails(e) PROVE CreditInv'
  <2>1. /\ UNCHANGED <<moneyVars, gateVars>> /\ hook[e] = "RECEIVED"
        /\ hook' = [hook EXCEPT ![e] = "FAILED"]
    BY <1>2, <1>12 DEF ProcessingFails, Finish, InFlight
  <2>2. Quiet
    BY <1>2, <2>1 DEF PTypeOK, moneyVars, walletVars, gateVars
  <2> QED
    BY <1>1, <2>2
<1>13. CASE Restart \/ UNCHANGED payVars
  <2>1. Quiet
    BY <1>2, <1>13 DEF Restart, payVars, moneyVars, walletVars, gateVars, hookVars
  <2> QED
    BY <1>1, <2>1
<1>14. ASSUME NEW s \in Slip, NEW a \in Amounts, BeginSlip(s, a) PROVE CreditInv'
  <2>1. Quiet
    BY <1>2, <1>3, <1>14 DEF BeginSlip, PTypeOK, walletVars, gateVars, hookVars
  <2> QED
    BY <1>1, <2>1
<1>15. ASSUME NEW s \in Slip, RecordSlip(s) PROVE CreditInv'
  <2>1. Quiet
    BY <1>2, <1>3, <1>15 DEF RecordSlip, PTypeOK, walletVars, gateVars, hookVars
  <2> QED
    BY <1>1, <2>1
<1>16. ASSUME NEW s \in Slip, VerifySlip(s) PROVE CreditInv'
  BY <1>16, SlipCounts
<1>17. CASE GatewayNext
  BY <1>5, <1>6, <1>8, <1>9, <1>10, <1>11, <1>12, <1>13, <1>17 DEF GatewayNext
<1>18. CASE SlipNext
  BY <1>14, <1>15, <1>16, <1>18 DEF SlipNext
<1>19. CASE TillNext
  <2>1. /\ UNCHANGED <<attempt, walletVars, gateVars, hookVars>>
        /\ \A s \in Slip : payment'[s] = payment[s]
    BY <1>2, <1>3, <1>19 DEF TillNext, CheckIn, CheckOut, MoveStay, RecordCheckoutPayment,
                             PTypeOK
  <2>2. Quiet
    BY <1>2, <2>1 DEF walletVars, gateVars, hookVars
  <2> QED
    BY <1>1, <2>2
<1> QED
  BY <1>4, <1>13, <1>17, <1>18, <1>19 DEF PayNext

\* The counts hold in every state.
LEMMA CreditInvariant == PSpec => []CreditInv
<1>1. PInit => CreditInv
  BY WalletInit DEF WalletInv
<1>2. PayInv /\ PayInv' /\ CreditInv /\ [PayNext]_payVars => CreditInv'
  BY CreditStep
<1> QED
  BY <1>1, <1>2, PayInvariant, PTL DEF PSpec

\* A recharge is credited once, though the browser and any number of events
\* report its success, restarts and aborted transactions in between; one with a
\* try that failed once more at most, when that failure is reported late.
\* verifyWalletCheckoutPayment and processWebhook keep to it between them.
THEOREM RechargesCredited == PSpec => []CreditedOnce
<1>1. ASSUME CreditInv, NEW p \in Recharges
      PROVE  credits[p] <= IF p \in declined THEN 2 ELSE 1
  <2>1. CASE p \in Slip
    BY <1>1, <2>1 DEF CreditInv, SlipCredits
  <2>2. CASE p \in Order \ declined
    BY <1>1, <2>2 DEF CreditInv, OrderCredits
  <2>3. CASE p \in Order \cap declined
    <3>1. credits[p] <= (IF Unmarked(p) THEN 1 ELSE 0)
                        + (IF attempt[p] = "SUCCESS" THEN 1 ELSE 0)
      BY <1>1, <2>3 DEF CreditInv, CreditsPerMark
    <3>2. credits[p] \in Nat
      BY <1>1, <2>3 DEF CreditInv, PayInv, PTypeOK
    <3> QED
      BY <2>3, <3>1, <3>2
  <2> QED
    BY <2>1, <2>2, <2>3 DEF Recharges
<1>2. CreditInv => CreditedOnce
  BY <1>1 DEF CreditedOnce
<1> QED
  BY <1>2, CreditInvariant, PTL

\* The wallet, after any step.
LEMMA WalletStep ==
    ASSUME ClientKey = {}, WalletInv, CreditInv', [PayNext]_payVars
    PROVE  WalletInv'
<1> DEFINE Quiet ==
      /\ UNCHANGED walletVars /\ cancelKeys' = cancelKeys
      /\ \A d \in Draw : payment'[d] = payment[d] /\ amount'[d] = amount[d]
      /\ \A p \in Recharges : credits[p] = 0 \/ amount'[p] = amount[p]
<1>1. Quiet => WalletInv'
  BY QuietStep
<1>2. CreditInv /\ PayInv /\ PTypeOK /\ PayInv'
  BY DEF WalletInv, CreditInv, PayInv
<1>3. /\ Order \subseteq PaymentId /\ Slip \subseteq PaymentId /\ Draw \subseteq PaymentId
      /\ Order \cap Draw = {} /\ Slip \cap Draw = {} /\ Recharges \subseteq PaymentId
  BY PaymentsAssumption DEF PaymentId, Recharges
<1>4. CASE BookNext
  <2>1. CASE \E r \in Reservation, d \in Draw : BookByWallet(r, d) \/ PayDue(r, d)
    BY <2>1, DrawStep
  <2>2. CASE \E r \in Reservation : BookUnpaid(r) \/ MilestoneFallsDue(r)
    <3>1. Quiet
      BY <2>2 DEF BookUnpaid, MilestoneFallsDue
    <3> QED
      BY <1>1, <3>1
  <2>3. CASE \E r \in Reservation : \E key \in ClientKey \cup {r}, penalty \in {0, FirstNight} :
               Cancel(r, key, penalty)
    BY <2>3, CancelWalletStep
  <2> QED
    BY <1>4, <2>1, <2>2, <2>3 DEF BookNext
<1>5. ASSUME NEW o \in Order, NEW a \in Amounts, CreateOrder(o, a) PROVE WalletInv'
  <2>1. credits[o] = 0
    BY <1>2, <1>5 DEF PayInv, OrdersOpened, CreateOrder
  <2>2. Quiet
    BY <1>2, <1>3, <1>5, <2>1 DEF CreateOrder, PTypeOK
  <2> QED
    BY <1>1, <2>2
<1>6. ASSUME NEW o \in Order, RecordSuccess(o), For[o] # Wallet
      PROVE  WalletInv'
  <2>1. /\ payment' = [payment EXCEPT ![o] = "VERIFIED"] /\ UNCHANGED walletVars
        /\ amount' = amount /\ cancelKeys' = cancelKeys
    BY <1>6 DEF RecordSuccess, Recalculate
  <2>2. Quiet
    BY <1>2, <1>3, <2>1 DEF PTypeOK
  <2> QED
    BY <1>1, <2>2
<1>7. ASSUME UNCHANGED moneyVars PROVE WalletInv'
  <2>1. Quiet
    BY <1>7 DEF moneyVars
  <2> QED
    BY <1>1, <2>1
<1>8. ASSUME NEW o \in Order, VerifyCheckout(o) PROVE WalletInv'
  <2>1. RecordSuccess(o) /\ attempt[o] = "PENDING" /\ hook' = hook
    BY <1>8 DEF VerifyCheckout, hookVars
  <2>2. CASE For[o] = Wallet
    <3>1. credits[o] + 1 <= MostCredits
      BY <1>2, <2>1, <2>2, RechargeCounts
    <3> QED
      BY <2>1, <2>2, <3>1, RechargeWalletStep
  <2> QED
    BY <1>6, <2>1, <2>2
<1>9. ASSUME NEW e \in Event, ProcessSuccess(e) PROVE WalletInv'
  <2>1. CASE attempt[e.order] = "SUCCESS"
    BY <1>7, <1>9, <2>1 DEF ProcessSuccess
  <2>2. CASE attempt[e.order] # "SUCCESS"
    <3>1. /\ e.order \in Order /\ RecordSuccess(e.order)
          /\ \E x \in handling : /\ x.order = e.order /\ x.outcome = "SUCCESS"
                                 /\ hook' = [hook EXCEPT ![x] = "PROCESSED"]
      BY <1>2, <1>9, <2>2, SuccessOfRecharge
    <3>2. CASE For[e.order] = Wallet
      <4>1. credits[e.order] + 1 <= MostCredits
        BY <1>2, <2>2, <3>1, <3>2, RechargeCounts
      <4> QED
        BY <3>1, <3>2, <4>1, RechargeWalletStep
    <3> QED
      BY <1>6, <3>1, <3>2
  <2> QED
    BY <2>1, <2>2
<1>10. ASSUME NEW e \in Event, ProcessFailure(e) PROVE WalletInv'
  <2>1. Quiet
    BY <1>10 DEF ProcessFailure
  <2> QED
    BY <1>1, <2>1
<1>11. ASSUME NEW s \in Slip, NEW a \in Amounts, BeginSlip(s, a) PROVE WalletInv'
  <2>1. credits[s] = 0
    BY <1>11 DEF WalletInv, CreditInv, SlipCredits, BeginSlip
  <2>2. Quiet
    BY <1>2, <1>3, <1>11, <2>1 DEF BeginSlip, PTypeOK
  <2> QED
    BY <1>1, <2>2
<1>12. ASSUME NEW s \in Slip, RecordSlip(s) PROVE WalletInv'
  <2>1. Quiet
    BY <1>2, <1>3, <1>12 DEF RecordSlip, PTypeOK
  <2> QED
    BY <1>1, <2>1
<1>13. ASSUME NEW s \in Slip, VerifySlip(s) PROVE WalletInv'
  <2>1. For[s] = Wallet => credits[s] + 1 <= MostCredits
    BY <1>2, <1>13, SlipCounts
  <2> QED
    BY <1>13, <2>1, SlipWalletStep
<1>14. CASE UNCHANGED payVars
  BY <1>7, <1>14 DEF payVars
<1>15. CASE GatewayNext
  <2>1. ASSUME NEW o \in Order, Decline(o) \/ Capture(o) PROVE WalletInv'
    BY <1>7, <2>1 DEF Decline, Capture
  <2>2. ASSUME NEW e \in Event, ReceiveEvent(e) \/ ProcessingFails(e) PROVE WalletInv'
    BY <1>7, <2>2 DEF ReceiveEvent, ProcessingFails
  <2>3. CASE Restart
    BY <1>7, <2>3 DEF Restart
  <2> QED
    BY <1>5, <1>8, <1>9, <1>10, <1>15, <2>1, <2>2, <2>3 DEF GatewayNext
<1>16. CASE SlipNext
  BY <1>11, <1>12, <1>13, <1>16 DEF SlipNext
<1>17. CASE TillNext
  <2>1. /\ UNCHANGED walletVars /\ cancelKeys' = cancelKeys
        /\ \A p \in PaymentId \ Till : payment'[p] = payment[p] /\ amount'[p] = amount[p]
    BY <1>2, <1>17 DEF TillNext, CheckIn, CheckOut, MoveStay, RecordCheckoutPayment, PTypeOK
  <2>2. Till \cap Draw = {} /\ Till \cap Recharges = {}
    BY PaymentsAssumption DEF Recharges
  <2>3. Quiet
    BY <1>3, <2>1, <2>2
  <2> QED
    BY <1>1, <2>3
<1> QED
  BY <1>4, <1>14, <1>15, <1>16, <1>17 DEF PayNext

\* However recharges, bookings, milestones and cancellations meet: the wallet
\* is never overdrawn, every unit of it is accounted for, a cancellation gives
\* back no more than was paid from it, and what is paid is confirmed.  Clients
\* leave the key of a cancellation to the service.
THEOREM WalletSound ==
    ASSUME ClientKey = {}
    PROVE  PSpec => []WalletIsSound
<1>1. WalletInv /\ CreditInv' /\ [PayNext]_payVars => WalletInv'
  BY WalletStep
<1>2. WalletInv => WalletIsSound
  BY DEF WalletInv, CreditInv, PayInv, WalletIsSound
<1> QED
  BY <1>1, <1>2, WalletInit, CreditInvariant, PTL DEF PSpec
=============================================================================
