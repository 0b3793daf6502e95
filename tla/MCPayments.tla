---------------------------- MODULE MCPayments ----------------------------
(***************************************************************************)
(* Small instances of Payments for TLC: one or two reservations of two     *)
(* units, paid by orders, slips, draws and at check-out, as each question  *)
(* needs.                                                                  *)
(***************************************************************************)
EXTENDS Payments, TLC

CONSTANTS r1, w, o1, o2, s1, d1, d2, c1

OneReservation == {r1}
OneOrder  == {o1}
TwoOrders == {o1, o2}
OneSlip   == {s1}
TwoDraws  == {d1, d2}
OneTill   == {c1}

Two == [r \in Reservation |-> 2]
One == [r \in Reservation |-> 1]

\* Everything pays for r1.
ForStay == [p \in PaymentId |-> r1]
\* The orders and slips recharge the wallet; the draws pay for r1.
ForWallet == [p \in PaymentId |-> IF p \in Draw \cup Till THEN r1 ELSE w]
=============================================================================
