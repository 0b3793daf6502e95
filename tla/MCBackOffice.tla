---------------------------- MODULE MCBackOffice ----------------------------
\* One stay with an ordered and a posted charge, two payments, one shift, two days.
EXTENDS TaxDocuments, TLC
CONSTANTS c1, c2, p1, p2, s1
Charges == {c1, c2}
OneCharge == {c1}
Payments == {p1, p2}
OneShift == {s1}
OneOrTwo == {1, 2}
Symmetry == Permutations(Payments)

\* Any two requests overlap on the first day, and one is under way on the next;
\* a note or a cancellation meets another of a stay settled by one payment, and
\* what is credited beyond the invoice is followed to the end of that day (bounds).
FewMeet ==
    /\ Cardinality(requests) > 1 =>
          day = 1 /\ (Statutory # {} => Cardinality(Verified) <= 1)
    /\ ~CreditWithinInvoice => day = 1 /\ Cardinality(Verified) <= 1
BackSpec == TInit /\ [][TNext /\ FewMeet']_tvars
=============================================================================
