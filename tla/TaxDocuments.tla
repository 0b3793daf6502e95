---------------------------- MODULE TaxDocuments ----------------------------
(***************************************************************************)
(* The statutory documents of a settled stay: its tax invoice, the credit  *)
(* notes against its lines and its cancellation.                           *)
(***************************************************************************)
EXTENDS Folio

CONSTANT Room      \* the invoice line of the room

ASSUME TaxAssumption == Room \notin Charge

VARIABLES invoice,     \* its status and what each of its lines is worth
          credited     \* what the credit notes took from each line

tvars == <<fvars, invoice, credited>>

Line == Charge \cup {Room}
Nothing == [l \in Line |-> 0]
Sum(f) == Cardinality(Units(f, Line))
Lines == [l \in Line |-> IF l = Room THEN RoomTotal ELSE IF l \in Posted THEN 1 ELSE 0]

TInit == FInit /\ invoice = [status |-> "none", lines |-> Nothing] /\ credited = Nothing

\* Mutant: any checkout will do.
IssueUnsettled ==
    /\ invoice.status = "none"
    /\ stay = "CHECKED_OUT"
    /\ Sum(Lines) = settlement.gross
    /\ invoice' = [status |-> "ISSUED", lines |-> Lines]
    /\ UNCHANGED <<fvars, credited>>

\* An invoice takes a stay settled in full, whose lines are still what was
\* settled; there is one invoice of a stay, cancelled or not.
Issue ==
    /\ invoice.status = "none"
    /\ stay = "CHECKED_OUT" /\ settlement.status = "SETTLED"
    /\ Sum(Lines) = settlement.gross
    /\ invoice' = [status |-> "ISSUED", lines |-> Lines]
    /\ UNCHANGED <<fvars, credited>>

\* Cancelling and crediting test what they read, and write without testing.
ReadCancel ==
    /\ invoice.status = "ISSUED" /\ credited = Nothing
    /\ Arrive(Request("cancel", Room, Nothing))
    /\ UNCHANGED <<stayVars, folioVars, deskVars, shift, auditVars, invoice, credited>>

WriteCancel ==
    /\ \E r \in requests : r.op = "cancel" /\ Finish(r)
    /\ invoice' = [invoice EXCEPT !.status = "CANCELLED"]
    /\ UNCHANGED <<stayVars, folioVars, deskVars, shift, auditVars, credited>>

\* A note takes from each line at most what the notes it read have left of it;
\* a full credit takes all of that.
\* Mutant: earlier notes are not looked at.
Whole(l) == invoice.lines[l]
Remaining(l) == invoice.lines[l] - credited[l]
Notes == {n \in [Line -> 0..Max({RoomTotal, 1})] :
            n # Nothing /\ \A l \in Line : n[l] > 0 => n[l] <= Remaining(l)}

ReadCredit ==
    /\ invoice.status = "ISSUED"
    /\ \E note \in Notes : Arrive(Request("credit", Room, note))
    /\ UNCHANGED <<stayVars, folioVars, deskVars, shift, auditVars, invoice, credited>>

WriteCredit ==
    /\ \E r \in requests :
        /\ r.op = "credit" /\ Finish(r)
        /\ credited' = [l \in Line |-> credited[l] + r.read[l]]
    /\ UNCHANGED <<stayVars, folioVars, deskVars, shift, auditVars, invoice>>

TNext ==
    \/ FNext /\ UNCHANGED <<invoice, credited>>
    \/ Issue \/ ReadCancel \/ WriteCancel \/ ReadCredit \/ WriteCredit

TSpec == TInit /\ [][TNext]_tvars

\* What is left to collect of the invoice (one formula, no TDS).
Receivable == Sum(invoice.lines) - Sum(credited) - Total(Verified)

-----------------------------------------------------------------------------
\* A settled invoice leaves nothing to collect, so that no TDS can be recorded
\* against it, though charges and voids land after the settlement and payments
\* are verified at any time.
NothingLeftForTds == invoice.status # "none" => Receivable <= 0

\* The credit notes of an invoice never exceed any of its lines, and only an
\* invoice that stands has some.  Not always so: two notes that overlap, or a
\* note and a cancellation, may both take what is left.
CreditWithinInvoice ==
    /\ \A l \in Line : credited[l] <= invoice.lines[l]
    /\ credited # Nothing => invoice.status = "ISSUED"

\* What a note or a cancellation read of the documents still holds.
Statutory == {r \in requests : r.op \in {"credit", "cancel"}}
StillHolds(r) ==
    /\ invoice.status = "ISSUED"
    /\ r.op = "cancel" => credited = Nothing
    /\ r.op = "credit" => \A l \in Line : r.read[l] > 0 => r.read[l] <= Remaining(l)

\* Whatever overlaps, only an overlap of notes and cancellations takes more from
\* an invoice than it has, or credits a cancelled one: each finds room for itself
\* when it reads, loses it to no charge, void or payment but to another that is
\* written first, and does harm only where it lost it.
OnlyOverlapsOvercredit ==
    [][LET written == Statutory \ Statutory' IN
        /\ \A r \in Statutory' \ Statutory : StillHolds(r)'
        /\ \A r \in Statutory \cap Statutory' : StillHolds(r) => StillHolds(r)' \/ written # {}
        /\ CreditWithinInvoice => CreditWithinInvoice' \/ \E r \in written : ~StillHolds(r)]_tvars

\* Whatever overlaps, an invoice, its notes and the payments agree after the
\* settlement, but for notes and cancellations that overlap each other.
DocumentsAgree == []NothingLeftForTds /\ OnlyOverlapsOvercredit
=============================================================================
