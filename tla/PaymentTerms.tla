----------------------------- MODULE PaymentTerms -----------------------------
(***************************************************************************)
(* An agent's payment terms: milestones, each a percentage due when the    *)
(* booking is made or some days before check-in (agent-payment-terms.ts),  *)
(* and what the booking page computes from them (booking-pricing.ts).      *)
(* Amounts are in cents, percentages in hundredths of a percent.  Time is  *)
(* in half days: midnight, and the daytime in which bookings are made.     *)
(***************************************************************************)
EXTENDS Integers, Sequences, SequencesExt, TLC

Midnight(d) == 2 * d
Daytime(d) == 2 * d + 1
SumSeq(s) == FoldSeq(LAMBDA x, acc : x + acc, 0, s)

\* A milestone is [pct, due]: due is OnBooking or a number of days.
OnBooking == -1
All == 10000

legacyPaymentMilestones(policy, pct) ==
    IF policy = "CREDIT" THEN <<[pct |-> All, due |-> 0]>>
    ELSE IF pct = All THEN <<[pct |-> All, due |-> OnBooking]>>
    ELSE <<[pct |-> pct, due |-> OnBooking], [pct |-> All - pct, due |-> 0]>>

\* Milestones due at the same point become one, where the first of them stood.
Merged(ms) ==
    FoldLeft(LAMBDA acc, m :
               IF \E i \in DOMAIN acc : acc[i].due = m.due
               THEN [i \in DOMAIN acc |->
                       IF acc[i].due = m.due THEN [acc[i] EXCEPT !.pct = @ + m.pct] ELSE acc[i]]
               ELSE Append(acc, m),
             <<>>, ms)

\* Mutant: what is left is nobody's.
AmountsFloored(total, ms) == [i \in DOMAIN ms |-> (total * ms[i].pct) \div All]

\* Rounded down; the last one takes what is left.
Amounts(total, ms) ==
    LET part == [i \in DOMAIN ms |-> (total * ms[i].pct) \div All]
    IN  [part EXCEPT ![Len(ms)] = @ + total - SumSeq(part)]

DueAt(m, checkIn, now) == IF m.due = OnBooking THEN now ELSE Midnight(checkIn - m.due)

calculateAgentPaymentSchedule(total, checkIn, now, milestones) ==
    LET ms == Merged(milestones)
    IN  [i \in DOMAIN ms |-> [amount |-> Amounts(total, ms)[i],
                              dueAt  |-> DueAt(ms[i], checkIn, now),
                              dueNow |-> DueAt(ms[i], checkIn, now) <= now]]

requiredAtBooking(schedule) ==
    SumSeq([i \in DOMAIN schedule |-> IF schedule[i].dueNow THEN schedule[i].amount ELSE 0])

\* The page's own computation, from the milestones it was sent.
dueNowForAgentBooking(total, checkIn, now, ms) ==
    IF ms = <<>> THEN total
    ELSE SumSeq([i \in DOMAIN ms |->
                   IF DueAt(ms[i], checkIn, now) <= now THEN Amounts(total, ms)[i] ELSE 0])

\* Mutant: points are filled as the terms list them.
AsListed(snapshot, i, j) == i < j
DueBefore(snapshot, i, j) ==
    \/ snapshot[i].dueAt < snapshot[j].dueAt
    \/ snapshot[i].dueAt = snapshot[j].dueAt /\ i < j

\* Verified payments fill the snapshot's points, the oldest due first.
calculateReservationPaymentSchedule(snapshot, verifiedPaid, now) ==
    LET order == SortSeq([i \in DOMAIN snapshot |-> i], LAMBDA i, j : DueBefore(snapshot, i, j))
        Fill(acc, i) ==
            LET paid == IF snapshot[i].amount < acc.left THEN snapshot[i].amount ELSE acc.left
            IN  [left |-> acc.left - paid,
                 items |-> Append(acc.items,
                    [amount |-> snapshot[i].amount, dueAt |-> snapshot[i].dueAt,
                     paidAmount |-> paid, outstandingAmount |-> snapshot[i].amount - paid,
                     status |-> CASE paid >= snapshot[i].amount -> "PAID"
                                  [] paid > 0 /\ paid < snapshot[i].amount -> "PARTIALLY_PAID"
                                  [] OTHER -> IF snapshot[i].dueAt <= now
                                              THEN "DUE" ELSE "UPCOMING"])]
    IN  FoldLeft(Fill, [left |-> verifiedPaid, items |-> <<>>], order).items
=============================================================================
