--------------------------- MODULE MCBookingFlow ---------------------------
\* Two stays, and one hotel, which the agent's rate book has at the first of
\* them; nothing is due from an agent when the second is booked, which costs a
\* guest nothing.
EXTENDS BookingFlow
Stays == {"s1", "s2"}
Hotels == {"h1"}
Eligible == [s \in Stays |-> IF s = "s1" THEN {"h1"} ELSE {}]
Due == {"s1"}
NoCost == {"s2"}
Clicks == [v \in Visitor |-> IF v.agent THEN IF v.patient THEN 5 ELSE 4
                                      ELSE IF v.patient THEN 6 ELSE 4]
=============================================================================
