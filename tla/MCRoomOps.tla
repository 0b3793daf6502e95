------------------------------ MODULE MCRoomOps ------------------------------
(***************************************************************************)
(* Small instances of RoomOps for TLC: two stays of one booked room each   *)
(* and two physical rooms.                                                 *)
(***************************************************************************)
EXTENDS RoomOps, TLC

CONSTANTS s1, s2, a, b, r1, r2, t1, t2, k1, k2

TwoStays   == {s1, s2}
TwoBooked  == {a, b}
TwoRooms   == {r1, r2}
TwoTasks   == {t1, t2}
OneTask    == {t1}
TwoTickets == {k1, k2}

\* a is of s1, the other booked rooms are of s2.
Owner == [x \in BookedRoom |-> IF x = a THEN s1 ELSE s2]

\* The two stays overlap.
SameNights == {{s1, s2}}

NoStatus == {}
AnyStatus == RoomStatus
\* Management leaves it to the tickets to end an out-of-order period.
NeverBack == {"OUT_OF_ORDER", "CLEANING"}

\* The stay is not there yet and the room on offer, and no work is in it.
Untouched(s, r) ==
    /\ stay[s] = "EXPECTED" /\ room[r] = "AVAILABLE"
    /\ \A t \in Task : task[t].room # r
    /\ \A k \in Ticket : ticket[k].room # r
    /\ \A q \in inFlight : q.op = "setStatus" => q.room # r

\* Two stays, one of which is neither modified nor closed, share two rooms and
\* no ticket is written, or one such stay shares a room with tickets that no
\* task reported (a bound).
TicketsApart ==
    \/ /\ \A k \in Ticket : ticket[k].status = "NONE"
       /\ \E s \in Stay : reservation[s] = "CONFIRMED"
    \/ /\ \A k \in Ticket : ticket[k].task = NoTask
       /\ \E s \in Stay, r \in Room : Untouched(s, r)
       /\ \A s \in Stay : reservation[s] = "CONFIRMED"
       /\ \A q \in inFlight : q.op # "noShow"
RacesSpec == Init /\ [][Next /\ TicketsApart']_vars

Swap == [x \in {s1, s2, a, b} |-> CASE x = s1 -> s2 [] x = s2 -> s1 [] x = a -> b [] x = b -> a]
Alike == {Swap} \cup Permutations(Room) \cup Permutations(Task)
Interchangeable == Alike \cup Permutations(Ticket)
=============================================================================
