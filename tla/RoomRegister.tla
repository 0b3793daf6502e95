---------------------------- MODULE RoomRegister ----------------------------
(***************************************************************************)
(* What the front desk promises about physical rooms, without statuses,    *)
(* tasks or tickets: each booked room is in at most one physical room, a   *)
(* guest enters only a room that is offered, and a room is offered only    *)
(* while nobody is in it.  Module RoomOps implements this.                 *)
(***************************************************************************)
EXTENDS Naturals

CONSTANTS Room, BookedRoom, NoRoom

VARIABLES lodged,   \* the room each booked room is in, or NoRoom
          offered   \* the rooms a guest may enter

vars == <<lodged, offered>>

Init ==
    /\ lodged = [b \in BookedRoom |-> NoRoom]
    /\ offered \in SUBSET Room

\* Booked rooms of a party enter rooms that are offered, one each.
Enter(party, rooms) ==
    /\ party # {}
    /\ \A b \in party : lodged[b] = NoRoom /\ rooms[b] \in offered
    /\ \A b, c \in party : rooms[b] = rooms[c] => b = c
    /\ lodged' = [b \in BookedRoom |-> IF b \in party THEN rooms[b] ELSE lodged[b]]
    /\ offered' = offered \ {rooms[b] : b \in party}

\* A guest moves to a room that is offered; the old room is not.
Move(b, r) ==
    /\ lodged[b] # NoRoom
    /\ r \in offered
    /\ lodged' = [lodged EXCEPT ![b] = r]
    /\ offered' = offered \ {r}

\* A party leaves; its rooms are not offered by that.
Leave(party) ==
    /\ \A b \in party : lodged[b] # NoRoom
    /\ lodged' = [b \in BookedRoom |-> IF b \in party THEN NoRoom ELSE lodged[b]]
    /\ UNCHANGED offered

\* A room nobody is in is offered, or an offered one withdrawn.
Offer(r) ==
    /\ \A b \in BookedRoom : lodged[b] # r
    /\ offered' \in {offered \cup {r}, offered \ {r}}
    /\ UNCHANGED lodged

Next ==
    \/ \E party \in SUBSET BookedRoom, rooms \in [BookedRoom -> Room] : Enter(party, rooms)
    \/ \E b \in BookedRoom, r \in Room : Move(b, r)
    \/ \E party \in SUBSET BookedRoom : Leave(party)
    \/ \E r \in Room : Offer(r)

Spec == Init /\ [][Next]_vars
=============================================================================
