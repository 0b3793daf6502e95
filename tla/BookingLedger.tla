---------------------------- MODULE BookingLedger ----------------------------
(***************************************************************************)
(* What the inventory promises, without its counters: a booking claims     *)
(* rooms on some rows, the claim is held, sold or gone, and the claims     *)
(* that stand never exceed the stock.  Module Inventory implements this    *)
(* with the counters held and sold, which it keeps equal to the totals.    *)
(***************************************************************************)
EXTENDS RoomCount

CONSTANTS Key, Booking

VARIABLES stock,   \* rooms of each row
          claim,   \* the state of each booking's claim
          rooms    \* the rooms each booking claims on each row

vars == <<stock, claim, rooms>>

ClaimState == {"none", "held", "sold", "gone"}
Standing == {b \in Booking : claim[b] \in {"held", "sold"}}
Claimed(k) == RoomsOf(rooms, Standing, k)

TypeOK ==
    /\ stock \in [Key -> Nat]
    /\ claim \in [Booking -> ClaimState]
    /\ rooms \in [Booking -> [Key -> 0..MaxRooms]]

Init ==
    /\ stock \in [Key -> Nat]
    /\ claim = [b \in Booking |-> "none"]
    /\ rooms = [b \in Booking |-> [k \in Key |-> 0]]

\* The step leaves no row with more rooms claimed than it has.
Fits == \A k \in Key : Claimed(k)' <= stock'[k]

\* A booking claims rooms; held claims (the expired ones) may go first.
Take(b, need, gone) ==
    /\ claim[b] = "none"
    /\ \A g \in gone : claim[g] = "held"
    /\ claim' = [x \in Booking |-> IF x = b THEN "held"
                                   ELSE IF x \in gone THEN "gone" ELSE claim[x]]
    /\ rooms' = [rooms EXCEPT ![b] = need]
    /\ UNCHANGED stock
    /\ Fits

\* A claim moves on: held is sold or dropped, sold is given back.
Settle(b, state) ==
    /\ \/ claim[b] = "held" /\ state \in {"sold", "gone"}
       \/ claim[b] = "sold" /\ state = "gone"
    /\ claim' = [claim EXCEPT ![b] = state]
    /\ UNCHANGED <<stock, rooms>>

\* The stock is set anew, never below what is claimed.
Restock ==
    /\ stock' \in [Key -> Nat]
    /\ UNCHANGED <<claim, rooms>>
    /\ Fits

Next ==
    \/ \E b \in Booking, need \in [Key -> 0..MaxRooms], gone \in SUBSET Booking :
          Take(b, need, gone)
    \/ \E b \in Booking, state \in {"sold", "gone"} : Settle(b, state)
    \/ Restock

Spec == Init /\ [][Next]_vars

\* No row has more rooms claimed than it has: the hotel is never overbooked.
NeverOverbooked == \A k \in Key : Claimed(k) <= stock[k]
=============================================================================
