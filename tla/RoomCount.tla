------------------------------ MODULE RoomCount ------------------------------
(***************************************************************************)
(* Totals of rooms.  The counters of an InventoryDay row (held, sold,      *)
(* groupBlocked) are meant to be sums over the records that own the rooms; *)
(* RoomsOf states such a sum as a cardinality, which needs no recursion:   *)
(* each room of an owner x on row k is a pair <<x, n>>.                    *)
(***************************************************************************)
EXTENDS Integers, FiniteSets

CONSTANT MaxRooms   \* the most rooms one owner has on one row

ASSUME MaxRoomsAssumption == MaxRooms \in Nat

\* The rooms the owners S have on row k, when owner x has r[x][k] there.
RoomsOf(r, S, k) == Cardinality({u \in S \X (1..MaxRooms) : u[2] <= r[u[1]][k]})

Lesser(a, b) == IF a < b THEN a ELSE b
=============================================================================
