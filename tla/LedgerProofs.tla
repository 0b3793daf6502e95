---------------------------- MODULE LedgerProofs ----------------------------
(***************************************************************************)
(* Theorems about the rooms that are sold, held and blocked: Inventory and *)
(* GroupBlocks, for every hotel, hold, allotment, group, block and rooming *)
(* list.  For the rows and the blocks, clients leave the idempotency key   *)
(* of a cancellation to the service (ClientKey is empty); with keys of     *)
(* their own `sold` is already wrong without any group.                    *)
(***************************************************************************)
EXTENDS GroupBlocks, FiniteSetTheorems, TLAPS

-----------------------------------------------------------------------------
(***************************************************************************)
(* How a total of rooms (RoomsOf) behaves when an owner joins, leaves or   *)
(* keeps its rooms.  These lemmas stand in for an induction on the owners: *)
(* every total is a cardinality, so it is split and joined as a set.       *)
(***************************************************************************)

\* The set that RoomsOf counts.
RoomSet(r, S, k) == {u \in S \X (1..MaxRooms) : u[2] <= r[u[1]][k]}

\* A total over finitely many owners is a natural number.
LEMMA RoomsOfType ==
    ASSUME NEW r, NEW S, NEW k, IsFiniteSet(S)
    PROVE  IsFiniteSet(RoomSet(r, S, k)) /\ RoomsOf(r, S, k) \in Nat
<1>1. IsFiniteSet(1..MaxRooms)
  BY FS_Interval, MaxRoomsAssumption
<1>2. IsFiniteSet(S \X (1..MaxRooms))
  BY <1>1, FS_Product
<1>3. RoomSet(r, S, k) \in SUBSET (S \X (1..MaxRooms))
  BY DEF RoomSet
<1>4. IsFiniteSet(RoomSet(r, S, k))
  BY <1>2, <1>3, FS_Subset
<1> QED
  BY <1>4, FS_CardinalityType DEF RoomSet, RoomsOf

\* No owners, no rooms.
LEMMA RoomsOfNobody ==
    ASSUME NEW r, NEW k
    PROVE  RoomsOf(r, {}, k) = 0
<1>1. RoomSet(r, {}, k) = {}
  BY DEF RoomSet
<1> QED
  BY <1>1, FS_EmptySet DEF RoomSet, RoomsOf

\* One owner's total is the rooms it has.
LEMMA RoomsOfOne ==
    ASSUME NEW r, NEW k, NEW x, r[x][k] \in 0..MaxRooms
    PROVE  RoomsOf(r, {x}, k) = r[x][k]
<1>1. PICK n \in Nat : n = r[x][k] /\ n <= MaxRooms
  BY MaxRoomsAssumption
<1>2. RoomSet(r, {x}, k) = {x} \X (1..n)
  <2>1. ASSUME NEW u, u \in RoomSet(r, {x}, k)
        PROVE  u \in {x} \X (1..n)
    BY <2>1, <1>1, MaxRoomsAssumption DEF RoomSet
  <2>2. ASSUME NEW u, u \in {x} \X (1..n)
        PROVE  u \in RoomSet(r, {x}, k)
    BY <2>2, <1>1, MaxRoomsAssumption DEF RoomSet
  <2> QED
    BY <2>1, <2>2
<1>3. IsFiniteSet({x}) /\ Cardinality({x}) = 1
  BY FS_Singleton
<1>4. IsFiniteSet(1..n) /\ Cardinality(1..n) = n
  BY FS_Interval
<1>5. Cardinality({x} \X (1..n)) = Cardinality({x}) * Cardinality(1..n)
  BY <1>3, <1>4, FS_Product, Zenon
<1>7. Cardinality({x} \X (1..n)) = 1 * n
  BY <1>3, <1>4, <1>5, Zenon
<1>8. 1 * n = n
  OBVIOUS
<1>6. RoomsOf(r, {x}, k) = Cardinality(RoomSet(r, {x}, k))
  BY DEF RoomSet, RoomsOf
<1> QED
  BY <1>1, <1>2, <1>6, <1>7, <1>8, Zenon

\* The total of two groups of owners without a common member is the sum.
LEMMA RoomsOfUnion ==
    ASSUME NEW r, NEW k, NEW S, NEW T, IsFiniteSet(S), IsFiniteSet(T), S \cap T = {}
    PROVE  RoomsOf(r, S \cup T, k) = RoomsOf(r, S, k) + RoomsOf(r, T, k)
<1>1. IsFiniteSet(RoomSet(r, S, k)) /\ IsFiniteSet(RoomSet(r, T, k))
  BY RoomsOfType
<1>2. RoomSet(r, S \cup T, k) = RoomSet(r, S, k) \cup RoomSet(r, T, k)
  BY DEF RoomSet
<1>3. RoomSet(r, S, k) \cap RoomSet(r, T, k) = {}
  BY DEF RoomSet
<1>4. Cardinality(RoomSet(r, S, k) \cup RoomSet(r, T, k))
        = Cardinality(RoomSet(r, S, k)) + Cardinality(RoomSet(r, T, k))
          - Cardinality(RoomSet(r, S, k) \cap RoomSet(r, T, k))
  BY <1>1, FS_Union
<1>5. RoomsOf(r, S, k) \in Nat /\ RoomsOf(r, T, k) \in Nat
  BY RoomsOfType
<1>6. /\ RoomsOf(r, S \cup T, k) = Cardinality(RoomSet(r, S \cup T, k))
      /\ RoomsOf(r, S, k) = Cardinality(RoomSet(r, S, k))
      /\ RoomsOf(r, T, k) = Cardinality(RoomSet(r, T, k))
  BY DEF RoomSet, RoomsOf
<1>7. RoomsOf(r, S \cup T, k) = RoomsOf(r, S, k) + RoomsOf(r, T, k) - 0
  BY <1>2, <1>3, <1>4, <1>6, FS_EmptySet
<1> QED
  BY <1>5, <1>7

\* Fewer owners have no more rooms.
LEMMA RoomsOfSubset ==
    ASSUME NEW r, NEW k, NEW S, NEW T, IsFiniteSet(S), T \subseteq S
    PROVE  IsFiniteSet(T) /\ RoomsOf(r, T, k) <= RoomsOf(r, S, k)
<1>1. IsFiniteSet(RoomSet(r, S, k))
  BY RoomsOfType
<1>2. RoomSet(r, T, k) \in SUBSET RoomSet(r, S, k)
  BY DEF RoomSet
<1> QED
  BY <1>1, <1>2, FS_Subset DEF RoomSet, RoomsOf

\* Only the rooms of the owners counted, on the row counted, matter.
LEMMA RoomsOfFrame ==
    ASSUME NEW r, NEW q, NEW k, NEW S, \A x \in S : r[x][k] = q[x][k]
    PROVE  RoomsOf(r, S, k) = RoomsOf(q, S, k)
<1>1. RoomSet(r, S, k) = RoomSet(q, S, k)
  BY DEF RoomSet
<1> QED
  BY <1>1 DEF RoomSet, RoomsOf

\* An owner that joins adds its rooms.
LEMMA RoomsOfJoin ==
    ASSUME NEW r, NEW k, NEW S, NEW x, IsFiniteSet(S), x \notin S,
           r[x][k] \in 0..MaxRooms
    PROVE  RoomsOf(r, S \cup {x}, k) = RoomsOf(r, S, k) + r[x][k]
<1>1. IsFiniteSet({x}) /\ S \cap {x} = {}
  BY FS_Singleton
<1>2. RoomsOf(r, S \cup {x}, k) = RoomsOf(r, S, k) + RoomsOf(r, {x}, k)
  BY <1>1, RoomsOfUnion, Zenon
<1> QED
  BY <1>2, RoomsOfOne, Zenon

\* An owner that leaves takes its rooms, and had no more than the total.
LEMMA RoomsOfLeave ==
    ASSUME NEW r, NEW k, NEW S, NEW x, IsFiniteSet(S), x \in S,
           r[x][k] \in 0..MaxRooms
    PROVE  /\ RoomsOf(r, S \ {x}, k) = RoomsOf(r, S, k) - r[x][k]
           /\ r[x][k] <= RoomsOf(r, S, k)
<1>1. IsFiniteSet(S \ {x})
  BY FS_RemoveElement
<1>2. RoomsOf(r, (S \ {x}) \cup {x}, k) = RoomsOf(r, S \ {x}, k) + r[x][k]
  BY <1>1, RoomsOfJoin
<1>3. (S \ {x}) \cup {x} = S
  OBVIOUS
<1>4. RoomsOf(r, S \ {x}, k) \in Nat /\ RoomsOf(r, S, k) \in Nat
  BY <1>1, RoomsOfType
<1> QED
  BY <1>2, <1>3, <1>4

\* Owners without a room on the row add nothing.
LEMMA RoomsOfEmptied ==
    ASSUME NEW r, NEW k, NEW S, \A x \in S : r[x][k] = 0
    PROVE  RoomsOf(r, S, k) = 0
<1>1. RoomSet(r, S, k) = {}
  BY DEF RoomSet
<1> QED
  BY <1>1, FS_EmptySet DEF RoomSet, RoomsOf

\* An owner whose rooms change moves the total by as much.
LEMMA RoomsOfChange ==
    ASSUME NEW r, NEW q, NEW k, NEW S, NEW x, IsFiniteSet(S), x \in S,
           r[x][k] \in 0..MaxRooms, q[x][k] \in 0..MaxRooms,
           \A y \in S \ {x} : r[y][k] = q[y][k]
    PROVE  RoomsOf(q, S, k) = RoomsOf(r, S, k) - r[x][k] + q[x][k]
<1> DEFINE L == S \ {x}
<1>1. IsFiniteSet(L) /\ x \notin L
  BY FS_RemoveElement
<1>6. S = L \cup {x}
  OBVIOUS
<1> HIDE DEF L
<1>2. RoomsOf(r, L \cup {x}, k) = RoomsOf(r, L, k) + r[x][k]
  BY <1>1, RoomsOfJoin
<1>3. RoomsOf(q, L \cup {x}, k) = RoomsOf(q, L, k) + q[x][k]
  BY <1>1, RoomsOfJoin
<1>4. RoomsOf(r, L, k) = RoomsOf(q, L, k)
  <2>1. \A y \in L : r[y][k] = q[y][k]
    BY DEF L
  <2> QED
    BY <2>1, RoomsOfFrame
<1>5. RoomsOf(r, L, k) \in Nat
  BY <1>1, RoomsOfType, Zenon
<1> QED
  BY <1>2, <1>3, <1>4, <1>5, <1>6, MaxRoomsAssumption

-----------------------------------------------------------------------------
(***************************************************************************)
(* Inventory: reservations, holds and allotments.                          *)
(***************************************************************************)

\* Any set of bookings is finite.
LEMMA FiniteBookings ==
    ASSUME NEW S, S \subseteq Booking
    PROVE  IsFiniteSet(S)
BY InventoryAssumption, FS_Subset

\* What a set of holds gives back is a number of rooms.
LEMMA GivenBackType ==
    ASSUME NEW S, S \subseteq Hold, NEW k
    PROVE  GivenBack(S, k) \in Nat
<1>1. IsFiniteSet(S)
  BY FiniteBookings DEF Booking
<1> QED
  BY <1>1, RoomsOfType DEF GivenBack

\* Clearing holds lowers held and touches nothing else of the row.
LEMMA ClearedRow ==
    ASSUME TypeOK, NEW S, S \subseteq Hold, NEW k \in Key
    PROVE  Cleared(S)[k] = [available    |-> inv[k].available,
                            held         |-> inv[k].held - GivenBack(S, k),
                            sold         |-> inv[k].sold,
                            groupBlocked |-> inv[k].groupBlocked,
                            stopSell     |-> inv[k].stopSell]
<1>1. inv[k] \in Row
  BY DEF TypeOK
<1> QED
  BY <1>1 DEF Cleared, Row

\* The program starts well typed.
LEMMA InitType == Init => TypeOK
<1> SUFFICES ASSUME Init PROVE TypeOK
  OBVIOUS
<1>1. ASSUME NEW k \in Key
      PROVE  inv[k] \in Row /\ RowValid(inv[k])
  <2>1. inv[k] \in [available : 0..MaxAvailable, held : {0}, sold : {0},
                    groupBlocked : {0}, stopSell : {FALSE}]
    BY DEF Init
  <2>2. PICK n \in 0..MaxAvailable :
           inv[k] = [available |-> n, held |-> 0, sold |-> 0,
                     groupBlocked |-> 0, stopSell |-> FALSE]
    BY <2>1
  <2>3. n \in Nat /\ n >= 0
    BY InventoryAssumption
  <2> QED
    BY <2>2, <2>3 DEF Row, RowValid
<1>2. nights \in [Booking -> [Key -> 0..MaxRooms]]
  BY MaxRoomsAssumption DEF Init, NoRooms
<1>3. inv \in [Key -> Row]
  BY <1>1 DEF Init
<1> QED
  BY <1>1, <1>2, <1>3 DEF Init, TypeOK, HoldStatus, ReservationStatus, Booking

\* One step keeps every variable in its type: the guards on the rows (and
\* the table's CHECK) are what keeps the counters from going negative.
LEMMA NextType == TypeOK /\ [InvNext]_invVars => TypeOK'
<1> SUFFICES ASSUME TypeOK, [InvNext]_invVars PROVE TypeOK'
  OBVIOUS
<1> USE DEF HoldStatus, ReservationStatus, Booking
<1>1. ASSUME NEW h \in Hold, NEW need \in Needs, CreateHold(h, need)
      PROVE  TypeOK'
  <2> DEFINE stale == StaleHolds(RowsOf(need))
  <2>1. stale \subseteq Hold
    BY DEF StaleHolds, ActiveHolds
  <2>2. need \in [Key -> 0..MaxRooms]
    BY DEF Needs
  <2>3. ASSUME NEW k \in Key
        PROVE  inv'[k] \in Row /\ RowValid(inv'[k])
    <3>1. inv[k] \in Row /\ GivenBack(stale, k) \in Nat /\ need[k] \in Nat
      BY <2>1, <2>2, GivenBackType, MaxRoomsAssumption DEF TypeOK
    <3>2. RowValid(inv'[k])
      BY <1>1 DEF CreateHold
    <3>3. inv'[k] = [Cleared(stale)[k] EXCEPT !.held = @ + need[k]]
      BY <1>1 DEF CreateHold
    <3> HIDE DEF stale
    <3>6. Cleared(stale)[k] = [available |-> inv[k].available,
                     held |-> inv[k].held - GivenBack(stale, k),
                     sold |-> inv[k].sold,
                     groupBlocked |-> inv[k].groupBlocked,
                     stopSell |-> inv[k].stopSell]
      BY <2>1, ClearedRow
    <3>4. inv'[k] = [available |-> inv[k].available,
                     held |-> inv[k].held - GivenBack(stale, k) + need[k],
                     sold |-> inv[k].sold,
                     groupBlocked |-> inv[k].groupBlocked,
                     stopSell |-> inv[k].stopSell]
      BY <3>3, <3>6
    <3>5. inv'[k] \in Row
      BY <3>1, <3>2, <3>4 DEF Row, RowValid
    <3> QED
      BY <3>2, <3>5
  <2>4. inv' \in [Key -> Row]
    BY <1>1, <2>3 DEF CreateHold
  <2>5. holdStatus' \in [Hold -> HoldStatus]
    BY <1>1 DEF CreateHold, TypeOK
  <2>6. nights' \in [Booking -> [Key -> 0..MaxRooms]]
    BY <1>1, <2>2 DEF CreateHold, TypeOK
  <2> QED
    BY <1>1, <2>3, <2>4, <2>5, <2>6 DEF CreateHold, TypeOK
<1>2. ASSUME NEW h \in Hold, Lapse(h)
      PROVE  TypeOK'
  BY <1>2 DEF Lapse, TypeOK
<1>3. ASSUME NEW h \in Hold, ReleaseExpired(h)
      PROVE  TypeOK'
  <2>1. ASSUME NEW k \in Key
        PROVE  inv'[k] \in Row /\ RowValid(inv'[k])
    <3>1. inv[k] \in Row /\ GivenBack({h}, k) \in Nat
      BY GivenBackType DEF TypeOK
    <3>2. RowValid(inv'[k]) /\ inv'[k] = Cleared({h})[k]
      BY <1>3 DEF ReleaseExpired
    <3>3. inv'[k] = [available |-> inv[k].available,
                     held |-> inv[k].held - GivenBack({h}, k),
                     sold |-> inv[k].sold,
                     groupBlocked |-> inv[k].groupBlocked,
                     stopSell |-> inv[k].stopSell]
      BY <3>2, ClearedRow
    <3>4. inv'[k] \in Row
      BY <3>1, <3>2, <3>3 DEF Row, RowValid
    <3> QED
      BY <3>2, <3>4
  <2>2. inv' \in [Key -> Row]
    BY <1>3, <2>1 DEF ReleaseExpired, Cleared
  <2>3. holdStatus' \in [Hold -> HoldStatus]
    BY <1>3 DEF ReleaseExpired, TypeOK
  <2> QED
    BY <1>3, <2>1, <2>2, <2>3 DEF ReleaseExpired, TypeOK
<1>4. ASSUME NEW h \in Hold, NEW debit \in BOOLEAN, ConvertHold(h, debit)
      PROVE  TypeOK'
  <2>1. ASSUME NEW k \in Key
        PROVE  inv'[k] \in Row /\ RowValid(inv'[k])
    <3>1. inv[k] \in Row /\ nights[h][k] \in Nat
      BY MaxRoomsAssumption DEF TypeOK
    <3>2. RowValid(inv'[k])
      BY <1>4 DEF ConvertHold
    <3>3. inv'[k] = [inv[k] EXCEPT !.held = @ - nights[h][k], !.sold = @ + nights[h][k]]
      BY <1>4 DEF ConvertHold
    <3>4. /\ inv'[k].held = inv[k].held - nights[h][k]
          /\ inv'[k].sold = inv[k].sold + nights[h][k]
          /\ inv'[k].available = inv[k].available
          /\ inv'[k].groupBlocked = inv[k].groupBlocked
          /\ inv'[k].stopSell = inv[k].stopSell
      BY <3>1, <3>3 DEF Row
    <3>5. inv'[k].held \in Nat /\ inv'[k].sold \in Nat
      BY <3>1, <3>2, <3>4 DEF Row, RowValid
    <3>6. inv'[k] \in Row
      BY <3>1, <3>3, <3>4, <3>5 DEF Row
    <3> QED
      BY <3>2, <3>6
  <2>2. inv' \in [Key -> Row]
    BY <1>4, <2>1 DEF ConvertHold
  <2>3. holdStatus' \in [Hold -> HoldStatus] /\ res' \in [Booking -> ReservationStatus]
    BY <1>4 DEF ConvertHold, TypeOK
  <2> QED
    BY <1>4, <2>1, <2>2, <2>3 DEF ConvertHold, TypeOK
<1>5. ASSUME NEW b \in Booking, ConfirmPaid(b) \/ Modify(b) \/ MarkNoShow(b)
      PROVE  TypeOK'
  BY <1>5 DEF ConfirmPaid, Modify, MarkNoShow, TypeOK
<1>6. ASSUME NEW b \in Booking, NEW key \in ClientKey \cup {b}, Cancel(b, key)
      PROVE  TypeOK'
  <2>1. ASSUME NEW k \in Key
        PROVE  inv'[k] \in Row /\ RowValid(inv'[k])
    <3>1. inv[k] \in Row /\ nights[b][k] \in Nat
      BY MaxRoomsAssumption DEF TypeOK
    <3>2. RowValid(inv'[k])
      BY <1>6 DEF Cancel
    <3>3. inv'[k] = [inv[k] EXCEPT !.sold = @ - nights[b][k]]
      BY <1>6 DEF Cancel
    <3>4. inv'[k] \in Row
      BY <3>1, <3>2, <3>3 DEF Row, RowValid
    <3> QED
      BY <3>2, <3>4
  <2>2. inv' \in [Key -> Row]
    BY <1>6, <2>1 DEF Cancel
  <2>3. res' \in [Booking -> ReservationStatus] /\ usedKeys' \subseteq ClientKey \cup Booking
    BY <1>6 DEF Cancel, TypeOK
  <2> QED
    BY <1>6, <2>1, <2>2, <2>3 DEF Cancel, TypeOK
<1>7. ASSUME NEW batch \in Batches, ApplyBatch(batch)
      PROVE  TypeOK'
  <2>1. PICK ks \in SUBSET Key : batch \in [ks -> [available : 0..MaxAvailable, stopSell : BOOLEAN]]
    BY DEF Batches
  <2>2. ASSUME NEW k \in Key
        PROVE  inv'[k] \in Row
    <3>1. CASE k \in DOMAIN batch
      <4>1. /\ batch[k].available \in Nat /\ batch[k].stopSell \in BOOLEAN
            /\ inv[k] \in Row
        BY <2>1, <3>1, InventoryAssumption DEF TypeOK
      <4>2. inv'[k] = [inv[k] EXCEPT !.available = batch[k].available,
                                     !.stopSell = batch[k].stopSell]
        BY <1>7, <3>1 DEF ApplyBatch
      <4> QED
        BY <4>1, <4>2 DEF Row
    <3>2. CASE k \notin DOMAIN batch
      BY <1>7, <3>2 DEF ApplyBatch, TypeOK
    <3> QED
      BY <3>1, <3>2
  <2> QED
    BY <1>7, <2>2 DEF ApplyBatch, TypeOK
<1>8. CASE UNCHANGED invVars
  BY <1>8 DEF invVars, TypeOK
<1>9. ASSUME NEW batch \in Batches, SaveInventory(batch) \/ AxisInbound(batch)
      PROVE  TypeOK'
  BY <1>7, <1>9 DEF SaveInventory, AxisInbound
<1> QED
  BY <1>1, <1>2, <1>3, <1>4, <1>5, <1>6, <1>8, <1>9 DEF InvNext, RoomsNext

\* Every variable has its type in every reachable state, and no row ever
\* fails the table's CHECK.
THEOREM TypeCorrect == Spec => []TypeOK
<1> QED
  BY InitType, NextType, PTL DEF Spec

-----------------------------------------------------------------------------
(***************************************************************************)
(* held is the total of the active holds.                                  *)
(***************************************************************************)

\* A booking has a number of rooms on each row.
LEMMA NightsType ==
    ASSUME TypeOK, NEW b \in Booking, NEW k \in Key
    PROVE  nights[b][k] \in 0..MaxRooms
BY DEF TypeOK

\* An active hold has no more rooms on a row than the row has held.
LEMMA HeldCovers ==
    ASSUME TypeOK, HeldAccounting, NEW h \in ActiveHolds, NEW k \in Key
    PROVE  nights[h][k] <= inv[k].held
<1>1. IsFiniteSet(ActiveHolds) /\ h \in Booking
  BY FiniteBookings DEF ActiveHolds, Booking
<1>2. nights[h][k] \in 0..MaxRooms
  BY <1>1, NightsType
<1>3. nights[h][k] <= RoomsOf(nights, ActiveHolds, k)
  BY <1>1, <1>2, RoomsOfLeave
<1> QED
  BY <1>3 DEF HeldAccounting

\* So the min(night.rooms, row.held) of a release is always night.rooms.
LEMMA GivenBackExact ==
    ASSUME TypeOK, HeldAccounting, NEW S, S \subseteq ActiveHolds, NEW k \in Key
    PROVE  GivenBack(S, k) = RoomsOf(nights, S, k)
<1> DEFINE q == [g \in Hold |-> [j \in Key |-> Lesser(nights[g][j], inv[j].held)]]
<1>1. ASSUME NEW g \in S
      PROVE  q[g][k] = nights[g][k]
  <2>1. g \in ActiveHolds /\ g \in Hold
    BY DEF ActiveHolds
  <2>2. nights[g][k] <= inv[k].held
    BY <2>1, HeldCovers
  <2>3. nights[g][k] \in Int /\ inv[k].held \in Int
    BY <2>1, MaxRoomsAssumption DEF TypeOK, Row, Booking
  <2>4. q[g][k] = Lesser(nights[g][k], inv[k].held)
    BY <2>1
  <2> QED
    BY <2>2, <2>3, <2>4 DEF Lesser
<1> HIDE DEF q
<1>2. RoomsOf(q, S, k) = RoomsOf(nights, S, k)
  BY <1>1, RoomsOfFrame
<1> QED
  BY <1>2 DEF GivenBack, q

\* Once holds are cleared, held is the total of the active holds left.
LEMMA ClearedHeld ==
    ASSUME TypeOK, HeldAccounting, NEW S, S \subseteq ActiveHolds, NEW k \in Key
    PROVE  Cleared(S)[k].held = RoomsOf(nights, ActiveHolds \ S, k)
<1> DEFINE L == ActiveHolds \ S
<1>1. S \subseteq Hold /\ S \subseteq Booking /\ L \subseteq Booking
  BY DEF ActiveHolds, Booking
<1>2. IsFiniteSet(S) /\ IsFiniteSet(L)
  BY <1>1, FiniteBookings
<1>3. S \cap L = {} /\ S \cup L = ActiveHolds
  OBVIOUS
<1> HIDE DEF L
<1>4. RoomsOf(nights, ActiveHolds, k) = RoomsOf(nights, S, k) + RoomsOf(nights, L, k)
  BY <1>2, <1>3, RoomsOfUnion, Zenon
<1>5. Cleared(S)[k].held = inv[k].held - GivenBack(S, k)
  <2>1. inv[k] \in Row
    BY DEF TypeOK
  <2> QED
    BY <2>1 DEF Cleared, Row
<1>6. Cleared(S)[k].held = RoomsOf(nights, ActiveHolds, k) - RoomsOf(nights, S, k)
  BY <1>5, GivenBackExact DEF HeldAccounting
<1>7. RoomsOf(nights, S, k) \in Nat /\ RoomsOf(nights, L, k) \in Nat
  BY <1>2, RoomsOfType
<1>8. Cleared(S)[k].held = RoomsOf(nights, L, k)
  BY <1>4, <1>6, <1>7
<1> QED
  BY <1>8 DEF L

\* No room is held at the start.
LEMMA HeldInit == Init => HeldAccounting
<1> SUFFICES ASSUME Init, NEW k \in Key PROVE inv[k].held = RoomsOf(nights, ActiveHolds, k)
  BY DEF HeldAccounting
<1>1. ActiveHolds = {}
  BY DEF Init, ActiveHolds
<1>2. inv[k].held = 0
  BY DEF Init
<1> QED
  BY <1>1, <1>2, RoomsOfNobody

\* Only the three operations on a hold change held, the set of active holds
\* or the rooms of an active hold; each changes all three alike.
LEMMA HeldNext == TypeOK /\ HeldAccounting /\ [InvNext]_invVars => HeldAccounting'
<1> SUFFICES ASSUME TypeOK, HeldAccounting, [InvNext]_invVars, NEW k \in Key
             PROVE  inv'[k].held = RoomsOf(nights', ActiveHolds', k)
  BY DEF HeldAccounting
<1>k. inv[k] \in Row /\ inv \in [Key -> Row]
  BY DEF TypeOK
<1>1. ASSUME NEW h \in Hold, NEW need \in Needs, CreateHold(h, need)
      PROVE  inv'[k].held = RoomsOf(nights', ActiveHolds', k)
  <2> DEFINE stale == StaleHolds(RowsOf(need))
             L     == ActiveHolds \ stale
  <2>1. stale \subseteq ActiveHolds /\ stale \subseteq Hold
    BY DEF StaleHolds, ActiveHolds
  <2>2. need[k] \in 0..MaxRooms /\ nights'[h] = need
    BY <1>1 DEF CreateHold, Needs, TypeOK, Booking
  <2>3. h \notin ActiveHolds
    BY <1>1 DEF CreateHold, ActiveHolds
  <2>4. ActiveHolds' = L \cup {h}
    BY <1>1, <2>1 DEF CreateHold, ActiveHolds
  <2>5. inv'[k] = [Cleared(stale)[k] EXCEPT !.held = @ + need[k]]
    BY <1>1 DEF CreateHold
  <2>6. \A g \in L : nights'[g][k] = nights[g][k]
    BY <1>1, <2>3 DEF CreateHold, TypeOK, ActiveHolds
  <2>7. L \subseteq Booking /\ h \notin L
    BY <2>3 DEF ActiveHolds, Booking
  <2> HIDE DEF stale
  <2>8. Cleared(stale)[k].held = RoomsOf(nights, L, k)
    BY <2>1, ClearedHeld
  <2> HIDE DEF L
  <2>9. inv'[k].held = RoomsOf(nights, L, k) + need[k]
    <3>1. Cleared(stale)[k] = [available    |-> inv[k].available,
                               held         |-> inv[k].held - GivenBack(stale, k),
                               sold         |-> inv[k].sold,
                               groupBlocked |-> inv[k].groupBlocked,
                               stopSell     |-> inv[k].stopSell]
      BY <2>1, ClearedRow
    <3> QED
      BY <2>5, <2>8, <3>1
  <2>10. RoomsOf(nights', L, k) = RoomsOf(nights, L, k)
    BY <2>6, RoomsOfFrame
  <2>11. RoomsOf(nights', L \cup {h}, k) = RoomsOf(nights', L, k) + nights'[h][k]
    <3>1. nights'[h][k] \in 0..MaxRooms /\ IsFiniteSet(L)
      BY <2>2, <2>7, FiniteBookings
    <3> QED
      BY <2>7, <3>1, RoomsOfJoin
  <2> QED
    BY <2>2, <2>4, <2>9, <2>10, <2>11
<1>2. ASSUME NEW h \in Hold, ReleaseExpired(h)
      PROVE  inv'[k].held = RoomsOf(nights', ActiveHolds', k)
  <2>1. {h} \subseteq ActiveHolds /\ nights' = nights
    BY <1>2 DEF ReleaseExpired, ActiveHolds
  <2>2. ActiveHolds' = ActiveHolds \ {h}
    BY <1>2 DEF ReleaseExpired, ActiveHolds, TypeOK
  <2>3. inv'[k] = Cleared({h})[k]
    BY <1>2 DEF ReleaseExpired
  <2> QED
    BY <2>1, <2>2, <2>3, ClearedHeld
<1>3. ASSUME NEW h \in Hold, NEW debit \in BOOLEAN, ConvertHold(h, debit)
      PROVE  inv'[k].held = RoomsOf(nights', ActiveHolds', k)
  <2>1. h \in ActiveHolds /\ nights' = nights /\ h \in Booking
    BY <1>3 DEF ConvertHold, ActiveHolds, Booking
  <2>2. ActiveHolds' = ActiveHolds \ {h}
    BY <1>3 DEF ConvertHold, ActiveHolds, TypeOK
  <2>3. inv'[k].held = inv[k].held - nights[h][k]
    BY <1>3, <1>k DEF ConvertHold, Row
  <2>4. nights[h][k] \in 0..MaxRooms /\ IsFiniteSet(ActiveHolds)
    BY <2>1, NightsType, FiniteBookings DEF ActiveHolds, Booking
  <2>5. RoomsOf(nights, ActiveHolds \ {h}, k) = RoomsOf(nights, ActiveHolds, k) - nights[h][k]
    BY <2>1, <2>4, RoomsOfLeave
  <2> QED
    BY <2>1, <2>2, <2>3, <2>5 DEF HeldAccounting
<1>4. ASSUME nights' = nights, holdStatus' = holdStatus, inv'[k].held = inv[k].held
      PROVE  inv'[k].held = RoomsOf(nights', ActiveHolds', k)
  <2>1. ActiveHolds' = ActiveHolds
    BY <1>4 DEF ActiveHolds
  <2> QED
    BY <1>4, <2>1 DEF HeldAccounting
<1>5. CASE \E h \in Hold : Lapse(h)
  BY <1>4, <1>5 DEF Lapse
<1>6. CASE \E b \in Booking : ConfirmPaid(b) \/ Modify(b) \/ MarkNoShow(b)
  BY <1>4, <1>6 DEF ConfirmPaid, Modify, MarkNoShow
<1>7. CASE \E b \in Booking : \E key \in ClientKey \cup {b} : Cancel(b, key)
  <2>1. PICK b \in Booking : \E key \in ClientKey \cup {b} : Cancel(b, key)
    BY <1>7
  <2>2. inv'[k].held = inv[k].held /\ nights' = nights /\ holdStatus' = holdStatus
    BY <2>1, <1>k DEF Cancel, Row
  <2> QED
    BY <2>2, <1>4
<1>8. CASE \E batch \in Batches : SaveInventory(batch) \/ AxisInbound(batch)
  <2>1. PICK batch \in Batches : ApplyBatch(batch)
    BY <1>8 DEF SaveInventory, AxisInbound
  <2>2. inv'[k].held = inv[k].held /\ nights' = nights /\ holdStatus' = holdStatus
    BY <2>1, <1>k DEF ApplyBatch, Row
  <2> QED
    BY <2>2, <1>4
<1>9. CASE UNCHANGED invVars
  BY <1>4, <1>9 DEF invVars
<1> QED
  BY <1>1, <1>2, <1>3, <1>5, <1>6, <1>7, <1>8, <1>9 DEF InvNext, RoomsNext

\* In every reachable state held is exactly the rooms of the active holds,
\* with any number of holds, rows and rooms.
THEOREM HeldCorrect == Spec => []HeldAccounting
<1>1. Init => TypeOK /\ HeldAccounting
  BY InitType, HeldInit
<1>2. TypeOK /\ HeldAccounting /\ [InvNext]_invVars => (TypeOK /\ HeldAccounting)'
  BY NextType, HeldNext
<1> QED
  BY <1>1, <1>2, PTL DEF Spec

\* What the guards of ConvertHold ask of the rows, for a hold that is active:
\* its rooms are held on each of its nights and may become sold there.  It is
\* what HoldsAreHonoured says, with ENABLED spelt out.
HoldsConvertible ==
    \A h \in ActiveHolds, k \in Key :
        /\ inv[k].held >= nights[h][k]
        /\ RowValid([inv[k] EXCEPT !.held = @ - nights[h][k], !.sold = @ + nights[h][k]])

\* An active hold can always be converted, however the other holds on its rows
\* came and went and whatever was done to their allotment.
THEOREM HoldsCovered == Spec => []HoldsConvertible
<1>1. TypeOK /\ HeldAccounting => HoldsConvertible
  <2> SUFFICES ASSUME TypeOK, HeldAccounting, NEW h \in ActiveHolds, NEW k \in Key
               PROVE  /\ inv[k].held >= nights[h][k]
                      /\ RowValid([inv[k] EXCEPT !.held = @ - nights[h][k],
                                                 !.sold = @ + nights[h][k]])
    BY DEF HoldsConvertible
  <2>1. nights[h][k] <= inv[k].held
    BY HeldCovers
  <2>2. inv[k] \in Row /\ RowValid(inv[k])
    BY DEF TypeOK
  <2>3. nights[h][k] \in Nat
    BY MaxRoomsAssumption DEF TypeOK, Booking, ActiveHolds
  <2> QED
    BY <2>1, <2>2, <2>3 DEF Row, RowValid
<1> QED
  BY <1>1, TypeCorrect, HeldCorrect, PTL

-----------------------------------------------------------------------------
(***************************************************************************)
(* sold is the total of the reservations not cancelled, as long as clients *)
(* leave the idempotency key of a cancellation to the service.  With keys  *)
(* of their own it is false: the run InventoryDoubleCancel shows it.       *)
(***************************************************************************)

\* A reservation exists only if its hold was converted.
OneClaim == \A h \in Hold : res[h] # "NONE" => holdStatus[h] = "CONVERTED"

\* The default key of a reservation is used once it is cancelled, not before.
CancelOnce == \A b \in Booking : res[b] = "CANCELLED" <=> b \in usedKeys

SoldInv == SoldAccounting /\ OneClaim /\ CancelOnce

\* No room is sold at the start.
LEMMA SoldInit == Init => SoldInv
<1> SUFFICES ASSUME Init PROVE SoldInv
  OBVIOUS
<1>1. OneClaim /\ CancelOnce
  BY DEF Init, OneClaim, CancelOnce, Booking
<1>2. ASSUME NEW k \in Key
      PROVE  inv[k].sold = RoomsOf(nights, LiveReservations, k)
  <2>1. LiveReservations = {}
    BY DEF Init, LiveReservations
  <2>2. inv[k].sold = 0
    BY DEF Init
  <2> QED
    BY <2>1, <2>2, RoomsOfNobody
<1> QED
  BY <1>1, <1>2 DEF SoldInv, SoldAccounting

\* Conversion adds a reservation and its rooms, the first cancellation takes
\* both away, and a second one is stopped by the key the first one used.
LEMMA SoldNext ==
    ASSUME ClientKey = {}
    PROVE  TypeOK /\ SoldInv /\ [InvNext]_invVars => SoldInv'
<1> SUFFICES ASSUME TypeOK, SoldInv, [InvNext]_invVars PROVE SoldInv'
  OBVIOUS
<1> USE DEF SoldInv
<1>k. ASSUME NEW k \in Key
      PROVE  inv[k] \in Row /\ inv \in [Key -> Row]
  BY DEF TypeOK
\* The steps that leave sold, the reservations' rooms and their being live.
<1>0. ASSUME \A k \in Key : inv'[k].sold = inv[k].sold,
             \A b \in LiveReservations : nights'[b] = nights[b],
             LiveReservations' = LiveReservations
      PROVE  SoldAccounting'
  <2> SUFFICES ASSUME NEW k \in Key
               PROVE  inv'[k].sold = RoomsOf(nights', LiveReservations', k)
    BY DEF SoldAccounting
  <2>1. \A b \in LiveReservations : nights'[b][k] = nights[b][k]
    BY <1>0
  <2>2. RoomsOf(nights', LiveReservations, k) = RoomsOf(nights, LiveReservations, k)
    BY <2>1, RoomsOfFrame
  <2> QED
    BY <1>0, <2>2 DEF SoldAccounting
<1>1. ASSUME NEW h \in Hold, NEW need \in Needs, CreateHold(h, need)
      PROVE  SoldInv'
  <2>1. res' = res /\ usedKeys' = usedKeys /\ holdStatus[h] = "NONE"
    BY <1>1 DEF CreateHold
  <2>2. OneClaim'
    BY <1>1, <2>1 DEF CreateHold, OneClaim, StaleHolds, ActiveHolds
  <2>3. CancelOnce'
    BY <2>1 DEF CancelOnce
  <2>4. LiveReservations' = LiveReservations /\ h \notin LiveReservations
    BY <2>1 DEF LiveReservations, OneClaim
  <2>5. \A b \in LiveReservations : nights'[b] = nights[b]
    BY <1>1, <2>4 DEF CreateHold, TypeOK, LiveReservations
  <2>6. ASSUME NEW k \in Key
        PROVE  inv'[k].sold = inv[k].sold
    <3>1. inv'[k] = [Cleared(StaleHolds(RowsOf(need)))[k] EXCEPT !.held = @ + need[k]]
      BY <1>1 DEF CreateHold
    <3> QED
      BY <1>k, <3>1 DEF Cleared, Row
  <2> QED
    BY <1>0, <2>2, <2>3, <2>4, <2>5, <2>6
<1>2. ASSUME NEW h \in Hold, ReleaseExpired(h)
      PROVE  SoldInv'
  <2>1. OneClaim' /\ CancelOnce' /\ LiveReservations' = LiveReservations
    BY <1>2 DEF ReleaseExpired, OneClaim, CancelOnce, LiveReservations
  <2>2. \A k \in Key : inv'[k].sold = inv[k].sold
    BY <1>2, <1>k DEF ReleaseExpired, Cleared, Row
  <2> QED
    BY <1>0, <1>2, <2>1, <2>2 DEF ReleaseExpired
<1>3. ASSUME NEW h \in Hold, NEW debit \in BOOLEAN, ConvertHold(h, debit)
      PROVE  SoldInv'
  <2>1. /\ h \in Booking /\ h \notin LiveReservations /\ res[h] = "NONE"
        /\ nights' = nights
    BY <1>3 DEF ConvertHold, OneClaim, LiveReservations, Booking
  <2>2. LiveReservations' = LiveReservations \cup {h}
    BY <1>3, <2>1 DEF ConvertHold, LiveReservations, TypeOK
  <2>5. /\ holdStatus' = [holdStatus EXCEPT ![h] = "CONVERTED"]
        /\ res'[h] \in {"CONFIRMED", "PENDING_PAYMENT"}
        /\ \A b \in Booking \ {h} : res'[b] = res[b]
        /\ usedKeys' = usedKeys
    BY <1>3, <2>1 DEF ConvertHold, TypeOK
  <2>6. OneClaim'
    BY <2>5 DEF OneClaim, TypeOK, Booking
  <2>7. CancelOnce'
    BY <2>1, <2>5 DEF CancelOnce
  <2>4. ASSUME NEW k \in Key
        PROVE  inv'[k].sold = RoomsOf(nights', LiveReservations', k)
    <3>1. inv'[k].sold = inv[k].sold + nights[h][k]
      BY <1>3, <1>k DEF ConvertHold, Row
    <3>2. nights[h][k] \in 0..MaxRooms /\ IsFiniteSet(LiveReservations)
      BY <2>1, NightsType, FiniteBookings DEF LiveReservations
    <3>3. RoomsOf(nights, LiveReservations \cup {h}, k)
            = RoomsOf(nights, LiveReservations, k) + nights[h][k]
      BY <2>1, <3>2, RoomsOfJoin
    <3> QED
      BY <2>1, <2>2, <3>1, <3>3 DEF SoldAccounting
  <2> QED
    BY <2>4, <2>6, <2>7 DEF SoldAccounting
<1>4. ASSUME NEW b \in Booking, ConfirmPaid(b) \/ Modify(b) \/ MarkNoShow(b)
      PROVE  SoldInv'
  <2>1. /\ inv' = inv /\ nights' = nights /\ usedKeys' = usedKeys
        /\ holdStatus' = holdStatus
        /\ res[b] \notin {"NONE", "CANCELLED"} /\ res'[b] \notin {"NONE", "CANCELLED"}
        /\ \A c \in Booking \ {b} : res'[c] = res[c]
    BY <1>4 DEF ConfirmPaid, Modify, MarkNoShow, TypeOK
  <2>2. LiveReservations' = LiveReservations
    BY <2>1 DEF LiveReservations
  <2>3. OneClaim'
    BY <2>1 DEF OneClaim, Booking
  <2>4. CancelOnce'
    BY <2>1 DEF CancelOnce
  <2> QED
    BY <1>0, <2>1, <2>2, <2>3, <2>4
<1>5. ASSUME NEW b \in Booking, NEW key \in ClientKey \cup {b}, Cancel(b, key)
      PROVE  SoldInv'
  <2>1. key = b
    OBVIOUS
  <2>2. b \in LiveReservations /\ nights' = nights
    BY <1>5, <2>1 DEF Cancel, Cancellable, CancelOnce, LiveReservations
  <2>3. LiveReservations' = LiveReservations \ {b}
    BY <1>5 DEF Cancel, LiveReservations, TypeOK
  <2>6. /\ holdStatus' = holdStatus /\ usedKeys' = usedKeys \cup {b}
        /\ res' = [res EXCEPT ![b] = "CANCELLED"] /\ res[b] # "NONE"
    BY <1>5, <2>1, <2>2 DEF Cancel, LiveReservations
  <2>7. OneClaim'
    BY <2>6 DEF OneClaim, TypeOK, Booking
  <2>4. CancelOnce'
    BY <2>6 DEF CancelOnce, TypeOK
  <2>5. ASSUME NEW k \in Key
        PROVE  inv'[k].sold = RoomsOf(nights', LiveReservations', k)
    <3>1. inv'[k].sold = inv[k].sold - nights[b][k]
      BY <1>5, <1>k DEF Cancel, Row
    <3>2. nights[b][k] \in 0..MaxRooms /\ IsFiniteSet(LiveReservations)
      BY NightsType, FiniteBookings DEF LiveReservations
    <3>3. RoomsOf(nights, LiveReservations \ {b}, k)
            = RoomsOf(nights, LiveReservations, k) - nights[b][k]
      BY <2>2, <3>2, RoomsOfLeave
    <3> QED
      BY <2>2, <2>3, <3>1, <3>3 DEF SoldAccounting
  <2> QED
    BY <2>4, <2>5, <2>7 DEF SoldAccounting
<1>6. ASSUME \A k \in Key : inv'[k].sold = inv[k].sold, nights' = nights,
             res' = res, holdStatus' = holdStatus, usedKeys' = usedKeys
      PROVE  SoldInv'
  <2>1. LiveReservations' = LiveReservations /\ OneClaim' /\ CancelOnce'
    BY <1>6 DEF LiveReservations, OneClaim, CancelOnce
  <2> QED
    BY <1>0, <1>6, <2>1
<1>7. CASE \E h \in Hold : Lapse(h)
  BY <1>6, <1>7 DEF Lapse
<1>8. CASE \E batch \in Batches : SaveInventory(batch) \/ AxisInbound(batch)
  <2>1. PICK batch \in Batches : ApplyBatch(batch)
    BY <1>8 DEF SaveInventory, AxisInbound
  <2>2. \A k \in Key : inv'[k].sold = inv[k].sold
    BY <2>1, <1>k DEF ApplyBatch, Row
  <2> QED
    BY <1>6, <2>1, <2>2 DEF ApplyBatch
<1>9. CASE UNCHANGED invVars
  BY <1>6, <1>9 DEF invVars
<1> QED
  BY <1>1, <1>2, <1>3, <1>4, <1>5, <1>7, <1>8, <1>9 DEF InvNext, RoomsNext

\* Where clients send no idempotency keys, sold is exactly the rooms of the
\* reservations not cancelled: each cancellation restores its rooms once.
THEOREM SoldCorrect ==
    ASSUME ClientKey = {}
    PROVE  Spec => []SoldAccounting
<1>1. Init => TypeOK /\ SoldInv
  BY InitType, SoldInit
<1>2. TypeOK /\ SoldInv /\ [InvNext]_invVars => (TypeOK /\ SoldInv)'
  BY NextType, SoldNext
<1>3. TypeOK /\ SoldInv => SoldAccounting
  BY DEF SoldInv
<1> QED
  BY <1>1, <1>2, <1>3, PTL DEF Spec

-----------------------------------------------------------------------------
(***************************************************************************)
(* The refinement.                                                         *)
(* The ledger never overbooks, and the counters of Inventory implement it: *)
(* each operation on the rows is one step of the ledger or a stutter.      *)
(***************************************************************************)

\* The accounting facts the simulation rests on.
LedgerInv == TypeOK /\ HeldAccounting /\ SoldInv

\* These facts are inductive.
LEMMA LedgerInvHolds ==
    ASSUME ClientKey = {}
    PROVE  /\ Init => LedgerInv
           /\ LedgerInv /\ [InvNext]_invVars => LedgerInv'
BY InitType, HeldInit, SoldInit, NextType, HeldNext, SoldNext DEF LedgerInv

\* The ledger counts rooms as the counters do.
LEMMA SameCount == \A S : Ledger!Cardinality(S) = Cardinality(S)
BY DEF Ledger!Cardinality, Cardinality

\* The claims that stand are the active holds and the live reservations, no
\* booking is both, and their rooms fit the row.
LEMMA ClaimsFit ==
    LedgerInv => \A k \in Key : Ledger!Claimed(k) <= inv[k].available
<1> SUFFICES ASSUME LedgerInv, NEW k \in Key
             PROVE  Ledger!Claimed(k) <= inv[k].available
  OBVIOUS
<1>1. Ledger!Standing = ActiveHolds \cup LiveReservations
  BY DEF LedgerInv, Ledger!Standing, ClaimOf, ActiveHolds, LiveReservations, Booking
<1>2. ActiveHolds \cap LiveReservations = {}
  BY DEF LedgerInv, SoldInv, OneClaim, ActiveHolds, LiveReservations
<1>3. IsFiniteSet(ActiveHolds) /\ IsFiniteSet(LiveReservations)
  BY FiniteBookings DEF ActiveHolds, LiveReservations, Booking
<1>4. RoomsOf(nights, ActiveHolds \cup LiveReservations, k)
        = RoomsOf(nights, ActiveHolds, k) + RoomsOf(nights, LiveReservations, k)
  BY <1>2, <1>3, RoomsOfUnion
<1>5. RoomsOf(nights, ActiveHolds \cup LiveReservations, k) = inv[k].held + inv[k].sold
  BY <1>4 DEF LedgerInv, SoldInv, HeldAccounting, SoldAccounting
<1>6. inv[k].held + inv[k].sold <= inv[k].available
  BY DEF LedgerInv, TypeOK, RowValid
<1>7. Ledger!Claimed(k) = RoomsOf(nights, Ledger!Standing, k)
  BY SameCount DEF Ledger!Claimed, Ledger!RoomsOf, RoomsOf
<1> QED
  BY <1>1, <1>5, <1>6, <1>7

\* The counters start as an empty ledger.
LEMMA LedgerStart == Init => Ledger!Init
<1> SUFFICES ASSUME Init PROVE Ledger!Init
  OBVIOUS
<1>1. TypeOK
  BY InitType
<1>2. [k \in Key |-> inv[k].available] \in [Key -> Nat]
  BY <1>1 DEF TypeOK, Row
<1>3. \A b \in Booking : ClaimOf(b) = "none"
  BY DEF Init, ClaimOf, LiveReservations, ActiveHolds, Booking
<1>4. nights = [b \in Booking |-> [k \in Key |-> 0]]
  BY DEF Init, NoRooms
<1> QED
  BY <1>2, <1>3, <1>4 DEF Ledger!Init

\* A step of the rows is a step of the claims: creating a hold takes a claim
\* (and drops the expired ones it clears), a conversion, a release or a
\* cancellation settles one, an allotment restocks, and the rest stutters.
LEMMA LedgerStep ==
    LedgerInv /\ LedgerInv' /\ [InvNext]_invVars => [Ledger!Next]_Ledger!vars
<1> SUFFICES ASSUME LedgerInv, LedgerInv', [InvNext]_invVars
             PROVE  [Ledger!Next]_Ledger!vars
  OBVIOUS
<1> DEFINE stock == [k \in Key |-> inv[k].available]
           claim == [b \in Booking |-> ClaimOf(b)]
<1>f. Ledger!Fits
  <2>1. (\A k \in Key : Ledger!Claimed(k) <= inv[k].available)'
    BY ClaimsFit, PTL
  <2> QED
    BY <2>1 DEF Ledger!Fits
<1>k. \A k \in Key : inv[k] \in Row
  BY DEF LedgerInv, TypeOK
\* What settles one claim and leaves the stock is a Settle.
<1>s. ASSUME NEW b \in Booking, NEW state \in {"sold", "gone"},
             \/ ClaimOf(b) = "held"
             \/ ClaimOf(b) = "sold" /\ state = "gone",
             ClaimOf(b)' = state,
             \A c \in Booking \ {b} : ClaimOf(c)' = ClaimOf(c),
             stock' = stock, nights' = nights
      PROVE  Ledger!Next
  <2>1. claim' = [claim EXCEPT ![b] = state]
    BY <1>s
  <2>2. claim[b] = ClaimOf(b)
    OBVIOUS
  <2>3. Ledger!Settle(b, state)
    BY <1>s, <2>1, <2>2 DEF Ledger!Settle
  <2> QED
    BY <2>3 DEF Ledger!Next
\* What leaves the claims and the stock is a stutter.
<1>u. ASSUME \A c \in Booking : ClaimOf(c)' = ClaimOf(c), stock' = stock, nights' = nights
      PROVE  [Ledger!Next]_Ledger!vars
  BY <1>u DEF Ledger!vars
<1>1. ASSUME NEW h \in Hold, NEW need \in Needs, CreateHold(h, need)
      PROVE  Ledger!Next
  <2> DEFINE gone == StaleHolds(RowsOf(need))
  <2>1. /\ gone \subseteq ActiveHolds /\ gone \subseteq Booking /\ h \in Booking
        /\ h \notin gone /\ holdStatus[h] = "NONE" /\ res[h] = "NONE" /\ res' = res
    BY <1>1 DEF CreateHold, StaleHolds, ActiveHolds, Booking, LedgerInv, SoldInv, OneClaim
  <2>2. \A g \in gone : ClaimOf(g) = "held"
    BY <2>1 DEF LedgerInv, SoldInv, OneClaim, ClaimOf, ActiveHolds, LiveReservations
  <2>3. ClaimOf(h) = "none"
    BY <2>1 DEF ClaimOf, ActiveHolds, LiveReservations
  <2>4. holdStatus' = [g \in Hold |-> IF g = h THEN "ACTIVE"
                                      ELSE IF g \in gone THEN "EXPIRED"
                                      ELSE holdStatus[g]]
    BY <1>1 DEF CreateHold
  <2>5. need \in [Key -> 0..MaxRooms] /\ nights' = [nights EXCEPT ![h] = need]
    BY <1>1 DEF CreateHold, Needs
  <2>6. stock' = stock
    <3>1. \A k \in Key : inv'[k] = [Cleared(gone)[k] EXCEPT !.held = @ + need[k]]
      BY <1>1 DEF CreateHold
    <3>2. \A k \in Key : inv'[k].available = inv[k].available
      BY <1>k, <3>1 DEF Cleared, Row
    <3> QED
      BY <3>2
  <2> HIDE DEF gone
  <2>7. ASSUME NEW b \in Booking
        PROVE  ClaimOf(b)' = IF b = h THEN "held"
                             ELSE IF b \in gone THEN "gone" ELSE ClaimOf(b)
    <3>1. CASE b = h
      BY <2>1, <2>4, <3>1 DEF ClaimOf, ActiveHolds, LiveReservations
    <3>2. CASE b \in gone
      BY <2>1, <2>4, <3>2
         DEF ClaimOf, ActiveHolds, LiveReservations, LedgerInv, SoldInv, OneClaim
    <3>3. CASE b # h /\ b \notin gone
      BY <2>1, <2>4, <3>3 DEF ClaimOf, ActiveHolds, LiveReservations
    <3> QED
      BY <2>1, <3>1, <3>2, <3>3
  <2>8. claim' = [b \in Booking |-> IF b = h THEN "held"
                                    ELSE IF b \in gone THEN "gone" ELSE claim[b]]
    BY <2>7
  <2>9. Ledger!Take(h, need, gone)
    BY <1>f, <2>1, <2>2, <2>3, <2>5, <2>6, <2>8 DEF Ledger!Take
  <2> QED
    BY <2>1, <2>5, <2>9 DEF Ledger!Next
<1>2. ASSUME NEW h \in Hold, Lapse(h)
      PROVE  [Ledger!Next]_Ledger!vars
  BY <1>2, <1>u DEF Lapse, ClaimOf, ActiveHolds, LiveReservations
<1>3. ASSUME NEW h \in Hold, ReleaseExpired(h)
      PROVE  Ledger!Next
  <2>1. /\ h \in Booking /\ holdStatus[h] = "ACTIVE" /\ res[h] = "NONE"
        /\ res' = res /\ nights' = nights
        /\ holdStatus' = [holdStatus EXCEPT ![h] = "EXPIRED"]
    BY <1>3 DEF ReleaseExpired, Booking, LedgerInv, SoldInv, OneClaim
  <2>2. \A k \in Key : inv'[k].available = inv[k].available
    BY <1>3, <1>k DEF ReleaseExpired, Cleared, Row
  <2>3. ClaimOf(h) = "held" /\ ClaimOf(h)' = "gone"
    BY <2>1 DEF ClaimOf, ActiveHolds, LiveReservations, LedgerInv, TypeOK
  <2>4. \A c \in Booking \ {h} : ClaimOf(c)' = ClaimOf(c)
    BY <2>1 DEF ClaimOf, ActiveHolds, LiveReservations, LedgerInv, TypeOK
  <2> QED
    BY <1>s, <2>1, <2>2, <2>3, <2>4
<1>4. ASSUME NEW h \in Hold, NEW debit \in BOOLEAN, ConvertHold(h, debit)
      PROVE  Ledger!Next
  <2>1. /\ h \in Booking /\ holdStatus[h] = "ACTIVE" /\ res[h] = "NONE"
        /\ res'[h] \in {"CONFIRMED", "PENDING_PAYMENT"} /\ nights' = nights
        /\ \A c \in Booking \ {h} : res'[c] = res[c]
        /\ holdStatus' = [holdStatus EXCEPT ![h] = "CONVERTED"]
    BY <1>4 DEF ConvertHold, Booking, LedgerInv, SoldInv, OneClaim, TypeOK
  <2>2. \A k \in Key : inv'[k].available = inv[k].available
    BY <1>4, <1>k DEF ConvertHold, Row
  <2>3. ClaimOf(h) = "held" /\ ClaimOf(h)' = "sold"
    BY <2>1 DEF ClaimOf, ActiveHolds, LiveReservations, LedgerInv, TypeOK
  <2>4. \A c \in Booking \ {h} : ClaimOf(c)' = ClaimOf(c)
    BY <2>1 DEF ClaimOf, ActiveHolds, LiveReservations, LedgerInv, TypeOK
  <2> QED
    BY <1>s, <2>1, <2>2, <2>3, <2>4
<1>5. ASSUME NEW b \in Booking, ConfirmPaid(b) \/ Modify(b) \/ MarkNoShow(b)
      PROVE  [Ledger!Next]_Ledger!vars
  <2>1. /\ inv' = inv /\ nights' = nights /\ holdStatus' = holdStatus
        /\ res[b] \notin {"NONE", "CANCELLED"} /\ res'[b] \notin {"NONE", "CANCELLED"}
        /\ \A c \in Booking \ {b} : res'[c] = res[c]
    BY <1>5 DEF ConfirmPaid, Modify, MarkNoShow, LedgerInv, TypeOK
  <2>2. \A c \in Booking : ClaimOf(c)' = ClaimOf(c)
    BY <2>1 DEF ClaimOf, ActiveHolds, LiveReservations
  <2> QED
    BY <1>u, <2>1, <2>2
<1>6. ASSUME NEW b \in Booking, NEW key \in ClientKey \cup {b}, Cancel(b, key)
      PROVE  [Ledger!Next]_Ledger!vars
  <2>1. /\ res[b] # "NONE" /\ res'[b] = "CANCELLED"
        /\ \A c \in Booking \ {b} : res'[c] = res[c]
        /\ nights' = nights /\ holdStatus' = holdStatus
    BY <1>6 DEF Cancel, Cancellable, LedgerInv, TypeOK
  <2>2. \A k \in Key : inv'[k].available = inv[k].available
    BY <1>6, <1>k DEF Cancel, Row
  <2>3. b \in Hold => holdStatus[b] = "CONVERTED"
    BY <2>1 DEF LedgerInv, SoldInv, OneClaim
  <2>4. ClaimOf(b) \in {"sold", "gone"} /\ ClaimOf(b)' = "gone"
    BY <2>1, <2>3 DEF ClaimOf, ActiveHolds, LiveReservations
  <2>5. \A c \in Booking \ {b} : ClaimOf(c)' = ClaimOf(c)
    BY <2>1 DEF ClaimOf, ActiveHolds, LiveReservations
  <2>6. CASE ClaimOf(b) = "sold"
    BY <1>s, <2>1, <2>2, <2>4, <2>5, <2>6
  <2>7. CASE ClaimOf(b) = "gone"
    BY <1>u, <2>1, <2>2, <2>4, <2>5, <2>7
  <2> QED
    BY <2>4, <2>6, <2>7
<1>7. ASSUME NEW batch \in Batches, ApplyBatch(batch)
      PROVE  Ledger!Next
  <2>1. stock' \in [Key -> Nat]
    BY DEF LedgerInv, TypeOK, Row
  <2>2. claim' = claim /\ nights' = nights
    BY <1>7 DEF ApplyBatch, ClaimOf, ActiveHolds, LiveReservations
  <2>3. Ledger!Restock
    BY <1>f, <2>1, <2>2 DEF Ledger!Restock
  <2> QED
    BY <2>3 DEF Ledger!Next
<1>8. CASE UNCHANGED invVars
  BY <1>8, <1>u DEF invVars, ClaimOf, ActiveHolds, LiveReservations
<1>9. ASSUME NEW batch \in Batches, SaveInventory(batch) \/ AxisInbound(batch)
      PROVE  Ledger!Next
  BY <1>7, <1>9 DEF SaveInventory, AxisInbound
<1> QED
  BY <1>1, <1>2, <1>3, <1>4, <1>5, <1>6, <1>8, <1>9 DEF InvNext, RoomsNext

\* Where clients send no idempotency keys, every behaviour of the counters is
\* a behaviour of the ledger, for any hotel.
THEOREM LedgerImplemented ==
    ASSUME ClientKey = {}
    PROVE  Spec => ImplementsLedger
<1>1. Init => LedgerInv /\ Ledger!Init
  BY LedgerInvHolds, LedgerStart
<1>2. LedgerInv /\ [InvNext]_invVars => LedgerInv'
  BY LedgerInvHolds
<1> QED
  BY <1>1, <1>2, LedgerStep, PTL DEF Spec, ImplementsLedger, Ledger!Spec

\* And so the rooms of the bookings that hold or own them never exceed the
\* allotment: the hotel is never overbooked, by the claims, not the counters.
THEOREM HotelNeverOverbooked ==
    ASSUME ClientKey = {}
    PROVE  Spec => []Ledger!NeverOverbooked
<1>1. Init => LedgerInv
  BY LedgerInvHolds
<1>2. LedgerInv /\ [InvNext]_invVars => LedgerInv'
  BY LedgerInvHolds
<1>3. LedgerInv => Ledger!NeverOverbooked
  BY ClaimsFit DEF Ledger!NeverOverbooked
<1> QED
  BY <1>1, <1>2, <1>3, PTL DEF Spec

-----------------------------------------------------------------------------
(***************************************************************************)
(* GroupBlocks: the blocks of groups and what is picked up from them.      *)
(***************************************************************************)

(***************************************************************************)
(* The inductive invariant: RowsMatchBlocks with what it rests on.         *)
(***************************************************************************)

\* An entry has a reservation exactly once it was picked up, and needs at most
\* one room a night, which is what a pickup moves.
EntryClaims ==
    \A e \in Entry : /\ res[e] # "NONE" <=> entry[e] = "RESERVATION_CREATED"
                     /\ \A k \in Key : nights[e][k] <= 1

\* A block that was not added has no rooms.
FreshBlocks == \A b \in Block : block[b] = "NONE" => blocked[b] = NoRooms

GroupInv ==
    /\ GTypeOK
    /\ SoldInv
    /\ EntryClaims
    /\ FreshBlocks
    /\ HistoryFits
    /\ BlockedAccounting
    /\ CancelledHoldsNothing
    /\ PickupAccounting

-----------------------------------------------------------------------------
(***************************************************************************)
(* Lemmas about blocks and rows.                                           *)
(***************************************************************************)

\* Any set of blocks is finite.
LEMMA FiniteBlocks ==
    ASSUME NEW S, S \subseteq Block
    PROVE  IsFiniteSet(S)
BY GroupAssumption, FS_Subset

\* The Math.max around a block's remainder never matters: what is left of a
\* block is a number of rooms.
LEMMA LeftFits ==
    ASSUME GTypeOK, HistoryFits, NEW b \in Block, NEW k \in Key
    PROVE  /\ Left[b][k] = blocked[b][k] - pickedUp[b][k] - released[b][k]
           /\ Left[b][k] \in 0..MaxRooms
           /\ Remaining[b][k] = Left[b][k]
<1>1. /\ blocked[b][k] \in 0..MaxRooms /\ pickedUp[b][k] \in 0..MaxRooms
      /\ released[b][k] \in 0..MaxRooms
      /\ pickedUp[b][k] + released[b][k] <= blocked[b][k]
  BY DEF GTypeOK, HistoryFits
<1>2. Left[b][k] = blocked[b][k] - pickedUp[b][k] - released[b][k]
  BY DEF Left
<1>3. Left[b][k] \in 0..MaxRooms
  BY <1>1, <1>2, MaxRoomsAssumption
<1>4. Remaining[b][k] = IF Left[b][k] > 0 THEN Left[b][k] ELSE 0
  BY DEF Remaining
<1> QED
  BY <1>2, <1>3, <1>4, MaxRoomsAssumption

\* So is it after a step that keeps the blocks' history in order.
LEMMA LeftFitsAfter ==
    ASSUME GTypeOK', HistoryFits', NEW b \in Block, NEW k \in Key
    PROVE  /\ Remaining'[b][k] = blocked'[b][k] - pickedUp'[b][k] - released'[b][k]
           /\ Remaining'[b][k] \in 0..MaxRooms
<1>1. /\ blocked'[b][k] \in 0..MaxRooms /\ pickedUp'[b][k] \in 0..MaxRooms
      /\ released'[b][k] \in 0..MaxRooms
      /\ pickedUp'[b][k] + released'[b][k] <= blocked'[b][k]
  BY DEF GTypeOK, HistoryFits
<1>2. Left'[b][k] = blocked'[b][k] - pickedUp'[b][k] - released'[b][k]
  BY DEF Left
<1>3. Left'[b][k] \in 0..MaxRooms
  BY <1>1, <1>2, MaxRoomsAssumption
<1>4. Remaining'[b][k] = IF Left'[b][k] > 0 THEN Left'[b][k] ELSE 0
  BY DEF Remaining
<1> QED
  BY <1>2, <1>3, <1>4, MaxRoomsAssumption

\* Rows that get delta rooms under group blocks keep everything else.
LEMMA BlockRoomsRow ==
    ASSUME TypeOK, NEW delta, BlockRooms(delta), NEW k \in Key
    PROVE  inv'[k] = [available    |-> inv[k].available,
                      held         |-> inv[k].held,
                      sold         |-> inv[k].sold,
                      groupBlocked |-> inv[k].groupBlocked + delta[k],
                      stopSell     |-> inv[k].stopSell]
<1>1. inv[k] \in Row
  BY DEF TypeOK
<1>2. inv'[k] = [inv[k] EXCEPT !.groupBlocked = @ + delta[k]]
  BY DEF BlockRooms
<1> QED
  BY <1>1, <1>2 DEF Row

\* In particular the counter moves by delta.
LEMMA BlockRoomsBlocked ==
    ASSUME TypeOK, NEW delta, BlockRooms(delta), NEW k \in Key
    PROVE  /\ inv'[k].groupBlocked = inv[k].groupBlocked + delta[k]
           /\ inv'[k].sold = inv[k].sold
<1>1. inv'[k] = [available    |-> inv[k].available,
                 held         |-> inv[k].held,
                 sold         |-> inv[k].sold,
                 groupBlocked |-> inv[k].groupBlocked + delta[k],
                 stopSell     |-> inv[k].stopSell]
  BY BlockRoomsRow
<1> QED
  BY <1>1

\* A new size of the blocks on the rows keeps the ledger's types, if the
\* counter stays a number of rooms.
LEMMA BlockRoomsType ==
    ASSUME TypeOK, NEW delta, BlockRooms(delta),
           \A k \in Key : inv'[k].groupBlocked \in Nat,
           UNCHANGED <<holdStatus, lapsed, nights, res, usedKeys>>
    PROVE  TypeOK'
<1>1. ASSUME NEW k \in Key
      PROVE  inv'[k] \in Row /\ RowValid(inv'[k])
  <2>1. inv[k] \in Row /\ RowValid(inv[k])
    BY DEF TypeOK
  <2>2. inv'[k] = [available    |-> inv[k].available,
                   held         |-> inv[k].held,
                   sold         |-> inv[k].sold,
                   groupBlocked |-> inv[k].groupBlocked + delta[k],
                   stopSell     |-> inv[k].stopSell]
    BY BlockRoomsRow
  <2>3. inv'[k].groupBlocked \in Nat
    OBVIOUS
  <2> QED
    BY <2>1, <2>2, <2>3 DEF Row, RowValid
<1>2. inv' \in [Key -> Row]
  BY <1>1 DEF BlockRooms
<1> QED
  BY <1>1, <1>2 DEF TypeOK

\* Steps that leave sold, the reservations and their rooms keep what is known
\* of them.
LEMMA SoldQuiet ==
    ASSUME SoldInv, \A k \in Key : inv'[k].sold = inv[k].sold,
           \A b \in LiveReservations : nights'[b] = nights[b],
           UNCHANGED <<holdStatus, res, usedKeys>>
    PROVE  SoldInv'
<1>1. LiveReservations' = LiveReservations /\ OneClaim' /\ CancelOnce'
  BY DEF SoldInv, LiveReservations, OneClaim, CancelOnce
<1>2. ASSUME NEW k \in Key
      PROVE  inv'[k].sold = RoomsOf(nights', LiveReservations, k)
  <2>1. \A b \in LiveReservations : nights'[b][k] = nights[b][k]
    OBVIOUS
  <2>2. RoomsOf(nights', LiveReservations, k) = RoomsOf(nights, LiveReservations, k)
    BY <2>1, RoomsOfFrame
  <2> QED
    BY <2>2 DEF SoldInv, SoldAccounting
<1> QED
  BY <1>1, <1>2 DEF SoldInv, SoldAccounting

\* What the ledger's own steps leave alone: the blocked rooms of every row,
\* and each entry's rooms and whether it has a reservation.
LEMMA BesideBlocks ==
    ASSUME TypeOK, [InvNext]_invVars
    PROVE  /\ \A k \in Key : inv'[k].groupBlocked = inv[k].groupBlocked
           /\ \A e \in Entry : /\ nights'[e] = nights[e]
                               /\ res'[e] = "NONE" <=> res[e] = "NONE"
<1> DEFINE Kept ==
             /\ \A k \in Key : inv'[k].groupBlocked = inv[k].groupBlocked
             /\ \A e \in Entry : /\ nights'[e] = nights[e]
                                 /\ res'[e] = "NONE" <=> res[e] = "NONE"
<1> SUFFICES Kept
  OBVIOUS
<1>k. ASSUME NEW k \in Key
      PROVE  inv[k] \in Row /\ inv \in [Key -> Row]
  BY DEF TypeOK
<1>e. Entry \subseteq Booking /\ Entry \cap Hold = {}
  BY InventoryAssumption DEF Booking
<1>1. ASSUME NEW h \in Hold, NEW need \in Needs, CreateHold(h, need)
      PROVE  Kept
  <2>1. ASSUME NEW k \in Key
        PROVE  inv'[k].groupBlocked = inv[k].groupBlocked
    <3>1. inv'[k] = [Cleared(StaleHolds(RowsOf(need)))[k] EXCEPT !.held = @ + need[k]]
      BY <1>1 DEF CreateHold
    <3> QED
      BY <1>k, <3>1 DEF Cleared, Row
  <2> QED
    BY <1>1, <1>e, <2>1 DEF CreateHold, TypeOK
<1>2. ASSUME NEW h \in Hold, ReleaseExpired(h)
      PROVE  Kept
  BY <1>2, <1>k DEF ReleaseExpired, Cleared, Row
<1>3. ASSUME NEW h \in Hold, NEW debit \in BOOLEAN, ConvertHold(h, debit)
      PROVE  Kept
  <2>1. \A k \in Key : inv'[k].groupBlocked = inv[k].groupBlocked
    BY <1>3, <1>k DEF ConvertHold, Row
  <2> QED
    BY <1>3, <1>e, <2>1 DEF ConvertHold, TypeOK
<1>4. ASSUME NEW b \in Booking, NEW key \in ClientKey \cup {b}, Cancel(b, key)
      PROVE  Kept
  <2>1. \A k \in Key : inv'[k].groupBlocked = inv[k].groupBlocked
    BY <1>4, <1>k DEF Cancel, Row
  <2> QED
    BY <1>4, <1>e, <2>1 DEF Cancel, Cancellable, TypeOK
<1>5. ASSUME NEW batch \in Batches, ApplyBatch(batch)
      PROVE  Kept
  BY <1>5, <1>k DEF ApplyBatch, Row
<1>6. CASE \E b \in Booking : ConfirmPaid(b) \/ Modify(b) \/ MarkNoShow(b)
  BY <1>6, <1>e DEF ConfirmPaid, Modify, MarkNoShow, TypeOK
<1>7. CASE \E h \in Hold : Lapse(h)
  BY <1>7 DEF Lapse
<1>8. CASE UNCHANGED invVars
  BY <1>8 DEF invVars
<1>9. CASE \E batch \in Batches : SaveInventory(batch) \/ AxisInbound(batch)
  BY <1>5, <1>9 DEF SaveInventory, AxisInbound
<1> HIDE DEF Kept
<1> QED
  BY <1>1, <1>2, <1>3, <1>4, <1>6, <1>7, <1>8, <1>9 DEF InvNext, RoomsNext

-----------------------------------------------------------------------------
(***************************************************************************)
(* Every step keeps the invariant.                                         *)
(***************************************************************************)

\* Nothing is blocked, picked up or reserved at the start.
LEMMA GroupInit == GInit => GroupInv
<1> SUFFICES ASSUME GInit PROVE GroupInv
  OBVIOUS
<1>1. Init /\ TypeOK /\ SoldInv
  BY InitType, SoldInit DEF GInit
<1>2. NoRooms \in [Key -> 0..MaxRooms] /\ \A k \in Key : NoRooms[k] = 0
  BY MaxRoomsAssumption DEF NoRooms
<1>3. GTypeOK
  BY <1>1, <1>2 DEF GInit, GTypeOK, GroupStatus
<1>4. EntryClaims
  BY <1>1, <1>2 DEF GInit, Init, EntryClaims, Booking
<1>5. FreshBlocks /\ HistoryFits
  BY <1>2 DEF GInit, FreshBlocks, HistoryFits
<1>6. BlockedAccounting
  <2>1. CommittedBlocks = {}
    BY DEF GInit, CommittedBlocks
  <2>2. \A k \in Key : inv[k].groupBlocked = 0
    BY <1>1 DEF Init
  <2> QED
    BY <2>1, <2>2, RoomsOfNobody DEF BlockedAccounting
<1>7. CancelledHoldsNothing
  BY DEF GInit, CancelledHoldsNothing, CommittedBlocks
<1>8. PickupAccounting
  <2> SUFFICES ASSUME NEW g \in Group, NEW k \in Key
               PROVE  RoomsOf(pickedUp, {b \in Block : GroupOf[b] = g}, k)
                        = RoomsOf(nights, GroupReservations(g), k)
    BY DEF PickupAccounting
  <2>1. GroupReservations(g) = {}
    BY DEF GInit, GroupReservations, EntriesOf
  <2>2. \A b \in {c \in Block : GroupOf[c] = g} : pickedUp[b][k] = 0
    BY <1>2 DEF GInit
  <2>3. RoomsOf(pickedUp, {b \in Block : GroupOf[b] = g}, k) = 0
    BY <2>2, RoomsOfEmptied
  <2> QED
    BY <2>1, <2>3, RoomsOfNobody
<1> QED
  BY <1>1, <1>3, <1>4, <1>5, <1>6, <1>7, <1>8 DEF GroupInv

\* A step of the ledger, or none of it, beside which the blocks stay as they
\* are, no entry gets or loses its reservation and no group is cancelled.
LEMMA QuietStep ==
    ASSUME ClientKey = {}, GroupInv, [InvNext]_invVars,
           UNCHANGED <<block, nightVars>>, GTypeOK',
           \A e \in Entry : entry'[e] = "RESERVATION_CREATED"
                              <=> entry[e] = "RESERVATION_CREATED",
           \A g \in Group : group'[g] = "CANCELLED" => group[g] = "CANCELLED"
    PROVE  GroupInv'
<1>1. TypeOK /\ GTypeOK /\ SoldInv
  BY DEF GroupInv, GTypeOK
<1>2. SoldInv'
  BY <1>1, SoldNext
<1>3. /\ \A k \in Key : inv'[k].groupBlocked = inv[k].groupBlocked
      /\ \A e \in Entry : /\ nights'[e] = nights[e]
                          /\ res'[e] = "NONE" <=> res[e] = "NONE"
  BY <1>1, BesideBlocks
<1>4. EntryClaims'
  BY <1>3 DEF GroupInv, EntryClaims
<1>5. Remaining' = Remaining /\ CommittedBlocks' = CommittedBlocks
  BY DEF nightVars, Remaining, Left, CommittedBlocks
<1>6. FreshBlocks' /\ HistoryFits'
  BY DEF GroupInv, FreshBlocks, HistoryFits, nightVars
<1>7. BlockedAccounting'
  BY <1>3, <1>5 DEF GroupInv, BlockedAccounting
<1>8. CancelledHoldsNothing'
  <2>1. \A b \in CommittedBlocks : GroupOf[b] \in Group
    BY GroupAssumption DEF CommittedBlocks
  <2> QED
    BY <1>5, <2>1 DEF GroupInv, CancelledHoldsNothing
<1>9. PickupAccounting'
  <2> SUFFICES ASSUME NEW g \in Group, NEW k \in Key
               PROVE  RoomsOf(pickedUp', {b \in Block : GroupOf[b] = g}, k)
                        = RoomsOf(nights', GroupReservations(g)', k)
    BY DEF PickupAccounting
  <2>1. GroupReservations(g)' = GroupReservations(g)
    BY DEF GroupReservations, EntriesOf
  <2>2. \A e \in GroupReservations(g) : nights'[e][k] = nights[e][k]
    BY <1>3 DEF GroupReservations, EntriesOf
  <2>3. RoomsOf(nights', GroupReservations(g), k) = RoomsOf(nights, GroupReservations(g), k)
    BY <2>2, RoomsOfFrame
  <2>4. pickedUp' = pickedUp
    BY DEF nightVars
  <2> QED
    BY <2>1, <2>3, <2>4 DEF GroupInv, PickupAccounting
<1> QED
  BY <1>2, <1>4, <1>6, <1>7, <1>8, <1>9 DEF GroupInv

\* The steps that only move a group, an entry or a stay along its statuses.
LEMMA StatusSteps ==
    ASSUME ClientKey = {}, GroupInv
    PROVE  /\ \A g \in Group : Tentative(g) \/ SyncRead(g) \/ SyncWrite(g) => GroupInv'
           /\ \A e \in Entry : CreateEntry(e) \/ CheckIn(e) \/ CheckOut(e) \/ NoShow(e)
                                 => GroupInv'
           /\ \A h \in Hold : MarkNoShow(h) /\ UNCHANGED groupVars => GroupInv'
           /\ (RoomsNext \/ UNCHANGED invVars) /\ UNCHANGED groupVars => GroupInv'
<1>1. TypeOK /\ GTypeOK
  BY DEF GroupInv, GTypeOK
<1>u. ASSUME UNCHANGED invVars
      PROVE  [InvNext]_invVars /\ TypeOK'
  BY <1>1, <1>u DEF invVars, TypeOK
<1>n. ASSUME NEW b \in Booking, MarkNoShow(b)
      PROVE  [InvNext]_invVars /\ TypeOK'
  BY <1>1, <1>n, NextType DEF InvNext
<1>2. ASSUME NEW g \in Group, Tentative(g)
      PROVE  GroupInv'
  <2>1. GTypeOK'
    BY <1>1, <1>2, <1>u DEF Tentative, GTypeOK, GroupStatus, nightVars
  <2>2. \A x \in Group : group'[x] = "CANCELLED" => group[x] = "CANCELLED"
    BY <1>1, <1>2 DEF Tentative, GTypeOK
  <2> QED
    BY <1>2, <1>u, <2>1, <2>2, QuietStep DEF Tentative
<1>3. ASSUME NEW g \in Group, SyncRead(g)
      PROVE  GroupInv'
  <2>1. NextStatus(g) \in {"IN_HOUSE", "COMPLETED"}
    BY <1>3 DEF SyncRead, NextStatus
  <2>2. GTypeOK'
    BY <1>1, <1>3, <1>u, <2>1 DEF SyncRead, GTypeOK, nightVars
  <2> QED
    BY <1>3, <1>u, <2>2, QuietStep DEF SyncRead
<1>4. ASSUME NEW g \in Group, SyncWrite(g)
      PROVE  GroupInv'
  <2>1. syncing[g] \in {"IN_HOUSE", "COMPLETED"}
    BY <1>1, <1>4 DEF SyncWrite, GTypeOK
  <2>2. GTypeOK'
    BY <1>1, <1>4, <1>u, <2>1 DEF SyncWrite, GTypeOK, GroupStatus, nightVars
  <2>3. \A x \in Group : group'[x] = "CANCELLED" => group[x] = "CANCELLED"
    BY <1>1, <1>4, <2>1 DEF SyncWrite, GTypeOK
  <2> QED
    BY <1>4, <1>u, <2>2, <2>3, QuietStep DEF SyncWrite
<1>5. ASSUME NEW e \in Entry, CreateEntry(e)
      PROVE  GroupInv'
  <2>1. GTypeOK'
    BY <1>1, <1>5, <1>u DEF CreateEntry, GTypeOK, nightVars
  <2>2. \A x \in Entry : entry'[x] = "RESERVATION_CREATED"
                           <=> entry[x] = "RESERVATION_CREATED"
    BY <1>1, <1>5 DEF CreateEntry, GTypeOK
  <2> QED
    BY <1>5, <1>u, <2>1, <2>2, QuietStep DEF CreateEntry
<1>6. ASSUME NEW e \in Entry, CheckIn(e) \/ CheckOut(e)
      PROVE  GroupInv'
  <2>1. /\ UNCHANGED <<invVars, group, syncing, block, nightVars, entry>>
        /\ \E to \in {"CHECKED_IN", "CHECKED_OUT"} : stay' = [stay EXCEPT ![e] = to]
    BY <1>6 DEF CheckIn, CheckOut, Guest
  <2>2. GTypeOK'
    BY <1>1, <1>u, <2>1 DEF GTypeOK, nightVars
  <2> QED
    BY <1>u, <2>1, <2>2, QuietStep
<1>7. ASSUME NEW e \in Entry, NoShow(e)
      PROVE  GroupInv'
  <2>1. e \in Booking
    BY DEF Booking
  <2>2. GTypeOK'
    BY <1>1, <1>7, <1>n, <2>1 DEF NoShow, Guest, GTypeOK, nightVars
  <2> QED
    BY <1>7, <1>n, <2>1, <2>2, QuietStep DEF NoShow, Guest
<1>8. ASSUME NEW h \in Hold, MarkNoShow(h), UNCHANGED groupVars
      PROVE  GroupInv'
  <2>1. h \in Booking
    BY DEF Booking
  <2>2. GTypeOK'
    BY <1>1, <1>8, <1>n, <2>1 DEF groupVars, GTypeOK, nightVars
  <2> QED
    BY <1>8, <1>n, <2>1, <2>2, QuietStep DEF groupVars
<1>9. ASSUME RoomsNext \/ UNCHANGED invVars, UNCHANGED groupVars
      PROVE  GroupInv'
  <2>1. [InvNext]_invVars
    BY <1>9 DEF InvNext
  <2>2. GTypeOK'
    BY <1>1, <1>9, <2>1, NextType DEF groupVars, GTypeOK, nightVars
  <2> QED
    BY <1>9, <2>1, <2>2, QuietStep DEF groupVars
<1> QED
  BY <1>2, <1>3, <1>4, <1>5, <1>6, <1>7, <1>8, <1>9

\* A step on the blocks alone: what stays of the invariant without a look at
\* the blocks.
LEMMA BlockStep ==
    ASSUME GroupInv, NEW delta, BlockRooms(delta), BlockedAccounting',
           UNCHANGED <<holdStatus, lapsed, nights, res, usedKeys, syncing, entry, stay>>
    PROVE  TypeOK' /\ SoldInv' /\ EntryClaims'
<1>1. TypeOK /\ SoldInv /\ EntryClaims
  BY DEF GroupInv, GTypeOK
<1>2. ASSUME NEW k \in Key
      PROVE  inv'[k].groupBlocked \in Nat
  <2>1. IsFiniteSet(CommittedBlocks')
    BY FiniteBlocks DEF CommittedBlocks
  <2>2. RoomsOf(Remaining', CommittedBlocks', k) \in Nat
    BY <2>1, RoomsOfType
  <2> QED
    BY <2>2 DEF BlockedAccounting
<1>3. TypeOK'
  BY <1>1, <1>2, BlockRoomsType
<1>4. \A k \in Key : inv'[k].sold = inv[k].sold
  BY <1>1, BlockRoomsBlocked
<1>5. SoldInv'
  BY <1>1, <1>4, SoldQuiet
<1>6. EntryClaims'
  BY <1>1 DEF EntryClaims
<1> QED
  BY <1>3, <1>5, <1>6

\* The pickups of the blocks stand for the same reservations while neither
\* changes.
LEMMA PickupQuiet ==
    ASSUME PickupAccounting, UNCHANGED <<pickedUp, nights, entry>>
    PROVE  PickupAccounting'
BY DEF PickupAccounting, GroupReservations, EntriesOf

\* The block's new size is charged to its rows by what its remainder grows.
LEMMA ResizeStep ==
    ASSUME GroupInv, NEW b \in Block, NEW want \in Needs, NEW delta,
           Resize(b, want, delta), group[GroupOf[b]] # "CANCELLED",
           \A k \in Key : want[k] >= pickedUp[b][k] + released[b][k],
           block' \in [Block -> {"NONE", "DRAFT", "COMMITTED"}],
           \A c \in Block \ {b} : block'[c] = block[c],
           block'[b] # "NONE",
           BlockedAccounting'
    PROVE  GroupInv'
<1>1. /\ GTypeOK /\ HistoryFits /\ FreshBlocks /\ CancelledHoldsNothing
      /\ PickupAccounting
  BY DEF GroupInv
<1>2. want \in [Key -> 0..MaxRooms]
  BY DEF Needs
<1>3. TypeOK' /\ SoldInv' /\ EntryClaims'
  BY BlockStep DEF Resize
<1>4. GTypeOK'
  BY <1>1, <1>2, <1>3 DEF Resize, GTypeOK
<1>5. HistoryFits'
  BY <1>1, <1>2 DEF Resize, HistoryFits, GTypeOK
<1>6. FreshBlocks'
  BY <1>1, <1>2 DEF Resize, FreshBlocks, GTypeOK
<1>7. CancelledHoldsNothing'
  <2> SUFFICES ASSUME NEW c \in CommittedBlocks', group'[GroupOf[c]] = "CANCELLED",
                      NEW k \in Key
               PROVE  Remaining'[c][k] = 0
    BY DEF CancelledHoldsNothing
  <2>1. c \in Block /\ c # b /\ c \in CommittedBlocks /\ group[GroupOf[c]] = "CANCELLED"
    BY DEF Resize, CommittedBlocks
  <2>2. Remaining[c][k] = 0
    BY <1>1, <2>1 DEF CancelledHoldsNothing
  <2>3. blocked'[c] = blocked[c] /\ pickedUp' = pickedUp /\ released' = released
    BY <1>1, <2>1 DEF Resize, GTypeOK
  <2>4. Remaining'[c][k] = Remaining[c][k]
    BY <2>1, <2>3 DEF Remaining, Left
  <2> QED
    BY <2>2, <2>4
<1>8. PickupAccounting'
  BY <1>1, PickupQuiet DEF Resize
<1> QED
  BY <1>3, <1>4, <1>5, <1>6, <1>7, <1>8 DEF GroupInv

\* The blocks other than the one resized keep what they have left.
LEMMA ResizeOthers ==
    ASSUME GTypeOK, NEW b \in Block, NEW want, NEW delta, Resize(b, want, delta),
           NEW S, S \subseteq Block \ {b}, NEW k \in Key
    PROVE  RoomsOf(Remaining', S, k) = RoomsOf(Remaining, S, k)
<1>1. \A c \in S : Remaining'[c][k] = Remaining[c][k]
  BY DEF Resize, Remaining, Left, GTypeOK
<1> QED
  BY <1>1, RoomsOfFrame

\* A block resized to want has left what of it was not picked up or released.
LEMMA ResizedLeft ==
    ASSUME GTypeOK, NEW b \in Block, NEW want \in Needs, NEW delta,
           Resize(b, want, delta), NEW k \in Key,
           want[k] >= pickedUp[b][k] + released[b][k]
    PROVE  /\ Remaining'[b][k] = want[k] - pickedUp[b][k] - released[b][k]
           /\ Remaining'[b][k] \in 0..MaxRooms
<1>1. /\ want[k] \in 0..MaxRooms /\ pickedUp[b][k] \in 0..MaxRooms
      /\ released[b][k] \in 0..MaxRooms
  BY DEF Needs, GTypeOK
<1>2. blocked'[b][k] = want[k] /\ pickedUp' = pickedUp /\ released' = released
  BY DEF Resize, GTypeOK
<1>3. Left'[b][k] = want[k] - pickedUp[b][k] - released[b][k]
  BY <1>2 DEF Left
<1>4. Left'[b][k] \in 0..MaxRooms
  BY <1>1, <1>3, MaxRoomsAssumption
<1>5. Remaining'[b][k] = IF Left'[b][k] > 0 THEN Left'[b][k] ELSE 0
  BY DEF Remaining
<1> QED
  BY <1>3, <1>4, <1>5, MaxRoomsAssumption

\* A new block of a definite group takes its rooms from the rows it names.
LEMMA AddBlockStep ==
    ASSUME GroupInv, NEW b \in Block, NEW want \in Needs, AddBlock(b, want)
    PROVE  GroupInv'
<1> DEFINE committed == group[GroupOf[b]] \in Running
           delta == IF committed THEN want ELSE NoRooms
<1>1. GTypeOK /\ HistoryFits /\ BlockedAccounting /\ FreshBlocks /\ TypeOK
  BY DEF GroupInv, GTypeOK
<1>2. /\ block[b] = "NONE" /\ Resize(b, want, delta)
      /\ block' = [block EXCEPT ![b] = IF committed THEN "COMMITTED" ELSE "DRAFT"]
      /\ group[GroupOf[b]] # "CANCELLED"
  BY DEF AddBlock, Closed
<1>3. ASSUME NEW k \in Key
      PROVE  pickedUp[b][k] = 0 /\ released[b][k] = 0 /\ want[k] \in 0..MaxRooms
  <2>1. blocked[b][k] = 0
    BY <1>1, <1>2 DEF FreshBlocks, NoRooms
  <2>2. pickedUp[b][k] \in 0..MaxRooms /\ released[b][k] \in 0..MaxRooms
    BY <1>1 DEF GTypeOK
  <2>3. pickedUp[b][k] + released[b][k] <= 0
    BY <1>1, <2>1 DEF HistoryFits
  <2> QED
    BY <2>2, <2>3, MaxRoomsAssumption DEF Needs
<1>4. b \notin CommittedBlocks /\ CommittedBlocks \subseteq Block \ {b}
  BY <1>2 DEF CommittedBlocks
<1>5. CommittedBlocks' = IF committed THEN CommittedBlocks \cup {b} ELSE CommittedBlocks
  BY <1>1, <1>2 DEF CommittedBlocks, GTypeOK
<1>6. BlockedAccounting'
  <2> SUFFICES ASSUME NEW k \in Key
               PROVE  inv'[k].groupBlocked = RoomsOf(Remaining', CommittedBlocks', k)
    BY DEF BlockedAccounting
  <2>1. inv'[k].groupBlocked = inv[k].groupBlocked + delta[k]
    <3> HIDE DEF delta
    <3>1. BlockRooms(delta)
      BY <1>2 DEF Resize
    <3> QED
      BY <1>1, <3>1, BlockRoomsBlocked
  <2>2. RoomsOf(Remaining', CommittedBlocks, k) = inv[k].groupBlocked
    <3> HIDE DEF delta
    <3>1. RoomsOf(Remaining', CommittedBlocks, k) = RoomsOf(Remaining, CommittedBlocks, k)
      BY <1>1, <1>2, <1>4, ResizeOthers
    <3> QED
      BY <1>1, <3>1 DEF BlockedAccounting
  <2>3. CASE committed
    <3>1. Remaining'[b][k] = want[k] /\ Remaining'[b][k] \in 0..MaxRooms
      <4> HIDE DEF delta
      <4>2. want[k] >= pickedUp[b][k] + released[b][k]
        BY <1>3, MaxRoomsAssumption
      <4>1. /\ Remaining'[b][k] = want[k] - pickedUp[b][k] - released[b][k]
            /\ Remaining'[b][k] \in 0..MaxRooms
        BY <1>1, <1>2, <4>2, ResizedLeft
      <4> QED
        BY <1>3, <4>1, MaxRoomsAssumption
    <3>2. IsFiniteSet(CommittedBlocks)
      BY FiniteBlocks DEF CommittedBlocks
    <3>3. RoomsOf(Remaining', CommittedBlocks \cup {b}, k)
            = RoomsOf(Remaining', CommittedBlocks, k) + Remaining'[b][k]
      BY <1>4, <3>1, <3>2, RoomsOfJoin
    <3> QED
      BY <1>5, <2>1, <2>2, <2>3, <3>1, <3>3
  <2>4. CASE ~committed
    <3>1. inv[k].groupBlocked \in Nat
      BY <1>1 DEF TypeOK, Row
    <3> QED
      BY <1>5, <2>1, <2>2, <2>4, <3>1 DEF NoRooms
  <2> QED
    BY <2>3, <2>4
<1>7. \A k \in Key : want[k] >= pickedUp[b][k] + released[b][k]
  BY <1>3, MaxRoomsAssumption
<1>8. /\ block' \in [Block -> {"NONE", "DRAFT", "COMMITTED"}]
      /\ \A c \in Block \ {b} : block'[c] = block[c]
      /\ block'[b] # "NONE"
  BY <1>1, <1>2 DEF GTypeOK
<1> HIDE DEF delta, committed
<1> QED
  BY <1>2, <1>6, <1>7, <1>8, ResizeStep

\* The total of the committed blocks moves by what one of them moves.
LEMMA ChargedBlock ==
    ASSUME NEW k \in Key, NEW b \in Block, b \in CommittedBlocks,
           IsFiniteSet(CommittedBlocks),
           Remaining[b][k] \in 0..MaxRooms, Remaining'[b][k] \in 0..MaxRooms,
           \A c \in CommittedBlocks \ {b} : Remaining[c][k] = Remaining'[c][k]
    PROVE  RoomsOf(Remaining', CommittedBlocks, k)
             = RoomsOf(Remaining, CommittedBlocks, k) - Remaining[b][k] + Remaining'[b][k]
BY RoomsOfChange

\* An edited block moves the difference between its old and new rooms.
LEMMA UpdateBlockStep ==
    ASSUME GroupInv, NEW b \in Block, NEW want \in Needs, UpdateBlock(b, want)
    PROVE  GroupInv'
<1> DEFINE delta == IF block[b] = "COMMITTED" THEN Growth(b, want) ELSE NoRooms
<1>1. GTypeOK /\ HistoryFits /\ BlockedAccounting /\ TypeOK
  BY DEF GroupInv, GTypeOK
<1>2. /\ block[b] # "NONE" /\ Resize(b, want, delta) /\ block' = block
      /\ group[GroupOf[b]] # "CANCELLED"
      /\ \A k \in Key : want[k] >= pickedUp[b][k] + released[b][k]
  BY DEF UpdateBlock, Closed
<1>3. CommittedBlocks' = CommittedBlocks /\ CommittedBlocks \subseteq Block
  BY <1>2 DEF CommittedBlocks
<1>4. BlockedAccounting'
  <2> SUFFICES ASSUME NEW k \in Key
               PROVE  inv'[k].groupBlocked = RoomsOf(Remaining', CommittedBlocks, k)
    BY <1>3 DEF BlockedAccounting
  <2>1. inv'[k].groupBlocked = inv[k].groupBlocked + delta[k]
    <3> HIDE DEF delta
    <3>1. BlockRooms(delta)
      BY <1>2 DEF Resize
    <3> QED
      BY <1>1, <3>1, BlockRoomsBlocked
  <2>2. inv[k].groupBlocked = RoomsOf(Remaining, CommittedBlocks, k)
    BY <1>1 DEF BlockedAccounting
  <2>3. CASE block[b] = "COMMITTED"
    <3>1. b \in CommittedBlocks /\ IsFiniteSet(CommittedBlocks)
      BY <1>3, <2>3, FiniteBlocks DEF CommittedBlocks
    <3> HIDE DEF delta
    <3>2. /\ Remaining'[b][k] = want[k] - pickedUp[b][k] - released[b][k]
          /\ Remaining'[b][k] \in 0..MaxRooms
      BY <1>1, <1>2, ResizedLeft
    <3>3. Remaining[b][k] \in 0..MaxRooms
      BY <1>1, LeftFits
    <3>4. \A c \in CommittedBlocks \ {b} : Remaining[c][k] = Remaining'[c][k]
      BY <1>1, <1>2, <1>3 DEF Resize, Remaining, Left, GTypeOK
    <3>5. RoomsOf(Remaining', CommittedBlocks, k)
            = RoomsOf(Remaining, CommittedBlocks, k) - Remaining[b][k] + Remaining'[b][k]
      BY <3>1, <3>2, <3>3, <3>4, ChargedBlock
    <3>6. delta[k] = Remaining'[b][k] - Remaining[b][k]
      BY <2>3, <3>2 DEF delta, Growth
    <3>7. RoomsOf(Remaining, CommittedBlocks, k) \in Nat
      BY <3>1, RoomsOfType
    <3> QED
      BY <2>1, <2>2, <3>2, <3>3, <3>5, <3>6, <3>7, MaxRoomsAssumption
  <2>4. CASE block[b] # "COMMITTED"
    <3>1. inv[k].groupBlocked \in Nat
      BY <1>1 DEF TypeOK, Row
    <3>2. delta[k] = 0
      BY <2>4 DEF NoRooms
    <3>3. CommittedBlocks \subseteq Block \ {b}
      BY <2>4 DEF CommittedBlocks
    <3> HIDE DEF delta
    <3>4. RoomsOf(Remaining', CommittedBlocks, k) = RoomsOf(Remaining, CommittedBlocks, k)
      BY <1>1, <1>2, <3>3, ResizeOthers
    <3> QED
      BY <2>1, <2>2, <3>1, <3>2, <3>4
  <2> QED
    BY <2>3, <2>4
<1>5. block' \in [Block -> {"NONE", "DRAFT", "COMMITTED"}]
  BY <1>1, <1>2 DEF GTypeOK
<1> HIDE DEF delta
<1> QED
  BY <1>2, <1>4, <1>5, ResizeStep

\* Confirming a group adds what its drafts have left to the committed blocks.
LEMMA ConfirmStep ==
    ASSUME GroupInv, NEW g \in Group, Confirm(g)
    PROVE  GroupInv'
<1> DEFINE drafts == BlocksOf(g, "DRAFT")
<1>1. /\ GTypeOK /\ HistoryFits /\ BlockedAccounting /\ TypeOK /\ FreshBlocks
      /\ CancelledHoldsNothing /\ PickupAccounting
  BY DEF GroupInv, GTypeOK
<1>2. /\ BlockRooms(Drafted(g))
      /\ block' = [b \in Block |-> IF b \in drafts THEN "COMMITTED" ELSE block[b]]
      /\ group' = [group EXCEPT ![g] = "CONFIRMED"]
      /\ group[g] \in {"INQUIRY", "TENTATIVE"}
      /\ UNCHANGED <<holdStatus, lapsed, nights, res, usedKeys, syncing, entry, stay>>
      /\ blocked' = blocked /\ pickedUp' = pickedUp /\ released' = released
  BY DEF Confirm, CommitBlocks, nightVars
<1>3. /\ drafts \subseteq Block /\ CommittedBlocks \subseteq Block
      /\ CommittedBlocks \cap drafts = {}
  BY DEF BlocksOf, CommittedBlocks
<1>4. CommittedBlocks' = CommittedBlocks \cup drafts
  BY <1>2, <1>3 DEF CommittedBlocks
<1>5. Remaining' = Remaining
  BY <1>2 DEF Remaining, Left
<1>6. BlockedAccounting'
  <2> SUFFICES ASSUME NEW k \in Key
               PROVE  inv'[k].groupBlocked = RoomsOf(Remaining, CommittedBlocks \cup drafts, k)
    BY <1>4, <1>5 DEF BlockedAccounting
  <2>1. inv'[k].groupBlocked = inv[k].groupBlocked + Drafted(g)[k]
    BY <1>1, <1>2, BlockRoomsBlocked
  <2>2. Drafted(g)[k] = RoomsOf(Left, drafts, k)
    BY DEF Drafted
  <2>3. \A b \in drafts : Left[b][k] = Remaining[b][k]
    BY <1>1, <1>3, LeftFits
  <2> HIDE DEF drafts
  <2>4. RoomsOf(Left, drafts, k) = RoomsOf(Remaining, drafts, k)
    BY <2>3, RoomsOfFrame
  <2>5. IsFiniteSet(drafts) /\ IsFiniteSet(CommittedBlocks)
    BY <1>3, FiniteBlocks
  <2>6. RoomsOf(Remaining, CommittedBlocks \cup drafts, k)
          = RoomsOf(Remaining, CommittedBlocks, k) + RoomsOf(Remaining, drafts, k)
    BY <1>3, <2>5, RoomsOfUnion
  <2> QED
    BY <1>1, <2>1, <2>2, <2>4, <2>6 DEF BlockedAccounting
<1>7. TypeOK' /\ SoldInv' /\ EntryClaims'
  BY <1>2, <1>6, BlockStep
<1>8. GTypeOK'
  BY <1>1, <1>2, <1>7 DEF GTypeOK, GroupStatus
<1>9. HistoryFits' /\ FreshBlocks'
  BY <1>1, <1>2 DEF HistoryFits, FreshBlocks
<1>10. CancelledHoldsNothing'
  <2> SUFFICES ASSUME NEW b \in CommittedBlocks \cup drafts,
                      group'[GroupOf[b]] = "CANCELLED", NEW k \in Key
               PROVE  Remaining[b][k] = 0
    BY <1>4, <1>5 DEF CancelledHoldsNothing
  <2>1. GroupOf[b] # g /\ group[GroupOf[b]] = "CANCELLED"
    BY <1>1, <1>2 DEF GTypeOK
  <2>2. b \in CommittedBlocks
    BY <2>1 DEF BlocksOf
  <2> QED
    BY <1>1, <2>1, <2>2 DEF CancelledHoldsNothing
<1>11. PickupAccounting'
  BY <1>1, <1>2, PickupQuiet
<1> QED
  BY <1>7, <1>8, <1>9, <1>6, <1>10, <1>11 DEF GroupInv

\* Committed blocks that give back what they have left leave the rows by as
\* much, and hold nothing afterwards.
LEMMA GiveBackStep ==
    ASSUME GroupInv, NEW g \in Group, GiveBack(g),
           UNCHANGED <<block, blocked, pickedUp>>,
           UNCHANGED <<holdStatus, lapsed, nights, res, usedKeys, syncing, entry, stay>>,
           \/ group' = group
           \/ group' = [group EXCEPT ![g] = "CANCELLED"]
    PROVE  GroupInv'
<1> DEFINE mine == BlocksOf(g, "COMMITTED")
           back == [k \in Key |-> - RoomsOf(Remaining, mine, k)]
<1>1. /\ GTypeOK /\ HistoryFits /\ BlockedAccounting /\ TypeOK /\ FreshBlocks
      /\ CancelledHoldsNothing /\ PickupAccounting
  BY DEF GroupInv, GTypeOK
<1>2. /\ BlockRooms(back)
      /\ released' = [b \in Block |->
            IF b \in mine THEN [k \in Key |-> released[b][k] + Remaining[b][k]]
            ELSE released[b]]
  BY DEF GiveBack, GiveBackOf
<1>3. mine \subseteq CommittedBlocks /\ CommittedBlocks \subseteq Block
  BY DEF BlocksOf, CommittedBlocks
<1>4. CommittedBlocks' = CommittedBlocks
  BY DEF CommittedBlocks
<1>5. ASSUME NEW b \in Block, NEW k \in Key
      PROVE  /\ Remaining'[b][k] = IF b \in mine THEN 0 ELSE Remaining[b][k]
             /\ released'[b][k] \in 0..MaxRooms
             /\ pickedUp'[b][k] + released'[b][k] <= blocked'[b][k]
  <2>1. /\ blocked[b][k] \in 0..MaxRooms /\ pickedUp[b][k] \in 0..MaxRooms
        /\ released[b][k] \in 0..MaxRooms
    BY <1>1 DEF GTypeOK
  <2>7. /\ Remaining[b][k] = blocked[b][k] - pickedUp[b][k] - released[b][k]
        /\ Remaining[b][k] \in 0..MaxRooms
    BY <1>1, LeftFits
  <2>2. released'[b][k] = IF b \in mine THEN released[b][k] + Remaining[b][k]
                           ELSE released[b][k]
    BY <1>2
  <2>3. Left'[b][k] = blocked[b][k] - pickedUp[b][k] - released'[b][k]
    BY DEF Left
  <2>4. Remaining'[b][k] = IF Left'[b][k] > 0 THEN Left'[b][k] ELSE 0
    BY DEF Remaining
  <2>5. b \in mine => Left'[b][k] = 0
    BY <2>1, <2>2, <2>3, <2>7, MaxRoomsAssumption
  <2>6. b \notin mine => Left'[b][k] = Remaining[b][k]
    BY <2>1, <2>2, <2>3, <2>7, MaxRoomsAssumption
  <2> HIDE DEF mine
  <2> QED
    BY <2>1, <2>2, <2>4, <2>5, <2>6, <2>7, MaxRoomsAssumption
<1>6. BlockedAccounting'
  <2> SUFFICES ASSUME NEW k \in Key
               PROVE  inv'[k].groupBlocked = RoomsOf(Remaining', CommittedBlocks, k)
    BY <1>4 DEF BlockedAccounting
  <2> DEFINE rest == CommittedBlocks \ mine
  <2>1. inv'[k].groupBlocked = inv[k].groupBlocked - RoomsOf(Remaining, mine, k)
    <3>1. inv'[k].groupBlocked = inv[k].groupBlocked + back[k]
      <4> HIDE DEF back
      <4> QED
        BY <1>1, <1>2, BlockRoomsBlocked
    <3>2. inv[k].groupBlocked \in Nat
      BY <1>1 DEF TypeOK, Row
    <3>3. IsFiniteSet(mine)
      BY <1>3, FiniteBlocks
    <3>4. RoomsOf(Remaining, mine, k) \in Nat
      BY <3>3, RoomsOfType
    <3> QED
      BY <3>1, <3>2, <3>4
  <2>2. /\ \A b \in mine : Remaining'[b][k] = 0
        /\ \A b \in rest : Remaining'[b][k] = Remaining[b][k]
    BY <1>3, <1>5
  <2>3. /\ mine \cap rest = {} /\ mine \cup rest = CommittedBlocks
        /\ mine \subseteq Block /\ rest \subseteq Block
    BY <1>3
  <2> HIDE DEF mine, rest
  <2>4. IsFiniteSet(mine) /\ IsFiniteSet(rest)
    BY <2>3, FiniteBlocks
  <2>5. RoomsOf(Remaining', mine, k) = 0
    BY <2>2, RoomsOfEmptied
  <2>6. RoomsOf(Remaining', rest, k) = RoomsOf(Remaining, rest, k)
    BY <2>2, RoomsOfFrame
  <2>7. RoomsOf(Remaining', mine \cup rest, k)
          = RoomsOf(Remaining', mine, k) + RoomsOf(Remaining', rest, k)
    BY <2>3, <2>4, RoomsOfUnion
  <2>8. RoomsOf(Remaining, mine \cup rest, k)
          = RoomsOf(Remaining, mine, k) + RoomsOf(Remaining, rest, k)
    BY <2>3, <2>4, RoomsOfUnion
  <2>9. RoomsOf(Remaining, mine, k) \in Nat /\ RoomsOf(Remaining, rest, k) \in Nat
    BY <2>4, RoomsOfType
  <2>10. inv[k].groupBlocked = RoomsOf(Remaining, CommittedBlocks, k)
    BY <1>1 DEF BlockedAccounting
  <2>11. RoomsOf(Remaining', CommittedBlocks, k) = 0 + RoomsOf(Remaining, rest, k)
    BY <2>3, <2>5, <2>6, <2>7, Zenon
  <2>12. RoomsOf(Remaining, CommittedBlocks, k)
           = RoomsOf(Remaining, mine, k) + RoomsOf(Remaining, rest, k)
    BY <2>3, <2>8, Zenon
  <2> QED
    BY <2>1, <2>9, <2>10, <2>11, <2>12
<1>7. TypeOK' /\ SoldInv' /\ EntryClaims'
  BY <1>2, <1>6, BlockStep
<1>8. GTypeOK'
  <2>1. released' \in [Block -> [Key -> 0..MaxRooms]]
    <3>1. \A b \in Block : released'[b] \in [Key -> 0..MaxRooms]
      BY <1>1, <1>2, <1>5 DEF GTypeOK
    <3> QED
      BY <1>2, <3>1
  <2>2. group' \in [Group -> GroupStatus]
    BY <1>1 DEF GTypeOK, GroupStatus
  <2> QED
    BY <1>1, <1>7, <2>1, <2>2 DEF GTypeOK
<1>9. HistoryFits' /\ FreshBlocks'
  BY <1>1, <1>5 DEF HistoryFits, FreshBlocks
<1>10. CancelledHoldsNothing'
  <2> SUFFICES ASSUME NEW b \in CommittedBlocks, group'[GroupOf[b]] = "CANCELLED",
                      NEW k \in Key
               PROVE  Remaining'[b][k] = 0
    BY <1>4 DEF CancelledHoldsNothing
  <2>1. b \in Block /\ block[b] = "COMMITTED" /\ GroupOf[b] \in Group
    BY <1>3, GroupAssumption DEF CommittedBlocks
  <2>2. CASE GroupOf[b] = g
    BY <1>5, <2>1, <2>2 DEF BlocksOf
  <2>3. CASE GroupOf[b] # g
    <3>1. group[GroupOf[b]] = "CANCELLED"
      BY <1>1, <2>1, <2>3 DEF GTypeOK
    <3>2. Remaining[b][k] = 0
      BY <1>1, <3>1 DEF CancelledHoldsNothing
    <3> QED
      BY <1>5, <2>1, <3>2
  <2> QED
    BY <2>2, <2>3
<1>11. PickupAccounting'
  BY <1>1, PickupQuiet
<1> QED
  BY <1>6, <1>7, <1>8, <1>9, <1>10, <1>11 DEF GroupInv

\* An entry is checked before it has a reservation, so its rooms count nowhere.
LEMMA CheckEntryStep ==
    ASSUME GroupInv, NEW e \in Entry, NEW need \in Stays, CheckEntry(e, need)
    PROVE  GroupInv'
<1>1. /\ GTypeOK /\ HistoryFits /\ BlockedAccounting /\ TypeOK /\ FreshBlocks
      /\ CancelledHoldsNothing /\ PickupAccounting /\ EntryClaims /\ SoldInv
  BY DEF GroupInv, GTypeOK
<1>2. /\ entry[e] = "NONE" /\ e \in Booking
      /\ entry' = [entry EXCEPT ![e] = "CHECKED"]
      /\ nights' = [nights EXCEPT ![e] = need]
      /\ UNCHANGED <<inv, holdStatus, lapsed, res, usedKeys, group, syncing, block, stay>>
      /\ blocked' = blocked /\ pickedUp' = pickedUp /\ released' = released
  BY DEF CheckEntry, nightVars, Booking
<1>3. need \in [Key -> 0..MaxRooms] /\ \A k \in Key : need[k] <= 1
  BY DEF Stays, Needs
<1>4. TypeOK'
  BY <1>1, <1>2, <1>3 DEF TypeOK
<1>5. GTypeOK'
  BY <1>1, <1>2, <1>4 DEF GTypeOK
<1>6. SoldInv'
  <2>1. e \notin LiveReservations
    BY <1>1, <1>2 DEF EntryClaims, LiveReservations
  <2>2. \A b \in LiveReservations : nights'[b] = nights[b]
    BY <1>1, <1>2, <2>1 DEF TypeOK, LiveReservations
  <2> QED
    BY <1>1, <1>2, <2>2, SoldQuiet
<1>7. EntryClaims'
  <2> SUFFICES ASSUME NEW x \in Entry
               PROVE  /\ res'[x] # "NONE" <=> entry'[x] = "RESERVATION_CREATED"
                      /\ \A k \in Key : nights'[x][k] <= 1
    BY DEF EntryClaims
  <2>1. x \in Booking
    BY DEF Booking
  <2>2. CASE x = e
    BY <1>1, <1>2, <1>3, <2>1, <2>2 DEF EntryClaims, TypeOK, GTypeOK
  <2>3. CASE x # e
    BY <1>1, <1>2, <2>1, <2>3 DEF EntryClaims, TypeOK, GTypeOK
  <2> QED
    BY <2>2, <2>3
<1>8. HistoryFits' /\ FreshBlocks'
  BY <1>1, <1>2 DEF HistoryFits, FreshBlocks
<1>9. Remaining' = Remaining /\ CommittedBlocks' = CommittedBlocks
  BY <1>2 DEF Remaining, Left, CommittedBlocks
<1>10. BlockedAccounting' /\ CancelledHoldsNothing'
  BY <1>1, <1>2, <1>9 DEF BlockedAccounting, CancelledHoldsNothing
<1>11. PickupAccounting'
  <2> SUFFICES ASSUME NEW g \in Group, NEW k \in Key
               PROVE  RoomsOf(pickedUp, {b \in Block : GroupOf[b] = g}, k)
                        = RoomsOf(nights', GroupReservations(g)', k)
    BY <1>2 DEF PickupAccounting
  <2>1. GroupReservations(g)' = GroupReservations(g)
    BY <1>1, <1>2 DEF GroupReservations, EntriesOf, GTypeOK
  <2>2. \A x \in GroupReservations(g) : nights'[x][k] = nights[x][k]
    BY <1>1, <1>2 DEF GroupReservations, EntriesOf, TypeOK
  <2>3. RoomsOf(nights', GroupReservations(g), k) = RoomsOf(nights, GroupReservations(g), k)
    BY <2>2, RoomsOfFrame
  <2> QED
    BY <1>1, <2>1, <2>3 DEF PickupAccounting
<1> QED
  BY <1>5, <1>6, <1>7, <1>8, <1>10, <1>11 DEF GroupInv

\* What a pickup does to one row: one room of each night moves from the group
\* to sold, if the stay needs the night.
LEMMA PickupRow ==
    ASSUME GroupInv, NEW e \in Entry, NEW from \in [Key -> Block], Pickup(e, from),
           NEW k \in Key
    PROVE  /\ nights[e][k] \in 0..1
           /\ k \in RowsOf(nights[e]) <=> nights[e][k] = 1
           /\ inv'[k] = [available    |-> inv[k].available,
                         held         |-> inv[k].held,
                         sold         |-> inv[k].sold + nights[e][k],
                         groupBlocked |-> inv[k].groupBlocked - nights[e][k],
                         stopSell     |-> inv[k].stopSell]
<1>1. /\ nights[e][k] \in 0..MaxRooms /\ nights[e][k] <= 1 /\ inv[k] \in Row
  BY DEF GroupInv, GTypeOK, TypeOK, EntryClaims, Booking
<1>2. nights[e][k] \in 0..1
  BY <1>1, MaxRoomsAssumption
<1>3. k \in RowsOf(nights[e]) <=> nights[e][k] = 1
  BY <1>2 DEF RowsOf
<1>4. inv'[k] = IF k \in RowsOf(nights[e])
                THEN [inv[k] EXCEPT !.groupBlocked = @ - 1, !.sold = @ + 1]
                ELSE inv[k]
  BY DEF Pickup, RoomsSold
<1>5. CASE nights[e][k] = 1
  BY <1>1, <1>2, <1>3, <1>4, <1>5 DEF Row
<1>6. CASE nights[e][k] = 0
  BY <1>1, <1>2, <1>3, <1>4, <1>6 DEF Row
<1> QED
  BY <1>2, <1>3, <1>5, <1>6

\* What it does to one night of a block: the block it takes the room from has
\* one picked up more, and one left less.
LEMMA PickupNight ==
    ASSUME GroupInv, NEW e \in Entry, NEW from \in [Key -> Block], Pickup(e, from),
           NEW b \in Block, NEW k \in Key
    PROVE  /\ pickedUp'[b][k] \in 0..MaxRooms
           /\ pickedUp'[b][k] + released'[b][k] <= blocked'[b][k]
           /\ nights[e][k] = 1 /\ from[k] = b =>
                 /\ pickedUp'[b][k] = pickedUp[b][k] + 1
                 /\ Remaining'[b][k] = Remaining[b][k] - 1
                 /\ Remaining[b][k] \in 0..MaxRooms /\ Remaining'[b][k] \in 0..MaxRooms
           /\ nights[e][k] = 0 \/ from[k] # b =>
                 /\ pickedUp'[b][k] = pickedUp[b][k]
                 /\ Remaining'[b][k] = Remaining[b][k]
<1>1. GTypeOK /\ HistoryFits
  BY DEF GroupInv
<1>2. /\ blocked[b][k] \in 0..MaxRooms /\ pickedUp[b][k] \in 0..MaxRooms
      /\ released[b][k] \in 0..MaxRooms
      /\ pickedUp[b][k] + released[b][k] <= blocked[b][k]
  BY <1>1 DEF GTypeOK, HistoryFits
<1>3. /\ Left[b][k] = blocked[b][k] - pickedUp[b][k] - released[b][k]
      /\ Left[b][k] \in 0..MaxRooms
      /\ Remaining[b][k] = Left[b][k]
  BY <1>1, LeftFits
<1>4. nights[e][k] \in 0..1 /\ (k \in RowsOf(nights[e]) <=> nights[e][k] = 1)
  BY PickupRow
<1>5. /\ pickedUp'[b][k] = IF k \in RowsOf(nights[e]) /\ from[k] = b
                           THEN pickedUp[b][k] + 1 ELSE pickedUp[b][k]
      /\ k \in RowsOf(nights[e]) => Left[from[k]][k] > 0
      /\ blocked' = blocked /\ released' = released
  BY DEF Pickup, Transfer
<1>6. /\ Left'[b][k] = blocked[b][k] - pickedUp'[b][k] - released[b][k]
      /\ Remaining'[b][k] = IF Left'[b][k] > 0 THEN Left'[b][k] ELSE 0
  BY <1>5 DEF Left, Remaining
<1>7. CASE nights[e][k] = 1 /\ from[k] = b
  <2>1. pickedUp'[b][k] = pickedUp[b][k] + 1 /\ Left[b][k] > 0
    BY <1>4, <1>5, <1>7
  <2>2. Left'[b][k] = Left[b][k] - 1 /\ Remaining'[b][k] = Left[b][k] - 1
    BY <1>2, <1>3, <1>6, <2>1, MaxRoomsAssumption
  <2> QED
    BY <1>2, <1>3, <1>5, <1>7, <2>1, <2>2, MaxRoomsAssumption
<1>8. CASE nights[e][k] = 0 \/ from[k] # b
  <2>1. pickedUp'[b][k] = pickedUp[b][k]
    BY <1>4, <1>5, <1>8
  <2>2. Remaining'[b][k] = Remaining[b][k]
    BY <1>2, <1>3, <1>6, <2>1, MaxRoomsAssumption
  <2> QED
    BY <1>2, <1>5, <1>8, <2>1, <2>2, MaxRoomsAssumption
<1> QED
  BY <1>4, <1>7, <1>8

\* The total of some blocks' pickups moves by what one of them moves.
LEMMA ChargedPickup ==
    ASSUME NEW k, NEW b, NEW S, b \in S, IsFiniteSet(S),
           pickedUp[b][k] \in 0..MaxRooms, pickedUp'[b][k] \in 0..MaxRooms,
           \A c \in S \ {b} : pickedUp[c][k] = pickedUp'[c][k]
    PROVE  RoomsOf(pickedUp', S, k)
             = RoomsOf(pickedUp, S, k) - pickedUp[b][k] + pickedUp'[b][k]
BY RoomsOfChange

\* A reservation of the list takes over rooms its group had blocked.
LEMMA PickupStep ==
    ASSUME GroupInv, NEW e \in Entry, NEW from \in [Key -> Block], Pickup(e, from)
    PROVE  GroupInv'
<1>1. /\ GTypeOK /\ HistoryFits /\ BlockedAccounting /\ TypeOK /\ FreshBlocks
      /\ CancelledHoldsNothing /\ PickupAccounting /\ EntryClaims /\ SoldInv
  BY DEF GroupInv, GTypeOK
<1>2. /\ entry[e] = "READY" /\ e \in Booking /\ e \notin Hold
      /\ entry' = [entry EXCEPT ![e] = "RESERVATION_CREATED"]
      /\ res' = [res EXCEPT ![e] = "CONFIRMED"]
      /\ UNCHANGED <<holdStatus, lapsed, nights, usedKeys, group, syncing, block,
                     blocked, released, stay>>
  BY InventoryAssumption DEF Pickup, Transfer, Booking
<1>3. /\ inv' = RoomsSold(e)
      /\ \A k \in Key : RowValid(inv'[k])
      /\ pickedUp' = [b \in Block |-> [k \in Key |->
                        IF k \in RowsOf(nights[e]) /\ from[k] = b
                        THEN pickedUp[b][k] + 1 ELSE pickedUp[b][k]]]
  BY DEF Pickup, Transfer
<1>4. ASSUME NEW k \in Key, nights[e][k] = 1
      PROVE  /\ from[k] \in Block /\ block[from[k]] = "COMMITTED"
             /\ GroupOf[from[k]] = GroupOf[e] /\ group[GroupOf[e]] \in Running
  <2>1. k \in RowsOf(nights[e])
    BY <1>4, PickupRow
  <2> QED
    BY <2>1 DEF Pickup, Transfer, BlocksOf
<1>5. res[e] = "NONE"
  BY <1>1, <1>2 DEF EntryClaims
<1>6. CommittedBlocks' = CommittedBlocks /\ CommittedBlocks \subseteq Block
  BY <1>2 DEF CommittedBlocks
<1>7. BlockedAccounting'
  <2> SUFFICES ASSUME NEW k \in Key
               PROVE  inv'[k].groupBlocked = RoomsOf(Remaining', CommittedBlocks, k)
    BY <1>6 DEF BlockedAccounting
  <2>1. /\ inv'[k].groupBlocked = inv[k].groupBlocked - nights[e][k]
        /\ nights[e][k] \in 0..1
    <3>1. inv'[k] = [available    |-> inv[k].available,
                     held         |-> inv[k].held,
                     sold         |-> inv[k].sold + nights[e][k],
                     groupBlocked |-> inv[k].groupBlocked - nights[e][k],
                     stopSell     |-> inv[k].stopSell]
      BY PickupRow
    <3> QED
      BY <3>1, PickupRow
  <2>2. IsFiniteSet(CommittedBlocks)
    BY <1>6, FiniteBlocks
  <2>3. /\ inv[k].groupBlocked = RoomsOf(Remaining, CommittedBlocks, k)
        /\ RoomsOf(Remaining, CommittedBlocks, k) \in Nat
    BY <1>1, <2>2, RoomsOfType DEF BlockedAccounting
  <2>4. CASE nights[e][k] = 1
    <3> DEFINE b == from[k]
    <3>1. b \in Block /\ b \in CommittedBlocks
      BY <1>4, <2>4 DEF CommittedBlocks
    <3>2. /\ Remaining'[b][k] = Remaining[b][k] - 1
          /\ Remaining[b][k] \in 0..MaxRooms /\ Remaining'[b][k] \in 0..MaxRooms
      BY <2>4, <3>1, PickupNight
    <3>3. \A c \in CommittedBlocks \ {b} : Remaining[c][k] = Remaining'[c][k]
      BY <1>6, PickupNight
    <3> HIDE DEF b
    <3>4. RoomsOf(Remaining', CommittedBlocks, k)
            = RoomsOf(Remaining, CommittedBlocks, k) - Remaining[b][k] + Remaining'[b][k]
      BY <2>2, <3>1, <3>2, <3>3, ChargedBlock
    <3> QED
      BY <2>1, <2>3, <2>4, <3>2, <3>4, MaxRoomsAssumption
  <2>5. CASE nights[e][k] = 0
    <3>1. \A b \in CommittedBlocks : Remaining'[b][k] = Remaining[b][k]
      BY <1>6, <2>5, PickupNight
    <3>2. RoomsOf(Remaining', CommittedBlocks, k) = RoomsOf(Remaining, CommittedBlocks, k)
      BY <3>1, RoomsOfFrame
    <3> QED
      BY <2>1, <2>3, <2>5, <3>2
  <2> QED
    BY <2>1, <2>4, <2>5
<1>8. TypeOK'
  <2>1. ASSUME NEW k \in Key
        PROVE  inv'[k] \in Row
    <3>1. inv'[k] = [available    |-> inv[k].available,
                     held         |-> inv[k].held,
                     sold         |-> inv[k].sold + nights[e][k],
                     groupBlocked |-> inv[k].groupBlocked - nights[e][k],
                     stopSell     |-> inv[k].stopSell]
      BY PickupRow
    <3>2. nights[e][k] \in 0..1 /\ inv[k] \in Row
      BY <1>1, PickupRow DEF TypeOK
    <3>3. IsFiniteSet(CommittedBlocks')
      BY <1>6, FiniteBlocks
    <3>4. inv'[k].groupBlocked \in Nat
      BY <1>7, <3>3, RoomsOfType DEF BlockedAccounting
    <3> QED
      BY <3>1, <3>2, <3>4 DEF Row
  <2>2. inv' \in [Key -> Row]
    BY <1>3, <2>1 DEF RoomsSold
  <2> QED
    BY <1>1, <1>2, <1>3, <2>2 DEF TypeOK, ReservationStatus
<1>9. GTypeOK'
  <2>1. pickedUp' \in [Block -> [Key -> 0..MaxRooms]]
    <3>1. ASSUME NEW b \in Block
          PROVE  pickedUp'[b] \in [Key -> 0..MaxRooms]
      <4>1. \A k \in Key : pickedUp'[b][k] \in 0..MaxRooms
        BY PickupNight
      <4> QED
        BY <1>3, <4>1
    <3> QED
      BY <1>3, <3>1
  <2> QED
    BY <1>1, <1>2, <1>8, <2>1 DEF GTypeOK
<1>10. SoldInv'
  <2>1. e \notin LiveReservations /\ LiveReservations' = LiveReservations \cup {e}
    BY <1>1, <1>2, <1>5 DEF LiveReservations, TypeOK
  <2>2. ASSUME NEW k \in Key
        PROVE  inv'[k].sold = RoomsOf(nights, LiveReservations \cup {e}, k)
    <3>1. inv'[k] = [available    |-> inv[k].available,
                     held         |-> inv[k].held,
                     sold         |-> inv[k].sold + nights[e][k],
                     groupBlocked |-> inv[k].groupBlocked - nights[e][k],
                     stopSell     |-> inv[k].stopSell]
      BY PickupRow
    <3>2. nights[e][k] \in 0..MaxRooms /\ IsFiniteSet(LiveReservations)
      BY <1>1, <1>2, NightsType, FiniteBookings DEF LiveReservations
    <3>3. RoomsOf(nights, LiveReservations \cup {e}, k)
            = RoomsOf(nights, LiveReservations, k) + nights[e][k]
      BY <2>1, <3>2, RoomsOfJoin
    <3> QED
      BY <1>1, <3>1, <3>3 DEF SoldInv, SoldAccounting
  <2>3. SoldAccounting'
    BY <1>2, <2>1, <2>2 DEF SoldAccounting
  <2>4. OneClaim'
    BY <1>1, <1>2 DEF SoldInv, OneClaim, TypeOK, Booking
  <2>5. CancelOnce'
    BY <1>1, <1>2, <1>5 DEF SoldInv, CancelOnce, TypeOK
  <2> QED
    BY <2>3, <2>4, <2>5 DEF SoldInv
<1>11. EntryClaims'
  <2> SUFFICES ASSUME NEW x \in Entry
               PROVE  res'[x] # "NONE" <=> entry'[x] = "RESERVATION_CREATED"
    BY <1>1, <1>2 DEF EntryClaims
  <2> QED
    BY <1>1, <1>2 DEF EntryClaims, TypeOK, GTypeOK, Booking
<1>12. HistoryFits'
  BY PickupNight DEF HistoryFits
<1>13. FreshBlocks'
  BY <1>1, <1>2 DEF FreshBlocks
<1>14. CancelledHoldsNothing'
  <2> SUFFICES ASSUME NEW b \in CommittedBlocks, group[GroupOf[b]] = "CANCELLED",
                      NEW k \in Key
               PROVE  Remaining'[b][k] = 0
    BY <1>2, <1>6 DEF CancelledHoldsNothing
  <2>1. Remaining[b][k] = 0 /\ b \in Block
    BY <1>1, <1>6 DEF CancelledHoldsNothing
  <2>2. nights[e][k] = 0 \/ from[k] # b
    <3>1. nights[e][k] \in 0..1
      BY PickupRow
    <3> QED
      BY <1>4, <3>1 DEF Running
  <2> QED
    BY <2>1, <2>2, PickupNight
<1>15. PickupAccounting'
  <2> SUFFICES ASSUME NEW g \in Group, NEW k \in Key
               PROVE  RoomsOf(pickedUp', {b \in Block : GroupOf[b] = g}, k)
                        = RoomsOf(nights, GroupReservations(g)', k)
    BY <1>2 DEF PickupAccounting
  <2> DEFINE mine == {b \in Block : GroupOf[b] = g}
             R    == GroupReservations(g)
  <2>1. R' = IF GroupOf[e] = g THEN R \cup {e} ELSE R
    BY <1>1, <1>2 DEF GroupReservations, EntriesOf, GTypeOK
  <2>2. R \subseteq Booking /\ e \notin R /\ mine \subseteq Block
    BY <1>2 DEF GroupReservations, EntriesOf, Booking
  <2>3. nights[e][k] \in 0..1 /\ nights[e][k] \in 0..MaxRooms
    BY <1>1, <1>2, PickupRow, NightsType
  <2>4. RoomsOf(nights, R \cup {e}, k) = RoomsOf(nights, R, k) + nights[e][k]
    <3> HIDE DEF R
    <3>1. IsFiniteSet(R)
      BY <2>2, FiniteBookings
    <3> QED
      BY <2>2, <2>3, <3>1, RoomsOfJoin
  <2>5. /\ RoomsOf(pickedUp, mine, k) = RoomsOf(nights, R, k)
        /\ RoomsOf(pickedUp, mine, k) \in Nat
    <3>1. IsFiniteSet(mine)
      BY <2>2, FiniteBlocks
    <3> QED
      BY <1>1, <3>1, RoomsOfType DEF PickupAccounting
  <2>6. CASE GroupOf[e] = g /\ nights[e][k] = 1
    <3> DEFINE b == from[k]
    <3>1. b \in Block /\ b \in mine
      BY <1>4, <2>6
    <3>2. pickedUp'[b][k] = pickedUp[b][k] + 1
      BY <2>6, <3>1, PickupNight
    <3>7. pickedUp[b][k] \in 0..MaxRooms
      BY <1>1, <3>1 DEF GTypeOK
    <3>5. pickedUp'[b][k] \in 0..MaxRooms
      BY <3>1, PickupNight
    <3>3. \A c \in mine \ {b} : pickedUp[c][k] = pickedUp'[c][k]
      BY <2>2, PickupNight
    <3>6. IsFiniteSet(mine)
      BY <2>2, FiniteBlocks
    <3> HIDE DEF b, mine, R
    <3>4. RoomsOf(pickedUp', mine, k)
            = RoomsOf(pickedUp, mine, k) - pickedUp[b][k] + pickedUp'[b][k]
      BY <3>1, <3>3, <3>5, <3>6, <3>7, ChargedPickup
    <3> QED
      BY <2>1, <2>4, <2>5, <2>6, <3>2, <3>4, <3>7, MaxRoomsAssumption DEF mine, R
  <2>7. CASE GroupOf[e] # g \/ nights[e][k] = 0
    <3>1. \A b \in mine : pickedUp'[b][k] = pickedUp[b][k]
      <4> SUFFICES ASSUME NEW b \in mine PROVE pickedUp'[b][k] = pickedUp[b][k]
        OBVIOUS
      <4>1. nights[e][k] = 0 \/ from[k] # b
        BY <1>4, <2>3, <2>7
      <4> QED
        BY <2>2, <4>1, PickupNight
    <3> HIDE DEF mine
    <3>2. RoomsOf(pickedUp', mine, k) = RoomsOf(pickedUp, mine, k)
      BY <3>1, RoomsOfFrame
    <3> HIDE DEF R
    <3>3. RoomsOf(nights, R', k) = RoomsOf(nights, R, k)
      BY <2>1, <2>4, <2>5, <2>7
    <3> QED
      BY <2>5, <3>2, <3>3 DEF mine, R
  <2> QED
    BY <2>3, <2>6, <2>7
<1> QED
  BY <1>7, <1>9, <1>10, <1>11, <1>12, <1>13, <1>14, <1>15 DEF GroupInv

\* One step of groups, blocks, rooming lists, stays or the ledger.
LEMMA GroupNext ==
    ASSUME ClientKey = {}
    PROVE  GroupInv /\ [GNext]_allVars => GroupInv'
<1> SUFFICES ASSUME GroupInv, [GNext]_allVars PROVE GroupInv'
  OBVIOUS
<1>1. CASE RoomsNext /\ UNCHANGED groupVars
  BY <1>1, StatusSteps
<1>2. CASE BlockNext
  <2>1. CASE \E b \in Block, want \in Needs : AddBlock(b, want) \/ UpdateBlock(b, want)
    BY <2>1, AddBlockStep, UpdateBlockStep
  <2>2. CASE \E g \in Group : Tentative(g) \/ Confirm(g)
    BY <2>2, StatusSteps, ConfirmStep
  <2>3. ASSUME NEW g \in Group, Release(g) \/ CancelGroup(g)
        PROVE  GroupInv'
    <3>1. /\ GiveBack(g)
          /\ UNCHANGED <<block, blocked, pickedUp>>
          /\ UNCHANGED <<holdStatus, lapsed, nights, res, usedKeys, syncing, entry, stay>>
          /\ \/ group' = group
             \/ group' = [group EXCEPT ![g] = "CANCELLED"]
      BY <2>3 DEF Release, CancelGroup
    <3> QED
      BY <3>1, GiveBackStep
  <2> QED
    BY <1>2, <2>1, <2>2, <2>3 DEF BlockNext
<1>3. CASE EntryNext
  BY <1>3, CheckEntryStep, StatusSteps, PickupStep DEF EntryNext
<1>4. CASE StayNext
  BY <1>4, StatusSteps DEF StayNext
<1>5. CASE UNCHANGED allVars
  BY <1>5, StatusSteps DEF allVars
<1> QED
  BY <1>1, <1>2, <1>3, <1>4, <1>5 DEF GNext

\* The invariant holds in every reachable state.
LEMMA GroupInvariant ==
    ASSUME ClientKey = {}
    PROVE  GSpec => []GroupInv
<1>1. GInit => GroupInv
  BY GroupInit
<1>2. GroupInv /\ [GNext]_allVars => GroupInv'
  BY GroupNext
<1> QED
  BY <1>1, <1>2, PTL DEF GSpec

-----------------------------------------------------------------------------
(***************************************************************************)
(* The theorems.                                                           *)
(***************************************************************************)

\* The rows and the blocks agree in every reachable state, for any number of
\* groups, blocks, entries, rows and rooms: groupBlocked and sold are the sums
\* of their owners' rooms, no block gives out more than it has, and those of a
\* cancelled group hold nothing.
THEOREM RowsAndBlocksAgree ==
    ASSUME ClientKey = {}
    PROVE  GSpec => []RowsMatchBlocks
<1>1. GroupInv => RowsMatchBlocks
  BY DEF GroupInv, RowsMatchBlocks, SoldInv
<1> QED
  BY <1>1, GroupInvariant, PTL

\* The rooms picked up from a group's blocks are those of its reservations.
THEOREM PickedUpOnce ==
    ASSUME ClientKey = {}
    PROVE  GSpec => []PickupAccounting
<1>1. GroupInv => PickupAccounting
  BY DEF GroupInv
<1> QED
  BY <1>1, GroupInvariant, PTL

\* The rows a pickup leaves pass the table's CHECK wherever the rows are not
\* already oversold: what PickupNeverShort says of ENABLED, in terms of the
\* rows that Pickup writes.
PickupFits ==
    \A e \in Entry, from \in [Key -> CommittedBlocks] :
        (\A k \in RowsOf(nights[e]) : Left[from[k]][k] > 0 /\ Free(inv[k]) >= 0)
        => \A k \in Key : RowValid(RoomsSold(e)[k])

\* The invariant leaves room, on every row, for what a group has blocked.
LEMMA PickupFitsRows == GroupInv => PickupFits
<1> SUFFICES ASSUME GroupInv, NEW e \in Entry, NEW from \in [Key -> CommittedBlocks],
                    \A k \in RowsOf(nights[e]) : Left[from[k]][k] > 0 /\ Free(inv[k]) >= 0,
                    NEW k \in Key
             PROVE  RowValid(RoomsSold(e)[k])
  BY DEF PickupFits
<1>1. TypeOK /\ GTypeOK /\ HistoryFits /\ BlockedAccounting
  BY DEF GroupInv, GTypeOK
<1>2. inv[k] \in Row /\ RowValid(inv[k])
  BY <1>1 DEF TypeOK
<1>3. CASE k \in RowsOf(nights[e])
  <2>1. from[k] \in CommittedBlocks /\ from[k] \in Block /\ IsFiniteSet(CommittedBlocks)
    BY FiniteBlocks DEF CommittedBlocks
  <2>2. Remaining[from[k]][k] = Left[from[k]][k] /\ Remaining[from[k]][k] \in 0..MaxRooms
    BY <1>1, <2>1, LeftFits
  <2>3. Remaining[from[k]][k] <= RoomsOf(Remaining, CommittedBlocks, k)
    BY <2>1, <2>2, RoomsOfLeave
  <2>4. inv[k].groupBlocked >= 1
    BY <1>1, <1>2, <1>3, <2>2, <2>3, MaxRoomsAssumption DEF BlockedAccounting, Row
  <2>5. RoomsSold(e)[k] = [inv[k] EXCEPT !.groupBlocked = @ - 1, !.sold = @ + 1]
    BY <1>3 DEF RoomsSold
  <2>6. inv[k].available - inv[k].held - inv[k].sold - inv[k].groupBlocked >= 0
    BY <1>3 DEF Free
  <2> QED
    BY <1>2, <2>4, <2>5, <2>6 DEF Row, RowValid
<1>4. CASE k \notin RowsOf(nights[e])
  BY <1>2, <1>4 DEF RoomsSold
<1> QED
  BY <1>3, <1>4

\* A room left in a block can be picked up, for any hotel and group, unless
\* its row was oversold by a cut of the allotment.
THEOREM BlockedRoomsCanBeSold ==
    ASSUME ClientKey = {}
    PROVE  GSpec => []PickupFits
BY PickupFitsRows, GroupInvariant, PTL

-----------------------------------------------------------------------------
(***************************************************************************)
(* Only a cut of the allotment oversells a row.                            *)
(***************************************************************************)

\* The step takes nothing from what row k can sell, leaves it enough, or
\* lowers its allotment.
Spared(k) ==
    \/ Free(inv'[k]) >= Free(inv[k])
    \/ Free(inv'[k]) >= 0
    \/ inv'[k].available < inv[k].available

\* The ledger's own steps.
LEMMA LedgerSpares ==
    ASSUME TypeOK, [InvNext]_invVars, NEW k \in Key
    PROVE  Spared(k)
<1>k. inv[k] \in Row
  BY DEF TypeOK
<1>1. ASSUME NEW h \in Hold, NEW need \in Needs, CreateHold(h, need)
      PROVE  Spared(k)
  <2> DEFINE stale == StaleHolds(RowsOf(need))
  <2>1. stale \subseteq Hold
    BY DEF StaleHolds, ActiveHolds
  <2>2. need[k] \in Nat
    BY MaxRoomsAssumption DEF Needs
  <2>3. inv'[k] = [Cleared(stale)[k] EXCEPT !.held = @ + need[k]]
    BY <1>1 DEF CreateHold
  <2>4. k \in RowsOf(need) => Free(Cleared(stale)[k]) >= need[k]
    BY <1>1 DEF CreateHold
  <2>5. k \notin RowsOf(need) => need[k] = 0
    BY <2>2 DEF RowsOf
  <2> HIDE DEF stale
  <2>6. Cleared(stale)[k] = [available    |-> inv[k].available,
                             held         |-> inv[k].held - GivenBack(stale, k),
                             sold         |-> inv[k].sold,
                             groupBlocked |-> inv[k].groupBlocked,
                             stopSell     |-> inv[k].stopSell]
    BY <2>1, ClearedRow
  <2>7. GivenBack(stale, k) \in Nat
    BY <2>1, GivenBackType
  <2>8. Free(Cleared(stale)[k]) = Free(inv[k]) + GivenBack(stale, k)
    BY <1>k, <2>6, <2>7 DEF Free, Row
  <2>9. Free(inv'[k]) = Free(Cleared(stale)[k]) - need[k]
    BY <1>k, <2>2, <2>3, <2>6, <2>7 DEF Free, Row
  <2>10. Free(inv[k]) \in Int
    BY <1>k DEF Free, Row
  <2> QED
    BY <2>2, <2>4, <2>5, <2>7, <2>8, <2>9, <2>10 DEF Spared
<1>2. ASSUME NEW h \in Hold, ReleaseExpired(h)
      PROVE  Spared(k)
  <2>1. inv'[k] = [available    |-> inv[k].available,
                   held         |-> inv[k].held - GivenBack({h}, k),
                   sold         |-> inv[k].sold,
                   groupBlocked |-> inv[k].groupBlocked,
                   stopSell     |-> inv[k].stopSell]
    BY <1>2, ClearedRow DEF ReleaseExpired
  <2>2. GivenBack({h}, k) \in Nat
    BY GivenBackType
  <2> QED
    BY <1>k, <2>1, <2>2 DEF Spared, Free, Row
<1>3. ASSUME NEW h \in Hold, NEW debit \in BOOLEAN, ConvertHold(h, debit)
      PROVE  Spared(k)
  <2>1. nights[h][k] \in Nat
    BY MaxRoomsAssumption DEF TypeOK, Booking
  <2>2. inv'[k] = [inv[k] EXCEPT !.held = @ - nights[h][k], !.sold = @ + nights[h][k]]
    BY <1>3 DEF ConvertHold
  <2> QED
    BY <1>k, <2>1, <2>2 DEF Spared, Free, Row
<1>4. ASSUME NEW b \in Booking, NEW key \in ClientKey \cup {b}, Cancel(b, key)
      PROVE  Spared(k)
  <2>1. nights[b][k] \in Nat
    BY MaxRoomsAssumption DEF TypeOK
  <2>2. inv'[k] = [inv[k] EXCEPT !.sold = @ - nights[b][k]]
    BY <1>4 DEF Cancel
  <2> QED
    BY <1>k, <2>1, <2>2 DEF Spared, Free, Row
<1>5. ASSUME NEW batch \in Batches, ApplyBatch(batch)
      PROVE  Spared(k)
  <2>1. PICK ks \in SUBSET Key : batch \in [ks -> [available : 0..MaxAvailable, stopSell : BOOLEAN]]
    BY DEF Batches
  <2>2. CASE k \in DOMAIN batch
    <3>1. inv'[k] = [inv[k] EXCEPT !.available = batch[k].available,
                                   !.stopSell = batch[k].stopSell]
      BY <1>5, <2>2 DEF ApplyBatch
    <3>2. batch[k].available \in Nat
      BY <2>1, <2>2, InventoryAssumption
    <3> QED
      BY <1>k, <3>1, <3>2 DEF Spared, Free, Row
  <2>3. CASE k \notin DOMAIN batch
    <3>1. inv'[k] = inv[k]
      BY <1>5, <2>3 DEF ApplyBatch
    <3> QED
      BY <1>k, <3>1 DEF Spared, Free, Row
  <2> QED
    BY <2>2, <2>3
<1>6. ASSUME inv' = inv
      PROVE  Spared(k)
  BY <1>k, <1>6 DEF Spared, Free, Row
<1>7. CASE \E b \in Booking : ConfirmPaid(b) \/ Modify(b) \/ MarkNoShow(b)
  BY <1>6, <1>7 DEF ConfirmPaid, Modify, MarkNoShow
<1>8. CASE \E h \in Hold : Lapse(h)
  BY <1>6, <1>8 DEF Lapse
<1>9. CASE \E batch \in Batches : SaveInventory(batch) \/ AxisInbound(batch)
  BY <1>5, <1>9 DEF SaveInventory, AxisInbound
<1>10. CASE UNCHANGED invVars
  BY <1>6, <1>10 DEF invVars
<1> QED
  BY <1>1, <1>2, <1>3, <1>4, <1>7, <1>8, <1>9, <1>10 DEF InvNext, RoomsNext

\* More blocked rooms must be free, fewer take nothing.
LEMMA BlocksSpare ==
    ASSUME TypeOK, NEW delta, BlockRooms(delta), NEW k \in Key, delta[k] \in Int,
           delta[k] > 0 => Free(inv[k]) >= delta[k]
    PROVE  Spared(k)
<1>1. inv[k] \in Row
  BY DEF TypeOK
<1>2. inv'[k] = [available    |-> inv[k].available,
                 held         |-> inv[k].held,
                 sold         |-> inv[k].sold,
                 groupBlocked |-> inv[k].groupBlocked + delta[k],
                 stopSell     |-> inv[k].stopSell]
  BY BlockRoomsRow
<1>3. Free(inv'[k]) = Free(inv[k]) - delta[k] /\ Free(inv[k]) \in Int
  BY <1>1, <1>2 DEF Free, Row
<1> QED
  BY <1>3 DEF Spared

\* Any step of groups, blocks and rooming lists.
LEMMA GroupSpares ==
    ASSUME GroupInv, [GNext]_allVars, NEW k \in Key
    PROVE  Spared(k)
<1>1. GTypeOK /\ HistoryFits /\ TypeOK
  BY DEF GroupInv, GTypeOK
<1>2. ASSUME [InvNext]_invVars
      PROVE  Spared(k)
  BY <1>1, <1>2, LedgerSpares
<1>3. ASSUME NEW b \in Block, NEW want \in Needs, AddBlock(b, want)
      PROVE  Spared(k)
  <2>1. PICK delta \in {want, NoRooms} : Resize(b, want, delta)
    BY <1>3 DEF AddBlock
  <2>2. delta[k] \in Int
    BY <2>1, MaxRoomsAssumption DEF Needs, NoRooms
  <2> QED
    BY <1>1, <2>1, <2>2, BlocksSpare DEF Resize
<1>4. ASSUME NEW b \in Block, NEW want \in Needs, UpdateBlock(b, want)
      PROVE  Spared(k)
  <2>1. PICK delta \in {Growth(b, want), NoRooms} : Resize(b, want, delta)
    BY <1>4 DEF UpdateBlock
  <2>2. /\ want[k] \in Int /\ pickedUp[b][k] \in Int /\ released[b][k] \in Int
        /\ Remaining[b][k] \in Int
    <3>1. Remaining[b][k] \in 0..MaxRooms
      BY <1>1, LeftFits
    <3> QED
      BY <1>1, <3>1, MaxRoomsAssumption DEF Needs, GTypeOK
  <2>3. delta[k] \in Int
    BY <2>1, <2>2 DEF Growth, NoRooms
  <2> QED
    BY <1>1, <2>1, <2>3, BlocksSpare DEF Resize
<1>5. ASSUME NEW g \in Group, Confirm(g)
      PROVE  Spared(k)
  <2>1. IsFiniteSet(BlocksOf(g, "DRAFT"))
    BY FiniteBlocks DEF BlocksOf
  <2>2. Drafted(g)[k] \in Nat
    BY <2>1, RoomsOfType DEF Drafted
  <2>3. BlockRooms(Drafted(g)) /\ (Drafted(g)[k] > 0 => Free(inv[k]) >= Drafted(g)[k])
    BY <1>5 DEF Confirm, CommitBlocks
  <2>4. Drafted(g)[k] \in Int
    BY <2>2
  <2> QED
    BY <1>1, <2>3, <2>4, BlocksSpare
<1>6. ASSUME NEW g \in Group, GiveBack(g)
      PROVE  Spared(k)
  <2> DEFINE mine == BlocksOf(g, "COMMITTED")
             back == [j \in Key |-> - RoomsOf(Remaining, mine, j)]
  <2>1. IsFiniteSet(mine)
    BY FiniteBlocks DEF BlocksOf
  <2>2. RoomsOf(Remaining, mine, k) \in Nat
    BY <2>1, RoomsOfType
  <2>3. BlockRooms(back)
    BY <1>6 DEF GiveBack, GiveBackOf
  <2>4. back[k] \in Int /\ ~(back[k] > 0)
    BY <2>2
  <2> HIDE DEF back
  <2> QED
    BY <1>1, <2>3, <2>4, BlocksSpare
<1>7. ASSUME NEW e \in Entry, NEW from \in [Key -> Block], Pickup(e, from)
      PROVE  Spared(k)
  <2>1. /\ nights[e][k] \in 0..1
        /\ inv'[k] = [available    |-> inv[k].available,
                      held         |-> inv[k].held,
                      sold         |-> inv[k].sold + nights[e][k],
                      groupBlocked |-> inv[k].groupBlocked - nights[e][k],
                      stopSell     |-> inv[k].stopSell]
    BY <1>7, PickupRow
  <2>2. inv[k] \in Row
    BY <1>1 DEF TypeOK
  <2> QED
    BY <2>1, <2>2 DEF Spared, Free, Row
<1>8. ASSUME inv' = inv
      PROVE  Spared(k)
  <2>1. inv[k] \in Row
    BY <1>1 DEF TypeOK
  <2> QED
    BY <1>8, <2>1 DEF Spared, Free, Row
<1>9. CASE RoomsNext /\ UNCHANGED groupVars
  BY <1>2, <1>9 DEF InvNext
<1>10. CASE BlockNext
  BY <1>3, <1>4, <1>5, <1>6, <1>8, <1>10 DEF BlockNext, Tentative, Release, CancelGroup, invVars
<1>11. CASE EntryNext
  BY <1>7, <1>8, <1>11 DEF EntryNext, CheckEntry, CreateEntry, invVars
<1>12. CASE StayNext
  BY <1>8, <1>12 DEF StayNext, CheckIn, CheckOut, NoShow, MarkNoShow, SyncRead, SyncWrite, invVars
<1>13. CASE UNCHANGED allVars
  BY <1>8, <1>13 DEF allVars, invVars
<1> QED
  BY <1>9, <1>10, <1>11, <1>12, <1>13 DEF GNext

\* No hold, block, confirmation or pickup leaves a row with more rooms held,
\* sold and blocked than it has: only a cut of the allotment does.
THEOREM OnlyCutsDo ==
    ASSUME ClientKey = {}
    PROVE  GSpec => OnlyCutsOversell
<1> DEFINE Cut == \A k \in Key : Free(inv[k]) >= 0 /\ Free(inv[k])' < 0 =>
                     inv'[k].available < inv[k].available
<1>1. GroupInv /\ GroupInv' /\ [GNext]_allVars => [Cut]_allVars
  <2> SUFFICES ASSUME GroupInv, GroupInv', [GNext]_allVars, NEW k \in Key,
                      Free(inv[k]) >= 0, Free(inv'[k]) < 0
               PROVE  inv'[k].available < inv[k].available
    OBVIOUS
  <2>1. Spared(k)
    BY GroupSpares
  <2>2. inv[k] \in Row /\ inv'[k] \in Row
    BY DEF GroupInv, GTypeOK, TypeOK
  <2> QED
    BY <2>1, <2>2 DEF Spared, Free, Row
<1> QED
  BY <1>1, GroupInvariant, PTL DEF GSpec, OnlyCutsOversell
=============================================================================
