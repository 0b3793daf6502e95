------------------------------ MODULE Inventory ------------------------------
(***************************************************************************)
(* The room-night ledger of one hotel: the InventoryDay rows, the holds    *)
(* that move rooms into `held`, the conversion of a hold into a            *)
(* reservation that moves them into `sold`, the cancellation that gives    *)
(* them back, and the two writers of the allotment (the hotel              *)
(* administration and the channel manager).                                *)
(*                                                                         *)
(* Every operation below runs in one Serializable transaction that locks   *)
(* the rows it touches (SELECT ... FOR UPDATE), so it is one action; a     *)
(* request that throws rolls back and is a step that does not happen.      *)
(* The reservations of a group's rooming list (Entry) are created by       *)
(* module GroupBlocks; here they are only cancelled.                       *)
(***************************************************************************)
EXTENDS RoomCount

CONSTANTS Key,           \* InventoryDay rows: a room type on a date
          Hold,          \* identities of the holds that may be created
          Entry,         \* rooming-list entries a group may pick up
          ClientKey,     \* idempotency keys a client may send with a cancel
          MaxAvailable   \* allotment of one InventoryDay row (bound)

Booking == Hold \cup Entry

ASSUME InventoryAssumption ==
    /\ IsFiniteSet(Booking)
    /\ Hold \cap Entry = {}
    /\ ClientKey \cap Booking = {}
    /\ MaxAvailable \in Nat

VARIABLES inv,          \* the InventoryDay rows
          holdStatus,   \* InventoryHold.status, "NONE" before it is created
          lapsed,       \* the holds whose expiresAt has passed
          nights,       \* the rooms each hold or reservation has on each row
          res,          \* Reservation.status, "NONE" before it is created
          usedKeys      \* CancellationRequest.idempotencyKey (unique)

invVars == <<inv, holdStatus, lapsed, nights, res, usedKeys>>

HoldStatus == {"NONE", "ACTIVE", "EXPIRED", "CONVERTED"}
ReservationStatus ==
    {"NONE", "PENDING_PAYMENT", "CONFIRMED", "MODIFIED", "NO_SHOW", "CANCELLED"}
Row == [available : Nat, held : Nat, sold : Nat, groupBlocked : Nat,
        stopSell : BOOLEAN]

-----------------------------------------------------------------------------
ActiveHolds == {h \in Hold : holdStatus[h] = "ACTIVE"}
LiveReservations == {b \in Booking : res[b] \notin {"NONE", "CANCELLED"}}

\* What a row can still sell.
Free(row) == row.available - row.held - row.sold - row.groupBlocked

\* CHECK (inventory_nonnegative) of the table.
RowValid(row) ==
    /\ row.available >= 0 /\ row.held >= 0 /\ row.sold >= 0
    /\ row.held + row.sold <= row.available

RowsOf(need) == {k \in Key : need[k] > 0}
Needs == {need \in [Key -> 0..MaxRooms] : RowsOf(need) # {}}
NoRooms == [k \in Key |-> 0]

-----------------------------------------------------------------------------
Init ==
    /\ inv \in [Key -> [available : 0..MaxAvailable, held : {0}, sold : {0},
                        groupBlocked : {0}, stopSell : {FALSE}]]
    /\ holdStatus = [h \in Hold |-> "NONE"]
    /\ lapsed = {}
    /\ nights = [b \in Booking |-> NoRooms]
    /\ res = [b \in Booking |-> "NONE"]
    /\ usedKeys = {}

(***************************************************************************)
(* Holds.                                                                  *)
(***************************************************************************)

\* The expired holds a request on the rows ks may clear: all their nights
\* are among the rows it has locked.
StaleHolds(ks) ==
    {g \in ActiveHolds : g \in lapsed /\ RowsOf(nights[g]) \subseteq ks}

\* What clearing the holds S takes off held: each night gives back
\* min(night.rooms, row.held), row being the row as it was locked.
GivenBack(S, k) ==
    RoomsOf([g \in Hold |-> [j \in Key |-> Lesser(nights[g][j], inv[j].held)]], S, k)

\* The rows after the stale holds S are cleared.
Cleared(S) == [k \in Key |-> [inv[k] EXCEPT !.held = @ - GivenBack(S, k)]]

\* Mutant: the expired holds give their rooms back but stay ACTIVE.
CreateHoldKeepsStale(h, need) ==
    LET ks   == RowsOf(need)
        rows == Cleared(StaleHolds(ks))
    IN  /\ holdStatus[h] = "NONE"
        /\ \A k \in ks : ~rows[k].stopSell /\ Free(rows[k]) >= need[k]
        /\ inv' = [k \in Key |-> [rows[k] EXCEPT !.held = @ + need[k]]]
        /\ \A k \in Key : RowValid(inv'[k])
        /\ holdStatus' = [holdStatus EXCEPT ![h] = "ACTIVE"]
        /\ nights' = [nights EXCEPT ![h] = need]
        /\ UNCHANGED <<lapsed, res, usedKeys>>

\* Mutant: the rooms blocked for groups are sold to a hold.
CreateHoldOverBlocks(h, need) ==
    /\ holdStatus[h] = "NONE"
    /\ \A k \in RowsOf(need) : Free(inv[k]) + inv[k].groupBlocked >= need[k]
    /\ inv' = [k \in Key |-> [inv[k] EXCEPT !.held = @ + need[k]]]
    /\ \A k \in Key : RowValid(inv'[k])
    /\ holdStatus' = [holdStatus EXCEPT ![h] = "ACTIVE"]
    /\ nights' = [nights EXCEPT ![h] = need]
    /\ UNCHANGED <<lapsed, res, usedKeys>>

\* HoldsService.create: lock the rows, clear the stale holds on them, quote
\* (which reads the cleared rows), test every night against the row as it
\* was LOCKED, and raise held under a guard on the cleared row.
CreateHold(h, need) ==
    LET ks    == RowsOf(need)
        stale == StaleHolds(ks)
        rows  == Cleared(stale)
    IN  /\ holdStatus[h] = "NONE"
        /\ \A k \in ks : ~rows[k].stopSell /\ Free(rows[k]) >= need[k]
        /\ \A k \in ks : Free(inv[k]) >= need[k]
        /\ inv' = [k \in Key |-> [rows[k] EXCEPT !.held = @ + need[k]]]
        /\ \A k \in Key : RowValid(inv'[k])
        /\ holdStatus' = [g \in Hold |-> IF g = h THEN "ACTIVE"
                                         ELSE IF g \in stale THEN "EXPIRED"
                                         ELSE holdStatus[g]]
        /\ nights' = [nights EXCEPT ![h] = need]
        /\ UNCHANGED <<lapsed, res, usedKeys>>

\* The clock passes a hold's expiresAt.
Lapse(h) ==
    /\ holdStatus[h] = "ACTIVE" /\ h \notin lapsed
    /\ lapsed' = lapsed \cup {h}
    /\ UNCHANGED <<inv, holdStatus, nights, res, usedKeys>>

\* Mutant: the release does not look at the hold's status under its lock.
ReleaseExpiredTwice(h) ==
    /\ holdStatus[h] # "NONE" /\ h \in lapsed
    /\ inv' = Cleared({h})
    /\ \A k \in Key : RowValid(inv'[k])
    /\ holdStatus' = [holdStatus EXCEPT ![h] = "EXPIRED"]
    /\ UNCHANGED <<lapsed, nights, res, usedKeys>>

\* Mutant: the comparison with expiresAt is the wrong way round.
ReleaseUnexpired(h) ==
    /\ holdStatus[h] = "ACTIVE" /\ h \notin lapsed
    /\ inv' = Cleared({h})
    /\ \A k \in Key : RowValid(inv'[k])
    /\ holdStatus' = [holdStatus EXCEPT ![h] = "EXPIRED"]
    /\ UNCHANGED <<lapsed, nights, res, usedKeys>>

\* HoldsService.release(id, 'EXPIRED'), called by the worker's tick and by a
\* guest's read of the hold once expiresAt has passed.
ReleaseExpired(h) ==
    /\ holdStatus[h] = "ACTIVE" /\ h \in lapsed
    /\ inv' = Cleared({h})
    /\ \A k \in Key : RowValid(inv'[k])
    /\ holdStatus' = [holdStatus EXCEPT ![h] = "EXPIRED"]
    /\ UNCHANGED <<lapsed, nights, res, usedKeys>>

(***************************************************************************)
(* Reservations.                                                           *)
(***************************************************************************)

\* ReservationsService.createFromHold.  debit: an agent's wallet paid the
\* amount due at booking, which confirms the reservation at once.
ConvertHold(h, debit) ==
    /\ holdStatus[h] = "ACTIVE" /\ h \notin lapsed
    /\ \A k \in RowsOf(nights[h]) : inv[k].held >= nights[h][k]
    /\ inv' = [k \in Key |-> [inv[k] EXCEPT !.held = @ - nights[h][k],
                                            !.sold = @ + nights[h][k]]]
    /\ \A k \in Key : RowValid(inv'[k])
    /\ holdStatus' = [holdStatus EXCEPT ![h] = "CONVERTED"]
    /\ res' = [res EXCEPT ![h] = IF debit THEN "CONFIRMED" ELSE "PENDING_PAYMENT"]
    /\ UNCHANGED <<lapsed, nights, usedKeys>>

\* PaymentsService.recalculateTx, when the payments reach what confirms it.
ConfirmPaid(b) ==
    /\ res[b] = "PENDING_PAYMENT"
    /\ res' = [res EXCEPT ![b] = "CONFIRMED"]
    /\ UNCHANGED <<inv, holdStatus, lapsed, nights, usedKeys>>

\* Mutant: a cancelled reservation may be modified.
ModifyAny(b) ==
    /\ res[b] # "NONE"
    /\ res' = [res EXCEPT ![b] = "MODIFIED"]
    /\ UNCHANGED <<inv, holdStatus, lapsed, nights, usedKeys>>

\* ReservationsService.modify of a confirmed reservation's guest details.
Modify(b) ==
    /\ res[b] = "CONFIRMED"
    /\ res' = [res EXCEPT ![b] = "MODIFIED"]
    /\ UNCHANGED <<inv, holdStatus, lapsed, nights, usedKeys>>

\* ReservationsService.markNoShow: the rooms stay sold.
MarkNoShow(b) ==
    /\ res[b] \in {"CONFIRMED", "MODIFIED"}
    /\ res' = [res EXCEPT ![b] = "NO_SHOW"]
    /\ UNCHANGED <<inv, holdStatus, lapsed, nights, usedKeys>>

\* canTransition(status, 'CANCELLED'): a status always reaches itself.
Cancellable(status) ==
    status \in {"PENDING_PAYMENT", "CONFIRMED", "MODIFIED", "CANCELLED"}

\* Mutant: the earlier request under the same key is not looked up.
CancelAgain(b, key) ==
    /\ Cancellable(res[b])
    /\ \A k \in RowsOf(nights[b]) : inv[k].sold >= nights[b][k]
    /\ inv' = [k \in Key |-> [inv[k] EXCEPT !.sold = @ - nights[b][k]]]
    /\ \A k \in Key : RowValid(inv'[k])
    /\ res' = [res EXCEPT ![b] = "CANCELLED"]
    /\ usedKeys' = usedKeys \cup {key}
    /\ UNCHANGED <<holdStatus, lapsed, nights>>

\* ReservationsService.cancel.  The key is the client's, or by default one
\* that belongs to the reservation (here the booking itself); a key already
\* used returns the earlier request and changes nothing.
Cancel(b, key) ==
    /\ key \notin usedKeys
    /\ Cancellable(res[b])
    /\ \A k \in RowsOf(nights[b]) : inv[k].sold >= nights[b][k]
    /\ inv' = [k \in Key |-> [inv[k] EXCEPT !.sold = @ - nights[b][k]]]
    /\ \A k \in Key : RowValid(inv'[k])
    /\ res' = [res EXCEPT ![b] = "CANCELLED"]
    /\ usedKeys' = usedKeys \cup {key}
    /\ UNCHANGED <<holdStatus, lapsed, nights>>

\* Mutant: the table has no CHECK.
ApplyUnchecked(batch) ==
    /\ inv' = [k \in Key |->
                 IF k \in DOMAIN batch
                 THEN [inv[k] EXCEPT !.available = batch[k].available,
                                     !.stopSell = batch[k].stopSell]
                 ELSE inv[k]]
    /\ UNCHANGED <<holdStatus, lapsed, nights, res, usedKeys>>

(***************************************************************************)
(* The allotment.  A batch gives some rows a new allotment, all or none.   *)
(***************************************************************************)
Batches ==
    UNION {[ks -> [available : 0..MaxAvailable, stopSell : BOOLEAN]] :
              ks \in SUBSET Key \ {{}}}

ApplyBatch(batch) ==
    /\ inv' = [k \in Key |->
                 IF k \in DOMAIN batch
                 THEN [inv[k] EXCEPT !.available = batch[k].available,
                                     !.stopSell = batch[k].stopSell]
                 ELSE inv[k]]
    /\ \A k \in Key : RowValid(inv'[k])
    /\ UNCHANGED <<holdStatus, lapsed, nights, res, usedKeys>>

\* HotelsService.saveInventory: only the table's CHECK stops a reduction.
SaveInventory(batch) == ApplyBatch(batch)

\* AxisRoomsService.inbound: the channel manager's allotment, which must
\* cover what is held and sold; group blocks are not part of the test.
AxisInbound(batch) ==
    /\ \A k \in DOMAIN batch : batch[k].available >= inv[k].held + inv[k].sold
    /\ ApplyBatch(batch)

-----------------------------------------------------------------------------
RoomsNext ==
    \/ \E h \in Hold, need \in Needs : CreateHold(h, need)
    \/ \E h \in Hold : Lapse(h)
    \/ \E h \in Hold : ReleaseExpired(h)
    \/ \E h \in Hold, debit \in BOOLEAN : ConvertHold(h, debit)
    \/ \E b \in Booking : ConfirmPaid(b)
    \/ \E b \in Booking : Modify(b)
    \/ \E b \in Booking : \E key \in ClientKey \cup {b} : Cancel(b, key)
    \/ \E batch \in Batches : SaveInventory(batch)
    \/ \E batch \in Batches : AxisInbound(batch)

InvNext == RoomsNext \/ \E b \in Booking : MarkNoShow(b)

Spec == Init /\ [][InvNext]_invVars

\* The worker's interval calls releaseExpired for every expired hold.
FairSpec == Spec /\ \A h \in Hold : WF_invVars(ReleaseExpired(h))

-----------------------------------------------------------------------------
(***************************************************************************)
(* Properties.                                                             *)
(***************************************************************************)

\* Every variable has its type; each row passes the table's CHECK.
TypeOK ==
    /\ inv \in [Key -> Row]
    /\ \A k \in Key : RowValid(inv[k])
    /\ holdStatus \in [Hold -> HoldStatus]
    /\ lapsed \subseteq Hold
    /\ nights \in [Booking -> [Key -> 0..MaxRooms]]
    /\ res \in [Booking -> ReservationStatus]
    /\ usedKeys \subseteq ClientKey \cup Booking

\* `held` is exactly the rooms of the active holds, whatever order of
\* creation, lazy expiry, worker expiry and conversion led here.
HeldAccounting == \A k \in Key : inv[k].held = RoomsOf(nights, ActiveHolds, k)

\* `sold` is exactly the rooms of the reservations not cancelled: a
\* cancellation gives its rooms back once, and nothing else does.
SoldAccounting == \A k \in Key : inv[k].sold = RoomsOf(nights, LiveReservations, k)

\* A hold that has not expired can be converted: createFromHold never meets
\* its 'Held inventory is no longer available' error, even after the
\* allotment is cut or other holds on the same rows are cleared.
HoldsAreHonoured ==
    \A h \in ActiveHolds \ lapsed : ENABLED ConvertHold(h, TRUE)

\* A hold past its expiry leaves `held` in the end (the worker releases it,
\* a later request clears it, or it was converted in time).
ExpiredHoldsLeave ==
    \A h \in Hold : (h \in ActiveHolds /\ h \in lapsed) ~> (h \notin ActiveHolds)

\* The counters implement the ledger without counters.
ClaimOf(b) ==
    IF b \in LiveReservations THEN "sold"
    ELSE IF b \in ActiveHolds THEN "held"
    ELSE IF res[b] = "CANCELLED" THEN "gone"
    ELSE IF b \in Hold /\ holdStatus[b] = "EXPIRED" THEN "gone"
    ELSE "none"

Ledger == INSTANCE BookingLedger
            WITH stock <- [k \in Key |-> inv[k].available],
                 claim <- [b \in Booking |-> ClaimOf(b)],
                 rooms <- nights

\* Every step of the counters is a step of the ledger: in particular no row
\* ever has more rooms held and sold, by the bookings that own them, than
\* its allotment, and no expired or cancelled booking comes back.
ImplementsLedger == Ledger!Spec

\* A request is refused for lack of rooms only if the rooms are lacking once
\* the expired holds it may clear are cleared.
StaleHoldsDoNotBlock ==
    \A h \in Hold, need \in Needs :
        LET rows == Cleared(StaleHolds(RowsOf(need)))
        IN  ( /\ holdStatus[h] = "NONE"
              /\ \A k \in RowsOf(need) : ~rows[k].stopSell /\ Free(rows[k]) >= need[k] )
            => ENABLED CreateHold(h, need)
=============================================================================
