----------------------------- MODULE GroupBlocks -----------------------------
(***************************************************************************)
(* Group reservations over the room-night ledger.  A group's room blocks,  *)
(* once committed, stand in the counter groupBlocked of the rows; a pickup *)
(* turns one blocked room of each night of a rooming-list entry into a     *)
(* sold room; what is left is released.  The group's status follows its    *)
(* reservations' stays through syncLifecycle, which reads and writes in    *)
(* two steps outside any transaction.                                      *)
(*                                                                         *)
(* A block has one room type, so a night of a block is a row of Inventory; *)
(* a night the block does not have is a night with no rooms blocked.       *)
(***************************************************************************)
EXTENDS Inventory

CONSTANTS Group,    \* group reservations
          Block,    \* identities of the room blocks that may be added
          GroupOf   \* the group of each block and rooming-list entry

ASSUME GroupAssumption ==
    /\ IsFiniteSet(Block)
    /\ Block \cap Entry = {}
    /\ GroupOf \in [Block \cup Entry -> Group]

VARIABLES group,      \* GroupReservation.status
          syncing,    \* the status a syncLifecycle in flight is to write
          block,      \* GroupRoomBlock: "NONE", "DRAFT" or "COMMITTED"
          blocked,    \* GroupRoomBlockNight.roomsBlocked of a block on a row
          pickedUp,   \* GroupRoomBlockNight.roomsPickedUp
          released,   \* GroupRoomBlockNight.roomsReleased
          entry,      \* GroupRoomingListEntry: "NONE", "CHECKED" (its request
                      \* has read the capacity), then its status
          stay        \* Reservation.stayStatus of a picked-up entry

nightVars == <<blocked, pickedUp, released>>
groupVars == <<group, syncing, block, nightVars, entry, stay>>
allVars == <<invVars, groupVars>>

GroupStatus ==
    {"INQUIRY", "TENTATIVE", "CONFIRMED", "IN_HOUSE", "COMPLETED", "CANCELLED"}
Closed == {"CANCELLED", "COMPLETED"}
Running == {"CONFIRMED", "IN_HOUSE"}

-----------------------------------------------------------------------------
BlocksOf(g, state) == {b \in Block : GroupOf[b] = g /\ block[b] = state}

\* What a block has left on each row, and what it has left to give back.
Left == [b \in Block |-> [k \in Key |->
            blocked[b][k] - pickedUp[b][k] - released[b][k]]]
Remaining == [b \in Block |-> [k \in Key |->
                 IF Left[b][k] > 0 THEN Left[b][k] ELSE 0]]

\* Each row gets delta[k] more rooms under group blocks.
BlockRooms(delta) ==
    inv' = [k \in Key |-> [inv[k] EXCEPT !.groupBlocked = @ + delta[k]]]

GInit ==
    /\ Init
    /\ group = [g \in Group |-> "INQUIRY"]
    /\ syncing = [g \in Group |-> "NONE"]
    /\ block = [b \in Block |-> "NONE"]
    /\ blocked = [b \in Block |-> NoRooms]
    /\ pickedUp = [b \in Block |-> NoRooms]
    /\ released = [b \in Block |-> NoRooms]
    /\ entry = [e \in Entry |-> "NONE"]
    /\ stay = [e \in Entry |-> "EXPECTED"]

(***************************************************************************)
(* The group and its blocks (each a Serializable transaction).             *)
(***************************************************************************)
Tentative(g) ==
    /\ group[g] = "INQUIRY"
    /\ group' = [group EXCEPT ![g] = "TENTATIVE"]
    /\ UNCHANGED <<invVars, syncing, block, nightVars, entry, stay>>

\* Block b is resized to want, delta being its change on the rows it charges.
Resize(b, want, delta) ==
    /\ \A k \in Key : delta[k] > 0 => Free(inv[k]) >= delta[k]
    /\ BlockRooms(delta)
    /\ blocked' = [blocked EXCEPT ![b] = want]
    /\ UNCHANGED <<holdStatus, lapsed, nights, res, usedKeys,
                   group, syncing, pickedUp, released, entry, stay>>

\* Mutant: a closed group still takes blocks.
AddBlockToAny(b, want) ==
    LET committed == group[GroupOf[b]] \notin {"INQUIRY", "TENTATIVE"}
    IN  /\ block[b] = "NONE"
        /\ Resize(b, want, IF committed THEN want ELSE NoRooms)
        /\ block' = [block EXCEPT ![b] = IF committed THEN "COMMITTED" ELSE "DRAFT"]

\* addBlock: the block of a running group is committed at once, against what
\* each night can still sell.
AddBlock(b, want) ==
    LET committed == group[GroupOf[b]] \in Running
    IN  /\ block[b] = "NONE" /\ group[GroupOf[b]] \notin Closed
        /\ Resize(b, want, IF committed THEN want ELSE NoRooms)
        /\ block' = [block EXCEPT ![b] = IF committed THEN "COMMITTED" ELSE "DRAFT"]

\* How a committed block's remainder changes when it is resized.
Growth(b, want) ==
    [k \in Key |-> want[k] - pickedUp[b][k] - released[b][k] - Remaining[b][k]]

\* Mutant: the new size is compared with the pickups, not the released rooms.
UpdateBlockBelow(b, want) ==
    /\ block[b] # "NONE" /\ group[GroupOf[b]] \notin Closed
    /\ \A k \in Key : want[k] >= pickedUp[b][k]
    /\ Resize(b, want, IF block[b] = "COMMITTED" THEN Growth(b, want) ELSE NoRooms)
    /\ UNCHANGED block

\* updateBlock: a night keeps at least its picked-up and released rooms; a
\* committed block must find the rooms it grows by.
UpdateBlock(b, want) ==
    /\ block[b] # "NONE" /\ group[GroupOf[b]] \notin Closed
    /\ \A k \in Key : want[k] >= pickedUp[b][k] + released[b][k]
    /\ Resize(b, want, IF block[b] = "COMMITTED" THEN Growth(b, want) ELSE NoRooms)
    /\ UNCHANGED block

\* What g's uncommitted blocks add up to on each row.
Drafted(g) == [k \in Key |-> RoomsOf(Left, BlocksOf(g, "DRAFT"), k)]

CommitBlocks(g) ==
    /\ group[g] \in {"INQUIRY", "TENTATIVE"}
    /\ BlockRooms(Drafted(g))
    /\ block' = [b \in Block |-> IF b \in BlocksOf(g, "DRAFT") THEN "COMMITTED"
                                  ELSE block[b]]
    /\ group' = [group EXCEPT ![g] = "CONFIRMED"]
    /\ UNCHANGED <<holdStatus, lapsed, nights, res, usedKeys,
                   syncing, nightVars, entry, stay>>

\* Mutant: each block is tested on its own against the row.
ConfirmEachBlock(g) ==
    /\ \A b \in BlocksOf(g, "DRAFT"), k \in Key :
          Left[b][k] > 0 => Free(inv[k]) >= Left[b][k]
    /\ CommitBlocks(g)

\* confirm: the uncommitted blocks, added up on each row, must fit in it.
Confirm(g) ==
    /\ \A k \in Key : Drafted(g)[k] > 0 => Free(inv[k]) >= Drafted(g)[k]
    /\ CommitBlocks(g)

\* The blocks `mine` give back all they have left.
GiveBackOf(mine) ==
    /\ BlockRooms([k \in Key |-> - RoomsOf(Remaining, mine, k)])
    /\ released' = [b \in Block |->
          IF b \in mine THEN [k \in Key |-> released[b][k] + Remaining[b][k]]
          ELSE released[b]]

\* Mutant: the drafts are given back too.
GiveBackAll(g) == GiveBackOf(BlocksOf(g, "COMMITTED") \cup BlocksOf(g, "DRAFT"))

\* The committed blocks of g give back all they have left.
GiveBack(g) == GiveBackOf(BlocksOf(g, "COMMITTED"))

\* release: whatever the group's status.
Release(g) ==
    /\ GiveBack(g)
    /\ UNCHANGED <<holdStatus, lapsed, nights, res, usedKeys,
                   group, syncing, block, blocked, pickedUp, entry, stay>>

\* cancel: the rooms already picked up stay sold.
CancelGroup(g) ==
    /\ group[g] \notin Closed
    /\ GiveBack(g)
    /\ group' = [group EXCEPT ![g] = "CANCELLED"]
    /\ UNCHANGED <<holdStatus, lapsed, nights, res, usedKeys,
                   syncing, block, blocked, pickedUp, entry, stay>>

(***************************************************************************)
(* The rooming list and its pickup.                                        *)
(***************************************************************************)
EntriesOf(g, state) == {e \in Entry : GroupOf[e] = g /\ entry[e] = state}
GroupReservations(g) == EntriesOf(g, "RESERVATION_CREATED")
Stays == {need \in Needs : \A k \in Key : need[k] <= 1}

\* validateRoomingCapacity for one more entry e of group g.
RoomingFits(g, e, need) ==
    \A k \in RowsOf(need) :
        RoomsOf(nights, EntriesOf(g, "READY"), k) + need[k]
            <= RoomsOf(Remaining, {b \in Block : GroupOf[b] = g}, k)

\* addRoomingEntry, first half: the group is read and the capacity tested.
CheckEntry(e, need) ==
    /\ entry[e] = "NONE"
    /\ RoomingFits(GroupOf[e], e, need)
    /\ entry' = [entry EXCEPT ![e] = "CHECKED"]
    /\ nights' = [nights EXCEPT ![e] = need]
    /\ UNCHANGED <<inv, holdStatus, lapsed, res, usedKeys,
                   group, syncing, block, nightVars, stay>>

\* addRoomingEntry, second half: the entry is written, in no transaction.
CreateEntry(e) ==
    /\ entry[e] = "CHECKED"
    /\ entry' = [entry EXCEPT ![e] = "READY"]
    /\ UNCHANGED <<invVars, group, syncing, block, nightVars, stay>>

\* One blocked room of each night becomes a sold one, from[k] being the block
\* that gives it (the code takes the group's oldest committed block with a
\* room left; any of them here).
Transfer(e, from) ==
    /\ group[GroupOf[e]] \in Running
    /\ \A k \in RowsOf(nights[e]) : /\ from[k] \in BlocksOf(GroupOf[e], "COMMITTED")
                                    /\ Left[from[k]][k] > 0
    /\ \A k \in Key : RowValid(inv'[k])
    /\ pickedUp' = [b \in Block |-> [k \in Key |->
                      IF k \in RowsOf(nights[e]) /\ from[k] = b
                      THEN pickedUp[b][k] + 1 ELSE pickedUp[b][k]]]
    /\ res' = [res EXCEPT ![e] = "CONFIRMED"]
    /\ entry' = [entry EXCEPT ![e] = "RESERVATION_CREATED"]
    /\ UNCHANGED <<holdStatus, lapsed, nights, usedKeys,
                   group, syncing, block, blocked, released, stay>>

RoomsSold(e) ==
    [k \in Key |-> IF k \in RowsOf(nights[e])
                   THEN [inv[k] EXCEPT !.groupBlocked = @ - 1, !.sold = @ + 1]
                   ELSE inv[k]]

\* Mutant: the rooms are sold, the blocked rooms stay blocked.
PickupUncharged(e, from) ==
    /\ entry[e] = "READY"
    /\ inv' = [k \in Key |-> [inv[k] EXCEPT !.sold = @ + nights[e][k]]]
    /\ Transfer(e, from)

\* Mutant: an entry that has its reservation is picked up again.
PickupAgain(e, from) ==
    /\ entry[e] \in {"READY", "RESERVATION_CREATED"}
    /\ inv' = RoomsSold(e)
    /\ Transfer(e, from)

\* Mutant: the rooms must be free on top of being blocked.
PickupCountsTwice(e, from) ==
    /\ entry[e] = "READY"
    /\ \A k \in RowsOf(nights[e]) : Free(inv[k]) >= 1
    /\ inv' = RoomsSold(e)
    /\ Transfer(e, from)

\* pickup, with the entry, the blocks' nights and the rows locked.
Pickup(e, from) ==
    /\ entry[e] = "READY"
    /\ inv' = RoomsSold(e)
    /\ Transfer(e, from)

(***************************************************************************)
(* The stays of the picked-up entries, as far as the group sees them: the  *)
(* physical rooms they need are not in this module, so a check-in may      *)
(* always find them.                                                       *)
(***************************************************************************)
Guest(e, from, to) ==
    /\ stay[e] = from
    /\ stay' = [stay EXCEPT ![e] = to]
    /\ UNCHANGED <<group, syncing, block, nightVars, entry>>

CheckIn(e) ==
    /\ res[e] \in {"CONFIRMED", "MODIFIED"}
    /\ Guest(e, "EXPECTED", "CHECKED_IN")
    /\ UNCHANGED invVars

CheckOut(e) == Guest(e, "CHECKED_IN", "CHECKED_OUT") /\ UNCHANGED invVars

NoShow(e) == MarkNoShow(e) /\ Guest(e, "EXPECTED", "NO_SHOW")

(***************************************************************************)
(* syncLifecycle, run after every stay operation and cancellation of a     *)
(* group's reservation, and on request: a read and, later, a write.        *)
(***************************************************************************)
Finished(e) ==
    stay[e] \in {"CHECKED_OUT", "NO_SHOW"} \/ res[e] \in {"CANCELLED", "NO_SHOW"}

NextStatus(g) ==
    IF /\ group[g] \in Running /\ GroupReservations(g) # {}
       /\ \A e \in GroupReservations(g) : Finished(e)
    THEN "COMPLETED"
    ELSE IF group[g] = "CONFIRMED" /\ \E e \in GroupReservations(g) :
                                          stay[e] = "CHECKED_IN"
         THEN "IN_HOUSE" ELSE group[g]

SyncRead(g) ==
    /\ syncing[g] = "NONE" /\ NextStatus(g) # group[g]
    /\ syncing' = [syncing EXCEPT ![g] = NextStatus(g)]
    /\ UNCHANGED <<invVars, group, block, nightVars, entry, stay>>

SyncWrite(g) ==
    /\ syncing[g] # "NONE"
    /\ group' = [group EXCEPT ![g] = syncing[g]]
    /\ syncing' = [syncing EXCEPT ![g] = "NONE"]
    /\ UNCHANGED <<invVars, block, nightVars, entry, stay>>

-----------------------------------------------------------------------------
BlockNext ==
    \/ \E b \in Block, want \in Needs : AddBlock(b, want) \/ UpdateBlock(b, want)
    \/ \E g \in Group : Tentative(g) \/ Confirm(g) \/ Release(g) \/ CancelGroup(g)

EntryNext ==
    \/ \E e \in Entry, need \in Stays : CheckEntry(e, need)
    \/ \E e \in Entry : CreateEntry(e)
    \/ \E e \in Entry, from \in [Key -> Block] : Pickup(e, from)

StayNext ==
    \/ \E e \in Entry : CheckIn(e) \/ CheckOut(e) \/ NoShow(e)
    \/ \E h \in Hold : MarkNoShow(h) /\ UNCHANGED groupVars
    \/ \E g \in Group : SyncRead(g) \/ SyncWrite(g)

GNext ==
    \/ RoomsNext /\ UNCHANGED groupVars
    \/ BlockNext
    \/ EntryNext
    \/ StayNext

GSpec == GInit /\ [][GNext]_allVars

-----------------------------------------------------------------------------
(***************************************************************************)
(* Properties.                                                             *)
(***************************************************************************)

\* Every variable has its type, the ledger's included.
GTypeOK ==
    /\ TypeOK
    /\ group \in [Group -> GroupStatus]
    /\ syncing \in [Group -> {"NONE", "IN_HOUSE", "COMPLETED"}]
    /\ block \in [Block -> {"NONE", "DRAFT", "COMMITTED"}]
    /\ blocked \in [Block -> [Key -> 0..MaxRooms]]
    /\ pickedUp \in [Block -> [Key -> 0..MaxRooms]]
    /\ released \in [Block -> [Key -> 0..MaxRooms]]
    /\ entry \in [Entry -> {"NONE", "CHECKED", "READY", "RESERVATION_CREATED"}]
    /\ stay \in [Entry -> {"EXPECTED", "CHECKED_IN", "CHECKED_OUT", "NO_SHOW"}]

\* `groupBlocked` is exactly what the committed blocks have left, through
\* every confirmation, resize, pickup, release and cancellation.
CommittedBlocks == {b \in Block : block[b] = "COMMITTED"}
BlockedAccounting ==
    \A k \in Key : inv[k].groupBlocked = RoomsOf(Remaining, CommittedBlocks, k)

\* A block never gives out or back more rooms than it has, so the Math.max
\* around its remainder never hides a deficit.
HistoryFits ==
    \A b \in Block, k \in Key : pickedUp[b][k] + released[b][k] <= blocked[b][k]

\* The rooms picked up from a group's blocks on a night are the rooms its
\* reservations were created with: an entry is picked up once.
PickupAccounting ==
    \A g \in Group, k \in Key :
        RoomsOf(pickedUp, {b \in Block : GroupOf[b] = g}, k)
            = RoomsOf(nights, GroupReservations(g), k)

\* A cancelled group keeps no room from being sold.
CancelledHoldsNothing ==
    \A b \in CommittedBlocks : group[GroupOf[b]] = "CANCELLED" =>
        \A k \in Key : Remaining[b][k] = 0

\* A READY entry of a running group whose blocks have a room left on each of
\* its nights finds the inventory to be picked up, unless the allotment was
\* cut below what was promised.
PickupNeverShort ==
    \A e \in {x \in Entry : entry[x] = "READY" /\ group[GroupOf[x]] \in Running}, from \in [Key -> CommittedBlocks] :
        (\A k \in RowsOf(nights[e]) :
            /\ GroupOf[from[k]] = GroupOf[e]
            /\ Left[from[k]][k] > 0
            /\ Free(inv[k]) >= 0)
        => ENABLED Pickup(e, from)

\* The rows and the blocks agree, whatever order blocks are resized, picked up,
\* released and cancelled in and however reservations come and go meanwhile:
\* groupBlocked and sold are the sums of their owners' rooms, no block gives out
\* more than it has, and those of a cancelled group hold nothing.
RowsMatchBlocks ==
    GTypeOK /\ SoldAccounting /\ BlockedAccounting /\ HistoryFits /\ CancelledHoldsNothing

\* A pickup takes each of its rooms once, and finds them as long as the
\* allotment was not cut.
PickupIsHonoured == PickupAccounting /\ PickupNeverShort

\* Only a cut of the allotment leaves a row with more rooms held, sold and
\* blocked than it has: no hold, block, confirmation or pickup does.
OnlyCutsOversell ==
    [][\A k \in Key : Free(inv[k]) >= 0 /\ Free(inv[k])' < 0 =>
            inv'[k].available < inv[k].available]_allVars

\* A cancelled group stays cancelled ("This group cannot be confirmed.").
CancelledIsFinal ==
    [][\A g \in Group : group[g] = "CANCELLED" => group'[g] = "CANCELLED"]_allVars

\* An entry is added only while the READY entries, itself included, fit in
\* what the group's blocks have left ("existing READY rows are included").
RoomingListFits ==
    [][\A e \in Entry : entry[e] = "CHECKED" /\ entry'[e] = "READY" =>
            RoomingFits(GroupOf[e], e, nights[e])]_allVars
=============================================================================
