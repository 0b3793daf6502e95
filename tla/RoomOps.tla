------------------------------- MODULE RoomOps -------------------------------
(***************************************************************************)
(* The physical rooms of one room type of a hotel and the people who write *)
(* Room.status: the front desk (check-in, room change, check-out,          *)
(* no-show), housekeeping tasks, maintenance tickets, the management board *)
(* and the hotel's master data.                                            *)
(*                                                                         *)
(* A Serializable transaction, or a conditional update, is one action.     *)
(* Five operations read first and write later without either: editing a    *)
(* room's status, assigning or cancelling a task, assigning a ticket, and  *)
(* marking a no-show (its update tests Reservation.version only).  Such a  *)
(* request is in `inFlight` between its read and its write.                *)
(*                                                                         *)
(* A closed task or ticket nobody refers to is forgotten, so that its      *)
(* identity stands for the next one.                                       *)
(***************************************************************************)
EXTENDS Naturals, FiniteSets

CONSTANTS Stay,         \* confirmed reservations
          BookedRoom,   \* the rooms on their lines
          StayOf,       \* the reservation of each booked room
          Room,         \* physical rooms
          Meeting,      \* pairs {s, u} of stays whose dates overlap
          Task,         \* identities of housekeeping tasks
          Ticket,       \* identities of maintenance tickets
          NoRoom, NoTask,
          BoardStatus,  \* statuses management sets on the housekeeping board
          AdminStatus,  \* statuses sent with an edit of the room's master data
          Overlapping,  \* whether requests overlap in time
          MaxInFlight   \* requests between their read and their write (bound)

RoomStatus == {"AVAILABLE", "OCCUPIED", "DIRTY", "CLEANING", "OUT_OF_ORDER"}

ASSUME RoomOpsAssumption ==
    /\ StayOf \in [BookedRoom -> Stay]
    /\ NoRoom \notin Room
    /\ NoTask \notin Task
    /\ BoardStatus \cup AdminStatus \subseteq RoomStatus
    /\ Overlapping \in BOOLEAN
    /\ MaxInFlight \in Nat

VARIABLES room,         \* Room.status
          reservation,  \* Reservation.status
          stay,         \* Reservation.stayStatus
          assigned,     \* the active assignment of each booked room
          task,         \* housekeeping tasks
          ticket,       \* maintenance tickets
          inFlight      \* requests that have read and not yet written

vars == <<room, reservation, stay, assigned, task, ticket, inFlight>>

ActiveTask == {"PENDING", "ACCEPTED", "CLEANING"}
TaskStatus == ActiveTask \cup {"NONE", "COMPLETED", "CANCELLED"}
ActiveTicket == {"OPEN", "ASSIGNED", "IN_PROGRESS"}
TicketStatus == ActiveTicket \cup {"NONE", "RESOLVED", "CANCELLED"}

Request ==
    [op : {"setStatus"}, room : Room, to : RoomStatus]
      \cup [op : {"assignTask", "cancelTask"}, task : Task]
      \cup [op : {"assignTicket"}, ticket : Ticket]
      \cup [op : {"noShow"}, stay : Stay]

-----------------------------------------------------------------------------
RoomsOf(s) == {b \in BookedRoom : StayOf[b] = s}
InRoom(r) == {b \in BookedRoom : assigned[b] = r}
Vacant(r) == InRoom(r) = {}

ActiveTasks(r) == {t \in Task : task[t].status \in ActiveTask /\ task[t].room = r}
Blocking(r) ==
    {k \in Ticket : /\ ticket[k].status \in ActiveTicket
                    /\ ticket[k].room = r
                    /\ ticket[k].requiresOutOfOrder}

\* Closed tasks no request and no ticket refers to.
FreeTasks ==
    {t \in Task : /\ task[t].status \notin ActiveTask
                  /\ \A k \in Ticket : ticket[k].task # t
                  /\ \A q \in inFlight : q.op \in {"assignTask", "cancelTask"} => q.task # t}

\* Closed tickets no request refers to and no task may report on again.
FreeTickets ==
    {k \in Ticket : /\ ticket[k].status \notin ActiveTicket
                    /\ \A t \in Task : ticket[k].task = t =>
                          /\ task[t].status \notin ActiveTask
                          /\ [op |-> "assignTask", task |-> t] \notin inFlight
                    /\ [op |-> "assignTicket", ticket |-> k] \notin inFlight}

\* room-operational-status.ts: what management may change a status to.
ADMIN_TRANSITIONS ==
    [AVAILABLE    |-> {"AVAILABLE", "OUT_OF_ORDER"},
     OCCUPIED     |-> {"OCCUPIED"},
     DIRTY        |-> {"DIRTY", "CLEANING", "OUT_OF_ORDER"},
     CLEANING     |-> {"CLEANING", "AVAILABLE", "OUT_OF_ORDER"},
     OUT_OF_ORDER |-> {"OUT_OF_ORDER", "DIRTY", "AVAILABLE"}]

\* A room somebody is in keeps its status; the same status passes.
MaySetStatus(r, to) ==
    \/ to = room[r]
    \/ Vacant(r) /\ to \in ADMIN_TRANSITIONS[room[r]]

-----------------------------------------------------------------------------
Init ==
    /\ room = [r \in Room |-> "AVAILABLE"]
    /\ reservation = [s \in Stay |-> "CONFIRMED"]
    /\ stay = [s \in Stay |-> "EXPECTED"]
    /\ assigned = [b \in BookedRoom |-> NoRoom]
    /\ task = [t \in Task |-> [room |-> NoRoom, status |-> "NONE"]]
    /\ ticket = [k \in Ticket |-> [room |-> NoRoom, status |-> "NONE",
                                   requiresOutOfOrder |-> FALSE, task |-> NoTask]]
    /\ inFlight = {}

\* Each room of rs that has become dirty gets a task unless it has an active
\* one: INSERT ... ON CONFLICT DO NOTHING on the index of active tasks.
EnsureTasks(rs) ==
    LET lacking == {r \in rs : ActiveTasks(r) = {}}
    IN \E new \in [lacking -> FreeTasks] :
          /\ \A r, q \in lacking : new[r] = new[q] => r = q
          /\ task' = [t \in Task |->
                        IF \E r \in lacking : new[r] = t
                          THEN [room |-> CHOOSE r \in lacking : new[r] = t,
                                status |-> "PENDING"]
                          ELSE task[t]]

(***************************************************************************)
(* The front desk.                                                         *)
(***************************************************************************)

\* Mutant: the dates of the other assignments are not compared.
MayEnterUnmet(s, r) == room[r] = "AVAILABLE" /\ s \in Stay

\* The room can be given to the stay: it is available and no other stay of
\* overlapping dates has it.
MayEnter(s, r) ==
    /\ room[r] = "AVAILABLE"
    /\ \A b \in InRoom(r) : {StayOf[b], s} \notin Meeting

CheckIn(s) ==
    /\ reservation[s] \in {"CONFIRMED", "MODIFIED"}
    /\ stay[s] = "EXPECTED"
    /\ \E rooms \in [RoomsOf(s) -> {r \in Room : MayEnter(s, r)}] :
          /\ \A b, c \in RoomsOf(s) : rooms[b] = rooms[c] => b = c
          /\ assigned' = [b \in BookedRoom |->
                            IF b \in RoomsOf(s) THEN rooms[b] ELSE assigned[b]]
          /\ room' = [r \in Room |->
                        IF \E b \in RoomsOf(s) : rooms[b] = r THEN "OCCUPIED" ELSE room[r]]
    /\ stay' = [stay EXCEPT ![s] = "CHECKED_IN"]
    /\ UNCHANGED <<reservation, task, ticket, inFlight>>

\* Mutant: the room the guest leaves keeps its status.
RoomChangeKeepsOld(b, r) ==
    /\ stay[StayOf[b]] = "CHECKED_IN"
    /\ assigned[b] \notin {NoRoom, r}
    /\ room[r] = "AVAILABLE"
    /\ assigned' = [assigned EXCEPT ![b] = r]
    /\ room' = [room EXCEPT ![r] = "OCCUPIED"]
    /\ UNCHANGED <<reservation, stay, task, ticket, inFlight>>

RoomChange(b, r) ==
    /\ stay[StayOf[b]] = "CHECKED_IN"
    /\ assigned[b] \notin {NoRoom, r}
    /\ \A c \in InRoom(r) : StayOf[c] # StayOf[b] => {StayOf[c], StayOf[b]} \notin Meeting
    /\ room[r] = "AVAILABLE"
    /\ assigned' = [assigned EXCEPT ![b] = r]
    /\ room' = [room EXCEPT ![assigned[b]] = "DIRTY", ![r] = "OCCUPIED"]
    /\ EnsureTasks({assigned[b]})
    /\ UNCHANGED <<reservation, stay, ticket, inFlight>>

\* Mutant: the rooms are offered again at once.
CheckOutToSale(s) ==
    /\ stay[s] = "CHECKED_IN"
    /\ room' = [r \in Room |-> IF \E b \in RoomsOf(s) : assigned[b] = r
                               THEN "AVAILABLE" ELSE room[r]]
    /\ assigned' = [b \in BookedRoom |-> IF b \in RoomsOf(s) THEN NoRoom ELSE assigned[b]]
    /\ stay' = [stay EXCEPT ![s] = "CHECKED_OUT"]
    /\ UNCHANGED <<reservation, task, ticket, inFlight>>

\* Mutant: the assignments are closed, the stay is not.
CheckOutRoomsOnly(s) ==
    LET left == {assigned[b] : b \in RoomsOf(s)} \cap Room
    IN /\ stay[s] = "CHECKED_IN"
       /\ room' = [r \in Room |-> IF r \in left THEN "DIRTY" ELSE room[r]]
       /\ EnsureTasks(left)
       /\ assigned' = [b \in BookedRoom |->
                         IF b \in RoomsOf(s) THEN NoRoom ELSE assigned[b]]
       /\ UNCHANGED <<reservation, stay, ticket, inFlight>>

\* Whether the balance lets the guest go is left open.
CheckOut(s) ==
    LET left == {assigned[b] : b \in RoomsOf(s)} \cap Room
    IN /\ stay[s] = "CHECKED_IN"
       /\ room' = [r \in Room |-> IF r \in left THEN "DIRTY" ELSE room[r]]
       /\ EnsureTasks(left)
       /\ assigned' = [b \in BookedRoom |->
                         IF b \in RoomsOf(s) THEN NoRoom ELSE assigned[b]]
       /\ stay' = [stay EXCEPT ![s] = "CHECKED_OUT"]
       /\ UNCHANGED <<reservation, ticket, inFlight>>

\* Mutant: no-shows do not test the version.
BumpNothing(s) == s \in Stay /\ UNCHANGED inFlight

\* Requests of a no-show whose reservation changes version under them fail.
BumpVersion(s) == inFlight' = inFlight \ {[op |-> "noShow", stay |-> s]}

\* Neither looks at the status of the stay.
Cancel(s) ==
    /\ reservation[s] \in {"CONFIRMED", "MODIFIED"}
    /\ reservation' = [reservation EXCEPT ![s] = "CANCELLED"]
    /\ BumpVersion(s)
    /\ UNCHANGED <<room, stay, assigned, task, ticket>>

Modify(s) ==
    /\ reservation[s] \in {"CONFIRMED", "MODIFIED"}
    /\ reservation' = [reservation EXCEPT ![s] = "MODIFIED"]
    /\ BumpVersion(s)
    /\ UNCHANGED <<room, stay, assigned, task, ticket>>

(***************************************************************************)
(* Housekeeping.  The steps of a task are its assignee's.                  *)
(***************************************************************************)
SetTask(t, status) == task' = [task EXCEPT ![t].status = status]
SetRoom(r, status) == room' = [room EXCEPT ![r] = status]

AcceptTask(t) ==
    /\ task[t].status = "PENDING"
    /\ room[task[t].room] = "DIRTY"
    /\ SetTask(t, "ACCEPTED")
    /\ UNCHANGED <<room, reservation, stay, assigned, ticket, inFlight>>

StartTask(t) ==
    /\ task[t].status = "ACCEPTED"
    /\ room[task[t].room] = "DIRTY"
    /\ SetTask(t, "CLEANING")
    /\ SetRoom(task[t].room, "CLEANING")
    /\ UNCHANGED <<reservation, stay, assigned, ticket, inFlight>>

CompleteTask(t) ==
    /\ task[t].status = "CLEANING"
    /\ room[task[t].room] = "CLEANING"
    /\ SetTask(t, "COMPLETED")
    /\ SetRoom(task[t].room, "AVAILABLE")
    /\ UNCHANGED <<reservation, stay, assigned, ticket, inFlight>>

NewTicket(r, t) ==
    \E k \in FreeTickets :
       ticket' = [ticket EXCEPT ![k] = [room |-> r, status |-> "OPEN",
                                        requiresOutOfOrder |-> FALSE, task |-> t]]

\* The first report on a task opens a ticket (a repeated one only words it).
ReportIssue(t) ==
    /\ task[t].status \in {"ACCEPTED", "CLEANING"}
    /\ \A k \in Ticket : ticket[k].task # t
    /\ NewTicket(task[t].room, t)
    /\ UNCHANGED <<room, reservation, stay, assigned, task, inFlight>>

\* Mutant: only offering a room cancels its tasks.
SetManagementRoomStatusOnly(r, to) ==
    /\ MaySetStatus(r, to)
    /\ SetRoom(r, to)
    /\ \/ /\ to = "AVAILABLE"
          /\ task' = [t \in Task |-> IF t \in ActiveTasks(r)
                                       THEN [task[t] EXCEPT !.status = "CANCELLED"]
                                       ELSE task[t]]
       \/ to = "DIRTY" /\ EnsureTasks({r})
       \/ to \in {"OCCUPIED", "CLEANING", "OUT_OF_ORDER"} /\ UNCHANGED task

\* The housekeeping board, in one transaction.
SetManagementRoomStatus(r, to) ==
    /\ MaySetStatus(r, to)
    /\ SetRoom(r, to)
    /\ \/ /\ to \in {"OUT_OF_ORDER", "AVAILABLE"}
          /\ task' = [t \in Task |-> IF t \in ActiveTasks(r)
                                       THEN [task[t] EXCEPT !.status = "CANCELLED"]
                                       ELSE task[t]]
       \/ to = "DIRTY" /\ EnsureTasks({r})
       \/ to \in {"OCCUPIED", "CLEANING"} /\ UNCHANGED task

BoardSetsStatus(r, to) ==
    /\ SetManagementRoomStatus(r, to)
    /\ UNCHANGED <<reservation, stay, assigned, ticket, inFlight>>

(***************************************************************************)
(* Maintenance.                                                            *)
(***************************************************************************)
SetTicket(k, status) == ticket' = [ticket EXCEPT ![k].status = status]

CreateTicket(r) ==
    /\ NewTicket(r, NoTask)
    /\ UNCHANGED <<room, reservation, stay, assigned, task, inFlight>>

AcceptTicket(k) ==
    /\ ticket[k].status = "OPEN"
    /\ SetTicket(k, "ASSIGNED")
    /\ UNCHANGED <<room, reservation, stay, assigned, task, inFlight>>

StartTicket(k) ==
    /\ ticket[k].status = "ASSIGNED"
    /\ SetTicket(k, "IN_PROGRESS")
    /\ UNCHANGED <<room, reservation, stay, assigned, task, inFlight>>

\* Mutant: the other tickets of the room are not counted.
CloseTicketAlone(k, status) ==
    LET r == ticket[k].room
        releases == ticket[k].requiresOutOfOrder /\ room[r] = "OUT_OF_ORDER"
    IN /\ SetTicket(k, status)
       /\ \/ releases /\ SetRoom(r, "DIRTY") /\ EnsureTasks({r})
          \/ ~releases /\ UNCHANGED <<room, task>>
       /\ UNCHANGED <<reservation, stay, assigned, inFlight>>

\* Closing a ticket gives its room back to housekeeping if it was the last
\* to keep it out of order.
CloseTicket(k, status) ==
    LET r == ticket[k].room
        releases == ticket[k].requiresOutOfOrder /\ room[r] = "OUT_OF_ORDER" /\ Blocking(r) = {k}
    IN /\ SetTicket(k, status)
       /\ \/ releases /\ SetRoom(r, "DIRTY") /\ EnsureTasks({r})
          \/ ~releases /\ UNCHANGED <<room, task>>
       /\ UNCHANGED <<reservation, stay, assigned, inFlight>>

ResolveTicket(k) == ticket[k].status = "IN_PROGRESS" /\ CloseTicket(k, "RESOLVED")

CancelTicket(k) == ticket[k].status \in {"OPEN", "ASSIGNED"} /\ CloseTicket(k, "CANCELLED")

TakeRoomOutOfOrder(k) ==
    LET r == ticket[k].room
    IN /\ ticket[k].status \in ActiveTicket
       /\ room[r] # "OCCUPIED"
       /\ \/ room[r] # "OUT_OF_ORDER" /\ SetManagementRoomStatus(r, "OUT_OF_ORDER")
          \/ room[r] = "OUT_OF_ORDER" /\ UNCHANGED <<room, task>>
       /\ ticket' = [ticket EXCEPT ![k].requiresOutOfOrder = TRUE]
       /\ UNCHANGED <<reservation, stay, assigned, inFlight>>

(***************************************************************************)
(* Requests that read and then write.                                      *)
(***************************************************************************)

\* What each request tests when it reads.
Passes(q) ==
    \/ q.op = "setStatus" /\ q.to \in AdminStatus /\ MaySetStatus(q.room, q.to)
    \/ q.op = "assignTask" /\ task[q.task].status \in {"PENDING", "ACCEPTED"}
    \/ /\ q.op = "cancelTask"
       /\ task[q.task].status \in {"PENDING", "ACCEPTED"}
       /\ room[task[q.task].room] = "DIRTY"
    \/ q.op = "assignTicket" /\ ticket[q.ticket].status \in {"OPEN", "ASSIGNED"}
    \/ /\ q.op = "noShow"
       /\ reservation[q.stay] \in {"CONFIRMED", "MODIFIED"}
       /\ stay[q.stay] = "EXPECTED"

Read(q) ==
    /\ Cardinality(inFlight) < MaxInFlight
    /\ q \notin inFlight
    /\ Passes(q)
    /\ inFlight' = inFlight \cup {q}
    /\ UNCHANGED <<room, reservation, stay, assigned, task, ticket>>

\* The write comes with no further test, except of the unique index.
UpdatePhysicalRoom(q) ==
    /\ q.op = "setStatus"
    /\ SetRoom(q.room, q.to)
    /\ UNCHANGED <<reservation, stay, assigned, task, ticket>>

\* Mutant: no unique index on the active tasks of a room.
AssignTaskUnindexed(q) ==
    /\ q.op = "assignTask"
    /\ SetTask(q.task, "ACCEPTED")
    /\ UNCHANGED <<room, reservation, stay, assigned, ticket>>

AssignTask(q) ==
    /\ q.op = "assignTask"
    /\ \/ /\ ActiveTasks(task[q.task].room) \subseteq {q.task}
          /\ SetTask(q.task, "ACCEPTED")
       \/ /\ ~ (ActiveTasks(task[q.task].room) \subseteq {q.task})
          /\ UNCHANGED task
    /\ UNCHANGED <<room, reservation, stay, assigned, ticket>>

CancelTask(q) ==
    /\ q.op = "cancelTask"
    /\ SetTask(q.task, "CANCELLED")
    /\ UNCHANGED <<room, reservation, stay, assigned, ticket>>

AssignTicket(q) ==
    /\ q.op = "assignTicket"
    /\ SetTicket(q.ticket, "ASSIGNED")
    /\ UNCHANGED <<room, reservation, stay, assigned, task>>

MarkNoShow(q) ==
    /\ q.op = "noShow"
    /\ reservation' = [reservation EXCEPT ![q.stay] = "NO_SHOW"]
    /\ stay' = [stay EXCEPT ![q.stay] = "NO_SHOW"]
    /\ UNCHANGED <<room, assigned, task, ticket>>

Write(q) ==
    /\ \/ UpdatePhysicalRoom(q)
       \/ AssignTask(q)
       \/ CancelTask(q)
       \/ AssignTicket(q)
       \/ MarkNoShow(q)
    /\ inFlight' = inFlight \ {q}

-----------------------------------------------------------------------------
StayStep == \E s \in Stay : CheckIn(s) \/ CheckOut(s) \/ Cancel(s) \/ Modify(s)

RoomStep ==
    \E r \in Room :
       \/ \E b \in BookedRoom : RoomChange(b, r)
       \/ \E to \in BoardStatus : BoardSetsStatus(r, to)
       \/ CreateTicket(r)

TaskStep == \E t \in Task : AcceptTask(t) \/ StartTask(t) \/ CompleteTask(t) \/ ReportIssue(t)

TicketStep ==
    \E k \in Ticket :
       \/ AcceptTicket(k) \/ StartTicket(k) \/ ResolveTicket(k)
       \/ CancelTicket(k) \/ TakeRoomOutOfOrder(k)

\* While requests do not overlap, a request that has read writes next.
Next ==
    \/ /\ Overlapping \/ inFlight = {}
       /\ \/ StayStep
          \/ RoomStep
          \/ TaskStep
          \/ TicketStep
          \/ \E q \in Request : Read(q)
    \/ \E q \in inFlight : Write(q)

Spec == Init /\ [][Next]_vars

(***************************************************************************)
(* Properties.                                                             *)
(***************************************************************************)

\* Types, and the unique index: a room has at most one active task.
TypeOK ==
    /\ room \in [Room -> RoomStatus]
    /\ reservation \in [Stay -> {"CONFIRMED", "MODIFIED", "CANCELLED", "NO_SHOW"}]
    /\ stay \in [Stay -> {"EXPECTED", "CHECKED_IN", "CHECKED_OUT", "NO_SHOW"}]
    /\ assigned \in [BookedRoom -> Room \cup {NoRoom}]
    /\ task \in [Task -> [room : Room \cup {NoRoom}, status : TaskStatus]]
    /\ ticket \in [Ticket -> [room : Room \cup {NoRoom}, status : TicketStatus,
                              requiresOutOfOrder : BOOLEAN, task : Task \cup {NoTask}]]
    /\ inFlight \subseteq Request
    /\ \A r \in Room : \A t, u \in ActiveTasks(r) : t = u

\* What the status of a room says of its guests, its tasks and its tickets.
TellsGuests(r) ==
    /\ room[r] = "OCCUPIED" <=> ~Vacant(r)
    /\ \A b, c \in InRoom(r) : b = c
TellsTasks(r) ==
    \A t \in ActiveTasks(r) :
       /\ room[r] \in {"DIRTY", "CLEANING"}
       /\ task[t].status = "CLEANING" => room[r] = "CLEANING"
TellsTickets(r) == Blocking(r) # {} => room[r] = "OUT_OF_ORDER"

\* While requests do not overlap: a room is OCCUPIED exactly when a guest is in
\* it, and then only one booked room; a guest in a room is of a stay that is
\* checked in, and every room of such a stay is assigned.
RoomOccupancy ==
    /\ \A r \in Room : TellsGuests(r)
    /\ \A b \in BookedRoom : assigned[b] # NoRoom <=> stay[StayOf[b]] = "CHECKED_IN"

\* While requests do not overlap, the desk keeps the register of rooms: guests
\* enter only rooms on offer, and a room is on offer only while it is empty.
Register == INSTANCE RoomRegister
    WITH lodged <- assigned, offered <- {r \in Room : room[r] = "AVAILABLE"}

ImplementsRegister == Register!Spec

\* While requests do not overlap and statuses are set on the board only: no
\* room that is on offer, occupied or out of order has an active task, and a
\* task being cleaned is in a room that is being cleaned.
TasksFollowRooms == \A r \in Room : TellsTasks(r)

\* A room is back on offer only after all its blockers are clear
\* (RAINWOOD_DEMO_GUIDE.md, maintenance flow).
BlockedRoomsStayClosed == \A r \in Room : TellsTickets(r)

\* While requests do not overlap, a room's status is what its work says:
\* cleaning and repairs, by different departments, never contradict it.
WorkMatchesRooms == TasksFollowRooms /\ BlockedRoomsStayClosed

\* While requests do not overlap, the five writers of a room's status leave it
\* telling who is in the room and what is to be done there.
StatusIsTrue == RoomOccupancy /\ WorkMatchesRooms

\* A request about the room writes what its test no longer allows.
Concerns(q, r) ==
    \/ q.op = "setStatus" /\ q.room = r
    \/ q.op \in {"assignTask", "cancelTask"} /\ task[q.task].room = r
    \/ q.op = "assignTicket" /\ ticket[q.ticket].room = r
WritesStale(r) == \E q \in inFlight : Concerns(q, r) /\ ~Passes(q) /\ Write(q)

\* Whatever overlaps: a status that tells who is in the room goes on telling it
\* until somebody writes it on what is no longer so (updatePhysicalRoom tests
\* and writes apart, hotels.service.ts:108-125); nothing else misleads the desk.
OnlyStaleWritesMislead ==
    [][\A r \in Room : TellsGuests(r) => TellsGuests(r)' \/ WritesStale(r)]_vars

\* Whatever overlaps, and whoever edits rooms: from rooms whose status tells who
\* is in them, a step is one of the register's, or a stale write.
KeepsRegister ==
    [][(\A r \in Room : TellsGuests(r)) =>
          \/ Register!Next
          \/ UNCHANGED Register!vars
          \/ \E r \in Room : WritesStale(r)]_vars

\* Whatever overlaps, only a stale write parts the rooms from their guests.
OnlyStaleWritesPart == OnlyStaleWritesMislead /\ KeepsRegister

\* Somebody overrides the work on a room: by a stale write, an edit of the
\* room's data, which looks at no task and no ticket, or the board's putting a
\* blocked room to another use (room-operational-status.ts).
Overrides(r) ==
    \/ WritesStale(r)
    \/ \E q \in inFlight : q.op = "setStatus" /\ q.room = r /\ Write(q)
    \/ /\ Blocking(r) # {}
       /\ \E to \in BoardStatus \ {"OUT_OF_ORDER"} : BoardSetsStatus(r, to)

\* Whatever overlaps: the status of a room that agrees with its guests, tasks and
\* tickets goes on doing so until somebody overrides it. Neither the desk nor
\* housekeeping nor maintenance ever sets the work of the others at odds.
OnlyOverridesUndoWork ==
    [][\A r \in Room :
          TellsGuests(r) /\ TellsTasks(r) /\ TellsTickets(r) =>
             (TellsTasks(r) /\ TellsTickets(r))' \/ Overrides(r)]_vars

\* Whatever overlaps: two stays of overlapping dates are never in one room.
OnePartyPerRoom ==
    \A b, c \in BookedRoom :
       /\ StayOf[b] # StayOf[c]
       /\ assigned[b] = assigned[c]
       /\ assigned[b] # NoRoom
       => {StayOf[b], StayOf[c]} \notin Meeting

\* Whatever overlaps: a stay in house has all its rooms, an expected one none.
StaysHaveTheirRooms ==
    \A b \in BookedRoom :
       /\ stay[StayOf[b]] = "CHECKED_IN" => assigned[b] # NoRoom
       /\ stay[StayOf[b]] = "EXPECTED" => assigned[b] = NoRoom

\* Whatever overlaps: a reservation cancelled, or marked a no-show, stays so.
ClosedReservationsStayClosed ==
    [][\A s \in Stay : reservation[s] \in {"CANCELLED", "NO_SHOW"} =>
          reservation'[s] = reservation[s]]_vars

\* A no-show occupies no room (RAINWOOD_DEMO_GUIDE.md: NO_SHOW is not physical
\* occupancy; markNoShow: only expected stays).
NoShowsHaveNoRoom ==
    \A b \in BookedRoom : stay[StayOf[b]] = "NO_SHOW" => assigned[b] = NoRoom

\* A room an in-house guest is assigned to is not modified: it stays OCCUPIED
\* (updatePhysicalRoomWithClient).
InHouseRoomsAreOccupied == \A r \in Room : ~Vacant(r) => room[r] = "OCCUPIED"

\* A room being cleaned has its task, and that task is CLEANING
\* (housekeeping-integrity.ts).
CleaningHasItsTask ==
    \A r \in Room : room[r] = "CLEANING" =>
       \E t \in ActiveTasks(r) : task[t].status = "CLEANING"

\* Only pending or accepted tasks are assigned: a task that is done stays done
\* (HousekeepingService.assign).
DoneTasksStayDone ==
    [][\A t \in Task : task[t].status = "COMPLETED" =>
          task'[t].status # "ACCEPTED"]_vars
=============================================================================
