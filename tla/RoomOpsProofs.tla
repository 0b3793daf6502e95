---------------------------- MODULE RoomOpsProofs ----------------------------
(***************************************************************************)
(* Theorems about RoomOps for any hotel and whatever requests overlap: the *)
(* types and the index of active tasks; that overlapping stays never share *)
(* a room; and that only stale writes, and overrides by management, make a *)
(* room's status disagree with its guests, its tasks and its tickets.      *)
(***************************************************************************)
EXTENDS RoomOps, TLAPS

\* What a request names, by its kind.
LEMMA RequestFields ==
    ASSUME NEW q \in Request
    PROVE  /\ q.op = "setStatus" => q.room \in Room /\ q.to \in RoomStatus
           /\ q.op \in {"assignTask", "cancelTask"} => q.task \in Task
           /\ q.op = "assignTicket" => q.ticket \in Ticket
           /\ q.op = "noShow" => q.stay \in Stay
BY DEF Request

\* The tasks and the unique index on the active ones.
TaskTypes ==
    /\ task \in [Task -> [room : Room \cup {NoRoom}, status : TaskStatus]]
    /\ \A r \in Room : \A t, u \in ActiveTasks(r) : t = u

\* Opening tasks for dirty rooms keeps the index: only rooms without an
\* active task get one, each a task of its own.
LEMMA EnsureTasksTypes ==
    ASSUME TaskTypes, NEW rs \in SUBSET (Room \cup {NoRoom}), EnsureTasks(rs)
    PROVE  TaskTypes'
<1> DEFINE lacking == {r \in rs : ActiveTasks(r) = {}}
<1>1. PICK new \in [lacking -> FreeTasks] :
         /\ \A r, q \in lacking : new[r] = new[q] => r = q
         /\ task' = [t \in Task |->
                       IF \E r \in lacking : new[r] = t
                         THEN [room |-> CHOOSE r \in lacking : new[r] = t,
                               status |-> "PENDING"]
                         ELSE task[t]]
  BY DEF EnsureTasks
<1> DEFINE Fresh(t) == \E r \in lacking : new[r] = t
           RoomFor(t) == CHOOSE r \in lacking : new[r] = t
<1>2. \A t \in Task : Fresh(t) => RoomFor(t) \in lacking /\ new[RoomFor(t)] = t
  OBVIOUS
<1>3. \A t \in Task : /\ Fresh(t) => task'[t] = [room |-> RoomFor(t), status |-> "PENDING"]
                      /\ ~Fresh(t) => task'[t] = task[t]
  BY <1>1
<1> HIDE DEF Fresh, RoomFor
<1>4. \A t \in Task : task'[t] \in [room : Room \cup {NoRoom}, status : TaskStatus]
  <2> SUFFICES ASSUME NEW t \in Task
               PROVE  task'[t] \in [room : Room \cup {NoRoom}, status : TaskStatus]
    OBVIOUS
  <2>1. CASE Fresh(t)
    <3>1. RoomFor(t) \in Room \cup {NoRoom}
      BY <1>2, <2>1
    <3>2. task'[t] = [room |-> RoomFor(t), status |-> "PENDING"]
      BY <1>3, <2>1
    <3>3. "PENDING" \in TaskStatus
      BY DEF TaskStatus, ActiveTask
    <3> QED
      BY <3>1, <3>2, <3>3
  <2>2. CASE ~Fresh(t)
    BY <1>3, <2>2 DEF TaskTypes
  <2> QED
    BY <2>1, <2>2
<1>5. task' \in [Task -> [room : Room \cup {NoRoom}, status : TaskStatus]]
  BY <1>1, <1>4
<1>6. ASSUME NEW r \in Room, NEW t \in ActiveTasks(r)', NEW u \in ActiveTasks(r)'
      PROVE  t = u
  <2>1. /\ t \in Task /\ task'[t].status \in ActiveTask /\ task'[t].room = r
        /\ u \in Task /\ task'[u].status \in ActiveTask /\ task'[u].room = r
    BY <1>6 DEF ActiveTasks
  <2>2. ASSUME NEW x \in {t, u}
        PROVE  /\ Fresh(x) => r \in lacking /\ new[r] = x
               /\ ~Fresh(x) => x \in ActiveTasks(r)
    <3>1. CASE Fresh(x)
      <4>1. x \in Task /\ task'[x].room = r
        BY <2>1
      <4>2. task'[x] = [room |-> RoomFor(x), status |-> "PENDING"]
        BY <1>3, <3>1, <4>1
      <4>3. RoomFor(x) = r
        BY <4>1, <4>2
      <4> QED
        BY <1>2, <3>1, <4>1, <4>3
    <3>2. CASE ~Fresh(x)
      BY <1>3, <2>1, <3>2 DEF ActiveTasks
    <3> QED
      BY <3>1, <3>2
  <2>3. CASE Fresh(t) /\ Fresh(u)
    BY <2>2, <2>3
  <2>4. CASE ~Fresh(t) /\ ~Fresh(u)
    BY <2>2, <2>4 DEF TaskTypes
  <2>5. ASSUME NEW x \in {t, u}, NEW y \in {t, u}, Fresh(x), ~Fresh(y)
        PROVE  FALSE
    BY <2>2, <2>5
  <2> QED
    BY <2>3, <2>4, <2>5
<1> QED
  BY <1>5, <1>6 DEF TaskTypes

\* A task that changes its status, from an active one or to a closed one,
\* keeps the index.
LEMMA SetTaskTypes ==
    ASSUME TaskTypes, NEW t \in Task, NEW status \in TaskStatus, SetTask(t, status),
           \/ task[t].status \in ActiveTask
           \/ status \notin ActiveTask
           \/ ActiveTasks(task[t].room) \subseteq {t}
    PROVE  TaskTypes'
<1>1. task' \in [Task -> [room : Room \cup {NoRoom}, status : TaskStatus]]
  BY DEF TaskTypes, SetTask
<1>2. \A u \in Task : /\ task'[u].room = task[u].room
                      /\ u # t => task'[u] = task[u]
  BY DEF TaskTypes, SetTask
<1>3. task'[t].status = status
  BY DEF TaskTypes, SetTask
<1>4. ASSUME NEW r \in Room, NEW x \in ActiveTasks(r)', NEW y \in ActiveTasks(r)'
      PROVE  x = y
  <2>1. /\ x \in Task /\ task'[x].status \in ActiveTask /\ task[x].room = r
        /\ y \in Task /\ task'[y].status \in ActiveTask /\ task[y].room = r
    BY <1>2, <1>4 DEF ActiveTasks
  <2>2. \A z \in {x, y} : z # t => z \in ActiveTasks(r)
    BY <1>2, <2>1 DEF ActiveTasks
  <2>3. CASE x # t /\ y # t
    BY <2>2, <2>3 DEF TaskTypes
  <2>4. CASE x = t \/ y = t
    <3>1. status \in ActiveTask /\ task[t].room = r
      BY <1>3, <2>1, <2>4
    <3>2. CASE task[t].status \in ActiveTask
      <4>1. t \in ActiveTasks(r)
        BY <3>1, <3>2 DEF ActiveTasks
      <4> QED
        BY <2>2, <4>1 DEF TaskTypes
    <3>3. CASE ActiveTasks(task[t].room) \subseteq {t}
      BY <2>2, <3>1, <3>3
    <3> QED
      BY <3>1, <3>2, <3>3
  <2> QED
    BY <2>3, <2>4
<1> QED
  BY <1>1, <1>4 DEF TaskTypes

\* Cancelling tasks keeps the index.
LEMMA CancelTasksTypes ==
    ASSUME TaskTypes, NEW ts \in SUBSET Task,
           task' = [t \in Task |-> IF t \in ts THEN [task[t] EXCEPT !.status = "CANCELLED"]
                                   ELSE task[t]]
    PROVE  TaskTypes'
<1>1. \A t \in Task : /\ task'[t] \in [room : Room \cup {NoRoom}, status : TaskStatus]
                      /\ task'[t].room = task[t].room
                      /\ task'[t].status \in ActiveTask => task'[t] = task[t]
  BY DEF TaskTypes, TaskStatus, ActiveTask
<1>2. \A r \in Room : ActiveTasks(r)' \subseteq ActiveTasks(r)
  BY <1>1 DEF ActiveTasks
<1> QED
  BY <1>1, <1>2 DEF TaskTypes

-----------------------------------------------------------------------------
\* The rest of the types.
OtherTypes ==
    /\ room \in [Room -> RoomStatus]
    /\ reservation \in [Stay -> {"CONFIRMED", "MODIFIED", "CANCELLED", "NO_SHOW"}]
    /\ stay \in [Stay -> {"EXPECTED", "CHECKED_IN", "CHECKED_OUT", "NO_SHOW"}]
    /\ assigned \in [BookedRoom -> Room \cup {NoRoom}]
    /\ ticket \in [Ticket -> [room : Room \cup {NoRoom}, status : TicketStatus,
                              requiresOutOfOrder : BOOLEAN, task : Task \cup {NoTask}]]
    /\ inFlight \subseteq Request

\* The types fall in two parts.
LEMMA TypeParts == TypeOK <=> OtherTypes /\ TaskTypes
BY DEF TypeOK, OtherTypes, TaskTypes

\* A status set on the board keeps the index: an active task is cancelled, or
\* opened where there is none.
LEMMA BoardTypes ==
    ASSUME TypeOK, NEW r \in Room \cup {NoRoom}, NEW to \in RoomStatus,
           SetManagementRoomStatus(r, to)
    PROVE  TaskTypes' /\ room' \in [Room -> RoomStatus]
<1>1. TaskTypes /\ room' \in [Room -> RoomStatus]
  BY TypeParts DEF OtherTypes, SetManagementRoomStatus, SetRoom
<1>2. CASE to \in {"OUT_OF_ORDER", "AVAILABLE"}
  <2>1. ActiveTasks(r) \in SUBSET Task
    BY DEF ActiveTasks
  <2>2. task' = [t \in Task |-> IF t \in ActiveTasks(r)
                                  THEN [task[t] EXCEPT !.status = "CANCELLED"]
                                  ELSE task[t]]
    BY <1>2 DEF SetManagementRoomStatus
  <2> QED
    BY <1>1, <2>1, <2>2, CancelTasksTypes
<1>3. CASE to = "DIRTY"
  <2>1. EnsureTasks({r}) /\ {r} \in SUBSET (Room \cup {NoRoom})
    BY <1>3 DEF SetManagementRoomStatus
  <2> QED
    BY <1>1, <2>1, EnsureTasksTypes
<1>4. CASE to \in {"OCCUPIED", "CLEANING"}
  <2>1. UNCHANGED task
    BY <1>4 DEF SetManagementRoomStatus
  <2> QED
    BY <1>1, <2>1 DEF TaskTypes, ActiveTasks
<1> QED
  BY <1>2, <1>3, <1>4 DEF RoomStatus

\* A ticket opened for a room, or none, has the fields of a ticket.
LEMMA NewTicketTypes ==
    ASSUME TypeOK, NEW r \in Room \cup {NoRoom}, NEW t \in Task \cup {NoTask}, NewTicket(r, t)
    PROVE  ticket' \in [Ticket -> [room : Room \cup {NoRoom}, status : TicketStatus,
                                   requiresOutOfOrder : BOOLEAN, task : Task \cup {NoTask}]]
<1>1. PICK k \in FreeTickets :
         ticket' = [ticket EXCEPT ![k] = [room |-> r, status |-> "OPEN",
                                          requiresOutOfOrder |-> FALSE, task |-> t]]
  BY DEF NewTicket
<1>2. "OPEN" \in TicketStatus
  BY DEF TicketStatus, ActiveTicket
<1> QED
  BY <1>1, <1>2 DEF TypeOK

\* A change of a ticket's status keeps its other fields.
LEMMA SetTicketTypes ==
    ASSUME TypeOK, NEW k \in Ticket, NEW status \in TicketStatus, SetTicket(k, status)
    PROVE  ticket' \in [Ticket -> [room : Room \cup {NoRoom}, status : TicketStatus,
                                   requiresOutOfOrder : BOOLEAN, task : Task \cup {NoTask}]]
BY DEF TypeOK, SetTicket

\* Each kind of step keeps the types: the front desk,
LEMMA StayTypes == TypeOK /\ StayStep => TypeOK'
<1> SUFFICES ASSUME TypeOK, NEW s \in Stay,
                    CheckIn(s) \/ CheckOut(s) \/ Cancel(s) \/ Modify(s)
             PROVE  TypeOK'
  BY DEF StayStep
<1>1. OtherTypes /\ TaskTypes
  BY TypeParts
<1>2. CASE CheckIn(s)
  <2>1. PICK rooms \in [RoomsOf(s) -> {r \in Room : MayEnter(s, r)}] :
          /\ assigned' = [b \in BookedRoom |->
                            IF b \in RoomsOf(s) THEN rooms[b] ELSE assigned[b]]
          /\ room' = [r \in Room |->
                        IF \E b \in RoomsOf(s) : rooms[b] = r THEN "OCCUPIED" ELSE room[r]]
    BY <1>2 DEF CheckIn
  <2>2. assigned' \in [BookedRoom -> Room \cup {NoRoom}]
    BY <1>1, <2>1 DEF OtherTypes
  <2>3. room' \in [Room -> RoomStatus]
    BY <1>1, <2>1 DEF OtherTypes, RoomStatus
  <2>4. stay' \in [Stay -> {"EXPECTED", "CHECKED_IN", "CHECKED_OUT", "NO_SHOW"}]
    BY <1>1, <1>2 DEF OtherTypes, CheckIn
  <2>5. UNCHANGED <<reservation, task, ticket, inFlight>>
    BY <1>2 DEF CheckIn
  <2>6. OtherTypes'
    BY <1>1, <2>2, <2>3, <2>4, <2>5 DEF OtherTypes
  <2>7. TaskTypes'
    BY <1>1, <2>5 DEF TaskTypes, ActiveTasks
  <2> QED
    BY <2>6, <2>7 DEF TypeOK, OtherTypes, TaskTypes
<1>3. CASE CheckOut(s)
  <2> DEFINE left == {assigned[b] : b \in RoomsOf(s)} \cap Room
  <2>1. EnsureTasks(left) /\ left \in SUBSET (Room \cup {NoRoom})
    BY <1>3 DEF CheckOut
  <2>2. TaskTypes'
    BY <1>1, <2>1, EnsureTasksTypes
  <2>3. /\ room' = [r \in Room |-> IF r \in left THEN "DIRTY" ELSE room[r]]
        /\ assigned' = [b \in BookedRoom |->
                          IF b \in RoomsOf(s) THEN NoRoom ELSE assigned[b]]
        /\ stay' = [stay EXCEPT ![s] = "CHECKED_OUT"]
        /\ UNCHANGED <<reservation, ticket, inFlight>>
    BY <1>3 DEF CheckOut
  <2> HIDE DEF left
  <2>4. OtherTypes'
    BY <1>1, <2>3 DEF OtherTypes, RoomStatus
  <2> QED
    BY <2>2, <2>4 DEF TypeOK, OtherTypes, TaskTypes
<1>4. CASE Cancel(s) \/ Modify(s)
  <2>1. OtherTypes'
    BY <1>1, <1>4 DEF OtherTypes, Cancel, Modify, BumpVersion
  <2>2. TaskTypes'
    BY <1>1, <1>4 DEF TaskTypes, ActiveTasks, Cancel, Modify
  <2> QED
    BY <2>1, <2>2 DEF TypeOK, OtherTypes, TaskTypes
<1> QED
  BY <1>2, <1>3, <1>4

\* the rooms' own operations,
LEMMA RoomTypes == TypeOK /\ RoomStep => TypeOK'
<1> SUFFICES ASSUME TypeOK, NEW r \in Room,
                    \/ \E b \in BookedRoom : RoomChange(b, r)
                    \/ \E to \in BoardStatus : BoardSetsStatus(r, to)
                    \/ CreateTicket(r)
             PROVE  TypeOK'
  BY DEF RoomStep
<1>1. OtherTypes /\ TaskTypes
  BY TypeParts
<1>2. ASSUME NEW b \in BookedRoom, RoomChange(b, r)
      PROVE  TypeOK'
  <2>1. EnsureTasks({assigned[b]}) /\ {assigned[b]} \in SUBSET (Room \cup {NoRoom})
    BY <1>1, <1>2 DEF RoomChange, OtherTypes
  <2>2. TaskTypes'
    BY <1>1, <2>1, EnsureTasksTypes
  <2>3. OtherTypes'
    BY <1>1, <1>2 DEF OtherTypes, RoomChange, RoomStatus
  <2> QED
    BY <2>2, <2>3 DEF TypeOK, OtherTypes, TaskTypes
<1>3. ASSUME NEW to \in BoardStatus, BoardSetsStatus(r, to)
      PROVE  TypeOK'
  <2>1. TaskTypes' /\ room' \in [Room -> RoomStatus]
    BY <1>3, BoardTypes, RoomOpsAssumption DEF BoardSetsStatus
  <2>2. OtherTypes'
    BY <1>1, <1>3, <2>1 DEF OtherTypes, BoardSetsStatus
  <2> QED
    BY <2>1, <2>2 DEF TypeOK, OtherTypes, TaskTypes
<1>4. CASE CreateTicket(r)
  <2>1. NewTicket(r, NoTask)
    BY <1>4 DEF CreateTicket
  <2>2. OtherTypes'
    BY <1>1, <1>4, <2>1, NewTicketTypes DEF OtherTypes, CreateTicket
  <2>3. TaskTypes'
    BY <1>1, <1>4 DEF TaskTypes, ActiveTasks, CreateTicket
  <2> QED
    BY <2>2, <2>3 DEF TypeOK, OtherTypes, TaskTypes
<1> QED
  BY <1>2, <1>3, <1>4

\* housekeeping,
LEMMA TaskTypesOfSteps == TypeOK /\ TaskStep => TypeOK'
<1> SUFFICES ASSUME TypeOK, NEW t \in Task,
                    AcceptTask(t) \/ StartTask(t) \/ CompleteTask(t) \/ ReportIssue(t)
             PROVE  TypeOK'
  BY DEF TaskStep
<1>1. OtherTypes /\ TaskTypes
  BY TypeParts
<1>2. CASE AcceptTask(t)
  <2>1. SetTask(t, "ACCEPTED") /\ task[t].status \in ActiveTask /\ "ACCEPTED" \in TaskStatus
    BY <1>2 DEF AcceptTask, ActiveTask, TaskStatus
  <2>2. TaskTypes'
    BY <1>1, <2>1, SetTaskTypes
  <2>3. OtherTypes'
    BY <1>1, <1>2 DEF OtherTypes, AcceptTask
  <2> QED
    BY <2>2, <2>3 DEF TypeOK, OtherTypes, TaskTypes
<1>3. CASE StartTask(t)
  <2>1. SetTask(t, "CLEANING") /\ task[t].status \in ActiveTask /\ "CLEANING" \in TaskStatus
    BY <1>3 DEF StartTask, ActiveTask, TaskStatus
  <2>2. TaskTypes'
    BY <1>1, <2>1, SetTaskTypes
  <2>3. OtherTypes'
    BY <1>1, <1>3 DEF OtherTypes, StartTask, SetRoom, RoomStatus
  <2> QED
    BY <2>2, <2>3 DEF TypeOK, OtherTypes, TaskTypes
<1>4. CASE CompleteTask(t)
  <2>1. SetTask(t, "COMPLETED") /\ task[t].status \in ActiveTask /\ "COMPLETED" \in TaskStatus
    BY <1>4 DEF CompleteTask, ActiveTask, TaskStatus
  <2>2. TaskTypes'
    BY <1>1, <2>1, SetTaskTypes
  <2>3. OtherTypes'
    BY <1>1, <1>4 DEF OtherTypes, CompleteTask, SetRoom, RoomStatus
  <2> QED
    BY <2>2, <2>3 DEF TypeOK, OtherTypes, TaskTypes
<1>5. CASE ReportIssue(t)
  <2>1. NewTicket(task[t].room, t) /\ task[t].room \in Room \cup {NoRoom}
    BY <1>1, <1>5 DEF ReportIssue, TaskTypes
  <2>2. OtherTypes'
    BY <1>1, <1>5, <2>1, NewTicketTypes DEF OtherTypes, ReportIssue
  <2>3. TaskTypes'
    BY <1>1, <1>5 DEF TaskTypes, ActiveTasks, ReportIssue
  <2> QED
    BY <2>2, <2>3 DEF TypeOK, OtherTypes, TaskTypes
<1> QED
  BY <1>2, <1>3, <1>4, <1>5

\* the closing of a ticket,
LEMMA CloseTicketTypes ==
    ASSUME TypeOK, NEW k \in Ticket, NEW status \in TicketStatus, CloseTicket(k, status)
    PROVE  TypeOK'
<1>1. OtherTypes /\ TaskTypes
  BY TypeParts
<1> DEFINE r == ticket[k].room
<1>2. r \in Room \cup {NoRoom}
  BY <1>1 DEF OtherTypes
<1>3. /\ SetTicket(k, status)
      /\ UNCHANGED <<reservation, stay, assigned, inFlight>>
      /\ \/ SetRoom(r, "DIRTY") /\ EnsureTasks({r})
         \/ UNCHANGED <<room, task>>
  BY DEF CloseTicket
<1> HIDE DEF r
<1>4. ticket' \in [Ticket -> [room : Room \cup {NoRoom}, status : TicketStatus,
                              requiresOutOfOrder : BOOLEAN, task : Task \cup {NoTask}]]
  BY <1>3, SetTicketTypes
<1>5. CASE SetRoom(r, "DIRTY") /\ EnsureTasks({r})
  <2>1. {r} \in SUBSET (Room \cup {NoRoom})
    BY <1>2
  <2>2. TaskTypes'
    BY <1>1, <1>5, <2>1, EnsureTasksTypes
  <2>3. room' \in [Room -> RoomStatus]
    BY <1>1, <1>5 DEF OtherTypes, SetRoom, RoomStatus
  <2> QED
    BY <1>1, <1>3, <1>4, <2>2, <2>3 DEF TypeOK, OtherTypes, TaskTypes
<1>6. CASE UNCHANGED <<room, task>>
  <2>1. TaskTypes'
    BY <1>1, <1>6 DEF TaskTypes, ActiveTasks
  <2> QED
    BY <1>1, <1>3, <1>4, <1>6, <2>1 DEF TypeOK, OtherTypes, TaskTypes
<1> QED
  BY <1>3, <1>5, <1>6

\* maintenance,
LEMMA TicketTypes == TypeOK /\ TicketStep => TypeOK'
<1> SUFFICES ASSUME TypeOK, NEW k \in Ticket,
                    \/ AcceptTicket(k) \/ StartTicket(k) \/ ResolveTicket(k)
                    \/ CancelTicket(k) \/ TakeRoomOutOfOrder(k)
             PROVE  TypeOK'
  BY DEF TicketStep
<1>1. OtherTypes /\ TaskTypes
  BY TypeParts
<1>2. {"ASSIGNED", "IN_PROGRESS", "RESOLVED", "CANCELLED"} \subseteq TicketStatus
  BY DEF TicketStatus, ActiveTicket
<1>3. CASE AcceptTicket(k) \/ StartTicket(k)
  <2>1. /\ SetTicket(k, "ASSIGNED") \/ SetTicket(k, "IN_PROGRESS")
        /\ UNCHANGED <<room, reservation, stay, assigned, task, inFlight>>
    BY <1>3 DEF AcceptTicket, StartTicket
  <2>2. OtherTypes'
    BY <1>1, <1>2, <2>1, SetTicketTypes DEF OtherTypes
  <2>3. TaskTypes'
    BY <1>1, <2>1 DEF TaskTypes, ActiveTasks
  <2> QED
    BY <2>2, <2>3 DEF TypeOK, OtherTypes, TaskTypes
<1>4. CASE ResolveTicket(k) \/ CancelTicket(k)
  BY <1>2, <1>4, CloseTicketTypes DEF ResolveTicket, CancelTicket
<1>5. CASE TakeRoomOutOfOrder(k)
  <2> DEFINE r == ticket[k].room
  <2>1. /\ \/ SetManagementRoomStatus(r, "OUT_OF_ORDER")
           \/ UNCHANGED <<room, task>>
        /\ ticket' = [ticket EXCEPT ![k].requiresOutOfOrder = TRUE]
        /\ UNCHANGED <<reservation, stay, assigned, inFlight>>
    BY <1>5 DEF TakeRoomOutOfOrder
  <2>2. r \in Room \cup {NoRoom}
    BY <1>1 DEF OtherTypes
  <2> HIDE DEF r
  <2>3. "OUT_OF_ORDER" \in RoomStatus
    BY DEF RoomStatus
  <2>4. TaskTypes' /\ room' \in [Room -> RoomStatus]
    <3>1. CASE SetManagementRoomStatus(r, "OUT_OF_ORDER")
      BY <2>2, <2>3, <3>1, BoardTypes
    <3>2. CASE UNCHANGED <<room, task>>
      BY <1>1, <3>2 DEF TaskTypes, ActiveTasks, OtherTypes
    <3> QED
      BY <2>1, <3>1, <3>2
  <2>5. OtherTypes'
    BY <1>1, <2>1, <2>4 DEF OtherTypes
  <2> QED
    BY <2>4, <2>5 DEF TypeOK, OtherTypes, TaskTypes
<1> QED
  BY <1>3, <1>4, <1>5

\* and the writes of requests that read before.
LEMMA WriteTypes ==
    ASSUME TypeOK, NEW q \in inFlight, Write(q)
    PROVE  TypeOK'
<1>1. OtherTypes /\ TaskTypes /\ q \in Request /\ inFlight' \subseteq Request
  BY TypeParts DEF OtherTypes, Write
<1>2. CASE UpdatePhysicalRoom(q)
  <2>1. q.room \in Room /\ q.to \in RoomStatus
    BY <1>1, <1>2, RequestFields DEF UpdatePhysicalRoom
  <2>2. OtherTypes'
    BY <1>1, <1>2, <2>1 DEF OtherTypes, UpdatePhysicalRoom, SetRoom
  <2>3. TaskTypes'
    BY <1>1, <1>2 DEF TaskTypes, ActiveTasks, UpdatePhysicalRoom
  <2> QED
    BY <2>2, <2>3 DEF TypeOK, OtherTypes, TaskTypes
<1>3. CASE AssignTask(q)
  <2>1. q.task \in Task /\ "ACCEPTED" \in TaskStatus
    BY <1>1, <1>3, RequestFields DEF AssignTask, TaskStatus, ActiveTask
  <2>2. TaskTypes'
    <3>1. CASE /\ ActiveTasks(task[q.task].room) \subseteq {q.task}
               /\ SetTask(q.task, "ACCEPTED")
      BY <1>1, <2>1, <3>1, SetTaskTypes
    <3>2. CASE UNCHANGED task
      BY <1>1, <3>2 DEF TaskTypes, ActiveTasks
    <3> QED
      BY <1>3, <3>1, <3>2 DEF AssignTask
  <2>3. OtherTypes'
    BY <1>1, <1>3 DEF OtherTypes, AssignTask
  <2> QED
    BY <2>2, <2>3 DEF TypeOK, OtherTypes, TaskTypes
<1>4. CASE CancelTask(q)
  <2>1. /\ q.task \in Task /\ "CANCELLED" \in TaskStatus /\ "CANCELLED" \notin ActiveTask
        /\ SetTask(q.task, "CANCELLED")
    BY <1>1, <1>4, RequestFields DEF CancelTask, TaskStatus, ActiveTask
  <2>2. TaskTypes'
    BY <1>1, <2>1, SetTaskTypes
  <2>3. OtherTypes'
    BY <1>1, <1>4 DEF OtherTypes, CancelTask
  <2> QED
    BY <2>2, <2>3 DEF TypeOK, OtherTypes, TaskTypes
<1>5. CASE AssignTicket(q)
  <2>1. /\ q.ticket \in Ticket /\ "ASSIGNED" \in TicketStatus
        /\ SetTicket(q.ticket, "ASSIGNED")
    BY <1>1, <1>5, RequestFields DEF AssignTicket, TicketStatus, ActiveTicket
  <2>2. OtherTypes'
    BY <1>1, <1>5, <2>1, SetTicketTypes DEF OtherTypes, AssignTicket
  <2>3. TaskTypes'
    BY <1>1, <1>5 DEF TaskTypes, ActiveTasks, AssignTicket
  <2> QED
    BY <2>2, <2>3 DEF TypeOK, OtherTypes, TaskTypes
<1>6. CASE MarkNoShow(q)
  <2>1. OtherTypes'
    BY <1>1, <1>6 DEF OtherTypes, MarkNoShow
  <2>2. TaskTypes'
    BY <1>1, <1>6 DEF TaskTypes, ActiveTasks, MarkNoShow
  <2> QED
    BY <2>1, <2>2 DEF TypeOK, OtherTypes, TaskTypes
<1> QED
  BY <1>2, <1>3, <1>4, <1>5, <1>6 DEF Write

\* Every variable keeps its type, and a room never has two active tasks,
\* whatever requests overlap (the unique index of housekeeping tasks).
THEOREM TypeCorrect == Spec => []TypeOK
<1>1. Init => TypeOK
  BY RoomOpsAssumption DEF Init, TypeOK, RoomStatus, TaskStatus, ActiveTask, TicketStatus, ActiveTasks
<1>2. TypeOK /\ [Next]_vars => TypeOK'
  <2> SUFFICES ASSUME TypeOK, [Next]_vars
               PROVE  TypeOK'
    OBVIOUS
  <2>1. CASE StayStep \/ RoomStep \/ TaskStep \/ TicketStep
    BY <2>1, StayTypes, RoomTypes, TaskTypesOfSteps, TicketTypes
  <2>2. ASSUME NEW q \in Request, Read(q)
        PROVE  TypeOK'
    BY <2>2 DEF Read, TypeOK, ActiveTasks
  <2>3. ASSUME NEW q \in inFlight, Write(q)
        PROVE  TypeOK'
    BY <2>3, WriteTypes
  <2>4. CASE UNCHANGED vars
    BY <2>4 DEF vars, TypeOK, ActiveTasks
  <2> QED
    BY <2>1, <2>2, <2>3, <2>4 DEF Next
<1> QED
  BY <1>1, <1>2, PTL DEF Spec

-----------------------------------------------------------------------------
\* Only the front desk moves guests; everybody else changes a stay at most to
\* NO_SHOW.
LEMMA StaySteps ==
    ASSUME [Next]_vars
    PROVE  \/ \E s \in Stay : CheckIn(s) \/ CheckOut(s)
           \/ \E b \in BookedRoom, r \in Room : RoomChange(b, r)
           \/ /\ UNCHANGED assigned
              /\ \/ UNCHANGED stay
                 \/ \E s : stay' = [stay EXCEPT ![s] = "NO_SHOW"]
<1>1. CASE StayStep
  BY <1>1 DEF StayStep, Cancel, Modify
<1>2. CASE RoomStep
  BY <1>2 DEF RoomStep, BoardSetsStatus, CreateTicket
<1>3. CASE TaskStep
  BY <1>3 DEF TaskStep, AcceptTask, StartTask, CompleteTask, ReportIssue
<1>4. CASE TicketStep
  BY <1>4 DEF TicketStep, AcceptTicket, StartTicket, ResolveTicket, CancelTicket,
              CloseTicket, TakeRoomOutOfOrder
<1>5. ASSUME NEW q \in Request, Read(q)
      PROVE  UNCHANGED <<assigned, stay>>
  BY <1>5 DEF Read
<1>6. ASSUME NEW q \in inFlight, Write(q)
      PROVE  /\ UNCHANGED assigned
             /\ \/ UNCHANGED stay
                \/ \E s : stay' = [stay EXCEPT ![s] = "NO_SHOW"]
  BY <1>6 DEF Write, UpdatePhysicalRoom, AssignTask, CancelTask, AssignTicket, MarkNoShow
<1>7. CASE UNCHANGED vars
  BY <1>7 DEF vars
<1> QED
  BY <1>1, <1>2, <1>3, <1>4, <1>5, <1>6, <1>7 DEF Next

\* Whatever requests overlap, stale status edits included, two stays of
\* overlapping dates never have the same room: the desk compares the
\* assignments themselves (checkIn, roomChange), not only the room's status.
THEOREM PartiesApart == Spec => []OnePartyPerRoom
<1>1. Init => OnePartyPerRoom
  BY RoomOpsAssumption DEF Init, OnePartyPerRoom
<1>2. TypeOK /\ OnePartyPerRoom /\ [Next]_vars => OnePartyPerRoom'
  <2> SUFFICES ASSUME TypeOK, OnePartyPerRoom, [Next]_vars,
                      NEW b \in BookedRoom, NEW c \in BookedRoom,
                      StayOf[b] # StayOf[c], assigned'[b] = assigned'[c],
                      assigned'[b] # NoRoom
               PROVE  {StayOf[b], StayOf[c]} \notin Meeting
    BY DEF OnePartyPerRoom
  <2>1. ASSUME NEW s \in Stay, CheckIn(s)
        PROVE  {StayOf[b], StayOf[c]} \notin Meeting
    <3>1. PICK rooms \in [RoomsOf(s) -> {r \in Room : MayEnter(s, r)}] :
            assigned' = [x \in BookedRoom |->
                           IF x \in RoomsOf(s) THEN rooms[x] ELSE assigned[x]]
      BY <2>1 DEF CheckIn
    <3>2. ASSUME NEW x \in RoomsOf(s), NEW y \in BookedRoom, y \notin RoomsOf(s),
                 assigned'[x] = assigned'[y]
          PROVE  {StayOf[y], StayOf[x]} \notin Meeting
      <4>1. assigned[y] = rooms[x] /\ MayEnter(s, rooms[x]) /\ StayOf[x] = s
        BY <3>1, <3>2 DEF RoomsOf
      <4> QED
        BY <4>1 DEF MayEnter, InRoom
    <3>3. {StayOf[b], StayOf[c]} = {StayOf[c], StayOf[b]}
      OBVIOUS
    <3>4. CASE b \in RoomsOf(s) /\ c \in RoomsOf(s)
      BY <3>4 DEF RoomsOf
    <3>5. CASE b \in RoomsOf(s) /\ c \notin RoomsOf(s)
      BY <3>2, <3>3, <3>5
    <3>6. CASE b \notin RoomsOf(s) /\ c \in RoomsOf(s)
      BY <3>2, <3>6
    <3>7. CASE b \notin RoomsOf(s) /\ c \notin RoomsOf(s)
      BY <3>1, <3>7 DEF OnePartyPerRoom
    <3> QED
      BY <3>4, <3>5, <3>6, <3>7
  <2>2. ASSUME NEW x \in BookedRoom, NEW r \in Room, RoomChange(x, r)
        PROVE  {StayOf[b], StayOf[c]} \notin Meeting
    <3>1. /\ assigned' = [assigned EXCEPT ![x] = r]
          /\ \A y \in InRoom(r) : StayOf[y] # StayOf[x] => {StayOf[y], StayOf[x]} \notin Meeting
      BY <2>2 DEF RoomChange
    <3>2. {StayOf[b], StayOf[c]} = {StayOf[c], StayOf[b]}
      OBVIOUS
    <3>3. CASE b = x
      <4>1. c \in InRoom(r)
        BY <3>1, <3>3 DEF InRoom, TypeOK
      <4> QED
        BY <3>1, <3>2, <3>3, <4>1
    <3>4. CASE c = x
      <4>1. b \in InRoom(r)
        BY <3>1, <3>4 DEF InRoom, TypeOK
      <4> QED
        BY <3>1, <3>4, <4>1
    <3>5. CASE b # x /\ c # x
      BY <3>1, <3>5 DEF OnePartyPerRoom, TypeOK
    <3> QED
      BY <3>3, <3>4, <3>5
  <2>3. ASSUME NEW s \in Stay, CheckOut(s)
        PROVE  {StayOf[b], StayOf[c]} \notin Meeting
    BY <2>3 DEF CheckOut, OnePartyPerRoom
  <2>4. CASE UNCHANGED assigned
    BY <2>4 DEF OnePartyPerRoom
  <2> QED
    BY <2>1, <2>2, <2>3, <2>4, StaySteps
<1> QED
  BY <1>1, <1>2, TypeCorrect, PTL DEF Spec

\* Whatever requests overlap, a stay in house has all its rooms and an expected
\* one has none (checkIn, roomChange, checkOut; a no-show written too late may
\* leave rooms to a stay that is neither).
THEOREM StaysHoused == Spec => []StaysHaveTheirRooms
<1>1. Init => StaysHaveTheirRooms
  BY RoomOpsAssumption DEF Init, StaysHaveTheirRooms
<1>2. TypeOK /\ StaysHaveTheirRooms /\ [Next]_vars => StaysHaveTheirRooms'
  <2> SUFFICES ASSUME TypeOK, StaysHaveTheirRooms, [Next]_vars, NEW b \in BookedRoom
               PROVE  /\ stay'[StayOf[b]] = "CHECKED_IN" => assigned'[b] # NoRoom
                      /\ stay'[StayOf[b]] = "EXPECTED" => assigned'[b] = NoRoom
    BY DEF StaysHaveTheirRooms
  <2> DEFINE Housed == /\ stay'[StayOf[b]] = "CHECKED_IN" => assigned'[b] # NoRoom
                       /\ stay'[StayOf[b]] = "EXPECTED" => assigned'[b] = NoRoom
  <2>1. /\ StayOf[b] \in Stay
        /\ \A s \in Stay : b \in RoomsOf(s) <=> StayOf[b] = s
        /\ stay \in [Stay -> {"EXPECTED", "CHECKED_IN", "CHECKED_OUT", "NO_SHOW"}]
    BY RoomOpsAssumption DEF RoomsOf, TypeOK
  <2>2. ASSUME NEW s \in Stay, CheckIn(s)
        PROVE  Housed
    <3>1. PICK rooms \in [RoomsOf(s) -> {r \in Room : MayEnter(s, r)}] :
            assigned' = [x \in BookedRoom |->
                           IF x \in RoomsOf(s) THEN rooms[x] ELSE assigned[x]]
      BY <2>2 DEF CheckIn
    <3>2. stay' = [stay EXCEPT ![s] = "CHECKED_IN"]
      BY <2>2 DEF CheckIn
    <3>3. CASE StayOf[b] = s
      <4>1. assigned'[b] \in Room /\ stay'[StayOf[b]] = "CHECKED_IN"
        BY <2>1, <3>1, <3>2, <3>3
      <4> QED
        BY <4>1, RoomOpsAssumption
    <3>4. CASE StayOf[b] # s
      BY <2>1, <3>1, <3>2, <3>4 DEF StaysHaveTheirRooms
    <3> QED
      BY <3>3, <3>4
  <2>3. ASSUME NEW s \in Stay, CheckOut(s)
        PROVE  Housed
    BY <2>1, <2>3 DEF CheckOut, StaysHaveTheirRooms
  <2>4. ASSUME NEW x \in BookedRoom, NEW r \in Room, RoomChange(x, r)
        PROVE  Housed
    BY <2>1, <2>4, RoomOpsAssumption DEF RoomChange, StaysHaveTheirRooms, TypeOK
  <2>5. CASE UNCHANGED <<assigned, stay>>
    BY <2>5 DEF StaysHaveTheirRooms
  <2>6. ASSUME NEW s, stay' = [stay EXCEPT ![s] = "NO_SHOW"], UNCHANGED assigned
        PROVE  Housed
    BY <2>1, <2>6 DEF StaysHaveTheirRooms
  <2> QED
    BY <2>2, <2>3, <2>4, <2>5, <2>6, StaySteps
<1> QED
  BY <1>1, <1>2, TypeCorrect, PTL DEF Spec

-----------------------------------------------------------------------------
(***************************************************************************)
(* Who is in a room, and what its status says.                             *)
(***************************************************************************)

\* What a step does to the rooms, beside the three operations of the desk: it
\* sets the status of one at most, and where that tells who is in the room it
\* neither comes from OCCUPIED nor leads to it.
StatusStep(x, v) ==
    /\ room' = [room EXCEPT ![x] = v]
    /\ TellsGuests(x) /\ ~WritesStale(x) =>
          v = room[x] \/ (room[x] # "OCCUPIED" /\ v # "OCCUPIED")
OtherStep ==
    /\ UNCHANGED assigned
    /\ UNCHANGED room \/ \E x \in Room, v \in RoomStatus : StatusStep(x, v)

\* Setting such a status of a room, or of none.
LEMMA SetRoomSteps ==
    ASSUME TypeOK, NEW x \in Room \cup {NoRoom}, NEW v \in RoomStatus, SetRoom(x, v),
           UNCHANGED assigned,
           x \in Room /\ TellsGuests(x) /\ ~WritesStale(x) =>
              v = room[x] \/ (room[x] # "OCCUPIED" /\ v # "OCCUPIED")
    PROVE  OtherStep
<1>1. room \in [Room -> RoomStatus] /\ room' = [room EXCEPT ![x] = v]
  BY DEF TypeOK, SetRoom
<1>2. CASE x \notin Room
  <2>1. room' = room
    BY <1>1, <1>2
  <2> QED
    BY <2>1 DEF OtherStep
<1>3. CASE x \in Room
  <2>1. StatusStep(x, v)
    BY <1>1, <1>3 DEF StatusStep
  <2> QED
    BY <1>3, <2>1 DEF OtherStep
<1> QED
  BY <1>2, <1>3

\* Management moves no room to OCCUPIED or from it.
LEMMA MaySetStatusKeepsOccupied ==
    ASSUME TypeOK, NEW r \in Room, TellsGuests(r), NEW to \in RoomStatus, MaySetStatus(r, to)
    PROVE  to = room[r] \/ (room[r] # "OCCUPIED" /\ to # "OCCUPIED")
<1>1. CASE Vacant(r) /\ to \in ADMIN_TRANSITIONS[room[r]]
  <2>1. room[r] \in {"AVAILABLE", "DIRTY", "CLEANING", "OUT_OF_ORDER"}
    BY <1>1 DEF TypeOK, TellsGuests, RoomStatus
  <2> QED
    BY <1>1, <2>1 DEF ADMIN_TRANSITIONS
<1> QED
  BY <1>1 DEF MaySetStatus

\* A status set on the board concerns an empty room, or changes nothing.
LEMMA BoardSteps ==
    ASSUME TypeOK, NEW r \in Room \cup {NoRoom}, NEW to \in RoomStatus,
           SetManagementRoomStatus(r, to), UNCHANGED assigned
    PROVE  OtherStep
BY SetRoomSteps, MaySetStatusKeepsOccupied DEF SetManagementRoomStatus

\* So does the closing of a ticket.
LEMMA CloseTicketSteps ==
    ASSUME TypeOK, NEW k \in Ticket, NEW status, CloseTicket(k, status)
    PROVE  OtherStep
<1> DEFINE r == ticket[k].room
<1>1. r \in Room \cup {NoRoom} /\ "DIRTY" \in RoomStatus
  BY DEF TypeOK, RoomStatus
<1>2. UNCHANGED assigned
  BY DEF CloseTicket
<1>3. CASE room[r] = "OUT_OF_ORDER" /\ SetRoom(r, "DIRTY")
  BY <1>1, <1>2, <1>3, SetRoomSteps
<1>4. CASE UNCHANGED room
  BY <1>2, <1>4 DEF OtherStep
<1> QED
  BY <1>3, <1>4 DEF CloseTicket

\* A request that sets a status writes what it has tested, or writes stale.
LEMMA WriteSteps ==
    ASSUME TypeOK, NEW q \in inFlight, Write(q)
    PROVE  OtherStep
<1>1. q \in Request
  BY DEF TypeOK
<1>2. CASE UpdatePhysicalRoom(q)
  <2>1. q.op = "setStatus" /\ SetRoom(q.room, q.to) /\ UNCHANGED assigned
    BY <1>2 DEF UpdatePhysicalRoom
  <2>2. q.room \in Room /\ q.to \in RoomStatus
    BY <1>1, <2>1, RequestFields
  <2>3. ASSUME TellsGuests(q.room), ~WritesStale(q.room)
        PROVE  q.to = room[q.room] \/ (room[q.room] # "OCCUPIED" /\ q.to # "OCCUPIED")
    <3>1. Passes(q)
      BY <2>1, <2>3 DEF WritesStale, Concerns
    <3>2. MaySetStatus(q.room, q.to)
      BY <2>1, <3>1 DEF Passes
    <3> QED
      BY <2>2, <2>3, <3>2, MaySetStatusKeepsOccupied
  <2> QED
    BY <2>1, <2>2, <2>3, SetRoomSteps
<1>3. CASE AssignTask(q) \/ CancelTask(q) \/ AssignTicket(q) \/ MarkNoShow(q)
  BY <1>3 DEF AssignTask, CancelTask, AssignTicket, MarkNoShow, OtherStep
<1> QED
  BY <1>2, <1>3 DEF Write

\* A step is one of the desk's three operations, or sets a status at most.
LEMMA DeskOrStatus ==
    ASSUME TypeOK, [Next]_vars
    PROVE  \/ \E s \in Stay : CheckIn(s) \/ CheckOut(s)
           \/ \E b \in BookedRoom, r \in Room : RoomChange(b, r)
           \/ OtherStep
<1>1. CASE StayStep
  BY <1>1 DEF StayStep, Cancel, Modify, OtherStep
<1>2. ASSUME NEW r \in Room, NEW to \in BoardStatus, BoardSetsStatus(r, to)
      PROVE  OtherStep
  <2>1. to \in RoomStatus
    BY RoomOpsAssumption
  <2> QED
    BY <1>2, <2>1, BoardSteps DEF BoardSetsStatus
<1>3. ASSUME NEW r \in Room, CreateTicket(r)
      PROVE  OtherStep
  BY <1>3 DEF CreateTicket, OtherStep
<1>4. ASSUME NEW t \in Task, AcceptTask(t) \/ ReportIssue(t)
      PROVE  OtherStep
  BY <1>4 DEF AcceptTask, ReportIssue, OtherStep
<1>5. ASSUME NEW t \in Task, StartTask(t) \/ CompleteTask(t)
      PROVE  OtherStep
  <2> DEFINE r == task[t].room
  <2>1. /\ r \in Room \cup {NoRoom}
        /\ {"CLEANING", "AVAILABLE"} \subseteq RoomStatus
        /\ UNCHANGED assigned
    BY <1>5 DEF TypeOK, RoomStatus, StartTask, CompleteTask
  <2>2. \/ room[r] = "DIRTY" /\ SetRoom(r, "CLEANING")
        \/ room[r] = "CLEANING" /\ SetRoom(r, "AVAILABLE")
    BY <1>5 DEF StartTask, CompleteTask
  <2> HIDE DEF r
  <2> QED
    BY <2>1, <2>2, SetRoomSteps
<1>6. ASSUME NEW k \in Ticket, AcceptTicket(k) \/ StartTicket(k)
      PROVE  OtherStep
  BY <1>6 DEF AcceptTicket, StartTicket, OtherStep
<1>7. ASSUME NEW k \in Ticket, ResolveTicket(k) \/ CancelTicket(k)
      PROVE  OtherStep
  BY <1>7, CloseTicketSteps DEF ResolveTicket, CancelTicket
<1>8. ASSUME NEW k \in Ticket, TakeRoomOutOfOrder(k)
      PROVE  OtherStep
  <2> DEFINE r == ticket[k].room
  <2>1. /\ r \in Room \cup {NoRoom}
        /\ "OUT_OF_ORDER" \in RoomStatus
        /\ UNCHANGED assigned
    BY <1>8 DEF TypeOK, RoomStatus, TakeRoomOutOfOrder
  <2>2. SetManagementRoomStatus(r, "OUT_OF_ORDER") \/ UNCHANGED room
    BY <1>8 DEF TakeRoomOutOfOrder
  <2> QED
    BY <2>1, <2>2, BoardSteps DEF OtherStep
<1>9. ASSUME NEW q \in Request, Read(q)
      PROVE  OtherStep
  BY <1>9 DEF Read, OtherStep
<1>10. CASE UNCHANGED vars
  BY <1>10 DEF vars, OtherStep
<1> QED
  BY <1>1, <1>2, <1>3, <1>4, <1>5, <1>6, <1>7, <1>8, <1>9, <1>10, WriteSteps
     DEF Next, StayStep, RoomStep, TaskStep, TicketStep

\* A status that tells who is in the room survives a step that moves nobody,
\* unless it is overwritten.
LEMMA GuestsOfOthers ==
    ASSUME TypeOK, NEW r \in Room, TellsGuests(r), OtherStep
    PROVE  TellsGuests(r)' \/ WritesStale(r)
<1>1. InRoom(r)' = InRoom(r)
  BY DEF OtherStep, InRoom
<1>2. WritesStale(r) \/ ((room'[r] = "OCCUPIED") <=> (room[r] = "OCCUPIED"))
  <2>1. CASE UNCHANGED room
    BY <2>1
  <2>2. ASSUME NEW x \in Room, NEW v \in RoomStatus, StatusStep(x, v)
        PROVE  WritesStale(r) \/ ((room'[r] = "OCCUPIED") <=> (room[r] = "OCCUPIED"))
    <3>1. room'[r] = IF x = r THEN v ELSE room[r]
      BY <2>2 DEF StatusStep, TypeOK
    <3> QED
      BY <2>2, <3>1 DEF StatusStep
  <2> QED
    BY <2>1, <2>2 DEF OtherStep
<1> QED
  BY <1>1, <1>2 DEF TellsGuests, Vacant

\* Guests who enter are the only ones in their rooms.
LEMMA GuestsOfCheckIn ==
    ASSUME TypeOK, StaysHaveTheirRooms, NEW r \in Room, TellsGuests(r), NEW s \in Stay, CheckIn(s)
    PROVE  TellsGuests(r)'
<1>1. PICK rooms \in [RoomsOf(s) -> {x \in Room : MayEnter(s, x)}] :
        /\ \A b, c \in RoomsOf(s) : rooms[b] = rooms[c] => b = c
        /\ assigned' = [b \in BookedRoom |->
                          IF b \in RoomsOf(s) THEN rooms[b] ELSE assigned[b]]
        /\ room' = [x \in Room |->
                      IF \E b \in RoomsOf(s) : rooms[b] = x THEN "OCCUPIED" ELSE room[x]]
  BY DEF CheckIn
<1>2. \A b \in RoomsOf(s) : /\ b \in BookedRoom /\ rooms[b] \in Room
                            /\ room[rooms[b]] = "AVAILABLE" /\ assigned[b] = NoRoom
  BY <1>1 DEF RoomsOf, MayEnter, CheckIn, StaysHaveTheirRooms
<1>3. ASSUME NEW b \in RoomsOf(s), rooms[b] = r
      PROVE  TellsGuests(r)'
  <2>1. Vacant(r)
    BY <1>2, <1>3 DEF TellsGuests
  <2>2. InRoom(r)' = {b}
    BY <1>1, <1>2, <1>3, <2>1 DEF Vacant, InRoom
  <2>3. room'[r] = "OCCUPIED"
    BY <1>1, <1>3
  <2> QED
    BY <2>2, <2>3 DEF TellsGuests, Vacant
<1>4. CASE \A b \in RoomsOf(s) : rooms[b] # r
  <2>1. InRoom(r)' = InRoom(r)
    BY <1>1, <1>2, <1>4, RoomOpsAssumption DEF InRoom
  <2>2. room'[r] = room[r]
    BY <1>1, <1>4
  <2> QED
    BY <2>1, <2>2 DEF TellsGuests, Vacant
<1> QED
  BY <1>3, <1>4

\* A guest who moves leaves the old room empty and is alone in the new one.
LEMMA GuestsOfRoomChange ==
    ASSUME TypeOK, NEW r \in Room, TellsGuests(r),
           NEW b \in BookedRoom, NEW new \in Room, RoomChange(b, new)
    PROVE  TellsGuests(r)'
<1> DEFINE old == assigned[b]
<1>1. /\ old \in Room /\ old # new /\ room[new] = "AVAILABLE"
      /\ assigned' = [assigned EXCEPT ![b] = new]
      /\ room' = [room EXCEPT ![old] = "DIRTY", ![new] = "OCCUPIED"]
      /\ assigned \in [BookedRoom -> Room \cup {NoRoom}]
      /\ room \in [Room -> RoomStatus]
  BY DEF RoomChange, TypeOK
<1>2. assigned'[b] = new /\ \A c \in BookedRoom : c # b => assigned'[c] = assigned[c]
  BY <1>1
<1>3. b \in InRoom(old)
  BY DEF InRoom
<1> HIDE DEF old
<1>4. CASE r = new
  <2>1. Vacant(r) /\ room'[r] = "OCCUPIED"
    BY <1>1, <1>4 DEF TellsGuests
  <2>2. InRoom(r)' = {b}
    BY <1>2, <1>4, <2>1 DEF Vacant, InRoom
  <2> QED
    BY <2>1, <2>2 DEF TellsGuests, Vacant
<1>5. CASE r = old
  <2>1. InRoom(r) = {b}
    BY <1>3, <1>5 DEF TellsGuests
  <2>2. InRoom(r)' = {}
    BY <1>1, <1>2, <1>5, <2>1 DEF InRoom
  <2>3. room'[r] = "DIRTY"
    BY <1>1, <1>5
  <2> QED
    BY <2>2, <2>3 DEF TellsGuests, Vacant
<1>6. CASE r \notin {old, new}
  <2>1. InRoom(r)' = InRoom(r)
    BY <1>1, <1>2, <1>6 DEF InRoom, old
  <2>2. room'[r] = room[r]
    BY <1>1, <1>6
  <2> QED
    BY <2>1, <2>2 DEF TellsGuests, Vacant
<1> QED
  BY <1>4, <1>5, <1>6

\* A stay that leaves empties its rooms.
LEMMA GuestsOfCheckOut ==
    ASSUME TypeOK, NEW r \in Room, TellsGuests(r), NEW s \in Stay, CheckOut(s)
    PROVE  TellsGuests(r)'
<1> DEFINE left == {assigned[b] : b \in RoomsOf(s)} \cap Room
<1>1. /\ room' = [x \in Room |-> IF x \in left THEN "DIRTY" ELSE room[x]]
      /\ assigned' = [b \in BookedRoom |->
                        IF b \in RoomsOf(s) THEN NoRoom ELSE assigned[b]]
      /\ \A b \in RoomsOf(s) : b \in BookedRoom
  BY DEF CheckOut, RoomsOf
<1>2. CASE r \in left
  <2>1. PICK b \in RoomsOf(s) : assigned[b] = r
    BY <1>2
  <2>2. InRoom(r) = {b}
    BY <1>1, <2>1 DEF TellsGuests, InRoom
  <2>3. InRoom(r)' = {}
    BY <1>1, <2>1, <2>2, RoomOpsAssumption DEF InRoom
  <2>4. room'[r] = "DIRTY"
    BY <1>1, <1>2
  <2> QED
    BY <2>3, <2>4 DEF TellsGuests, Vacant
<1>3. CASE r \notin left
  <2>1. InRoom(r)' = InRoom(r)
    BY <1>1, <1>3, RoomOpsAssumption DEF InRoom
  <2>2. room'[r] = room[r]
    BY <1>1, <1>3
  <2> QED
    BY <2>1, <2>2 DEF TellsGuests, Vacant
<1> QED
  BY <1>2, <1>3

\* Whatever requests overlap, a room whose status tells who is in it goes on
\* telling it until a request that has tested the status before writes it after
\* (updatePhysicalRoom); check-in, room change, check-out, housekeeping,
\* maintenance and the board keep it, beside every other request.
THEOREM OccupancyKept == Spec => OnlyStaleWritesMislead
<1>1. TypeOK /\ StaysHaveTheirRooms /\ [Next]_vars =>
         \A r \in Room : TellsGuests(r) => TellsGuests(r)' \/ WritesStale(r)
  BY DeskOrStatus, GuestsOfOthers, GuestsOfCheckIn, GuestsOfRoomChange, GuestsOfCheckOut
<1> QED
  BY <1>1, TypeCorrect, StaysHoused, PTL DEF Spec, OnlyStaleWritesMislead

-----------------------------------------------------------------------------
(***************************************************************************)
(* The register of rooms.                                                  *)
(***************************************************************************)
Offered == {r \in Room : room[r] = "AVAILABLE"}

\* What the steps of the register start from.
Told == TypeOK /\ StaysHaveTheirRooms /\ \A r \in Room : TellsGuests(r)

\* A check-in enters the register (or, of a stay without rooms, changes nothing).
LEMMA EnterImplemented ==
    ASSUME Told, NEW s \in Stay, CheckIn(s)
    PROVE  Register!Next \/ UNCHANGED Register!vars
<1>1. PICK rooms \in [RoomsOf(s) -> {r \in Room : MayEnter(s, r)}] :
        /\ \A b, c \in RoomsOf(s) : rooms[b] = rooms[c] => b = c
        /\ assigned' = [b \in BookedRoom |->
                          IF b \in RoomsOf(s) THEN rooms[b] ELSE assigned[b]]
        /\ room' = [r \in Room |->
                      IF \E b \in RoomsOf(s) : rooms[b] = r THEN "OCCUPIED" ELSE room[r]]
  BY DEF CheckIn
<1>2. assigned \in [BookedRoom -> Room \cup {NoRoom}] /\ RoomsOf(s) \in SUBSET BookedRoom
  BY DEF Told, TypeOK, RoomsOf
<1>3. CASE RoomsOf(s) = {}
  <2>1. assigned' = assigned
    BY <1>1, <1>2, <1>3
  <2>2. Offered' = Offered
    BY <1>1, <1>3 DEF Offered
  <2> QED
    BY <2>1, <2>2 DEF Register!vars, Offered
<1>4. CASE RoomsOf(s) # {}
  <2>1. PICK b0 \in RoomsOf(s) : TRUE
    BY <1>4
  <2> DEFINE all == [b \in BookedRoom |-> IF b \in RoomsOf(s) THEN rooms[b] ELSE rooms[b0]]
  <2>2. all \in [BookedRoom -> Room]
    BY <1>1, <2>1
  <2>3. \A b \in RoomsOf(s) : all[b] = rooms[b]
    BY <1>2
  <2> HIDE DEF all
  <2>4. \A b \in RoomsOf(s) : assigned[b] = NoRoom /\ all[b] \in Offered
    <3>1. \A b \in RoomsOf(s) : assigned[b] = NoRoom
      BY DEF CheckIn, RoomsOf, Told, StaysHaveTheirRooms
    <3>2. \A b \in RoomsOf(s) : rooms[b] \in Room /\ room[rooms[b]] = "AVAILABLE"
      BY <1>1 DEF MayEnter
    <3> QED
      BY <2>3, <3>1, <3>2 DEF Offered
  <2>5. \A b, c \in RoomsOf(s) : all[b] = all[c] => b = c
    BY <1>1, <2>3
  <2>6. assigned' = [b \in BookedRoom |-> IF b \in RoomsOf(s) THEN all[b] ELSE assigned[b]]
    BY <1>1, <2>3
  <2>7. Offered' = Offered \ {all[b] : b \in RoomsOf(s)}
    <3>1. \A r \in Room : (room'[r] = "AVAILABLE") <=>
                          (room[r] = "AVAILABLE" /\ \A b \in RoomsOf(s) : rooms[b] # r)
      BY <1>1
    <3> QED
      BY <2>3, <3>1 DEF Offered
  <2>8. Register!Enter(RoomsOf(s), all)
    BY <1>4, <2>4, <2>5, <2>6, <2>7 DEF Register!Enter, Offered
  <2> QED
    BY <1>2, <2>2, <2>8 DEF Register!Next
<1> QED
  BY <1>3, <1>4

\* A room change moves in the register.
LEMMA MoveImplemented ==
    ASSUME Told, NEW b \in BookedRoom, NEW r \in Room, RoomChange(b, r)
    PROVE  Register!Next
<1> DEFINE old == assigned[b]
<1>1. /\ old \in Room /\ old # NoRoom /\ old # r /\ room[r] = "AVAILABLE"
      /\ assigned' = [assigned EXCEPT ![b] = r]
      /\ room' = [room EXCEPT ![old] = "DIRTY", ![r] = "OCCUPIED"]
      /\ room \in [Room -> RoomStatus]
  BY DEF RoomChange, Told, TypeOK
<1>2. room[old] = "OCCUPIED"
  BY <1>1 DEF Told, TellsGuests, Vacant, InRoom
<1> HIDE DEF old
<1>3. Offered' = Offered \ {r}
  BY <1>1, <1>2 DEF Offered
<1>4. r \in Offered
  BY <1>1 DEF Offered
<1>5. Register!Move(b, r)
  BY <1>1, <1>3, <1>4 DEF Register!Move, Offered, old
<1> QED
  BY <1>5 DEF Register!Next

\* A check-out leaves it.
LEMMA LeaveImplemented ==
    ASSUME Told, NEW s \in Stay, CheckOut(s)
    PROVE  Register!Next
<1> DEFINE left == {assigned[b] : b \in RoomsOf(s)} \cap Room
<1>1. /\ stay[s] = "CHECKED_IN"
      /\ room' = [r \in Room |-> IF r \in left THEN "DIRTY" ELSE room[r]]
      /\ assigned' = [b \in BookedRoom |->
                        IF b \in RoomsOf(s) THEN NoRoom ELSE assigned[b]]
      /\ RoomsOf(s) \in SUBSET BookedRoom
  BY DEF CheckOut, RoomsOf
<1>2. \A b \in RoomsOf(s) : assigned[b] # NoRoom
  BY <1>1 DEF RoomsOf, Told, StaysHaveTheirRooms
<1>3. \A r \in left : room[r] = "OCCUPIED"
  BY <1>1 DEF Told, TellsGuests, Vacant, InRoom
<1>4. Offered' = Offered
  BY <1>1, <1>3 DEF Offered
<1>5. Register!Leave(RoomsOf(s))
  BY <1>1, <1>2, <1>4 DEF Register!Leave, Offered
<1> QED
  BY <1>1, <1>5 DEF Register!Next

\* Anything else offers an empty room, withdraws it, changes nothing, or is
\* stale.
LEMMA OfferImplemented ==
    ASSUME Told, OtherStep
    PROVE  \/ Register!Next
           \/ UNCHANGED Register!vars
           \/ \E r \in Room : WritesStale(r)
<1>1. CASE UNCHANGED room
  BY <1>1 DEF OtherStep, Register!vars
<1>2. ASSUME NEW r \in Room, NEW v \in RoomStatus, StatusStep(r, v), ~WritesStale(r)
      PROVE  Register!Next \/ UNCHANGED Register!vars
  <2>1. \A x \in Room : room'[x] = IF x = r THEN v ELSE room[x]
    BY <1>2 DEF StatusStep, Told, TypeOK
  <2>2. CASE v = room[r]
    <3>1. room' = room
      BY <1>2, <2>2 DEF StatusStep, Told, TypeOK
    <3> QED
      BY <3>1 DEF OtherStep, Register!vars
  <2>3. CASE room[r] # "OCCUPIED" /\ v # "OCCUPIED"
    <3>1. \A b \in BookedRoom : assigned[b] # r
      BY <2>3 DEF Told, TellsGuests, Vacant, InRoom
    <3>2. Offered' = Offered \cup {r} \/ Offered' = Offered \ {r}
      <4>1. CASE v = "AVAILABLE"
        <5>1. Offered' = Offered \cup {r}
          BY <2>1, <4>1 DEF Offered
        <5> QED
          BY <5>1
      <4>2. CASE v # "AVAILABLE"
        <5>1. Offered' = Offered \ {r}
          BY <2>1, <4>2 DEF Offered
        <5> QED
          BY <5>1
      <4> QED
        BY <4>1, <4>2
    <3>3. Register!Offer(r)
      BY <3>1, <3>2 DEF Register!Offer, Offered, OtherStep
    <3> QED
      BY <3>3 DEF Register!Next
  <2> QED
    BY <1>2, <2>2, <2>3 DEF StatusStep, Told
<1> QED
  BY <1>1, <1>2 DEF OtherStep

\* Whatever requests overlap and whoever edits rooms, as long as the statuses
\* tell who is in the rooms the desk, housekeeping, maintenance and management
\* together keep the register: a guest enters only a room on offer, and only an
\* empty room is put on offer; a stale write alone is no step of the register.
THEOREM RegisterKept == Spec => KeepsRegister
<1>1. Told /\ [Next]_vars => \/ Register!Next
                             \/ UNCHANGED Register!vars
                             \/ \E r \in Room : WritesStale(r)
  BY DeskOrStatus, EnterImplemented, MoveImplemented, LeaveImplemented, OfferImplemented DEF Told
<1>2. TypeOK /\ StaysHaveTheirRooms /\ (\A r \in Room : TellsGuests(r)) => Told
  BY DEF Told
<1> QED
  BY <1>1, <1>2, TypeCorrect, StaysHoused, PTL DEF Spec, KeepsRegister

\* Whatever overlaps, guests and rooms are parted by stale writes alone: no
\* step of the desk, of housekeeping or of maintenance makes a status lie about
\* who is in the room, or does what the register of rooms does not know.
THEOREM RoomsKept == Spec => OnlyStaleWritesPart
  BY OccupancyKept, RegisterKept DEF OnlyStaleWritesPart

-----------------------------------------------------------------------------
(***************************************************************************)
(* Closed reservations.                                                    *)
(***************************************************************************)

\* A no-show that has read its reservation and not yet written finds it as it
\* was: whatever changes the reservation makes the request fail.
NoShowsAreCurrent ==
    \A q \in inFlight : q.op = "noShow" => reservation[q.stay] \in {"CONFIRMED", "MODIFIED"}

\* The no-show request of a stay is one request.
LEMMA NoShowOf ==
    ASSUME NEW q \in Request, q.op = "noShow"
    PROVE  q.stay \in Stay /\ q = [op |-> "noShow", stay |-> q.stay]
BY DEF Request

\* What a step does to the reservations and to the no-shows in flight.
LEMMA ReservationSteps ==
    ASSUME TypeOK, [Next]_vars
    PROVE  \/ \E s \in Stay : Cancel(s) \/ Modify(s)
           \/ \E q \in inFlight : MarkNoShow(q) /\ inFlight' = inFlight \ {q}
           \/ \E q \in Request : Read(q)
           \/ UNCHANGED reservation /\ inFlight' \subseteq inFlight
<1> DEFINE Quiet == UNCHANGED reservation /\ inFlight' \subseteq inFlight
<1>1. CASE StayStep
  BY <1>1 DEF StayStep, CheckIn, CheckOut
<1>2. CASE RoomStep
  <2>1. Quiet
    BY <1>2 DEF RoomStep, RoomChange, BoardSetsStatus, CreateTicket
  <2> QED
    BY <2>1
<1>3. CASE TaskStep
  <2>1. Quiet
    BY <1>3 DEF TaskStep, AcceptTask, StartTask, CompleteTask, ReportIssue
  <2> QED
    BY <2>1
<1>4. CASE TicketStep
  <2>1. Quiet
    BY <1>4 DEF TicketStep, AcceptTicket, StartTicket, ResolveTicket, CancelTicket,
                CloseTicket, TakeRoomOutOfOrder
  <2> QED
    BY <2>1
<1>5. ASSUME NEW q \in inFlight, Write(q)
      PROVE  (MarkNoShow(q) /\ inFlight' = inFlight \ {q}) \/ Quiet
  BY <1>5 DEF Write, UpdatePhysicalRoom, AssignTask, CancelTask, AssignTicket
<1>6. CASE UNCHANGED vars
  BY <1>6 DEF vars
<1> QED
  BY <1>1, <1>2, <1>3, <1>4, <1>5, <1>6 DEF Next

\* No step makes the reservation of a pending no-show stale.
LEMMA NoShowsStayCurrent ==
    ASSUME TypeOK, NoShowsAreCurrent, [Next]_vars
    PROVE  NoShowsAreCurrent'
<1>1. /\ inFlight \subseteq Request
      /\ reservation \in [Stay -> {"CONFIRMED", "MODIFIED", "CANCELLED", "NO_SHOW"}]
  BY DEF TypeOK
<1>2. ASSUME NEW s \in Stay, Cancel(s) \/ Modify(s), NEW q \in inFlight', q.op = "noShow"
      PROVE  reservation'[q.stay] \in {"CONFIRMED", "MODIFIED"}
  <2>1. q \in inFlight /\ q # [op |-> "noShow", stay |-> s]
    BY <1>2 DEF Cancel, Modify, BumpVersion
  <2>2. q.stay # s
    BY <1>1, <1>2, <2>1, NoShowOf
  <2>3. reservation'[q.stay] = reservation[q.stay]
    BY <1>1, <1>2, <2>1, <2>2, RequestFields DEF Cancel, Modify
  <2> QED
    BY <1>2, <2>1, <2>3 DEF NoShowsAreCurrent
<1>3. ASSUME NEW p \in inFlight, MarkNoShow(p), inFlight' = inFlight \ {p},
             NEW q \in inFlight', q.op = "noShow"
      PROVE  reservation'[q.stay] \in {"CONFIRMED", "MODIFIED"}
  <2>1. q \in inFlight /\ q # p /\ p.op = "noShow"
    BY <1>3 DEF MarkNoShow
  <2>2. q.stay # p.stay
    <3>1. q = [op |-> "noShow", stay |-> q.stay] /\ p = [op |-> "noShow", stay |-> p.stay]
      BY <1>1, <1>3, <2>1, NoShowOf
    <3> QED
      BY <2>1, <3>1
  <2>3. reservation'[q.stay] = reservation[q.stay]
    BY <1>3, <2>2 DEF MarkNoShow
  <2> QED
    BY <1>3, <2>1, <2>3 DEF NoShowsAreCurrent
<1>4. ASSUME NEW p \in Request, Read(p), NEW q \in inFlight', q.op = "noShow"
      PROVE  reservation'[q.stay] \in {"CONFIRMED", "MODIFIED"}
  <2>1. reservation' = reservation /\ inFlight' = inFlight \cup {p} /\ Passes(p)
    BY <1>4 DEF Read
  <2>2. p.op = "noShow" => reservation[p.stay] \in {"CONFIRMED", "MODIFIED"}
    BY <2>1 DEF Passes
  <2> QED
    BY <1>4, <2>1, <2>2 DEF NoShowsAreCurrent
<1>5. CASE UNCHANGED reservation /\ inFlight' \subseteq inFlight
  BY <1>5 DEF NoShowsAreCurrent
<1> QED
  BY <1>2, <1>3, <1>4, <1>5, ReservationSteps DEF NoShowsAreCurrent

\* Whatever requests overlap, a reservation that is cancelled or marked a
\* no-show never becomes anything else: a no-show that read it before the
\* cancellation loses on the version (cancel, modify, markNoShow).
THEOREM ClosedForGood == Spec => ClosedReservationsStayClosed
<1> DEFINE Stays == \A s \in Stay : reservation[s] \in {"CANCELLED", "NO_SHOW"} =>
                                      reservation'[s] = reservation[s]
<1>1. Init => NoShowsAreCurrent
  BY DEF Init, NoShowsAreCurrent
<1>2. TypeOK /\ NoShowsAreCurrent /\ [Next]_vars => NoShowsAreCurrent'
  BY NoShowsStayCurrent
<1>3. TypeOK /\ NoShowsAreCurrent /\ [Next]_vars => [Stays]_vars
  <2> SUFFICES ASSUME TypeOK, NoShowsAreCurrent, [Next]_vars, NEW s \in Stay,
                      reservation[s] \in {"CANCELLED", "NO_SHOW"}
               PROVE  reservation'[s] = reservation[s]
    OBVIOUS
  <2>1. ASSUME NEW t \in Stay, Cancel(t) \/ Modify(t)
        PROVE  reservation'[s] = reservation[s]
    <3>1. DOMAIN reservation = Stay /\ s # t
      BY <2>1 DEF Cancel, Modify, TypeOK
    <3> QED
      BY <2>1, <3>1 DEF Cancel, Modify
  <2>2. ASSUME NEW q \in inFlight, MarkNoShow(q)
        PROVE  reservation'[s] = reservation[s]
    <3>1. q.stay # s
      BY <2>2 DEF MarkNoShow, NoShowsAreCurrent
    <3> QED
      BY <2>2, <3>1 DEF MarkNoShow
  <2>3. ASSUME NEW q \in Request, Read(q)
        PROVE  reservation'[s] = reservation[s]
    BY <2>3 DEF Read
  <2> QED
    BY <2>1, <2>2, <2>3, ReservationSteps
<1> QED
  BY <1>1, <1>2, <1>3, TypeCorrect, PTL DEF Spec, ClosedReservationsStayClosed
-----------------------------------------------------------------------------
(***************************************************************************)
(* Housekeeping and maintenance: one room's tasks and tickets.             *)
(***************************************************************************)

\* A room may change as it likes while it has no active task.
LEMMA TasksKept ==
    ASSUME NEW r \in Room, TellsTasks(r), UNCHANGED task,
           room'[r] = room[r] \/ room[r] \notin {"DIRTY", "CLEANING"}
    PROVE  TellsTasks(r)'
BY DEF TellsTasks, ActiveTasks

\* Rooms that become dirty get a task, and none of them was being cleaned.
LEMMA TasksEnsured ==
    ASSUME NEW r \in Room, TellsTasks(r), NEW rs, EnsureTasks(rs),
           r \in rs => room'[r] = "DIRTY" /\ room[r] # "CLEANING",
           r \notin rs => room'[r] = room[r] \/ room[r] \notin {"DIRTY", "CLEANING"}
    PROVE  TellsTasks(r)'
<1> DEFINE lacking == {x \in rs : ActiveTasks(x) = {}}
<1>1. PICK new \in [lacking -> FreeTasks] :
         task' = [t \in Task |->
                    IF \E x \in lacking : new[x] = t
                      THEN [room |-> CHOOSE x \in lacking : new[x] = t,
                            status |-> "PENDING"]
                      ELSE task[t]]
  BY DEF EnsureTasks
<1>2. ASSUME NEW t \in ActiveTasks(r)'
      PROVE  /\ room'[r] \in {"DIRTY", "CLEANING"}
             /\ task'[t].status = "CLEANING" => room'[r] = "CLEANING"
  <2>1. t \in Task /\ task'[t].status \in ActiveTask /\ task'[t].room = r
    BY <1>2 DEF ActiveTasks
  <2>2. CASE \E x \in lacking : new[x] = t
    <3>1. PICK x \in lacking : task'[t] = [room |-> x, status |-> "PENDING"]
      BY <1>1, <2>1, <2>2
    <3>2. x = r /\ task'[t].status = "PENDING"
      BY <2>1, <3>1
    <3> QED
      BY <3>1, <3>2
  <2>3. CASE ~ \E x \in lacking : new[x] = t
    <3>1. task'[t] = task[t]
      BY <1>1, <2>1, <2>3
    <3>2. t \in ActiveTasks(r)
      BY <2>1, <3>1 DEF ActiveTasks
    <3>3. /\ room[r] \in {"DIRTY", "CLEANING"}
          /\ task[t].status = "CLEANING" => room[r] = "CLEANING"
      BY <3>2 DEF TellsTasks
    <3> QED
      BY <3>1, <3>3
  <2> QED
    BY <2>2, <2>3
<1> QED
  BY <1>2 DEF TellsTasks

\* A task whose status fits its room, or which is of another room.
LEMMA TaskSet ==
    ASSUME TypeOK, NEW r \in Room, TellsTasks(r), UNCHANGED room,
           NEW t \in Task, NEW status, SetTask(t, status), status # "CLEANING",
           task[t].room = r => task[t].status \in ActiveTask \/ status \notin ActiveTask
    PROVE  TellsTasks(r)'
<1>1. \A u \in Task : task'[u].room = task[u].room /\ (u # t => task'[u] = task[u])
  BY DEF TypeOK, SetTask
<1>2. task'[t].status = status
  BY DEF TypeOK, SetTask
<1> QED
  BY <1>1, <1>2 DEF TellsTasks, ActiveTasks

\* A room in which housekeeping starts or ends cleaning has no other task.
LEMMA RoomCleaned ==
    ASSUME TypeOK, NEW r \in Room, TellsTasks(r), NEW t \in Task, StartTask(t) \/ CompleteTask(t)
    PROVE  TellsTasks(r)'
<1>1. task[t].status \in ActiveTask /\ room \in [Room -> RoomStatus]
  BY DEF TypeOK, StartTask, CompleteTask, ActiveTask
<1>2. \A u \in Task : task'[u].room = task[u].room /\ (u # t => task'[u] = task[u])
  BY DEF TypeOK, StartTask, CompleteTask, SetTask
<1>3. CASE task[t].room # r
  <2>1. room'[r] = room[r]
    BY <1>1, <1>3 DEF StartTask, CompleteTask, SetRoom
  <2>2. \A u \in ActiveTasks(r)' : u \in ActiveTasks(r) /\ task'[u] = task[u]
    BY <1>2, <1>3 DEF ActiveTasks
  <2> QED
    BY <2>1, <2>2 DEF TellsTasks
<1>4. CASE task[t].room = r
  <2>1. t \in ActiveTasks(r)
    BY <1>1, <1>4 DEF ActiveTasks
  <2>2. \A u \in ActiveTasks(r)' : u = t
    <3>1. ASSUME NEW u \in ActiveTasks(r)', u # t
          PROVE  u \in ActiveTasks(r)
      BY <1>2, <3>1 DEF ActiveTasks
    <3> QED
      BY <2>1, <3>1 DEF TypeOK
  <2>3. CASE StartTask(t)
    <3>1. room'[r] = "CLEANING"
      BY <1>1, <1>4, <2>3 DEF StartTask, SetRoom
    <3> QED
      BY <3>1 DEF TellsTasks
  <2>4. CASE CompleteTask(t)
    <3>1. task'[t].status \notin ActiveTask
      BY <2>4 DEF TypeOK, CompleteTask, SetTask, ActiveTask
    <3>2. ActiveTasks(r)' = {}
      BY <2>2, <3>1 DEF ActiveTasks
    <3> QED
      BY <3>2 DEF TellsTasks
  <2> QED
    BY <2>3, <2>4
<1> QED
  BY <1>3, <1>4

\* Management's change of a status brings the room's tasks with it.
LEMMA TasksOfBoard ==
    ASSUME TypeOK, NEW r \in Room, TellsGuests(r), TellsTasks(r),
           NEW x, NEW to \in RoomStatus, SetManagementRoomStatus(x, to)
    PROVE  TellsTasks(r)'
<1>1. room \in [Room -> RoomStatus] /\ room' = [room EXCEPT ![x] = to] /\ MaySetStatus(x, to)
  BY DEF TypeOK, SetManagementRoomStatus, SetRoom
<1>2. room'[r] = IF x = r THEN to ELSE room[r]
  BY <1>1
<1>3. CASE to \in {"OUT_OF_ORDER", "AVAILABLE"}
  <2>1. task' = [t \in Task |-> IF t \in ActiveTasks(x)
                                  THEN [task[t] EXCEPT !.status = "CANCELLED"]
                                  ELSE task[t]]
    BY <1>3 DEF SetManagementRoomStatus
  <2>2. ASSUME NEW t \in ActiveTasks(r)'
        PROVE  t \in ActiveTasks(r) /\ task'[t] = task[t] /\ x # r
    <3>1. t \in Task /\ task'[t].status \in ActiveTask /\ task'[t].room = r
      BY <2>2 DEF ActiveTasks
    <3>2. t \notin ActiveTasks(x)
      BY <2>1, <3>1 DEF ActiveTask, TypeOK
    <3> QED
      BY <2>1, <3>1, <3>2 DEF ActiveTasks
  <2> QED
    BY <1>2, <2>2 DEF TellsTasks
<1>4. CASE to = "DIRTY"
  <2>1. EnsureTasks({x})
    BY <1>4 DEF SetManagementRoomStatus
  <2>2. x = r => room[r] # "CLEANING"
    BY <1>1, <1>4 DEF MaySetStatus, ADMIN_TRANSITIONS
  <2> QED
    BY <1>2, <1>4, <2>1, <2>2, TasksEnsured
<1>5. CASE to \in {"OCCUPIED", "CLEANING"}
  <2>1. UNCHANGED task
    BY <1>5 DEF SetManagementRoomStatus
  <2>2. x = r => to = room[r] \/ (to = "CLEANING" /\ room[r] = "DIRTY")
    BY <1>1, <1>5, MaySetStatusKeepsOccupied DEF MaySetStatus, ADMIN_TRANSITIONS, RoomStatus
  <2>3. room'[r] = room[r] \/ (room'[r] = "CLEANING" /\ room[r] = "DIRTY")
    BY <1>2, <2>2
  <2> QED
    BY <2>1, <2>3 DEF TellsTasks, ActiveTasks
<1> QED
  BY <1>3, <1>4, <1>5 DEF RoomStatus

\* A step that leaves the room out of order if it is, and blocks it no more.
LEMMA BlockedKept ==
    ASSUME NEW r \in Room, TellsTickets(r), Blocking(r)' \subseteq Blocking(r),
           room'[r] = room[r] \/ room[r] # "OUT_OF_ORDER"
    PROVE  TellsTickets(r)'
BY DEF TellsTickets

\* A ticket keeps no room out of order when it is opened.
LEMMA TicketOpened ==
    ASSUME TypeOK, NEW r \in Room, NEW x, NEW t, NewTicket(x, t)
    PROVE  Blocking(r)' \subseteq Blocking(r)
<1>1. PICK k \in FreeTickets :
         ticket' = [ticket EXCEPT ![k] = [room |-> x, status |-> "OPEN",
                                          requiresOutOfOrder |-> FALSE, task |-> t]]
  BY DEF NewTicket
<1>2. \A u \in Ticket : ticket'[u] = IF u = k THEN [room |-> x, status |-> "OPEN",
                                                    requiresOutOfOrder |-> FALSE, task |-> t]
                                     ELSE ticket[u]
  BY <1>1 DEF TypeOK
<1>3. ASSUME NEW u \in Blocking(r)'
      PROVE  u \in Blocking(r)
  <2>1. u \in Ticket /\ ticket'[u].requiresOutOfOrder
    BY <1>3 DEF Blocking
  <2>2. ticket'[u] = ticket[u]
    BY <1>2, <2>1
  <2> QED
    BY <1>3, <2>2 DEF Blocking
<1> QED
  BY <1>3

\* A ticket of the room whose status changes was active, or is no longer.
LEMMA TicketSet ==
    ASSUME TypeOK, NEW r \in Room, NEW k \in Ticket, NEW status, SetTicket(k, status),
           ticket[k].room = r => ticket[k].status \in ActiveTicket
    PROVE  /\ Blocking(r)' \subseteq Blocking(r)
           /\ status \notin ActiveTicket => k \notin Blocking(r)'
<1>1. \A u \in Ticket : /\ ticket'[u].room = ticket[u].room
                        /\ ticket'[u].requiresOutOfOrder = ticket[u].requiresOutOfOrder
                        /\ u # k => ticket'[u] = ticket[u]
  BY DEF TypeOK, SetTicket
<1>2. ticket'[k].status = status
  BY DEF TypeOK, SetTicket
<1> QED
  BY <1>1, <1>2 DEF Blocking

\* What is kept of a room, whose status agrees with its guests, tasks and tickets.
Agrees(r) == TellsGuests(r) /\ TellsTasks(r) /\ TellsTickets(r)
WorkKept(r) == TellsTasks(r)' /\ TellsTickets(r)'

\* The desk takes rooms on offer, and leaves the occupied ones dirty,
LEMMA DeskWork ==
    ASSUME TypeOK, NEW r \in Room, Agrees(r),
           NEW s \in Stay, CheckIn(s) \/ CheckOut(s) \/ Cancel(s) \/ Modify(s)
    PROVE  WorkKept(r)
<1>1. Blocking(r)' \subseteq Blocking(r)
  BY DEF CheckIn, CheckOut, Cancel, Modify, Blocking
<1>2. CASE CheckIn(s)
  <2>1. PICK rooms \in [RoomsOf(s) -> {x \in Room : MayEnter(s, x)}] :
          room' = [x \in Room |->
                     IF \E b \in RoomsOf(s) : rooms[b] = x THEN "OCCUPIED" ELSE room[x]]
    BY <1>2 DEF CheckIn
  <2>2. room'[r] = room[r] \/ room[r] = "AVAILABLE"
    BY <2>1 DEF MayEnter
  <2>3. UNCHANGED task
    BY <1>2 DEF CheckIn
  <2> QED
    BY <1>1, <2>2, <2>3, TasksKept, BlockedKept DEF Agrees, WorkKept
<1>3. CASE CheckOut(s)
  <2> DEFINE left == {assigned[b] : b \in RoomsOf(s)} \cap Room
  <2>1. /\ EnsureTasks(left)
        /\ room' = [x \in Room |-> IF x \in left THEN "DIRTY" ELSE room[x]]
    BY <1>3 DEF CheckOut
  <2>2. r \in left => room[r] = "OCCUPIED"
    BY DEF RoomsOf, Agrees, TellsGuests, Vacant, InRoom
  <2> HIDE DEF left
  <2>3. room'[r] = IF r \in left THEN "DIRTY" ELSE room[r]
    BY <2>1
  <2>4. TellsTasks(r)'
    BY <2>1, <2>2, <2>3, TasksEnsured DEF Agrees
  <2> QED
    BY <1>1, <2>2, <2>3, <2>4, BlockedKept DEF Agrees, WorkKept
<1>4. CASE Cancel(s) \/ Modify(s)
  <2>1. UNCHANGED <<room, task>>
    BY <1>4 DEF Cancel, Modify
  <2> QED
    BY <1>1, <2>1, TasksKept, BlockedKept DEF Agrees, WorkKept
<1> QED
  BY <1>2, <1>3, <1>4

\* and so does a room change, whose old room gets a task of its own.
LEMMA RoomChangeWork ==
    ASSUME TypeOK, NEW r \in Room, Agrees(r),
           NEW b \in BookedRoom, NEW new \in Room, RoomChange(b, new)
    PROVE  WorkKept(r)
<1> DEFINE old == assigned[b]
<1>1. /\ old \in Room /\ old # new /\ room[new] = "AVAILABLE"
      /\ room' = [room EXCEPT ![old] = "DIRTY", ![new] = "OCCUPIED"]
      /\ EnsureTasks({old})
      /\ room \in [Room -> RoomStatus]
  BY DEF RoomChange, TypeOK
<1>2. r = old => room[r] = "OCCUPIED"
  BY DEF Agrees, TellsGuests, Vacant, InRoom
<1> HIDE DEF old
<1>3. /\ r = old => room'[r] = "DIRTY"
      /\ r # old => room'[r] = room[r] \/ room[r] = "AVAILABLE"
  BY <1>1
<1>4. TellsTasks(r)'
  BY <1>1, <1>2, <1>3, TasksEnsured DEF Agrees
<1>5. Blocking(r)' = Blocking(r)
  BY DEF RoomChange, Blocking
<1> QED
  BY <1>2, <1>3, <1>4, <1>5, BlockedKept DEF Agrees, WorkKept

\* The board changes the room's tasks with its status; if it is blocked and
\* does not stay out of order, the board overrides.
LEMMA BoardWork ==
    ASSUME TypeOK, NEW r \in Room, Agrees(r), ~Overrides(r),
           NEW x \in Room, NEW to \in BoardStatus, BoardSetsStatus(x, to)
    PROVE  WorkKept(r)
<1>1. to \in RoomStatus /\ SetManagementRoomStatus(x, to) /\ UNCHANGED ticket
  BY RoomOpsAssumption DEF BoardSetsStatus
<1>2. TellsTasks(r)'
  BY <1>1, TasksOfBoard DEF Agrees
<1>3. room'[r] = IF x = r THEN to ELSE room[r]
  BY <1>1 DEF SetManagementRoomStatus, SetRoom, TypeOK
<1>4. Blocking(r)' = Blocking(r)
  BY <1>1 DEF Blocking
<1>5. Blocking(r) # {} /\ x = r => to = "OUT_OF_ORDER"
  BY DEF Overrides
<1> QED
  BY <1>2, <1>3, <1>4, <1>5 DEF Agrees, WorkKept, TellsTickets

\* Housekeeping,
LEMMA TaskWork ==
    ASSUME TypeOK, NEW r \in Room, Agrees(r),
           NEW t \in Task, AcceptTask(t) \/ StartTask(t) \/ CompleteTask(t) \/ ReportIssue(t)
    PROVE  WorkKept(r)
<1>1. CASE AcceptTask(t)
  <2>1. /\ SetTask(t, "ACCEPTED") /\ task[t].status \in ActiveTask
        /\ UNCHANGED <<room, ticket>>
    BY <1>1 DEF AcceptTask, ActiveTask
  <2>2. TellsTasks(r)'
    BY <2>1, TaskSet DEF Agrees
  <2> QED
    BY <2>1, <2>2, BlockedKept DEF Agrees, WorkKept, Blocking
<1>2. CASE StartTask(t) \/ CompleteTask(t)
  <2>1. TellsTasks(r)'
    BY <1>2, RoomCleaned DEF Agrees
  <2>2. UNCHANGED ticket
    BY <1>2 DEF StartTask, CompleteTask
  <2>3. room'[r] = room[r] \/ room[r] # "OUT_OF_ORDER"
    BY <1>2 DEF StartTask, CompleteTask, SetRoom, TypeOK
  <2> QED
    BY <2>1, <2>2, <2>3, BlockedKept DEF Agrees, WorkKept, Blocking
<1>3. CASE ReportIssue(t)
  <2>1. NewTicket(task[t].room, t) /\ UNCHANGED <<room, task>>
    BY <1>3 DEF ReportIssue
  <2>2. Blocking(r)' \subseteq Blocking(r)
    BY <2>1, TicketOpened
  <2> QED
    BY <2>1, <2>2, TasksKept, BlockedKept DEF Agrees, WorkKept
<1> QED
  BY <1>1, <1>2, <1>3

\* the closing of a ticket: a room comes back from repair once nothing else
\* blocks it,
LEMMA CloseTicketWork ==
    ASSUME TypeOK, NEW r \in Room, Agrees(r), NEW k \in Ticket, NEW status,
           status \notin ActiveTicket, ticket[k].status \in ActiveTicket, CloseTicket(k, status)
    PROVE  WorkKept(r)
<1>1. SetTicket(k, status)
  BY DEF CloseTicket
<1>2. Blocking(r)' \subseteq Blocking(r) /\ k \notin Blocking(r)'
  BY <1>1, TicketSet
<1>3. CASE UNCHANGED <<room, task>>
  BY <1>2, <1>3, TasksKept, BlockedKept DEF Agrees, WorkKept
<1>4. ASSUME NEW x, x = ticket[k].room, room[x] = "OUT_OF_ORDER", Blocking(x) = {k},
             SetRoom(x, "DIRTY"), EnsureTasks({x})
      PROVE  WorkKept(r)
  <2>1. room'[r] = IF x = r THEN "DIRTY" ELSE room[r]
    BY <1>4 DEF SetRoom, TypeOK
  <2>2. TellsTasks(r)'
    BY <1>4, <2>1, TasksEnsured DEF Agrees
  <2>3. x = r => Blocking(r)' = {}
    BY <1>2, <1>4
  <2> QED
    BY <1>2, <2>1, <2>2, <2>3 DEF Agrees, WorkKept, TellsTickets
<1> QED
  BY <1>3, <1>4 DEF CloseTicket

\* and maintenance.
LEMMA TicketWork ==
    ASSUME TypeOK, NEW r \in Room, Agrees(r), NEW k \in Ticket,
           \/ AcceptTicket(k) \/ StartTicket(k) \/ ResolveTicket(k)
           \/ CancelTicket(k) \/ TakeRoomOutOfOrder(k)
    PROVE  WorkKept(r)
<1>1. ASSUME NEW status, SetTicket(k, status), ticket[k].status \in ActiveTicket,
             UNCHANGED <<room, task>>
      PROVE  WorkKept(r)
  BY <1>1, TicketSet, TasksKept, BlockedKept DEF Agrees, WorkKept
<1>2. CASE AcceptTicket(k)
  BY <1>1, <1>2 DEF AcceptTicket, ActiveTicket
<1>3. CASE StartTicket(k)
  BY <1>1, <1>3 DEF StartTicket, ActiveTicket
<1>4. CASE ResolveTicket(k)
  BY <1>4, CloseTicketWork DEF ResolveTicket, ActiveTicket
<1>5. CASE CancelTicket(k)
  BY <1>5, CloseTicketWork DEF CancelTicket, ActiveTicket
<1>6. CASE TakeRoomOutOfOrder(k)
  <2>1. PICK x : x = ticket[k].room
    OBVIOUS
  <2>2. /\ \/ SetManagementRoomStatus(x, "OUT_OF_ORDER")
           \/ room[x] = "OUT_OF_ORDER" /\ UNCHANGED <<room, task>>
        /\ ticket' = [ticket EXCEPT ![k].requiresOutOfOrder = TRUE]
    BY <1>6, <2>1 DEF TakeRoomOutOfOrder
  <2>3. \A u \in Ticket : /\ ticket'[u].room = ticket[u].room
                          /\ ticket'[u].status = ticket[u].status
                          /\ u # k => ticket'[u] = ticket[u]
    BY <2>2 DEF TypeOK
  <2>4. TellsTasks(r)'
    <3>1. "OUT_OF_ORDER" \in RoomStatus
      BY DEF RoomStatus
    <3> QED
      BY <2>2, <3>1, TasksOfBoard, TasksKept DEF Agrees
  <2>5. room'[r] = IF x = r THEN "OUT_OF_ORDER" ELSE room[r]
    BY <2>2 DEF SetManagementRoomStatus, SetRoom, TypeOK
  <2>6. x # r => Blocking(r)' \subseteq Blocking(r)
    BY <2>1, <2>3 DEF Blocking
  <2> QED
    BY <2>4, <2>5, <2>6 DEF Agrees, WorkKept, TellsTickets
<1> QED
  BY <1>2, <1>3, <1>4, <1>5, <1>6

\* A request that writes what still holds, or of another room.
LEMMA WriteWork ==
    ASSUME TypeOK, NEW r \in Room, Agrees(r), ~Overrides(r), NEW q \in inFlight, Write(q)
    PROVE  WorkKept(r)
<1>1. q \in Request /\ (Concerns(q, r) => Passes(q))
  BY DEF TypeOK, Overrides, WritesStale
<1>2. CASE UpdatePhysicalRoom(q)
  <2>1. q.op = "setStatus" /\ SetRoom(q.room, q.to) /\ UNCHANGED <<task, ticket>>
    BY <1>2 DEF UpdatePhysicalRoom
  <2>2. q.room # r
    BY <2>1 DEF Overrides
  <2>3. room'[r] = room[r]
    BY <2>1, <2>2 DEF SetRoom, TypeOK
  <2> QED
    BY <2>1, <2>3, TasksKept, BlockedKept DEF Agrees, WorkKept, Blocking
<1>3. ASSUME UNCHANGED <<room, ticket>>, TellsTasks(r)'
      PROVE  WorkKept(r)
  BY <1>3, BlockedKept DEF Agrees, WorkKept, Blocking
<1>4. CASE AssignTask(q)
  <2>1. q.op = "assignTask" /\ q.task \in Task
    BY <1>1, <1>4, RequestFields DEF AssignTask
  <2>2. task[q.task].room = r => task[q.task].status \in ActiveTask
    BY <1>1, <2>1 DEF Concerns, Passes, ActiveTask
  <2>3. UNCHANGED <<room, ticket>> /\ (SetTask(q.task, "ACCEPTED") \/ UNCHANGED task)
    BY <1>4 DEF AssignTask
  <2>4. TellsTasks(r)'
    BY <2>1, <2>2, <2>3, TaskSet, TasksKept DEF Agrees
  <2> QED
    BY <1>3, <2>3, <2>4
<1>5. CASE CancelTask(q)
  <2>1. q.task \in Task /\ "CANCELLED" \notin ActiveTask
    BY <1>1, <1>5, RequestFields DEF CancelTask, ActiveTask
  <2>2. UNCHANGED <<room, ticket>> /\ SetTask(q.task, "CANCELLED")
    BY <1>5 DEF CancelTask
  <2>3. TellsTasks(r)'
    BY <2>1, <2>2, TaskSet DEF Agrees
  <2> QED
    BY <1>3, <2>2, <2>3
<1>6. CASE AssignTicket(q)
  <2>1. q.op = "assignTicket" /\ q.ticket \in Ticket
    BY <1>1, <1>6, RequestFields DEF AssignTicket
  <2>2. ticket[q.ticket].room = r => ticket[q.ticket].status \in ActiveTicket
    BY <1>1, <2>1 DEF Concerns, Passes, ActiveTicket
  <2>3. UNCHANGED <<room, task>> /\ SetTicket(q.ticket, "ASSIGNED")
    BY <1>6 DEF AssignTicket
  <2> QED
    BY <2>1, <2>2, <2>3, TicketSet, TasksKept, BlockedKept DEF Agrees, WorkKept
<1>7. CASE MarkNoShow(q)
  <2>1. UNCHANGED <<room, task, ticket>>
    BY <1>7 DEF MarkNoShow
  <2> QED
    BY <1>3, <2>1, TasksKept DEF Agrees
<1> QED
  BY <1>2, <1>4, <1>5, <1>6, <1>7 DEF Write

\* Hence each kind of step.
LEMMA WorkStep ==
    ASSUME TypeOK, [Next]_vars, NEW r \in Room, Agrees(r), ~Overrides(r)
    PROVE  WorkKept(r)
<1>1. ASSUME UNCHANGED <<room, task, ticket>>
      PROVE  WorkKept(r)
  BY <1>1, TasksKept, BlockedKept DEF Agrees, WorkKept, Blocking
<1>2. CASE StayStep
  BY <1>2, DeskWork DEF StayStep
<1>3. CASE RoomStep
  <2>1. ASSUME NEW x \in Room, CreateTicket(x)
        PROVE  WorkKept(r)
    <3>1. NewTicket(x, NoTask) /\ UNCHANGED <<room, task>>
      BY <2>1 DEF CreateTicket
    <3>2. Blocking(r)' \subseteq Blocking(r)
      BY <3>1, TicketOpened
    <3> QED
      BY <3>1, <3>2, TasksKept, BlockedKept DEF Agrees, WorkKept
  <2> QED
    BY <1>3, <2>1, RoomChangeWork, BoardWork DEF RoomStep
<1>4. CASE TaskStep
  BY <1>4, TaskWork DEF TaskStep
<1>5. CASE TicketStep
  BY <1>5, TicketWork DEF TicketStep
<1>6. ASSUME NEW q \in Request, Read(q)
      PROVE  WorkKept(r)
  BY <1>1, <1>6 DEF Read
<1>7. CASE UNCHANGED vars
  BY <1>1, <1>7 DEF vars
<1> QED
  BY <1>2, <1>3, <1>4, <1>5, <1>6, <1>7, WriteWork DEF Next

\* Whatever requests overlap, and whatever the board and edits of rooms are used
\* for: a room whose status agrees with its guests, its tasks and its tickets
\* goes on agreeing, until a stale write, an edit or the board overrides the work
\* (SetManagementRoomStatus, ensureCleaningTask, resolve, cancel and the rest).
THEOREM WorkHolds == Spec => OnlyOverridesUndoWork
<1>1. TypeOK /\ [Next]_vars =>
         \A r \in Room :
            TellsGuests(r) /\ TellsTasks(r) /\ TellsTickets(r) =>
               (TellsTasks(r) /\ TellsTickets(r))' \/ Overrides(r)
  BY WorkStep DEF Agrees, WorkKept
<1> QED
  BY <1>1, TypeCorrect, PTL DEF Spec, OnlyOverridesUndoWork
=============================================================================
