---------------------------- MODULE BanquetsProofs ----------------------------
(***************************************************************************)
(* Theorems about Banquets for every calendar, every set of spaces, places *)
(* and clerks: one clerk at a time never gives a space to two functions,   *)
(* and with more clerks only a write that reopens an event does.           *)
(***************************************************************************)
EXTENDS Banquets, FiniteSetTheorems, TLAPS

\* What a clerk may have between a read and its write.
Request ==
    {Idle}
      \cup [op : {"event"}, of : Event, was : Status, status : Status, dates : Dates]
      \cup [op : {"create"}, event : Event, place : Place, status : {"BOOKED", "COMPLETED"}]
      \cup [op : {"update"}, of : Fn, event : Event, place : Place,
            status : FnStatus \cup {"same"}]
      \cup [op : {"finalize"}, of : Fn]

\* A request is about what exists, and a function stays with its event.
Refers(r) ==
    /\ r.op = "event" => r.of \in Events
    /\ r.op = "create" => r.event \in Events
    /\ r.op = "update" => r.of \in Fns /\ r.event \in Events /\ fn[r.of].event = r.event
    /\ r.op = "finalize" => beo[r.of] # NoBeo

EventTypes == event \in [Event -> {NoEvent} \cup [status : Status, dates : Dates]]
FnTypes ==
    /\ fn \in [Fn -> {NoFn} \cup [event : Event, place : Place, status : FnStatus]]
    /\ \A f \in Fns : fn[f].event \in Events
BeoTypes ==
    /\ beo \in [Fn -> {NoBeo} \cup [status : {"DRAFT", "FINAL"}, detailed : BOOLEAN]]
    /\ \A f \in Fn : beo[f] # NoBeo => f \in Fns
DeskTypes ==
    /\ available \subseteq Space /\ staff \subseteq Clerk
    /\ desk \in [Clerk -> Request]
    /\ \A c \in Clerk : Refers(desk[c]) /\ (desk[c] # Idle => c \in staff)

\* Inductive for any number of clerks.
BTypes == EventTypes /\ FnTypes /\ BeoTypes /\ DeskTypes

\* The statuses of an event, and those that may follow each.
LEMMA Statuses ==
    /\ Status = {"INQUIRY", "TENTATIVE", "CONFIRMED", "IN_PROGRESS", "COMPLETED", "CANCELLED"}
    /\ \A s \in Status : NextStatus[s] \subseteq Status
    /\ NextStatus["COMPLETED"] = {} /\ NextStatus["CANCELLED"] = {}
BY DEF Status, NextStatus

\* What a request names, by its kind.
LEMMA RequestFields ==
    ASSUME NEW r \in Request
    PROVE  /\ r.op \in {"idle", "event", "create", "update", "finalize"}
           /\ r.op = "idle" => r = Idle
           /\ r.op = "event" => r.of \in Event /\ r.was \in Status /\ r.status \in Status
                                /\ r.dates \in Dates
           /\ r.op = "create" => r.event \in Event /\ r.place \in Place
                                 /\ r.status \in {"BOOKED", "COMPLETED"}
           /\ r.op = "update" => r.of \in Fn /\ r.event \in Event /\ r.place \in Place
                                 /\ r.status \in FnStatus \cup {"same"}
           /\ r.op = "finalize" => r.of \in Fn
BY DEF Request, Idle

\* Events and functions are never forgotten, a function stays with its event
\* and an order with its function.
Growth ==
    /\ Events \subseteq Events' /\ Fns \subseteq Fns'
    /\ \A f \in Fns : fn'[f].event = fn[f].event
    /\ \A f \in Fn : beo[f] # NoBeo => beo'[f] # NoBeo

\* A step of one clerk leaves the others' requests as they are.
LEMMA DeskStepTypes ==
    ASSUME BTypes, Growth, NEW c \in Clerk, c \in staff, UNCHANGED staff, available' \subseteq Space,
           NEW r \in Request, desk' = [desk EXCEPT ![c] = r], Refers(desk[c])'
    PROVE  DeskTypes'
<1>1. desk \in [Clerk -> Request] /\ staff \subseteq Clerk
  BY DEF BTypes, DeskTypes
<1>2. desk' \in [Clerk -> Request] /\ \A d \in Clerk : d # c => desk'[d] = desk[d]
  BY <1>1
<1>3. ASSUME NEW d \in Clerk, d # c
      PROVE  Refers(desk[d])' /\ (desk'[d] # Idle => d \in staff')
  <2>1. Refers(desk[d]) /\ (desk[d] # Idle => d \in staff) /\ desk'[d] = desk[d]
    BY <1>2, <1>3 DEF BTypes, DeskTypes
  <2>2. desk[d].op = "finalize" => desk[d].of \in Fn
    BY <1>1, RequestFields
  <2> QED
    BY <2>1, <2>2 DEF Refers, Growth
<1> QED
  BY <1>1, <1>2, <1>3 DEF DeskTypes

\* So does a step of no clerk's desk.
LEMMA DeskUnchangedTypes ==
    ASSUME BTypes, Growth, UNCHANGED <<staff, available, desk>>
    PROVE  DeskTypes'
<1>1. ASSUME NEW d \in Clerk
      PROVE  Refers(desk[d])' /\ (desk'[d] # Idle => d \in staff')
  <2>1. Refers(desk[d]) /\ (desk[d] # Idle => d \in staff) /\ desk'[d] = desk[d]
    BY DEF BTypes, DeskTypes
  <2>2. desk[d].op = "finalize" => desk[d].of \in Fn
    BY RequestFields DEF BTypes, DeskTypes
  <2> QED
    BY <2>1, <2>2 DEF Refers, Growth
<1> QED
  BY <1>1 DEF BTypes, DeskTypes

\* An idle desk refers to nothing.
LEMMA IdleRefers == Idle \in Request /\ \A c : desk'[c] = Idle => Refers(desk[c])'
BY DEF Request, Refers, Idle
-------------------------------------------------------------------------------
\* A step that only reads.
LEMMA ReadTypes ==
    ASSUME BTypes, UNCHANGED <<event, fn, beo, available, staff>>,
           NEW c \in Clerk, NEW r \in Request, Begin(c, r), Refers(r)
    PROVE  BTypes'
<1>1. EventTypes' /\ FnTypes' /\ BeoTypes' /\ Growth
  BY DEF BTypes, EventTypes, FnTypes, BeoTypes, Growth, Events, Fns
<1>2. c \in staff /\ desk' = [desk EXCEPT ![c] = r]
  BY DEF Begin
<1>3. desk'[c] = r
  BY <1>2 DEF BTypes, DeskTypes
<1>4. Refers(desk[c])'
  BY <1>3 DEF Refers, Events, Fns
<1>5. available' \subseteq Space
  BY DEF BTypes, DeskTypes
<1> QED
  BY <1>1, <1>2, <1>4, <1>5, DeskStepTypes DEF BTypes

\* A write, or a request that reads nothing, leaves the clerk idle.
LEMMA IdleAgain ==
    ASSUME BTypes, Growth, EventTypes', FnTypes', BeoTypes', available' \subseteq Space,
           UNCHANGED staff, NEW c \in Clerk, c \in staff, desk' = [desk EXCEPT ![c] = Idle]
    PROVE  BTypes'
<1>1. desk'[c] = Idle
  BY DEF BTypes, DeskTypes
<1> QED
  BY <1>1, IdleRefers, DeskStepTypes DEF BTypes

\* Who writes is at work, and what is written was asked for.
LEMMA Writer ==
    ASSUME BTypes, NEW c \in Clerk, desk[c].op # "idle"
    PROVE  c \in staff /\ desk[c] \in Request /\ Refers(desk[c])
BY DEF BTypes, DeskTypes, Idle

\* Each kind of step keeps the types: of events,
LEMMA EventStepTypes ==
    ASSUME BTypes, NEW c \in Clerk,
           \/ \E e \in Event : CreateEvent(c, e) \/ ReadEvent(c, e)
           \/ WriteEvent(c)
    PROVE  BTypes'
<1>1. event \in [Event -> {NoEvent} \cup [status : Status, dates : Dates]]
  BY DEF BTypes, EventTypes
<1>2. ASSUME NEW x \in [status : Status, dates : Dates]
      PROVE  x # NoEvent
  BY Statuses DEF NoEvent
<1>3. ASSUME NEW e \in Event, CreateEvent(c, e)
      PROVE  BTypes'
  <2>1. PICK x \in [status : Status, dates : Dates] : event' = [event EXCEPT ![e] = x]
    BY <1>3, BanquetsAssumption DEF CreateEvent
  <2>2. UNCHANGED <<fn, available, beo, staff, desk>> /\ event[e] = NoEvent
    BY <1>3 DEF CreateEvent
  <2>3. EventTypes' /\ Events \subseteq Events'
    BY <1>1, <2>1, <2>2 DEF EventTypes, Events
  <2>4. FnTypes' /\ BeoTypes' /\ Growth
    BY <2>2, <2>3 DEF BTypes, FnTypes, BeoTypes, Growth, Fns
  <2> QED
    BY <2>2, <2>3, <2>4, DeskUnchangedTypes DEF BTypes
<1>4. ASSUME NEW e \in Event, ReadEvent(c, e)
      PROVE  BTypes'
  <2>1. e \in Events /\ event[e].status \in Status
    BY <1>1, <1>4 DEF ReadEvent, Events
  <2>2. PICK s \in NextStatus[event[e].status] \cup {event[e].status}, d \in Dates :
          Begin(c, [op |-> "event", of |-> e, was |-> event[e].status, status |-> s, dates |-> d])
    BY <1>4 DEF ReadEvent
  <2> DEFINE r == [op |-> "event", of |-> e, was |-> event[e].status, status |-> s, dates |-> d]
  <2>3. r \in Request
    BY <2>1, Statuses DEF Request
  <2>4. Refers(r)
    BY <2>1 DEF Refers
  <2>5. UNCHANGED <<event, fn, beo, available, staff>>
    BY <1>4 DEF ReadEvent
  <2> QED
    BY <2>2, <2>3, <2>4, <2>5, ReadTypes
<1>5. CASE WriteEvent(c)
  <2> DEFINE r == desk[c]
  <2>1. /\ r.op = "event" /\ desk' = [desk EXCEPT ![c] = Idle]
        /\ event' = [event EXCEPT ![r.of] = [status |-> r.status, dates |-> r.dates]]
        /\ fn' = fn \/ fn' = Release(r.of)
        /\ UNCHANGED <<available, beo, staff>>
    BY <1>5 DEF WriteEvent, Done
  <2>2. c \in staff /\ r \in Request /\ Refers(r)
    BY <2>1, Writer
  <2>3. r.of \in Event /\ r.status \in Status /\ r.dates \in Dates
    BY <2>1, <2>2, RequestFields
  <2> HIDE DEF r
  <2>4. EventTypes' /\ Events \subseteq Events'
    BY <1>1, <1>2, <2>1, <2>3 DEF EventTypes, Events
  <2>5. ASSUME NEW f \in Fn
        PROVE  /\ fn'[f] \in {NoFn} \cup [event : Event, place : Place, status : FnStatus]
               /\ f \in Fns => fn'[f] # NoFn /\ fn'[f].event = fn[f].event
               /\ f \notin Fns => fn'[f] = NoFn
    <3>1. fn[f] \in {NoFn} \cup [event : Event, place : Place, status : FnStatus]
      BY DEF BTypes, FnTypes
    <3>2. CASE fn' = fn
      BY <3>1, <3>2 DEF Fns
    <3>3. CASE fn' = Release(r.of)
      <4>1. \/ fn'[f] = fn[f]
            \/ f \in Fns /\ fn'[f] = [fn[f] EXCEPT !.status = "CANCELLED"]
        BY <3>3 DEF Release, Of
      <4>2. f \in Fns => fn[f] \in [event : Event, place : Place, status : FnStatus]
        BY <3>1 DEF Fns
      <4>3. ASSUME NEW x \in [event : Event, place : Place, status : FnStatus]
            PROVE  x # NoFn
        BY DEF NoFn, FnStatus
      <4>4. "CANCELLED" \in FnStatus
        BY DEF FnStatus
      <4> QED
        BY <3>1, <4>1, <4>2, <4>3, <4>4 DEF Fns
    <3> QED
      BY <2>1, <3>2, <3>3
  <2>6. fn' \in [Fn -> {NoFn} \cup [event : Event, place : Place, status : FnStatus]]
    <3>1. fn' = [f \in Fn |-> fn'[f]]
      BY <2>1 DEF BTypes, FnTypes, Release
    <3> QED
      BY <2>5, <3>1
  <2>7. Fns' = Fns
    BY <2>5 DEF Fns
  <2>8. FnTypes' /\ BeoTypes' /\ Growth
    <3>1. FnTypes'
      <4>1. \A f \in Fns : fn[f].event \in Events
        BY DEF BTypes, FnTypes
      <4>2. \A f \in Fns : f \in Fn /\ fn'[f].event \in Events'
        BY <2>4, <2>5, <4>1 DEF Fns
      <4> QED
        BY <2>6, <2>7, <4>2 DEF FnTypes
    <3>2. BeoTypes'
      BY <2>1, <2>7 DEF BTypes, BeoTypes
    <3>3. Growth
      BY <2>1, <2>4, <2>5, <2>7 DEF Growth, Fns
    <3> QED
      BY <3>1, <3>2, <3>3
  <2>9. available' \subseteq Space
    BY <2>1 DEF BTypes, DeskTypes
  <2> QED
    BY <2>1, <2>2, <2>4, <2>8, <2>9, IdleAgain
<1> QED
  BY <1>3, <1>4, <1>5
\* What writing a function does: a new one is written in a free place, an
\* existing one where no other function stands, or nothing is.
LEMMA FunctionWrites ==
    ASSUME BTypes, NEW c \in Clerk, WriteFunction(c)
    PROVE  /\ desk[c].op \in {"create", "update"}
           /\ desk' = [desk EXCEPT ![c] = Idle] /\ c \in staff
           /\ UNCHANGED <<event, available, beo, staff>>
           /\ desk[c].event \in Events /\ desk[c].place \in Place
           /\ \/ UNCHANGED fn
              \/ \E f \in Fn, s \in FnStatus :
                   /\ fn' = [fn EXCEPT ![f] = [event |-> desk[c].event, place |-> desk[c].place,
                                               status |-> s]]
                   /\ \A g \in Fns \ {f} : Holding(g) => ~Overlap(fn[g].place, desk[c].place)
                   /\ \/ f \notin Fns /\ desk[c].op = "create" /\ s = desk[c].status
                      \/ /\ f \in Fns /\ desk[c].op = "update" /\ f = desk[c].of
                         /\ fn[f].event = desk[c].event
                         /\ s = IF desk[c].status = "same" THEN fn[f].status ELSE desk[c].status
<1> DEFINE r == desk[c]
           W(f, s) == fn' = [fn EXCEPT ![f] = [event |-> r.event, place |-> r.place, status |-> s]]
<1>1. /\ r.op \in {"create", "update"} /\ desk' = [desk EXCEPT ![c] = Idle]
      /\ UNCHANGED <<event, available, beo, staff>>
  BY DEF WriteFunction, Done
<1>2. c \in staff /\ r \in Request /\ Refers(r)
  BY <1>1, Writer
<1>3. r.event \in Events /\ r.place \in Place
  BY <1>1, <1>2, RequestFields DEF Refers
<1>4. ASSUME NEW f \in Fn, f \notin Fns, r.op = "create", Free(r.place, Fns), W(f, r.status)
      PROVE  \E g \in Fn, s \in FnStatus :
               /\ W(g, s)
               /\ \A h \in Fns \ {g} : Holding(h) => ~Overlap(fn[h].place, r.place)
               /\ g \notin Fns /\ r.op = "create" /\ s = r.status
  <2>1. r.status \in FnStatus
    BY <1>2, <1>4, RequestFields DEF FnStatus
  <2> QED
    BY <1>4, <2>1 DEF Free
<1> DEFINE same == IF r.status = "same" THEN fn[r.of].status ELSE r.status
<1>5. ASSUME r.op = "update", Free(r.place, Fns \ {r.of}), W(r.of, same)
      PROVE  \E g \in Fn, s \in FnStatus :
               /\ W(g, s)
               /\ \A h \in Fns \ {g} : Holding(h) => ~Overlap(fn[h].place, r.place)
               /\ g \in Fns /\ r.op = "update" /\ g = r.of
               /\ fn[g].event = r.event
               /\ s = IF r.status = "same" THEN fn[g].status ELSE r.status
  <2>1. r.of \in Fn /\ r.status \in FnStatus \cup {"same"}
    BY <1>2, <1>5, RequestFields
  <2>2. r.of \in Fns /\ fn[r.of].event = r.event
    BY <1>2, <1>5 DEF Refers
  <2>3. fn[r.of] \in [event : Event, place : Place, status : FnStatus]
    BY <2>1, <2>2 DEF BTypes, FnTypes, Fns
  <2>4. same \in FnStatus
    BY <2>1, <2>3
  <2> QED
    BY <1>5, <2>1, <2>2, <2>4 DEF Free
<1>6. \/ r.op = "create" /\ Free(r.place, Fns) /\ \E f \in Fn \ Fns : W(f, r.status)
      \/ r.op = "update" /\ Free(r.place, Fns \ {r.of}) /\ W(r.of, same)
      \/ UNCHANGED fn
  BY DEF WriteFunction
<1> QED
  BY <1>1, <1>2, <1>3, <1>4, <1>5, <1>6

\* of functions,
LEMMA FunctionStepTypes ==
    ASSUME BTypes, NEW c \in Clerk, ReadFunction(c) \/ WriteFunction(c)
    PROVE  BTypes'
<1>1. CASE ReadFunction(c)
  <2>1. UNCHANGED <<event, fn, beo, available, staff>>
    BY <1>1 DEF ReadFunction
  <2>2. PICK e \in Events, p \in Place, s \in FnStatus \cup {"same"} :
          \/ /\ s \in {"BOOKED", "COMPLETED"}
             /\ Begin(c, [op |-> "create", event |-> e, place |-> p, status |-> s])
          \/ \E f \in Of(e) :
               Begin(c, [op |-> "update", of |-> f, event |-> e, place |-> p, status |-> s])
    BY <1>1 DEF ReadFunction
  <2>3. e \in Event
    BY DEF Events
  <2>4. ASSUME s \in {"BOOKED", "COMPLETED"},
               Begin(c, [op |-> "create", event |-> e, place |-> p, status |-> s])
        PROVE  BTypes'
    <3> DEFINE r == [op |-> "create", event |-> e, place |-> p, status |-> s]
    <3>1. r \in Request
      BY <2>3, <2>4 DEF Request
    <3>2. Refers(r)
      BY DEF Refers
    <3> HIDE DEF r
    <3> QED
      BY <2>1, <2>4, <3>1, <3>2, ReadTypes DEF r
  <2>5. ASSUME NEW f \in Of(e),
               Begin(c, [op |-> "update", of |-> f, event |-> e, place |-> p, status |-> s])
        PROVE  BTypes'
    <3> DEFINE r == [op |-> "update", of |-> f, event |-> e, place |-> p, status |-> s]
    <3>1. f \in Fn /\ f \in Fns /\ fn[f].event = e
      BY DEF Of, Fns
    <3>2. r \in Request
      BY <2>3, <3>1 DEF Request
    <3>3. Refers(r)
      BY <3>1 DEF Refers
    <3> HIDE DEF r
    <3> QED
      BY <2>1, <2>5, <3>2, <3>3, ReadTypes DEF r
  <2> QED
    BY <2>2, <2>4, <2>5
<1>2. CASE WriteFunction(c)
  <2> DEFINE r == desk[c]
  <2>1. /\ desk' = [desk EXCEPT ![c] = Idle] /\ c \in staff
        /\ UNCHANGED <<event, available, beo, staff>>
        /\ r.event \in Events /\ r.place \in Place
    BY <1>2, FunctionWrites
  <2>2. available' \subseteq Space
    BY <2>1 DEF BTypes, DeskTypes
  <2>3. UNCHANGED fn \/ \E f \in Fn, s \in FnStatus :
          /\ fn' = [fn EXCEPT ![f] = [event |-> r.event, place |-> r.place, status |-> s]]
          /\ f \in Fns => fn[f].event = r.event
    BY <1>2, FunctionWrites
  <2> HIDE DEF r
  <2>4. CASE UNCHANGED fn
    <3>1. EventTypes' /\ FnTypes' /\ BeoTypes' /\ Growth
      BY <2>1, <2>4 DEF BTypes, EventTypes, FnTypes, BeoTypes, Growth, Events, Fns
    <3> QED
      BY <2>1, <2>2, <3>1, IdleAgain
  <2>5. ASSUME NEW f \in Fn, NEW s \in FnStatus,
               fn' = [fn EXCEPT ![f] = [event |-> r.event, place |-> r.place, status |-> s]],
               f \in Fns => fn[f].event = r.event
        PROVE  BTypes'
    <3> DEFINE x == [event |-> r.event, place |-> r.place, status |-> s]
    <3>1. x \in [event : Event, place : Place, status : FnStatus] /\ x # NoFn
      BY <2>1 DEF Events, NoFn, FnStatus
    <3>2. fn \in [Fn -> {NoFn} \cup [event : Event, place : Place, status : FnStatus]]
      BY DEF BTypes, FnTypes
    <3>3. fn' = [fn EXCEPT ![f] = x] /\ x.event = r.event
      BY <2>5
    <3> HIDE DEF x
    <3>4. /\ fn' \in [Fn -> {NoFn} \cup [event : Event, place : Place, status : FnStatus]]
          /\ Fns' = Fns \cup {f} /\ Events' = Events
      BY <2>1, <3>1, <3>2, <3>3 DEF Fns, Events
    <3>5. \A g \in Fns' : /\ g = f => fn'[g].event = r.event
                          /\ g # f => g \in Fns /\ fn'[g] = fn[g]
      BY <3>2, <3>3, <3>4 DEF Fns
    <3>6. FnTypes'
      BY <2>1, <3>4, <3>5 DEF BTypes, FnTypes
    <3>7. EventTypes' /\ BeoTypes'
      BY <2>1, <3>4 DEF BTypes, EventTypes, BeoTypes
    <3>8. Growth
      BY <2>1, <2>5, <3>4, <3>5 DEF Growth
    <3> QED
      BY <2>1, <2>2, <3>6, <3>7, <3>8, IdleAgain
  <2> QED
    BY <2>3, <2>4, <2>5
<1> QED
  BY <1>1, <1>2

\* of spaces and orders.
LEMMA OrderStepTypes ==
    ASSUME BTypes, NEW c \in Clerk,
           \/ \E s \in Space : UpdateSpace(c, s)
           \/ \E f \in Fn : CreateBeo(c, f) \/ UpdateBeo(c, f) \/ ReadFinalize(c, f)
           \/ WriteFinalize(c)
    PROVE  BTypes'
<1> DEFINE Order == [status : {"DRAFT", "FINAL"}, detailed : BOOLEAN]
<1>1. /\ beo \in [Fn -> {NoBeo} \cup Order]
      /\ \A f \in Fn : beo[f] # NoBeo => f \in Fns
  BY DEF BTypes, BeoTypes
<1>2. ASSUME NEW x \in Order
      PROVE  x # NoBeo
  BY DEF NoBeo
<1>3. ASSUME NEW f \in Fns, NEW x \in Order, beo' = [beo EXCEPT ![f] = x],
             UNCHANGED <<event, fn, available, staff>>
      PROVE  EventTypes' /\ FnTypes' /\ BeoTypes' /\ Growth /\ available' \subseteq Space
  <2>1. f \in Fn /\ x # NoBeo
    BY <1>2 DEF Fns
  <2>2. beo' \in [Fn -> {NoBeo} \cup Order] /\ \A g \in Fn : beo'[g] # NoBeo => g \in Fns
    BY <1>1, <1>3, <2>1
  <2>3. \A g \in Fn : beo[g] # NoBeo => beo'[g] # NoBeo
    BY <1>1, <1>3, <2>1
  <2> QED
    BY <1>3, <2>2, <2>3 DEF BTypes, EventTypes, FnTypes, BeoTypes, DeskTypes, Growth, Events, Fns
<1>4. ASSUME NEW s \in Space, UpdateSpace(c, s)
      PROVE  BTypes'
  <2>1. /\ UNCHANGED <<event, fn, beo, staff>>
        /\ desk' = [desk EXCEPT ![c] = Idle] /\ c \in staff
        /\ available' = available \ {s} \/ available' = available \cup {s}
    BY <1>4 DEF UpdateSpace, Immediate, Begin
  <2>2. EventTypes' /\ FnTypes' /\ BeoTypes' /\ Growth
    BY <2>1 DEF BTypes, EventTypes, FnTypes, BeoTypes, Growth, Events, Fns
  <2>3. available' \subseteq Space
    BY <2>1 DEF BTypes, DeskTypes
  <2> QED
    BY <2>1, <2>2, <2>3, IdleAgain
<1>5. ASSUME NEW f \in Fn, CreateBeo(c, f)
      PROVE  BTypes'
  <2>1. /\ f \in Fns /\ beo' = [beo EXCEPT ![f] = [status |-> "DRAFT", detailed |-> FALSE]]
        /\ UNCHANGED <<event, fn, available, staff, desk>>
        /\ [status |-> "DRAFT", detailed |-> FALSE] \in Order
    BY <1>5 DEF CreateBeo
  <2>2. EventTypes' /\ FnTypes' /\ BeoTypes' /\ Growth
    BY <1>3, <2>1
  <2> QED
    BY <2>1, <2>2, DeskUnchangedTypes DEF BTypes
<1>6. ASSUME NEW f \in Fn, UpdateBeo(c, f)
      PROVE  BTypes'
  <2>1. PICK d \in BOOLEAN : beo' = [beo EXCEPT ![f] = [status |-> "DRAFT", detailed |-> d]]
    BY <1>6 DEF UpdateBeo
  <2>2. /\ f \in Fns /\ [status |-> "DRAFT", detailed |-> d] \in Order
        /\ UNCHANGED <<event, fn, available, staff>>
        /\ desk' = [desk EXCEPT ![c] = Idle] /\ c \in staff
    BY <1>1, <1>6 DEF UpdateBeo, Immediate, Begin
  <2>3. EventTypes' /\ FnTypes' /\ BeoTypes' /\ Growth /\ available' \subseteq Space
    BY <1>3, <2>1, <2>2
  <2> QED
    BY <2>2, <2>3, IdleAgain
<1>7. ASSUME NEW f \in Fn, ReadFinalize(c, f)
      PROVE  BTypes'
  <2>1. UNCHANGED <<event, fn, beo, available, staff>>
    BY <1>7 DEF ReadFinalize
  <2> DEFINE r == [op |-> "finalize", of |-> f]
  <2>2. beo[f] # NoBeo /\ Begin(c, r)
    BY <1>7 DEF ReadFinalize, NoBeo
  <2>3. r \in Request
    BY DEF Request
  <2>4. Refers(r)
    BY <2>2 DEF Refers
  <2> HIDE DEF r
  <2> QED
    BY <2>1, <2>2, <2>3, <2>4, ReadTypes
<1>8. CASE WriteFinalize(c)
  <2> DEFINE f == desk[c].of
  <2>1. /\ desk[c].op = "finalize" /\ desk' = [desk EXCEPT ![c] = Idle]
        /\ beo' = [beo EXCEPT ![f].status = "FINAL"]
        /\ UNCHANGED <<event, fn, available, staff>>
    BY <1>8 DEF WriteFinalize, Done
  <2>2. c \in staff /\ desk[c] \in Request /\ Refers(desk[c])
    BY <2>1, Writer
  <2>3. f \in Fn /\ beo[f] # NoBeo
    BY <2>1, <2>2, RequestFields DEF Refers
  <2> HIDE DEF f
  <2> DEFINE x == [beo[f] EXCEPT !.status = "FINAL"]
  <2>4. f \in Fns /\ x \in Order
    BY <1>1, <2>3
  <2>5. beo' = [beo EXCEPT ![f] = x]
    BY <2>1
  <2> HIDE DEF x
  <2>6. EventTypes' /\ FnTypes' /\ BeoTypes' /\ Growth /\ available' \subseteq Space
    BY <1>3, <2>1, <2>4, <2>5
  <2> QED
    BY <2>1, <2>2, <2>6, IdleAgain
<1> QED
  BY <1>4, <1>5, <1>6, <1>7, <1>8

\* Hence every step keeps them,
LEMMA BTypesStep ==
    ASSUME BTypes, [Next]_vars
    PROVE  BTypes'
<1>1. CASE UNCHANGED vars
  BY <1>1 DEF vars, BTypes, EventTypes, FnTypes, BeoTypes, DeskTypes, Refers, Events, Fns
<1> QED
  BY <1>1, EventStepTypes, FunctionStepTypes, OrderStepTypes DEF Next

\* they hold at the start,
LEMMA BTypesInit == Init => BTypes
<1> SUFFICES ASSUME Init
             PROVE  BTypes
  OBVIOUS
<1>1. Events = {} /\ Fns = {}
  BY DEF Init, Events, Fns
<1>2. \A c \in Clerk : desk[c] = Idle
  BY DEF Init
<1>3. EventTypes /\ FnTypes /\ BeoTypes
  BY <1>1 DEF Init, EventTypes, FnTypes, BeoTypes
<1>4. DeskTypes
  BY <1>2, IdleRefers DEF Init, DeskTypes, Refers, Idle
<1> QED
  BY <1>3, <1>4 DEF BTypes

\* and always.
LEMMA BTypesAlways == Spec => []BTypes
BY BTypesInit, BTypesStep, PTL DEF Spec

\* However many clerks write at once: every function is of an event that
\* exists, every order of a function that exists, and only a clerk at work has
\* a request (banquets.service.ts, createFunction, updateFunction, createBeo).
THEOREM BanquetsTyped == Spec => []BanquetsTypeOK
<1>1. BTypes => BanquetsTypeOK
  <2> SUFFICES ASSUME BTypes
               PROVE  BanquetsTypeOK
    OBVIOUS
  <2>1. \A e \in Events : event[e] \in [status : Status, dates : Dates]
    BY DEF BTypes, EventTypes, Events
  <2>2. \A f \in Fns : fn[f] \in [event : Events, place : Place, status : FnStatus]
    <3> SUFFICES ASSUME NEW f \in Fns
                 PROVE  fn[f] \in [event : Events, place : Place, status : FnStatus]
      OBVIOUS
    <3>1. fn[f] \in [event : Event, place : Place, status : FnStatus]
      BY DEF BTypes, FnTypes, Fns
    <3>2. fn[f].event \in Events
      BY DEF BTypes, FnTypes
    <3> QED
      BY <3>1, <3>2
  <2> QED
    BY <2>1, <2>2 DEF BTypes, BeoTypes, DeskTypes, BanquetsTypeOK
<1> QED
  BY <1>1, BTypesAlways, PTL
-----------------------------------------------------------------------------
(***************************************************************************)
(* Who holds a space.                                                      *)
(***************************************************************************)

\* Functions that hold their places now did so before: nothing clashes anew.
LEMMA NoNewHolder ==
    ASSUME \A f \in Fns' : Holding(f)' => /\ f \in Fns /\ Holding(f)
                                          /\ fn'[f].place = fn[f].place
    PROVE  Clashes' \subseteq Clashes
BY DEF Clashes

\* A function written where no other stands clashes with none.
LEMMA FunctionWriteClashes ==
    ASSUME BTypes, NEW c \in Clerk, WriteFunction(c)
    PROVE  Clashes' \subseteq Clashes
<1>1. event' = event
  BY FunctionWrites
<1>2. CASE UNCHANGED fn
  BY <1>1, <1>2, NoNewHolder DEF Fns, Holding, Open
<1>3. ASSUME NEW f \in Fn, NEW x, x # NoFn, fn' = [fn EXCEPT ![f] = x],
             \A g \in Fns \ {f} : Holding(g) => ~Overlap(fn[g].place, x.place)
      PROVE  Clashes' \subseteq Clashes
  <2>1. DOMAIN fn = Fn
    BY DEF BTypes, FnTypes
  <2>2. fn'[f] = x /\ \A g \in Fn : g # f => fn'[g] = fn[g]
    BY <1>3, <2>1
  <2>3. \A g \in Fns' : g # f => g \in Fns /\ (Holding(g)' => Holding(g))
    BY <1>1, <2>2 DEF Fns, Holding, Open
  <2>4. ASSUME NEW g \in Fns', g # f, Holding(g)'
        PROVE  ~Overlap(fn'[g].place, fn'[f].place) /\ ~Overlap(fn'[f].place, fn'[g].place)
    <3>1. g \in Fn /\ g \in Fns /\ Holding(g) /\ fn'[g] = fn[g]
      BY <2>2, <2>3, <2>4 DEF Fns
    <3>2. ~Overlap(fn[g].place, x.place)
      BY <1>3, <2>4, <3>1
    <3> QED
      BY <2>2, <3>1, <3>2 DEF Overlap
  <2>5. ASSUME NEW a \in Fns', NEW b \in Fns', <<a, b>> \in Clashes'
        PROVE  <<a, b>> \in Clashes
    <3>1. a # b /\ Holding(a)' /\ Holding(b)' /\ Overlap(fn'[a].place, fn'[b].place)
      BY <2>5 DEF Clashes
    <3>2. a # f /\ b # f
      BY <2>4, <3>1
    <3>3. fn'[a] = fn[a] /\ fn'[b] = fn[b]
      BY <2>2, <3>2 DEF Fns
    <3> QED
      BY <2>3, <3>1, <3>2, <3>3 DEF Clashes
  <2> QED
    BY <2>5 DEF Clashes
<1>4. ASSUME NEW f \in Fn, NEW s \in FnStatus,
             fn' = [fn EXCEPT ![f] = [event |-> desk[c].event, place |-> desk[c].place, status |-> s]],
             \A g \in Fns \ {f} : Holding(g) => ~Overlap(fn[g].place, desk[c].place)
      PROVE  Clashes' \subseteq Clashes
  <2> DEFINE x == [event |-> desk[c].event, place |-> desk[c].place, status |-> s]
  <2>1. x # NoFn /\ x.place = desk[c].place
    BY DEF NoFn, FnStatus
  <2> HIDE DEF x
  <2> QED
    BY <1>3, <1>4, <2>1 DEF x
<1> QED
  BY <1>2, <1>4, FunctionWrites

\* Writing an event back cannot make a function hold a space anew, unless it
\* reopens the event.
LEMMA EventWriteClashes ==
    ASSUME BTypes, NEW c \in Clerk, WriteEvent(c)
    PROVE  Clashes' \subseteq Clashes \/ \E e \in Events : ~Open(e) /\ Open(e)'
<1> DEFINE r == desk[c]
<1>1. /\ r.op = "event"
      /\ event' = [event EXCEPT ![r.of] = [status |-> r.status, dates |-> r.dates]]
      /\ fn' = fn \/ fn' = Release(r.of)
  BY DEF WriteEvent
<1>2. r.of \in Events
  BY <1>1, Writer DEF Refers
<1> HIDE DEF r
<1>3. SUFFICES ASSUME \A e \in Events : Open(e)' => Open(e)
               PROVE  Clashes' \subseteq Clashes
  OBVIOUS
<1>4. ASSUME NEW f \in Fns', Holding(f)'
      PROVE  f \in Fns /\ Holding(f) /\ fn'[f].place = fn[f].place
  <2>1. /\ f \in Fn /\ fn'[f] # NoFn /\ fn'[f].status # "CANCELLED"
        /\ event'[fn'[f].event].status \notin Closed
    BY <1>4 DEF Fns, Holding, Open
  <2>2. fn'[f] = fn[f]
    <3>1. CASE fn' = Release(r.of)
      <4>1. \/ fn'[f] = fn[f]
            \/ f \in Fns /\ fn'[f] = [fn[f] EXCEPT !.status = "CANCELLED"]
        BY <2>1, <3>1 DEF Release, Of
      <4>2. f \in Fns => fn[f] \in [event : Event, place : Place, status : FnStatus]
        BY DEF BTypes, FnTypes, Fns
      <4> QED
        BY <2>1, <4>1, <4>2
    <3> QED
      BY <1>1, <3>1
  <2>3. f \in Fns /\ fn[f].event \in Events
    BY <2>1, <2>2 DEF BTypes, FnTypes, Fns
  <2>4. Open(fn[f].event)
    <3>1. event'[fn[f].event].status \notin Closed
      BY <2>1, <2>2
    <3> QED
      BY <1>3, <2>3, <3>1 DEF Open
  <2> QED
    BY <2>1, <2>2, <2>3, <2>4 DEF Holding
<1> QED
  BY <1>4, NoNewHolder

\* A step that writes no function and no event that exists changes no clash.
LEMMA OtherStepClashes ==
    ASSUME BTypes, UNCHANGED fn, \A e \in Events : event'[e] = event[e]
    PROVE  Clashes' = Clashes
<1>1. Fns' = Fns /\ \A f \in Fns : fn[f].event \in Events
  BY DEF Fns, BTypes, FnTypes
<1>2. \A f \in Fns : Holding(f)' <=> Holding(f)
  BY <1>1 DEF Holding, Open
<1> QED
  BY <1>1, <1>2 DEF Clashes

\* What a step does to events and functions.
LEMMA WhoChanges ==
    ASSUME BTypes, [Next]_vars
    PROVE  \/ \E c \in Clerk : WriteFunction(c) \/ WriteEvent(c)
           \/ UNCHANGED fn /\ \A e \in Events : event'[e] = event[e]
<1> DEFINE Quiet == UNCHANGED fn /\ \A e \in Events : event'[e] = event[e]
<1>1. CASE UNCHANGED vars
  BY <1>1 DEF vars
<1>2. ASSUME NEW c \in Clerk, NEW e \in Event, CreateEvent(c, e)
      PROVE  Quiet
  <2>1. UNCHANGED fn /\ e \notin Events
    BY <1>2 DEF CreateEvent, Events
  <2>2. \A d \in Event : d # e => event'[d] = event[d]
    BY <1>2 DEF CreateEvent, BTypes, EventTypes
  <2> QED
    BY <2>1, <2>2 DEF Events
<1>3. ASSUME NEW c \in Clerk,
             \/ \E e \in Event : ReadEvent(c, e)
             \/ ReadFunction(c)
             \/ \E s \in Space : UpdateSpace(c, s)
             \/ \E f \in Fn : CreateBeo(c, f) \/ UpdateBeo(c, f) \/ ReadFinalize(c, f)
             \/ WriteFinalize(c)
      PROVE  Quiet
  BY <1>3 DEF ReadEvent, ReadFunction, UpdateSpace, CreateBeo, UpdateBeo, ReadFinalize,
              WriteFinalize
<1> QED
  BY <1>1, <1>2, <1>3 DEF Next

\* However many clerks write at once, placing a function takes no space that
\* is held, and closing or cancelling only frees: two functions come to share a
\* space only in a step that reopens an event (functionInput, updateEvent).
THEOREM OnlyReopeningDoes == Spec => OnlyReopeningClashes
<1>1. BTypes /\ [Next]_vars =>
        [Clashes' \subseteq Clashes \/ \E e \in Events : ~Open(e) /\ Open(e)']_vars
  BY WhoChanges, FunctionWriteClashes, EventWriteClashes, OtherStepClashes
<1> QED
  BY <1>1, BTypesAlways, PTL DEF Spec, OnlyReopeningClashes
-----------------------------------------------------------------------------
(***************************************************************************)
(* One clerk at a time.                                                    *)
(***************************************************************************)

\* What the clerk's request has read is still so when it writes.
Current(r) ==
    /\ r.op = "event" =>
        /\ r.was = event[r.of].status /\ r.status \in NextStatus[r.was] \cup {r.was}
        /\ \A f \in Of(r.of) : fn[f].status # "CANCELLED" => Covers(r.dates, fn[f].place)
    /\ r.op \in {"create", "update"} => Open(r.event) /\ Covers(event[r.event].dates, r.place)
    /\ r.op = "update" /\ fn[r.of].status = "COMPLETED" => r.status = "COMPLETED"
    /\ r.op = "finalize" => beo[r.of].detailed

\* A function that stands is within its event's dates, and is over if its event
\* is cancelled.
Follows(f) ==
    fn[f].status # "CANCELLED" =>
        /\ Covers(event[fn[f].event].dates, fn[f].place)
        /\ event[fn[f].event].status = "CANCELLED" => fn[f].status = "COMPLETED"

FinalDetailed == \A f \in Fn : beo[f].status = "FINAL" => beo[f].detailed

\* Inductive while one clerk is at work.
AloneInv ==
    /\ \A c \in Clerk : Current(desk[c])
    /\ SpaceHeldOnce
    /\ \A f \in Fns : Follows(f)
    /\ FinalDetailed

\* The one clerk.
LEMMA OnlyClerk ==
    ASSUME BTypes, Alone, NEW c \in Clerk, c \in staff
    PROVE  \A d \in Clerk : d # c => desk[d] = Idle
<1>1. IsFiniteSet(staff) /\ Cardinality(staff) = 1
  BY BanquetsAssumption, FS_Subset DEF BTypes, DeskTypes, Alone
<1>2. PICK x : staff = {x}
  BY <1>1, FS_Singleton
<1> QED
  BY <1>2 DEF BTypes, DeskTypes

\* When the only request was just written, none is pending.
LEMMA NothingPending ==
    ASSUME BTypes, Alone, NEW c \in Clerk, c \in staff,
           desk' = [desk EXCEPT ![c] = Idle] \/ (desk[c] = Idle /\ desk' = desk)
    PROVE  \A d \in Clerk : Current(desk[d])'
<1>1. \A d \in Clerk : desk'[d] = Idle
  BY OnlyClerk DEF BTypes, DeskTypes
<1> QED
  BY <1>1 DEF Current, Idle

\* A step that only reads leaves everything, and what it read is current.
LEMMA ReadAlone ==
    ASSUME BTypes, AloneInv, Alone, UNCHANGED <<event, fn, beo>>,
           NEW c \in Clerk, NEW r, Begin(c, r), Current(r)
    PROVE  AloneInv'
<1>1. c \in staff /\ desk' = [desk EXCEPT ![c] = r] /\ desk \in [Clerk -> Request]
  BY DEF Begin, BTypes, DeskTypes
<1>2. \A d \in Clerk : desk'[d] = IF d = c THEN r ELSE Idle
  BY <1>1, OnlyClerk
<1>3. \A d \in Clerk : Current(desk[d])'
  BY <1>2 DEF Current, Idle, Of, Fns, Open
<1>4. SpaceHeldOnce' /\ (\A f \in Fns' : Follows(f)') /\ FinalDetailed'
  BY DEF AloneInv, SpaceHeldOnce, Clashes, Fns, Holding, Open, Follows, FinalDetailed
<1> QED
  BY <1>3, <1>4 DEF AloneInv

\* Creating events and changing spaces touch no function.
LEMMA CreateAlone ==
    ASSUME BTypes, AloneInv, Alone, NEW c \in Clerk,
           \/ \E e \in Event : CreateEvent(c, e)
           \/ \E s \in Space : UpdateSpace(c, s)
    PROVE  AloneInv'
<1>1. UNCHANGED <<fn, beo>> /\ \A e \in Events : event'[e] = event[e]
  <2>1. ASSUME NEW e \in Event, CreateEvent(c, e)
        PROVE  \A d \in Events : event'[d] = event[d]
    BY <2>1 DEF CreateEvent, Events, BTypes, EventTypes
  <2> QED
    BY <2>1 DEF CreateEvent, UpdateSpace
<1>2. c \in staff /\ (desk' = [desk EXCEPT ![c] = Idle] \/ (desk[c] = Idle /\ desk' = desk))
  BY DEF CreateEvent, UpdateSpace, Immediate, Begin
<1>3. \A d \in Clerk : Current(desk[d])'
  BY <1>2, NothingPending
<1>4. SpaceHeldOnce'
  BY <1>1, OtherStepClashes DEF AloneInv, SpaceHeldOnce
<1>5. \A f \in Fns' : Follows(f)'
  BY <1>1 DEF AloneInv, Follows, Fns, BTypes, FnTypes
<1> QED
  BY <1>1, <1>3, <1>4, <1>5 DEF AloneInv, FinalDetailed

\* New dates that were tested against the functions hold them all.
LEMMA ReadEventAlone ==
    ASSUME BTypes, AloneInv, Alone, NEW c \in Clerk, NEW e \in Event, ReadEvent(c, e)
    PROVE  AloneInv'
<1>1. UNCHANGED <<event, fn, beo>> /\ e \in Events
  BY DEF ReadEvent
<1>2. PICK s \in NextStatus[event[e].status] \cup {event[e].status}, d \in Dates :
        /\ d # event[e].dates =>
             \A f \in Of(e) : fn[f].status # "CANCELLED" => Covers(d, fn[f].place)
        /\ Begin(c, [op |-> "event", of |-> e, was |-> event[e].status, status |-> s, dates |-> d])
  BY DEF ReadEvent
<1> DEFINE r == [op |-> "event", of |-> e, was |-> event[e].status, status |-> s, dates |-> d]
<1>3. \A f \in Of(e) : fn[f].status # "CANCELLED" => Covers(d, fn[f].place)
  BY <1>2 DEF AloneInv, Follows, Of
<1>4. /\ r.op = "event" /\ r.of = e /\ r.was = event[e].status /\ r.status = s /\ r.dates = d
  OBVIOUS
<1>5. Begin(c, r)
  BY <1>2
<1> HIDE DEF r
<1>6. Current(r)
  BY <1>2, <1>3, <1>4 DEF Current
<1> QED
  BY <1>1, <1>5, <1>6, ReadAlone

\* Written while nothing has changed since, they still do; a cancellation
\* releases every function that is not over.
LEMMA WriteEventAlone ==
    ASSUME BTypes, AloneInv, Alone, NEW c \in Clerk, WriteEvent(c)
    PROVE  AloneInv'
<1> DEFINE r == desk[c]
<1>1. /\ r.op = "event" /\ desk' = [desk EXCEPT ![c] = Idle]
      /\ event' = [event EXCEPT ![r.of] = [status |-> r.status, dates |-> r.dates]]
      /\ fn' = IF r.status = "CANCELLED" /\ r.was # "CANCELLED" THEN Release(r.of) ELSE fn
      /\ UNCHANGED beo
  BY DEF WriteEvent, Done
<1>2. c \in staff /\ r.of \in Events
  BY <1>1, Writer DEF Refers
<1>3. /\ r.was = event[r.of].status /\ r.status \in NextStatus[r.was] \cup {r.was}
      /\ \A f \in Of(r.of) : fn[f].status # "CANCELLED" => Covers(r.dates, fn[f].place)
  BY <1>1 DEF AloneInv, Current
<1> HIDE DEF r
<1>4. \A d \in Clerk : Current(desk[d])'
  BY <1>1, <1>2, NothingPending
<1>5. /\ event'[r.of].status = r.status /\ event'[r.of].dates = r.dates
      /\ \A e \in Events : e # r.of => event'[e] = event[e]
  BY <1>1, <1>2 DEF Events, BTypes, EventTypes
<1>6. \A e \in Events : Open(e)' => Open(e)
  <2>1. event[r.of].status \in Closed => r.status \in Closed
    BY <1>3, Statuses DEF Closed
  <2> QED
    BY <1>5, <2>1 DEF Open
<1>7. Clashes' \subseteq Clashes
  BY <1>6, EventWriteClashes
<1>8. ASSUME NEW f \in Fns'
      PROVE  Follows(f)'
  <2>1. f \in Fn /\ fn'[f] # NoFn
    BY DEF Fns
  <2>2. \/ fn'[f] = fn[f]
        \/ f \in Of(r.of) /\ f \in Fns /\ fn'[f] = [fn[f] EXCEPT !.status = "CANCELLED"]
    BY <1>1, <2>1 DEF Release, Of
  <2>3. CASE f \in Fns /\ fn'[f] = [fn[f] EXCEPT !.status = "CANCELLED"]
    <3>1. fn[f] \in [event : Event, place : Place, status : FnStatus]
      BY <2>1, <2>3 DEF BTypes, FnTypes, Fns
    <3>2. fn'[f].status = "CANCELLED"
      BY <2>3, <3>1
    <3> QED
      BY <3>2 DEF Follows
  <2>4. CASE fn'[f] = fn[f]
    <3>1. f \in Fns /\ fn[f].event \in Events /\ Follows(f)
      BY <2>1, <2>4 DEF Fns, BTypes, FnTypes, AloneInv
    <3>2. CASE fn[f].event # r.of
      BY <1>5, <2>4, <3>1, <3>2 DEF Follows
    <3>3. CASE fn[f].event = r.of
      <4>1. f \in Of(r.of)
        BY <3>1, <3>3 DEF Of
      <4>2. fn[f].status # "CANCELLED" => Covers(r.dates, fn[f].place)
        BY <1>3, <4>1
      <4>3. ASSUME r.status = "CANCELLED", fn[f].status # "CANCELLED"
            PROVE  fn[f].status = "COMPLETED"
        <5>1. CASE r.was = "CANCELLED"
          BY <1>3, <3>1, <3>3, <4>3, <5>1 DEF Follows
        <5>2. CASE r.was # "CANCELLED"
          <6>1. fn' = Release(r.of)
            BY <1>1, <4>3, <5>2
          <6>2. fn[f].status \in Closed \/ fn'[f] = [fn[f] EXCEPT !.status = "CANCELLED"]
            BY <2>1, <4>1, <6>1 DEF Release
          <6>3. fn[f] \in [event : Event, place : Place, status : FnStatus]
            BY <2>1, <3>1 DEF BTypes, FnTypes, Fns
          <6>4. fn'[f] # [fn[f] EXCEPT !.status = "CANCELLED"]
            BY <2>4, <4>3, <6>3
          <6> QED
            BY <4>3, <6>2, <6>4 DEF Closed
        <5> QED
          BY <5>1, <5>2
      <4> QED
        BY <1>5, <2>4, <3>3, <4>2, <4>3 DEF Follows
    <3> QED
      BY <3>2, <3>3
  <2> QED
    BY <2>2, <2>3, <2>4
<1> QED
  BY <1>1, <1>4, <1>7, <1>8 DEF AloneInv, SpaceHeldOnce, FinalDetailed

\* A function is placed on a day of an open event,
LEMMA ReadFunctionAlone ==
    ASSUME BTypes, AloneInv, Alone, NEW c \in Clerk, ReadFunction(c)
    PROVE  AloneInv'
<1>1. UNCHANGED <<event, fn, beo>>
  BY DEF ReadFunction
<1>2. PICK e \in Events, p \in Place, s \in FnStatus \cup {"same"} :
        /\ Admits(e, p, s)
        /\ \/ Begin(c, [op |-> "create", event |-> e, place |-> p, status |-> s])
           \/ \E f \in Of(e) :
                /\ fn[f].status = "COMPLETED" => s = "COMPLETED"
                /\ Begin(c, [op |-> "update", of |-> f, event |-> e, place |-> p, status |-> s])
  BY DEF ReadFunction
<1>3. Open(e) /\ Covers(event[e].dates, p)
  BY <1>2 DEF Admits
<1>4. ASSUME Begin(c, [op |-> "create", event |-> e, place |-> p, status |-> s])
      PROVE  AloneInv'
  <2> DEFINE r == [op |-> "create", event |-> e, place |-> p, status |-> s]
  <2>1. Current(r)
    BY <1>3 DEF Current
  <2> HIDE DEF r
  <2> QED
    BY <1>1, <1>4, <2>1, ReadAlone DEF r
<1>5. ASSUME NEW f \in Of(e), fn[f].status = "COMPLETED" => s = "COMPLETED",
             Begin(c, [op |-> "update", of |-> f, event |-> e, place |-> p, status |-> s])
      PROVE  AloneInv'
  <2> DEFINE r == [op |-> "update", of |-> f, event |-> e, place |-> p, status |-> s]
  <2>1. Current(r)
    BY <1>3, <1>5 DEF Current
  <2> HIDE DEF r
  <2> QED
    BY <1>1, <1>5, <2>1, ReadAlone DEF r
<1> QED
  BY <1>2, <1>4, <1>5

\* and written there where no other stands.
LEMMA WriteFunctionAlone ==
    ASSUME BTypes, AloneInv, Alone, NEW c \in Clerk, WriteFunction(c)
    PROVE  AloneInv'
<1> DEFINE r == desk[c]
<1>1. /\ r.op \in {"create", "update"} /\ desk' = [desk EXCEPT ![c] = Idle] /\ c \in staff
      /\ UNCHANGED <<event, beo>>
  BY FunctionWrites
<1>2. Open(r.event) /\ Covers(event[r.event].dates, r.place)
  BY <1>1 DEF AloneInv, Current
<1>3. \A d \in Clerk : Current(desk[d])'
  BY <1>1, NothingPending
<1>4. Clashes' \subseteq Clashes
  BY FunctionWriteClashes
<1>5. UNCHANGED fn \/ \E f \in Fn, s \in FnStatus :
        fn' = [fn EXCEPT ![f] = [event |-> r.event, place |-> r.place, status |-> s]]
  BY FunctionWrites
<1> HIDE DEF r
<1>6. ASSUME NEW g \in Fns'
      PROVE  Follows(g)'
  <2>1. DOMAIN fn = Fn /\ g \in Fn
    BY DEF BTypes, FnTypes, Fns
  <2>2. CASE fn'[g] = fn[g]
    BY <1>1, <2>1, <2>2 DEF Fns, AloneInv, Follows
  <2>3. CASE fn'[g].event = r.event /\ fn'[g].place = r.place
    BY <1>1, <1>2, <2>3 DEF Follows, Open, Closed
  <2> QED
    BY <1>5, <2>1, <2>2, <2>3
<1> QED
  BY <1>1, <1>3, <1>4, <1>6 DEF AloneInv, SpaceHeldOnce, FinalDetailed

\* An edit reopens an order; only a detailed one is made final.
LEMMA OrdersAlone ==
    ASSUME BTypes, AloneInv, Alone, NEW c \in Clerk,
           \/ \E f \in Fn : CreateBeo(c, f) \/ UpdateBeo(c, f)
           \/ WriteFinalize(c)
    PROVE  AloneInv'
<1>1. /\ UNCHANGED <<event, fn>> /\ c \in staff
      /\ desk' = [desk EXCEPT ![c] = Idle] \/ (desk[c] = Idle /\ desk' = desk)
  BY Writer DEF CreateBeo, UpdateBeo, Immediate, Begin, WriteFinalize, Done
<1>2. \A d \in Clerk : Current(desk[d])'
  BY <1>1, NothingPending
<1>3. SpaceHeldOnce' /\ \A f \in Fns' : Follows(f)'
  BY <1>1 DEF AloneInv, SpaceHeldOnce, Clashes, Fns, Holding, Open, Follows
<1>4. DOMAIN beo = Fn /\ FinalDetailed
  BY DEF BTypes, BeoTypes, AloneInv
<1>5. ASSUME NEW f \in Fn, CreateBeo(c, f) \/ UpdateBeo(c, f)
      PROVE  FinalDetailed'
  <2>1. PICK d : beo' = [beo EXCEPT ![f] = [status |-> "DRAFT", detailed |-> d]]
    BY <1>5 DEF CreateBeo, UpdateBeo
  <2> QED
    BY <1>4, <2>1 DEF FinalDetailed
<1>6. ASSUME WriteFinalize(c)
      PROVE  FinalDetailed'
  <2> DEFINE g == desk[c].of
  <2>1. desk[c].op = "finalize" /\ beo' = [beo EXCEPT ![g].status = "FINAL"]
    BY <1>6 DEF WriteFinalize
  <2>2. beo[g].detailed /\ beo[g] # NoBeo /\ g \in Fn
    BY <2>1, Writer, RequestFields DEF AloneInv, Current, Refers
  <2>3. beo[g] \in [status : {"DRAFT", "FINAL"}, detailed : BOOLEAN]
    BY <2>2 DEF BTypes, BeoTypes
  <2> HIDE DEF g
  <2> QED
    BY <1>4, <2>1, <2>2, <2>3 DEF FinalDetailed
<1> QED
  BY <1>1, <1>2, <1>3, <1>5, <1>6 DEF AloneInv

\* Its details are read before.
LEMMA FinalizeAlone ==
    ASSUME BTypes, AloneInv, Alone, NEW c \in Clerk, NEW f \in Fn, ReadFinalize(c, f)
    PROVE  AloneInv'
<1> DEFINE r == [op |-> "finalize", of |-> f]
<1>1. UNCHANGED <<event, fn, beo>> /\ beo[f].detailed /\ Begin(c, r)
  BY DEF ReadFinalize
<1>2. Current(r)
  BY <1>1 DEF Current
<1> HIDE DEF r
<1> QED
  BY <1>1, <1>2, ReadAlone

\* Hence every step of the one clerk keeps the invariant.
LEMMA AloneStep ==
    ASSUME BTypes, Alone => AloneInv, [Next]_vars
    PROVE  (Alone => AloneInv)'
<1>1. UNCHANGED staff
  BY DEF Next, vars, CreateEvent, ReadEvent, WriteEvent, ReadFunction, WriteFunction,
         UpdateSpace, CreateBeo, UpdateBeo, ReadFinalize, WriteFinalize
<1>2. SUFFICES ASSUME Alone
               PROVE  AloneInv'
  BY <1>1 DEF Alone
<1>3. CASE UNCHANGED vars
  BY <1>2, <1>3 DEF vars, AloneInv, Current, SpaceHeldOnce, Clashes, Fns, Holding, Open,
                    Follows, FinalDetailed, Of
<1> QED
  BY <1>2, <1>3, CreateAlone, ReadEventAlone, WriteEventAlone, ReadFunctionAlone,
     WriteFunctionAlone, OrdersAlone, FinalizeAlone DEF Next

\* While one clerk is at work no sequence of edits gives a space to two
\* functions, leaves a standing function outside its event, or finalizes an
\* order without requirements: what each request reads is what it writes by.
THEOREM OneClerkSafe == Spec => []OneClerkIsSafe
<1>1. Init => (Alone => AloneInv)
  BY DEF Init, AloneInv, Current, Idle, SpaceHeldOnce, Clashes, Fns, FinalDetailed, NoBeo
<1>2. BTypes /\ (Alone => AloneInv) /\ [Next]_vars => (Alone => AloneInv)'
  BY AloneStep
<1>3. BanquetsTypeOK /\ (Alone => AloneInv) => OneClerkIsSafe
  BY DEF OneClerkIsSafe, SpaceHeldOnceAlone, FunctionsFollowEvent, FinalOrdersAreDetailed,
         AloneInv, Follows, FinalDetailed
<1> QED
  BY <1>1, <1>2, <1>3, BTypesAlways, BanquetsTyped, PTL DEF Spec
=============================================================================
