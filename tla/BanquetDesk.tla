----------------------------- MODULE BanquetDesk -----------------------------
(***************************************************************************)
(* The banquet page (BanquetsData.tsx): one event at a time, the event     *)
(* orders (BEO) of its functions, and a draft of each that was looked at.  *)
(* Requests are answered, or fail, at any later time and in any order, and *)
(* little of the page waits for them; other desks change orders meanwhile. *)
(* An order's contents are a text, and whether its requirements are        *)
(* acknowledged; the list, spaces, links and the event's form are left out.*)
(***************************************************************************)
EXTENDS Integers, Sequences, FiniteSets

CONSTANTS
    FnsOf,      \* the functions of each event, in order
    Wording,    \* what an editor may write, other than nothing
    MaxActs,    \* bound: what is done, by an editor who waits for every answer or not
    MaxSent,    \* bound: requests under way
    MaxOthers   \* bound: what other desks do of it

\* No requirements; and what the page proposes for a new order.
Blank == "blank"
Proposed == "proposed"
Nobody == "-"
BanquetEvent == DOMAIN FnsOf
FnIn(e) == IF e \in BanquetEvent THEN {FnsOf[e][i] : i \in DOMAIN FnsOf[e]} ELSE {}
Fn == UNION {FnIn(e) : e \in BanquetEvent}
First(e) == IF FnIn(e) = {} THEN Nobody ELSE FnsOf[e][1]

ASSUME BanquetDeskAssumption ==
    /\ \A e \in BanquetEvent : FnsOf[e] \in Seq(Fn)
    /\ \A d, e \in BanquetEvent : d # e => FnIn(d) \cap FnIn(e) = {}
    /\ Nobody \notin Fn \cup BanquetEvent /\ "none" \notin Wording
    /\ MaxActs \in [BOOLEAN -> Nat] /\ MaxSent \in Nat /\ MaxOthers \in Nat

VARIABLES
    waits,    \* does the editor wait for every answer?
    order,    \* the server's order of each function
    shown,    \* the page
    sent,     \* its requests under way
    acts, others,
    parted    \* functions of which the page cannot know what is saved

deskVars == <<waits, order, shown, sent, acts, others, parted>>

\* Saving writes the requirements anew; rows tells the old from the new.
NoOrder == [status |-> "MISSING", text |-> Blank, ack |-> FALSE, rows |-> 0]
NothingSeen == [f \in Fn |-> NoOrder]
NoDraft == [text |-> "none", ack |-> FALSE]
emptyBeo == [text |-> Proposed, ack |-> FALSE]
toBeoDraft(o) == [text |-> o.text, ack |-> o.ack]

Exists(o) == o.status # "MISSING"
activeFunction == IF shown.active \in FnIn(shown.event) THEN shown.active ELSE First(shown.event)
DraftOf(f) == IF f # Nobody /\ shown.drafts[f] # NoDraft THEN shown.drafts[f] ELSE emptyBeo
\* A draft is made of the order once.
Loaded(d, f, o) == IF d.drafts[f] = NoDraft THEN [d EXCEPT !.drafts[f] = toBeoDraft(o)] ELSE d

Call(id, op, e, f, steps, d) ==
    [op |-> op, id |-> id, event |-> e, fn |-> f, steps |-> steps, draft |-> d,
     served |-> FALSE, seen |-> NothingSeen, to |-> Nobody]
Request(op, e, f, steps) == Call(acts + 1, op, e, f, steps, DraftOf(f))

\* An order is missing, just created or saved; the address may name an event.
DeskInit ==
    /\ waits \in BOOLEAN
    /\ shown = [event |-> Nobody, seen |-> NothingSeen, active |-> Nobody, tab |-> "overview",
                drafts |-> [f \in Fn |-> NoDraft], dirty |-> {}, busy |-> FALSE]
    /\ order \in [Fn -> {NoOrder} \cup [status : {"DRAFT"}, text : {Blank} \cup Wording, ack : {FALSE}, rows : {0}]]
    /\ sent \in {{}} \cup {{Call(0, "open", e, Nobody, <<"open">>, emptyBeo)} : e \in BanquetEvent}
    /\ acts = 0 /\ others = 0 /\ parted = {}

-----------------------------------------------------------------------------
\* What the editor does.  A button that waits for the page says so.
Does(d) ==
    /\ acts + others < MaxActs[waits] /\ acts' = acts + 1
    /\ waits => sent = {}
    /\ shown' = d
    /\ UNCHANGED <<waits, order, others>>
Waiting == shown.busy
On(tab) == shown.event # Nobody /\ shown.tab = tab
Sends(c) == Cardinality(sent) < MaxSent /\ sent' = sent \cup {c}
Busy == [shown EXCEPT !.busy = TRUE]

\* Two requests that write one draft, or an edit that one of them will take
\* for saved.
Writing(f) == \E c \in sent : c.fn = f /\ \E i \in DOMAIN c.steps : c.steps[i] = "patch"
Overlaps(f) == parted' = IF Writing(f) THEN parted \cup {f} ELSE parted

openEvent(e) ==
    /\ Does(Busy)
    /\ Sends(Request("open", e, Nobody, <<"open">>))
    /\ UNCHANGED parted

\* Mutant: the order is not loaded.
clickTabOnly(tab) ==
    /\ shown.event # Nobody
    /\ Does(IF tab = "beo" /\ activeFunction # Nobody
            THEN [shown EXCEPT !.tab = tab, !.active = activeFunction]
            ELSE [shown EXCEPT !.tab = tab])
    /\ UNCHANGED <<sent, parted>>

clickTab(tab) ==
    /\ shown.event # Nobody /\ (tab # shown.tab \/ tab = "beo")
    /\ Does(IF tab = "beo" /\ activeFunction # Nobody
            THEN Loaded([shown EXCEPT !.tab = tab, !.active = activeFunction],
                        activeFunction, shown.seen[activeFunction])
            ELSE [shown EXCEPT !.tab = tab])
    /\ UNCHANGED <<sent, parted>>

Selected(d, f, o) == IF Exists(o) THEN Loaded([d EXCEPT !.active = f], f, o) ELSE [d EXCEPT !.active = f]

\* Edit and Open of the list, or the choice of the order shown.  The tab
\* changes at once, whatever becomes of the draft left behind.
selectFunction(f, tab) ==
    LET left == shown.active
        turned == [shown EXCEPT !.tab = tab]
    IN  /\ f \in FnIn(shown.event)
        /\ \/ On("functions") /\ (tab = "beo" => Exists(shown.seen[f]))
           \/ On("beo") /\ tab = "beo" /\ f # activeFunction
        /\ IF left \notin shown.dirty \cup {f} \/ left = f
           THEN Does(Selected(turned, f, shown.seen[f])) /\ UNCHANGED <<sent, parted>>
           ELSE /\ Does(turned)
                /\ \/ Sends([Request("switch", shown.event, left, <<"patch">>) EXCEPT
                              !.to = f, !.seen = shown.seen]) /\ Overlaps(left)
                   \/ UNCHANGED <<sent, parted>>

ensureBeo(f) ==
    /\ On("functions") /\ f \in FnIn(shown.event) /\ ~Exists(shown.seen[f])
    /\ Does(Busy)
    /\ Sends(Request("create", shown.event, f, <<"post", "open">>))
    /\ UNCHANGED parted

OnOrder == On("beo") /\ activeFunction # Nobody /\ Exists(shown.seen[activeFunction])

\* Mutant: the changes are taken for saved when the button is pressed.
saveBEOAtOnce ==
    /\ OnOrder /\ ~Waiting
    /\ Does([Busy EXCEPT !.dirty = @ \ {activeFunction}])
    /\ Sends(Request("save", shown.event, activeFunction, <<"patch", "open">>))
    /\ Overlaps(activeFunction)

saveBEO ==
    /\ OnOrder /\ ~Waiting
    /\ Does(Busy)
    /\ Sends(Request("save", shown.event, activeFunction, <<"patch", "open">>))
    /\ Overlaps(activeFunction)

finalizeBEO ==
    /\ OnOrder /\ ~Waiting /\ shown.seen[activeFunction].status # "FINAL"
    /\ Does(Busy)
    /\ IF activeFunction \in shown.dirty
       THEN /\ Sends(Request("finalize", shown.event, activeFunction, <<"patch", "finalize", "open">>))
            /\ Overlaps(activeFunction)
       ELSE /\ Sends(Request("finalize", shown.event, activeFunction, <<"finalize", "open">>))
            /\ UNCHANGED parted

updateRequirement ==
    /\ OnOrder /\ shown.seen[activeFunction].text # Blank /\ ~shown.seen[activeFunction].ack
    /\ Does(shown)
    /\ Sends([Request("acknowledge", shown.event, activeFunction, <<"acknowledge", "open">>) EXCEPT
                !.seen = shown.seen])
    /\ UNCHANGED parted

updateDraft(t) ==
    /\ OnOrder /\ t # DraftOf(activeFunction).text
    /\ Does([shown EXCEPT !.drafts[activeFunction] = [DraftOf(activeFunction) EXCEPT !.text = t],
                          !.dirty = @ \cup {activeFunction}])
    /\ Overlaps(activeFunction) /\ UNCHANGED sent

\* The event's form, and its status, whose buttons every tab shows; a function's
\* form, and its cancellation.
changeEvent ==
    /\ shown.event # Nobody /\ ~Waiting
    /\ Does(Busy)
    /\ Sends(Request("event", shown.event, Nobody, <<"change", "open">>))
    /\ UNCHANGED parted
changeFunction(op) ==
    /\ On("functions") /\ (op = "saveFunction" => ~Waiting)
    /\ Does(Busy)
    /\ Sends(Request(op, shown.event, Nobody, <<"change", "open">>))
    /\ UNCHANGED parted

-----------------------------------------------------------------------------
\* The server.  Saving an order reopens it.
Written(o, d) == [status |-> "DRAFT", text |-> d.text, ack |-> d.ack, rows |-> o.rows + 1]
Created(o) == IF Exists(o) THEN o ELSE [NoOrder EXCEPT !.status = "DRAFT"]

\* What an order may become; nothing if the request is refused.
Outcome(c) ==
    LET o == order[c.fn]
        step == Head(c.steps)
    IN  IF c.fn \notin FnIn(c.event) THEN {}
        ELSE CASE step = "patch" /\ Exists(o) -> {Written(o, c.draft)}
          [] step = "post" -> {Created(o)}
          [] step = "finalize" /\ o.text # Blank -> {[o EXCEPT !.status = "FINAL"]}
          [] step = "acknowledge" /\ o.rows = c.seen[c.fn].rows -> {[o EXCEPT !.ack = TRUE]}
          [] OTHER -> {}

Snapshot(e) == [f \in Fn |-> IF f \in FnIn(e) THEN order[f] ELSE NoOrder]

DeskServe(c) ==
    /\ ~c.served
    /\ \/ Head(c.steps) = "change" /\ sent' = (sent \ {c}) \cup {[c EXCEPT !.served = TRUE]} /\ UNCHANGED order
       \/ /\ Head(c.steps) = "open"
          /\ sent' = (sent \ {c}) \cup {[c EXCEPT !.served = TRUE, !.seen = Snapshot(c.event)]}
          /\ UNCHANGED order
       \/ \E o \in Outcome(c) :
            /\ order' = [order EXCEPT ![c.fn] = o]
            /\ sent' = (sent \ {c}) \cup {[c EXCEPT !.served = TRUE]}
    /\ UNCHANGED <<waits, shown, acts, others, parted>>

\* Another desk saves, creates, finalizes or acknowledges.
Known(f) ==
    \/ f \in FnIn(shown.event) \/ shown.drafts[f] # NoDraft
    \/ \E c \in sent : f \in FnIn(c.event)
OtherDesk(f) ==
    /\ others < MaxOthers /\ acts + others < MaxActs[waits] /\ others' = others + 1
    /\ \E n \in {Created(order[f])}
            \cup (IF ~Exists(order[f]) THEN {}
                  ELSE {Written(order[f], [text |-> t, ack |-> FALSE]) : t \in Wording}
                       \cup (IF order[f].text = Blank THEN {}
                             ELSE {[order[f] EXCEPT !.status = "FINAL"], [order[f] EXCEPT !.ack = TRUE]})) :
         n # order[f] /\ order' = [order EXCEPT ![f] = n]
    /\ parted' = IF Known(f) THEN parted \cup {f} ELSE parted
    /\ UNCHANGED <<waits, shown, sent, acts>>

-----------------------------------------------------------------------------
\* What the page does with the answers.
Next1(c) == [c EXCEPT !.steps = Tail(@), !.served = FALSE]
Continues(c) == sent' = (sent \ {c}) \cup {Next1(c)}
Ends(c) == sent' = sent \ {c}

\* After the event has been opened again, or could not be.
Resumed(d, c) ==
    IF c.op \in {"save", "finalize", "create", "acknowledge"} THEN [d EXCEPT !.active = c.fn, !.tab = "beo"]
    ELSE IF c.op = "saveFunction" THEN [d EXCEPT !.tab = "functions"]
    ELSE d
\* A late answer may choose a function of another event than the page shows.
Strays(d) == IF d.active \in FnIn(d.event) \cup {Nobody} THEN {} ELSE FnIn(d.event)
\* An order that came to be while the page was on its way to it, and whose
\* creation was not answered, is not loaded: the proposal stands for it.
Missed(c) == {f \in {c.to} : shown.drafts[f] = NoDraft /\ ~Exists(c.seen[f]) /\ Exists(shown.seen[f])}

\* Mutant: drafts are made anew, whatever was not saved.
eventLandRefreshed(c) ==
    LET d == [shown EXCEPT !.event = c.event, !.seen = c.seen, !.active = First(c.event),
                           !.tab = "overview", !.busy = FALSE,
                           !.drafts = [f \in Fn |-> IF Exists(c.seen[f]) THEN toBeoDraft(c.seen[f]) ELSE @[f]]]
    IN  /\ Head(c.steps) = "open"
        /\ shown' = Resumed(d, c)
        /\ Ends(c) /\ UNCHANGED parted

eventLand(c) ==
    LET d == [shown EXCEPT !.event = c.event, !.seen = c.seen, !.active = First(c.event),
                           !.tab = "overview", !.busy = FALSE]
    IN  /\ Head(c.steps) = "open"
        /\ shown' = Resumed(d, c)
        /\ Ends(c) /\ UNCHANGED parted

\* Opening the event makes the page wait again, whatever ended meanwhile.
OnItsWay(d, c) == IF Head(Tail(c.steps)) = "open" THEN [d EXCEPT !.busy = TRUE] ELSE d

patchLand(c) ==
    LET saved == [shown EXCEPT !.dirty = @ \ {c.fn}]
    IN  /\ Head(c.steps) = "patch"
        /\ IF c.op = "switch"
           THEN /\ shown' = Selected(saved, c.to, c.seen[c.to])
                /\ Ends(c) /\ parted' = parted \cup Strays(shown') \cup Missed(c)
           ELSE shown' = OnItsWay(saved, c) /\ Continues(c) /\ UNCHANGED parted

\* An order that exists is taken for a new one.
postLand(c) ==
    /\ Head(c.steps) = "post"
    /\ shown' = OnItsWay([shown EXCEPT !.drafts[c.fn] = emptyBeo], c)
    /\ parted' = IF c.fn \in shown.dirty \/ order[c.fn].text # Blank THEN parted \cup {c.fn} ELSE parted
    /\ Continues(c)

otherLand(c) ==
    /\ Head(c.steps) \in {"finalize", "acknowledge", "change"}
    /\ shown' = OnItsWay(shown, c)
    /\ Continues(c) /\ UNCHANGED parted

DeskLand(c) ==
    /\ c.served
    /\ eventLand(c) \/ patchLand(c) \/ postLand(c) \/ otherLand(c)
    /\ UNCHANGED <<waits, order, acts, others>>

\* Served or not.  A failed opening is reported and what waits for it goes on.
DeskFail(c) ==
    /\ IF Head(c.steps) = "open" THEN shown' = Resumed([shown EXCEPT !.busy = FALSE], c)
       ELSE IF c.op \in {"switch", "acknowledge"} THEN shown' = shown
       ELSE shown' = [shown EXCEPT !.busy = FALSE]
    /\ Ends(c) /\ parted' = parted \cup Strays(shown')
    /\ UNCHANGED <<waits, order, acts, others>>

-----------------------------------------------------------------------------
Editing ==
    \/ \E e \in BanquetEvent : openEvent(e)
    \/ \E tab \in {"overview", "functions", "beo"} : clickTab(tab)
    \/ \E f \in Fn : ensureBeo(f) \/ \E tab \in {"functions", "beo"} : selectFunction(f, tab)
    \/ \E t \in Wording \cup {Blank} : updateDraft(t)
    \/ \E op \in {"saveFunction", "cancelFunction"} : changeFunction(op)
    \/ saveBEO \/ finalizeBEO \/ updateRequirement \/ changeEvent

DeskNext ==
    \/ Editing
    \/ \E c \in sent : DeskServe(c) \/ DeskLand(c) \/ DeskFail(c)
    \/ \E f \in Fn : OtherDesk(f)

DeskSpec == DeskInit /\ [][DeskNext]_deskVars

-----------------------------------------------------------------------------
\* A draft without changes to save is what is saved, on every path of
\* openings, switches, saves and finalizations, lost answers and overtaking
\* ones: the page never takes for saved what is not, nor shows something else
\* (BanquetsData.tsx:658-731, 761-790).  A new order's proposal is not saved
\* (BanquetsData.tsx:611).  Excepted are functions another desk has changed
\* since the page knew them, and those whose changes overtake a request.
DraftsAreSaved ==
    \A f \in Fn \ parted :
        shown.drafts[f] # NoDraft /\ f \notin shown.dirty =>
            \/ shown.drafts[f].text = order[f].text
            \/ shown.drafts[f].text = Proposed /\ order[f].text = Blank

\* An order is shown as it was loaded; the proposal for a new one never stands
\* for an order that exists (BanquetsData.tsx:233, 1322, 786).
OrderIsLoaded ==
    OnOrder /\ activeFunction \notin parted => shown.drafts[activeFunction] # NoDraft

DeskIsHonest == DraftsAreSaved /\ OrderIsLoaded

\* What was changed and not saved stays as it is until the editor changes it
\* again, and is no longer marked only when it is saved, whatever event is
\* opened or answer lands in between.
EditsAreKept ==
    [][\A f \in Fn \ parted' :
          f \in shown.dirty /\ acts' = acts =>
             /\ shown'.drafts[f] = shown.drafts[f]
             /\ f \in shown'.dirty \/ order[f].text = shown.drafts[f].text]_deskVars
=============================================================================
