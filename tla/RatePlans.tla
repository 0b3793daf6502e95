----------------------------- MODULE RatePlans -----------------------------
(***************************************************************************)
(* The commercial rate plans of one hotel, their assignment to room types, *)
(* and the agents who may book by them (hotels.service.ts,                 *)
(* agents.service.ts, users.controller.ts).  A request reads before its    *)
(* transaction, and the transaction reads before it commits; the editors'  *)
(* requests interleave.  Names, meal plans and channel ids are left out, a *)
(* code stands for all that an assignment copies from its master.          *)
(***************************************************************************)
EXTENDS Integers, FiniteSets

CONSTANTS
    Agent,
    RoomType,      \* the hotel's
    Master,        \* the plans that may be created
    Code,
    Editor,        \* who may work on plans and agents
    MaxAsked       \* bound: requests

VARIABLES
    master,    \* code and state of each plan
    plan,      \* its assignment to each room type
    sold,      \* the room types that are active
    access,    \* each agent's row for each assignment
    editors,   \* who is at work
    task,      \* the request each of them has under way
    asked,
    crossed,   \* agents and assignments written on what had changed since it was read
    reopened   \* room types made active again

plansVars == <<master, plan, sold, access, editors, task, asked, crossed, reopened>>

Pair == RoomType \X Master
RoomOf(p) == p[1]
MasterOf(p) == p[2]

\* Bound: what is removed is not created again.
Nothing == [code |-> "none"]
Removed == [code |-> "removed"]
NoTask == [op |-> "none"]

ASSUME RatePlansAssumption ==
    /\ MaxAsked \in Nat /\ {"none", "removed"} \cap Code = {}
    /\ Agent \cap Pair = {}    \* an agent is not an assignment

Masters == {m \in Master : master[m] \notin {Nothing, Removed}}
Plans == {p \in Pair : plan[p] \notin {Nothing, Removed}}
AssignmentsOf(m) == {p \in Plans : MasterOf(p) = m}
\* The assignments an agent of the plan may book.
Bookable(m) == {p \in AssignmentsOf(m) : plan[p].active /\ RoomOf(p) \in sold}
On(g) == {p \in Pair : access[g][p] = "on"}
PlansOf(g) == {MasterOf(p) : p \in On(g)}
AgentsOf(m) == {g \in Agent : m \in PlansOf(g)}

\* A hotel that begins, and one whose plans have all its room types.
PlansInit ==
    /\ \E stocked \in BOOLEAN, code \in [Master -> Code] :
        /\ \A m, n \in Master : m # n => code[m] # code[n]
        /\ master = [m \in Master |-> IF stocked THEN [code |-> code[m], active |-> TRUE] ELSE Nothing]
        /\ plan = [p \in Pair |-> IF stocked THEN [code |-> code[MasterOf(p)], active |-> TRUE,
                                                   priced |-> FALSE] ELSE Nothing]
    /\ sold = RoomType
    /\ access = [g \in Agent |-> [p \in Pair |-> "none"]]
    /\ editors \in SUBSET Editor \ {{}}
    /\ task = [e \in Editor |-> NoTask] /\ asked = 0
    /\ crossed = {} /\ reopened = {}

Asks(e, t) ==
    /\ e \in editors /\ task[e] = NoTask
    /\ asked < MaxAsked /\ asked' = asked + 1
    /\ task' = [task EXCEPT ![e] = t]
AsksOnce(e) == Asks(e, NoTask)
Ends(e) == task' = [task EXCEPT ![e] = NoTask] /\ UNCHANGED asked

\* The rows a transaction has locked: the assignment it activates, and the
\* agent's rows it switches off.
Granting(p) == \E e \in Editor : task[e].op = "assign" /\ task[e].granting /\ p = task[e].plan
GrantingOf(m) == \E p \in Pair : MasterOf(p) = m /\ Granting(p)
Dropping(g) == UNION {task[e].drop : e \in {d \in Editor : task[d].op = "agent" /\ task[d].agent = g}}

-----------------------------------------------------------------------------
\* Plans.  The codes of a hotel differ, and those of a room type's assignments.
CodeIsFree(m, c) == \A n \in Masters : n # m => master[n].code # c
FreeIn(p, c) == \A q \in Plans : RoomOf(q) = RoomOf(p) /\ q # p => plan[q].code # c
NewPlan(c, active) == [code |-> c, active |-> active, priced |-> FALSE]

createRatePlanMaster(e, m, c, rooms) ==
    /\ AsksOnce(e)
    /\ master[m] = Nothing /\ CodeIsFree(m, c)
    /\ \A r \in rooms : FreeIn(<<r, m>>, c)
    /\ master' = [master EXCEPT ![m] = [code |-> c, active |-> TRUE]]
    /\ plan' = [p \in Pair |-> IF MasterOf(p) = m /\ RoomOf(p) \in rooms THEN NewPlan(c, TRUE) ELSE plan[p]]
    /\ UNCHANGED <<sold, access, editors, crossed, reopened>>

\* What the request does not name is written as it was read; the state is kept.
ReadMaster(e, m) ==
    /\ m \in Masters
    /\ \/ \E c \in Code : Asks(e, [op |-> "master", master |-> m, code |-> c, states |-> {}])
       \/ \E s \in BOOLEAN : Asks(e, [op |-> "master", master |-> m, code |-> master[m].code, states |-> {s}])
    /\ UNCHANGED <<master, plan, sold, access, editors, crossed, reopened>>

RenamedMaster(t) ==
    [master EXCEPT ![t.master] =
        [code |-> t.code, active |-> IF t.states = {} THEN @.active ELSE TRUE \in t.states]]

\* Mutant: the assignments keep the code they had.
updateRatePlanMasterAlone(e) ==
    LET t == task[e]
    IN  /\ t.op = "master" /\ ~GrantingOf(t.master)
        /\ Ends(e)
        /\ master' = IF t.master \in Masters /\ CodeIsFree(t.master, t.code) THEN RenamedMaster(t) ELSE master
        /\ UNCHANGED <<plan, sold, access, editors, crossed, reopened>>

updateRatePlanMaster(e) ==
    LET t == task[e]
        accepted == /\ t.master \in Masters /\ CodeIsFree(t.master, t.code)
                    /\ \A p \in AssignmentsOf(t.master) : FreeIn(p, t.code)
    IN  /\ t.op = "master" /\ ~GrantingOf(t.master)
        /\ Ends(e)
        /\ master' = IF accepted THEN RenamedMaster(t) ELSE master
        /\ plan' = IF ~accepted THEN plan
                   ELSE [p \in Pair |-> IF p \in AssignmentsOf(t.master)
                                        THEN [plan[p] EXCEPT !.code = t.code] ELSE plan[p]]
        /\ UNCHANGED <<sold, access, editors, crossed, reopened>>

deleteRatePlanMaster(e, m) ==
    /\ AsksOnce(e)
    /\ m \in Masters /\ AssignmentsOf(m) = {} /\ ~GrantingOf(m)
    /\ master' = [master EXCEPT ![m] = Removed]
    /\ UNCHANGED <<plan, sold, access, editors, crossed, reopened>>

-----------------------------------------------------------------------------
\* Assignments to room types.  The code a new one will have is read first.
Assignment(p, c, active, exists) ==
    [op |-> "assign", plan |-> p, code |-> c, active |-> active, exists |-> exists,
     granting |-> FALSE, agents |-> {}]

ReadForAssignment(e, p, active) ==
    /\ MasterOf(p) \in Masters
    /\ Asks(e, Assignment(p, master[MasterOf(p)].code, active, FALSE))
    /\ UNCHANGED <<master, plan, sold, access, editors, crossed, reopened>>
ReadAssignment(e, p, active) ==
    /\ p \in Plans
    /\ Asks(e, Assignment(p, plan[p].code, active, TRUE))
    /\ UNCHANGED <<master, plan, sold, access, editors, crossed, reopened>>

\* Under a room type: the plan with that code is found, or created by itself.
createRatePlan(e, r, c, active) ==
    /\ \E m \in Master :
        /\ \/ m \in Masters /\ master[m].code = c /\ UNCHANGED master
           \/ /\ master[m] = Nothing /\ CodeIsFree(m, c)
              /\ master' = [master EXCEPT ![m] = [code |-> c, active |-> active]]
        /\ Asks(e, Assignment(<<r, m>>, c, active, FALSE))
    /\ UNCHANGED <<plan, sold, access, editors, crossed, reopened>>

MayAssign(t) ==
    IF t.plan \in Plans THEN TRUE
    ELSE ~t.exists /\ plan[t.plan] = Nothing /\ MasterOf(t.plan) \in Masters /\ FreeIn(t.plan, t.code)

Written(t) ==
    [plan EXCEPT ![t.plan] = IF t.plan \in Plans THEN [@ EXCEPT !.active = t.active]
                             ELSE NewPlan(t.code, t.active)]
\* A new assignment with a code that is its master's no more.
StalePlan(t) ==
    IF plan[t.plan] = Nothing /\ t.code # master[MasterOf(t.plan)].code THEN {t.plan} ELSE {}

\* Inside the transaction: an active assignment is for the agents of its plan.
FindAgents(e) ==
    LET t == task[e]
    IN  /\ t.op = "assign" /\ ~t.granting /\ ~Granting(t.plan)
        /\ t.active /\ MayAssign(t)
        /\ task' = [task EXCEPT ![e].granting = TRUE, ![e].agents = AgentsOf(MasterOf(t.plan))]
        /\ UNCHANGED <<master, plan, sold, access, editors, asked, crossed, reopened>>

\* Mutant: its agents are forgotten.
activateUngranted(e) ==
    LET t == task[e]
    IN  /\ t.op = "assign" /\ t.granting
        /\ Ends(e)
        /\ plan' = Written(t)
        /\ crossed' = crossed \cup StalePlan(t)
        /\ UNCHANGED <<master, sold, access, editors, reopened>>

propagateAgentAccess(e) ==
    LET t == task[e]
        now == AgentsOf(MasterOf(t.plan))
    IN  /\ t.op = "assign" /\ t.granting
        /\ Ends(e)
        /\ plan' = Written(t)
        /\ access' = [g \in Agent |-> IF g \in t.agents THEN [access[g] EXCEPT ![t.plan] = "on"] ELSE access[g]]
        /\ crossed' = crossed \cup StalePlan(t) \cup (t.agents \ now) \cup (now \ t.agents)
        /\ UNCHANGED <<master, sold, editors, reopened>>

\* An inactive assignment, or one refused.
assignInactive(e) ==
    LET t == task[e]
    IN  /\ t.op = "assign" /\ ~t.granting /\ ~Granting(t.plan)
        /\ ~(t.active /\ MayAssign(t))
        /\ Ends(e)
        /\ plan' = IF MayAssign(t) THEN Written(t) ELSE plan
        /\ crossed' = crossed \cup (IF MayAssign(t) THEN StalePlan(t) ELSE {})
        /\ UNCHANGED <<master, sold, access, editors, reopened>>

saveRates(e, p) ==
    /\ AsksOnce(e)
    /\ p \in Plans /\ ~Granting(p)
    /\ plan' = [plan EXCEPT ![p].priced = TRUE]
    /\ UNCHANGED <<master, sold, access, editors, crossed, reopened>>

\* An assignment with rates or agents is not removed: they are counted first,
\* and what is added until it is removed goes with it.
CountDependencies(e, p) ==
    /\ p \in Plans /\ ~plan[p].priced /\ \A g \in Agent : access[g][p] = "none"
    /\ Asks(e, [op |-> "delete", plan |-> p])
    /\ UNCHANGED <<master, plan, sold, access, editors, crossed, reopened>>
deleteRatePlanAssignment(e) ==
    LET t == task[e]
    IN  /\ t.op = "delete" /\ ~Granting(t.plan)
        /\ Ends(e)
        /\ plan' = [plan EXCEPT ![t.plan] = Removed]
        /\ access' = [g \in Agent |-> [access[g] EXCEPT ![t.plan] = "none"]]
        /\ UNCHANGED <<master, sold, editors, crossed, reopened>>

updateRoom(e, r) ==
    /\ AsksOnce(e)
    /\ sold' = IF r \in sold THEN sold \ {r} ELSE sold \cup {r}
    /\ reopened' = reopened \cup (sold' \ sold)
    /\ UNCHANGED <<master, plan, access, editors, crossed>>

-----------------------------------------------------------------------------
\* Agents.  The assignments of a plan are read, then the transaction switches
\* off the agent's others, as it finds them, and these on.
AgentTask(g, m, take) ==
    [op |-> "agent", agent |-> g, master |-> m, take |-> take, found |-> FALSE, drop |-> {}, seen |-> {}]

assignAgentHotelRatePlan(e, g, m) ==
    /\ m \in Masters /\ master[m].active /\ Bookable(m) # {}
    /\ Asks(e, AgentTask(g, {m}, Bookable(m)))
    /\ UNCHANGED <<master, plan, sold, access, editors, crossed, reopened>>

\* The assignments named are of one plan, and stand for all of it; or none is named.
mapRatePlans(e, g) ==
    /\ \/ \E m \in Masters :
            /\ master[m].active /\ \E p \in AssignmentsOf(m) : plan[p].active
            /\ Asks(e, AgentTask(g, {}, Bookable(m)))
       \/ Asks(e, AgentTask(g, {}, {}))
    /\ UNCHANGED <<master, plan, sold, access, editors, crossed, reopened>>

\* All but the plan's are switched off, or all but those taken.
Others(t) == {p \in On(t.agent) : p \notin t.take /\ MasterOf(p) \notin t.master}

FindOthers(e) ==
    LET t == task[e]
    IN  /\ t.op = "agent" /\ ~t.found
        /\ Dropping(t.agent) \cap Others(t) = {}
        /\ task' = [task EXCEPT ![e].found = TRUE, ![e].drop = Others(t), ![e].seen = On(t.agent)]
        /\ UNCHANGED <<master, plan, sold, access, editors, asked, crossed, reopened>>

\* Did the plan's bookable assignments change since they were read?
Moved(t) == t.take # {} /\ \A m \in Masters : Bookable(m) # t.take

\* Mutant: the agent keeps the plans it had.
switchAgentOnly(e) ==
    LET t == task[e]
    IN  /\ t.op = "agent" /\ t.found
        /\ Ends(e)
        /\ access' = IF t.take \subseteq Plans
                     THEN [access EXCEPT ![t.agent] = [p \in Pair |-> IF p \in t.take THEN "on" ELSE @[p]]]
                     ELSE access
        /\ crossed' = crossed \ {t.agent}
        /\ UNCHANGED <<master, plan, sold, editors, reopened>>

switchAgent(e) ==
    LET t == task[e]
        accepted == t.take \subseteq Plans
    IN  /\ t.op = "agent" /\ t.found
        /\ Ends(e)
        /\ access' = IF ~accepted THEN access
                     ELSE [access EXCEPT ![t.agent] =
                              [p \in Pair |-> IF p \in t.take THEN "on"
                                              ELSE IF p \in t.drop /\ @[p] = "on" THEN "off" ELSE @[p]]]
        /\ crossed' = IF ~accepted THEN crossed
                      ELSE IF On(t.agent) # t.seen \/ Moved(t) THEN crossed \cup {t.agent}
                      ELSE crossed \ {t.agent}
        /\ UNCHANGED <<master, plan, sold, editors, reopened>>

removeAgentHotelRatePlan(e, g, m) ==
    /\ AsksOnce(e)
    /\ m \in Masters
    /\ access' = [access EXCEPT ![g] = [p \in Pair |-> IF @[p] = "on" /\ MasterOf(p) = m THEN "off" ELSE @[p]]]
    /\ UNCHANGED <<master, plan, sold, editors, crossed, reopened>>

-----------------------------------------------------------------------------
PlansNext ==
    \E e \in Editor :
        \/ \E m \in Master :
            \/ \E c \in Code, rooms \in SUBSET RoomType : createRatePlanMaster(e, m, c, rooms)
            \/ ReadMaster(e, m) \/ deleteRatePlanMaster(e, m)
        \/ \E p \in Pair :
            \/ \E active \in BOOLEAN : ReadForAssignment(e, p, active) \/ ReadAssignment(e, p, active)
            \/ saveRates(e, p) \/ CountDependencies(e, p)
        \/ \E r \in RoomType :
            \/ \E c \in Code, active \in BOOLEAN : createRatePlan(e, r, c, active)
            \/ updateRoom(e, r)
        \/ \E g \in Agent :
            \/ mapRatePlans(e, g)
            \/ \E m \in Master : assignAgentHotelRatePlan(e, g, m) \/ removeAgentHotelRatePlan(e, g, m)
        \/ updateRatePlanMaster(e) \/ FindAgents(e) \/ propagateAgentAccess(e) \/ assignInactive(e)
        \/ deleteRatePlanAssignment(e) \/ FindOthers(e) \/ switchAgent(e)

PlansSpec == PlansInit /\ [][PlansNext]_plansVars

-----------------------------------------------------------------------------
\* An agent can have only one commercial rate plan per hotel
\* (users.controller.ts:187), and has all of it: each active assignment,
\* whether made before the agent had the plan, after, or made active again
\* (hotels.service.ts:656, agents.service.ts:28), but those of a room type
\* that was closed in between.  So through every order of assignments,
\* activations, removals and edits in which no request overtakes another on
\* the same agent.
OnePlanAnAgent ==
    \A g \in Agent \ crossed : Cardinality(PlansOf(g)) <= 1
WholePlans ==
    \A g \in Agent \ crossed : \A m \in PlansOf(g) :
        \A p \in Bookable(m) : RoomOf(p) \notin reopened => p \in On(g)
AgentsHaveWholePlans == OnePlanAnAgent /\ WholePlans

\* An assignment carries its master's code whatever is renamed, removed or
\* assigned again, unless the master was renamed while it was being made
\* (hotels.service.ts:610, 632).
CodesFollowTheMaster ==
    \A p \in Plans \ crossed : plan[p].code = master[MasterOf(p)].code
=============================================================================
