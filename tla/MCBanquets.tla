----------------------------- MODULE MCBanquets -----------------------------
\* The banquet desk, and the administration of rate plans.  The two share no
\* state and are explored side by side: two events, two functions, one space,
\* two times that overlap, one or two clerks; and two plans, two room types, an
\* agent, one or two editors.
EXTENDS Banquets, RatePlans, TLC
CONSTANTS e1, e2, f1, f2, k1, k2, s1, g1, m1, m2, r1, r2, x1, x2
Events2 == {e1, e2}
Fns2 == {f1, f2}
Clerks == {k1, k2}
OneSpace == {s1}
Running == {"IN_PROGRESS"}
Places == {[space |-> s1, day |-> 1, from |-> 0, to |-> 2],
           [space |-> s1, day |-> 1, from |-> 1, to |-> 3]}

OneAgent == {g1}
Rooms2 == {r1, r2}
Masters2 == {m1, m2}
Editors2 == {x1, x2}
Codes == {"CP", "MAP"}

\* Each side is left alone by the other's permutations.
Swaps(a, b, c, d) == {a :> b @@ b :> a @@ c :> d @@ d :> c, a :> a @@ b :> b @@ c :> c @@ d :> d}
Sym == {p @@ q @@ r : p \in Swaps(e1, e2, m1, m2), q \in Swaps(f1, f2, r1, r2), r \in Swaps(k1, k2, x1, x2)}

NoEditors ==
    /\ master = [m \in Master |-> Nothing] /\ plan = [p \in Pair |-> Nothing]
    /\ sold = RoomType /\ access = [g \in Agent |-> [p \in Pair |-> "none"]]
    /\ editors = {} /\ task = [e \in Editor |-> NoTask] /\ asked = 0
    /\ crossed = {} /\ reopened = {}
BInit == Init /\ (NoEditors \/ (staff = Clerk /\ PlansInit))
BNext == \/ editors = {} /\ Next /\ UNCHANGED plansVars
         \/ PlansNext /\ UNCHANGED vars
BSpec == BInit /\ [][BNext]_<<vars, plansVars>>
=============================================================================
