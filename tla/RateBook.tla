------------------------------ MODULE RateBook ------------------------------
(***************************************************************************)
(* The rates of one plan and who gets them: the daily public (RACK) rates  *)
(* and agent-category rates, the category periods (bands), and the periods *)
(* in which an agent is assigned a category of a hotel                     *)
(* (rate-master.service.ts, rate-resolver.ts, hotels.service.ts, the       *)
(* channel's inbound rates).  Amounts are those of a double room; one      *)
(* category, "A", stands for A-E.                                          *)
(***************************************************************************)
EXTENDS Integers, FiniteSets, FiniteSetsExt

CONSTANTS
    Hotel, Home,    \* the hotels of the assignments; Home has the plan
    Row,            \* the assignments that may be created
    Admin,          \* who edits assignments
    Price,          \* the amounts an editor types for a night, all positive
    BandPrice,      \* and for a category's night or period
    MaxNight,       \* bound: nights 0..MaxNight
    MaxEdits        \* bound: edits

ASSUME RateBookAssumption ==
    /\ Home \in Hotel /\ MaxNight \in Nat /\ MaxEdits \in Nat
    /\ Price \cup BandPrice \subseteq Nat \ {0}

VARIABLES
    mapping,  \* the agent's assignments
    canonical, \* has the plan's master one of the four meal plans, as CANONICAL_MEAL?
    band,     \* the category periods of the plan
    daily,    \* the category rate of each night
    day,      \* the public rate row of each night
    desk,     \* an assignment edit between its read and its write
    edits

vars == <<mapping, canonical, band, daily, day, desk, edits>>

Night == 0..MaxNight
Period == {p \in [from : Night, to : Night] : p.from <= p.to}
Nights(p) == p.from..p.to
overlaps(p, q) == p.from <= q.to /\ q.from <= p.to
Dates(r) == [from |-> r.from, to |-> r.to]

Category == {"RACK", "A"}
Mapping == [hotel : Hotel, from : Night, to : Night, category : Category, active : BOOLEAN]
NoRow == [active |-> FALSE]
Rows == {m \in Row : mapping[m] # NoRow}

\* An absent amount, one a request does not name, and JavaScript's a ?? b.
Absent == -1
Keep == -2
Or(a, b) == IF a # Absent THEN a ELSE b
NoDay == [amount |-> Absent, base |-> Absent, double |-> Absent, override |-> Absent]

\* The plan may have been given a category period for all nights.
Init ==
    /\ mapping = [m \in Row |-> NoRow] /\ canonical \in BOOLEAN
    /\ band \in {{}} \cup
         {{[from |-> 0, to |-> MaxNight, price |-> x, active |-> TRUE]} : x \in BandPrice}
    /\ daily = [n \in Night |-> Absent] /\ day = [n \in Night |-> NoDay]
    /\ desk = [a \in Admin |-> NoRow] /\ edits = 0

Edit == edits < MaxEdits /\ edits' = edits + 1

-----------------------------------------------------------------------------
\* Assignments.  Every write but a removal holds the lock of the agent and the
\* hotel it writes to, tests the active assignments of that hotel, and is
\* refused a second assignment of a hotel from the same day, active or not.
Clear(hotel, period, except) ==
    \A m \in Rows \ except :
        ~(mapping[m].hotel = hotel /\ mapping[m].active /\ overlaps(Dates(mapping[m]), period))
FirstDayFree(hotel, period, except) ==
    \A m \in Rows \ except : mapping[m].hotel # hotel \/ mapping[m].from # period.from

\* One hotel, several at once, or a renewal.
CreateMappings(hotels, period, category, active) ==
    /\ Edit
    /\ \A h \in hotels : FirstDayFree(h, period, {}) /\ (active => Clear(h, period, {}))
    /\ \E row \in [hotels -> Row \ Rows] :
        /\ \A g, h \in hotels : g # h => row[g] # row[h]
        /\ mapping' = [m \in Row |->
              IF \E h \in hotels : row[h] = m
              THEN [hotel |-> CHOOSE h \in hotels : row[h] = m, from |-> period.from,
                    to |-> period.to, category |-> category, active |-> active]
              ELSE mapping[m]]
    /\ UNCHANGED <<canonical, band, daily, day, desk>>

\* An update names the fields it changes; the others it writes as it read them.
PatchedWith(r, periods) ==
    {[r EXCEPT !.from = p.from, !.to = p.to] : p \in periods}
      \cup {[r EXCEPT !.hotel = h] : h \in Hotel}
      \cup {[r EXCEPT !.category = c] : c \in Category}
      \cup {[r EXCEPT !.active = b] : b \in BOOLEAN}
\* Mutant: the order of the dates is not checked.
PatchedUnordered(r) == PatchedWith(r, [from : Night, to : Night])

Patched(r) == PatchedWith(r, Period)

ReadMapping(a, m) ==
    /\ desk[a] = NoRow /\ m \in Rows /\ Edit
    /\ \E r \in Patched(mapping[m]) : desk' = [desk EXCEPT ![a] = [row |-> m, write |-> r]]
    /\ UNCHANGED <<mapping, canonical, band, daily, day>>

\* Mutant: what was read is written without looking again.
updateMappingUntested(a) ==
    /\ desk[a] # NoRow
    /\ desk' = [desk EXCEPT ![a] = NoRow]
    /\ mapping' = [mapping EXCEPT ![desk[a].row] = desk[a].write]
    /\ UNCHANGED <<canonical, band, daily, day, edits>>

updateMapping(a) ==
    /\ desk[a] # NoRow
    /\ desk' = [desk EXCEPT ![a] = NoRow]
    /\ LET m == desk[a].row  r == desk[a].write
           accepted == /\ r.active => Clear(r.hotel, Dates(r), {m})
                       /\ FirstDayFree(r.hotel, Dates(r), {m})
       IN  mapping' = IF accepted THEN [mapping EXCEPT ![m] = r] ELSE mapping
    /\ UNCHANGED <<canonical, band, daily, day, edits>>

removeMapping(m) ==
    /\ m \in Rows /\ Edit
    /\ mapping' = [mapping EXCEPT ![m].active = FALSE]
    /\ UNCHANGED <<canonical, band, daily, day, desk>>

-----------------------------------------------------------------------------
\* Rates, each edit one transaction.  Only the grid asks for a canonical plan.
Covering(n) == {b \in band : b.active /\ n \in Nights(b)}
BaseOf(d) == Or(d.base, d.amount)
WithDouble(d, x) == [d EXCEPT !.amount = x, !.base = x, !.double = x]

\* Mutant: periods may overlap.
UpdateBandAnyway(period, price, active) ==
    /\ Edit
    /\ \A b \in band : Dates(b) = period => b.active
    /\ band' = {b \in band : Dates(b) # period}
                 \cup {[from |-> period.from, to |-> period.to, price |-> price, active |-> active]}
    /\ UNCHANGED <<mapping, canonical, daily, day, desk>>

\* Rate Master, category part.  An inactive period keeps its dates taken.
UpdateBand(period, price, active) ==
    /\ Edit
    /\ \A b \in band : b.active /\ Dates(b) # period => ~overlaps(Dates(b), period)
    /\ \A b \in band : Dates(b) = period => b.active
    /\ band' = {b \in band : Dates(b) # period}
                 \cup {[from |-> period.from, to |-> period.to, price |-> price, active |-> active]}
    /\ UNCHANGED <<mapping, canonical, daily, day, desk>>

\* Rate Master, public part: the rows of the period must be alike, and a new
\* row needs its double rate.  x is Absent when only other amounts are saved.
UpdateRack(period, x) ==
    LET rows == {day[n] : n \in Nights(period)} \ {NoDay}
        uniform == {[d EXCEPT !.override = Absent] : d \in rows}
    IN  /\ Edit
        /\ Cardinality(uniform) <= 1
        /\ x = Absent => \A n \in Nights(period) : day[n] # NoDay
        /\ day' = [n \in Night |->
              IF n \notin Nights(period) THEN day[n]
              ELSE IF x # Absent THEN WithDouble(day[n], x)
              ELSE [day[n] EXCEPT !.base = BaseOf(day[n])]]
        /\ UNCHANGED <<mapping, canonical, band, daily, desk>>

\* Mutant: the double price of a row keeps what it was.
GridRackAmount(period, x) ==
    /\ Edit /\ (x = Absent => canonical)
    /\ day' = [n \in Night |->
          IF n \notin Nights(period) THEN day[n]
          ELSE IF x # Absent THEN [day[n] EXCEPT !.amount = x, !.base = x]
          ELSE IF day[n] = NoDay THEN [NoDay EXCEPT !.amount = 0, !.base = 0] ELSE day[n]]
    /\ UNCHANGED <<mapping, canonical, band, daily, desk>>

\* The grid, and the hotel's rate workbook, which always has the double rate.
\* A new row of a grid that leaves it out has amount and base 0 and no double
\* price.
GridRack(period, x) ==
    /\ Edit /\ (x = Absent => canonical)
    /\ day' = [n \in Night |->
          IF n \notin Nights(period) THEN day[n]
          ELSE IF x # Absent THEN WithDouble(day[n], x)
          ELSE IF day[n] = NoDay THEN [NoDay EXCEPT !.amount = 0, !.base = 0] ELSE day[n]]
    /\ UNCHANGED <<mapping, canonical, band, daily, desk>>
GridCategory(period, x) ==
    /\ Edit /\ (x = Absent => canonical)
    /\ daily' = [n \in Night |->
          IF n \notin Nights(period) THEN daily[n] ELSE Or(x, Or(daily[n], 0))]
    /\ UNCHANGED <<mapping, canonical, band, day, desk>>

\* The channel sends one amount a night; a line of a plan's own workbook may
\* have a double price too.
ChannelRate(n, x) ==
    /\ Edit
    /\ day' = [day EXCEPT ![n].amount = x]
    /\ UNCHANGED <<mapping, canonical, band, daily, desk>>
importRatePlanRates(n, x, d) ==
    /\ Edit
    /\ day' = [day EXCEPT ![n].amount = x, ![n].double = d]
    /\ UNCHANGED <<mapping, canonical, band, daily, desk>>

\* The pricebook saves a base amount (x), an override (o) and the prices by
\* occupancy, the double one among them (d): each kept, dropped or set.
SavePricebook(period, x, o, d) ==
    LET Kept(new, old) == IF new = Keep THEN old ELSE new
        saved(r) == [amount |-> IF o \in {Keep, Absent} THEN Or(x, r.amount) ELSE o,
                     base |-> Or(x, r.base),
                     double |-> Kept(d, r.double), override |-> Kept(o, r.override)]
    IN  /\ Edit
        /\ x = Absent => \A n \in Nights(period) : day[n] # NoDay
        /\ day' = [n \in Night |-> IF n \in Nights(period) THEN saved(day[n]) ELSE day[n]]
        /\ UNCHANGED <<mapping, canonical, band, daily, desk>>

\* The rate calendar: set the rate, mark it up (an override), drop the override.
BulkRates(period, action, x) ==
    LET preview(d) ==
          [d EXCEPT !.base = IF action = "SET_RATE" THEN x ELSE BaseOf(d),
                    !.override = CASE action = "PERCENT" -> x
                                   [] action = "OTHER" -> @
                                   [] OTHER -> Absent]
        result(d) == LET p == preview(d) IN [p EXCEPT !.amount = Or(p.override, p.base)]
    IN  /\ Edit
        /\ \E n \in Nights(period) : action = "SET_RATE" \/ day[n] # NoDay
        /\ day' = [n \in Night |->
              IF n \in Nights(period) /\ (action = "SET_RATE" \/ day[n] # NoDay)
              THEN result(day[n]) ELSE day[n]]
        /\ UNCHANGED <<mapping, canonical, band, daily, desk>>

\* A new meal plan, or any edit of a LEGACY master whose code is its meal plan:
\* whether it may become canonical hangs on its code, which is left out.
EditMealPlan ==
    /\ Edit /\ canonical' = ~canonical
    /\ UNCHANGED <<mapping, band, daily, day, desk>>

-----------------------------------------------------------------------------
Next ==
    \/ \E hotels \in SUBSET Hotel \ {{}}, p \in Period, c \in Category, b \in BOOLEAN :
         CreateMappings(hotels, p, c, b)
    \/ \E a \in Admin, m \in Row : ReadMapping(a, m)
    \/ \E a \in Admin : updateMapping(a)
    \/ \E m \in Row : removeMapping(m)
    \/ \E p \in Period, x \in BandPrice, b \in BOOLEAN : UpdateBand(p, x, b)
    \/ \E p \in Period, x \in Price \cup {Absent} :
         UpdateRack(p, x) \/ GridRack(p, x)
    \/ \E p \in Period, x \in BandPrice \cup {Absent} : GridCategory(p, x)
    \/ \E n \in Night, x \in Price : ChannelRate(n, x) \/ \E d \in Price : importRatePlanRates(n, x, d)
    \/ \E p \in Period, x \in Price \cup {Absent}, o, d \in Price \cup {Absent, Keep} :
         SavePricebook(p, x, o, d)
    \/ EditMealPlan
    \/ \E p \in Period, x \in Price, act \in {"SET_RATE", "PERCENT", "OTHER", "REMOVE_OVERRIDE"} :
         BulkRates(p, act, x)

Spec == Init /\ [][Next]_vars

-----------------------------------------------------------------------------
\* What a guest and the agent are quoted (availability.service.ts,
\* rate-resolver.ts) and what the agent's rate book says (rate-master.service.ts).
RackPrice(n) ==
    IF day[n].override # Absent THEN day[n].override ELSE Or(day[n].double, BaseOf(day[n]))

Assigned(h, n) ==
    {m \in Rows : mapping[m].active /\ mapping[m].hotel = h /\ n \in Nights(Dates(mapping[m]))}
CategoryAt(n) == mapping[CHOOSE m \in Assigned(Home, n) : TRUE].category

\* The night's test of categoryRateMatches, and the amount categoryResolve gives.
CategoryMatches(n) ==
    IF CategoryAt(n) = "RACK" THEN Or(day[n].double, BaseOf(day[n])) > 0
    ELSE IF daily[n] # Absent THEN daily[n] > 0
    ELSE Cardinality(Covering(n)) = 1
Resolved(n) ==
    IF CategoryAt(n) = "RACK" THEN RackPrice(n)
    ELSE IF daily[n] # Absent THEN daily[n]
    ELSE (CHOOSE b \in Covering(n) : TRUE).price

\* Rooms and restrictions aside, the search offers the agent the plan, active
\* as its master and its room type are.  It does not look at the master's kind.
Offered(stay) ==
    \A n \in Nights(stay) :
        /\ Cardinality(Assigned(Home, n)) = 1
        /\ day[n] # NoDay /\ CategoryMatches(n)

\* Mutant: the rate of the night is not looked at before the period's.
ListedByPeriod(n) ==
    IF ~canonical \/ day[n] = NoDay \/ Assigned(Home, n) = {} THEN Absent
    ELSE IF CategoryAt(n) = "RACK" THEN Or(day[n].double, BaseOf(day[n]))
    ELSE IF Cardinality(Covering(n)) = 1 THEN (CHOOSE b \in Covering(n) : TRUE).price ELSE Absent

\* The rate book takes canonical plans and resolves a night by itself; Absent
\* when it does not list it.
Listed(n) ==
    IF ~canonical \/ day[n] = NoDay \/ Assigned(Home, n) = {} THEN Absent
    ELSE IF CategoryAt(n) = "RACK" THEN Or(day[n].double, BaseOf(day[n]))
    ELSE IF daily[n] # Absent THEN daily[n]
    ELSE IF Cardinality(Covering(n)) = 1 THEN (CHOOSE b \in Covering(n) : TRUE).price ELSE Absent

-----------------------------------------------------------------------------
\* Shapes of the variables.
RateBookTypeOK ==
    /\ mapping \in [Row -> Mapping \cup {NoRow}]
    /\ \A m \in Rows : mapping[m].from <= mapping[m].to
    /\ canonical \in BOOLEAN
    /\ band \subseteq [from : Night, to : Night, price : BandPrice, active : BOOLEAN]
    /\ daily \in [Night -> BandPrice \cup {0, Absent}]
    /\ day \in [Night -> [amount : Price \cup {0, Absent}, base : Price \cup {0, Absent},
                          double : Price \cup {Absent}, override : Price \cup {Absent}]]
    /\ desk \in [Admin -> [row : Row, write : Mapping] \cup {NoRow}]
    /\ edits \in 0..MaxEdits

\* However assignments are created, moved, re-dated, reactivated and removed at
\* the same time, an agent never has two categories of a hotel on one night: a
\* quote would be refused for it (rate-master.service.ts:307, 347).
MappingsNeverOverlap ==
    \A h \in Hotel, n \in Night : Cardinality(Assigned(h, n)) <= 1

\* Two active periods of a plan never price the same night, whatever was
\* switched off and saved again in between (rate-master.service.ts:229-232).
BandsNeverOverlap == \A n \in Night : Cardinality(Covering(n)) <= 1

\* An agent's night has at most one category, and a category's night at most
\* one period to price it.
OnePriceANight == RateBookTypeOK /\ MappingsNeverOverlap /\ BandsNeverOverlap

\* Whatever the search offers an agent of a canonical plan is in the agent's
\* rate book, at the price the search quotes unless the public rate was
\* overridden by hand: two resolutions of the same rows, written separately
\* (rate-resolver.ts:42-125, rate-master.service.ts:420-450).
SearchedIsListed ==
    \A stay \in Period : Offered(stay) /\ canonical =>
        \A n \in Nights(stay) :
            /\ Listed(n) # Absent
            /\ CategoryAt(n) = "A" \/ day[n].override = Absent => Listed(n) = Resolved(n)

\* Not so, and checked by no run: whatever the search offers is in the rate
\* book.  The book takes plans of a CANONICAL_MEAL master with one of four meal
\* plans only (rate-master.service.ts:437), the search any active plan
\* (availability.service.ts:46).
OfferedIsListed == \A stay \in Period : Offered(stay) => \A n \in Nights(stay) : Listed(n) # Absent

\* Nights a public rate was saved for are sold at that rate, unless overridden
\* by hand, whoever wrote which part of the row before.
RackSavesTakeEffect ==
    [][\A p \in Period, x \in Price :
         (UpdateRack(p, x) \/ GridRack(p, x)) =>
           \A n \in Nights(p) : RackPrice(n)' = Or(day[n].override, x)]_vars
=============================================================================
