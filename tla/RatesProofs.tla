---------------------------- MODULE RatesProofs ----------------------------
(***************************************************************************)
(* Theorems about prices and plans: RateBook, for any number of hotels,    *)
(* assignments, administrators, nights and edits, and RatePlans, for any   *)
(* number of agents, plans and editors.                                    *)
(***************************************************************************)
EXTENDS RateBook, RatePlans, FiniteSetTheorems, TLAPS

-----------------------------------------------------------------------------
(***************************************************************************)
(* RateBook: the rack rates, slabs, imports and the search.                *)
(***************************************************************************)

\* Two assignments that are both active, of one hotel, share no day.
MappingsApart ==
    \A m, k \in Rows :
        /\ m # k /\ mapping[m].active /\ mapping[k].active
        /\ mapping[m].hotel = mapping[k].hotel
        => ~overlaps(Dates(mapping[m]), Dates(mapping[k]))

\* Two periods that are both active share no day.
BandsApart ==
    \A b, c \in band : b.active /\ c.active /\ b # c => ~overlaps(Dates(b), Dates(c))

\* What is about to be written has its dates in order.
WritesOrdered == \A a \in Admin : desk[a] # NoRow => desk[a].write.from <= desk[a].write.to

RateInv == RateBookTypeOK /\ MappingsApart /\ BandsApart /\ WritesOrdered

-----------------------------------------------------------------------------
\* No row is not a row, nor a request.
LEMMA NoRowIsNone ==
    /\ NoRow \notin Mapping
    /\ \A m \in Mapping, r \in Row : [row |-> r, write |-> m] # NoRow
    /\ \A q \in [row : Row, write : Mapping] : q # NoRow
<1>1. \A m \in Mapping : "hotel" \in DOMAIN m
  BY DEF Mapping
<1>2. "hotel" \notin DOMAIN NoRow /\ "row" \notin DOMAIN NoRow
  BY DEF NoRow
<1>3. \A q \in [row : Row, write : Mapping] : "row" \in DOMAIN q
  OBVIOUS
<1>4. \A m \in Mapping, r \in Row : [row |-> r, write |-> m] \in [row : Row, write : Mapping]
  OBVIOUS
<1> QED
  BY <1>1, <1>2, <1>3, <1>4
\* Constants in numbers.
LEMMA Amounts ==
    /\ Price \subseteq Nat \ {0} /\ BandPrice \subseteq Nat \ {0}
    /\ Absent \notin Price /\ Absent \notin BandPrice /\ 0 \notin Price
    /\ Night \subseteq Nat
    /\ \A p \in Period : Nights(p) \subseteq Night
BY RateBookAssumption DEF Absent, Night, Period, Nights

LEMMA InitRate == Init => RateInv
<1> SUFFICES ASSUME Init
             PROVE  RateInv
  OBVIOUS
<1>1. Rows = {}
  BY DEF Init, Rows
<1>2. /\ band \subseteq [from : Night, to : Night, price : BandPrice, active : BOOLEAN]
      /\ \A b, c \in band : b = c
  <2>1. 0 \in Night /\ MaxNight \in Night
    BY RateBookAssumption DEF Night
  <2>2. CASE band = {}
    BY <2>2
  <2>3. CASE band # {}
    <3>1. PICK x \in BandPrice :
            band = {[from |-> 0, to |-> MaxNight, price |-> x, active |-> TRUE]}
      BY <2>3 DEF Init
    <3>2. [from |-> 0, to |-> MaxNight, price |-> x, active |-> TRUE]
            \in [from : Night, to : Night, price : BandPrice, active : BOOLEAN]
      BY <2>1
    <3> QED
      BY <3>1, <3>2
  <2> QED
    BY <2>2, <2>3
<1>3. RateBookTypeOK
  BY <1>1, <1>2, RateBookAssumption DEF Init, RateBookTypeOK, NoDay, Absent
<1>4. BandsApart
  BY <1>2 DEF BandsApart
<1> QED
  BY <1>1, <1>3, <1>4 DEF Init, RateInv, MappingsApart, WritesOrdered

\* Steps that leave the assignments alone.
LEMMA MappingSame ==
    ASSUME mapping' = mapping, desk' = desk
    PROVE  /\ MappingsApart <=> MappingsApart'
           /\ WritesOrdered <=> WritesOrdered'
           /\ Rows' = Rows
BY DEF MappingsApart, WritesOrdered, Rows

\* An edit counts.
LEMMA EditCounts ==
    ASSUME RateBookTypeOK, Edit
    PROVE  edits' \in 0..MaxEdits
BY RateBookAssumption DEF RateBookTypeOK, Edit

-----------------------------------------------------------------------------
(***************************************************************************)
(* Assignments.                                                            *)
(***************************************************************************)

\* The row of a new assignment.
NewRow(h, p, c, b) == [hotel |-> h, from |-> p.from, to |-> p.to, category |-> c, active |-> b]

LEMMA NewRows ==
    ASSUME NEW h \in Hotel, NEW p \in Period, NEW c \in Category, NEW b \in BOOLEAN
    PROVE  /\ NewRow(h, p, c, b) \in Mapping
           /\ NewRow(h, p, c, b).hotel = h
           /\ NewRow(h, p, c, b).active = b
           /\ NewRow(h, p, c, b).from = p.from /\ NewRow(h, p, c, b).to = p.to
           /\ p.from <= p.to
BY DEF NewRow, Mapping, Period

LEMMA CreateKeeps ==
    ASSUME RateInv, NEW hotels \in SUBSET Hotel, NEW period \in Period,
           NEW category \in Category, NEW active \in BOOLEAN,
           CreateMappings(hotels, period, category, active)
    PROVE  RateInv'
<1>1. PICK row \in [hotels -> Row \ Rows] :
        /\ \A g, h \in hotels : g # h => row[g] # row[h]
        /\ mapping' = [m \in Row |->
              IF \E h \in hotels : row[h] = m
              THEN NewRow(CHOOSE h \in hotels : row[h] = m, period, category, active)
              ELSE mapping[m]]
  BY DEF CreateMappings, NewRow
<1> DEFINE New == {m \in Row : \E h \in hotels : row[h] = m}
<1>2. PICK at \in [New -> hotels] : \A m \in New :
        row[at[m]] = m /\ mapping'[m] = NewRow(at[m], period, category, active)
  <2> DEFINE f == [m \in New |-> CHOOSE h \in hotels : row[h] = m]
  <2>1. ASSUME NEW m \in New
        PROVE  f[m] \in hotels /\ row[f[m]] = m
    <3>1. \E h \in hotels : row[h] = m
      OBVIOUS
    <3> QED
      BY <3>1
  <2>2. f \in [New -> hotels]
    BY <2>1
  <2>3. ASSUME NEW m \in New
        PROVE  mapping'[m] = NewRow(f[m], period, category, active)
    BY <1>1
  <2> QED
    BY <2>1, <2>2, <2>3
<1>3. \A m \in New : m \in Row \ Rows
  BY <1>2
<1>4. \A m \in Row \ New : mapping'[m] = mapping[m]
  BY <1>1
<1> HIDE DEF New
<1>5. ASSUME NEW m \in New
      PROVE  /\ mapping'[m] \in Mapping /\ at[m] \in hotels /\ row[at[m]] = m
             /\ mapping'[m].hotel = at[m] /\ mapping'[m].active = active
             /\ mapping'[m].from = period.from /\ mapping'[m].to = period.to
             /\ mapping'[m].from <= mapping'[m].to
  <2>1. at[m] \in hotels /\ row[at[m]] = m /\ mapping'[m] = NewRow(at[m], period, category, active)
    BY <1>2
  <2>2. at[m] \in Hotel
    BY <2>1
  <2> QED
    BY <2>1, <2>2, NewRows
<1>7. Rows' = Rows \cup New
  BY <1>3, <1>4, <1>5, NoRowIsNone DEF Rows
<1>8. UNCHANGED <<canonical, band, daily, day, desk>> /\ Edit
  BY DEF CreateMappings
<1>9. RateBookTypeOK'
  <2>1. mapping' \in [Row -> Mapping \cup {NoRow}]
    <3>1. \A m \in Row : mapping'[m] \in Mapping \cup {NoRow}
      BY <1>4, <1>5 DEF RateInv, RateBookTypeOK
    <3>2. mapping' = [m \in Row |-> mapping'[m]]
      BY <1>1
    <3> QED
      BY <3>1, <3>2
  <2>2. ASSUME NEW m \in Rows'
        PROVE  mapping'[m].from <= mapping'[m].to
    <3>1. CASE m \in New
      BY <3>1, <1>5
    <3>2. CASE m \notin New
      BY <3>2, <1>4, <1>7 DEF RateInv, RateBookTypeOK, Rows
    <3> QED
      BY <3>1, <3>2
  <2> QED
    BY <2>1, <2>2, <1>8, EditCounts DEF RateInv, RateBookTypeOK
<1>10. MappingsApart'
  <2> SUFFICES ASSUME NEW m \in Rows', NEW k \in Rows', m # k,
                      mapping'[m].active, mapping'[k].active, mapping'[m].hotel = mapping'[k].hotel
               PROVE  ~overlaps(Dates(mapping'[m]), Dates(mapping'[k]))
    BY DEF MappingsApart
  <2>1. CASE m \in New /\ k \in New
    BY <2>1, <1>5
  <2>2. \A h \in hotels : active => Clear(h, period, {})
    BY DEF CreateMappings
  <2>3. ASSUME NEW q \in New, NEW r \in Rows \ New, mapping'[q].active, mapping'[r].active,
               mapping'[q].hotel = mapping'[r].hotel
        PROVE  ~overlaps(Dates(mapping'[r]), period)
    <3>1. mapping'[r] = mapping[r]
      BY <1>4 DEF Rows
    <3>2. Clear(at[q], period, {})
      BY <2>2, <2>3, <1>5
    <3>3. mapping[r].hotel = at[q] /\ mapping[r].active
      BY <2>3, <3>1, <1>5
    <3> QED
      BY <3>1, <3>2, <3>3 DEF Clear
  <2>4. ASSUME NEW q \in New
        PROVE  Dates(mapping'[q]).from = period.from /\ Dates(mapping'[q]).to = period.to
    BY <1>5 DEF Dates
  <2>5. CASE m \in New /\ k \notin New
    <3>1. ~overlaps(Dates(mapping'[k]), period)
      BY <2>3, <2>5, <1>7
    <3> QED
      BY <3>1, <2>4, <2>5 DEF overlaps
  <2>6. CASE m \notin New /\ k \in New
    <3>1. ~overlaps(Dates(mapping'[m]), period)
      BY <2>3, <2>6, <1>7
    <3> QED
      BY <3>1, <2>4, <2>6 DEF overlaps
  <2>7. CASE m \notin New /\ k \notin New
    BY <2>7, <1>4, <1>7 DEF RateInv, MappingsApart, Rows
  <2> QED
    BY <2>1, <2>5, <2>6, <2>7
<1>11. BandsApart' /\ WritesOrdered'
  BY <1>8 DEF RateInv, BandsApart, WritesOrdered
<1> QED
  BY <1>9, <1>10, <1>11 DEF RateInv

LEMMA ReadKeeps ==
    ASSUME RateInv, NEW a \in Admin, NEW m \in Row, ReadMapping(a, m)
    PROVE  RateInv'
<1>1. PICK r \in Patched(mapping[m]) : desk' = [desk EXCEPT ![a] = [row |-> m, write |-> r]]
  BY DEF ReadMapping
<1>2. m \in Rows /\ Edit /\ UNCHANGED <<mapping, canonical, band, daily, day>>
  BY DEF ReadMapping
<1>3. mapping[m] \in Mapping /\ mapping[m].from <= mapping[m].to
  BY <1>2 DEF RateInv, RateBookTypeOK, Rows
<1>4. r \in Mapping /\ r.from <= r.to
  BY <1>1, <1>3 DEF Patched, PatchedWith, Mapping, Period, Category
<1>5. desk' \in [Admin -> [row : Row, write : Mapping] \cup {NoRow}]
  BY <1>1, <1>4 DEF RateInv, RateBookTypeOK
<1>6. WritesOrdered'
  BY <1>1, <1>4 DEF RateInv, RateBookTypeOK, WritesOrdered
<1> QED
  BY <1>2, <1>5, <1>6, EditCounts DEF RateInv, RateBookTypeOK, MappingsApart, BandsApart, Rows

\* A row is written that keeps clear of the others of its hotel.
LEMMA WriteKeeps ==
    ASSUME RateInv, NEW m \in Row, NEW r \in Mapping, r.from <= r.to,
           r.active => Clear(r.hotel, Dates(r), {m}),
           mapping' = [mapping EXCEPT ![m] = r]
    PROVE  /\ mapping' \in [Row -> Mapping \cup {NoRow}]
           /\ \A k \in Rows' : mapping'[k].from <= mapping'[k].to
           /\ MappingsApart'
<1>1. mapping \in [Row -> Mapping \cup {NoRow}] /\ \A k \in Rows : mapping[k].from <= mapping[k].to
  BY DEF RateInv, RateBookTypeOK
<1>2. Rows' = Rows \cup {m}
  BY <1>1, NoRowIsNone DEF Rows
<1>3. \A k \in Rows' : k # m => k \in Rows /\ mapping'[k] = mapping[k]
  BY <1>1, <1>2 DEF Rows
<1>4. mapping'[m] = r
  BY <1>1
<1>5. MappingsApart'
  <2> SUFFICES ASSUME NEW j \in Rows', NEW k \in Rows', j # k,
                      mapping'[j].active, mapping'[k].active, mapping'[j].hotel = mapping'[k].hotel
               PROVE  ~overlaps(Dates(mapping'[j]), Dates(mapping'[k]))
    BY DEF MappingsApart
  <2>1. CASE j = m
    BY <2>1, <1>3, <1>4 DEF Clear, overlaps
  <2>2. CASE k = m
    BY <2>2, <1>3, <1>4 DEF Clear, overlaps
  <2>3. CASE j # m /\ k # m
    BY <2>3, <1>3 DEF RateInv, MappingsApart
  <2> QED
    BY <2>1, <2>2, <2>3
<1> QED
  BY <1>1, <1>2, <1>3, <1>4, <1>5

LEMMA UpdateKeeps ==
    ASSUME RateInv, NEW a \in Admin, updateMapping(a)
    PROVE  RateInv'
<1> DEFINE m == desk[a].row
           r == desk[a].write
<1>1. desk[a] \in [row : Row, write : Mapping] /\ r.from <= r.to
  BY DEF updateMapping, RateInv, RateBookTypeOK, WritesOrdered
<1>2. m \in Row /\ r \in Mapping
  BY <1>1
<1>3. UNCHANGED <<canonical, band, daily, day, edits>> /\ desk' = [desk EXCEPT ![a] = NoRow]
  BY DEF updateMapping
<1>4. \/ mapping' = mapping
      \/ mapping' = [mapping EXCEPT ![m] = r] /\ (r.active => Clear(r.hotel, Dates(r), {m}))
  BY DEF updateMapping
<1>5. desk' \in [Admin -> [row : Row, write : Mapping] \cup {NoRow}] /\ WritesOrdered'
  BY <1>3 DEF RateInv, RateBookTypeOK, WritesOrdered
<1> HIDE DEF m, r
<1>6. /\ mapping' \in [Row -> Mapping \cup {NoRow}]
      /\ \A k \in Rows' : mapping'[k].from <= mapping'[k].to
      /\ MappingsApart'
  <2>1. CASE mapping' = mapping
    BY <2>1 DEF RateInv, RateBookTypeOK, MappingsApart, Rows
  <2>2. CASE mapping' # mapping
    BY <2>2, <1>1, <1>2, <1>4, WriteKeeps
  <2> QED
    BY <2>1, <2>2
<1> QED
  BY <1>3, <1>5, <1>6 DEF RateInv, RateBookTypeOK, BandsApart

LEMMA RemoveKeeps ==
    ASSUME RateInv, NEW m \in Row, removeMapping(m)
    PROVE  RateInv'
<1>1. mapping[m] \in Mapping /\ mapping[m].from <= mapping[m].to
  BY DEF removeMapping, RateInv, RateBookTypeOK, Rows
<1> DEFINE r == [mapping[m] EXCEPT !.active = FALSE]
<1>2. r \in Mapping /\ r.from <= r.to /\ ~r.active
  BY <1>1 DEF Mapping
<1>3. mapping' = [mapping EXCEPT ![m] = r]
  BY DEF removeMapping
<1> HIDE DEF r
<1>4. /\ mapping' \in [Row -> Mapping \cup {NoRow}]
      /\ \A k \in Rows' : mapping'[k].from <= mapping'[k].to
      /\ MappingsApart'
  BY <1>2, <1>3, WriteKeeps
<1> QED
  BY <1>4, EditCounts DEF removeMapping, RateInv, RateBookTypeOK, BandsApart, WritesOrdered
-----------------------------------------------------------------------------
(***************************************************************************)
(* Periods and nightly rates.                                              *)
(***************************************************************************)

LEMMA BandKeeps ==
    ASSUME RateInv, NEW period \in Period, NEW price \in BandPrice, NEW active \in BOOLEAN,
           UpdateBand(period, price, active)
    PROVE  RateInv'
<1> DEFINE new == [from |-> period.from, to |-> period.to, price |-> price, active |-> active]
<1>1. new \in [from : Night, to : Night, price : BandPrice, active : BOOLEAN]
  BY DEF Period
<1>2. Dates(new) = period
  BY DEF Dates, Period
<1>3. band' = {b \in band : Dates(b) # period} \cup {new}
  BY DEF UpdateBand
<1> HIDE DEF new
<1>4. RateBookTypeOK'
  BY <1>1, <1>3, EditCounts DEF UpdateBand, RateInv, RateBookTypeOK, Rows
<1>5. BandsApart'
  <2> SUFFICES ASSUME NEW b \in band', NEW c \in band', b.active, c.active, b # c
               PROVE  ~overlaps(Dates(b), Dates(c))
    BY DEF BandsApart
  <2>1. \A d \in band' : d # new => d \in band /\ Dates(d) # period
    BY <1>3
  <2>2. \A d \in band' : d # new /\ d.active => ~overlaps(Dates(d), period)
    BY <2>1 DEF UpdateBand
  <2>3. \A d \in band' : d # new /\ d.active => ~overlaps(period, Dates(d))
    BY <2>2 DEF overlaps
  <2>4. CASE b = new
    BY <2>3, <2>4, <1>2
  <2>5. CASE c = new
    BY <2>2, <2>5, <1>2
  <2>6. CASE b # new /\ c # new
    BY <2>1, <2>6 DEF RateInv, BandsApart
  <2> QED
    BY <2>4, <2>5, <2>6
<1> QED
  BY <1>4, <1>5, MappingSame DEF RateInv, UpdateBand

\* The amounts of a night's public row.
DayRow == [amount : Price \cup {0, Absent}, base : Price \cup {0, Absent},
           double : Price \cup {Absent}, override : Price \cup {Absent}]

LEMMA DayRows ==
    ASSUME NEW d \in DayRow
    PROVE  /\ BaseOf(d) \in Price \cup {0, Absent}
           /\ [d EXCEPT !.base = BaseOf(d)] \in DayRow
<1>1. BaseOf(d) \in Price \cup {0, Absent}
  BY DEF DayRow, BaseOf, Or
<1>2. [d EXCEPT !.base = BaseOf(d)] \in DayRow
  BY <1>1 DEF DayRow
<1> QED
  BY <1>1, <1>2

LEMMA DayWrites ==
    ASSUME NEW d \in DayRow, NEW x \in Price
    PROVE  WithDouble(d, x) \in DayRow /\ [d EXCEPT !.amount = x] \in DayRow
<1>1. WithDouble(d, x) \in DayRow
  BY DEF DayRow, WithDouble
<1>2. [d EXCEPT !.amount = x] \in DayRow
  BY DEF DayRow
<1> QED
  BY <1>1, <1>2

LEMMA FreshDay == NoDay \in DayRow /\ [NoDay EXCEPT !.amount = 0, !.base = 0] \in DayRow
<1>1. NoDay \in DayRow
  BY DEF NoDay, DayRow
<1>2. ASSUME NEW d \in DayRow
      PROVE  [d EXCEPT !.amount = 0, !.base = 0] \in DayRow
  BY DEF DayRow
<1> QED
  BY Zenon, <1>1, <1>2

\* The rows an edit may leave behind.
LEMMA DaysKept ==
    ASSUME RateInv, Edit, UNCHANGED <<mapping, canonical, band, daily, desk>>,
           day' \in [Night -> DayRow]
    PROVE  RateInv'
BY EditCounts, MappingSame DEF RateInv, RateBookTypeOK, BandsApart, DayRow

LEMMA RackKeeps ==
    ASSUME RateInv, NEW period \in Period, NEW x \in Price \cup {Absent},
           UpdateRack(period, x) \/ GridRack(period, x)
    PROVE  RateInv'
<1>1. day \in [Night -> DayRow]
  BY DEF RateInv, RateBookTypeOK, DayRow
<1>2. x # Absent => x \in Price
  OBVIOUS
<1>3. CASE UpdateRack(period, x)
  <2>1. ASSUME NEW n \in Night
        PROVE  (IF n \notin Nights(period) THEN day[n]
                ELSE IF x # Absent THEN WithDouble(day[n], x)
                ELSE [day[n] EXCEPT !.base = BaseOf(day[n])]) \in DayRow
    <3> DEFINE d == day[n]
    <3>1. d \in DayRow
      BY <1>1
    <3> HIDE DEF d
    <3>2. [d EXCEPT !.base = BaseOf(d)] \in DayRow
      BY <3>1, DayRows
    <3>3. x # Absent => WithDouble(d, x) \in DayRow
      BY <3>1, <1>2, DayWrites
    <3>4. (IF n \notin Nights(period) THEN d
           ELSE IF x # Absent THEN WithDouble(d, x)
           ELSE [d EXCEPT !.base = BaseOf(d)]) \in DayRow
      BY <3>1, <3>2, <3>3
    <3> QED
      BY <3>4 DEF d
  <2>2. day' \in [Night -> DayRow]
    BY <1>3, <2>1 DEF UpdateRack
  <2> QED
    BY <1>3, <2>2, DaysKept DEF UpdateRack
<1>4. CASE GridRack(period, x)
  <2>1. ASSUME NEW n \in Night
        PROVE  (IF n \notin Nights(period) THEN day[n]
                ELSE IF x # Absent THEN WithDouble(day[n], x)
                ELSE IF day[n] = NoDay THEN [NoDay EXCEPT !.amount = 0, !.base = 0] ELSE day[n])
                  \in DayRow
    BY <1>1, <1>2, DayWrites, FreshDay
  <2>2. day' \in [Night -> DayRow]
    BY <1>4, <2>1 DEF GridRack
  <2> QED
    BY <1>4, <2>2, DaysKept DEF GridRack
<1> QED
  BY <1>3, <1>4

LEMMA GridCategoryKeeps ==
    ASSUME RateInv, NEW period \in Period, NEW x \in BandPrice \cup {Absent}, GridCategory(period, x)
    PROVE  RateInv'
<1>1. \A n \in Night :
        (IF n \notin Nights(period) THEN daily[n] ELSE Or(x, Or(daily[n], 0)))
          \in BandPrice \cup {0, Absent}
  BY DEF RateInv, RateBookTypeOK, Or
<1>2. daily' \in [Night -> BandPrice \cup {0, Absent}]
  BY <1>1 DEF GridCategory
<1> QED
  BY <1>2, EditCounts, MappingSame DEF GridCategory, RateInv, RateBookTypeOK, BandsApart

LEMMA ChannelKeeps ==
    ASSUME RateInv, NEW n \in Night, NEW x \in Price, ChannelRate(n, x)
    PROVE  RateInv'
<1>1. day \in [Night -> DayRow]
  BY DEF RateInv, RateBookTypeOK, DayRow
<1>2. [day[n] EXCEPT !.amount = x] \in DayRow
  BY <1>1, DayWrites
<1>3. day' \in [Night -> DayRow]
  BY <1>1, <1>2 DEF ChannelRate
<1> QED
  BY <1>3, DaysKept DEF ChannelRate

LEMMA ImportKeeps ==
    ASSUME RateInv, NEW n \in Night, NEW x \in Price, NEW d \in Price, importRatePlanRates(n, x, d)
    PROVE  RateInv'
<1>1. day \in [Night -> DayRow]
  BY DEF RateInv, RateBookTypeOK, DayRow
<1>2. [day[n] EXCEPT !.amount = x, !.double = d] \in DayRow
  <2>1. ASSUME NEW r \in DayRow
        PROVE  [r EXCEPT !.amount = x, !.double = d] \in DayRow
    BY DEF DayRow
  <2> QED
    BY <1>1, <2>1
<1>3. day' = [day EXCEPT ![n] = [day[n] EXCEPT !.amount = x, !.double = d]]
  BY <1>1 DEF importRatePlanRates
<1>4. day' \in [Night -> DayRow]
  BY <1>1, <1>2, <1>3
<1> QED
  BY <1>4, DaysKept DEF importRatePlanRates

LEMMA PricebookKeeps ==
    ASSUME RateInv, NEW period \in Period, NEW x \in Price \cup {Absent},
           NEW o \in Price \cup {Absent, Keep}, NEW d \in Price \cup {Absent, Keep},
           SavePricebook(period, x, o, d)
    PROVE  RateInv'
<1> DEFINE Kept(new, old) == IF new = Keep THEN old ELSE new
           saved(r) == [amount |-> IF o \in {Keep, Absent} THEN Or(x, r.amount) ELSE o,
                        base |-> Or(x, r.base),
                        double |-> Kept(d, r.double), override |-> Kept(o, r.override)]
<1>1. day \in [Night -> DayRow]
  BY DEF RateInv, RateBookTypeOK, DayRow
<1>2. day' = [n \in Night |-> IF n \in Nights(period) THEN saved(day[n]) ELSE day[n]]
  BY Zenon DEF SavePricebook
<1>3. Edit /\ UNCHANGED <<mapping, canonical, band, daily, desk>>
  BY Zenon DEF SavePricebook
<1>4. ASSUME NEW r \in DayRow
      PROVE  saved(r) \in DayRow
  BY DEF DayRow, Or
<1> HIDE DEF saved
<1>5. day' \in [Night -> DayRow]
  BY <1>1, <1>2, <1>4
<1> QED
  BY <1>3, <1>5, DaysKept

\* The plan's master changes, and no rate of it.
LEMMA MealPlanKeeps ==
    ASSUME RateInv, EditMealPlan
    PROVE  RateInv'
BY EditCounts, MappingSame DEF EditMealPlan, RateInv, RateBookTypeOK, BandsApart

LEMMA BulkKeeps ==
    ASSUME RateInv, NEW period \in Period, NEW x \in Price,
           NEW action \in {"SET_RATE", "PERCENT", "OTHER", "REMOVE_OVERRIDE"},
           BulkRates(period, action, x)
    PROVE  RateInv'
<1> DEFINE preview(d) ==
             [d EXCEPT !.base = IF action = "SET_RATE" THEN x ELSE BaseOf(d),
                       !.override = CASE action = "PERCENT" -> x
                                      [] action = "OTHER" -> @
                                      [] OTHER -> Absent]
           result(d) == LET p == preview(d) IN [p EXCEPT !.amount = Or(p.override, p.base)]
<1>1. day \in [Night -> DayRow]
  BY DEF RateInv, RateBookTypeOK, DayRow
<1>2. day' = [n \in Night |->
         IF n \in Nights(period) /\ (action = "SET_RATE" \/ day[n] # NoDay)
         THEN result(day[n]) ELSE day[n]]
  BY Zenon DEF BulkRates
<1>3. Edit /\ UNCHANGED <<mapping, canonical, band, daily, desk>>
  BY Zenon DEF BulkRates
<1>4. ASSUME NEW d \in DayRow
      PROVE  result(d) \in DayRow
  <2> DEFINE base == IF action = "SET_RATE" THEN x ELSE BaseOf(d)
             over == CASE action = "PERCENT" -> x
                       [] action = "OTHER" -> d.override
                       [] OTHER -> Absent
             made == [d EXCEPT !.base = base, !.override = over]
  <2>1. BaseOf(d) \in Price \cup {0, Absent} /\ d.override \in Price \cup {Absent}
    BY DayRows DEF DayRow
  <2>2. base \in Price \cup {0, Absent}
    BY <2>1
  <2>3. over \in Price \cup {Absent}
    BY <2>1
  <2>4. preview(d) = made
    OBVIOUS
  <2> HIDE DEF base, over, preview
  <2>5. made \in DayRow /\ made.base = base /\ made.override = over
    BY <2>2, <2>3 DEF DayRow
  <2> HIDE DEF made
  <2>6. Or(made.override, made.base) \in Price \cup {0, Absent}
    BY <2>2, <2>3, <2>5 DEF Or
  <2>7. [made EXCEPT !.amount = Or(made.override, made.base)] \in DayRow
    BY <2>5, <2>6 DEF DayRow
  <2> QED
    BY <2>4, <2>7
<1> HIDE DEF result
<1>5. day' \in [Night -> DayRow]
  BY <1>1, <1>2, <1>4
<1> QED
  BY <1>3, <1>5, DaysKept

-----------------------------------------------------------------------------
LEMMA StepRate == ASSUME RateInv, [Next]_vars PROVE RateInv'
<1>1. CASE \E hotels \in SUBSET Hotel \ {{}}, p \in Period, c \in Category, b \in BOOLEAN :
             CreateMappings(hotels, p, c, b)
  BY <1>1, CreateKeeps
<1>2. CASE \E a \in Admin, m \in Row : ReadMapping(a, m)
  BY <1>2, ReadKeeps
<1>3. CASE \E a \in Admin : updateMapping(a)
  BY <1>3, UpdateKeeps
<1>4. CASE \E m \in Row : removeMapping(m)
  BY <1>4, RemoveKeeps
<1>5. CASE \E p \in Period, x \in BandPrice, b \in BOOLEAN : UpdateBand(p, x, b)
  BY <1>5, BandKeeps
<1>6. CASE \E p \in Period, x \in Price \cup {Absent} :
             UpdateRack(p, x) \/ GridRack(p, x)
  BY <1>6, RackKeeps
<1>7. CASE \E p \in Period, x \in BandPrice \cup {Absent} : GridCategory(p, x)
  BY <1>7, GridCategoryKeeps
<1>8. CASE \E p \in Period, x \in Price, act \in {"SET_RATE", "PERCENT", "OTHER", "REMOVE_OVERRIDE"} :
             BulkRates(p, act, x)
  BY <1>8, BulkKeeps
<1>9. CASE \E n \in Night, x \in Price :
             ChannelRate(n, x) \/ \E d \in Price : importRatePlanRates(n, x, d)
  BY <1>9, ChannelKeeps, ImportKeeps
<1>10. CASE \E p \in Period, x \in Price \cup {Absent}, o, d \in Price \cup {Absent, Keep} :
              SavePricebook(p, x, o, d)
  BY <1>10, PricebookKeeps
<1>11. CASE EditMealPlan
  BY <1>11, MealPlanKeeps
<1>12. CASE UNCHANGED vars
  BY <1>12 DEF vars, RateInv, RateBookTypeOK, MappingsApart, BandsApart, WritesOrdered, Rows
<1> QED
  BY <1>1, <1>2, <1>3, <1>4, <1>5, <1>6, <1>7, <1>8, <1>9, <1>10, <1>11, <1>12 DEF Next

\* The assignments and the periods that are active stay apart, and every row
\* has the shape its writers give it.
THEOREM RatesStayApart == Spec => []RateInv
<1>1. Init => RateInv
  BY InitRate
<1>2. RateInv /\ [Next]_vars => RateInv'
  BY StepRate
<1> QED
  BY <1>1, <1>2, PTL DEF Spec
-----------------------------------------------------------------------------
(***************************************************************************)
(* One price a night.                                                      *)
(***************************************************************************)

\* A set whose members are all equal has at most one.
LEMMA AtMostOne ==
    ASSUME NEW S, \A x, y \in S : x = y
    PROVE  IsFiniteSet(S) /\ Cardinality(S) <= 1
<1>1. CASE S = {}
  BY <1>1, FS_EmptySet
<1>2. CASE S # {}
  <2>1. PICK x \in S : S = {x}
    BY <1>2
  <2>2. IsFiniteSet({x}) /\ Cardinality({x}) = 1
    BY FS_Singleton
  <2> QED
    BY <2>1, <2>2
<1> QED
  BY <1>1, <1>2

LEMMA OneAssignment ==
    ASSUME RateInv, NEW h \in Hotel, NEW n \in Night
    PROVE  Cardinality(Assigned(h, n)) <= 1
<1>1. ASSUME NEW m \in Assigned(h, n), NEW k \in Assigned(h, n)
      PROVE  m = k
  <2>1. /\ m \in Rows /\ mapping[m].active /\ mapping[m].hotel = h
        /\ k \in Rows /\ mapping[k].active /\ mapping[k].hotel = h
        /\ n \in Nights(Dates(mapping[m])) /\ n \in Nights(Dates(mapping[k]))
    BY DEF Assigned
  <2>2. mapping[m] \in Mapping /\ mapping[k] \in Mapping
    BY <2>1 DEF RateInv, RateBookTypeOK, Rows
  <2>3. overlaps(Dates(mapping[m]), Dates(mapping[k]))
    BY <2>1, <2>2 DEF overlaps, Nights, Dates, Mapping, Night
  <2> QED
    BY <2>1, <2>3 DEF RateInv, MappingsApart
<1> QED
  BY <1>1, AtMostOne

LEMMA OneBand ==
    ASSUME RateInv, NEW n \in Night
    PROVE  Cardinality(Covering(n)) <= 1
<1>1. ASSUME NEW b \in Covering(n), NEW c \in Covering(n)
      PROVE  b = c
  <2>1. b \in band /\ b.active /\ n \in b.from..b.to /\ c \in band /\ c.active /\ n \in c.from..c.to
    BY DEF Covering, Nights
  <2>2. b.from \in Int /\ b.to \in Int /\ c.from \in Int /\ c.to \in Int
    BY <2>1, RateBookAssumption DEF RateInv, RateBookTypeOK, Night
  <2>3. overlaps(Dates(b), Dates(c))
    BY <2>1, <2>2 DEF overlaps, Dates
  <2> QED
    BY <2>1, <2>3 DEF RateInv, BandsApart
<1> QED
  BY <1>1, AtMostOne

\* However assignments are created, moved, re-dated, reactivated and removed at
\* the same time, an agent never has two categories of a hotel on one night,
\* and a category's night never two periods to price it
\* (rate-master.service.ts:229-232, 307, 347).
THEOREM OnePrice == Spec => []OnePriceANight
<1>1. RateInv => OnePriceANight
  BY OneAssignment, OneBand DEF OnePriceANight, MappingsNeverOverlap, BandsNeverOverlap, RateInv
<1> QED
  BY <1>1, RatesStayApart, PTL

-----------------------------------------------------------------------------
\* The one period of a night has a price.
LEMMA PricedByPeriod ==
    ASSUME RateInv, NEW n \in Night, Cardinality(Covering(n)) = 1
    PROVE  (CHOOSE b \in Covering(n) : TRUE).price \in BandPrice
<1>1. Covering(n) # {}
  BY FS_EmptySet
<1>2. (CHOOSE b \in Covering(n) : TRUE) \in band
  BY <1>1 DEF Covering
<1> QED
  BY <1>2 DEF RateInv, RateBookTypeOK

\* A night that is offered of a canonical plan is listed.
LEMMA OfferedNightListed ==
    ASSUME RateInv, canonical, NEW n \in Night, Cardinality(Assigned(Home, n)) = 1,
           day[n] # NoDay, CategoryMatches(n)
    PROVE  /\ Listed(n) # Absent
           /\ CategoryAt(n) = "A" \/ day[n].override = Absent => Listed(n) = Resolved(n)
<1>1. Assigned(Home, n) # {}
  BY FS_EmptySet
<1>2. daily[n] \in BandPrice \cup {0, Absent}
  BY DEF RateInv, RateBookTypeOK
<1>3. CASE CategoryAt(n) = "RACK"
  <2>1. Listed(n) = Or(day[n].double, BaseOf(day[n])) /\ Listed(n) > 0
    BY <1>1, <1>3 DEF Listed, CategoryMatches
  <2>2. Listed(n) # Absent
    BY <2>1 DEF Absent
  <2>3. Resolved(n) = RackPrice(n)
    BY <1>3 DEF Resolved
  <2> QED
    BY <2>1, <2>2, <2>3, <1>3 DEF RackPrice
<1>4. CASE CategoryAt(n) # "RACK"
  <2>1. CASE daily[n] # Absent
    BY <1>1, <1>4, <2>1 DEF Listed, Resolved
  <2>2. CASE daily[n] = Absent
    <3>1. Cardinality(Covering(n)) = 1
      BY <1>4, <2>2 DEF CategoryMatches
    <3>2. Listed(n) = (CHOOSE b \in Covering(n) : TRUE).price /\ Listed(n) = Resolved(n)
      BY <1>1, <1>4, <2>2, <3>1 DEF Listed, Resolved
    <3>3. Listed(n) \in BandPrice
      BY <3>1, <3>2, PricedByPeriod
    <3> QED
      BY <3>2, <3>3, Amounts
  <2> QED
    BY <2>1, <2>2
<1> QED
  BY <1>3, <1>4

\* What the search offers an agent of a canonical plan is in the agent's rate
\* book, at the price the search quotes unless the public rate was overridden by hand
\* (rate-resolver.ts:42-125, rate-master.service.ts:420-450).
THEOREM SearchedAndListed == Spec => []SearchedIsListed
<1>1. RateInv => SearchedIsListed
  <2> SUFFICES ASSUME RateInv, NEW stay \in Period, Offered(stay), canonical, NEW n \in Nights(stay)
               PROVE  /\ Listed(n) # Absent
                      /\ CategoryAt(n) = "A" \/ day[n].override = Absent => Listed(n) = Resolved(n)
    BY DEF SearchedIsListed
  <2>1. n \in Night
    BY Amounts
  <2>2. Cardinality(Assigned(Home, n)) = 1 /\ day[n] # NoDay /\ CategoryMatches(n)
    BY DEF Offered
  <2> QED
    BY <2>1, <2>2, OfferedNightListed
<1> QED
  BY <1>1, RatesStayApart, PTL

\* A night a public rate was saved for is sold at that rate, unless overridden
\* by hand (rate-master.service.ts:244-300).
LEMMA RackSaved ==
    ASSUME RateInv, NEW p \in Period, NEW x \in Price, UpdateRack(p, x) \/ GridRack(p, x),
           NEW n \in Nights(p)
    PROVE  RackPrice(n)' = Or(day[n].override, x)
<1> DEFINE d == day[n]
<1>1. n \in Night /\ x # Absent /\ x \in Nat
  BY Amounts
<1>2. d \in DayRow
  BY <1>1 DEF RateInv, RateBookTypeOK, DayRow
<1>3. day'[n] = WithDouble(d, x)
  <2>1. CASE UpdateRack(p, x)
    BY <2>1, <1>1 DEF UpdateRack
  <2>2. CASE GridRack(p, x)
    BY <2>2, <1>1 DEF GridRack
  <2> QED
    BY <2>1, <2>2
<1> HIDE DEF d
<1>4. WithDouble(d, x).override = d.override /\ WithDouble(d, x).double = x
  BY <1>2 DEF WithDouble, DayRow
<1>5. RackPrice(n)' = Or(d.override, x)
  BY <1>1, <1>3, <1>4 DEF RackPrice, Or
<1> QED
  BY <1>5 DEF d

\* A saved public rate takes effect whoever wrote which part of the row before.
THEOREM SavesTakeEffect == Spec => RackSavesTakeEffect
<1> DEFINE Kept == \A p \in Period, x \in Price :
                     (UpdateRack(p, x) \/ GridRack(p, x)) =>
                       \A n \in Nights(p) : RackPrice(n)' = Or(day[n].override, x)
<1>1. RateInv => Kept
  BY RackSaved
<1> QED
  BY <1>1, RatesStayApart, PTL DEF RackSavesTakeEffect

-----------------------------------------------------------------------------
(***************************************************************************)
(* RatePlans: the master, its assignments and the agents.                  *)
(***************************************************************************)

\* A plan, and its assignment to a room type.
MasterRow == [code : Code, active : BOOLEAN]
PlanRow == [code : Code, active : BOOLEAN, priced : BOOLEAN]

\* What an editor may have under way.
PlanRequest ==
    {NoTask}
      \cup [op : {"master"}, master : Master, code : Code, states : SUBSET BOOLEAN]
      \cup [op : {"assign"}, plan : Pair, code : Code, active : BOOLEAN, exists : BOOLEAN,
            granting : BOOLEAN, agents : SUBSET Agent]
      \cup [op : {"delete"}, plan : Pair]
      \cup [op : {"agent"}, agent : Agent, master : SUBSET Master, take : SUBSET Pair,
            found : BOOLEAN, drop : SUBSET Pair, seen : SUBSET Pair]

\* The assignments that are there, or may be made.
Grantable == {p \in Pair : p \in Plans \/ (plan[p] = Nothing /\ MasterOf(p) \in Masters)}

\* An assignment that is about to be given to its agents is active and may be
\* made, and an agent is given assignments of one plan, all others being switched off.
TaskOK(t, grantable) ==
    /\ t \in PlanRequest
    /\ t.op = "assign" /\ t.granting => t.active /\ t.plan \in grantable
    /\ t.op = "agent" =>
         /\ \A p, q \in t.take : MasterOf(p) = MasterOf(q)
         /\ \A m \in t.master : t.take # {} /\ \A p \in t.take : MasterOf(p) = m
         /\ t.found => t.drop = {p \in t.seen : p \notin t.take /\ MasterOf(p) \notin t.master}
Tasks == task \in [Editor -> PlanRequest] /\ \A e \in Editor : TaskOK(task[e], Grantable)

PlanTypes ==
    /\ master \in [Master -> {Nothing, Removed} \cup MasterRow]
    /\ plan \in [Pair -> {Nothing, Removed} \cup PlanRow]
    /\ access \in [Agent -> [Pair -> {"none", "on", "off"}]]
    /\ sold \subseteq RoomType
    /\ asked \in 0..MaxAsked

\* An assignment has its plan, and an agent books by assignments.
PlansHaveMasters == \A p \in Plans : MasterOf(p) \in Masters
AccessToPlans == \A g \in Agent : On(g) \subseteq Plans
OnePlanOn == \A g \in Agent \ crossed : \A p, q \in On(g) : MasterOf(p) = MasterOf(q)

PlansInv ==
    /\ PlanTypes /\ Tasks
    /\ PlansHaveMasters /\ AccessToPlans
    /\ OnePlanOn /\ WholePlans
    /\ CodesFollowTheMaster

-----------------------------------------------------------------------------
\* The room type and the plan of an assignment.
LEMMA PairFacts ==
    /\ \A p \in Pair : RoomOf(p) \in RoomType /\ MasterOf(p) \in Master /\ p = <<RoomOf(p), MasterOf(p)>>
    /\ \A r \in RoomType, m \in Master :
         <<r, m>> \in Pair /\ RoomOf(<<r, m>>) = r /\ MasterOf(<<r, m>>) = m
BY DEF Pair, RoomOf, MasterOf

\* What was never made or is removed is no row.
LEMMA RowsApart ==
    /\ Nothing # Removed
    /\ \A x \in MasterRow : x # Nothing /\ x # Removed
    /\ \A x \in PlanRow : x # Nothing /\ x # Removed
<1>1. "active" \notin DOMAIN Nothing /\ "active" \notin DOMAIN Removed
  BY DEF Nothing, Removed
<1>2. \A x \in MasterRow : "active" \in DOMAIN x
  BY DEF MasterRow
<1>3. \A x \in PlanRow : "active" \in DOMAIN x
  BY DEF PlanRow
<1>4. Nothing # Removed
  BY DEF Nothing, Removed
<1> QED
  BY <1>1, <1>2, <1>3, <1>4

\* The plans and the assignments there are.
LEMMA ThereAre ==
    ASSUME PlanTypes
    PROVE  /\ \A m : m \in Masters <=> m \in Master /\ master[m] \in MasterRow
           /\ \A p : p \in Plans <=> p \in Pair /\ plan[p] \in PlanRow
           /\ \A p \in Plans : plan[p].code \in Code /\ plan[p].active \in BOOLEAN
           /\ \A m \in Masters : master[m].code \in Code
BY RowsApart DEF PlanTypes, Masters, Plans, MasterRow, PlanRow

\* What a request names, by its kind.
LEMMA PlanRequestFields ==
    ASSUME NEW t \in PlanRequest
    PROVE  /\ t.op = "master" => t.master \in Master /\ t.code \in Code
           /\ t.op = "assign" => /\ t.plan \in Pair /\ t.code \in Code /\ t.active \in BOOLEAN
                                 /\ t.granting \in BOOLEAN /\ t.agents \subseteq Agent
           /\ t.op = "delete" => t.plan \in Pair
           /\ t.op = "agent" => /\ t.agent \in Agent /\ t.master \subseteq Master
                                /\ t.take \subseteq Pair /\ t.found \in BOOLEAN
                                /\ t.drop \subseteq Pair /\ t.seen \subseteq Pair
<1>1. NoTask.op = "none"
  BY DEF NoTask
<1> QED
  BY <1>1 DEF PlanRequest

\* Nobody at work is in order.
LEMMA IdleOK == \A grantable : TaskOK(NoTask, grantable)
BY DEF TaskOK, NoTask, PlanRequest

\* One request is taken up, carried on or finished.
LEMMA TasksKept ==
    ASSUME Tasks, Grantable \subseteq Grantable', NEW e \in Editor,
           \E t : TaskOK(t, Grantable') /\ task' = [task EXCEPT ![e] = t]
    PROVE  Tasks'
<1>1. PICK t : TaskOK(t, Grantable') /\ task' = [task EXCEPT ![e] = t]
  OBVIOUS
<1>2. t \in PlanRequest
  BY <1>1 DEF TaskOK
<1>3. \A x : TaskOK(x, Grantable) => TaskOK(x, Grantable')
  BY DEF TaskOK
<1>4. task' \in [Editor -> PlanRequest]
  BY <1>1, <1>2 DEF Tasks
<1>5. ASSUME NEW d \in Editor
      PROVE  TaskOK(task'[d], Grantable')
  <2>1. task'[d] = IF d = e THEN t ELSE task[d]
    BY <1>1 DEF Tasks
  <2> QED
    BY <2>1, <1>1, <1>3 DEF Tasks
<1> QED
  BY <1>4, <1>5 DEF Tasks

\* Agents keep their assignments, and none is added that their plan's agents lack.
LEMMA AccessKept ==
    ASSUME PlansInv, UNCHANGED access, crossed \subseteq crossed', reopened \subseteq reopened',
           Plans \subseteq Plans',
           \A p \in Plans' : plan'[p].active /\ RoomOf(p) \in sold' =>
             \/ p \in Plans /\ plan[p].active /\ RoomOf(p) \in sold
             \/ RoomOf(p) \in reopened' \/ MasterOf(p) \notin Masters
    PROVE  AccessToPlans' /\ OnePlanOn' /\ WholePlans'
<1>1. \A g : On(g)' = On(g) /\ PlansOf(g)' = PlansOf(g)
  BY DEF On, PlansOf
<1>2. AccessToPlans'
  BY <1>1 DEF PlansInv, AccessToPlans
<1>3. OnePlanOn'
  BY <1>1 DEF PlansInv, OnePlanOn
<1>4. WholePlans'
  <2> SUFFICES ASSUME NEW g \in Agent \ crossed', NEW m \in PlansOf(g)', NEW p \in Bookable(m)',
                      RoomOf(p) \notin reopened'
               PROVE  p \in On(g)'
    BY DEF WholePlans
  <2>1. g \in Agent \ crossed /\ m \in PlansOf(g)
    BY <1>1
  <2>2. m \in Masters
    BY <2>1 DEF PlansInv, AccessToPlans, PlansHaveMasters, PlansOf
  <2>3. p \in Plans' /\ MasterOf(p) = m /\ plan'[p].active /\ RoomOf(p) \in sold'
    BY DEF Bookable, AssignmentsOf
  <2>4. p \in Bookable(m) /\ RoomOf(p) \notin reopened
    BY <2>2, <2>3 DEF Bookable, AssignmentsOf
  <2> QED
    BY <2>1, <2>4, <1>1 DEF PlansInv, WholePlans
<1> QED
  BY <1>2, <1>3, <1>4
-----------------------------------------------------------------------------
(***************************************************************************)
(* Requests taken up or carried on.                                        *)
(***************************************************************************)

\* Nothing changes but what an editor has under way.
LEMMA OnlyTask ==
    ASSUME PlansInv, UNCHANGED <<master, plan, sold, access, crossed, reopened>>,
           asked' \in 0..MaxAsked, NEW e \in Editor,
           \E t : TaskOK(t, Grantable) /\ task' = [task EXCEPT ![e] = t]
    PROVE  PlansInv'
<1>1. Plans' = Plans /\ Masters' = Masters
  BY DEF Plans, Masters
<1>2. Grantable' = Grantable
  BY <1>1 DEF Grantable
<1>3. Tasks'
  BY <1>2, TasksKept DEF PlansInv
<1>4. AccessToPlans' /\ OnePlanOn' /\ WholePlans'
  BY <1>1, AccessKept
<1>5. PlansHaveMasters' /\ CodesFollowTheMaster'
  BY <1>1 DEF PlansInv, PlansHaveMasters, CodesFollowTheMaster
<1>6. PlanTypes'
  BY DEF PlansInv, PlanTypes
<1> QED
  BY <1>3, <1>4, <1>5, <1>6 DEF PlansInv

LEMMA AskKeeps ==
    ASSUME PlansInv, UNCHANGED <<master, plan, sold, access, crossed, reopened>>,
           NEW e \in Editor, \E t : TaskOK(t, Grantable) /\ Asks(e, t)
    PROVE  PlansInv'
<1>1. asked' \in 0..MaxAsked
  BY RatePlansAssumption DEF Asks, PlansInv, PlanTypes
<1>2. \E t : TaskOK(t, Grantable) /\ task' = [task EXCEPT ![e] = t]
  BY DEF Asks
<1> QED
  BY <1>1, <1>2, OnlyTask

LEMMA ReadMasterKeeps ==
    ASSUME PlansInv, NEW e \in Editor, NEW m \in Master, ReadMaster(e, m)
    PROVE  PlansInv'
<1>1. master[m].code \in Code
  BY ThereAre DEF ReadMaster, PlansInv
<1>2. \A c \in Code, S \in SUBSET BOOLEAN :
        TaskOK([op |-> "master", master |-> m, code |-> c, states |-> S], Grantable)
  BY DEF TaskOK, PlanRequest
<1>3. \A s \in BOOLEAN : {s} \in SUBSET BOOLEAN /\ {} \in SUBSET BOOLEAN
  OBVIOUS
<1>4. \E t : TaskOK(t, Grantable) /\ Asks(e, t)
  BY <1>1, <1>2, <1>3 DEF ReadMaster
<1> QED
  BY <1>4, AskKeeps DEF ReadMaster

\* An assignment read or asked for.
LEMMA AssignmentOK ==
    ASSUME NEW p \in Pair, NEW c \in Code, NEW active \in BOOLEAN, NEW exists \in BOOLEAN, NEW G
    PROVE  TaskOK(Assignment(p, c, active, exists), G)
BY DEF TaskOK, PlanRequest, Assignment

LEMMA ReadAssignmentsKeep ==
    ASSUME PlansInv, NEW e \in Editor, NEW p \in Pair, NEW active \in BOOLEAN,
           ReadForAssignment(e, p, active) \/ ReadAssignment(e, p, active)
    PROVE  PlansInv'
<1>1. CASE ReadForAssignment(e, p, active)
  <2>1. master[MasterOf(p)].code \in Code
    BY <1>1, ThereAre DEF ReadForAssignment, PlansInv
  <2>2. TaskOK(Assignment(p, master[MasterOf(p)].code, active, FALSE), Grantable)
    BY <2>1, AssignmentOK
  <2> QED
    BY <1>1, <2>2, AskKeeps DEF ReadForAssignment
<1>2. CASE ReadAssignment(e, p, active)
  <2>1. plan[p].code \in Code
    BY <1>2, ThereAre DEF ReadAssignment, PlansInv
  <2>2. TaskOK(Assignment(p, plan[p].code, active, TRUE), Grantable)
    BY <2>1, AssignmentOK
  <2> QED
    BY <1>2, <2>2, AskKeeps DEF ReadAssignment
<1> QED
  BY <1>1, <1>2

LEMMA CountKeeps ==
    ASSUME PlansInv, NEW e \in Editor, NEW p \in Pair, CountDependencies(e, p)
    PROVE  PlansInv'
<1>1. TaskOK([op |-> "delete", plan |-> p], Grantable)
  BY DEF TaskOK, PlanRequest
<1> QED
  BY <1>1, AskKeeps DEF CountDependencies

\* The agent is given the assignments of one plan.
LEMMA AgentTaskOK ==
    ASSUME NEW g \in Agent, NEW m \in SUBSET Master, NEW take \in SUBSET Pair, NEW G,
           \A p, q \in take : MasterOf(p) = MasterOf(q),
           \A n \in m : take # {} /\ \A p \in take : MasterOf(p) = n
    PROVE  TaskOK(AgentTask(g, m, take), G)
BY DEF TaskOK, PlanRequest, AgentTask

LEMMA AgentsKeep ==
    ASSUME PlansInv, NEW e \in Editor, NEW g \in Agent,
           mapRatePlans(e, g) \/ \E m \in Master : assignAgentHotelRatePlan(e, g, m)
    PROVE  PlansInv'
<1>1. \A m : Bookable(m) \in SUBSET Pair /\ \A p \in Bookable(m) : MasterOf(p) = m
  BY DEF Bookable, AssignmentsOf, Plans
<1>2. TaskOK(AgentTask(g, {}, {}), Grantable) /\ \A m : TaskOK(AgentTask(g, {}, Bookable(m)), Grantable)
  BY <1>1, AgentTaskOK
<1>3. CASE mapRatePlans(e, g)
  BY <1>2, <1>3, AskKeeps DEF mapRatePlans
<1>4. ASSUME NEW m \in Master, assignAgentHotelRatePlan(e, g, m)
      PROVE  PlansInv'
  <2>1. Bookable(m) # {}
    BY <1>4 DEF assignAgentHotelRatePlan
  <2>2. TaskOK(AgentTask(g, {m}, Bookable(m)), Grantable)
    BY <1>1, <2>1, AgentTaskOK
  <2> QED
    BY <1>4, <2>2, AskKeeps DEF assignAgentHotelRatePlan
<1> QED
  BY <1>3, <1>4

LEMMA FoundOthers ==
    ASSUME NEW t \in [op : {"agent"}, agent : Agent, master : SUBSET Master, take : SUBSET Pair,
                      found : BOOLEAN, drop : SUBSET Pair, seen : SUBSET Pair],
           NEW D \in SUBSET Pair, NEW S \in SUBSET Pair
    PROVE  LET u == [t EXCEPT !.found = TRUE, !.drop = D, !.seen = S]
           IN  /\ u \in [op : {"agent"}, agent : Agent, master : SUBSET Master, take : SUBSET Pair,
                          found : BOOLEAN, drop : SUBSET Pair, seen : SUBSET Pair]
               /\ u.take = t.take /\ u.master = t.master /\ u.drop = D /\ u.seen = S
OBVIOUS

LEMMA FindKeeps ==
    ASSUME PlansInv, NEW e \in Editor, FindAgents(e) \/ FindOthers(e)
    PROVE  PlansInv'
<1> DEFINE t == task[e]
<1>1. TaskOK(t, Grantable) /\ t \in PlanRequest
  BY DEF PlansInv, Tasks, TaskOK
<1>2. CASE FindAgents(e)
  <2> DEFINE u == [t EXCEPT !.granting = TRUE, !.agents = AgentsOf(MasterOf(t.plan))]
  <2>1. t.op = "assign" /\ t.active /\ MayAssign(t)
    BY <1>2 DEF FindAgents
  <2>2. t.plan \in Grantable
    BY <2>1, <1>1, PlanRequestFields DEF MayAssign, Grantable
  <2>3. AgentsOf(MasterOf(t.plan)) \subseteq Agent
    BY DEF AgentsOf
  <2>4. t \in [op : {"assign"}, plan : Pair, code : Code, active : BOOLEAN, exists : BOOLEAN,
               granting : BOOLEAN, agents : SUBSET Agent]
    BY <2>1, <1>1 DEF PlanRequest, NoTask
  <2>5. u \in [op : {"assign"}, plan : Pair, code : Code, active : BOOLEAN, exists : BOOLEAN,
               granting : BOOLEAN, agents : SUBSET Agent] /\ u.active = t.active /\ u.plan = t.plan
    BY <2>3, <2>4
  <2>6. TaskOK(u, Grantable)
    BY <2>1, <2>2, <2>5 DEF TaskOK, PlanRequest
  <2>7. task' = [task EXCEPT ![e] = u]
    BY <1>2 DEF FindAgents, PlansInv, Tasks
  <2> QED
    BY <1>2, <2>6, <2>7, OnlyTask DEF FindAgents, PlansInv, PlanTypes
<1>3. CASE FindOthers(e)
  <2> DEFINE u == [t EXCEPT !.found = TRUE, !.drop = Others(t), !.seen = On(t.agent)]
  <2>1. t.op = "agent"
    BY <1>3 DEF FindOthers
  <2>2. On(t.agent) \subseteq Pair
        /\ Others(t) = {p \in On(t.agent) : p \notin t.take /\ MasterOf(p) \notin t.master}
    BY DEF Others, On
  <2>3. Others(t) \subseteq Pair
    BY <2>2
  <2>4. t \in [op : {"agent"}, agent : Agent, master : SUBSET Master, take : SUBSET Pair,
               found : BOOLEAN, drop : SUBSET Pair, seen : SUBSET Pair]
    BY <2>1, <1>1 DEF PlanRequest, NoTask
  <2>5. /\ u \in [op : {"agent"}, agent : Agent, master : SUBSET Master, take : SUBSET Pair,
                  found : BOOLEAN, drop : SUBSET Pair, seen : SUBSET Pair]
        /\ u.take = t.take /\ u.master = t.master /\ u.drop = Others(t) /\ u.seen = On(t.agent)
    BY Zenon, <2>2, <2>3, <2>4, FoundOthers
  <2>6. u.op = "agent" /\ u \in PlanRequest
    BY <2>5 DEF PlanRequest
  <2>7. task' = [task EXCEPT ![e] = u]
    BY <1>3 DEF FindOthers, PlansInv, Tasks
  <2> HIDE DEF u
  <2>8. TaskOK(u, Grantable)
    BY <2>1, <2>2, <2>5, <2>6, <1>1 DEF TaskOK
  <2> QED
    BY <1>3, <2>7, <2>8, OnlyTask DEF FindOthers, PlansInv, PlanTypes
<1> QED
  BY <1>2, <1>3
-----------------------------------------------------------------------------
(***************************************************************************)
(* Plans and assignments.                                                  *)
(***************************************************************************)

\* A request asked and answered at once, and one that ends, leave nobody at work.
LEMMA Answered ==
    ASSUME PlansInv, Grantable \subseteq Grantable', NEW e \in Editor, AsksOnce(e) \/ Ends(e)
    PROVE  Tasks' /\ asked' \in 0..MaxAsked
<1>1. \E t : TaskOK(t, Grantable') /\ task' = [task EXCEPT ![e] = t]
  BY IdleOK DEF AsksOnce, Asks, Ends
<1>2. asked' \in 0..MaxAsked
  BY RatePlansAssumption DEF AsksOnce, Asks, Ends, PlansInv, PlanTypes
<1> QED
  BY <1>1, <1>2, TasksKept DEF PlansInv

LEMMA CreateMasterKeeps ==
    ASSUME PlansInv, NEW e \in Editor, NEW m \in Master, NEW c \in Code,
           NEW rooms \in SUBSET RoomType, createRatePlanMaster(e, m, c, rooms)
    PROVE  PlansInv'
<1>1. master[m] = Nothing /\ m \notin Masters
  BY DEF createRatePlanMaster, Masters
<1>2. /\ master' = [master EXCEPT ![m] = [code |-> c, active |-> TRUE]]
      /\ plan' = [p \in Pair |-> IF MasterOf(p) = m /\ RoomOf(p) \in rooms
                                 THEN NewPlan(c, TRUE) ELSE plan[p]]
      /\ UNCHANGED <<sold, access, crossed, reopened>>
  BY DEF createRatePlanMaster
<1>3. [code |-> c, active |-> TRUE] \in MasterRow /\ NewPlan(c, TRUE) \in PlanRow
      /\ NewPlan(c, TRUE).code = c
  BY DEF MasterRow, PlanRow, NewPlan
<1>4. \A p \in Plans : MasterOf(p) # m /\ p \in Pair
  BY <1>1 DEF PlansInv, PlansHaveMasters, Plans
<1>5. Masters' = Masters \cup {m}
  BY <1>2, <1>3, RowsApart DEF Masters, PlansInv, PlanTypes
<1>6. \A p : p \in Plans' <=> p \in Plans \/ (p \in Pair /\ MasterOf(p) = m /\ RoomOf(p) \in rooms)
  BY <1>2, <1>3, <1>4, RowsApart DEF Plans
<1>7. \A n \in Masters : master'[n] = master[n]
  BY <1>1, <1>2 DEF Masters, PlansInv, PlanTypes
<1>8. \A p \in Plans : plan'[p] = plan[p]
  BY <1>2, <1>4
<1>9. Grantable \subseteq Grantable'
  <2> SUFFICES ASSUME NEW p \in Grantable
               PROVE  p \in Grantable'
    OBVIOUS
  <2>1. CASE p \in Plans
    BY <2>1, <1>4, <1>6 DEF Grantable
  <2>2. CASE p \notin Plans
    <3>1. plan[p] = Nothing /\ MasterOf(p) \in Masters /\ MasterOf(p) # m /\ p \in Pair
      BY <2>2, <1>1 DEF Grantable
    <3> QED
      BY <3>1, <1>2, <1>5 DEF Grantable
  <2> QED
    BY <2>1, <2>2
<1>10. Tasks' /\ asked' \in 0..MaxAsked
  BY <1>9, Answered DEF createRatePlanMaster
<1>11. AccessToPlans' /\ OnePlanOn' /\ WholePlans'
  BY <1>1, <1>2, <1>6, <1>8, AccessKept
<1>12. PlanTypes'
  BY <1>2, <1>3, <1>10 DEF PlansInv, PlanTypes
<1>13. PlansHaveMasters'
  BY <1>5, <1>6 DEF PlansInv, PlansHaveMasters
<1>14. CodesFollowTheMaster'
  <2> SUFFICES ASSUME NEW p \in Plans' \ crossed'
               PROVE  plan'[p].code = master'[MasterOf(p)].code
    BY DEF CodesFollowTheMaster
  <2>1. CASE p \in Plans
    BY <2>1, <1>2, <1>7, <1>8 DEF PlansInv, PlansHaveMasters, CodesFollowTheMaster
  <2>2. CASE p \notin Plans
    <3>1. p \in Pair /\ MasterOf(p) = m /\ RoomOf(p) \in rooms
      BY <2>2, <1>6
    <3>2. plan'[p].code = c
      BY <3>1, <1>2, <1>3
    <3>3. master'[m].code = c
      BY <1>2 DEF PlansInv, PlanTypes
    <3> QED
      BY <3>1, <3>2, <3>3
  <2> QED
    BY <2>1, <2>2
<1> QED
  BY <1>10, <1>11, <1>12, <1>13, <1>14 DEF PlansInv

LEMMA UpdateMasterKeeps ==
    ASSUME PlansInv, NEW e \in Editor, updateRatePlanMaster(e)
    PROVE  PlansInv'
<1> DEFINE t == task[e]
           m == t.master
           accepted == /\ m \in Masters /\ CodeIsFree(m, t.code)
                       /\ \A p \in AssignmentsOf(m) : FreeIn(p, t.code)
<1>1. t \in PlanRequest /\ t.op = "master" /\ m \in Master /\ t.code \in Code
  BY PlanRequestFields DEF updateRatePlanMaster, PlansInv, Tasks
<1>2. /\ master' = IF accepted THEN RenamedMaster(t) ELSE master
      /\ plan' = IF ~accepted THEN plan
                 ELSE [p \in Pair |-> IF p \in AssignmentsOf(m)
                                      THEN [plan[p] EXCEPT !.code = t.code] ELSE plan[p]]
      /\ UNCHANGED <<sold, access, crossed, reopened>> /\ Ends(e)
  BY DEF updateRatePlanMaster
<1> HIDE DEF accepted
<1>3. CASE accepted
  <2> DEFINE row == [code |-> t.code,
                     active |-> IF t.states = {} THEN master[m].active ELSE TRUE \in t.states]
  <2>0. m \in Masters /\ master[m] \in MasterRow
    BY <1>3, ThereAre DEF accepted, PlansInv
  <2>1. row \in MasterRow /\ row.code = t.code
    <3> DEFINE states == t.states
               active == IF states = {} THEN master[m].active ELSE TRUE \in states
    <3>1. master[m].active \in BOOLEAN
      BY <2>0 DEF MasterRow
    <3>2. active \in BOOLEAN
      <4> HIDE DEF states
      <4>1. CASE states = {}
        BY <3>1, <4>1
      <4>2. CASE states # {}
        <5>1. active = (TRUE \in states)
          BY <4>2
        <5> HIDE DEF active
        <5> QED
          BY <5>1
      <4> QED
        BY <4>1, <4>2
    <3> HIDE DEF active
    <3>3. [code |-> t.code, active |-> active] \in MasterRow
          /\ [code |-> t.code, active |-> active].code = t.code
      BY <1>1, <3>2 DEF MasterRow
    <3> QED
      BY <3>3 DEF active
  <2>2. master' = [master EXCEPT ![m] = row]
    BY <1>2, <1>3, <2>0 DEF RenamedMaster, PlansInv, PlanTypes
  <2> HIDE DEF row
  <2>3. \A p : p \in AssignmentsOf(m) <=> p \in Plans /\ MasterOf(p) = m
    BY DEF AssignmentsOf
  <2>4. \A p \in Plans : p \in Pair /\ plan[p] \in PlanRow
    BY ThereAre DEF PlansInv
  <2>5. \A r \in PlanRow : [r EXCEPT !.code = t.code] \in PlanRow
                           /\ [r EXCEPT !.code = t.code].code = t.code
                           /\ [r EXCEPT !.code = t.code].active = r.active
    BY <1>1 DEF PlanRow
  <2>6. ASSUME NEW p \in Plans
        PROVE  /\ plan'[p] \in PlanRow /\ plan'[p].active = plan[p].active
               /\ MasterOf(p) = m => plan'[p].code = t.code
               /\ MasterOf(p) # m => plan'[p] = plan[p]
    BY <1>2, <1>3, <2>3, <2>4, <2>5
  <2>7. \A p \in Pair \ Plans : plan'[p] = plan[p]
    BY <1>2, <1>3, <2>3
  <2>8. plan' = [p \in Pair |-> plan'[p]]
    BY <1>2, <1>3
  <2>9. plan' \in [Pair -> {Nothing, Removed} \cup PlanRow]
    BY <2>6, <2>7, <2>8 DEF PlansInv, PlanTypes
  <2>10. Plans' = Plans
    BY <2>4, <2>6, <2>7, RowsApart DEF Plans
  <2>11. Masters' = Masters
    BY <2>0, <2>1, <2>2, RowsApart DEF Masters, PlansInv, PlanTypes
  <2>12. Grantable' = Grantable
    BY <2>7, <2>10, <2>11 DEF Grantable
  <2>13. Tasks' /\ asked' \in 0..MaxAsked
    BY <1>2, <2>12, Answered
  <2>14. PlanTypes'
    BY <1>2, <2>1, <2>2, <2>9, <2>13 DEF PlansInv, PlanTypes
  <2>15. AccessToPlans' /\ OnePlanOn' /\ WholePlans'
    BY <1>2, <2>6, <2>10, AccessKept
  <2>16. PlansHaveMasters'
    BY <2>10, <2>11 DEF PlansInv, PlansHaveMasters
  <2>17. CodesFollowTheMaster'
    <3> SUFFICES ASSUME NEW p \in Plans' \ crossed'
                 PROVE  plan'[p].code = master'[MasterOf(p)].code
      BY DEF CodesFollowTheMaster
    <3>1. p \in Plans \ crossed
      BY <1>2, <2>10
    <3>2. CASE MasterOf(p) = m
      BY <3>1, <3>2, <1>1, <2>1, <2>2, <2>6 DEF PlansInv, PlanTypes
    <3>3. CASE MasterOf(p) # m
      BY <3>1, <3>3, <2>2, <2>6 DEF PlansInv, PlanTypes, CodesFollowTheMaster
    <3> QED
      BY <3>2, <3>3
  <2> QED
    BY <2>13, <2>14, <2>15, <2>16, <2>17 DEF PlansInv
<1>4. CASE ~accepted
  <2>1. UNCHANGED <<master, plan, sold, access, crossed, reopened>> /\ Ends(e)
    BY <1>2, <1>4
  <2>2. \E x : TaskOK(x, Grantable) /\ task' = [task EXCEPT ![e] = x]
    BY <2>1, IdleOK DEF Ends
  <2> QED
    BY <2>1, <2>2, OnlyTask DEF Ends, PlansInv, PlanTypes
<1> QED
  BY <1>3, <1>4
\* A plan without assignments is removed.
LEMMA DeleteMasterKeeps ==
    ASSUME PlansInv, NEW e \in Editor, NEW m \in Master, deleteRatePlanMaster(e, m)
    PROVE  PlansInv'
<1>1. /\ master' = [master EXCEPT ![m] = Removed] /\ AssignmentsOf(m) = {} /\ ~GrantingOf(m)
      /\ UNCHANGED <<plan, sold, access, crossed, reopened>> /\ AsksOnce(e)
  BY DEF deleteRatePlanMaster
<1>2. Plans' = Plans /\ Masters' = Masters \ {m}
  BY <1>1 DEF Plans, Masters, PlansInv, PlanTypes
<1>3. \A p \in Plans : MasterOf(p) # m
  BY <1>1 DEF AssignmentsOf
<1>4. \A n \in Masters' : master'[n] = master[n]
  BY <1>1, <1>2 DEF PlansInv, PlanTypes, Masters
<1>5. Tasks'
  <2>1. ASSUME NEW d \in Editor
        PROVE  TaskOK(task'[d], Grantable')
    <3>1. task'[d] = NoTask \/ task'[d] = task[d]
      BY <1>1 DEF AsksOnce, Asks, PlansInv, Tasks
    <3>2. TaskOK(task[d], Grantable) /\ task[d] \in PlanRequest
      BY DEF PlansInv, Tasks, TaskOK
    <3>3. task[d].op = "assign" /\ task[d].granting => task[d].plan \in Grantable'
      <4> SUFFICES ASSUME task[d].op = "assign", task[d].granting
                   PROVE  task[d].plan \in Grantable'
        OBVIOUS
      <4>1. task[d].plan \in Grantable /\ task[d].plan \in Pair
        BY <3>2, PlanRequestFields DEF TaskOK
      <4>2. MasterOf(task[d].plan) # m
        BY <4>1, <1>1 DEF GrantingOf, Granting
      <4> QED
        BY <4>1, <4>2, <1>1, <1>2 DEF Grantable
    <3> QED
      BY <3>1, <3>2, <3>3, IdleOK DEF TaskOK
  <2>2. task' \in [Editor -> PlanRequest]
    BY <1>1, IdleOK DEF AsksOnce, Asks, PlansInv, Tasks, TaskOK
  <2> QED
    BY <2>1, <2>2 DEF Tasks
<1>6. AccessToPlans' /\ OnePlanOn' /\ WholePlans'
  BY <1>1, <1>2, AccessKept
<1>7. PlanTypes'
  BY <1>1, RatePlansAssumption DEF PlansInv, PlanTypes, AsksOnce, Asks
<1>8. PlansHaveMasters' /\ CodesFollowTheMaster'
  BY <1>1, <1>2, <1>3, <1>4 DEF PlansInv, PlansHaveMasters, CodesFollowTheMaster
<1> QED
  BY <1>5, <1>6, <1>7, <1>8 DEF PlansInv

\* A plan found or created, and its assignment asked for.
LEMMA CreatePlanKeeps ==
    ASSUME PlansInv, NEW e \in Editor, NEW r \in RoomType, NEW c \in Code, NEW active \in BOOLEAN,
           createRatePlan(e, r, c, active)
    PROVE  PlansInv'
<1>1. PICK m \in Master :
        /\ \/ m \in Masters /\ master[m].code = c /\ UNCHANGED master
           \/ /\ master[m] = Nothing /\ CodeIsFree(m, c)
              /\ master' = [master EXCEPT ![m] = [code |-> c, active |-> active]]
        /\ Asks(e, Assignment(<<r, m>>, c, active, FALSE))
  BY DEF createRatePlan
<1>2. UNCHANGED <<plan, sold, access, crossed, reopened>>
  BY DEF createRatePlan
<1>3. <<r, m>> \in Pair
  BY PairFacts
<1>4. \A G : TaskOK(Assignment(<<r, m>>, c, active, FALSE), G)
  BY <1>3, AssignmentOK
<1>5. CASE UNCHANGED master
  BY <1>1, <1>2, <1>4, <1>5, AskKeeps
<1>6. CASE master[m] = Nothing /\ master' = [master EXCEPT ![m] = [code |-> c, active |-> active]]
  <2>1. [code |-> c, active |-> active] \in MasterRow
    BY DEF MasterRow
  <2>2. m \notin Masters /\ Masters' = Masters \cup {m} /\ Plans' = Plans
    BY <1>2, <1>6, <2>1, RowsApart DEF Masters, Plans, PlansInv, PlanTypes
  <2>3. \A n \in Masters : master'[n] = master[n]
    BY <1>6, <2>2 DEF PlansInv, PlanTypes, Masters
  <2>4. Grantable \subseteq Grantable'
    BY <1>2, <2>2 DEF Grantable
  <2>5. Tasks'
    BY <1>1, <1>4, <2>4, TasksKept DEF Asks, PlansInv
  <2>6. AccessToPlans' /\ OnePlanOn' /\ WholePlans'
    BY <1>2, <2>2, AccessKept
  <2>7. PlanTypes'
    BY <1>1, <1>2, <1>6, <2>1, RatePlansAssumption DEF PlansInv, PlanTypes, Asks
  <2>8. PlansHaveMasters' /\ CodesFollowTheMaster'
    BY <1>2, <2>2, <2>3 DEF PlansInv, PlansHaveMasters, CodesFollowTheMaster
  <2> QED
    BY <2>5, <2>6, <2>7, <2>8 DEF PlansInv
<1> QED
  BY <1>1, <1>5, <1>6

\* What a request about an assignment writes.
LEMMA WrittenPlan ==
    ASSUME PlansInv, NEW e \in Editor, task[e].op = "assign", task[e].plan \in Grantable,
           plan' = Written(task[e]), UNCHANGED <<master, sold, reopened>>,
           crossed \cup StalePlan(task[e]) \subseteq crossed', Ends(e)
    PROVE  /\ PlanTypes' \/ access' # access
           /\ plan' \in [Pair -> {Nothing, Removed} \cup PlanRow] /\ asked' \in 0..MaxAsked
           /\ Plans' = Plans \cup {task[e].plan} /\ Tasks'
           /\ \A p \in Plans : p # task[e].plan => plan'[p] = plan[p]
           /\ plan'[task[e].plan].active = task[e].active
           /\ PlansHaveMasters' /\ CodesFollowTheMaster'
<1> DEFINE t == task[e]
           p == t.plan
           old == [plan[p] EXCEPT !.active = t.active]
           row == IF p \in Plans THEN old ELSE NewPlan(t.code, t.active)
<1>1. t \in PlanRequest /\ p \in Pair /\ t.code \in Code /\ t.active \in BOOLEAN
  BY PlanRequestFields DEF PlansInv, Tasks
<1>2. NewPlan(t.code, t.active) \in PlanRow /\ NewPlan(t.code, t.active).code = t.code
      /\ NewPlan(t.code, t.active).active = t.active
  BY <1>1 DEF PlanRow, NewPlan
<1>3. p \in Plans => plan[p] \in PlanRow
  BY ThereAre DEF PlansInv
<1>4. p \in Plans => old \in PlanRow /\ old.code = plan[p].code /\ old.active = t.active
  BY <1>1, <1>3 DEF PlanRow
<1>5. plan' = [plan EXCEPT ![p] = row]
  BY DEF Written
<1>6. (plan[p] = Nothing /\ MasterOf(p) \in Masters) \/ p \in Plans
  BY DEF Grantable
<1> HIDE DEF old
<1>7. row \in PlanRow /\ row.active = t.active
      /\ (p \in Plans => row.code = plan[p].code) /\ (p \notin Plans => row.code = t.code)
  BY <1>2, <1>4
<1> HIDE DEF row
<1>8. plan' \in [Pair -> {Nothing, Removed} \cup PlanRow]
  BY <1>1, <1>5, <1>7 DEF PlansInv, PlanTypes
<1>9. plan'[p] = row /\ \A q \in Pair : q # p => plan'[q] = plan[q]
  BY <1>1, <1>5 DEF PlansInv, PlanTypes
<1>10. Plans' = Plans \cup {p} /\ Masters' = Masters
  BY <1>1, <1>7, <1>9, RowsApart DEF Plans, Masters
<1>11. Grantable \subseteq Grantable'
  BY <1>9, <1>10 DEF Grantable
<1>12. Tasks' /\ asked' \in 0..MaxAsked
  BY <1>11, Answered
<1>13. PlansHaveMasters'
  BY <1>6, <1>10 DEF PlansInv, PlansHaveMasters
<1>14. CodesFollowTheMaster'
  <2> SUFFICES ASSUME NEW q \in Plans' \ crossed'
               PROVE  plan'[q].code = master[MasterOf(q)].code
    BY DEF CodesFollowTheMaster
  <2>1. CASE q # p
    BY <2>1, <1>9, <1>10 DEF PlansInv, CodesFollowTheMaster, Plans
  <2>2. CASE q = p /\ p \in Plans
    BY <2>2, <1>7, <1>9 DEF PlansInv, CodesFollowTheMaster
  <2>3. CASE q = p /\ p \notin Plans
    BY <2>3, <1>6, <1>7, <1>9 DEF StalePlan
  <2> QED
    BY <2>1, <2>2, <2>3
<1>15. access' = access => PlanTypes'
  BY <1>8, <1>12 DEF PlansInv, PlanTypes
<1> QED
  BY <1>7, <1>8, <1>9, <1>10, <1>12, <1>13, <1>14, <1>15 DEF Plans

LEMMA AssignKeeps ==
    ASSUME PlansInv, NEW e \in Editor, assignInactive(e)
    PROVE  PlansInv'
<1> DEFINE t == task[e]
<1>1. t \in PlanRequest /\ t.op = "assign" /\ t.plan \in Pair /\ t.active \in BOOLEAN
  BY PlanRequestFields DEF PlansInv, Tasks, assignInactive
<1>2. CASE MayAssign(t)
  <2>1. t.plan \in Grantable
    BY <1>1, <1>2 DEF MayAssign, Grantable
  <2>2. /\ plan' = Written(t) /\ crossed' = crossed \cup StalePlan(t) /\ Ends(e) /\ ~t.active
        /\ UNCHANGED <<master, sold, access, reopened>>
    BY <1>2 DEF assignInactive
  <2>3. /\ PlanTypes' /\ Plans' = Plans \cup {t.plan} /\ Tasks'
        /\ \A p \in Plans : p # t.plan => plan'[p] = plan[p]
        /\ ~plan'[t.plan].active
        /\ PlansHaveMasters' /\ CodesFollowTheMaster'
    BY <1>1, <2>1, <2>2, WrittenPlan
  <2>4. AccessToPlans' /\ OnePlanOn' /\ WholePlans'
    BY <2>2, <2>3, AccessKept
  <2> QED
    BY <2>3, <2>4 DEF PlansInv
<1>3. CASE ~MayAssign(t)
  <2>1. UNCHANGED <<master, plan, sold, access, crossed, reopened>> /\ Ends(e)
    BY <1>3 DEF assignInactive
  <2>2. \E x : TaskOK(x, Grantable) /\ task' = [task EXCEPT ![e] = x]
    BY <2>1, IdleOK DEF Ends
  <2> QED
    BY <2>1, <2>2, OnlyTask DEF Ends, PlansInv, PlanTypes
<1> QED
  BY <1>2, <1>3

\* An assignment that is active is given to the agents of its plan.
LEMMA PropagateKeeps ==
    ASSUME PlansInv, NEW e \in Editor, propagateAgentAccess(e)
    PROVE  PlansInv'
<1> DEFINE t == task[e]
           p == t.plan
           m == MasterOf(p)
           now == AgentsOf(m)
<1>1. t \in PlanRequest /\ t.op = "assign" /\ t.granting /\ p \in Pair /\ t.agents \subseteq Agent
      /\ t.active /\ p \in Grantable
  BY PlanRequestFields DEF PlansInv, Tasks, TaskOK, propagateAgentAccess
<1>2. /\ plan' = Written(t) /\ Ends(e) /\ UNCHANGED <<master, sold, reopened>>
      /\ crossed' = crossed \cup StalePlan(t) \cup (t.agents \ now) \cup (now \ t.agents)
      /\ access' = [g \in Agent |-> IF g \in t.agents THEN [access[g] EXCEPT ![p] = "on"] ELSE access[g]]
  BY DEF propagateAgentAccess
<1>3. /\ plan' \in [Pair -> {Nothing, Removed} \cup PlanRow] /\ asked' \in 0..MaxAsked
      /\ Plans' = Plans \cup {p} /\ Tasks'
      /\ \A q \in Plans : q # p => plan'[q] = plan[q]
      /\ PlansHaveMasters' /\ CodesFollowTheMaster'
  <2>1. crossed \cup StalePlan(task[e]) \subseteq crossed'
    BY <1>2
  <2> QED
    BY <1>1, <1>2, <2>1, WrittenPlan
<1>4. access' \in [Agent -> [Pair -> {"none", "on", "off"}]]
  BY <1>1, <1>2 DEF PlansInv, PlanTypes
<1>5. \A g \in Agent : On(g)' = IF g \in t.agents THEN On(g) \cup {p} ELSE On(g)
  BY <1>1, <1>2 DEF On, PlansInv, PlanTypes
<1>6. \A g \in Agent \ crossed' : g \notin crossed /\ (g \in t.agents <=> m \in PlansOf(g))
  BY <1>2 DEF AgentsOf
<1>7. \A g \in Agent \ crossed' : PlansOf(g)' = PlansOf(g)
  BY <1>5, <1>6 DEF PlansOf
<1>8. AccessToPlans'
  BY <1>3, <1>5 DEF PlansInv, AccessToPlans
<1>9. OnePlanOn'
  <2> SUFFICES ASSUME NEW g \in Agent \ crossed', NEW q \in On(g)', NEW r \in On(g)'
               PROVE  MasterOf(q) = MasterOf(r)
    BY DEF OnePlanOn
  <2>1. MasterOf(q) \in PlansOf(g) /\ MasterOf(r) \in PlansOf(g)
    BY <1>7 DEF PlansOf
  <2> QED
    BY <2>1, <1>6 DEF PlansInv, OnePlanOn, PlansOf
<1>10. WholePlans'
  <2> SUFFICES ASSUME NEW g \in Agent \ crossed', NEW n \in PlansOf(g)', NEW q \in Bookable(n)',
                      RoomOf(q) \notin reopened'
               PROVE  q \in On(g)'
    BY DEF WholePlans
  <2>1. g \notin crossed /\ n \in PlansOf(g)
    BY <1>6, <1>7
  <2>2. q \in Plans' /\ MasterOf(q) = n /\ plan'[q].active /\ RoomOf(q) \in sold
    BY <1>2 DEF Bookable, AssignmentsOf
  <2>3. CASE q = p
    BY <2>1, <2>2, <2>3, <1>5, <1>6
  <2>4. CASE q # p
    <3>1. q \in Bookable(n)
      BY <2>2, <2>4, <1>3 DEF Bookable, AssignmentsOf
    <3>2. q \in On(g)
      BY <2>1, <3>1, <1>2 DEF PlansInv, WholePlans
    <3> QED
      BY <3>2, <1>5
  <2> QED
    BY <2>3, <2>4
<1>11. PlanTypes'
  BY <1>2, <1>3, <1>4 DEF PlansInv, PlanTypes
<1> QED
  BY <1>3, <1>8, <1>9, <1>10, <1>11 DEF PlansInv
LEMMA SaveRatesKeeps ==
    ASSUME PlansInv, NEW e \in Editor, NEW p \in Pair, saveRates(e, p)
    PROVE  PlansInv'
<1>1. /\ p \in Plans /\ AsksOnce(e) /\ plan' = [plan EXCEPT ![p].priced = TRUE]
      /\ UNCHANGED <<master, sold, access, crossed, reopened>>
  BY DEF saveRates
<1> DEFINE row == [plan[p] EXCEPT !.priced = TRUE]
<1>2. plan[p] \in PlanRow
  BY <1>1, ThereAre DEF PlansInv
<1>3. row \in PlanRow /\ row.code = plan[p].code /\ row.active = plan[p].active
  BY <1>2 DEF PlanRow
<1> HIDE DEF row
<1>4. plan' = [plan EXCEPT ![p] = row]
  BY <1>1 DEF row
<1>5. /\ plan' \in [Pair -> {Nothing, Removed} \cup PlanRow]
      /\ plan'[p] = row /\ \A q \in Pair : q # p => plan'[q] = plan[q]
  BY <1>3, <1>4 DEF PlansInv, PlanTypes
<1>6. Plans' = Plans /\ Masters' = Masters
  BY <1>1, <1>3, <1>5, RowsApart DEF Plans, Masters
<1>7. Grantable' = Grantable
  BY <1>1, <1>5, <1>6 DEF Grantable
<1>8. Tasks' /\ asked' \in 0..MaxAsked
  BY <1>1, <1>7, Answered
<1>9. \A q \in Plans : plan'[q].code = plan[q].code /\ plan'[q].active = plan[q].active
  BY <1>3, <1>5 DEF Plans
<1>10. AccessToPlans' /\ OnePlanOn' /\ WholePlans'
  BY <1>1, <1>6, <1>9, AccessKept
<1>11. PlanTypes'
  BY <1>1, <1>5, <1>8 DEF PlansInv, PlanTypes
<1>12. PlansHaveMasters' /\ CodesFollowTheMaster'
  BY <1>1, <1>6, <1>9 DEF PlansInv, PlansHaveMasters, CodesFollowTheMaster
<1> QED
  BY <1>8, <1>10, <1>11, <1>12 DEF PlansInv

LEMMA UpdateRoomKeeps ==
    ASSUME PlansInv, NEW e \in Editor, NEW r \in RoomType, updateRoom(e, r)
    PROVE  PlansInv'
<1>1. /\ AsksOnce(e) /\ UNCHANGED <<master, plan, access, crossed>>
      /\ sold' \subseteq RoomType /\ reopened' = reopened \cup (sold' \ sold)
  BY DEF updateRoom, PlansInv, PlanTypes
<1>2. Plans' = Plans /\ Masters' = Masters
  BY <1>1 DEF Plans, Masters
<1>3. Grantable' = Grantable
  BY <1>1, <1>2 DEF Grantable
<1>4. Tasks' /\ asked' \in 0..MaxAsked
  BY <1>1, <1>3, Answered
<1>5. AccessToPlans' /\ OnePlanOn' /\ WholePlans'
  BY <1>1, <1>2, AccessKept
<1>6. PlanTypes'
  BY <1>1, <1>4 DEF PlansInv, PlanTypes
<1>7. PlansHaveMasters' /\ CodesFollowTheMaster'
  BY <1>1, <1>2 DEF PlansInv, PlansHaveMasters, CodesFollowTheMaster
<1> QED
  BY <1>4, <1>5, <1>6, <1>7 DEF PlansInv

\* Agents lose assignments, and what is left of a plan they keep is whole.
LEMMA AccessShrinks ==
    ASSUME PlansInv, UNCHANGED <<sold, crossed, reopened>>, Plans' \subseteq Plans,
           \A p \in Plans' : plan'[p] = plan[p],
           \A g \in Agent : On(g)' \subseteq On(g) /\ On(g)' \subseteq Plans',
           \A g \in Agent : \A p \in On(g) \cap Plans' : MasterOf(p) \in PlansOf(g)' => p \in On(g)'
    PROVE  AccessToPlans' /\ OnePlanOn' /\ WholePlans'
<1>1. \A g \in Agent : PlansOf(g)' \subseteq PlansOf(g)
  BY DEF PlansOf
<1>2. AccessToPlans'
  BY DEF AccessToPlans
<1>3. OnePlanOn'
  BY DEF PlansInv, OnePlanOn
<1>4. WholePlans'
  <2> SUFFICES ASSUME NEW g \in Agent \ crossed, NEW m \in PlansOf(g)', NEW p \in Bookable(m)',
                      RoomOf(p) \notin reopened
               PROVE  p \in On(g)'
    BY DEF WholePlans
  <2>1. p \in Plans' /\ MasterOf(p) = m /\ plan'[p].active /\ RoomOf(p) \in sold
    BY DEF Bookable, AssignmentsOf
  <2>2. p \in Bookable(m) /\ m \in PlansOf(g)
    BY <2>1, <1>1 DEF Bookable, AssignmentsOf
  <2>3. p \in On(g)
    BY <2>2 DEF PlansInv, WholePlans
  <2> QED
    BY <2>1, <2>3
<1> QED
  BY <1>2, <1>3, <1>4

LEMMA DeleteAssignmentKeeps ==
    ASSUME PlansInv, NEW e \in Editor, deleteRatePlanAssignment(e)
    PROVE  PlansInv'
<1> DEFINE t == task[e]
           p == t.plan
<1>1. t \in PlanRequest /\ t.op = "delete" /\ p \in Pair /\ ~Granting(p)
  BY PlanRequestFields DEF PlansInv, Tasks, deleteRatePlanAssignment
<1>2. /\ plan' = [plan EXCEPT ![p] = Removed] /\ Ends(e)
      /\ access' = [g \in Agent |-> [access[g] EXCEPT ![p] = "none"]]
      /\ UNCHANGED <<master, sold, crossed, reopened>>
  BY DEF deleteRatePlanAssignment
<1>3. plan'[p] = Removed /\ \A q \in Pair : q # p => plan'[q] = plan[q]
  BY <1>1, <1>2 DEF PlansInv, PlanTypes
<1>4. Plans' = Plans \ {p} /\ Masters' = Masters
  BY <1>2, <1>3 DEF Plans, Masters
<1>5. Tasks'
  <2>1. ASSUME NEW d \in Editor
        PROVE  TaskOK(task'[d], Grantable')
    <3>1. task'[d] = NoTask \/ task'[d] = task[d]
      BY <1>2 DEF Ends, PlansInv, Tasks
    <3>2. TaskOK(task[d], Grantable) /\ task[d] \in PlanRequest
      BY DEF PlansInv, Tasks, TaskOK
    <3>3. task[d].op = "assign" /\ task[d].granting => task[d].plan \in Grantable'
      <4> SUFFICES ASSUME task[d].op = "assign", task[d].granting
                   PROVE  task[d].plan \in Grantable'
        OBVIOUS
      <4>1. task[d].plan \in Grantable /\ task[d].plan \in Pair
        BY <3>2, PlanRequestFields DEF TaskOK
      <4>2. task[d].plan # p
        BY <1>1 DEF Granting
      <4> QED
        BY <4>1, <4>2, <1>3, <1>4 DEF Grantable
    <3> QED
      BY <3>1, <3>2, <3>3, IdleOK DEF TaskOK
  <2>2. task' \in [Editor -> PlanRequest]
    BY <1>2, IdleOK DEF Ends, PlansInv, Tasks, TaskOK
  <2> QED
    BY <2>1, <2>2 DEF Tasks
<1>6. access' \in [Agent -> [Pair -> {"none", "on", "off"}]]
  BY <1>2 DEF PlansInv, PlanTypes
<1>7. \A g \in Agent : On(g)' = On(g) \ {p}
  BY <1>1, <1>2 DEF On, PlansInv, PlanTypes
<1>8. AccessToPlans' /\ OnePlanOn' /\ WholePlans'
  <2>1. \A q \in Plans' : plan'[q] = plan[q]
    BY <1>3, <1>4 DEF Plans
  <2>2. \A g \in Agent : On(g) \subseteq Plans
    BY DEF PlansInv, AccessToPlans
  <2> QED
    BY <1>2, <1>4, <1>7, <2>1, <2>2, AccessShrinks
<1>9. PlanTypes'
  BY <1>1, <1>2, <1>6 DEF PlansInv, PlanTypes, Ends
<1>10. PlansHaveMasters' /\ CodesFollowTheMaster'
  BY <1>2, <1>3, <1>4 DEF PlansInv, PlansHaveMasters, CodesFollowTheMaster, Plans
<1> QED
  BY <1>5, <1>8, <1>9, <1>10 DEF PlansInv

LEMMA RemoveAgentKeeps ==
    ASSUME PlansInv, NEW e \in Editor, NEW g \in Agent, NEW m \in Master,
           removeAgentHotelRatePlan(e, g, m)
    PROVE  PlansInv'
<1>1. /\ AsksOnce(e) /\ UNCHANGED <<master, plan, sold, crossed, reopened>>
      /\ access' = [access EXCEPT ![g] =
                      [p \in Pair |-> IF @[p] = "on" /\ MasterOf(p) = m THEN "off" ELSE @[p]]]
  BY DEF removeAgentHotelRatePlan
<1>2. Plans' = Plans /\ Masters' = Masters
  BY <1>1 DEF Plans, Masters
<1>3. Grantable' = Grantable
  BY <1>1, <1>2 DEF Grantable
<1>4. Tasks' /\ asked' \in 0..MaxAsked
  BY <1>1, <1>3, Answered
<1>5. access' \in [Agent -> [Pair -> {"none", "on", "off"}]]
  BY <1>1 DEF PlansInv, PlanTypes
<1>6. \A h \in Agent : On(h)' = IF h = g THEN {p \in On(h) : MasterOf(p) # m} ELSE On(h)
  BY <1>1 DEF On, PlansInv, PlanTypes
<1>7. \A h \in Agent : \A p \in On(h) : MasterOf(p) \in PlansOf(h)' => p \in On(h)'
  <2> SUFFICES ASSUME NEW h \in Agent, NEW p \in On(h), MasterOf(p) \in PlansOf(h)'
               PROVE  p \in On(h)'
    OBVIOUS
  <2>1. PICK q \in On(h)' : MasterOf(q) = MasterOf(p)
    BY DEF PlansOf
  <2> QED
    BY <2>1, <1>6
<1>8. AccessToPlans' /\ OnePlanOn' /\ WholePlans'
  <2>1. \A h \in Agent : On(h)' \subseteq On(h) /\ On(h)' \subseteq Plans'
    BY <1>2, <1>6 DEF PlansInv, AccessToPlans
  <2> QED
    BY <1>1, <1>2, <1>7, <2>1, AccessShrinks
<1>9. PlanTypes'
  BY <1>1, <1>4, <1>5 DEF PlansInv, PlanTypes
<1>10. PlansHaveMasters' /\ CodesFollowTheMaster'
  BY <1>1, <1>2 DEF PlansInv, PlansHaveMasters, CodesFollowTheMaster
<1> QED
  BY <1>4, <1>8, <1>9, <1>10 DEF PlansInv

\* An agent is switched to the assignments it was given.
LEMMA SwitchKeeps ==
    ASSUME PlansInv, NEW e \in Editor, switchAgent(e)
    PROVE  PlansInv'
<1> DEFINE t == task[e]
<1>0. PICK g \in Agent : g = t.agent
  BY PlanRequestFields DEF PlansInv, Tasks, switchAgent
<1>1. /\ t \in PlanRequest /\ t.op = "agent" /\ t.found
      /\ t.take \subseteq Pair /\ t.drop \subseteq Pair /\ t.seen \subseteq Pair
      /\ \A p, q \in t.take : MasterOf(p) = MasterOf(q)
      /\ \A m \in t.master : t.take # {} /\ \A p \in t.take : MasterOf(p) = m
      /\ t.drop = {p \in t.seen : p \notin t.take /\ MasterOf(p) \notin t.master}
  BY PlanRequestFields DEF PlansInv, Tasks, TaskOK, switchAgent
<1>2. UNCHANGED <<master, plan, sold, reopened>> /\ Ends(e)
  BY DEF switchAgent
<1>3. Plans' = Plans /\ Masters' = Masters
  BY <1>2 DEF Plans, Masters
<1>4. Grantable' = Grantable
  BY <1>2, <1>3 DEF Grantable
<1>5. Tasks' /\ asked' \in 0..MaxAsked
  BY <1>2, <1>4, Answered
<1>6. g \notin Pair
  BY RatePlansAssumption
<1>7. PlansHaveMasters' /\ CodesFollowTheMaster'
  <2>1. \A p \in Plans : p \notin crossed' => p \notin crossed
    BY <1>0, <1>6 DEF switchAgent, Plans
  <2> QED
    BY <1>2, <1>3, <2>1 DEF PlansInv, PlansHaveMasters, CodesFollowTheMaster
<1>8. CASE ~(t.take \subseteq Plans)
  <2>1. UNCHANGED <<access, crossed>>
    BY <1>8 DEF switchAgent
  <2>2. \E x : TaskOK(x, Grantable) /\ task' = [task EXCEPT ![e] = x]
    BY <1>2, IdleOK DEF Ends
  <2> QED
    BY <1>2, <2>1, <2>2, OnlyTask DEF Ends, PlansInv, PlanTypes
<1>9. CASE t.take \subseteq Plans
  <2>1. /\ access' = [access EXCEPT ![g] =
                        [p \in Pair |-> IF p \in t.take THEN "on"
                                        ELSE IF p \in t.drop /\ @[p] = "on" THEN "off" ELSE @[p]]]
        /\ crossed' = IF On(g) # t.seen \/ Moved(t) THEN crossed \cup {g} ELSE crossed \ {g}
    BY <1>0, <1>9 DEF switchAgent
  <2>2. access' \in [Agent -> [Pair -> {"none", "on", "off"}]]
    BY <1>1, <2>1 DEF PlansInv, PlanTypes
  <2>3. \A h \in Agent : h # g => access'[h] = access[h]
    BY <2>1, <1>1 DEF PlansInv, PlanTypes
  <2>4. \A p \in Pair : access'[g][p] = IF p \in t.take THEN "on"
                          ELSE IF p \in t.drop /\ access[g][p] = "on" THEN "off" ELSE access[g][p]
    BY <2>1, <1>1 DEF PlansInv, PlanTypes
  <2>5. On(g)' = t.take \cup (On(g) \ t.drop)
    BY <2>4, <1>1 DEF On
  <2>6. \A h \in Agent : h # g => On(h)' = On(h) /\ PlansOf(h)' = PlansOf(h)
    BY <2>3 DEF On, PlansOf
  <2>7. \A h \in Agent \ crossed' : h = g \/ h \notin crossed
    BY <2>1
  <2>8. AccessToPlans'
    <3>1. \A h \in Agent : On(h) \subseteq Plans
      BY DEF PlansInv, AccessToPlans
    <3> QED
      BY <3>1, <2>5, <2>6, <1>3, <1>9 DEF AccessToPlans
  <2>9. g \notin crossed' => On(g) = t.seen /\ ~Moved(t)
    BY <2>1
  <2>10. ASSUME g \notin crossed'
         PROVE  On(g)' = t.take \cup {p \in On(g) : MasterOf(p) \in t.master}
    BY <2>5, <2>9, <2>10, <1>1
  <2>11. ASSUME g \notin crossed', NEW p \in On(g)', NEW q \in On(g)'
         PROVE  MasterOf(p) = MasterOf(q)
    BY <2>10, <2>11, <1>1
  <2>12. OnePlanOn'
    <3> SUFFICES ASSUME NEW h \in Agent \ crossed', NEW p \in On(h)', NEW q \in On(h)'
                 PROVE  MasterOf(p) = MasterOf(q)
      BY DEF OnePlanOn
    <3>1. CASE h = g
      BY <3>1, <2>11
    <3>2. CASE h # g
      BY <3>2, <2>6, <2>7 DEF PlansInv, OnePlanOn
    <3> QED
      BY <3>1, <3>2
  <2>13. WholePlans'
    <3>1. \A m : Bookable(m)' = Bookable(m)
      BY <1>2, <1>3 DEF Bookable, AssignmentsOf
    <3> SUFFICES ASSUME NEW h \in Agent \ crossed', NEW m \in PlansOf(h)', NEW p \in Bookable(m),
                        RoomOf(p) \notin reopened
                 PROVE  p \in On(h)'
      BY <3>1, <1>2 DEF WholePlans
    <3>2. CASE h # g
      <4>1. m \in PlansOf(h) /\ h \notin crossed
        BY <3>2, <2>6, <2>7
      <4> QED
        BY <4>1, <3>2, <2>6 DEF PlansInv, WholePlans
    <3>3. CASE h = g
      <4>1. PICK q \in On(g)' : MasterOf(q) = m
        BY <3>3 DEF PlansOf
      <4>2. t.take # {}
        BY <4>1, <3>3, <2>10, <1>1
      <4>3. PICK n \in Masters : Bookable(n) = t.take
        BY <4>2, <3>3, <2>9 DEF Moved
      <4>4. PICK r \in t.take : MasterOf(r) = n
        BY <4>2, <4>3 DEF Bookable, AssignmentsOf
      <4>5. r \in On(g)'
        BY <4>4, <2>5
      <4>6. m = n
        BY <4>1, <4>4, <4>5, <3>3, <2>11
      <4> QED
        BY <4>3, <4>6, <3>3, <2>5
    <3> QED
      BY <3>2, <3>3
  <2>14. PlanTypes'
    BY <1>2, <1>5, <2>2 DEF PlansInv, PlanTypes
  <2> QED
    BY <1>5, <1>7, <2>8, <2>12, <2>13, <2>14 DEF PlansInv
<1> QED
  BY <1>8, <1>9
-----------------------------------------------------------------------------
LEMMA StepPlans == ASSUME PlansInv, [PlansNext]_plansVars PROVE PlansInv'
<1>1. CASE PlansNext
  <2>1. PICK e \in Editor :
          \/ \E m \in Master :
              \/ \E c \in Code, rooms \in SUBSET RoomType : createRatePlanMaster(e, m, c, rooms)
              \/ ReadMaster(e, m) \/ deleteRatePlanMaster(e, m)
          \/ \E p \in Pair :
              \/ \E active \in BOOLEAN : ReadForAssignment(e, p, active) \/ ReadAssignment(e, p, active)
              \/ saveRates(e, p) \/ CountDependencies(e, p)
          \/ \E r \in RoomType :
              \/ \E c \in Code, active \in BOOLEAN : createRatePlan(e, r, c, active)
              \/ updateRoom(e, r)
          \/ \E g \in Agent :
              \/ mapRatePlans(e, g)
              \/ \E m \in Master : assignAgentHotelRatePlan(e, g, m) \/ removeAgentHotelRatePlan(e, g, m)
          \/ updateRatePlanMaster(e) \/ FindAgents(e) \/ propagateAgentAccess(e) \/ assignInactive(e)
          \/ deleteRatePlanAssignment(e) \/ FindOthers(e) \/ switchAgent(e)
    BY <1>1 DEF PlansNext
  <2>2. ASSUME NEW m \in Master,
               \/ \E c \in Code, rooms \in SUBSET RoomType : createRatePlanMaster(e, m, c, rooms)
               \/ ReadMaster(e, m) \/ deleteRatePlanMaster(e, m)
        PROVE  PlansInv'
    BY <2>2, CreateMasterKeeps, ReadMasterKeeps, DeleteMasterKeeps
  <2>3. ASSUME NEW p \in Pair,
               \/ \E active \in BOOLEAN : ReadForAssignment(e, p, active) \/ ReadAssignment(e, p, active)
               \/ saveRates(e, p) \/ CountDependencies(e, p)
        PROVE  PlansInv'
    BY <2>3, ReadAssignmentsKeep, SaveRatesKeeps, CountKeeps
  <2>4. ASSUME NEW r \in RoomType,
               \/ \E c \in Code, active \in BOOLEAN : createRatePlan(e, r, c, active)
               \/ updateRoom(e, r)
        PROVE  PlansInv'
    BY <2>4, CreatePlanKeeps, UpdateRoomKeeps
  <2>5. ASSUME NEW g \in Agent,
               \/ mapRatePlans(e, g)
               \/ \E m \in Master : assignAgentHotelRatePlan(e, g, m) \/ removeAgentHotelRatePlan(e, g, m)
        PROVE  PlansInv'
    BY <2>5, AgentsKeep, RemoveAgentKeeps
  <2>6. CASE \/ updateRatePlanMaster(e) \/ FindAgents(e) \/ propagateAgentAccess(e) \/ assignInactive(e)
             \/ deleteRatePlanAssignment(e) \/ FindOthers(e) \/ switchAgent(e)
    BY <2>6, UpdateMasterKeeps, FindKeeps, PropagateKeeps, AssignKeeps, DeleteAssignmentKeeps,
       SwitchKeeps
  <2> QED
    BY <2>1, <2>2, <2>3, <2>4, <2>5, <2>6
<1>2. CASE UNCHANGED plansVars
  <2>1. UNCHANGED <<master, plan, sold, access, task, asked, crossed, reopened>>
    BY <1>2 DEF plansVars
  <2>2. Plans' = Plans /\ Masters' = Masters
    BY <2>1 DEF Plans, Masters
  <2>3. Grantable' = Grantable
    BY <2>1, <2>2 DEF Grantable
  <2>4. Tasks'
    BY <2>1, <2>3 DEF PlansInv, Tasks
  <2>5. AccessToPlans' /\ OnePlanOn' /\ WholePlans'
    BY <2>1, <2>2, AccessKept
  <2>6. PlanTypes' /\ PlansHaveMasters' /\ CodesFollowTheMaster'
    BY <2>1, <2>2 DEF PlansInv, PlanTypes, PlansHaveMasters, CodesFollowTheMaster
  <2> QED
    BY <2>4, <2>5, <2>6 DEF PlansInv
<1> QED
  BY <1>1, <1>2

LEMMA InitPlans == PlansInit => PlansInv
<1> SUFFICES ASSUME PlansInit
             PROVE  PlansInv
  OBVIOUS
<1>1. PICK stocked \in BOOLEAN, code \in [Master -> Code] :
        /\ master = [m \in Master |-> IF stocked THEN [code |-> code[m], active |-> TRUE] ELSE Nothing]
        /\ plan = [p \in Pair |-> IF stocked THEN [code |-> code[MasterOf(p)], active |-> TRUE,
                                                   priced |-> FALSE] ELSE Nothing]
  BY DEF PlansInit
<1>2. \A m \in Master : [code |-> code[m], active |-> TRUE] \in MasterRow
  BY DEF MasterRow
<1>3. \A p \in Pair : [code |-> code[MasterOf(p)], active |-> TRUE, priced |-> FALSE] \in PlanRow
  BY PairFacts DEF PlanRow
<1>4. master \in [Master -> {Nothing, Removed} \cup MasterRow]
  BY <1>1, <1>2
<1>5. plan \in [Pair -> {Nothing, Removed} \cup PlanRow]
  BY <1>1, <1>3
<1>6. \A g \in Agent : On(g) = {} /\ PlansOf(g) = {}
  BY DEF PlansInit, On, PlansOf
<1>7. PlanTypes
  BY <1>4, <1>5, RatePlansAssumption DEF PlansInit, PlanTypes
<1>8. Tasks
  BY IdleOK DEF PlansInit, Tasks, TaskOK
<1>9. AccessToPlans /\ OnePlanOn /\ WholePlans
  BY <1>6 DEF AccessToPlans, OnePlanOn, WholePlans
<1>10. \A p \in Plans : MasterOf(p) \in Masters /\ plan[p].code = master[MasterOf(p)].code
  <2> SUFFICES ASSUME NEW p \in Plans
               PROVE  MasterOf(p) \in Masters /\ plan[p].code = master[MasterOf(p)].code
    OBVIOUS
  <2>1. p \in Pair /\ MasterOf(p) \in Master /\ plan[p] # Nothing
    BY PairFacts DEF Plans
  <2>2. stocked
    BY <2>1, <1>1
  <2>3. master[MasterOf(p)] = [code |-> code[MasterOf(p)], active |-> TRUE]
        /\ plan[p].code = code[MasterOf(p)]
    BY <2>1, <2>2, <1>1
  <2> QED
    BY <2>1, <2>3, <1>2, RowsApart DEF Masters
<1> QED
  BY <1>7, <1>8, <1>9, <1>10 DEF PlansInv, PlansHaveMasters, CodesFollowTheMaster

\* Assignments have their plans, agents book by assignments that are there, and
\* no request under way will give an agent two plans.
THEOREM PlansHold == PlansSpec => []PlansInv
<1>1. PlansInv /\ [PlansNext]_plansVars => PlansInv'
  BY StepPlans
<1> QED
  BY <1>1, InitPlans, PTL DEF PlansSpec

\* An agent has at most one commercial plan of a hotel, and all of it, through
\* every order of requests in which none overtakes another on the same agent
\* (users.controller.ts:187, hotels.service.ts:656, agents.service.ts:28).
THEOREM WholePlanOrNone == PlansSpec => []AgentsHaveWholePlans
<1>1. PlansInv => AgentsHaveWholePlans
  <2> SUFFICES ASSUME PlansInv, NEW g \in Agent \ crossed
               PROVE  Cardinality(PlansOf(g)) <= 1
    BY DEF AgentsHaveWholePlans, OnePlanAnAgent, PlansInv
  <2>1. \A m, n \in PlansOf(g) : m = n
    BY DEF PlansInv, OnePlanOn, PlansOf
  <2> QED
    BY <2>1, AtMostOne
<1> QED
  BY <1>1, PlansHold, PTL

\* An assignment carries its master's code unless the master was renamed while
\* it was being made (hotels.service.ts:610, 632).
THEOREM CodesFollow == PlansSpec => []CodesFollowTheMaster
<1>1. PlansInv => CodesFollowTheMaster
  BY DEF PlansInv
<1> QED
  BY <1>1, PlansHold, PTL
=============================================================================
