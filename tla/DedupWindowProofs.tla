--------------------------- MODULE DedupWindowProofs ---------------------------
(***************************************************************************)
(* Buckets of the dedup key, for every calendar and every length of a      *)
(* window: from one hour to the next the key changes exactly where a       *)
(* window begins (Marks), and a key that changed does not come back        *)
(* (Stays). Both together are what BucketsAreCut says of any two instants. *)
(***************************************************************************)
EXTENDS DedupWindow, FiniteSetTheorems, WellFoundedInduction, TLAPS

-----------------------------------------------------------------------------
(* Natural numbers *)

\* Every set of naturals that has an element has a least one: the finite sets 0..n
\* are well-founded under inclusion. This is induction, without an operator.
LEMMA Least ==
    ASSUME NEW T \in SUBSET Nat, T # {}
    PROVE  \E m \in T : \A k \in T : m =< k
<1> DEFINE U == {0..n : n \in T}
<1>1. IsWellFoundedOn(StrictSubsetOrdering(Nat), FiniteSubsetsOf(Nat))
  BY FS_StrictSubsetOrderingWellFounded
<1>2. U \subseteq FiniteSubsetsOf(Nat)
  <2>1. \A n \in T : IsFiniteSet(0..n) /\ 0..n \in SUBSET Nat
    BY FS_Interval
  <2> QED
    BY <2>1 DEF FiniteSubsetsOf
<1>3. PICK x \in U : \A y \in U : <<y, x>> \notin StrictSubsetOrdering(Nat)
  <2>1. U # {}
    OBVIOUS
  <2> HIDE DEF U
  <2> QED
    BY <1>1, <1>2, <2>1, WFMin
<1>4. PICK m \in T : x = 0..m
  BY <1>3
<1>5. ASSUME NEW k \in T, k < m PROVE FALSE
  <2>1. 0..k \in U
    OBVIOUS
  <2>2. 0..k \subseteq 0..m /\ m \in 0..m /\ m \notin 0..k
    BY <1>5, <1>4
  <2>3. 0..k \in SUBSET Nat /\ 0..m \in SUBSET Nat
    BY <1>4
  <2>4. <<0..k, 0..m>> \in StrictSubsetOrdering(Nat)
    BY <2>2, <2>3 DEF StrictSubsetOrdering
  <2> QED
    BY <2>1, <2>4, <1>3, <1>4
<1> QED
  BY <1>4, <1>5

\* Counting by n: the quotient grows by one where n divides, and nowhere else.
LEMMA Quotients ==
    ASSUME NEW x \in Nat, NEW n \in Nat \ {0}
    PROVE  /\ x \div n \in Nat
           /\ (x + 1) \div n # x \div n <=> (x + 1) % n = 0
           /\ \A y \in Nat : x =< y => x \div n =< y \div n
OBVIOUS

\* Floored is the quotient in other words.
LEMMA FlooredEqual ==
    ASSUME NEW x \in Nat, NEW y \in Nat, NEW n \in Nat \ {0}
    PROVE  Floored(x, n) = Floored(y, n) <=> x \div n = y \div n
<1>1. x \div n \in Nat /\ y \div n \in Nat
  BY Quotients
<1>2. \A a, b \in Nat : a * n = b * n <=> a = b
  OBVIOUS
<1> QED
  BY <1>1, <1>2 DEF Floored

\* Weeks of d days, counted by n, are days counted by d * n.
LEMMA QuotientOfQuotient ==
    ASSUME NEW x \in Nat, NEW d \in Nat \ {0}, NEW n \in Nat \ {0}
    PROVE  (x \div d) \div n = x \div (d * n) /\ d * n \in Nat \ {0}
OBVIOUS

-----------------------------------------------------------------------------
(* Counters that go on by one and start over with each new era *)

\* From one step to the next the era e stays and the count c stays or grows by one,
\* or the next era begins with count 0.
GoesOn(e, c, s) ==
    \/ e[s] = e[s - 1] /\ c[s] \in {c[s - 1], c[s - 1] + 1}
    \/ e[s] = e[s - 1] + 1 /\ c[s] = 0

\* A bucket of n begins.
Starts(e, c, n, s) == e[s] # e[s - 1] \/ (c[s] # c[s - 1] /\ c[s] % n = 0)

LEMMA Sandwich ==
    \A p, q, r, x \in Nat : p =< q /\ q =< r /\ r =< x /\ p = x => q = r
OBVIOUS

LEMMA Grows ==
    ASSUME NEW N \in Int, NEW e \in [0..N -> Nat], NEW c \in [0..N -> Nat],
           \A s \in (0..N) \ {0} : GoesOn(e, c, s),
           NEW a \in 0..N, NEW b \in 0..N, a =< b
    PROVE  e[a] =< e[b] /\ (e[a] = e[b] => c[a] =< c[b])
<1> DEFINE Good(x) == e[a] =< e[x] /\ (e[a] = e[x] => c[a] =< c[x])
           T == {x \in 0..N : a =< x /\ ~Good(x)}
<1> SUFFICES ASSUME T # {} PROVE FALSE
  OBVIOUS
<1>1. PICK m \in T : \A k \in T : m =< k
  <2>1. T \in SUBSET Nat
    OBVIOUS
  <2> HIDE DEF T
  <2> QED
    BY <2>1, Least
<1>2. m # a /\ m \in (0..N) \ {0} /\ m - 1 \in 0..N /\ a =< m - 1 /\ m - 1 < m
  <2>1. m # a
    BY <1>1
  <2> QED
    BY <1>1, <2>1
<1>3. Good(m - 1)
  BY <1>1, <1>2
<1>4. GoesOn(e, c, m)
  BY <1>2
<1>5. e[m] \in Nat /\ e[m - 1] \in Nat /\ c[m] \in Nat /\ c[m - 1] \in Nat /\ e[a] \in Nat /\ c[a] \in Nat
  BY <1>2
<1>6. Good(m)
  <2>1. CASE e[m] = e[m - 1] /\ c[m] \in {c[m - 1], c[m - 1] + 1}
    BY <1>3, <1>5, <2>1
  <2>2. CASE e[m] = e[m - 1] + 1 /\ c[m] = 0
    <3>1. e[a] =< e[m - 1]
      BY <1>3
    <3>2. e[a] =< e[m - 1] + 1 /\ e[a] # e[m - 1] + 1
      <4>1. e[a] \in Nat /\ e[m - 1] \in Nat
        BY <1>5
      <4>2. \A p, q \in Nat : p =< q => p =< q + 1 /\ p # q + 1
        OBVIOUS
      <4> QED
        BY <3>1, <4>1, <4>2, Zenon
    <3>3. e[a] =< e[m] /\ e[a] # e[m]
      BY <2>2, <3>2
    <3> QED
      BY <3>3
  <2> QED
    BY <1>4, <2>1, <2>2 DEF GoesOn
<1> QED
  BY <1>1, <1>6

\* Two steps share a bucket exactly when none starts between them.
LEMMA Buckets ==
    ASSUME NEW N \in Int, NEW e \in [0..N -> Nat], NEW c \in [0..N -> Nat],
           \A s \in (0..N) \ {0} : GoesOn(e, c, s),
           NEW n \in Nat \ {0}, NEW t \in 0..N, NEW u \in 0..N, t =< u
    PROVE  (e[t] = e[u] /\ c[t] \div n = c[u] \div n) <=>
               \A s \in (t + 1)..u : ~Starts(e, c, n, s)
<1> DEFINE Same(x, y) == e[x] = e[y] /\ c[x] \div n = c[y] \div n
<1>1. \A s \in 0..N : e[s] \in Nat /\ c[s] \in Nat /\ c[s] \div n \in Nat
  BY Quotients
<1>2. ASSUME NEW s \in (0..N) \ {0}
      PROVE  s - 1 \in 0..N /\ (Starts(e, c, n, s) <=> ~Same(s - 1, s))
  <2>1. s - 1 \in 0..N /\ c[s - 1] \in Nat
    OBVIOUS
  <2>2. (c[s - 1] + 1) \div n # c[s - 1] \div n <=> (c[s - 1] + 1) % n = 0
    BY <2>1, Quotients
  <2>3. GoesOn(e, c, s)
    OBVIOUS
  <2>4. CASE e[s] # e[s - 1]
    BY <2>1, <2>4 DEF Starts
  <2>5. CASE c[s] = c[s - 1]
    BY <2>1, <2>5 DEF Starts
  <2>6. CASE e[s] = e[s - 1] /\ c[s] = c[s - 1] + 1
    BY <2>1, <2>2, <2>6 DEF Starts
  <2>7. e[s - 1] \in Nat
    BY <2>1
  <2> QED
    BY <2>1, <2>3, <2>4, <2>5, <2>6, <2>7 DEF GoesOn
<1>3. ASSUME Same(t, u), NEW s \in (t + 1)..u PROVE ~Starts(e, c, n, s)
  <2>1. s \in (0..N) \ {0} /\ s - 1 \in 0..N /\ t =< s - 1 /\ s - 1 =< s /\ s =< u
    OBVIOUS
  <2>2. e[t] =< e[s - 1] /\ e[s - 1] =< e[s] /\ e[s] =< e[u]
    BY <2>1, Grows
  <2>3. e[t] = e[s - 1] /\ e[s - 1] = e[s] /\ e[s] = e[u]
    <3>1. e[t] \in Nat /\ e[s - 1] \in Nat /\ e[s] \in Nat /\ e[u] \in Nat /\ e[t] = e[u]
      BY <2>1, <1>1, <1>3
    <3> QED
      BY <2>2, <3>1
  <2>4. c[t] =< c[s - 1] /\ c[s - 1] =< c[s] /\ c[s] =< c[u]
    BY <2>1, <2>3, Grows
  <2>5. /\ c[t] \div n =< c[s - 1] \div n /\ c[s - 1] \div n =< c[s] \div n
        /\ c[s] \div n =< c[u] \div n
    BY <2>1, <2>4, <1>1, Quotients
  <2>6. c[s - 1] \div n = c[s] \div n
    <3>1. c[t] \div n = c[u] \div n
      BY <1>3
    <3> QED
      BY <2>1, <2>5, <3>1, <1>1, Sandwich
  <2> QED
    BY <2>1, <2>3, <2>6, <1>2
<1>4. ASSUME \A s \in (t + 1)..u : ~Starts(e, c, n, s) PROVE Same(t, u)
  <2> DEFINE T == {s \in t..u : ~Same(t, s)}
  <2> SUFFICES ASSUME T # {} PROVE FALSE
    <3>1. u \in t..u
      OBVIOUS
    <3> HIDE DEF Same
    <3> QED
      BY <3>1
  <2>1. PICK m \in T : \A k \in T : m =< k
    <3>1. T \in SUBSET Nat
      OBVIOUS
    <3> HIDE DEF T
    <3> QED
      BY <3>1, Least
  <2>2. m # t
    BY <2>1
  <2>3. /\ m \in (t + 1)..u /\ m \in (0..N) \ {0} /\ m - 1 \in t..u
        /\ ~(m =< m - 1)
    BY <2>1, <2>2
  <2>4. Same(t, m - 1)
    BY <2>1, <2>3
  <2>5. Same(m - 1, m)
    BY <2>3, <1>2, <1>4
  <2>6. Same(t, m)
    BY <2>4, <2>5
  <2> QED
    BY <2>1, <2>6
<1> QED
  BY <1>3, <1>4

-----------------------------------------------------------------------------
(* The clock *)

\* Quotient and remainder of s by h, one before s, and further on.
LEMMA Division ==
    ASSUME NEW s \in Nat, NEW h \in Nat \ {0}
    PROVE  /\ s \div h \in Nat /\ s % h \in Nat /\ s % h < h
           /\ \A c \in Nat : s < c * h => s \div h < c
<1>1. s \div h \in Nat
  OBVIOUS
<1>2. s % h \in Nat /\ s % h < h
  OBVIOUS
<1>3. ASSUME NEW c \in Nat, s < c * h PROVE s \div h < c
  BY <1>3
<1> QED
  BY <1>1, <1>2, <1>3

LEMMA NextDivision ==
    ASSUME NEW s \in Nat, NEW h \in Nat \ {0}
    PROVE  \/ (s + 1) \div h = s \div h /\ (s + 1) % h = (s % h) + 1
           \/ (s + 1) \div h = s \div h + 1 /\ (s + 1) % h = 0
OBVIOUS

LEMMA LaterDivision ==
    ASSUME NEW s \in Nat, NEW h \in Nat \ {0}, NEW x \in Nat, s =< x
    PROVE  /\ s \div h =< x \div h
           /\ s \div h = x \div h => s % h =< x % h
OBVIOUS

LEMMA Clock ==
    ASSUME NEW s \in Instant
    PROVE  /\ s \in Nat
           /\ DayOf(s) \in Day /\ DayOf(s) \in Nat
           /\ HourOf(s) \in Nat /\ HourOf(s) < HoursPerDay
<1>1. Cardinality(Day) \in Nat /\ HoursPerDay \in Nat \ {0}
  BY CalendarAssumption, FS_CardinalityType
<1>2. s \in Nat /\ s < Cardinality(Day) * HoursPerDay
  BY <1>1 DEF Instant
<1>3. /\ s \div HoursPerDay \in Nat /\ s % HoursPerDay \in Nat
      /\ s % HoursPerDay < HoursPerDay /\ s \div HoursPerDay < Cardinality(Day)
  BY <1>1, <1>2, Division
<1>4. s \div HoursPerDay \in 0..(Cardinality(Day) - 1)
  BY <1>1, <1>3
<1> QED
  BY <1>2, <1>3, <1>4, CalendarAssumption DEF DayOf, HourOf

\* An hour later it is the next hour of the day or the first of the next day.
LEMMA NextHour ==
    ASSUME NEW s \in Instant \ {0}
    PROVE  /\ s - 1 \in Instant
           /\ \/ DayOf(s) = DayOf(s - 1) /\ HourOf(s) = HourOf(s - 1) + 1
              \/ DayOf(s) = DayOf(s - 1) + 1 /\ HourOf(s) = 0
<1>1. Cardinality(Day) \in Nat /\ HoursPerDay \in Nat \ {0}
  BY CalendarAssumption, FS_CardinalityType
<1>2. Cardinality(Day) * HoursPerDay - 1 \in Int
  BY <1>1
<1>3. s - 1 \in Instant /\ s - 1 \in Nat /\ (s - 1) + 1 = s
  BY <1>2 DEF Instant
<1> QED
  BY <1>1, <1>3, NextDivision DEF DayOf, HourOf

LEMMA Later ==
    ASSUME NEW t \in Instant, NEW u \in Instant, t =< u
    PROVE  /\ DayOf(t) =< DayOf(u)
           /\ DayOf(t) = DayOf(u) => HourOf(t) =< HourOf(u)
<1>1. HoursPerDay \in Nat \ {0} /\ t \in Nat /\ u \in Nat
  BY CalendarAssumption, Clock
<1> QED
  BY <1>1, LaterDivision DEF DayOf, HourOf

-----------------------------------------------------------------------------
(* The calendar *)

DayYear == [d \in Day |-> Calendar[d].year]
DayMonth == [d \in Day |-> Calendar[d].month]

Earlier(d) == {e \in Day : e < d /\ DayYear[e] = DayYear[d]}
DayNumber == [d \in Day |-> Cardinality(Earlier(d))]

LEMMA Days ==
    /\ Cardinality(Day) - 1 \in Int /\ Day = 0..(Cardinality(Day) - 1)
    /\ DayYear \in [Day -> Nat] /\ DayMonth \in [Day -> Nat] /\ DayNumber \in [Day -> Nat]
    /\ \A d \in Day : Earlier(d) \in SUBSET Day /\ IsFiniteSet(Earlier(d))
    /\ \A d \in Day \ {0} : d - 1 \in Day /\ GoesOn(DayYear, DayMonth, d)
<1>1. /\ Cardinality(Day) - 1 \in Int /\ Day = 0..(Cardinality(Day) - 1)
      /\ IsFiniteSet(Day)
  BY CalendarAssumption, FS_CardinalityType
<1>2. \A d \in Day : Calendar[d] \in [year : Nat, month : Nat]
  BY CalendarAssumption
<1>3. DayYear \in [Day -> Nat] /\ DayMonth \in [Day -> Nat]
  BY <1>2 DEF DayYear, DayMonth
<1>4. \A d \in Day : Earlier(d) \in SUBSET Day /\ IsFiniteSet(Earlier(d))
  BY <1>1, FS_Subset DEF Earlier
<1>5. DayNumber \in [Day -> Nat]
  BY <1>4, FS_CardinalityType DEF DayNumber
<1>6. ASSUME NEW d \in Day \ {0}
      PROVE  d - 1 \in Day /\ GoesOn(DayYear, DayMonth, d)
  <2>1. d - 1 \in Day
    BY <1>1
  <2>2. Follows(Calendar[d], Calendar[d - 1])
    BY CalendarAssumption
  <2> DEFINE a == Calendar[d - 1]
             b == Calendar[d]
  <2>3. a \in [year : Nat, month : Nat] /\ b \in [year : Nat, month : Nat]
    BY <1>2, <2>1
  <2>4. \/ b.year = a.year /\ b.month \in {a.month, a.month + 1}
        \/ b.year = a.year + 1 /\ b.month = 0
    <3> HIDE DEF a, b
    <3>1. Follows(b, a)
      BY <2>2 DEF a, b
    <3> QED
      BY <3>1, <2>3 DEF Follows
  <2> QED
    BY <2>1, <2>4 DEF GoesOn, DayYear, DayMonth
<1> QED
  BY <1>1, <1>3, <1>4, <1>5, <1>6

\* The days of a year are counted one by one.
LEMMA DayNumbers ==
    ASSUME NEW d \in Day \ {0}
    PROVE  /\ GoesOn(DayYear, DayNumber, d)
           /\ \/ DayYear[d] = DayYear[d - 1] /\ DayNumber[d] = DayNumber[d - 1] + 1
              \/ DayYear[d] = DayYear[d - 1] + 1 /\ DayNumber[d] = 0
<1>1. d - 1 \in Day /\ GoesOn(DayYear, DayMonth, d)
  BY Days
<1>2. d \in Nat /\ d - 1 \in Nat /\ \A e \in Day : e < d <=> e < d - 1 \/ e = d - 1
  BY <1>1, Days
<1>3. CASE DayYear[d] = DayYear[d - 1]
  <2>1. Earlier(d) = Earlier(d - 1) \cup {d - 1} /\ d - 1 \notin Earlier(d - 1)
    <3>1. \A e \in Day : e \in Earlier(d) <=> e \in Earlier(d - 1) \/ e = d - 1
      BY <1>1, <1>2, <1>3, Zenon DEF Earlier
    <3>2. Earlier(d) \subseteq Day /\ Earlier(d - 1) \subseteq Day
      BY DEF Earlier
    <3>3. ~(d - 1 < d - 1)
      BY <1>2
    <3>4. d - 1 \notin Earlier(d - 1)
      BY <3>3, Zenon DEF Earlier
    <3> QED
      BY <1>1, <3>1, <3>2, <3>4, Zenon
  <2>2. IsFiniteSet(Earlier(d - 1))
    BY <1>1, Days
  <2>3. Cardinality(Earlier(d)) = Cardinality(Earlier(d - 1)) + 1
    BY <2>1, <2>2, FS_AddElement
  <2> QED
    BY <1>1, <1>3, <2>3 DEF DayNumber, GoesOn
<1>4. CASE DayYear[d] = DayYear[d - 1] + 1
  <2>1. ASSUME NEW e \in Day, e < d PROVE DayYear[e] # DayYear[d]
    <3>1. e =< d - 1
      BY <1>1, <1>2, <2>1, Days
    <3>2. DayYear[e] =< DayYear[d - 1]
      BY <1>1, <3>1, Days, Grows
    <3>3. DayYear[e] \in Nat /\ DayYear[d - 1] \in Nat
      BY <1>1, Days
    <3> QED
      BY <3>2, <3>3, <1>4
  <2>2. Earlier(d) = {}
    BY <2>1 DEF Earlier
  <2>3. DayNumber[d] = 0
    BY <2>2, FS_EmptySet DEF DayNumber
  <2> QED
    BY <2>3, <1>4 DEF GoesOn
<1> QED
  BY <1>1, <1>3, <1>4 DEF GoesOn

-----------------------------------------------------------------------------
(* The fields of a datetime *)

DayAt == [s \in Instant |-> DayOf(s)]
HourAt == [s \in Instant |-> HourOf(s)]
YearAt == [s \in Instant |-> YearOf(s)]
MonthAt == [s \in Instant |-> MonthOf(s)]
DayOfYearAt == [s \in Instant |-> DayOfYear(s)]

LEMMA Fields ==
    ASSUME NEW s \in Instant
    PROVE  /\ YearOf(s) = DayYear[DayOf(s)] /\ YearOf(s) \in Nat
           /\ MonthOf(s) = DayMonth[DayOf(s)] /\ MonthOf(s) \in Nat
           /\ DayOfYear(s) = DayNumber[DayOf(s)] /\ DayOfYear(s) \in Nat
<1>1. DayOf(s) \in Day
  BY Clock
<1>2. YearOf(s) = DayYear[DayOf(s)] /\ MonthOf(s) = DayMonth[DayOf(s)]
  BY <1>1 DEF YearOf, MonthOf, DayYear, DayMonth
<1>3. {e \in Day : e < DayOf(s) /\ Calendar[e].year = YearOf(s)} = Earlier(DayOf(s))
  BY <1>1, <1>2 DEF Earlier, DayYear
<1>4. DayOfYear(s) = DayNumber[DayOf(s)]
  BY <1>1, <1>3 DEF DayOfYear, DayNumber
<1> QED
  BY <1>1, <1>2, <1>4, Days

LEMMA Counters ==
    /\ Cardinality(Day) * HoursPerDay - 1 \in Int
    /\ Instant = 0..(Cardinality(Day) * HoursPerDay - 1)
    /\ DayAt \in [Instant -> Nat] /\ HourAt \in [Instant -> Nat]
    /\ YearAt \in [Instant -> Nat] /\ MonthAt \in [Instant -> Nat]
    /\ DayOfYearAt \in [Instant -> Nat]
    /\ \A s \in Instant \ {0} :
          /\ GoesOn(DayAt, HourAt, s)
          /\ GoesOn(YearAt, MonthAt, s)
          /\ GoesOn(YearAt, DayOfYearAt, s)
<1>1. /\ Cardinality(Day) * HoursPerDay - 1 \in Int
      /\ Instant = 0..(Cardinality(Day) * HoursPerDay - 1)
  BY CalendarAssumption, FS_CardinalityType DEF Instant
<1>2. /\ DayAt \in [Instant -> Nat] /\ HourAt \in [Instant -> Nat]
      /\ YearAt \in [Instant -> Nat] /\ MonthAt \in [Instant -> Nat]
      /\ DayOfYearAt \in [Instant -> Nat]
  BY Clock, Fields DEF DayAt, HourAt, YearAt, MonthAt, DayOfYearAt
<1>3. ASSUME NEW s \in Instant \ {0}
      PROVE  /\ GoesOn(DayAt, HourAt, s)
             /\ GoesOn(YearAt, MonthAt, s)
             /\ GoesOn(YearAt, DayOfYearAt, s)
  <2>1. s - 1 \in Instant
    BY NextHour
  <2>2. GoesOn(DayAt, HourAt, s)
    BY <2>1, NextHour DEF GoesOn, DayAt, HourAt
  <2>3. CASE DayOf(s) = DayOf(s - 1)
    <3>1. YearOf(s) = YearOf(s - 1) /\ MonthOf(s) = MonthOf(s - 1) /\ DayOfYear(s) = DayOfYear(s - 1)
      BY <2>1, <2>3, Fields
    <3> QED
      BY <2>1, <2>2, <3>1 DEF GoesOn, YearAt, MonthAt, DayOfYearAt
  <2>4. CASE DayOf(s) = DayOf(s - 1) + 1
    <3> DEFINE d == DayOf(s)
    <3>1. d \in Day \ {0} /\ d - 1 = DayOf(s - 1) /\ d - 1 \in Day
      BY <2>1, <2>4, Clock
    <3>2. GoesOn(DayYear, DayMonth, d) /\ GoesOn(DayYear, DayNumber, d)
      BY <3>1, Days, DayNumbers
    <3>3. /\ YearAt[s] = DayYear[d] /\ YearAt[s - 1] = DayYear[d - 1]
          /\ MonthAt[s] = DayMonth[d] /\ MonthAt[s - 1] = DayMonth[d - 1]
          /\ DayOfYearAt[s] = DayNumber[d] /\ DayOfYearAt[s - 1] = DayNumber[d - 1]
      BY <2>1, <3>1, Fields DEF YearAt, MonthAt, DayOfYearAt
    <3> QED
      BY <2>2, <3>2, <3>3 DEF GoesOn
  <2> QED
    BY <2>3, <2>4, NextHour
<1> QED
  BY <1>1, <1>2, <1>3

-----------------------------------------------------------------------------
(* The keys *)

\* A window of n hours begins where the count of hours does, and so for the others.
LEMMA HoursBegin ==
    ASSUME NEW n \in Nat \ {0}, NEW s \in Instant \ {0}
    PROVE  Starts(DayAt, HourAt, n, s) <=> HourOf(s) % n = 0
<1>1. s - 1 \in Instant /\ HourOf(s - 1) \in Nat /\ DayOf(s - 1) \in Nat
  BY NextHour, Clock
<1>2. 0 % n = 0
  OBVIOUS
<1> QED
  BY <1>1, <1>2, NextHour DEF Starts, DayAt, HourAt

LEMMA DaysBegin ==
    ASSUME NEW n \in Nat \ {0}, NEW s \in Instant \ {0}
    PROVE  Starts(YearAt, DayOfYearAt, n, s) <=> FirstOfDay(s) /\ DayOfYear(s) % n = 0
<1>1. /\ s - 1 \in Instant /\ HourOf(s - 1) \in Nat /\ DayOf(s - 1) \in Nat
      /\ YearOf(s - 1) \in Nat /\ DayOfYear(s - 1) \in Nat
  BY NextHour, Clock, Fields
<1>2. 0 % n = 0
  OBVIOUS
<1>3. CASE DayOf(s) = DayOf(s - 1) /\ HourOf(s) = HourOf(s - 1) + 1
  <2>1. YearOf(s) = YearOf(s - 1) /\ DayOfYear(s) = DayOfYear(s - 1) /\ HourOf(s) # 0
    BY <1>1, <1>3, Fields
  <2> QED
    BY <1>1, <2>1 DEF Starts, YearAt, DayOfYearAt, FirstOfDay
<1>4. CASE DayOf(s) = DayOf(s - 1) + 1 /\ HourOf(s) = 0
  <2> DEFINE d == DayOf(s)
  <2>1. d \in Day \ {0} /\ d - 1 = DayOf(s - 1)
    BY <1>1, <1>4, Clock
  <2>3. /\ YearOf(s) = DayYear[d] /\ YearOf(s - 1) = DayYear[d - 1]
        /\ DayOfYear(s) = DayNumber[d] /\ DayOfYear(s - 1) = DayNumber[d - 1]
    BY <1>1, <2>1, Fields
  <2>4. \/ YearOf(s) = YearOf(s - 1) /\ DayOfYear(s) # DayOfYear(s - 1)
        \/ YearOf(s) # YearOf(s - 1) /\ DayOfYear(s) = 0
    <3>1. \/ YearOf(s) = YearOf(s - 1) /\ DayOfYear(s) = DayOfYear(s - 1) + 1
          \/ YearOf(s) = YearOf(s - 1) + 1 /\ DayOfYear(s) = 0
      BY <2>1, <2>3, DayNumbers
    <3> QED
      BY <1>1, <3>1
  <2> QED
    BY <1>1, <1>2, <1>4, <2>4 DEF Starts, YearAt, DayOfYearAt, FirstOfDay
<1> QED
  BY <1>3, <1>4, NextHour

LEMMA MonthsBegin ==
    ASSUME NEW n \in Nat \ {0}, NEW s \in Instant \ {0}
    PROVE  Starts(YearAt, MonthAt, n, s) <=> FirstOfMonth(s) /\ MonthOf(s) % n = 0
<1>1. /\ s - 1 \in Instant /\ HourOf(s - 1) \in Nat /\ YearOf(s - 1) \in Nat
  BY NextHour, Clock, Fields
<1>2. 0 % n = 0
  OBVIOUS
<1>3. CASE DayOf(s) = DayOf(s - 1) /\ HourOf(s) = HourOf(s - 1) + 1
  <2>1. YearOf(s) = YearOf(s - 1) /\ MonthOf(s) = MonthOf(s - 1) /\ HourOf(s) # 0
    BY <1>1, <1>3, Fields
  <2> QED
    BY <1>1, <2>1 DEF Starts, YearAt, MonthAt, FirstOfMonth, FirstOfDay
<1>4. CASE HourOf(s) = 0
  <2>1. GoesOn(YearAt, MonthAt, s)
    BY Counters
  <2>2. YearOf(s) = YearOf(s - 1) \/ MonthOf(s) = 0
    BY <1>1, <2>1 DEF GoesOn, YearAt, MonthAt
  <2> QED
    BY <1>1, <1>2, <1>4, <2>2 DEF Starts, YearAt, MonthAt, FirstOfMonth, FirstOfDay
<1> QED
  BY <1>3, <1>4, NextHour

\* What BucketsAreCut says of one window and two instants, for a window of any
\* length.
SharesBucket(w, t, u) ==
    WindowKey(t, w) = WindowKey(u, w) <=>
        IF w[1] = 0 /\ w[2] \in {"d", "w"} THEN TRUE
        ELSE IF w = <<0, "m">> THEN YearOf(t) = YearOf(u)
        ELSE \A s \in (t + 1)..u : ~Begins(s, w)

LEMMA WindowsOfAnyLength ==
    ASSUME NEW w \in (Nat \X {"h", "d", "w", "m"}) \cup ({0} \X {"unset", "text", "other"}),
           ~Throws(w), NEW t \in Instant, NEW u \in Instant, t =< u
    PROVE  SharesBucket(w, t, u)
<1> DEFINE between == (t + 1)..u
<1>1. /\ HoursPerDay \in Nat \ {0} /\ DaysPerWeek \in Nat \ {0}
      /\ \A s \in between : s \in Instant \ {0}
  BY CalendarAssumption, Clock, Counters
<1>2. /\ YearOf(t) \in Nat /\ YearOf(u) \in Nat /\ MonthOf(t) \in Nat /\ MonthOf(u) \in Nat
      /\ DayOfYear(t) \in Nat /\ DayOfYear(u) \in Nat
      /\ HourOf(t) \in Nat /\ HourOf(u) \in Nat
  BY Clock, Fields
<1>3. ASSUME NEW n \in Nat \ {0}
      PROVE  /\ (DayOf(t) = DayOf(u) /\ Floored(HourOf(t), n) = Floored(HourOf(u), n)) <=>
                    \A s \in between : ~(HourOf(s) % n = 0)
             /\ (YearOf(t) = YearOf(u) /\ Floored(MonthOf(t), n) = Floored(MonthOf(u), n)) <=>
                    \A s \in between : ~(FirstOfMonth(s) /\ MonthOf(s) % n = 0)
             /\ (YearOf(t) = YearOf(u) /\ DayOfYear(t) \div n = DayOfYear(u) \div n) <=>
                    \A s \in between : ~(FirstOfDay(s) /\ DayOfYear(s) % n = 0)
  <2>1. (DayAt[t] = DayAt[u] /\ HourAt[t] \div n = HourAt[u] \div n) <=>
            \A s \in between : ~Starts(DayAt, HourAt, n, s)
    BY Counters, Buckets
  <2>2. (YearAt[t] = YearAt[u] /\ MonthAt[t] \div n = MonthAt[u] \div n) <=>
            \A s \in between : ~Starts(YearAt, MonthAt, n, s)
    BY Counters, Buckets
  <2>3. (YearAt[t] = YearAt[u] /\ DayOfYearAt[t] \div n = DayOfYearAt[u] \div n) <=>
            \A s \in between : ~Starts(YearAt, DayOfYearAt, n, s)
    BY Counters, Buckets
  <2>4. /\ Floored(HourOf(t), n) = Floored(HourOf(u), n) <=> HourOf(t) \div n = HourOf(u) \div n
        /\ Floored(MonthOf(t), n) = Floored(MonthOf(u), n) <=> MonthOf(t) \div n = MonthOf(u) \div n
    BY <1>2, FlooredEqual
  <2>5. /\ DayAt[t] = DayOf(t) /\ DayAt[u] = DayOf(u) /\ HourAt[t] = HourOf(t) /\ HourAt[u] = HourOf(u)
        /\ YearAt[t] = YearOf(t) /\ YearAt[u] = YearOf(u)
        /\ MonthAt[t] = MonthOf(t) /\ MonthAt[u] = MonthOf(u)
        /\ DayOfYearAt[t] = DayOfYear(t) /\ DayOfYearAt[u] = DayOfYear(u)
    BY DEF DayAt, HourAt, YearAt, MonthAt, DayOfYearAt
  <2>6. \A s \in between : /\ Starts(DayAt, HourAt, n, s) <=> HourOf(s) % n = 0
                           /\ Starts(YearAt, MonthAt, n, s) <=> FirstOfMonth(s) /\ MonthOf(s) % n = 0
                           /\ Starts(YearAt, DayOfYearAt, n, s) <=> FirstOfDay(s) /\ DayOfYear(s) % n = 0
    BY <1>1, HoursBegin, MonthsBegin, DaysBegin
  <2> HIDE DEF between
  <2>7. (DayOf(t) = DayOf(u) /\ Floored(HourOf(t), n) = Floored(HourOf(u), n)) <=>
            \A s \in between : ~(HourOf(s) % n = 0)
    BY <2>1, <2>4, <2>5, <2>6, Zenon
  <2>8. (YearOf(t) = YearOf(u) /\ Floored(MonthOf(t), n) = Floored(MonthOf(u), n)) <=>
            \A s \in between : ~(FirstOfMonth(s) /\ MonthOf(s) % n = 0)
    BY <2>2, <2>4, <2>5, <2>6, Zenon
  <2>9. (YearOf(t) = YearOf(u) /\ DayOfYear(t) \div n = DayOfYear(u) \div n) <=>
            \A s \in between : ~(FirstOfDay(s) /\ DayOfYear(s) % n = 0)
    BY <2>3, <2>5, <2>6, Zenon
  <2> QED
    BY <2>7, <2>8, <2>9
<1> HIDE DEF between
<1>4. ASSUME NEW n \in Nat \ {0}
      PROVE  DayKey(t, n) = DayKey(u, n) <=>
                 \A s \in between : ~(FirstOfDay(s) /\ DayOfYear(s) % n = 0)
  <2>1. Floored(DayOfYear(t), n) = Floored(DayOfYear(u), n) <=> DayOfYear(t) \div n = DayOfYear(u) \div n
    BY <1>2, FlooredEqual
  <2>2. DayKey(t, n) = DayKey(u, n) <=>
            YearOf(t) = YearOf(u) /\ Floored(DayOfYear(t), n) = Floored(DayOfYear(u), n)
    BY DEF DayKey, YearOfBucket
  <2> QED
    BY <2>1, <2>2, <1>3
<1>5. CASE w[2] = "unset"
  <2>1. \A s \in between : HourOf(s) % HoursPerDay = 0 <=> FirstOfDay(s)
    <3>1. \A x, y \in Nat : x < y => (x % y = 0 <=> x = 0)
      OBVIOUS
    <3> QED
      BY <1>1, <3>1, Clock DEF FirstOfDay
  <2>2. \A s \in between : Begins(s, w) <=> FirstOfDay(s)
    BY <1>5 DEF Begins
  <2>3. WindowKey(t, w) = WindowKey(u, w) <=>
            DayOf(t) = DayOf(u) /\ Floored(HourOf(t), HoursPerDay) = Floored(HourOf(u), HoursPerDay)
    BY <1>5 DEF WindowKey
  <2>4. ~(w[1] = 0 /\ w[2] \in {"d", "w"}) /\ w # <<0, "m">>
    BY <1>5
  <2>5. WindowKey(t, w) = WindowKey(u, w) <=> \A s \in between : ~Begins(s, w)
    BY <1>1, <1>3, <2>1, <2>2, <2>3
  <2> QED
    BY <2>4, <2>5 DEF SharesBucket, between
<1>6. CASE w[2] = "text"
  <2>1. \A s \in between : DayOfYear(s) % 1 = 0
    BY <1>1, Fields
  <2>2. \A s \in between : Begins(s, w) <=> FirstOfDay(s)
    BY <1>6 DEF Begins
  <2>3. WindowKey(t, w) = WindowKey(u, w) <=> DayKey(t, 1) = DayKey(u, 1)
    BY <1>6 DEF WindowKey
  <2>4. ~(w[1] = 0 /\ w[2] \in {"d", "w"}) /\ w # <<0, "m">>
    BY <1>6
  <2>5. DayKey(t, 1) = DayKey(u, 1) <=>
            \A s \in between : ~(FirstOfDay(s) /\ DayOfYear(s) % 1 = 0)
    BY <1>4
  <2>6. WindowKey(t, w) = WindowKey(u, w) <=> \A s \in between : ~Begins(s, w)
    BY <2>1, <2>2, <2>3, <2>5
  <2> QED
    BY <2>4, <2>6 DEF SharesBucket, between
<1>7. CASE w[1] = 0 /\ w[2] \in {"d", "w"}
  BY <1>7 DEF SharesBucket, WindowKey, DayKey, YearOfBucket, Floored
<1>8. CASE w[1] = 0 /\ w[2] = "m"
  <2>1. WindowKey(t, w) = WindowKey(u, w) <=> YearOf(t) = YearOf(u)
    BY <1>8 DEF WindowKey, Floored
  <2>2. ~(w[1] = 0 /\ w[2] \in {"d", "w"}) /\ w = <<0, "m">>
    BY <1>8
  <2> QED
    BY <2>1, <2>2 DEF SharesBucket
<1>9. CASE w[1] \in Nat \ {0} /\ w[2] \in {"h", "d", "w", "m"}
  <2> DEFINE n == w[1]
  <2>1. n \in Nat \ {0}
    BY <1>9
  <2>2. ~(w[1] = 0 /\ w[2] \in {"d", "w"}) /\ w # <<0, "m">>
    BY <1>9
  <2>3. CASE w[2] = "h"
    <3>1. WindowKey(t, w) = WindowKey(u, w) <=>
              DayOf(t) = DayOf(u) /\ Floored(HourOf(t), n) = Floored(HourOf(u), n)
      BY <2>3 DEF WindowKey
    <3>2. \A s \in between : Begins(s, w) <=> HourOf(s) % n = 0
      BY <2>3 DEF Begins
    <3> QED
      BY <2>1, <2>2, <1>3, <3>1, <3>2 DEF SharesBucket, between
  <2>4. CASE w[2] = "d"
    <3>1. WindowKey(t, w) = WindowKey(u, w) <=> DayKey(t, n) = DayKey(u, n)
      BY <2>4 DEF WindowKey
    <3>2. \A s \in between : Begins(s, w) <=> FirstOfDay(s) /\ DayOfYear(s) % n = 0
      BY <2>4 DEF Begins
    <3> QED
      BY <2>1, <2>2, <1>4, <3>1, <3>2 DEF SharesBucket, between
  <2>5. CASE w[2] = "w"
    <3> DEFINE x == DaysPerWeek * n
    <3>1. /\ WeekOfYear(t) \in Nat /\ WeekOfYear(u) \in Nat /\ x \in Nat \ {0}
          /\ WeekOfYear(t) \div n = DayOfYear(t) \div x
          /\ WeekOfYear(u) \div n = DayOfYear(u) \div x
      <4> HIDE DEF n
      <4>1. ASSUME NEW y \in Nat
            PROVE  /\ y \div DaysPerWeek \in Nat /\ x \in Nat \ {0}
                   /\ (y \div DaysPerWeek) \div n = y \div x
        <5>1. y \div DaysPerWeek \in Nat
          BY <1>1, Quotients
        <5>2. (y \div DaysPerWeek) \div n = y \div (DaysPerWeek * n) /\ DaysPerWeek * n \in Nat \ {0}
          <6>1. DaysPerWeek \in Nat \ {0}
            BY <1>1
          <6> QED
            BY <2>1, <6>1, QuotientOfQuotient, Zenon
        <5> QED
          BY <5>1, <5>2
      <4> QED
        BY <1>2, <4>1 DEF WeekOfYear
    <3>2. Floored(WeekOfYear(t), n) = Floored(WeekOfYear(u), n) <=>
              DayOfYear(t) \div x = DayOfYear(u) \div x
      BY <2>1, <3>1, FlooredEqual
    <3>3. WindowKey(t, w) = WindowKey(u, w) <=>
              YearOf(t) = YearOf(u) /\ Floored(WeekOfYear(t), n) = Floored(WeekOfYear(u), n)
      BY <2>1, <2>5 DEF WindowKey, YearOfBucket
    <3>4. \A s \in between : Begins(s, w) <=> FirstOfDay(s) /\ DayOfYear(s) % x = 0
      BY <2>5 DEF Begins
    <3> HIDE DEF x
    <3>5. (YearOf(t) = YearOf(u) /\ DayOfYear(t) \div x = DayOfYear(u) \div x) <=>
              \A s \in between : ~(FirstOfDay(s) /\ DayOfYear(s) % x = 0)
      BY <3>1, <1>3
    <3>6. WindowKey(t, w) = WindowKey(u, w) <=> \A s \in between : ~Begins(s, w)
      BY <3>2, <3>3, <3>4, <3>5, Zenon
    <3> QED
      BY <2>2, <3>6 DEF SharesBucket, between
  <2>6. CASE w[2] = "m"
    <3>1. WindowKey(t, w) = WindowKey(u, w) <=>
              YearOf(t) = YearOf(u) /\ Floored(MonthOf(t), n) = Floored(MonthOf(u), n)
      BY <2>6 DEF WindowKey
    <3>2. \A s \in between : Begins(s, w) <=> FirstOfMonth(s) /\ MonthOf(s) % n = 0
      BY <2>6 DEF Begins
    <3> QED
      BY <2>1, <2>2, <1>3, <3>1, <3>2 DEF SharesBucket, between
  <2> QED
    BY <1>9, <2>3, <2>4, <2>5, <2>6
<1>10. /\ w[1] \in Nat /\ w[2] \in {"h", "d", "w", "m", "unset", "text", "other"}
       /\ w = <<w[1], w[2]>> /\ w[2] # "other" /\ ~(w[1] = 0 /\ w[2] = "h")
  BY DEF Throws
<1> QED
  BY <1>5, <1>6, <1>7, <1>8, <1>9, <1>10

\* For every calendar and every window the definition names, two transactions fall
\* into one bucket of the dedup key exactly when no bucket begins between them
\* (AlertsService.calculateWindowKey).
THEOREM BucketsAreCutEverywhere == BucketsAreCut
<1>1. \A w \in Window : w \in (Nat \X {"h", "d", "w", "m"}) \cup ({0} \X {"unset", "text", "other"})
  BY CalendarAssumption DEF Window
<1>2. \A w \in Window, t, u \in Instant : ~Throws(w) /\ t =< u => SharesBucket(w, t, u)
  BY <1>1, WindowsOfAnyLength
<1> QED
  BY <1>2 DEF BucketsAreCut, SharesBucket

=============================================================================
