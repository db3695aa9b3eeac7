---------------------------- MODULE ReportsProofs ----------------------------
(***************************************************************************)
(* Theorem about Reports for any tables, insertions, clocks and length of  *)
(* the months: complaints are not counted twice.  What a statement gave    *)
(* lies in the time of the day it was asked; the rest is arithmetic: the   *)
(* present time and the time before share at most one midnight.            *)
(***************************************************************************)
EXTENDS Reports, InductionLemmas, SequenceTheorems, TLAPS

\* The rows there are or may come, and what a statement gives.
Universe == UNION {s.rows \cup s.comes : s \in Scenarios}
Given == [rows : {S \in SUBSET Universe : IsFiniteSet(S)}, day : Int]

\* What the n-th statement about complaints gave lies in the n-th time.
InItsTime(category, gave) ==
    \A n \in 1..Len(gave) : \A r \in gave[n].rows :
        /\ n = 1 => Window(category, gave[n].day, r.at)
        /\ n = 2 => EarlierWindow(category, gave[n].day, r.at)

Fields == {"type", "category", "all", "phase", "range"}
\* How many statements a chart is made of.
Asked(type) == CASE type = 6 -> 4 [] type \in {4, 5, 9} -> 2 [] OTHER -> 1

\* The chart stored is what its statements make, all of them.
ChartMade ==
    /\ chart.type \in Types /\ chart.category \in Categories
    /\ chart.range \subseteq Int /\ IsFiniteSet(chart.range)
    /\ chart.gave \in Seq(Given) /\ Len(chart.gave) = Asked(chart.type)
    /\ chart.data = GenerateReport(chart.type, chart.category, chart.range, chart.gave)
    /\ chart.type = 9 => InItsTime(chart.category, chart.gave)

ReportsInv ==
    /\ rows \subseteq Universe /\ comes \subseteq Universe /\ IsFiniteSet(rows)
    /\ clocks \in Seq(Nat) /\ clocks # <<>>
    /\ DOMAIN request = Fields /\ request.type \in Types /\ request.category \in Categories
    /\ request.range \subseteq Int /\ IsFiniteSet(request.range)
    /\ request.phase = "query" =>
          /\ fetched \in Seq(Given)
          /\ request.type = 9 => InItsTime(request.category, fetched)
    /\ chart = NoChart \/ ChartMade

-----------------------------------------------------------------------------
(* Arithmetic of the times.                                                *)

\* What is at or after a multiple of a length falls in its period or later.
LEMMA DivisionReaches ==
    ASSUME NEW M \in Nat \ {0}, NEW x \in Int, NEW k \in Int, k * M <= x
    PROVE  k <= x \div M
  <1>1. /\ x \div M \in Int /\ x < M * (x \div M) + M
    OBVIOUS
  <1>2. SUFFICES ASSUME x \div M + 1 <= k PROVE FALSE
    BY <1>1
  <1>3. (x \div M + 1) * M <= k * M
    BY <1>1, <1>2
  <1> QED
    BY <1>1, <1>3

\* Neither a quarter nor the one before is both of two in a row.
LEMMA QuartersApart ==
    ASSUME NEW q \in Int PROVE q % 4 # (q - 1) % 4 /\ (q - 1) % 4 # (q - 2) % 4
  OBVIOUS

LEMMA DaysTyped ==
    ASSUME NEW d \in Int
    PROVE  Month(d) \in Int /\ Quarter(d) \in Int /\ Year(d) \in Int
  BY ReportsAssumption DEF Month, Quarter, Year

LEMMA TimesApart ==
    ASSUME NEW category \in Categories, NEW d \in Int, NEW at \in Int,
           Window(category, d, at), EarlierWindow(category, d, at)
    PROVE  at % 24 = 0
  <1>0. category \in {0, 1, 2, 3, 4, 5, 6, 7, 8, 9, 10}
    BY DEF Categories
  <1>1. CASE category = 0
    BY <1>1 DEF Window, EarlierWindow, Between
  <1>2. CASE category = 1
    BY <1>2 DEF Window, EarlierWindow, Between
  <1>3. CASE category = 2
    BY <1>3 DEF Window, EarlierWindow, YearWeek
  <1>4. CASE category = 3
    BY <1>4 DEF Window, EarlierWindow, YearWeek
  <1>5. CASE category = 4
    <2>1. PICK first \in Int : first = MonthStart(Month(d))
      BY ReportsAssumption, DaysTyped DEF MonthStart
    <2>2. first * 24 <= at /\ at <= (first - 1) * 24
      BY <1>5, <2>1 DEF Window, EarlierWindow, Between
    <2> QED
      BY <2>2
  <1>6. CASE category = 5
    <2>1. PICK first \in Int : first = MonthStart(Month(d) - 1)
      BY ReportsAssumption, DaysTyped DEF MonthStart
    <2>2. first * 24 <= at /\ at <= (first - 1) * 24
      BY <1>6, <2>1 DEF Window, EarlierWindow, Between
    <2> QED
      BY <2>2
  <1>7. CASE category = 6
    BY <1>7 DEF Window, EarlierWindow, Between
  <1>8. CASE category = 7
    <2>1. Quarter(Day(at)) = Quarter(d) /\ Quarter(Day(at)) % 4 = (Quarter(d) - 1) % 4
      BY <1>8 DEF Window, EarlierWindow
    <2>2. Quarter(d) % 4 # (Quarter(d) - 1) % 4
      BY DaysTyped, QuartersApart
    <2> QED
      BY <2>1, <2>2
  <1>9. CASE category = 8
    <2>1. /\ Quarter(Day(at)) % 4 = (Quarter(d) - 1) % 4
          /\ Quarter(Day(at)) % 4 = (Quarter(d) - 2) % 4
      BY <1>9 DEF Window, EarlierWindow
    <2> QED
      BY <2>1, DaysTyped, QuartersApart
  <1>10. CASE category = 9
    <2> DEFINE y == Year(d)
    <2>1. y \in Int /\ 12 * y * MonthDays * 24 <= at /\ Year(Day(at)) = y - 1
      BY <1>10, DaysTyped DEF Window, EarlierWindow, Between, MonthStart
    <2>2. MonthDays \in Nat \ {0} /\ 12 * y \in Int /\ (12 * y) * MonthDays \in Int
      BY <2>1, ReportsAssumption
    <2>3. Day(at) \in Int /\ (12 * y) * MonthDays <= Day(at)
      <3> DEFINE first == (12 * y) * MonthDays
      <3>1. first \in Int /\ first * 24 <= at
        BY <2>1, <2>2
      <3> HIDE DEF first
      <3>2. first <= at \div 24 /\ at \div 24 \in Int
        BY <3>1
      <3> QED
        BY <3>2 DEF Day, first
    <2> HIDE DEF y
    <2>4. 12 * y <= Month(Day(at)) /\ Month(Day(at)) \in Int
      BY <2>2, <2>3, DivisionReaches, DaysTyped DEF Month
    <2>5. y <= Year(Day(at))
      BY <2>1, <2>4 DEF Year
    <2>6. Year(Day(at)) = y - 1
      BY <2>1
    <2> QED
      BY <2>1, <2>5, <2>6
  <1>11. CASE category = 10
    BY <1>11, DaysTyped DEF Window, EarlierWindow
  <1> QED
    BY <1>0, <1>1, <1>2, <1>3, <1>4, <1>5, <1>6, <1>7, <1>8, <1>9, <1>10, <1>11

-----------------------------------------------------------------------------
(* The days of a line.                                                     *)

\* The sequence has the elements of the set, from the least to the greatest.
Lists(q, S) == /\ q \in Seq(Int)
               /\ \A k \in 1..Len(q) : q[k] \in S
               /\ \A x \in S : \E k \in 1..Len(q) : q[k] = x
               /\ \A j, k \in 1..Len(q) : j < k => q[j] < q[k]

LEMMA NothingListed == Lists(<<>>, {})
  BY DEF Lists

\* A greater element comes at the end.
LEMMA ListsOneMore ==
    ASSUME NEW q, NEW S, Lists(q, S), NEW x \in Int, \A y \in S : y < x
    PROVE  Lists(Append(q, x), S \cup {x})
  <1> DEFINE p == Append(q, x)
             m == Len(q)
  <1>1. q \in Seq(Int) /\ m \in Nat
    BY DEF Lists
  <1>2. /\ p \in Seq(Int) /\ Len(p) = m + 1 /\ p[m + 1] = x
        /\ \A k \in 1..m : p[k] = q[k]
    BY <1>1, AppendProperties
  <1>3. \A k \in 1..Len(p) : k \in 1..m \/ k = m + 1
    BY <1>1, <1>2
  <1>4. \A k \in 1..m : q[k] \in S /\ k \in 1..Len(p)
    BY <1>1, <1>2 DEF Lists
  <1>5. m + 1 \in 1..Len(p)
    BY <1>1, <1>2
  <1> HIDE DEF p
  <1>6. \A k \in 1..Len(p) : p[k] \in S \cup {x}
    BY <1>2, <1>3, <1>4
  <1>7. \A y \in S \cup {x} : \E k \in 1..Len(p) : p[k] = y
    <2>1. ASSUME NEW y \in S PROVE \E k \in 1..Len(p) : p[k] = y
      <3>1. PICK k \in 1..m : q[k] = y
        BY DEF Lists
      <3> QED
        BY <1>2, <1>4, <3>1
    <2> QED
      BY <1>2, <1>5, <2>1
  <1>8. ASSUME NEW j \in 1..Len(p), NEW k \in 1..Len(p), j < k PROVE p[j] < p[k]
    <2>1. j \in 1..m
      BY <1>1, <1>2, <1>8
    <2>2. CASE k \in 1..m
      BY <1>2, <1>8, <2>1, <2>2 DEF Lists
    <2>3. CASE k = m + 1
      BY <1>2, <1>4, <2>1, <2>3
    <2> QED
      BY <1>3, <2>2, <2>3
  <1>9. Lists(p, S \cup {x})
    BY <1>2, <1>6, <1>7, <1>8 DEF Lists
  <1> QED
    BY <1>9 DEF p

\* Whatever days there are, each is put in its place once.
LEMMA AscendingLists ==
    ASSUME NEW S, IsFiniteSet(S), S \subseteq Int
    PROVE  Lists(Ascending(S), S)
  <1>1. CASE S = {}
    BY <1>1, NothingListed DEF Ascending
  <1>2. CASE S # {}
    <2> DEFINE first == Min(S)
               last == Max(S)
               n == last - first + 1
               step == [p \in (1..n) \X Seq(Int) |->
                           IF first + p[1] - 1 \in S THEN Append(p[2], first + p[1] - 1)
                           ELSE p[2]]
               Lays(g) == g = [i \in 0..n |->
                                  IF i = 0 THEN <<>>
                                  ELSE IF first + i - 1 \in S
                                       THEN Append(g[i - 1], first + i - 1)
                                       ELSE g[i - 1]]
               t == CHOOSE g : Lays(g)
               reached(i) == {x \in S : x < first + i}
               T == {i \in 0..n : Lists(t[i], reached(i))}
    <2>1. /\ first \in S /\ \A x \in S : first <= x
          /\ last \in S /\ \A x \in S : last >= x
      BY <1>2, Bounds DEF Min, Max
    <2>2. first \in Int /\ n \in Nat
      <3> HIDE DEF first, last
      <3> QED
        BY <2>1
    <2>3. step \in [(1..n) \X Seq(Int) -> Seq(Int)]
      <3>1. ASSUME NEW p \in (1..n) \X Seq(Int)
            PROVE  (IF first + p[1] - 1 \in S THEN Append(p[2], first + p[1] - 1)
                    ELSE p[2]) \in Seq(Int)
        <4>1. p[1] \in 1..n /\ p[2] \in Seq(Int)
          OBVIOUS
        <4> HIDE DEF first, n
        <4>2. first + p[1] - 1 \in Int
          BY <2>2, <4>1
        <4> QED
          BY <4>1, <4>2, AppendProperties
      <3> HIDE DEF first, n
      <3> QED
        BY <3>1
    <2>4. \E g : Lays(g)
      <3> HIDE DEF first, last, n, step, Lays, t
      <3>0. <<>> \in Seq(Int)
        OBVIOUS
      <3>1. PICK g \in [0..n -> Seq(Int)] : Steps(g, n, <<>>, step)
        BY <2>2, <2>3, <3>0, RecursionExists
      <3>2. ASSUME NEW i \in 1..n
            PROVE  g[i] = IF first + i - 1 \in S THEN Append(g[i - 1], first + i - 1)
                          ELSE g[i - 1]
        <4>1. i - 1 \in 0..n
          BY <2>2
        <4>2. g[i - 1] \in Seq(Int)
          BY <3>1, <4>1
        <4>3. step[<<i, g[i - 1]>>] =
                  IF first + i - 1 \in S THEN Append(g[i - 1], first + i - 1) ELSE g[i - 1]
          BY <4>2 DEF step
        <4> QED
          BY <3>1, <4>3 DEF Steps
      <3>3. Lays(g)
        <4> USE DEF Lays
        <4>1. \A i \in 0..n : g[i] = IF i = 0 THEN <<>>
                                     ELSE IF first + i - 1 \in S
                                          THEN Append(g[i - 1], first + i - 1)
                                          ELSE g[i - 1]
          <5>1. \A i \in 0..n : i = 0 \/ i \in 1..n
            BY <2>2
          <5> QED
            BY <3>1, <3>2, <5>1 DEF Steps
        <4> QED
          BY <3>1, <4>1
      <3> QED
        BY <3>3
    <2>5. Lays(t)
      <3> HIDE DEF Lays
      <3> QED
        BY <2>4
    <2>6. Ascending(S) = t[n]
      BY <1>2 DEF Ascending
    <2> HIDE DEF first, last, n, step
    <2>7. /\ t[0] = <<>>
          /\ \A i \in 1..n : t[i] = IF first + i - 1 \in S
                                    THEN Append(t[i - 1], first + i - 1) ELSE t[i - 1]
      <3>1. 0 \in 0..n /\ \A i \in 1..n : i \in 0..n /\ i # 0
        BY <2>2
      <3>2. t = [i \in 0..n |-> IF i = 0 THEN <<>>
                                ELSE IF first + i - 1 \in S
                                     THEN Append(t[i - 1], first + i - 1)
                                     ELSE t[i - 1]]
        BY <2>5
      <3> HIDE DEF t
      <3> QED
        BY <3>1, <3>2
    <2> HIDE DEF t, Lays
    <2>8. 0 \in T
      <3>1. reached(0) = {} /\ 0 \in 0..n
        <4>1. \A x \in S : ~(x < first + 0)
          BY <2>1, <2>2
        <4>2. reached(0) = {}
          BY <4>1
        <4>3. 0 \in 0..n
          BY <2>2
        <4> QED
          BY <4>2, <4>3
      <3> HIDE DEF reached
      <3> QED
        BY <2>7, <3>1, NothingListed
    <2>9. ASSUME NEW i \in 1..n, i - 1 \in T PROVE i \in T
      <3> DEFINE x == first + i - 1
      <3>1. x \in Int /\ i \in 0..n /\ \A y \in reached(i - 1) : y < x
        BY <2>2
      <3>2. Lists(t[i - 1], reached(i - 1))
        BY <2>9
      <3>3. CASE x \in S
        <4>1. reached(i) = reached(i - 1) \cup {x}
          <5>1. \A y \in S : y < first + i <=> y < first + (i - 1) \/ y = x
            BY <2>2
          <5> HIDE DEF x
          <5> QED
            BY <3>3, <5>1
        <4>2. t[i] = Append(t[i - 1], x)
          BY <2>7, <3>3
        <4> HIDE DEF reached, x
        <4>3. Lists(t[i], reached(i))
          BY <3>1, <3>2, <4>1, <4>2, ListsOneMore
        <4> QED
          BY <3>1, <4>3
      <3>4. CASE x \notin S
        <4>1. reached(i) = reached(i - 1)
          <5>1. \A y \in S : y < first + i <=> y < first + (i - 1) \/ y = x
            BY <2>2
          <5> HIDE DEF x
          <5> QED
            BY <3>4, <5>1
        <4>2. t[i] = t[i - 1]
          BY <2>7, <3>4
        <4> HIDE DEF reached, x
        <4>3. Lists(t[i], reached(i))
          BY <3>2, <4>1, <4>2
        <4> QED
          BY <3>1, <4>3
      <3> QED
        BY <3>3, <3>4
    <2>10. 0..n \subseteq T
      <3> HIDE DEF T
      <3> QED
        BY <2>2, <2>8, <2>9, UpTo
    <2>11. Lists(t[n], reached(n))
      <3>1. n \in 0..n
        BY <2>2
      <3> QED
        BY <2>10, <3>1
    <2>12. reached(n) = S
      <3>1. last \in Int /\ first + n = last + 1
        BY <2>1, <2>2 DEF n
      <3> HIDE DEF last
      <3>2. \A x \in S : x \in Int /\ x < first + n
        BY <2>1, <3>1
      <3> QED
        BY <3>2
    <2> HIDE DEF reached
    <2> QED
      BY <2>6, <2>11, <2>12
  <1> QED
    BY <1>1, <1>2

-----------------------------------------------------------------------------
(* A line.                                                                 *)

LEMMA UniverseStamped == \A r \in Universe : r.at \in Int /\ r.price \in Int
  BY ScenariosAssumption DEF Universe

LEMMA Labelled ==
    ASSUME NEW category \in Categories, NEW r \in Universe
    PROVE  Label(category, r) \in Int
  <1>1. Day(r.at) \in Int
    BY UniverseStamped DEF Day
  <1> QED
    BY <1>1, DaysTyped DEF Label

\* What a row adds to a line: its price, or one.
Worth(type) == [r \in Universe |-> IF type = 1 THEN r.price ELSE 1]

LEMMA ValueIsSum ==
    ASSUME NEW type, NEW S, S \subseteq Universe, IsFiniteSet(S)
    PROVE  Value(type, S) = SumFunctionOnSet(Worth(type), S)
  <1>1. CASE type = 1
    <2> DEFINE f == [r \in S |-> r.price]
               g == Worth(type)
    <2>1. Value(type, S) = SumFunctionOnSet(f, S)
      BY <1>1 DEF Value, SumFunction
    <2>2. \A r \in S : f[r] \in Int /\ f[r] = g[r]
      BY <1>1, UniverseStamped DEF Worth
    <2> HIDE DEF f, g
    <2>3. SumFunctionOnSet(f, S) = SumFunctionOnSet(g, S)
      BY <2>2, SumSame
    <2> QED
      BY <2>1, <2>3 DEF g
  <1>2. CASE type # 1
    <2> DEFINE g == Worth(type)
    <2>1. \A r \in S : g[r] = 1
      BY <1>2 DEF Worth
    <2> HIDE DEF g
    <2>2. SumFunctionOnSet(g, S) = Cardinality(S)
      BY <2>1, SumOnes
    <2> QED
      BY <1>2, <2>2 DEF g, Value
  <1> QED
    BY <1>1, <1>2

\* The rows of a day.
RowsOf(category, S, day) == {r \in S : Label(category, r) = day}
Series(type, category, S, days) ==
    [k \in DOMAIN days |-> Value(type, RowsOf(category, S, days[k]))]

\* Each row counts on one of the days.
LEMMA SeriesAddsUp ==
    ASSUME NEW type, NEW category, NEW S, S \subseteq Universe, IsFiniteSet(S),
           NEW L, NEW days, Lists(days, L), \A r \in S : Label(category, r) \in L,
           NEW values, values = Series(type, category, S, days)
    PROVE  SumFunction(values) = Value(type, S)
  <1> DEFINE n == Len(days)
             f == Worth(type)
             part == [k \in 1..n |-> RowsOf(category, S, days[k])]
  <1>1. n \in Nat /\ DOMAIN days = 1..n
    BY DEF Lists
  <1>2. \A r \in S : f[r] \in Int
    BY UniverseStamped DEF Worth
  <1>3. \A k \in 1..n : part[k] \subseteq S /\ part[k] = RowsOf(category, S, days[k])
    BY DEF RowsOf
  <1>4. \A r \in S : \E k \in 1..n : r \in part[k]
    BY DEF Lists, RowsOf
  <1>5. ASSUME NEW k \in 1..n, NEW l \in 1..n, k # l PROVE part[k] \cap part[l] = {}
    <2>1. days[k] # days[l]
      <3>1. days[k] \in Int /\ days[l] \in Int /\ (k < l \/ l < k)
        BY <1>1, <1>5 DEF Lists
      <3> QED
        BY <3>1 DEF Lists
    <2> QED
      BY <2>1 DEF RowsOf
  <1>6. ASSUME NEW k \in 1..n PROVE values[k] = SumFunctionOnSet(f, part[k])
    <2>1. IsFiniteSet(part[k]) /\ part[k] \subseteq Universe
      BY <1>3, FS_Subset
    <2>2. values[k] = Value(type, part[k])
      BY <1>1 DEF Series
    <2> HIDE DEF part, n
    <2> QED
      BY <2>1, <2>2, ValueIsSum
  <1>7. SumFunction(values) = SumFunctionOnSet(values, 1..n)
    BY <1>1 DEF SumFunction, Series
  <1> HIDE DEF n, f, part
  <1>8. Partition(part, n, S) /\ SumsOfParts(values, f, part, n)
    BY <1>3, <1>4, <1>5, <1>6 DEF Partition, SumsOfParts
  <1>9. SumFunctionOnSet(values, 1..n) = SumFunctionOnSet(f, S)
    BY <1>1, <1>2, <1>8, SumParts
  <1> QED
    BY <1>7, <1>9, ValueIsSum DEF f

InRange(category, range, gave) ==
    \A i \in DOMAIN gave : \A r \in gave[i].rows : Label(category, r) \in range

\* What ChartsAreTrue says of a line.
LineIsTrue(type, category, range, gave, data) ==
    /\ \A k \in 2..Len(data.dates) : data.dates[k - 1] < data.dates[k]
    /\ \A i \in DOMAIN gave : SumFunction(data.series[i]) = Value(type, gave[i].rows)
    /\ InRange(category, range, gave) =>
        \A i \in DOMAIN gave :
            /\ Len(data.series[i]) = Len(data.dates)
            /\ \A k \in DOMAIN data.dates :
                data.series[i][k] = Value(type, RowsOf(category, gave[i].rows, data.dates[k]))

LEMMA LinesAreTrue ==
    ASSUME NEW type, NEW category \in Categories,
           NEW range, range \subseteq Int, IsFiniteSet(range),
           NEW gave \in Seq(Given), Len(gave) # 0
    PROVE  LineIsTrue(type, category, range, gave, LineGraph(type, category, range, gave))
  <1> DEFINE labels(i) == {Label(category, r) : r \in gave[i].rows}
             L(i) == labels(i) \cup range
             days == [i \in DOMAIN gave |-> Ascending(L(i))]
             data == LineGraph(type, category, range, gave)
             last == Len(gave)
  <1>1. DOMAIN gave = 1..last /\ last \in 1..last
    OBVIOUS
  <1>2. /\ data.dates = days[last]
        /\ \A i \in 1..last : data.series[i] = Series(type, category, gave[i].rows, days[i])
    BY <1>1 DEF LineGraph, AddDaytool, RowsOf, Series
  <1>3. ASSUME NEW i \in 1..last
        PROVE  /\ gave[i].rows \subseteq Universe /\ IsFiniteSet(gave[i].rows)
               /\ \A r \in gave[i].rows : Label(category, r) \in L(i)
               /\ Lists(days[i], L(i))
    <2>1. gave[i].rows \subseteq Universe /\ IsFiniteSet(gave[i].rows)
      <3>1. gave[i] \in Given
        OBVIOUS
      <3> QED
        BY <3>1 DEF Given
    <2>2. labels(i) \subseteq Int
      BY <2>1, Labelled
    <2>3. IsFiniteSet(labels(i))
      <3> DEFINE given == gave[i].rows
                 f == [r \in given |-> Label(category, r)]
      <3>1. f \in Surjection(given, labels(i))
        BY DEF Surjection
      <3> HIDE DEF f
      <3> QED
        BY <2>1, <3>1, FS_Surjection
    <2>4. L(i) \subseteq Int /\ IsFiniteSet(L(i))
      BY <2>2, <2>3, FS_Union
    <2>5. Lists(Ascending(L(i)), L(i))
      <3> HIDE DEF L
      <3> QED
        BY <2>4, AscendingLists
    <2> QED
      BY <1>1, <2>1, <2>5
  <1> HIDE DEF data
  <1>4. ASSUME NEW k \in 2..Len(data.dates) PROVE data.dates[k - 1] < data.dates[k]
    <2>1. Lists(data.dates, L(last))
      BY <1>1, <1>2, <1>3
    <2> HIDE DEF L
    <2>2. Len(data.dates) \in Nat
      BY <2>1 DEF Lists
    <2>3. k - 1 \in 1..Len(data.dates) /\ k \in 1..Len(data.dates) /\ k - 1 < k
      BY <2>2
    <2> QED
      BY <2>1, <2>3 DEF Lists
  <1>5. ASSUME NEW i \in DOMAIN gave
        PROVE  SumFunction(data.series[i]) = Value(type, gave[i].rows)
    <2> DEFINE given == gave[i].rows
               here == days[i]
               values == data.series[i]
    <2>1. i \in 1..last
      BY <1>1
    <2>2. values = Series(type, category, given, here)
      BY <1>2, <2>1
    <2> HIDE DEF L, days
    <2>3. /\ given \subseteq Universe /\ IsFiniteSet(given) /\ Lists(here, L(i))
          /\ \A r \in given : Label(category, r) \in L(i)
      BY <1>3, <2>1
    <2> HIDE DEF given, here, values
    <2>4. SumFunction(values) = Value(type, given)
      BY <2>2, <2>3, SeriesAddsUp
    <2> QED
      BY <2>4 DEF given, values
  <1>6. ASSUME InRange(category, range, gave), NEW i \in DOMAIN gave
        PROVE  /\ Len(data.series[i]) = Len(data.dates)
               /\ \A k \in DOMAIN data.dates : data.series[i][k] =
                      Value(type, RowsOf(category, gave[i].rows, data.dates[k]))
    <2>1. \A j \in 1..last : L(j) = range
      BY <1>1, <1>6 DEF InRange
    <2>2. i \in 1..last
      BY <1>1
    <2>3. days[i] = data.dates
      <3> HIDE DEF L
      <3> QED
        BY <1>1, <1>2, <2>1, <2>2
    <2>4. data.dates \in Seq(Int)
      BY <1>1, <1>2, <1>3 DEF Lists
    <2> DEFINE dates == data.dates
               series == data.series[i]
    <2>5. series = [k \in DOMAIN dates |-> Value(type, RowsOf(category, gave[i].rows, dates[k]))]
      <3>1. series = Series(type, category, gave[i].rows, days[i])
        BY <1>2, <2>2
      <3> QED
        BY <2>3, <3>1 DEF Series
    <2>6. dates \in Seq(Int)
      BY <2>4
    <2> HIDE DEF dates, series, days
    <2>7. DOMAIN dates = 1..Len(dates) /\ Len(dates) \in Nat
      BY <2>6
    <2>8. Len(series) = Len(dates)
      BY <2>5, <2>7
    <2> QED
      BY <2>5, <2>8 DEF dates, series
  <1>7. LineIsTrue(type, category, range, gave, data)
    BY <1>4, <1>5, <1>6 DEF LineIsTrue
  <1> QED
    BY <1>7 DEF data

-----------------------------------------------------------------------------
(* The popular hours.                                                      *)

LEMMA OneBand ==
    ASSUME NEW hour \in 0..23
    PROVE  /\ \E b \in 1..6 : hour \in Bands[b]
           /\ \A b, c \in 1..6 : hour \in Bands[b] /\ hour \in Bands[c] => b = c
  <1>1. /\ Bands[1] = 2..5 /\ Bands[2] = 6..9 /\ Bands[3] = 10..13
        /\ Bands[4] = 14..17 /\ Bands[5] = 18..21 /\ Bands[6] = {22, 23, 0, 1}
    BY DEF Bands
  <1>2. \A b \in 1..6 : b \in {1, 2, 3, 4, 5, 6}
    OBVIOUS
  <1>3. \E b \in 1..6 : hour \in Bands[b]
    BY <1>1
  <1>4. ASSUME NEW b \in 1..6, NEW c \in 1..6, hour \in Bands[b], hour \in Bands[c]
        PROVE  b = c
    BY <1>1, <1>2, <1>4
  <1> QED
    BY <1>3, <1>4

\* The hours of a band, and those of them on a day of the week.
InBand(starts, b) == {at \in starts : (at + Zone - 8) % 24 \in Bands[b]}
OnWeekday(S, w) == {at \in S : Weekday(Day(at + Zone)) = w % 7}

\* Every starting time is in one band of one day of the week.
LEMMA PopularAddsUp ==
    ASSUME NEW gave, gave[1].rows \subseteq Universe, IsFiniteSet(gave[1].rows),
           NEW data, data = Popular(gave)
    PROVE  SumFunction([b \in 1..6 |-> SumFunction(data[b])]) =
               Cardinality({r.at : r \in gave[1].rows})
  <1> DEFINE given == gave[1].rows
             starts == {r.at : r \in given}
             one == [at \in starts |-> 1]
             band == [b \in 1..6 |-> InBand(starts, b)]
             sums == [b \in 1..6 |-> SumFunction(data[b])]
  <1>1. IsFiniteSet(starts)
    <2> DEFINE f == [r \in given |-> r.at]
    <2>1. f \in Surjection(given, starts)
      BY DEF Surjection
    <2> HIDE DEF f
    <2> QED
      BY <2>1, FS_Surjection
  <1>2. starts \subseteq Int
    BY UniverseStamped
  <1>3. \A b \in 1..6 : data[b] = [w \in 1..7 |-> Cardinality(OnWeekday(InBand(starts, b), w))]
    BY DEF Popular, InBand, OnWeekday
  <1> HIDE DEF starts
  <1>4. ASSUME NEW b \in 1..6
        PROVE  SumFunction(data[b]) = SumFunctionOnSet(one, band[b])
    <2> DEFINE S == InBand(starts, b)
               part == [w \in 1..7 |-> OnWeekday(S, w)]
               line == data[b]
    <2>1. S \subseteq starts /\ IsFiniteSet(S) /\ \A at \in S : one[at] = 1
      BY <1>1, FS_Subset DEF InBand
    <2>2. Partition(part, 7, S)
      <3>1. \A w \in 1..7 : part[w] \subseteq S
        BY DEF OnWeekday
      <3>2. ASSUME NEW at \in S PROVE \E w \in 1..7 : at \in part[w]
        <4>1. PICK d \in 0..6 : Weekday(Day(at + Zone)) = d
          <5>0. at \in Int
            BY <1>2, <2>1
          <5> HIDE DEF S, part, one
          <5>1. PICK h \in Int : h = at + Zone
            BY <5>0, ReportsAssumption
          <5>2. PICK e \in Int : e = Day(h)
            BY DEF Day
          <5>3. e % 7 \in 0..6
            OBVIOUS
          <5> QED
            BY <5>1, <5>2, <5>3 DEF Weekday
        <4>2. \E w \in 1..7 : d = w % 7
          <5>1. CASE d = 0
            BY <5>1
          <5>2. CASE d # 0
            BY <5>2
          <5> QED
            BY <5>1, <5>2
        <4> QED
          BY <4>1, <4>2 DEF OnWeekday
      <3>3. ASSUME NEW k \in 1..7, NEW l \in 1..7, k # l PROVE part[k] \cap part[l] = {}
        <4>1. k % 7 # l % 7
          BY <3>3
        <4> QED
          BY <4>1 DEF OnWeekday
      <3> HIDE DEF part, S
      <3> QED
        BY <3>1, <3>2, <3>3 DEF Partition
    <2>3. SumsOfParts(line, one, part, 7)
      <3>1. ASSUME NEW w \in 1..7 PROVE line[w] = SumFunctionOnSet(one, part[w])
        <4>1. line[w] = Cardinality(part[w])
          BY <1>3
        <4>2. part[w] \subseteq S
          BY DEF OnWeekday
        <4> HIDE DEF part, S, one
        <4>3. IsFiniteSet(part[w]) /\ \A at \in part[w] : one[at] = 1
          BY <2>1, <4>2, FS_Subset
        <4> QED
          BY <4>1, <4>3, SumOnes
      <3> HIDE DEF part, line
      <3> QED
        BY <3>1 DEF SumsOfParts
    <2>4. DOMAIN line = 1..7
      BY <1>3
    <2> HIDE DEF S, part, line, one
    <2>5. IsFiniteSet(S) /\ \A at \in S : one[at] \in Int
      BY <2>1
    <2>6. SumFunctionOnSet(line, 1..7) = SumFunctionOnSet(one, S)
      <3> DEFINE n == 7
      <3>1. n \in Nat /\ Partition(part, n, S) /\ SumsOfParts(line, one, part, n)
        BY <2>2, <2>3
      <3> HIDE DEF n
      <3>2. SumFunctionOnSet(line, 1..n) = SumFunctionOnSet(one, S)
        BY <2>5, <3>1, SumParts
      <3> QED
        BY <3>2 DEF n
    <2> QED
      BY <2>4, <2>6 DEF line, S, SumFunction
  <1>5. Partition(band, 6, starts)
    <2>1. \A b \in 1..6 : band[b] \subseteq starts
      BY DEF InBand
    <2>2. \A at \in starts : (at + Zone - 8) % 24 \in 0..23
      BY <1>2, ReportsAssumption
    <2>3. ASSUME NEW at \in starts PROVE \E b \in 1..6 : at \in band[b]
      BY <2>2, OneBand DEF InBand
    <2>4. ASSUME NEW k \in 1..6, NEW l \in 1..6, k # l PROVE band[k] \cap band[l] = {}
      BY <2>2, <2>4, OneBand DEF InBand
    <2> HIDE DEF band
    <2> QED
      BY <2>1, <2>3, <2>4 DEF Partition
  <1>6. SumsOfParts(sums, one, band, 6)
    BY <1>4 DEF SumsOfParts
  <1>7. DOMAIN sums = 1..6 /\ \A at \in starts : one[at] = 1
    OBVIOUS
  <1> HIDE DEF sums, one, band
  <1>8. SumFunctionOnSet(sums, 1..6) = SumFunctionOnSet(one, starts)
    <2> DEFINE n == 6
    <2>1. n \in Nat /\ Partition(band, n, starts) /\ SumsOfParts(sums, one, band, n)
      BY <1>5, <1>6
    <2>2. \A at \in starts : one[at] \in Int
      BY <1>7
    <2> HIDE DEF n
    <2>3. SumFunctionOnSet(sums, 1..n) = SumFunctionOnSet(one, starts)
      BY <1>1, <2>1, <2>2, SumParts
    <2> QED
      BY <2>3 DEF n
  <1>9. SumFunctionOnSet(one, starts) = Cardinality(starts)
    BY <1>1, <1>7, SumOnes
  <1> QED
    BY <1>7, <1>8, <1>9 DEF sums, starts, SumFunction

-----------------------------------------------------------------------------
(* The statements.                                                         *)

LEMMA ClockTyped ==
    ASSUME clocks \in Seq(Nat), clocks # <<>>
    PROVE  Curdate \in Int /\ Today \in Int
  <1>1. Head(clocks) \in Nat
    BY HeadTailProperties
  <1> QED
    BY <1>1, ReportsAssumption DEF Curdate, Today, Day

\* The days a line will have are some days.
LEMMA AutoDayFinite ==
    ASSUME NEW category \in Categories, NEW d \in Int
    PROVE  AutoDay(category, d) \subseteq Int /\ IsFiniteSet(AutoDay(category, d))
  <1>1. \A a, b \in Int : a..b \subseteq Int /\ IsFiniteSet(a..b)
    BY FS_Interval
  <1>2. \A e \in Int : /\ Month(e) \in Int /\ Quarter(e) \in Int /\ Year(e) \in Int
                       /\ Monday(e) \in Int /\ Sunday(e) \in Int
    BY DaysTyped DEF Monday, Sunday, Weekday
  <1>3. \A m \in Int : MonthStart(m) \in Int
    BY ReportsAssumption DEF MonthStart
  <1>4. category \in {0, 1, 2, 3, 4, 5, 6, 7, 8, 9, 10}
    BY DEF Categories
  <1>5. \E a, b \in Int : AutoDay(category, d) = a..b
    <2>1. CASE category \in {0, 1}
      <3>1. AutoDay(category, d) \in {(d - 5)..(d - 1), (d - 30)..(d - 1)}
        BY <2>1 DEF AutoDay
      <3>2. d - 5 \in Int /\ d - 30 \in Int /\ d - 1 \in Int
        OBVIOUS
      <3> QED
        BY <3>1, <3>2
    <2>2. CASE category = 2
      <3>1. d + 7 \in Int
        OBVIOUS
      <3>2. Monday(d) \in Int /\ Sunday(d + 7) \in Int
        BY <1>2, <3>1
      <3> QED
        BY <2>2, <3>2 DEF AutoDay
    <2>3. CASE category = 3
      <3>1. d - 7 \in Int
        OBVIOUS
      <3>2. PICK m \in Int : m = Monday(d - 7)
        BY <1>2, <3>1
      <3> QED
        BY <2>3, <3>2 DEF AutoDay
    <2>4. CASE category = 4
      <3>1. MonthStart(Month(d)) \in Int
        BY <1>2, <1>3
      <3> QED
        BY <2>4, <3>1 DEF AutoDay
    <2>5. CASE category = 5
      <3>1. PICK m \in Int : m = Month(d)
        BY <1>2
      <3>2. m - 1 \in Int
        OBVIOUS
      <3>3. PICK a, b \in Int : a = MonthStart(m - 1) /\ b = MonthStart(m)
        BY <1>3, <3>2
      <3> QED
        BY <2>5, <3>1, <3>3 DEF AutoDay
    <2>6. CASE category = 6
      <3>1. d - 90 \in Int /\ d - 1 \in Int
        OBVIOUS
      <3>2. Month(d - 90) \in Int /\ Month(d - 1) \in Int
        BY <1>2, <3>1
      <3> QED
        BY <2>6, <3>2 DEF AutoDay
    <2>7. CASE category \in {7, 8}
      <3>1. PICK q \in Int : q = Quarter(d)
        BY <1>2
      <3>2. d - 1 \in Int
        OBVIOUS
      <3>3. PICK m \in Int : m = Month(d - 1)
        BY <1>2, <3>2
      <3>4. AutoDay(category, d) \in {(3 * q)..m, (3 * q - 3)..(3 * q - 1)}
        BY <2>7, <3>1, <3>3 DEF AutoDay
      <3> QED
        BY <3>4
    <2>8. CASE category \in {9, 10}
      <3>1. PICK y \in Int : y = Year(d)
        BY <1>2
      <3>2. d - 1 \in Int
        OBVIOUS
      <3>3. PICK m \in Int : m = Month(d - 1)
        BY <1>2, <3>2
      <3>4. AutoDay(category, d) \in {(12 * y)..m, (12 * y - 12)..(12 * y - 1)}
        BY <2>8, <3>1, <3>3 DEF AutoDay
      <3> QED
        BY <3>4
    <2> QED
      BY <1>4, <2>1, <2>2, <2>3, <2>4, <2>5, <2>6, <2>7, <2>8
  <1> QED
    BY <1>1, <1>5

\* What a statement gives is rows of the tables.
LEMMA QueriesGive ==
    ASSUME NEW type \in Types
    PROVE  /\ Len(Queries(type)) = Asked(type)
           /\ \A n \in 1..Len(Queries(type)) : Queries(type)[n] \subseteq rows
  <1>1. type \in {0, 1, 2, 3, 4, 5, 6, 7, 8, 9, 10, 11}
    BY DEF Types
  <1>2. /\ CompletedOrder \subseteq rows /\ CompletedOrderGrossPrice \subseteq rows
        /\ Activities \subseteq rows /\ Districts \subseteq rows /\ Feedback \subseteq rows
        /\ \A table, classes : Of(table, classes) \subseteq rows
    BY DEF CompletedOrder, CompletedOrderGrossPrice, Activities, Districts, Feedback, Of
  <1>3. CASE type \in {0, 1}
    <2>1. /\ Queries(type) \in {<<CompletedOrder>>, <<CompletedOrderGrossPrice>>}
          /\ Asked(type) = 1
      BY <1>3 DEF Queries, Lines, Pies, LineQueries, Asked
    <2> QED
      BY <1>2, <2>1
  <1>4. CASE type = 6
    <2> DEFINE q == Queries(type)
    <2>1. /\ q = [i \in 1..4 |-> Of("datings", {CancellationTrend[i]})]
          /\ Asked(type) = 4
      BY <1>4 DEF Queries, Lines, Pies, LineQueries, Asked
    <2> HIDE DEF q
    <2>2. Len(q) = 4 /\ \A i \in 1..4 : q[i] \subseteq rows
      BY <1>2, <2>1
    <2> QED
      BY <2>1, <2>2 DEF q
  <1>5. CASE type = 2
    BY <1>2, <1>5 DEF Queries, Lines, Pies, PopularQueries, Asked
  <1>6. CASE type \in {3, 4, 10, 11}
    BY <1>2, <1>6 DEF Queries, Lines, Pies, PieQueries, Asked
  <1>7. CASE type \in {5, 7, 8, 9}
    BY <1>2, <1>7 DEF Queries, Lines, Pies, StatisticsQueries, Asked
  <1> QED
    BY <1>1, <1>3, <1>4, <1>5, <1>6, <1>7

-----------------------------------------------------------------------------
(* The steps.                                                              *)

LEMMA InitHolds == Init => ReportsInv
  <1> SUFFICES ASSUME Init PROVE ReportsInv
    OBVIOUS
  <1>1. PICK s \in Scenarios :
           /\ rows = s.rows /\ comes = s.comes /\ clocks = s.clocks
           /\ request = [type |-> s.type, category |-> s.category,
                         all |-> s.type = 0 /\ s.category = 0, phase |-> "switch", range |-> {}]
           /\ fetched = <<>> /\ chart = NoChart
    BY DEF Init
  <1>2. rows \subseteq Universe /\ comes \subseteq Universe
    BY <1>1 DEF Universe
  <1>3. /\ clocks \in Seq(Nat) /\ clocks # <<>> /\ IsFiniteSet(rows)
        /\ request.type \in Types /\ request.category \in Categories
    <2>1. /\ s.clocks \in Seq(Nat) /\ s.clocks # <<>> /\ IsFiniteSet(s.rows)
          /\ s.type \in Types /\ s.category \in Categories
      BY ScenariosAssumption
    <2> QED
      BY <1>1, <2>1
  <1>4. /\ DOMAIN request = Fields /\ request.phase = "switch"
        /\ request.range \subseteq Int /\ IsFiniteSet(request.range)
    BY <1>1, FS_EmptySet DEF Fields
  <1> QED
    BY <1>1, <1>2, <1>3, <1>4 DEF ReportsInv

LEMMA SwitchKeeps == ReportsInv /\ Switch => ReportsInv'
  <1> SUFFICES ASSUME ReportsInv, Switch PROVE ReportsInv'
    OBVIOUS
  <1> DEFINE range == IF request.type \in Lines THEN AutoDay(request.category, Today) ELSE {}
  <1>1. /\ request' = [request EXCEPT !.phase = "query", !.range = range]
        /\ fetched' = <<>> /\ UNCHANGED <<rows, clocks, comes, chart>>
    BY DEF Switch
  <1>2. range \subseteq Int /\ IsFiniteSet(range)
    <2>1. Today \in Int /\ request.category \in Categories
      BY ClockTyped DEF ReportsInv
    <2> QED
      BY <2>1, AutoDayFinite, FS_EmptySet
  <1> HIDE DEF range
  <1>3. /\ DOMAIN request' = Fields /\ request'.type = request.type
        /\ request'.category = request.category /\ request'.range = range
    BY <1>1 DEF ReportsInv, Fields
  <1>4. fetched' \in Seq(Given) /\ Len(fetched') = 0
    BY <1>1
  <1>5. InItsTime(request'.category, fetched')
    BY <1>4 DEF InItsTime
  <1>6. ChartMade => ChartMade'
    BY <1>1 DEF ChartMade
  <1> QED
    BY <1>1, <1>2, <1>3, <1>4, <1>5, <1>6 DEF ReportsInv

LEMMA QueryKeeps == ReportsInv /\ Query => ReportsInv'
  <1> SUFFICES ASSUME ReportsInv, Query PROVE ReportsInv'
    OBVIOUS
  <1>1. /\ UNCHANGED <<rows, clocks, comes, request, chart>> /\ request.phase = "query"
    BY DEF Query
  <1> DEFINE type == request.type
             category == request.category
             n == Len(fetched) + 1
             S == {r \in Queries(type)[n] : InTime(n, r)}
  <1>2. PICK gift : gift = [rows |-> S, day |-> Curdate]
    OBVIOUS
  <1>3. fetched' = Append(fetched, gift) /\ n <= Len(Queries(type))
    BY <1>2 DEF Query
  <1>4. /\ fetched \in Seq(Given) /\ type \in Types
        /\ type = 9 => InItsTime(category, fetched)
    BY <1>1 DEF ReportsInv
  <1>5. Len(fetched) \in Nat /\ n \in 1..Len(Queries(type))
    <2>1. Len(Queries(type)) \in Nat
      BY <1>4, QueriesGive DEF Asked
    <2> QED
      BY <1>3, <1>4, <2>1
  <1>6. S \subseteq Universe /\ IsFiniteSet(S)
    <2>1. Queries(type)[n] \subseteq rows
      BY <1>4, <1>5, QueriesGive
    <2>2. S \subseteq rows
      BY <2>1
    <2> HIDE DEF S
    <2> QED
      BY <2>2, FS_Subset DEF ReportsInv
  <1>7. gift \in Given /\ gift.rows = S /\ gift.day = Curdate
    <2>1. Curdate \in Int
      BY ClockTyped DEF ReportsInv
    <2> HIDE DEF S
    <2> QED
      BY <1>2, <1>6, <2>1 DEF Given
  <1>8. /\ fetched' \in Seq(Given) /\ Len(fetched') = n /\ fetched'[n] = gift
        /\ \A m \in 1..Len(fetched) : fetched'[m] = fetched[m]
    BY <1>3, <1>4, <1>7, AppendProperties
  <1>9. ASSUME type = 9 PROVE InItsTime(category, fetched')
    <2>1. n \in {1, 2}
      <3>1. Len(Queries(type)) = 2
        BY <1>4, <1>9, QueriesGive DEF Asked
      <3> HIDE DEF type, n
      <3> QED
        BY <1>5, <3>1
    <2>2. ASSUME NEW r \in gift.rows
          PROVE  /\ n = 1 => Window(category, gift.day, r.at)
                 /\ n = 2 => EarlierWindow(category, gift.day, r.at)
      BY <1>7, <1>9, <2>1, <2>2 DEF InTime
    <2> HIDE DEF S
    <2>3. ASSUME NEW m \in 1..Len(fetched'), NEW r \in fetched'[m].rows
          PROVE  /\ m = 1 => Window(category, fetched'[m].day, r.at)
                 /\ m = 2 => EarlierWindow(category, fetched'[m].day, r.at)
      <3>1. CASE m = n
        BY <1>8, <2>2, <2>3, <3>1
      <3>2. CASE m # n
        <4>1. m \in 1..Len(fetched)
          BY <1>5, <1>8, <3>2
        <4> QED
          BY <1>4, <1>8, <1>9, <2>3, <4>1 DEF InItsTime
      <3> QED
        BY <3>1, <3>2
    <2> QED
      BY <2>3 DEF InItsTime
  <1>10. ChartMade => ChartMade'
    BY <1>1 DEF ChartMade
  <1> QED
    BY <1>1, <1>8, <1>9, <1>10 DEF ReportsInv

LEMMA CreateKeeps == ReportsInv /\ CreateReport => ReportsInv'
  <1> SUFFICES ASSUME ReportsInv, CreateReport PROVE ReportsInv'
    OBVIOUS
  <1>1. /\ UNCHANGED <<rows, clocks, comes, fetched>> /\ request.phase = "query"
        /\ Len(fetched) = Len(Queries(request.type))
        /\ chart'.type = request.type /\ chart'.category = request.category
        /\ chart'.range = request.range /\ chart'.gave = fetched
        /\ chart'.data =
               GenerateReport(request.type, request.category, request.range, fetched)
    BY DEF CreateReport
  <1>2. /\ DOMAIN request' = Fields /\ request'.phase = "save"
        /\ request'.type = request.type /\ request'.category = request.category
        /\ request'.range = request.range
    BY DEF CreateReport, ReportsInv, Fields
  <1>3. ChartMade'
    <2>1. /\ request.type \in Types /\ request.category \in Categories
          /\ request.range \subseteq Int /\ IsFiniteSet(request.range)
          /\ fetched \in Seq(Given)
          /\ request.type = 9 => InItsTime(request.category, fetched)
      BY <1>1 DEF ReportsInv
    <2>2. Len(fetched) = Asked(request.type)
      BY <1>1, <2>1, QueriesGive
    <2> QED
      BY <1>1, <2>1, <2>2 DEF ChartMade
  <1> QED
    BY <1>1, <1>2, <1>3 DEF ReportsInv

LEMMA SaveKeeps == ReportsInv /\ Save => ReportsInv'
  <1> SUFFICES ASSUME ReportsInv, Save PROVE ReportsInv'
    OBVIOUS
  <1>1. UNCHANGED <<rows, clocks, comes, fetched, chart>>
    BY DEF Save
  <1>2. /\ DOMAIN request' = Fields /\ request'.phase # "query"
        /\ request'.type \in Types /\ request'.category \in Categories
        /\ request'.range = request.range
    <2> DEFINE next == After(request)
    <2>1. CASE /\ next.category \in Categories
               /\ request' = [request EXCEPT !.phase = "switch", !.type = next.type,
                                             !.category = next.category]
      <3>1. next.type \in Types
        BY DEF After, ReportsInv, Types
      <3> HIDE DEF next
      <3> QED
        BY <2>1, <3>1 DEF ReportsInv, Fields
    <2>2. CASE request' = [request EXCEPT !.phase = "ok"]
      BY <2>2 DEF ReportsInv, Fields
    <2> QED
      BY <2>1, <2>2 DEF Save
  <1>3. ChartMade => ChartMade'
    BY <1>1 DEF ChartMade
  <1> QED
    BY <1>1, <1>2, <1>3 DEF ReportsInv

LEMMA StepKeeps == ReportsInv /\ [Next]_vars => ReportsInv'
  <1> SUFFICES ASSUME ReportsInv, [Next]_vars PROVE ReportsInv'
    OBVIOUS
  <1>0. chart' = chart /\ ChartMade => ChartMade'
    BY DEF ChartMade
  <1>1. CASE Switch
    BY <1>1, SwitchKeeps
  <1>2. CASE Query
    BY <1>2, QueryKeeps
  <1>3. CASE CreateReport
    BY <1>3, CreateKeeps
  <1>4. CASE Fails
    <2>1. /\ DOMAIN request' = Fields /\ request'.type = request.type
          /\ request'.category = request.category /\ request'.range = request.range
          /\ request'.phase = "refused"
      BY <1>4 DEF Fails, ReportsInv, Fields
    <2> QED
      BY <1>0, <1>4, <2>1 DEF Fails, ReportsInv
  <1>5. CASE Inserted
    <2>1. PICK r \in comes : rows' = rows \cup {r}
      BY <1>5 DEF Inserted
    <2>2. IsFiniteSet(rows \cup {r})
      BY FS_AddElement DEF ReportsInv
    <2> QED
      BY <1>0, <1>5, <2>1, <2>2 DEF Inserted, ReportsInv
  <1>6. CASE TimePasses
    <2>1. clocks' = Tail(clocks) /\ Len(clocks) > 1 /\ clocks \in Seq(Nat)
      BY <1>6 DEF TimePasses, ReportsInv
    <2>2. clocks # <<>> /\ Len(clocks) \in Nat
      BY <2>1
    <2>3. Tail(clocks) \in Seq(Nat) /\ Len(Tail(clocks)) = Len(clocks) - 1
      BY <2>1, <2>2, HeadTailProperties
    <2>4. clocks' \in Seq(Nat) /\ clocks' # <<>>
      <3>1. Len(clocks') > 0
        BY <2>1, <2>2, <2>3
      <3>2. Len(<<>>) = 0
        OBVIOUS
      <3>3. clocks' # <<>>
        BY <3>1, <3>2
      <3> QED
        BY <2>1, <2>3, <3>3
    <2> QED
      BY <1>0, <1>6, <2>4 DEF TimePasses, ReportsInv
  <1>7. CASE Save
    BY <1>7, SaveKeeps
  <1>8. CASE UNCHANGED vars
    BY <1>0, <1>8 DEF vars, ReportsInv
  <1> QED
    BY <1>1, <1>2, <1>3, <1>4, <1>5, <1>6, <1>7, <1>8 DEF Next

-----------------------------------------------------------------------------
(* What the charts say.                                                    *)

LEMMA InvGivesTruth == ReportsInv => ChartsAreTrue
  <1> SUFFICES ASSUME ReportsInv PROVE ChartsAreTrue
    OBVIOUS
  <1>1. CASE chart = NoChart
    <2>1. chart.type = -1
      BY <1>1 DEF NoChart
    <2>2. chart.type \notin Lines /\ chart.type # 2
      BY <2>1 DEF Lines
    <2> QED
      BY <2>2 DEF ChartsAreTrue
  <1>2. CASE ChartMade
    <2> DEFINE type == chart.type
               category == chart.category
               range == chart.range
               gave == chart.gave
               data == chart.data
    <2>1. /\ type \in Types /\ category \in Categories
          /\ range \subseteq Int /\ IsFiniteSet(range)
          /\ gave \in Seq(Given) /\ Len(gave) = Asked(type)
          /\ data = GenerateReport(type, category, range, gave)
      BY <1>2 DEF ChartMade
    <2>2. type \in Lines => LineIsTrue(type, category, range, gave, data)
      <3> HIDE DEF type, category, range, gave, data
      <3> SUFFICES ASSUME type \in Lines PROVE LineIsTrue(type, category, range, gave, data)
        OBVIOUS
      <3>1. data = LineGraph(type, category, range, gave)
        BY <2>1 DEF GenerateReport, Lines, Pies
      <3>2. Len(gave) # 0
        <4>1. Asked(type) \in {1, 2, 4}
          BY DEF Asked
        <4> QED
          BY <2>1, <4>1
      <3>3. LineIsTrue(type, category, range, gave, LineGraph(type, category, range, gave))
        BY <2>1, <3>2, LinesAreTrue
      <3> QED
        BY <3>1, <3>3
    <2>3. type = 2 =>
            SumFunction([b \in 1..6 |-> SumFunction(data[b])]) =
                Cardinality({r.at : r \in gave[1].rows})
      <3> HIDE DEF type, category, range, gave, data
      <3> SUFFICES ASSUME type = 2
                   PROVE  SumFunction([b \in 1..6 |-> SumFunction(data[b])]) =
                              Cardinality({r.at : r \in gave[1].rows})
        OBVIOUS
      <3>1. data = Popular(gave)
        BY <2>1 DEF GenerateReport, Lines, Pies
      <3>2. gave[1] \in Given
        <4>1. Len(gave) = 1
          BY <2>1 DEF Asked
        <4> QED
          BY <2>1, <4>1
      <3>3. gave[1].rows \subseteq Universe /\ IsFiniteSet(gave[1].rows)
        BY <3>2 DEF Given
      <3> QED
        BY <3>1, <3>3, PopularAddsUp
    <2> QED
      BY <2>2, <2>3 DEF ChartsAreTrue, LineIsTrue, InRange, RowsOf
  <1> QED
    BY <1>1, <1>2 DEF ReportsInv

LEMMA InvGivesApart == ReportsInv => PeriodsApart
  <1> SUFFICES ASSUME ReportsInv, chart.type = 9, chart.gave[1].day = chart.gave[2].day,
                      NEW r \in chart.gave[1].rows \cap chart.gave[2].rows
               PROVE  r.at % 24 = 0
    BY DEF PeriodsApart
  <1>1. chart # NoChart
    BY DEF NoChart
  <1>2. /\ chart.category \in Categories
        /\ chart.gave \in Seq(Given) /\ Len(chart.gave) = 2
        /\ InItsTime(chart.category, chart.gave)
    BY <1>1 DEF ReportsInv, ChartMade, Asked
  <1>3. chart.gave[1] \in Given /\ chart.gave[2] \in Given
    BY <1>2
  <1>4. chart.gave[1].day \in Int /\ r.at \in Int
    BY <1>3, UniverseStamped DEF Given
  <1>5. /\ Window(chart.category, chart.gave[1].day, r.at)
        /\ EarlierWindow(chart.category, chart.gave[2].day, r.at)
    BY <1>2 DEF InItsTime
  <1> QED
    BY <1>2, <1>4, <1>5, TimesApart

\* A complaint is counted in one of the two times the chart compares, unless it was
\* made at midnight sharp or midnight passed between the two statements.
THEOREM ComplaintsCountOnce == Spec => []PeriodsApart
  <1>1. ReportsInv /\ [Next]_vars => ReportsInv'
    BY StepKeeps
  <1> QED
    BY InitHolds, InvGivesApart, <1>1, PTL DEF Spec

\* A stored chart counts what its statements gave, once: each series of a line adds
\* up, its values are those of its dates in order unless a statement gave a day
\* outside the range, and every starting time is in one band of one day.
THEOREM ChartsCountOnce == Spec => []ChartsAreTrue
  <1>1. ReportsInv /\ [Next]_vars => ReportsInv'
    BY StepKeeps
  <1> QED
    BY InitHolds, InvGivesTruth, <1>1, PTL DEF Spec
=============================================================================
