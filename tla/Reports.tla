-------------------------------- MODULE Reports --------------------------------
(***************************************************************************)
(* The charts of the data centre: report.controller.ts generates each one  *)
(* with the statements of report-helper.service.ts and stores it, for one  *)
(* type and category, or for all of them one after the other.  Between two *)
(* statements rows are inserted and time passes; MySQL tells the day in its*)
(* own time zone, moment in that of the process.                           *)
(*                                                                         *)
(* A row is what a statement tells apart of it: the table, the hour it is  *)
(* at, its class (what became of a booking), its part of a pie, its price. *)
(*                                                                         *)
(* Left out: the key of the request, names and colours, average scores,    *)
(* which sums make up the income, and reading the stored charts.           *)
(***************************************************************************)
EXTENDS Integers, Sequences, SequencesExt, FiniteSetsExt

CONSTANTS Zone,       \* hours the process is ahead of MySQL
          MonthDays,  \* days of a month; twelve make a year, day 0 is a Sunday
          Parts,      \* parts the pies have a name for
          Scenarios   \* [rows, comes, clocks, type, category]: what there is, may come, is asked

ASSUME ReportsAssumption == Zone \in 0..23 /\ MonthDays \in Nat \ {0}

VARIABLES rows,     \* the tables
          clocks,   \* hours that may still come, the present one first
          comes,    \* rows that may still be inserted
          request,  \* the chart being made, and whether all are asked
          fetched,  \* what its statements have given, each with MySQL's day
          chart     \* the chart stored last

vars == <<rows, clocks, comes, request, fetched, chart>>

-----------------------------------------------------------------------------
(* The calendar.                                                           *)
Day(at) == at \div 24
Month(d) == d \div MonthDays
Quarter(d) == Month(d) \div 3
Year(d) == Month(d) \div 12
Weekday(d) == d % 7
MonthStart(m) == m * MonthDays

Curdate == Day(Head(clocks))
Today == Day(Head(clocks) + Zone)

\* BETWEEN two dates, the last one at midnight.
Between(at, first, last) == first * 24 <= at /\ at <= last * 24
YearWeek(d) == d \div 7

\* The time a category spans in every WHERE clause; the quarter before the first
\* one is looked for in this year.
Window(category, d, at) ==
    CASE category = 0 -> Between(at, d - 7, d)
      [] category = 1 -> Between(at, d - 30, d)
      [] category = 2 -> YearWeek(Day(at)) = YearWeek(d)
      [] category = 3 -> YearWeek(Day(at)) = YearWeek(d - 7)
      [] category = 4 -> Between(at, MonthStart(Month(d)), d)
      [] category = 5 -> Between(at, MonthStart(Month(d) - 1), MonthStart(Month(d)) - 1)
      [] category = 6 -> Between(at, d - 90, d)
      [] category = 7 -> Quarter(Day(at)) = Quarter(d)
      [] category = 8 -> Quarter(Day(at)) % 4 = (Quarter(d) - 1) % 4 /\ Year(Day(at)) = Year(d)
      [] category = 9 -> Between(at, MonthStart(12 * Year(d)), d)
      [] category = 10 -> Year(Day(at)) = Year(d) - 1

\* The seven and thirty days of the time before reach one day further.
EarlierWindowLonger(category, d, at) ==
    CASE category = 0 -> Between(at, d - 14, d - 6)
      [] OTHER -> category = 1 /\ Between(at, d - 60, d - 29)
\* The time before, which complaints are compared with.
EarlierWindow(category, d, at) ==
    CASE category = 0 -> Between(at, d - 14, d - 7)
      [] category = 1 -> Between(at, d - 60, d - 30)
      [] category = 2 -> YearWeek(Day(at)) = YearWeek(d - 7)
      [] category = 3 -> YearWeek(Day(at)) = YearWeek(d - 14)
      [] category = 4 -> Between(at, MonthStart(Month(d) - 1), MonthStart(Month(d)) - 1)
      [] category = 5 -> Between(at, MonthStart(Month(d) - 2), MonthStart(Month(d) - 1) - 1)
      [] category = 6 -> Between(at, d - 180, d - 90)
      [] category = 7 -> Quarter(Day(at)) % 4 = (Quarter(d) - 1) % 4 /\ Year(Day(at)) = Year(d)
      [] category = 8 -> Quarter(Day(at)) % 4 = (Quarter(d) - 2) % 4 /\ Year(Day(at)) = Year(d)
      [] category = 9 -> Year(Day(at)) = Year(d) - 1
      [] category = 10 -> Year(Day(at)) = Year(d) - 2

Monday(d) == d - ((Weekday(d) + 6) % 7)
Sunday(d) == d - Weekday(d)
\* The days, from the seventh category on the months, a line has a point for: five
\* days for the past seven; on a Sunday two weeks for the present one.
AutoDay(category, d) ==
    CASE category = 0 -> (d - 5)..(d - 1)
      [] category = 1 -> (d - 30)..(d - 1)
      [] category = 2 -> Monday(d)..Sunday(d + 7)
      [] category = 3 -> Monday(d - 7)..(Monday(d - 7) + 6)
      [] category = 4 -> MonthStart(Month(d))..(d - 1)
      [] category = 5 -> MonthStart(Month(d) - 1)..(MonthStart(Month(d)) - 1)
      [] category = 6 -> Month(d - 90)..Month(d - 1)
      [] category = 7 -> (3 * Quarter(d))..Month(d - 1)
      [] category = 8 -> (3 * Quarter(d) - 3)..(3 * Quarter(d) - 1)
      [] category = 9 -> (12 * Year(d))..Month(d - 1)
      [] category = 10 -> (12 * Year(d) - 12)..(12 * Year(d) - 1)

\* What rows are grouped by.
Label(category, r) == IF category < 6 THEN Day(r.at) ELSE Month(Day(r.at))

-----------------------------------------------------------------------------
(* The statements, by chart type.                                          *)
Lines == {0, 1, 6}
Pies == {3, 4, 10, 11}
Types == 0..11
Categories == 0..10

ASSUME ScenariosAssumption ==
    \A s \in Scenarios : /\ s.clocks \in Seq(Nat) /\ s.clocks # <<>>
                         /\ IsFiniteSet(s.rows)
                         /\ \A r \in s.rows \cup s.comes : r.at \in Int /\ r.price \in Int
                         /\ s.type \in Types /\ s.category \in Categories

Of(table, classes) == {r \in rows : r.table = table /\ r.class \in classes}
\* By its status a booking is ended (4, 6: done, or unpaid when nothing is left for
\* the provider), agreed (2, 3), open (another one above 0), withdrawn (-4), refused
\* or left without a reply (-1), cancelled (-2), late (-3), or none of these.
Done == {"done", "unpaid"}
Positive == Done \cup {"agreed", "open"}
Every == Positive \cup {"withdrawn", "refused", "noReply", "cancelled", "late", "none"}

CompletedOrder == Of("datings", Done)
CompletedOrderGrossPrice == Of("datings", Done)
Activities == {r \in Of("datings", Positive) : r.part \in Parts}
Districts == Of("datings", Positive)
Feedback == {r \in Of("feedback", Every) : r.part \in Parts}
\* In the order their series have in the chart.
CancellationTrend == <<"refused", "noReply", "cancelled", "late">>

LineQueries(type) ==
    CASE type = 0 -> <<CompletedOrder>>
      [] type = 1 -> <<CompletedOrderGrossPrice>>
      [] type = 6 -> [i \in 1..4 |-> Of("datings", {CancellationTrend[i]})]
PieQueries(type) ==
    CASE type = 3 -> <<Activities>>
      [] type = 4 -> <<Of("datings", Every), Districts>>
      [] type \in {10, 11} -> <<Feedback>>
StatisticsQueries(type) ==
    CASE type = 5 -> <<Of("datings", Every), Of("datings", Done)>>
      [] type = 7 -> <<Of("logs", Every)>>
      [] type = 8 -> <<Of("users", Every)>>
      [] type = 9 -> <<Of("feedback", Every), Of("feedback", Every)>>
PopularQueries == <<Of("datings", Every)>>
Queries(type) == CASE type \in Lines -> LineQueries(type)
                   [] type \in Pies -> PieQueries(type)
                   [] type = 2 -> PopularQueries
                   [] OTHER -> StatisticsQueries(type)

-----------------------------------------------------------------------------
(* The charts.                                                             *)
Value(type, S) == IF type = 1 THEN SumFunction([r \in S |-> r.price]) ELSE Cardinality(S)

\* The days from the first one on, those that are none of S left out.
Ascending(S) ==
    LET first == Min(S)
        span  == Max(S) - first + 1
        upTo[n \in 0..span] ==
            IF n = 0 THEN <<>>
            ELSE IF first + n - 1 \in S THEN Append(upTo[n - 1], first + n - 1)
            ELSE upTo[n - 1]
    IN  IF S = {} THEN <<>> ELSE upTo[span]
\* Variant: the days that have rows are given a point of their own as well.
AddDaytoolTwice(labels, range) == Ascending(range) \o Ascending(labels)
\* The days of the range that have no rows are added, and all are put in order.
AddDaytool(labels, range) == Ascending(labels \cup range)

\* The dates are those of the last series.
LineGraph(type, category, range, gave) ==
    LET labels(S) == {Label(category, r) : r \in S}
        days == [i \in DOMAIN gave |-> AddDaytool(labels(gave[i].rows), range)]
        at(i, day) == {r \in gave[i].rows : Label(category, r) = day}
    IN  [dates |-> days[Len(gave)],
         series |-> [i \in DOMAIN gave |->
                        [k \in DOMAIN days[i] |-> Value(type, at(i, days[i][k]))]]]

\* Starting times, not bookings: one for each hour.  The band is taken eight hours
\* before, the day is not.
Bands == <<2..5, 6..9, 10..13, 14..17, 18..21, {22, 23, 0, 1}>>
Popular(gave) ==
    LET starts == {r.at : r \in gave[1].rows}
    IN  [b \in 1..6 |-> [w \in 1..7 |->
            Cardinality({at \in starts : /\ (at + Zone - 8) % 24 \in Bands[b]
                                         /\ Weekday(Day(at + Zone)) = w % 7})]]

\* Of the districts, only those of some booking; none when there is nothing.
PieNames(type, gave) ==
    IF type # 4 THEN Parts
    ELSE {r.part : r \in IF gave[2].rows = {} THEN {} ELSE gave[1].rows}
PieChart(type, gave) ==
    [p \in PieNames(type, gave) |->
        Cardinality({r \in gave[Len(gave)].rows : r.part = p})]

\* A part of a whole that is empty is 0.
Rate(part, whole) == IF whole = 0 THEN <<0, 1>> ELSE <<part, whole>>
OrderStatistics(S) ==
    LET of(classes) == Cardinality({r \in S : r.class \in classes})
        notes == of({"refused", "noReply"})
    IN  [success |-> Rate(of({"done"}), of(Every)), active |-> Rate(of({"refused"}), notes),
         passive |-> Rate(of({"noReply"}), notes), member |-> Rate(of({"cancelled"}), of(Every)),
         late |-> Rate(of({"late"}), of(Every)),
         response |-> Rate(of(Done \cup {"refused", "agreed", "withdrawn"}), of(Every))]
ComplaintStatistics(now, before) ==
    [count |-> Cardinality(now),
     rate |-> Rate(Cardinality(now) - Cardinality(before), Cardinality(before))]
Statistics(type, gave) ==
    CASE type = 5 -> OrderStatistics(gave[1].rows)
      [] type = 9 -> ComplaintStatistics(gave[1].rows, gave[2].rows)
      [] OTHER -> [p \in Parts |-> Cardinality({r \in gave[1].rows : r.part = p})]

GenerateReport(type, category, range, gave) ==
    CASE type \in Lines -> LineGraph(type, category, range, gave)
      [] type \in Pies -> PieChart(type, gave)
      [] type = 2 -> Popular(gave)
      [] OTHER -> Statistics(type, gave)

-----------------------------------------------------------------------------
NoChart == [type |-> -1]

\* An administrator asks one chart, the cron job all: from the first on.
Init == \E s \in Scenarios :
    /\ rows = s.rows
    /\ clocks = s.clocks
    /\ comes = s.comes
    /\ request = [type |-> s.type, category |-> s.category,
                  all |-> s.type = 0 /\ s.category = 0, phase |-> "switch", range |-> {}]
    /\ fetched = <<>>
    /\ chart = NoChart

\* The switch of the type and the days the line will have.
Switch ==
    /\ request.phase = "switch"
    /\ request' = [request EXCEPT !.phase = "query",
                                  !.range = IF request.type \in Lines
                                            THEN AutoDay(request.category, Today) ELSE {}]
    /\ fetched' = <<>>
    /\ UNCHANGED <<rows, clocks, comes, chart>>

InTime(n, r) ==
    CASE request.type = 9 /\ n = 2 -> EarlierWindow(request.category, Curdate, r.at)
      [] request.type = 4 /\ n = 1 -> TRUE
      [] OTHER -> Window(request.category, Curdate, r.at)
\* Without any booking there is no district to select: the statement is refused.
Query ==
    LET n == Len(fetched) + 1 IN
    /\ request.phase = "query"
    /\ n <= Len(Queries(request.type))
    /\ request.type = 4 /\ n = 2 => fetched[1].rows # {}
    /\ fetched' = Append(fetched,
            [rows |-> {r \in Queries(request.type)[n] : InTime(n, r)}, day |-> Curdate])
    /\ UNCHANGED <<rows, clocks, comes, request, chart>>

\* createReport inserts the chart ...
CreateReport ==
    /\ request.phase = "query"
    /\ Len(fetched) = Len(Queries(request.type))
    /\ chart' = [type |-> request.type, category |-> request.category, range |-> request.range,
                 gave |-> fetched,
                 data |-> GenerateReport(request.type, request.category, request.range, fetched)]
    /\ request' = [request EXCEPT !.phase = "save"]
    /\ UNCHANGED <<rows, clocks, comes, fetched>>

\* All categories, and in each all types.
After(r) == IF r.type < 11 THEN [type |-> r.type + 1, category |-> r.category]
                           ELSE [type |-> 0, category |-> r.category + 1]

\* ... and awaits that it is saved once more.
Save ==
    /\ request.phase = "save"
    /\ request' = IF request.all /\ After(request).category \in Categories
                  THEN [request EXCEPT !.phase = "switch", !.type = After(request).type,
                                       !.category = After(request).category]
                  ELSE [request EXCEPT !.phase = "ok"]
    /\ UNCHANGED <<rows, clocks, comes, fetched, chart>>

\* n11002: what comes after is not made; a chart that was inserted stays.
Fails ==
    /\ request.phase \in {"query", "save"}
    /\ request' = [request EXCEPT !.phase = "refused"]
    /\ UNCHANGED <<rows, clocks, comes, fetched, chart>>

Inserted ==
    /\ request.phase \in {"switch", "query", "save"}
    /\ \E r \in comes : rows' = rows \cup {r}
    /\ comes' = {}
    /\ UNCHANGED <<clocks, request, fetched, chart>>

TimePasses ==
    /\ request.phase \in {"switch", "query", "save"}
    /\ Len(clocks) > 1
    /\ clocks' = Tail(clocks)
    /\ UNCHANGED <<rows, comes, request, fetched, chart>>

Next == Switch \/ Query \/ CreateReport \/ Save \/ Fails \/ Inserted \/ TimePasses

Spec == Init /\ [][Next]_vars

-----------------------------------------------------------------------------
(* Properties.                                                             *)

\* A chart counts what its statements gave, once: a line's dates go up and each of
\* its series adds up; as long as no statement gave a day outside the range, every
\* series has a value for each date and it is that date's, though the series were
\* asked one after the other and the range before them; and every starting time is
\* in one band of one day.
ChartsAreTrue ==
    LET gave == chart.gave
        data == chart.data
        inRange == \A i \in DOMAIN gave : \A r \in gave[i].rows :
                       Label(chart.category, r) \in chart.range
    IN
    /\ chart.type \in Lines =>
        /\ \A k \in 2..Len(data.dates) : data.dates[k - 1] < data.dates[k]
        /\ \A i \in DOMAIN gave : SumFunction(data.series[i]) = Value(chart.type, gave[i].rows)
        /\ inRange => \A i \in DOMAIN gave :
              /\ Len(data.series[i]) = Len(data.dates)
              /\ \A k \in DOMAIN data.dates : data.series[i][k] =
                    Value(chart.type, {r \in gave[i].rows :
                                          Label(chart.category, r) = data.dates[k]})
    /\ chart.type = 2 =>
        SumFunction([b \in 1..6 |-> SumFunction(data[b])]) = Cardinality({r.at : r \in gave[1].rows})

\* A complaint is not counted both as one of the present time and as one of the
\* time before, unless it was made at midnight sharp or midnight passed in between.
PeriodsApart ==
    chart.type = 9 /\ chart.gave[1].day = chart.gave[2].day =>
        \A r \in chart.gave[1].rows \cap chart.gave[2].rows : r.at % 24 = 0
=============================================================================
