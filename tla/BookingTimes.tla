---------------------------- MODULE BookingTimes ----------------------------
(***************************************************************************)
(* Bookable times of a provider: the four filters of                       *)
(* order-helper.service.ts that order.service.ts runs one after the other, *)
(* and the check of createOrder against their result.  Times are counted   *)
(* in hours from today's midnight; days before today are negative.         *)
(*                                                                         *)
(* The server's clock (TZ in the dockerfile) is Zone hours ahead of UTC:   *)
(* the days offered are its days, while the last day and the rows are read *)
(* with moment.utc.  Left out: the formats of dates, and seconds.          *)
(***************************************************************************)
EXTENDS Integers, FiniteSets

CONSTANTS DayHours,     \* hours of a day, 24
          Horizon,      \* days ahead, 31
          MonthDays,    \* days of the months around today
          WeekDays,     \* days of a week, 7
          Zone,         \* hours the server's clock is ahead of UTC, 8
          Situations    \* what a provider's data may look like

\* today, now: day of the month and hour of the request; member: who asks;
\* closed: closed hours of each weekday; open: open hours of the calendar by
\* day; busy: orders received and enrolments, with their member and kind, from
\* start to end on the provider's clock, and how the row came by them: stored as
\* that clock shows them (the other system's rows), or as the instant.
SituationType ==
    [today : 1..MonthDays, now : 0..DayHours-1, member : Nat, minHours : Nat \ {0},
     after : Nat, closed : [0..WeekDays-1 -> SUBSET (0..DayHours-1)],
     open : [0..Horizon-1 -> SUBSET (0..DayHours-1)],
     busy : SUBSET [member : Nat, start : Int, end : Int, enrolment : BOOLEAN,
                    instant : BOOLEAN]]

ASSUME BookingAssumption ==
    /\ DayHours \in Nat \ {0} /\ Horizon \in Nat \ {0}
    /\ MonthDays \in Nat \ {0} /\ WeekDays \in Nat \ {0} /\ Zone \in Nat
    /\ \A s \in Situations : s \in SituationType

VARIABLES
    s,       \* the situation
    stage,   \* the filter that runs next
    dates,   \* [some days -> hours of the day that may be booked]
    offer    \* [some days -> [hours -> durations]]: the last filter's result

vars == <<s, stage, dates, offer>>

Hours == 0..DayHours-1
Hour(day, h) == day * DayHours + h

\* An entry of an object, and the object without its empty entries.
Times(day) == IF day \in DOMAIN dates THEN dates[day] ELSE {}
NonEmpty(f) == [d \in {e \in DOMAIN f : f[e] # {}} |-> f[d]]

Init == /\ s \in Situations
        /\ stage = "create"
        /\ dates = [d \in {} |-> {}]
        /\ offer = [d \in {} |-> [h \in {} |-> {}]]

-----------------------------------------------------------------------------
(* createCanBookingTimes                                                   *)

\* dates(): the day of the month some days from today.
DayOfMonth(day) == ((s.today + day - 1) % MonthDays) + 1

\* Whether some received order and some enrolment exist, whoever made them.
IsCurrentReceiver == /\ \E b \in s.busy : b.enrolment
                     /\ \E b \in s.busy : ~b.enrolment

\* "how many days the first date is from today": the difference of the days of
\* the month.
DaysAhead == (s.now + s.after) \div DayHours
CanBookingDate == IF IsCurrentReceiver THEN 0
                  ELSE DayOfMonth(DaysAhead) - DayOfMonth(0)

\* Variant: the present hour as well.
CreatedFromNow == [d \in CanBookingDate..Horizon-1 |->
                     IF d = CanBookingDate THEN {h \in Hours : h >= s.now} ELSE Hours]
\* The first date has the hours after the present one, the others all of them.
Created == [d \in CanBookingDate..Horizon-1 |->
               IF d = CanBookingDate THEN {h \in Hours : h > s.now} ELSE Hours]

Create == /\ stage = "create"
          /\ stage' = "business"
          /\ dates' = NonEmpty(Created)
          /\ UNCHANGED <<s, offer>>

-----------------------------------------------------------------------------
(* filterNonBusinessHours                                                  *)

\* Open hours the provider has entered in the calendar for a day.
Calendar(day) == IF day \in DOMAIN s.open THEN s.open[day] ELSE {}

\* Weekly closed hours go unless the calendar opens them; where the calendar
\* opens any hour of the day, the others go.
BusinessHours(day) ==
    {h \in dates[day] : /\ h \in s.closed[day % WeekDays] => h \in Calendar(day)
                        /\ Calendar(day) # {} => h \in Calendar(day)}

FilterNonBusinessHours ==
    /\ stage = "business"
    /\ stage' = "schedule"
    /\ dates' = [d \in DOMAIN dates |-> BusinessHours(d)]
    /\ UNCHANGED <<s, offer>>

-----------------------------------------------------------------------------
(* filterBookingSchedule                                                   *)

\* moment.utc(started_at): the hour on the clock of the column.  createOrder
\* stores a date of the server's clock, which becomes an instant.
StartRead(b) == IF b.instant THEN b.start - Zone ELSE b.start

\* Hours an order or an enrolment takes; another member's takes the provider's
\* interval after it as well.  Variants: it never does; its last hour is left out.
NoGap(b) == 0
Gap(b) == IF b.member = s.member THEN 0 ELSE s.after
HoursTakenShort(b) == StartRead(b) .. StartRead(b) + (b.end - b.start) - 2 + Gap(b)
HoursTaken(b) == StartRead(b) .. StartRead(b) + (b.end - b.start) - 1 + Gap(b)

FilterBookingSchedule ==
    /\ stage = "schedule"
    /\ stage' = "hours"
    /\ dates' = NonEmpty([d \in DOMAIN dates |->
                    {h \in dates[d] : \A b \in s.busy : Hour(d, h) \notin HoursTaken(b)}])
    /\ UNCHANGED <<s, offer>>

-----------------------------------------------------------------------------
(* filterByMinHours                                                        *)

\* Variant: the next day is not looked at.
TotalTimesToday(day) == {h \in Times(day) : h - 1 \in Times(day)}
\* Hours of the day that follow another one of it, and all of the next day.
TotalTimes(day) == {h \in Times(day) : h - 1 \in Times(day)}
                   \cup {h + DayHours : h \in Times(day + 1)}

\* The loop over totalTimes: each next hour found makes the booking longer by
\* one, up to a whole day.
Chain(day, hour) ==
    LET reach[n \in 0..2*DayHours] ==
            IF n = 0 THEN hour
            ELSE IF reach[n-1] + 1 \in TotalTimes(day) THEN reach[n-1] + 1 ELSE reach[n-1]
    IN  reach[2*DayHours] - hour

\* Variant: without the limit of a day.
DurationsUncut(day, hour) == {n \in 1..Chain(day, hour) : n >= s.minHours}
Durations(day, hour) == {n \in 1..Chain(day, hour) : n <= DayHours /\ n >= s.minHours}

\* moment.utc().add(31, "days"): while it is still yesterday in UTC, the last day
\* that is offered; later a day that is not.
LastDay == ((s.now - Zone) \div DayHours) + Horizon

\* The last day is left as createCanBookingTimes made it: every hour that is left
\* keeps every duration under a day.
KeepsHour(day, hour) == day = LastDay \/ Durations(day, hour) # {}
LeftDurations(day, hour) ==
    IF day = LastDay THEN s.minHours..DayHours-1 ELSE Durations(day, hour)

FilterByMinHours ==
    /\ stage = "hours"
    /\ stage' = "done"
    /\ offer' = [d \in {e \in DOMAIN dates : \E h \in dates[e] : KeepsHour(e, h)} |->
                   [h \in {g \in dates[d] : KeepsHour(d, g)} |-> LeftDurations(d, h)]]
    /\ UNCHANGED <<s, dates>>

-----------------------------------------------------------------------------
Next == Create \/ FilterNonBusinessHours \/ FilterBookingSchedule \/ FilterByMinHours
Spec == Init /\ [][Next]_vars

\* What createOrder answers a request for a time: a day that is not offered is
\* read from an object that does not have it.
Verdict(day, hour, duration) ==
    IF day \notin DOMAIN offer THEN "TypeError"
    ELSE IF hour \notin DOMAIN offer[day] THEN "5002"
    ELSE IF duration \notin offer[day][hour] THEN "5003"
    ELSE "accepted"

-----------------------------------------------------------------------------
(* Properties of the offers.                                               *)

Done == stage = "done"
Offered == {o \in (DOMAIN offer) \X Hours \X (1..2*DayHours) :
               Verdict(o[1], o[2], o[3]) = "accepted"}

\* Days have hours of a day, and no booking is longer than a day.
TypeOK ==
    /\ s \in Situations
    /\ stage \in {"create", "business", "schedule", "hours", "done"}
    /\ \A d \in DOMAIN dates : dates[d] \subseteq Hours
    /\ \A d \in DOMAIN offer : \A h \in DOMAIN offer[d] :
          h \in Hours /\ offer[d][h] \subseteq 1..DayHours

\* An hour in which the provider works and nobody has booked or enrolled him.
IsOpen(t) == LET day == t \div DayHours
                 h   == t % DayHours
             IN  IF Calendar(day) # {} THEN h \in Calendar(day)
                                       ELSE h \notin s.closed[day % WeekDays]

\* The rows the filters can read: those the other system stores.
Legible == {b \in s.busy : ~b.instant}
Taken(t) == \E b \in Legible : b.start <= t /\ t < b.end

\* What createOrder accepts never overlaps an order, an enrolment or a closed
\* hour, over midnight neither; on the day filterByMinHours leaves as it is only
\* the hour it starts with was looked at.
AcceptedIsFree ==
    Done => \A o \in Offered : \A t \in Hour(o[1], o[2]) .. Hour(o[1], o[2]) + o[3] - 1 :
                (o[1] = LastDay => t = Hour(o[1], o[2])) => IsOpen(t) /\ ~Taken(t)

\* "the provider's interval between orders": no offer, on the last day neither,
\* starts in the interval after another member's order.
IntervalAfterOthers ==
    Done => \A o \in Offered : \A b \in Legible :
                b.member # s.member =>
                    ~(b.start <= Hour(o[1], o[2]) /\ Hour(o[1], o[2]) < b.end + s.after)

\* The chains of filterByMinHours offer every length of the category, up to a
\* day, whose hours and the hour after it are left, and no other, on every day
\* that it filters.
OfferedExactly ==
    Done => \A d \in DOMAIN dates \ {LastDay} : \A h \in dates[d], n \in 1..DayHours :
        <<d, h, n>> \in Offered <=>
            /\ n >= s.minHours
            /\ \A t \in Hour(d, h) .. Hour(d, h) + n : t % DayHours \in Times(t \div DayHours)

\* Nothing is offered in the past as long as the interval does not run into the
\* next month; then the difference of the days is negative and past days are.
FutureUnlessMonthEnds ==
    Done /\ s.today + DaysAhead <= MonthDays =>
        \A o \in Offered : Hour(o[1], o[2]) > s.now
=============================================================================
