-------------------------- MODULE BookingTimesProofs --------------------------
(***************************************************************************)
(* Theorems about BookingTimes for days, weeks and months of any length    *)
(* and whatever a provider's orders, enrolments and calendar are: what     *)
(* each filter has taken out stays out of what is offered, and the chains  *)
(* of filterByMinHours are the runs of hours that are left.                *)
(***************************************************************************)
EXTENDS BookingTimes, InductionLemmas, TLAPS

\* Every hour that is left is a later one than the request's.
FutureHours == s.today + DaysAhead <= MonthDays =>
                   \A d \in DOMAIN dates : \A h \in dates[d] : Hour(d, h) > s.now

\* No hour that is left is taken.
FreeHours == \A d \in DOMAIN dates : \A h \in dates[d] : \A b \in s.busy :
                 Hour(d, h) \notin HoursTaken(b)

\* Every hour that is left is one the provider works in.
OpenHours == \A d \in DOMAIN dates : \A h \in dates[d] : IsOpen(Hour(d, h))

\* What is offered are durations for hours that are left.
OfferedAreLeft == \A d \in DOMAIN offer : /\ d \in DOMAIN dates
                                          /\ DOMAIN offer[d] \subseteq dates[d]
                                          /\ \A h \in DOMAIN offer[d] :
                                                offer[d][h] \subseteq LeftDurations(d, h)

\* Every duration for an hour that is left is offered.
LeftAreOffered == \A d \in DOMAIN dates : \A h \in dates[d] :
                      KeepsHour(d, h) => /\ d \in DOMAIN offer /\ h \in DOMAIN offer[d]
                                         /\ offer[d][h] = LeftDurations(d, h)

BookingInv ==
    /\ TypeOK
    /\ DOMAIN dates \subseteq Int
    /\ stage \in {"hours", "done"} => FreeHours
    /\ stage # "create" => FutureHours
    /\ stage \in {"schedule", "hours", "done"} => OpenHours
    /\ stage # "done" => DOMAIN offer = {}
    /\ OfferedAreLeft
    /\ stage = "done" => LeftAreOffered

-----------------------------------------------------------------------------
(* Arithmetic of days.                                                     *)

LEMMA SituationTyped == TypeOK => /\ s.today \in 1..MonthDays /\ s.now \in 0..DayHours-1
                                  /\ s.after \in Nat /\ s.minHours \in Nat \ {0}
                                  /\ s.busy \subseteq [member : Nat, start : Int, end : Int,
                                                       enrolment : BOOLEAN, instant : BOOLEAN]
  <1> SUFFICES ASSUME TypeOK
               PROVE  /\ s.today \in 1..MonthDays /\ s.now \in 0..DayHours-1
                      /\ s.after \in Nat /\ s.minHours \in Nat \ {0}
                      /\ s.busy \subseteq [member : Nat, start : Int, end : Int,
                                           enrolment : BOOLEAN, instant : BOOLEAN]
    OBVIOUS
  <1>1. s \in SituationType
    BY BookingAssumption DEF TypeOK
  <1> QED
    BY <1>1 DEF SituationType

LEMMA DaysLater ==
    ASSUME NEW d \in Int, d >= 1, NEW w \in Nat
    PROVE  d * w >= w
  OBVIOUS

LEMMA DaysTyped ==
    ASSUME NEW n \in Nat, NEW w \in Nat \ {0}
    PROVE  n \div w \in Nat
  OBVIOUS

LEMMA SmallRest ==
    ASSUME NEW w \in Nat \ {0}, NEW n \in 0..w-1
    PROVE  n % w = n
  OBVIOUS

\* The day and the hour of the day of a time.
LEMMA HourParts ==
    ASSUME NEW d \in Int, NEW w \in Nat \ {0}, NEW h \in 0..w-1
    PROVE  (d * w + h) \div w = d /\ (d * w + h) % w = h
  OBVIOUS

LEMMA FirstDay ==
    ASSUME TypeOK
    PROVE  /\ CanBookingDate \in Int
           /\ s.today + DaysAhead <= MonthDays => CanBookingDate >= 0
  <1> USE BookingAssumption
  <1>1. s.today \in 1..MonthDays /\ s.now \in Nat /\ s.after \in Nat
    BY SituationTyped
  <1>2. DaysAhead \in Nat
    <2>1. s.now + s.after \in Nat
      BY <1>1
    <2> QED
      BY <2>1, DaysTyped DEF DaysAhead
  <1>3. DayOfMonth(0) = s.today
    <2>1. s.today + 0 - 1 \in 0..MonthDays-1
      BY <1>1
    <2>2. (s.today + 0 - 1) % MonthDays = s.today + 0 - 1
      BY <2>1, SmallRest
    <2> QED
      BY <1>1, <2>2 DEF DayOfMonth
  <1>4. DayOfMonth(DaysAhead) \in Int
    <2>1. s.today + DaysAhead - 1 \in Int
      BY <1>1, <1>2
    <2>2. (s.today + DaysAhead - 1) % MonthDays \in Int
      BY <2>1
    <2> QED
      BY <2>2 DEF DayOfMonth
  <1>5. ASSUME s.today + DaysAhead <= MonthDays PROVE DayOfMonth(DaysAhead) = s.today + DaysAhead
    <2>1. s.today + DaysAhead - 1 \in 0..MonthDays-1
      BY <1>1, <1>2, <1>5
    <2>2. (s.today + DaysAhead - 1) % MonthDays = s.today + DaysAhead - 1
      BY <2>1, SmallRest
    <2>3. DayOfMonth(DaysAhead) = (s.today + DaysAhead - 1) + 1
      BY <2>2 DEF DayOfMonth
    <2> QED
      BY <1>1, <1>2, <2>3
  <1> QED
    BY <1>1, <1>2, <1>3, <1>4, <1>5 DEF CanBookingDate

\* Hours of a day after the first one, and later hours of the first, lie ahead.
LEMMA LaterHours ==
    ASSUME TypeOK, CanBookingDate >= 0,
           NEW d \in CanBookingDate..Horizon-1, NEW h \in Hours,
           d = CanBookingDate => h > s.now
    PROVE  Hour(d, h) > s.now
  <1> USE BookingAssumption
  <1>1. CanBookingDate \in Int /\ s.now \in 0..DayHours-1 /\ DayHours \in Nat
    BY FirstDay, SituationTyped
  <1>2. h \in 0..DayHours-1 /\ d \in Int /\ d >= 0
    BY <1>1 DEF Hours
  <1>3. CASE d >= 1
    <2>1. d * DayHours >= DayHours /\ d * DayHours \in Int
      BY <1>1, <1>2, <1>3, DaysLater
    <2> QED
      BY <1>1, <1>2, <2>1 DEF Hour
  <1>4. CASE d = 0
    <2>1. h > s.now
      BY <1>1, <1>4
    <2> QED
      BY <1>2, <1>4, <2>1 DEF Hour
  <1> QED
    BY <1>2, <1>3, <1>4

-----------------------------------------------------------------------------
(* The filters.                                                            *)

LEMMA InitHolds == Init => BookingInv
  BY DEF Init, BookingInv, TypeOK, OfferedAreLeft

LEMMA CreateKeeps == BookingInv /\ Create => BookingInv'
  <1> SUFFICES ASSUME BookingInv, Create PROVE BookingInv'
    OBVIOUS
  <1> USE DEF BookingInv
  <1>1. s' = s /\ offer' = offer /\ stage' = "business" /\ dates' = NonEmpty(Created)
    BY DEF Create
  <1>2. /\ DOMAIN dates' \subseteq CanBookingDate..Horizon-1
        /\ \A d \in DOMAIN dates' : dates'[d] = Created[d]
    BY <1>1 DEF NonEmpty, Created
  <1>3. \A d \in DOMAIN dates' : \A h \in dates'[d] :
            h \in Hours /\ (d = CanBookingDate => h > s.now)
    BY <1>2 DEF Created
  <1>4. CanBookingDate \in Int
    BY FirstDay
  <1>5. DOMAIN dates' \subseteq Int
    BY <1>2, <1>4
  <1>6. TypeOK'
    BY <1>1, <1>2, <1>3 DEF TypeOK
  <1>7. FutureHours'
    <2> SUFFICES ASSUME s.today + DaysAhead <= MonthDays, NEW d \in DOMAIN dates',
                        NEW h \in dates'[d]
                 PROVE  Hour(d, h) > s.now
      BY <1>1 DEF FutureHours, DaysAhead, Hour
    <2> QED
      BY <1>2, <1>3, FirstDay, LaterHours
  <1>8. DOMAIN offer' = {}
    BY <1>1 DEF Create
  <1> QED
    BY <1>1, <1>5, <1>6, <1>7, <1>8 DEF OfferedAreLeft

\* A filter that only takes hours away.
Narrowed == /\ DOMAIN dates' \subseteq DOMAIN dates
            /\ \A d \in DOMAIN dates' : dates'[d] \subseteq dates[d]

LEMMA NarrowedKeeps ==
    ASSUME BookingInv, stage # "create", UNCHANGED s, Narrowed
    PROVE  /\ FutureHours' /\ DOMAIN dates' \subseteq Int
           /\ \A d \in DOMAIN dates' : dates'[d] \subseteq Hours
           /\ stage # "business" => OpenHours'
  <1>1. FutureHours'
    <2> SUFFICES ASSUME s.today + DaysAhead <= MonthDays, NEW d \in DOMAIN dates',
                        NEW h \in dates'[d]
                 PROVE  Hour(d, h) > s.now
      BY DEF FutureHours, DaysAhead, Hour
    <2> QED
      BY DEF BookingInv, FutureHours, Narrowed
  <1>2. OpenHours => OpenHours'
    BY DEF OpenHours, IsOpen, Calendar, Hour, Narrowed
  <1> QED
    BY <1>1, <1>2 DEF BookingInv, Narrowed, TypeOK

LEMMA BusinessKeeps == BookingInv /\ FilterNonBusinessHours => BookingInv'
  <1> SUFFICES ASSUME BookingInv, FilterNonBusinessHours PROVE BookingInv'
    OBVIOUS
  <1> USE DEF BookingInv
  <1>1. /\ s' = s /\ offer' = offer /\ stage = "business" /\ stage' = "schedule"
        /\ dates' = [d \in DOMAIN dates |-> BusinessHours(d)]
    BY DEF FilterNonBusinessHours
  <1>2. Narrowed
    BY <1>1 DEF Narrowed, BusinessHours
  <1>3. TypeOK' /\ FutureHours' /\ DOMAIN dates' \subseteq Int
    <2>1. TypeOK /\ stage # "create"
      BY <1>1
    <2> HIDE DEF BookingInv
    <2>2. /\ FutureHours' /\ DOMAIN dates' \subseteq Int
          /\ \A d \in DOMAIN dates' : dates'[d] \subseteq Hours
      BY <1>1, <1>2, <2>1, NarrowedKeeps
    <2> QED
      BY <1>1, <2>1, <2>2 DEF TypeOK
  <1>4. OpenHours'
    <2> SUFFICES ASSUME NEW d \in DOMAIN dates', NEW h \in dates'[d] PROVE IsOpen(Hour(d, h))
      BY <1>1 DEF OpenHours, IsOpen, Calendar, Hour
    <2>1. d \in Int /\ h \in 0..DayHours-1 /\ h \in BusinessHours(d)
      BY <1>1 DEF TypeOK, Hours, BusinessHours
    <2>2. Hour(d, h) \div DayHours = d /\ Hour(d, h) % DayHours = h
      BY <2>1, BookingAssumption, HourParts DEF Hour
    <2>3. IF Calendar(d) # {} THEN h \in Calendar(d) ELSE h \notin s.closed[d % WeekDays]
      BY <2>1 DEF BusinessHours
    <2> QED
      BY <2>2, <2>3 DEF IsOpen
  <1> QED
    BY <1>1, <1>3, <1>4 DEF OfferedAreLeft

LEMMA ScheduleKeeps == BookingInv /\ FilterBookingSchedule => BookingInv'
  <1> SUFFICES ASSUME BookingInv, FilterBookingSchedule PROVE BookingInv'
    OBVIOUS
  <1> USE DEF BookingInv
  <1> DEFINE left == [d \in DOMAIN dates |->
                        {h \in dates[d] : \A b \in s.busy : Hour(d, h) \notin HoursTaken(b)}]
  <1>1. /\ s' = s /\ offer' = offer /\ stage = "schedule" /\ stage' = "hours"
        /\ dates' = NonEmpty(left)
    BY DEF FilterBookingSchedule
  <1>2. /\ DOMAIN dates' \subseteq DOMAIN dates
        /\ \A d \in DOMAIN dates' : dates'[d] = left[d]
    BY <1>1 DEF NonEmpty
  <1>3. Narrowed
    BY <1>2 DEF Narrowed
  <1>4. TypeOK' /\ FutureHours' /\ OpenHours' /\ DOMAIN dates' \subseteq Int
    <2>1. TypeOK /\ stage # "create" /\ stage # "business"
      BY <1>1
    <2> HIDE DEF BookingInv
    <2>2. /\ FutureHours' /\ OpenHours' /\ DOMAIN dates' \subseteq Int
          /\ \A d \in DOMAIN dates' : dates'[d] \subseteq Hours
      BY <1>1, <1>3, <2>1, NarrowedKeeps
    <2> QED
      BY <1>1, <2>1, <2>2 DEF TypeOK
  <1>5. \A b : HoursTaken(b)' = HoursTaken(b)
    BY <1>1 DEF HoursTaken, StartRead, Gap
  <1>6. FreeHours'
    <2> SUFFICES ASSUME NEW d \in DOMAIN dates', NEW h \in dates'[d], NEW b \in s.busy
                 PROVE  Hour(d, h) \notin HoursTaken(b)
      BY <1>1, <1>5 DEF FreeHours, Hour
    <2>1. d \in DOMAIN dates /\ h \in left[d]
      BY <1>2
    <2> QED
      BY <2>1
  <1> QED
    BY <1>1, <1>4, <1>6 DEF OfferedAreLeft

\* What the last filter works with does not change while it does.
LEMMA DurationsSame ==
    ASSUME s' = s, dates' = dates
    PROVE  \A d, h : /\ Durations(d, h)' = Durations(d, h)
                     /\ LeftDurations(d, h)' = LeftDurations(d, h)
                     /\ KeepsHour(d, h)' <=> KeepsHour(d, h)
  <1>1. LastDay' = LastDay
    BY DEF LastDay
  <1>2. \A d, h : Durations(d, h)' = Durations(d, h)
    BY DEF Durations, Chain, TotalTimes, Times
  <1> QED
    BY <1>1, <1>2 DEF LeftDurations, KeepsHour

LEMMA MinHoursKeep == BookingInv /\ FilterByMinHours => BookingInv'
  <1> SUFFICES ASSUME BookingInv, FilterByMinHours PROVE BookingInv'
    OBVIOUS
  <1> USE DEF BookingInv
  <1>1. /\ s' = s /\ dates' = dates /\ stage = "hours" /\ stage' = "done"
        /\ offer' = [d \in {e \in DOMAIN dates : \E h \in dates[e] : KeepsHour(e, h)} |->
                       [h \in {g \in dates[d] : KeepsHour(d, g)} |-> LeftDurations(d, h)]]
    BY DEF FilterByMinHours
  <1>2. ASSUME NEW d \in DOMAIN offer'
        PROVE  /\ d \in DOMAIN dates
               /\ DOMAIN offer'[d] \subseteq dates[d]
               /\ \A h \in DOMAIN offer'[d] : offer'[d][h] = LeftDurations(d, h)
               /\ \A h \in dates[d] : KeepsHour(d, h) => h \in DOMAIN offer'[d]
    <2>1. /\ d \in DOMAIN dates
          /\ offer'[d] = [h \in {g \in dates[d] : KeepsHour(d, g)} |-> LeftDurations(d, h)]
      BY <1>1, <1>2
    <2> QED
      BY <2>1
  <1>3. \A d, h : /\ LeftDurations(d, h)' = LeftDurations(d, h)
                  /\ KeepsHour(d, h)' <=> KeepsHour(d, h)
    BY <1>1, DurationsSame
  <1>4. OfferedAreLeft'
    <2> SUFFICES ASSUME NEW d \in DOMAIN offer'
                 PROVE  /\ d \in DOMAIN dates'
                        /\ DOMAIN offer'[d] \subseteq dates'[d]
                        /\ \A h \in DOMAIN offer'[d] : offer'[d][h] \subseteq LeftDurations(d, h)'
      BY DEF OfferedAreLeft
    <2>1. dates' = dates
      BY <1>1
    <2> HIDE DEF BookingInv
    <2> QED
      BY <1>2, <1>3, <2>1
  <1>5. \A d, h : LeftDurations(d, h) \subseteq 1..DayHours
    BY SituationTyped, BookingAssumption DEF Durations, LeftDurations
  <1>6. TypeOK'
    <2>1. ASSUME NEW d \in DOMAIN offer', NEW h \in DOMAIN offer'[d]
          PROVE  h \in Hours /\ offer'[d][h] \subseteq 1..DayHours
      <3>1. d \in DOMAIN dates /\ h \in dates[d] /\ offer'[d][h] = LeftDurations(d, h)
        BY <1>2, <2>1
      <3> QED
        BY <1>5, <3>1 DEF TypeOK
    <2> QED
      BY <1>1, <2>1 DEF TypeOK
  <1>7. FutureHours' /\ FreeHours' /\ OpenHours'
    BY <1>1 DEF FutureHours, FreeHours, OpenHours, DaysAhead, Hour, HoursTaken, StartRead, Gap,
                IsOpen, Calendar
  <1>8. LeftAreOffered'
    <2> SUFFICES ASSUME NEW d \in DOMAIN dates', NEW h \in dates'[d], KeepsHour(d, h)'
                 PROVE  /\ d \in DOMAIN offer' /\ h \in DOMAIN offer'[d]
                        /\ offer'[d][h] = LeftDurations(d, h)'
      BY DEF LeftAreOffered
    <2>1. d \in DOMAIN dates /\ h \in dates[d] /\ KeepsHour(d, h)
      BY <1>1, <1>3
    <2>2. d \in DOMAIN offer'
      BY <1>1, <2>1
    <2> QED
      BY <1>2, <1>3, <2>1, <2>2
  <1> QED
    BY <1>1, <1>4, <1>6, <1>7, <1>8

LEMMA NextKeeps == BookingInv /\ [Next]_vars => BookingInv'
  <1> SUFFICES ASSUME BookingInv, [Next]_vars PROVE BookingInv'
    OBVIOUS
  <1>1. CASE Next
    BY <1>1, CreateKeeps, BusinessKeeps, ScheduleKeeps, MinHoursKeep DEF Next
  <1>2. CASE UNCHANGED vars
    <2>1. s' = s /\ stage' = stage /\ dates' = dates /\ offer' = offer
      BY <1>2 DEF vars
    <2>2. TypeOK'
      BY <2>1 DEF BookingInv, TypeOK
    <2>3. FutureHours' <=> FutureHours
      BY <2>1 DEF FutureHours, DaysAhead, Hour
    <2>4. FreeHours' <=> FreeHours
      BY <2>1 DEF FreeHours, HoursTaken, StartRead, Gap, Hour
    <2>5. \A d, h : /\ LeftDurations(d, h)' = LeftDurations(d, h)
                    /\ KeepsHour(d, h)' <=> KeepsHour(d, h)
      BY <2>1, DurationsSame
    <2>6. OfferedAreLeft'
      BY <2>1, <2>5 DEF BookingInv, OfferedAreLeft
    <2>7. OpenHours <=> OpenHours'
      BY <2>1 DEF OpenHours, IsOpen, Calendar, Hour
    <2>8. LeftAreOffered => LeftAreOffered'
      BY <2>1, <2>5 DEF LeftAreOffered
    <2> QED
      BY <2>1, <2>2, <2>3, <2>4, <2>6, <2>7, <2>8 DEF BookingInv
  <1> QED
    BY <1>1, <1>2
-----------------------------------------------------------------------------
(* The chains of filterByMinHours.                                         *)

\* One more hour, when the next one is there.
NextReach(times, hour) == IF hour + 1 \in times THEN hour + 1 ELSE hour

\* A chain is the longest run of hours that follow the first one, up to two days.
LEMMA ChainIsRun ==
    ASSUME NEW d, NEW hour \in Int
    PROVE  /\ Chain(d, hour) \in 0..2*DayHours
           /\ \A t \in hour + 1 .. hour + Chain(d, hour) : t \in TotalTimes(d)
           /\ \/ Chain(d, hour) = 2*DayHours
              \/ hour + Chain(d, hour) + 1 \notin TotalTimes(d)
  <1> DEFINE n == 2 * DayHours
             times == TotalTimes(d)
             step == [p \in (1..n) \X Int |-> NextReach(times, p[2])]
             Reaches(g) == g = [i \in 0..n |->
                                  IF i = 0 THEN hour
                                  ELSE IF g[i - 1] + 1 \in times THEN g[i - 1] + 1
                                  ELSE g[i - 1]]
             r == CHOOSE g : Reaches(g)
  <1>1. n \in Nat
    BY BookingAssumption
  <1>2. \E g : Reaches(g)
    <2>1. step \in [(1..n) \X Int -> Int]
      BY DEF NextReach
    <2> HIDE DEF step, n, r, Reaches, times
    <2>2. PICK g \in [0..n -> Int] : Steps(g, n, hour, step)
      BY <1>1, <2>1, RecursionExists
    <2>3. ASSUME NEW i \in 1..n PROVE g[i] = NextReach(times, g[i - 1])
      <3>1. i - 1 \in 0..n
        BY <1>1
      <3>2. g[i - 1] \in Int
        BY <2>2, <3>1
      <3>3. step[<<i, g[i - 1]>>] = NextReach(times, g[i - 1])
        BY <3>2 DEF step
      <3> QED
        BY <2>2, <3>3 DEF Steps
    <2>4. Reaches(g)
      <3> USE DEF Reaches
      <3>1. \A i \in 0..n : i = 0 \/ i \in 1..n
        BY <1>1
      <3>2. \A i \in 0..n : g[i] = IF i = 0 THEN hour
                                   ELSE IF g[i - 1] + 1 \in times THEN g[i - 1] + 1
                                   ELSE g[i - 1]
        BY <2>2, <2>3, <3>1 DEF Steps, NextReach
      <3> QED
        BY <2>2, <3>2
    <2> QED
      BY <2>4
  <1>3. Reaches(r)
    <2> HIDE DEF Reaches
    <2> QED
      BY <1>2
  <1>4. Chain(d, hour) = r[n] - hour
    BY DEF Chain
  <1> HIDE DEF r, n, times
  <1>5. r[0] = hour /\ \A i \in 1..n : r[i] = NextReach(times, r[i - 1])
    <2>1. \A i \in 0..n : r[i] = IF i = 0 THEN hour
                                 ELSE IF r[i - 1] + 1 \in times THEN r[i - 1] + 1
                                 ELSE r[i - 1]
      BY <1>3
    <2>2. 0 \in 0..n /\ \A i \in 1..n : i \in 0..n /\ i # 0
      BY <1>1
    <2> HIDE DEF Reaches
    <2> QED
      BY <2>1, <2>2 DEF NextReach
  <1> HIDE DEF Reaches
  <1> DEFINE T == {i \in 0..n : /\ r[i] \in hour .. hour + i
                                /\ \A t \in hour + 1 .. r[i] : t \in times
                                /\ r[i] = hour + i \/ r[i] + 1 \notin times}
  <1>6. 0 \in T
    BY <1>1, <1>5
  <1>7. ASSUME NEW i \in 1..n, i - 1 \in T PROVE i \in T
    <2> DEFINE k == r[i - 1]
    <2>1. /\ k \in hour .. hour + (i - 1) /\ \A t \in hour + 1 .. k : t \in times
          /\ k = hour + (i - 1) \/ k + 1 \notin times
      BY <1>7
    <2>2. r[i] = IF k + 1 \in times THEN k + 1 ELSE k
      BY <1>5 DEF NextReach
    <2>3. i \in 0..n /\ i \in Int
      BY <1>1
    <2> HIDE DEF k
    <2>4. CASE k + 1 \in times
      <3>1. r[i] = k + 1 /\ k = hour + (i - 1)
        BY <2>1, <2>2, <2>4
      <3>2. r[i] \in hour .. hour + i /\ r[i] = hour + i
        BY <2>1, <2>3, <3>1
      <3>3. \A t \in hour + 1 .. r[i] : t \in hour + 1 .. k \/ t = k + 1
        BY <2>1, <3>1
      <3> QED
        BY <2>1, <2>3, <2>4, <3>2, <3>3
    <2>5. CASE k + 1 \notin times
      <3>1. r[i] = k
        BY <2>2, <2>5
      <3>2. r[i] \in hour .. hour + i
        BY <2>1, <2>3, <3>1
      <3> QED
        BY <2>1, <2>3, <2>5, <3>1, <3>2
    <2> QED
      BY <2>4, <2>5
  <1>8. 0..n \subseteq T
    <2> HIDE DEF T
    <2> QED
      BY <1>1, <1>6, <1>7, UpTo
  <1>9. n \in T
    <2> HIDE DEF T
    <2> QED
      BY <1>1, <1>8
  <1>10. /\ r[n] \in hour .. hour + n /\ \A t \in hour + 1 .. r[n] : t \in times
         /\ r[n] = hour + n \/ r[n] + 1 \notin times
    BY <1>9
  <1> DEFINE c == r[n] - hour
  <1>11. c \in 0..n /\ hour + c = r[n] /\ (r[n] = hour + n => c = n)
    BY <1>1, <1>10
  <1>12. Chain(d, hour) = c
    BY <1>4
  <1> HIDE DEF c, T
  <1>13. /\ c \in 0..n /\ \A t \in hour + 1 .. hour + c : t \in times
         /\ c = n \/ hour + c + 1 \notin times
    BY <1>10, <1>11
  <1> QED
    BY <1>12, <1>13 DEF n, times

\* An hour, counted from the start of a day, that is left.
Left(day, x) == (Hour(day, x) % DayHours) \in Times(Hour(day, x) \div DayHours)

LEMMA LeftOfDays ==
    ASSUME BookingInv, NEW d \in Int, NEW x \in 0..2*DayHours-1
    PROVE  /\ x < DayHours => (Left(d, x) <=> x \in Times(d))
           /\ x >= DayHours => (Left(d, x) <=> x - DayHours \in Times(d + 1))
  <1> USE BookingAssumption
  <1>1. CASE x < DayHours
    <2>1. x \in 0..DayHours-1
      BY <1>1
    <2>2. (d * DayHours + x) \div DayHours = d /\ (d * DayHours + x) % DayHours = x
      BY <2>1, HourParts
    <2> QED
      BY <1>1, <2>2 DEF Left, Hour
  <1>2. CASE x >= DayHours
    <2>1. x - DayHours \in 0..DayHours-1 /\ d + 1 \in Int
      BY <1>2
    <2>2. d * DayHours + x = (d + 1) * DayHours + (x - DayHours)
      OBVIOUS
    <2>3. /\ (d * DayHours + x) \div DayHours = d + 1
          /\ (d * DayHours + x) % DayHours = x - DayHours
      BY <2>1, <2>2, HourParts
    <2> QED
      BY <1>2, <2>3 DEF Left, Hour
  <1> QED
    BY <1>1, <1>2

\* The hours that lengthen a chain are those that are left.
LEMMA RunIsLeft ==
    ASSUME BookingInv, NEW d \in Int, NEW h \in Times(d), NEW n \in 1..DayHours
    PROVE  (\A t \in h + 1 .. h + n : t \in TotalTimes(d)) <=> (\A x \in h .. h + n : Left(d, x))
  <1> USE BookingAssumption
  <1>1. \A e : Times(e) \subseteq 0..DayHours-1
    BY DEF BookingInv, TypeOK, Times, Hours
  <1>2. h \in 0..DayHours-1
    BY <1>1
  <1>3. ASSUME NEW t \in h + 1 .. h + n
        PROVE  /\ t \in 0..2*DayHours-1 /\ t - 1 \in h .. h + n /\ t \in h .. h + n
               /\ t \in TotalTimes(d) <=> \/ t < DayHours /\ t \in Times(d) /\ t - 1 \in Times(d)
                                          \/ t >= DayHours /\ t - DayHours \in Times(d + 1)
    <2>1. t \in 0..2*DayHours-1 /\ t - 1 \in h .. h + n /\ t \in h .. h + n
      BY <1>2
    <2>2. t \in Times(d) => t < DayHours
      BY <1>1
    <2>3. ASSUME NEW g \in Times(d + 1), t = g + DayHours
          PROVE  t >= DayHours /\ t - DayHours \in Times(d + 1)
      <3>1. g \in 0..DayHours-1
        BY <1>1
      <3> QED
        BY <2>3, <3>1
    <2>4. t >= DayHours /\ t - DayHours \in Times(d + 1) =>
              \E g \in Times(d + 1) : t = g + DayHours
      BY <2>1
    <2> QED
      BY <2>1, <2>2, <2>3, <2>4 DEF TotalTimes
  <1>4. ASSUME \A t \in h + 1 .. h + n : t \in TotalTimes(d), NEW x \in h .. h + n
        PROVE  Left(d, x)
    <2>1. CASE x = h
      BY <1>2, <2>1, LeftOfDays
    <2>2. CASE x # h
      <3>1. x \in h + 1 .. h + n
        BY <1>2, <2>2
      <3> QED
        BY <1>3, <1>4, <3>1, LeftOfDays
    <2> QED
      BY <2>1, <2>2
  <1>5. ASSUME \A x \in h .. h + n : Left(d, x), NEW t \in h + 1 .. h + n
        PROVE  t \in TotalTimes(d)
    <2>1. Left(d, t) /\ Left(d, t - 1) /\ t \in 0..2*DayHours-1 /\ t - 1 \in 0..2*DayHours-1
      BY <1>2, <1>3, <1>5
    <2>2. CASE t < DayHours
      BY <1>3, <2>1, <2>2, LeftOfDays
    <2>3. CASE t >= DayHours
      BY <1>3, <2>1, <2>3, LeftOfDays
    <2> QED
      BY <2>1, <2>2, <2>3
  <1> QED
    BY <1>4, <1>5

\* A duration is one whose hours, and the hour after it, are left.
LEMMA DurationsAreRuns ==
    ASSUME BookingInv, NEW d \in DOMAIN dates, NEW h \in dates[d], NEW n \in 1..DayHours
    PROVE  n \in Durations(d, h) <=> /\ n >= s.minHours
                                     /\ \A x \in h .. h + n : Left(d, x)
  <1> USE BookingAssumption
  <1>1. d \in Int /\ h \in Times(d) /\ h \in 0..DayHours-1
    BY DEF BookingInv, TypeOK, Times, Hours
  <1> DEFINE c == Chain(d, h)
  <1>2. /\ c \in 0..2*DayHours /\ \A t \in h + 1 .. h + c : t \in TotalTimes(d)
        /\ c = 2*DayHours \/ h + c + 1 \notin TotalTimes(d)
    BY <1>1, ChainIsRun
  <1>3. n \in Durations(d, h) <=> n <= c /\ n >= s.minHours
    BY <1>2 DEF Durations
  <1> HIDE DEF c
  <1>4. ASSUME n <= c PROVE \A t \in h + 1 .. h + n : t \in TotalTimes(d)
    <2>1. \A t \in h + 1 .. h + n : t \in h + 1 .. h + c
      BY <1>1, <1>2, <1>4
    <2> QED
      BY <1>2, <2>1
  <1>5. ASSUME ~(n <= c) PROVE h + c + 1 \in h + 1 .. h + n /\ h + c + 1 \notin TotalTimes(d)
    BY <1>1, <1>2, <1>5
  <1>6. n <= c <=> \A t \in h + 1 .. h + n : t \in TotalTimes(d)
    BY <1>4, <1>5
  <1> QED
    BY <1>1, <1>3, <1>6, RunIsLeft
-----------------------------------------------------------------------------
(* Theorems.                                                               *)

THEOREM BookingInvariant == Spec => []BookingInv
  <1> QED
    BY InitHolds, NextKeeps, PTL DEF Spec

\* Offers have hours of a day and are at most a day long, for whatever data.
THEOREM BookingTypes == Spec => []TypeOK
  <1>1. BookingInv => TypeOK
    BY DEF BookingInv
  <1> QED
    BY <1>1, BookingInvariant, PTL

\* What createOrder accepts starts at an hour filterByMinHours was given.
LEMMA AcceptedIsLeft ==
    ASSUME BookingInv, NEW o \in Offered
    PROVE  /\ o[1] \in DOMAIN dates /\ o[2] \in dates[o[1]]
           /\ o[1] \in Int /\ o[2] \in Hours
  <1>1. Verdict(o[1], o[2], o[3]) = "accepted"
    BY DEF Offered
  <1>2. o[1] \in DOMAIN offer /\ o[2] \in DOMAIN offer[o[1]]
    BY <1>1 DEF Verdict
  <1>3. o[1] \in DOMAIN dates /\ o[2] \in dates[o[1]]
    BY <1>2 DEF BookingInv, OfferedAreLeft
  <1> QED
    BY <1>3 DEF BookingInv, TypeOK

\* A member never gets an hour of somebody else's order or of the interval after
\* it, whatever else the provider has and however long days and weeks are.
THEOREM IntervalIsKept == Spec => []IntervalAfterOthers
  <1>1. BookingInv => IntervalAfterOthers
    <2> SUFFICES ASSUME BookingInv, Done, NEW o \in Offered, NEW b \in Legible,
                        b.member # s.member,
                        b.start <= Hour(o[1], o[2]), Hour(o[1], o[2]) < b.end + s.after
                 PROVE  FALSE
      BY DEF IntervalAfterOthers
    <2>1. Hour(o[1], o[2]) \notin HoursTaken(b)
      BY AcceptedIsLeft DEF BookingInv, Done, FreeHours, Legible
    <2>2. b.start \in Int /\ b.end \in Int /\ s.after \in Nat
      BY SituationTyped DEF BookingInv, Legible
    <2>3. Hour(o[1], o[2]) \in Int
      BY AcceptedIsLeft, BookingAssumption DEF Hour, Hours
    <2>4. HoursTaken(b) = b.start .. b.start + (b.end - b.start) - 1 + s.after
      BY DEF HoursTaken, StartRead, Gap, Legible
    <2> DEFINE t == Hour(o[1], o[2])
    <2>5. t \in Int /\ b.start <= t /\ t < b.end + s.after /\ t \notin b.start .. b.start + (b.end - b.start) - 1 + s.after
      BY <2>1, <2>3, <2>4
    <2> HIDE DEF t
    <2> QED
      BY <2>2, <2>5
  <1> QED
    BY <1>1, BookingInvariant, PTL

\* As long as the interval does not run into the next month, every offer lies
\* ahead, for months of any length.
THEOREM OffersLieAhead == Spec => []FutureUnlessMonthEnds
  <1>1. BookingInv => FutureUnlessMonthEnds
    BY AcceptedIsLeft DEF FutureUnlessMonthEnds, BookingInv, FutureHours, Done
  <1> QED
    BY <1>1, BookingInvariant, PTL

\* What createOrder accepts are durations of an hour that is left, and all those.
LEMMA OfferedAreDurations ==
    ASSUME BookingInv, Done, NEW d \in DOMAIN dates, d # LastDay, NEW h \in dates[d], NEW n \in 1..DayHours
    PROVE  <<d, h, n>> \in Offered <=> n \in Durations(d, h)
  <1>1. h \in Hours /\ n \in 1..2*DayHours
    BY BookingAssumption DEF BookingInv, TypeOK
  <1>2. ASSUME n \in Durations(d, h) PROVE <<d, h, n>> \in Offered
    <2>1. d \in DOMAIN offer /\ h \in DOMAIN offer[d] /\ offer[d][h] = Durations(d, h)
      BY <1>2 DEF BookingInv, Done, LeftAreOffered, KeepsHour, LeftDurations
    <2> QED
      BY <1>1, <1>2, <2>1 DEF Offered, Verdict
  <1>3. ASSUME <<d, h, n>> \in Offered PROVE n \in Durations(d, h)
    <2>1. Verdict(d, h, n) = "accepted"
      BY <1>3 DEF Offered
    <2>2. d \in DOMAIN offer /\ h \in DOMAIN offer[d] /\ n \in offer[d][h]
      BY <2>1 DEF Verdict
    <2> QED
      BY <2>2 DEF BookingInv, OfferedAreLeft, LeftDurations
  <1> QED
    BY <1>2, <1>3

\* For days of any length and whatever hours are left: on every day that is filtered
\* the chains over midnight offer every duration whose hours and the hour after it
\* are left, no other.
THEOREM ChainsAreExact == Spec => []OfferedExactly
  <1>1. BookingInv => OfferedExactly
    <2> SUFFICES ASSUME BookingInv, Done, NEW d \in DOMAIN dates \ {LastDay}, NEW h \in dates[d],
                        NEW n \in 1..DayHours
                 PROVE  <<d, h, n>> \in Offered <=>
                            /\ n >= s.minHours
                            /\ \A t \in Hour(d, h) .. Hour(d, h) + n :
                                  t % DayHours \in Times(t \div DayHours)
      BY DEF OfferedExactly
    <2> DEFINE Is(t) == t % DayHours \in Times(t \div DayHours)
               w == d * DayHours
    <2>1. d \in Int /\ h \in Int /\ n \in Int /\ w \in Int
      BY BookingAssumption DEF BookingInv, TypeOK, Hours
    <2>2. Hour(d, h) = w + h /\ \A x \in h .. h + n : Left(d, x) <=> Is(w + x)
      BY DEF Left, Hour
    <2> HIDE DEF Is, w
    <2>3. (\A t \in w + h .. (w + h) + n : Is(t)) <=> (\A x \in h .. h + n : Is(w + x))
      <3>1. \A x \in h .. h + n : w + x \in w + h .. (w + h) + n
        BY <2>1
      <3>2. \A t \in w + h .. (w + h) + n : t - w \in h .. h + n /\ w + (t - w) = t
        BY <2>1
      <3> QED
        BY <3>1, <3>2
    <2>4. (\A t \in Hour(d, h) .. Hour(d, h) + n : Is(t)) <=> (\A x \in h .. h + n : Left(d, x))
      BY <2>2, <2>3
    <2> QED
      BY <2>4, OfferedAreDurations, DurationsAreRuns DEF Is
  <1> QED
    BY <1>1, BookingInvariant, PTL

\* What createOrder accepts is free in every hour, those after midnight as well; on
\* the day the last filter leaves as it is, in the first one.
THEOREM AcceptedHoursAreFree == Spec => []AcceptedIsFree
  <1>1. BookingInv => AcceptedIsFree
    <2> SUFFICES ASSUME BookingInv, Done, NEW o \in Offered,
                        NEW t \in Hour(o[1], o[2]) .. Hour(o[1], o[2]) + o[3] - 1,
                        o[1] = LastDay => t = Hour(o[1], o[2])
                 PROVE  IsOpen(t) /\ ~Taken(t)
      BY DEF AcceptedIsFree
    <2> DEFINE d == o[1]
               h == o[2]
               n == o[3]
               w == d * DayHours
               x == t - w
    <2>1. /\ d \in DOMAIN dates /\ h \in dates[d] /\ d \in Int /\ h \in 0..DayHours-1
          /\ n \in 1..2*DayHours
      BY AcceptedIsLeft DEF Hours, Offered
    <2>2. n \in 1..DayHours /\ n \in LeftDurations(d, h)
      <3>1. Verdict(d, h, n) = "accepted"
        BY DEF Offered
      <3>2. d \in DOMAIN offer /\ h \in DOMAIN offer[d] /\ n \in offer[d][h]
        BY <3>1 DEF Verdict
      <3> QED
        BY <3>2 DEF BookingInv, OfferedAreLeft, TypeOK
    <2>3. /\ t \in Int /\ DayHours \in Nat \ {0} /\ t \in w + h .. (w + h) + n - 1
          /\ w + x = t /\ w \in Int /\ (d = LastDay => t = w + h)
      BY <2>1, <2>2, BookingAssumption DEF Hour
    <2> HIDE DEF n, h, d
    <2>4. x \in h .. h + n /\ (d = LastDay => x = h)
      <3> HIDE DEF w
      <3> QED
        BY <2>1, <2>2, <2>3
    <2>5. Left(d, x)
      <3>1. CASE d = LastDay
        <4>1. h \in Times(d) /\ h \in 0..2*DayHours-1 /\ h < DayHours
          BY <2>1, <2>3 DEF Times
        <4>2. Left(d, h)
          BY <2>1, <4>1, LeftOfDays
        <4> HIDE DEF x
        <4> QED
          BY <2>4, <3>1, <4>2
      <3>2. CASE d # LastDay
        <4>1. n \in Durations(d, h)
          BY <2>2, <3>2 DEF LeftDurations
        <4> HIDE DEF x
        <4> QED
          BY <2>1, <2>2, <2>4, <4>1, DurationsAreRuns
      <3> QED
        BY <3>1, <3>2
    <2> DEFINE day == t \div DayHours
               hour == t % DayHours
    <2>6. Hour(d, x) = t
      BY <2>3 DEF Hour
    <2>7. hour \in Times(day)
      BY <2>5, <2>6 DEF Left
    <2>8. day \in DOMAIN dates /\ hour \in dates[day]
      BY <2>7 DEF Times
    <2>9. Hour(day, hour) = t
      BY <2>3 DEF Hour
    <2>10. IsOpen(t)
      BY <2>8, <2>9 DEF BookingInv, Done, OpenHours
    <2>11. ASSUME NEW b \in Legible, b.start <= t, t < b.end PROVE FALSE
      <3>1. t \notin HoursTaken(b)
        BY <2>8, <2>9 DEF BookingInv, Done, FreeHours, Legible
      <3>2. /\ b.start \in Int /\ b.end \in Int /\ Gap(b) \in Nat
        BY SituationTyped DEF BookingInv, Gap, Legible
      <3> QED
        BY <2>3, <2>11, <3>1, <3>2 DEF HoursTaken, StartRead, Legible
    <2> QED
      BY <2>10, <2>11 DEF Taken
  <1> QED
    BY <1>1, BookingInvariant, PTL
=============================================================================
