--------------------------- MODULE MCBookingTimes ---------------------------
(***************************************************************************)
(* Instance of BookingTimes for TLC: days of four hours, three days ahead, *)
(* weeks of two days, months of five; the request is made early in the     *)
(* month or on its last day, at any hour; in the first one it is still     *)
(* yesterday in UTC.                                                       *)
(***************************************************************************)
EXTENDS BookingTimes, FiniteSetsExt

MCClosed == {[w \in 0..1 |-> {}], [w \in 0..1 |-> IF w = 0 THEN {1, 2} ELSE {}]}
MCOpen == {[d \in 0..2 |-> {}], [d \in 0..2 |-> IF d = 0 THEN {1, 3} ELSE {}],
           [d \in 0..2 |-> IF d = 1 THEN {0, 1, 2, 3} ELSE {}]}
Busy(m, a, b, e, i) == [member |-> m, start |-> a, end |-> b, enrolment |-> e, instant |-> i]
Bookings == {Busy(1, 2, 4, FALSE, FALSE), Busy(2, 3, 6, FALSE, FALSE), Busy(2, 6, 7, TRUE, FALSE),
             Busy(1, 9, 10, TRUE, FALSE), Busy(2, 5, 7, FALSE, TRUE)}
MCSituations ==
    {[today |-> t, now |-> n, member |-> 1, minHours |-> m, after |-> a,
      closed |-> c, open |-> o, busy |-> b] :
        t \in {2, 5}, n \in 0..3, m \in {1, 2}, a \in {0, 1, 3},
        c \in MCClosed, o \in MCOpen, b \in UNION {kSubset(k, Bookings) : k \in 0..2}}
=============================================================================
