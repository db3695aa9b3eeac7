------------------------------- MODULE MCReports -------------------------------
(***************************************************************************)
(* Instance of Reports for TLC: every chart by itself and all in one pass, *)
(* around the first day of a year, of a month and of a week, with rows at  *)
(* the edges of every time, one insertion and one midnight.                *)
(***************************************************************************)
EXTENDS Reports, TLC

Row(table, class, part, at) ==
    [table |-> table, class |-> class, part |-> part, price |-> 2, at |-> at]
PartOf(at) == CASE at % 3 = 0 -> "one" [] at % 3 = 1 -> "two" [] OTHER -> "unnamed"

Dated(class, d, offsets, h) == {Row("datings", class, PartOf(d - o), (d - o) * 24 + h) : o \in offsets}
Near(d) == Dated("refused", d, {1, 4}, 20) \cup Dated("noReply", d, {2}, 3)
           \cup Dated("cancelled", d, {5}, 9) \cup Dated("late", d, {1, 2}, 12)
           \cup Dated("done", d, {3, 4}, 23) \cup Dated("open", d, {3}, 0)
           \cup Dated("unpaid", d, {2}, 22) \cup Dated("agreed", d, {1}, 10)
           \cup Dated("withdrawn", d, {5}, 11)
Far(d) == UNION {Dated(class, d, {0, 6, 7, 31, 61, 91, 400}, 0) : class \in {"done", "refused", "late"}}

\* Every edge of the present times and of the times before.
Edges == {0, 1, 6, 7, 8, 13, 14, 15, 29, 30, 31, 59, 60, 61, 89, 90, 91, 179, 180, 181, 360, 720}
Others(d) == {Row("feedback", "none", PartOf(o), (d - o) * 24 + h) : o \in Edges, h \in {0, 13}}
             \cup {Row(t, "none", PartOf(o), (d - o) * 24 + 5) : t \in {"logs", "users"}, o \in {1, 8}}

Comes(d) == {Row("datings", "noReply", "one", (d - 1) * 24 + 20),
             Row("datings", "late", "two", d * 24), Row("feedback", "none", "one", (d - 7) * 24 + 1)}

\* A Saturday on the first of January, a Sunday, one in April, one inside March.
Days == {720, 721, 810, 795}
Scene(d, h, data, type, category) ==
    [rows |-> CASE data = "near" -> Near(d) \cup Others(d)
                [] data = "far" -> Near(d) \cup Far(d) \cup Others(d)
                [] OTHER -> Others(d),
     clocks |-> <<d * 24 + h, d * 24 + h + 9>>, comes |-> Comes(d),
     type |-> type, category |-> category]

\* All charts in one pass: nothing changes meanwhile.
Pass(d) == [Scene(d, 1, "near", 0, 0) EXCEPT !.clocks = <<d * 24 + 1>>, !.comes = {}]
MCScenarios == {Pass(795)} \cup
    {Scene(d, h, data, k[1], k[2]) : d \in Days, h \in {9, 16}, data \in {"near", "far", "none"},
                                     k \in (Types \X Categories) \ {<<0, 0>>}}
=============================================================================
