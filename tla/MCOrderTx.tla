----------------------------- MODULE MCOrderTx ------------------------------
(***************************************************************************)
(* Instance of OrderTx for TLC: two requests of one or two members, orders *)
(* below and above the 1000 from which vouchers count.                     *)
(***************************************************************************)
EXTENDS OrderTx

CONSTANTS m1, m2, r1, r2

Ask(m, t, p) == [who |-> m, total |-> t, pay |-> p]
MCAsked == {r1 :> Ask(m1, 500, FALSE) @@ r2 :> Ask(m1, 2500, TRUE),
            r1 :> Ask(m1, 2500, TRUE) @@ r2 :> Ask(m2, 2500, TRUE),
            r1 :> Ask(m2, 2500, TRUE) @@ r2 :> Ask(m2, 4000, FALSE)}
MCWallets == {[balance |-> 3000, voucher |-> 1500]}

Card(a, u) == [amount |-> a, used |-> u]
MCShelves == {m1 :> <<>> @@ m2 :> <<Card(3000, 500), Card(1500, 0)>>,
              m1 :> <<Card(1500, 500), Card(3000, 0)>> @@ m2 :> <<Card(500, 0)>>}
=============================================================================
