----------------------------- MODULE TopUpProofs -----------------------------
(***************************************************************************)
(* Theorems about TopUp for any number of requests and callbacks, any      *)
(* prices and any number of other charges.  TopUpInv is the inductive      *)
(* invariant: the properties themselves plus what each step of a handler   *)
(* knows about the gateway's answer and about the row it has written.      *)
(***************************************************************************)
EXTENDS TopUpLedger, TLAPS

\* Every handler past its start works on a request, a request on itself.
OrderKnown == /\ \A r \in Requests : order[r] = r
              /\ \A d \in Deliveries : pc[d] # "idle" => order[d] \in Requests

\* Until runPay the gateway knows nothing of the request.
BeforePay(r) == \/ pc[r] \in {"idle", "prepare", "pay"}
                \/ pc[r] = "read" /\ ask[r].flow \in BookingFlows
GatewayAfterPay == \A r \in Requests : BeforePay(r) => gateway[r] = "unknown"

\* The card is only asked for a positive amount.
ChargePositive ==
    \A r \in Requests : pc[r] = "pay" \/ gateway[r] # "unknown" => amount[r] > 0

\* A handler on its way to credit the wallet holds a payment the gateway took.
Crediting(a) == \/ pc[a] \in {"save", "log", "settle"}
                \/ pc[a] = "read" /\ ~(a \in Requests /\ ask[a].flow \in BookingFlows)
CreditingIsPaid == \A a \in Actors : Crediting(a) => gateway[order[a]] = "paid"

\* The TOP_UP row of a handler.
HasRow(a) == \E row \in logs : /\ row.by = a
                               /\ row.order = order[a]
                               /\ row.amount = amount[order[a]]

\* A booking the wallet covered when it was read.
Covered(a) == /\ a \in Requests
              /\ ~ask[a].full
              /\ ask[a].price <= origin[a]
              /\ amount[a] <= 0

LoggedBeforeUse ==
    \A a \in Actors : /\ pc[a] \in {"settle", "close"} => HasRow(a)
                      /\ pc[a] = "order" => HasRow(a) \/ Covered(a)

\* Placing and capturing come last.
UsedLast ==
    \A a \in Actors : a \in placed \/ (\E c \in closed : c.by = a)
                          => pc[a] \in {"close", "notice", "done", "failed"}

OriginsPutIn == \A a \in Actors : origin[a] <= InitialBalance + credited

TopUpInv ==
    /\ TypeOK
    /\ OrderKnown
    /\ GatewayAfterPay
    /\ ChargePositive
    /\ CreditingIsPaid
    /\ LoggedBeforeUse
    /\ UsedLast
    /\ OriginsPutIn
    /\ CreditsArePaid
    /\ PaidRowHasItsLog
    /\ PlacedIsFunded
    /\ ClosedIsCredited
    /\ NeverMoreThanPutIn

USE DEF Goto, Actors, handler
-----------------------------------------------------------------------------
LEMMA InitHolds == Init => TopUpInv
  <1> SUFFICES ASSUME Init PROVE TopUpInv
    OBVIOUS
  <1> USE TopUpAssumption, NoneAssumption DEF Init
  <1>1. TypeOK
    BY DEF TypeOK, Steps, NoPayment
  <1>2. OrderKnown
    BY DEF OrderKnown
  <1>3. GatewayAfterPay /\ ChargePositive
    BY DEF GatewayAfterPay, ChargePositive
  <1>4. CreditingIsPaid
    BY DEF CreditingIsPaid, Crediting
  <1>5. LoggedBeforeUse /\ UsedLast
    BY DEF LoggedBeforeUse, UsedLast
  <1>6. OriginsPutIn /\ NeverMoreThanPutIn
    BY DEF OriginsPutIn, NeverMoreThanPutIn
  <1>7. CreditsArePaid /\ PaidRowHasItsLog /\ PlacedIsFunded /\ ClosedIsCredited
    BY DEF CreditsArePaid, PaidRowHasItsLog, PlacedIsFunded, ClosedIsCredited, NoPayment
  <1> QED
    BY <1>1, <1>2, <1>3, <1>4, <1>5, <1>6, <1>7 DEF TopUpInv

LEMMA AskFields ==
    ASSUME TypeOK, NEW r \in Requests
    PROVE  /\ ask[r].price \in Nat \ {0}
           /\ ask[r].full \in BOOLEAN
           /\ ask[r].flow \in AllFlows
           /\ ask[r].flow \in TopUpFlows => ask[r].full
  <1>1. ask[r] \in Asks
    BY DEF TypeOK
  <1> QED
    BY <1>1, TopUpAssumption DEF Asks

LEMMA TypeKept == TopUpInv /\ [Next]_vars => TypeOK'
  <1> SUFFICES ASSUME TopUpInv, [Next]_vars PROVE TypeOK'
    OBVIOUS
  <1> USE TopUpAssumption, NoneAssumption DEF TopUpInv, TypeOK, Steps
  <1>1. ASSUME NEW r \in Requests, Accept(r) PROVE TypeOK'
    BY <1>1 DEF Accept
  <1>2. ASSUME NEW r \in Requests, Prepare(r) PROVE TypeOK'
    <2>1. ChargeOf(r) \in Int
      BY AskFields DEF ChargeOf
    <2> QED
      BY <1>2, <2>1 DEF Prepare, CoveredByBalance
  <1>3. ASSUME NEW r \in Requests, Pay(r) PROVE TypeOK'
    BY <1>3 DEF Pay
  <1>4. ASSUME NEW r \in Requests, Answer3D(r) PROVE TypeOK'
    BY <1>4 DEF Answer3D
  <1>5. ASSUME NEW r \in Requests, Expire(r) PROVE TypeOK'
    BY <1>5 DEF Expire
  <1>6. ASSUME NEW d \in Deliveries, NEW r \in Requests, Deliver(d, r) PROVE TypeOK'
    BY <1>6 DEF Deliver
  <1>7. ASSUME NEW d \in Deliveries, Lookup(d) PROVE TypeOK'
    BY <1>7 DEF Lookup, AfterLookup
  <1>8. ASSUME NEW d \in Deliveries, Settle(d) PROVE TypeOK'
    BY <1>8 DEF Settle, AfterCredit
  <1>9. ASSUME NEW d \in Deliveries, Decline(d) PROVE TypeOK'
    BY <1>9 DEF Decline
  <1>10. ASSUME NEW d \in Deliveries, Notice(d) PROVE TypeOK'
    BY <1>10 DEF Notice
  <1>11. ASSUME NEW a \in Actors, ReadBalance(a) PROVE TypeOK'
    BY <1>11 DEF ReadBalance
  <1>12. ASSUME NEW a \in Actors, SaveWallet(a) PROVE TypeOK'
    <2>1. order[a] \in Requests /\ amount[order[a]] \in Nat
      BY <1>12 DEF SaveWallet, Saved, OrderKnown, CreditingIsPaid, Crediting, ChargePositive
    <2> QED
      BY <1>12, <2>1 DEF SaveWallet, Saved
  <1>13. ASSUME NEW a \in Actors, AddTransactionLogs(a) PROVE TypeOK'
    <2>1. order[a] \in Requests /\ amount[order[a]] \in Nat
      BY <1>13 DEF AddTransactionLogs, OrderKnown, CreditingIsPaid, Crediting, ChargePositive
    <2>2. LoggedBalance(a) \in Nat
      BY <2>1, AskFields DEF LoggedBalance
    <2> QED
      BY <1>13, <2>1, <2>2 DEF AddTransactionLogs, AfterCredit
  <1>14. ASSUME NEW a \in Actors, PlaceOrder(a) PROVE TypeOK'
    <2>1. ask[order[a]].price \in Nat
      BY <1>14, AskFields DEF PlaceOrder, OrderKnown
    <2> QED
      BY <1>14, <2>1 DEF PlaceOrder, AfterOrder
  <1>15. ASSUME NEW a \in Actors, Close(a) PROVE TypeOK'
    BY <1>15 DEF Close, Captures, OrderKnown
  <1>16. CASE OtherCharge
    BY <1>16 DEF OtherCharge
  <1>17. CASE UNCHANGED vars
    BY <1>17 DEF vars
  <1>18. ASSUME NEW a \in Actors, Fails(a) PROVE TypeOK'
    BY <1>18 DEF Fails
  <1> QED
    BY <1>1, <1>2, <1>3, <1>4, <1>5, <1>6, <1>7, <1>8, <1>9, <1>10, <1>11, <1>12,
       <1>13, <1>14, <1>15, <1>16, <1>17, <1>18 DEF Next, PayStep, NotifyStep, CreditStep

LEMMA OrderKept == TopUpInv /\ [Next]_vars => OrderKnown'
  <1> SUFFICES ASSUME TopUpInv, [Next]_vars PROVE OrderKnown'
    OBVIOUS
  <1> USE TopUpAssumption, NoneAssumption DEF TopUpInv, TypeOK, OrderKnown, Steps
  <1>1. ASSUME NEW r \in Requests, Accept(r) PROVE OrderKnown'
    BY <1>1 DEF Accept
  <1>2. ASSUME NEW r \in Requests, Prepare(r) PROVE OrderKnown'
    BY <1>2 DEF Prepare, CoveredByBalance
  <1>3. ASSUME NEW r \in Requests, Pay(r) PROVE OrderKnown'
    BY <1>3 DEF Pay
  <1>4. ASSUME NEW r \in Requests, Answer3D(r) PROVE OrderKnown'
    BY <1>4 DEF Answer3D
  <1>5. ASSUME NEW r \in Requests, Expire(r) PROVE OrderKnown'
    BY <1>5 DEF Expire
  <1>6. ASSUME NEW d \in Deliveries, NEW r \in Requests, Deliver(d, r) PROVE OrderKnown'
    BY <1>6 DEF Deliver
  <1>7. ASSUME NEW d \in Deliveries, Lookup(d) PROVE OrderKnown'
    BY <1>7 DEF Lookup, AfterLookup
  <1>8. ASSUME NEW d \in Deliveries, Settle(d) PROVE OrderKnown'
    BY <1>8 DEF Settle, AfterCredit
  <1>9. ASSUME NEW d \in Deliveries, Decline(d) PROVE OrderKnown'
    BY <1>9 DEF Decline
  <1>10. ASSUME NEW d \in Deliveries, Notice(d) PROVE OrderKnown'
    BY <1>10 DEF Notice
  <1>11. ASSUME NEW a \in Actors, ReadBalance(a) PROVE OrderKnown'
    BY <1>11 DEF ReadBalance
  <1>12. ASSUME NEW a \in Actors, SaveWallet(a) PROVE OrderKnown'
    BY <1>12 DEF SaveWallet, Saved
  <1>13. ASSUME NEW a \in Actors, AddTransactionLogs(a) PROVE OrderKnown'
    BY <1>13 DEF AddTransactionLogs, AfterCredit
  <1>14. ASSUME NEW a \in Actors, PlaceOrder(a) PROVE OrderKnown'
    BY <1>14 DEF PlaceOrder, AfterOrder
  <1>15. ASSUME NEW a \in Actors, Close(a) PROVE OrderKnown'
    BY <1>15 DEF Close
  <1>16. CASE OtherCharge
    BY <1>16 DEF OtherCharge
  <1>17. CASE UNCHANGED vars
    BY <1>17 DEF vars
  <1>18. ASSUME NEW a \in Actors, Fails(a) PROVE OrderKnown'
    BY <1>18 DEF Fails
  <1> QED
    BY <1>1, <1>2, <1>3, <1>4, <1>5, <1>6, <1>7, <1>8, <1>9, <1>10, <1>11, <1>12,
       <1>13, <1>14, <1>15, <1>16, <1>17, <1>18 DEF Next, PayStep, NotifyStep, CreditStep

LEMMA GatewayKept == TopUpInv /\ [Next]_vars => GatewayAfterPay'
  <1> SUFFICES ASSUME TopUpInv, [Next]_vars PROVE GatewayAfterPay'
    OBVIOUS
  <1> USE TopUpAssumption, NoneAssumption DEF TopUpInv, TypeOK, GatewayAfterPay, BeforePay, OrderKnown, Steps
  <1>1. ASSUME NEW r \in Requests, Accept(r) PROVE GatewayAfterPay'
    BY <1>1 DEF Accept
  <1>2. ASSUME NEW r \in Requests, Prepare(r) PROVE GatewayAfterPay'
    BY <1>2 DEF Prepare, CoveredByBalance
  <1>3. ASSUME NEW r \in Requests, Pay(r) PROVE GatewayAfterPay'
    BY <1>3 DEF Pay
  <1>4. ASSUME NEW r \in Requests, Answer3D(r) PROVE GatewayAfterPay'
    BY <1>4 DEF Answer3D
  <1>5. ASSUME NEW r \in Requests, Expire(r) PROVE GatewayAfterPay'
    BY <1>5 DEF Expire
  <1>6. ASSUME NEW d \in Deliveries, NEW r \in Requests, Deliver(d, r) PROVE GatewayAfterPay'
    BY <1>6 DEF Deliver
  <1>7. ASSUME NEW d \in Deliveries, Lookup(d) PROVE GatewayAfterPay'
    BY <1>7 DEF Lookup, AfterLookup
  <1>8. ASSUME NEW d \in Deliveries, Settle(d) PROVE GatewayAfterPay'
    BY <1>8 DEF Settle, AfterCredit
  <1>9. ASSUME NEW d \in Deliveries, Decline(d) PROVE GatewayAfterPay'
    BY <1>9 DEF Decline
  <1>10. ASSUME NEW d \in Deliveries, Notice(d) PROVE GatewayAfterPay'
    BY <1>10 DEF Notice
  <1>11. ASSUME NEW a \in Actors, ReadBalance(a) PROVE GatewayAfterPay'
    BY <1>11 DEF ReadBalance
  <1>12. ASSUME NEW a \in Actors, SaveWallet(a) PROVE GatewayAfterPay'
    BY <1>12 DEF SaveWallet, Saved
  <1>13. ASSUME NEW a \in Actors, AddTransactionLogs(a) PROVE GatewayAfterPay'
    BY <1>13 DEF AddTransactionLogs, AfterCredit
  <1>14. ASSUME NEW a \in Actors, PlaceOrder(a) PROVE GatewayAfterPay'
    BY <1>14 DEF PlaceOrder, AfterOrder
  <1>15. ASSUME NEW a \in Actors, Close(a) PROVE GatewayAfterPay'
    BY <1>15 DEF Close
  <1>16. CASE OtherCharge
    BY <1>16 DEF OtherCharge
  <1>17. CASE UNCHANGED vars
    BY <1>17 DEF vars
  <1>18. ASSUME NEW a \in Actors, Fails(a) PROVE GatewayAfterPay'
    BY <1>18 DEF Fails
  <1> QED
    BY <1>1, <1>2, <1>3, <1>4, <1>5, <1>6, <1>7, <1>8, <1>9, <1>10, <1>11, <1>12,
       <1>13, <1>14, <1>15, <1>16, <1>17, <1>18 DEF Next, PayStep, NotifyStep, CreditStep

LEMMA ChargeKept == TopUpInv /\ [Next]_vars => ChargePositive'
  <1> SUFFICES ASSUME TopUpInv, [Next]_vars PROVE ChargePositive'
    OBVIOUS
  <1> USE TopUpAssumption, NoneAssumption DEF TopUpInv, TypeOK, ChargePositive, GatewayAfterPay, BeforePay, OrderKnown, Steps
  <1>1. ASSUME NEW r \in Requests, Accept(r) PROVE ChargePositive'
    BY <1>1 DEF Accept
  <1>2. ASSUME NEW r \in Requests, Prepare(r) PROVE ChargePositive'
    <2>1. ChargeOf(r) \in Int /\ (ask[r].full => ChargeOf(r) > 0)
      BY AskFields DEF ChargeOf
    <2>2. gateway[r] = "unknown"
      BY <1>2 DEF Prepare, CoveredByBalance
    <2> QED
      BY <1>2, <2>1, <2>2 DEF Prepare, CoveredByBalance, ChargeOf
  <1>3. ASSUME NEW r \in Requests, Pay(r) PROVE ChargePositive'
    BY <1>3 DEF Pay
  <1>4. ASSUME NEW r \in Requests, Answer3D(r) PROVE ChargePositive'
    BY <1>4 DEF Answer3D
  <1>5. ASSUME NEW r \in Requests, Expire(r) PROVE ChargePositive'
    BY <1>5 DEF Expire
  <1>6. ASSUME NEW d \in Deliveries, NEW r \in Requests, Deliver(d, r) PROVE ChargePositive'
    BY <1>6 DEF Deliver
  <1>7. ASSUME NEW d \in Deliveries, Lookup(d) PROVE ChargePositive'
    BY <1>7 DEF Lookup, AfterLookup
  <1>8. ASSUME NEW d \in Deliveries, Settle(d) PROVE ChargePositive'
    BY <1>8 DEF Settle, AfterCredit
  <1>9. ASSUME NEW d \in Deliveries, Decline(d) PROVE ChargePositive'
    BY <1>9 DEF Decline
  <1>10. ASSUME NEW d \in Deliveries, Notice(d) PROVE ChargePositive'
    BY <1>10 DEF Notice
  <1>11. ASSUME NEW a \in Actors, ReadBalance(a) PROVE ChargePositive'
    BY <1>11 DEF ReadBalance
  <1>12. ASSUME NEW a \in Actors, SaveWallet(a) PROVE ChargePositive'
    BY <1>12 DEF SaveWallet, Saved
  <1>13. ASSUME NEW a \in Actors, AddTransactionLogs(a) PROVE ChargePositive'
    BY <1>13 DEF AddTransactionLogs, AfterCredit
  <1>14. ASSUME NEW a \in Actors, PlaceOrder(a) PROVE ChargePositive'
    BY <1>14 DEF PlaceOrder, AfterOrder
  <1>15. ASSUME NEW a \in Actors, Close(a) PROVE ChargePositive'
    BY <1>15 DEF Close
  <1>16. CASE OtherCharge
    BY <1>16 DEF OtherCharge
  <1>17. CASE UNCHANGED vars
    BY <1>17 DEF vars
  <1>18. ASSUME NEW a \in Actors, Fails(a) PROVE ChargePositive'
    BY <1>18 DEF Fails
  <1> QED
    BY <1>1, <1>2, <1>3, <1>4, <1>5, <1>6, <1>7, <1>8, <1>9, <1>10, <1>11, <1>12,
       <1>13, <1>14, <1>15, <1>16, <1>17, <1>18 DEF Next, PayStep, NotifyStep, CreditStep

LEMMA CreditingKept == TopUpInv /\ [Next]_vars => CreditingIsPaid'
  <1> SUFFICES ASSUME TopUpInv, [Next]_vars PROVE CreditingIsPaid'
    OBVIOUS
  <1> USE TopUpAssumption, NoneAssumption DEF TopUpInv, TypeOK, CreditingIsPaid, Crediting, GatewayAfterPay, BeforePay, OrderKnown, Steps
  <1>1. ASSUME NEW r \in Requests, Accept(r) PROVE CreditingIsPaid'
    BY <1>1 DEF Accept
  <1>2. ASSUME NEW r \in Requests, Prepare(r) PROVE CreditingIsPaid'
    BY <1>2 DEF Prepare, CoveredByBalance
  <1>3. ASSUME NEW r \in Requests, Pay(r) PROVE CreditingIsPaid'
    BY <1>3 DEF Pay
  <1>4. ASSUME NEW r \in Requests, Answer3D(r) PROVE CreditingIsPaid'
    BY <1>4 DEF Answer3D
  <1>5. ASSUME NEW r \in Requests, Expire(r) PROVE CreditingIsPaid'
    BY <1>5 DEF Expire
  <1>6. ASSUME NEW d \in Deliveries, NEW r \in Requests, Deliver(d, r) PROVE CreditingIsPaid'
    BY <1>6 DEF Deliver
  <1>7. ASSUME NEW d \in Deliveries, Lookup(d) PROVE CreditingIsPaid'
    BY <1>7 DEF Lookup, AfterLookup
  <1>8. ASSUME NEW d \in Deliveries, Settle(d) PROVE CreditingIsPaid'
    BY <1>8 DEF Settle, AfterCredit
  <1>9. ASSUME NEW d \in Deliveries, Decline(d) PROVE CreditingIsPaid'
    BY <1>9 DEF Decline
  <1>10. ASSUME NEW d \in Deliveries, Notice(d) PROVE CreditingIsPaid'
    BY <1>10 DEF Notice
  <1>11. ASSUME NEW a \in Actors, ReadBalance(a) PROVE CreditingIsPaid'
    BY <1>11 DEF ReadBalance
  <1>12. ASSUME NEW a \in Actors, SaveWallet(a) PROVE CreditingIsPaid'
    BY <1>12 DEF SaveWallet, Saved
  <1>13. ASSUME NEW a \in Actors, AddTransactionLogs(a) PROVE CreditingIsPaid'
    BY <1>13 DEF AddTransactionLogs, AfterCredit
  <1>14. ASSUME NEW a \in Actors, PlaceOrder(a) PROVE CreditingIsPaid'
    BY <1>14 DEF PlaceOrder, AfterOrder
  <1>15. ASSUME NEW a \in Actors, Close(a) PROVE CreditingIsPaid'
    BY <1>15 DEF Close
  <1>16. CASE OtherCharge
    BY <1>16 DEF OtherCharge
  <1>17. CASE UNCHANGED vars
    BY <1>17 DEF vars
  <1>18. ASSUME NEW a \in Actors, Fails(a) PROVE CreditingIsPaid'
    BY <1>18 DEF Fails
  <1> QED
    BY <1>1, <1>2, <1>3, <1>4, <1>5, <1>6, <1>7, <1>8, <1>9, <1>10, <1>11, <1>12,
       <1>13, <1>14, <1>15, <1>16, <1>17, <1>18 DEF Next, PayStep, NotifyStep, CreditStep

LEMMA OriginsKept == TopUpInv /\ [Next]_vars => OriginsPutIn'
  <1> SUFFICES ASSUME TopUpInv, [Next]_vars PROVE OriginsPutIn'
    OBVIOUS
  <1> USE TopUpAssumption, NoneAssumption DEF TopUpInv, TypeOK, OriginsPutIn, NeverMoreThanPutIn, CreditingIsPaid, Crediting, ChargePositive, OrderKnown
  <1>1. ASSUME NEW r \in Requests, Accept(r) PROVE OriginsPutIn'
    BY <1>1 DEF Accept
  <1>2. ASSUME NEW r \in Requests, Prepare(r) PROVE OriginsPutIn'
    BY <1>2 DEF Prepare, CoveredByBalance
  <1>3. ASSUME NEW r \in Requests, Pay(r) PROVE OriginsPutIn'
    BY <1>3 DEF Pay
  <1>4. ASSUME NEW r \in Requests, Answer3D(r) PROVE OriginsPutIn'
    BY <1>4 DEF Answer3D
  <1>5. ASSUME NEW r \in Requests, Expire(r) PROVE OriginsPutIn'
    BY <1>5 DEF Expire
  <1>6. ASSUME NEW d \in Deliveries, NEW r \in Requests, Deliver(d, r) PROVE OriginsPutIn'
    BY <1>6 DEF Deliver
  <1>7. ASSUME NEW d \in Deliveries, Lookup(d) PROVE OriginsPutIn'
    BY <1>7 DEF Lookup, AfterLookup
  <1>8. ASSUME NEW d \in Deliveries, Settle(d) PROVE OriginsPutIn'
    BY <1>8 DEF Settle, AfterCredit
  <1>9. ASSUME NEW d \in Deliveries, Decline(d) PROVE OriginsPutIn'
    BY <1>9 DEF Decline
  <1>10. ASSUME NEW d \in Deliveries, Notice(d) PROVE OriginsPutIn'
    BY <1>10 DEF Notice
  <1>11. ASSUME NEW a \in Actors, ReadBalance(a) PROVE OriginsPutIn'
    BY <1>11 DEF ReadBalance
  <1>12. ASSUME NEW a \in Actors, SaveWallet(a) PROVE OriginsPutIn'
    BY <1>12 DEF SaveWallet, Saved
  <1>13. ASSUME NEW a \in Actors, AddTransactionLogs(a) PROVE OriginsPutIn'
    BY <1>13 DEF AddTransactionLogs, AfterCredit
  <1>14. ASSUME NEW a \in Actors, PlaceOrder(a) PROVE OriginsPutIn'
    BY <1>14 DEF PlaceOrder, AfterOrder
  <1>15. ASSUME NEW a \in Actors, Close(a) PROVE OriginsPutIn'
    BY <1>15 DEF Close
  <1>16. CASE OtherCharge
    BY <1>16 DEF OtherCharge
  <1>17. CASE UNCHANGED vars
    BY <1>17 DEF vars
  <1>18. ASSUME NEW a \in Actors, Fails(a) PROVE OriginsPutIn'
    BY <1>18 DEF Fails
  <1> QED
    BY <1>1, <1>2, <1>3, <1>4, <1>5, <1>6, <1>7, <1>8, <1>9, <1>10, <1>11, <1>12,
       <1>13, <1>14, <1>15, <1>16, <1>17, <1>18 DEF Next, PayStep, NotifyStep, CreditStep

LEMMA BoundKept == TopUpInv /\ [Next]_vars => NeverMoreThanPutIn'
  <1> SUFFICES ASSUME TopUpInv, [Next]_vars PROVE NeverMoreThanPutIn'
    OBVIOUS
  <1> USE TopUpAssumption, NoneAssumption, AskFields DEF TopUpInv, TypeOK, OriginsPutIn, NeverMoreThanPutIn, CreditingIsPaid, Crediting, ChargePositive, OrderKnown
  <1>1. ASSUME NEW r \in Requests, Accept(r) PROVE NeverMoreThanPutIn'
    BY <1>1 DEF Accept
  <1>2. ASSUME NEW r \in Requests, Prepare(r) PROVE NeverMoreThanPutIn'
    BY <1>2 DEF Prepare, CoveredByBalance
  <1>3. ASSUME NEW r \in Requests, Pay(r) PROVE NeverMoreThanPutIn'
    BY <1>3 DEF Pay
  <1>4. ASSUME NEW r \in Requests, Answer3D(r) PROVE NeverMoreThanPutIn'
    BY <1>4 DEF Answer3D
  <1>5. ASSUME NEW r \in Requests, Expire(r) PROVE NeverMoreThanPutIn'
    BY <1>5 DEF Expire
  <1>6. ASSUME NEW d \in Deliveries, NEW r \in Requests, Deliver(d, r) PROVE NeverMoreThanPutIn'
    BY <1>6 DEF Deliver
  <1>7. ASSUME NEW d \in Deliveries, Lookup(d) PROVE NeverMoreThanPutIn'
    BY <1>7 DEF Lookup, AfterLookup
  <1>8. ASSUME NEW d \in Deliveries, Settle(d) PROVE NeverMoreThanPutIn'
    BY <1>8 DEF Settle, AfterCredit
  <1>9. ASSUME NEW d \in Deliveries, Decline(d) PROVE NeverMoreThanPutIn'
    BY <1>9 DEF Decline
  <1>10. ASSUME NEW d \in Deliveries, Notice(d) PROVE NeverMoreThanPutIn'
    BY <1>10 DEF Notice
  <1>11. ASSUME NEW a \in Actors, ReadBalance(a) PROVE NeverMoreThanPutIn'
    BY <1>11 DEF ReadBalance
  <1>12. ASSUME NEW a \in Actors, SaveWallet(a) PROVE NeverMoreThanPutIn'
    BY <1>12 DEF SaveWallet, Saved
  <1>13. ASSUME NEW a \in Actors, AddTransactionLogs(a) PROVE NeverMoreThanPutIn'
    BY <1>13 DEF AddTransactionLogs, AfterCredit
  <1>14. ASSUME NEW a \in Actors, PlaceOrder(a) PROVE NeverMoreThanPutIn'
    BY <1>14 DEF PlaceOrder, AfterOrder
  <1>15. ASSUME NEW a \in Actors, Close(a) PROVE NeverMoreThanPutIn'
    BY <1>15 DEF Close
  <1>16. CASE OtherCharge
    BY <1>16 DEF OtherCharge
  <1>17. CASE UNCHANGED vars
    BY <1>17 DEF vars
  <1>18. ASSUME NEW a \in Actors, Fails(a) PROVE NeverMoreThanPutIn'
    BY <1>18 DEF Fails
  <1> QED
    BY <1>1, <1>2, <1>3, <1>4, <1>5, <1>6, <1>7, <1>8, <1>9, <1>10, <1>11, <1>12,
       <1>13, <1>14, <1>15, <1>16, <1>17, <1>18 DEF Next, PayStep, NotifyStep, CreditStep

LEMMA LoggedKept == TopUpInv /\ [Next]_vars => LoggedBeforeUse'
  <1> SUFFICES ASSUME TopUpInv, [Next]_vars PROVE LoggedBeforeUse'
    OBVIOUS
  <1> USE TopUpAssumption, NoneAssumption, AskFields DEF TopUpInv, TypeOK, LoggedBeforeUse, HasRow, Covered, CreditsArePaid, GatewayAfterPay, BeforePay, OrderKnown, CreditingIsPaid, Crediting, ChargeOf
  <1>1. ASSUME NEW r \in Requests, Accept(r) PROVE LoggedBeforeUse'
    BY <1>1 DEF Accept
  <1>2. ASSUME NEW r \in Requests, Prepare(r) PROVE LoggedBeforeUse'
    BY <1>2 DEF Prepare, CoveredByBalance
  <1>3. ASSUME NEW r \in Requests, Pay(r) PROVE LoggedBeforeUse'
    <2>1. UNCHANGED <<logs, amount, order, origin, ask>>
      BY <1>3 DEF Pay, handler
    <2>2. pc'[r] \notin {"settle", "close", "order"}
      BY <1>3 DEF Pay, Goto, Actors
    <2>3. ASSUME NEW b \in Actors, b # r PROVE pc'[b] = pc[b]
      BY <1>3, <2>3 DEF Pay, Goto
    <2>4. ASSUME NEW b \in Actors PROVE (HasRow(b) => HasRow(b)') /\ (Covered(b) => Covered(b)')
      BY <2>1
    <2> HIDE DEF HasRow, Covered
    <2> QED
      BY <2>2, <2>3, <2>4
  <1>4. ASSUME NEW r \in Requests, Answer3D(r) PROVE LoggedBeforeUse'
    BY <1>4 DEF Answer3D
  <1>5. ASSUME NEW r \in Requests, Expire(r) PROVE LoggedBeforeUse'
    BY <1>5 DEF Expire
  <1>6. ASSUME NEW d \in Deliveries, NEW r \in Requests, Deliver(d, r) PROVE LoggedBeforeUse'
    BY <1>6 DEF Deliver
  <1>7. ASSUME NEW d \in Deliveries, Lookup(d) PROVE LoggedBeforeUse'
    BY <1>7 DEF Lookup, AfterLookup
  <1>8. ASSUME NEW d \in Deliveries, Settle(d) PROVE LoggedBeforeUse'
    <2>1. UNCHANGED <<logs, amount, order, origin, ask>>
      BY <1>8 DEF Settle
    <2>2. HasRow(d)
      BY <1>8 DEF Settle
    <2>3. ASSUME NEW b \in Actors, b # d PROVE pc'[b] = pc[b]
      BY <1>8, <2>3 DEF Settle
    <2>4. ASSUME NEW b \in Actors PROVE (HasRow(b) => HasRow(b)') /\ (Covered(b) => Covered(b)')
      BY <2>1
    <2> HIDE DEF HasRow, Covered
    <2> QED
      BY <2>2, <2>3, <2>4
  <1>9. ASSUME NEW d \in Deliveries, Decline(d) PROVE LoggedBeforeUse'
    BY <1>9 DEF Decline
  <1>10. ASSUME NEW d \in Deliveries, Notice(d) PROVE LoggedBeforeUse'
    BY <1>10 DEF Notice
  <1>11. ASSUME NEW a \in Actors, ReadBalance(a) PROVE LoggedBeforeUse'
    BY <1>11 DEF ReadBalance
  <1>12. ASSUME NEW a \in Actors, SaveWallet(a) PROVE LoggedBeforeUse'
    BY <1>12 DEF SaveWallet, Saved
  <1>13. ASSUME NEW a \in Actors, AddTransactionLogs(a) PROVE LoggedBeforeUse'
    <2> DEFINE row == [by |-> a, order |-> order[a], amount |-> amount[order[a]],
                       balance |-> LoggedBalance(a)]
    <2>1. logs' = logs \cup {row} /\ UNCHANGED <<amount, order, origin, ask>>
      BY <1>13 DEF AddTransactionLogs
    <2>2. row.by = a /\ row.order = order[a] /\ row.amount = amount[order[a]]
      OBVIOUS
    <2>3. HasRow(a)'
      BY <2>1, <2>2
    <2>4. ASSUME NEW b \in Actors, b # a PROVE pc'[b] = pc[b]
      BY <1>13, <2>4 DEF AddTransactionLogs
    <2>5. ASSUME NEW b \in Actors PROVE HasRow(b) => HasRow(b)'
      BY <2>1
    <2>6. ASSUME NEW b \in Actors PROVE Covered(b) => Covered(b)'
      BY <2>1
    <2> HIDE DEF row, HasRow, Covered
    <2> QED
      BY <1>13, <2>3, <2>4, <2>5, <2>6
  <1>14. ASSUME NEW a \in Actors, PlaceOrder(a) PROVE LoggedBeforeUse'
    BY <1>14 DEF PlaceOrder, AfterOrder
  <1>15. ASSUME NEW a \in Actors, Close(a) PROVE LoggedBeforeUse'
    BY <1>15 DEF Close
  <1>16. CASE OtherCharge
    BY <1>16 DEF OtherCharge
  <1>17. CASE UNCHANGED vars
    BY <1>17 DEF vars
  <1>18. ASSUME NEW a \in Actors, Fails(a) PROVE LoggedBeforeUse'
    BY <1>18 DEF Fails
  <1> QED
    BY <1>1, <1>2, <1>3, <1>4, <1>5, <1>6, <1>7, <1>8, <1>9, <1>10, <1>11, <1>12,
       <1>13, <1>14, <1>15, <1>16, <1>17, <1>18 DEF Next, PayStep, NotifyStep, CreditStep

LEMMA UsedKept == TopUpInv /\ [Next]_vars => UsedLast'
  <1> SUFFICES ASSUME TopUpInv, [Next]_vars PROVE UsedLast'
    OBVIOUS
  <1> USE TopUpAssumption, NoneAssumption DEF TopUpInv, TypeOK, UsedLast
  <1>1. ASSUME NEW r \in Requests, Accept(r) PROVE UsedLast'
    BY <1>1 DEF Accept
  <1>2. ASSUME NEW r \in Requests, Prepare(r) PROVE UsedLast'
    BY <1>2 DEF Prepare, CoveredByBalance
  <1>3. ASSUME NEW r \in Requests, Pay(r) PROVE UsedLast'
    BY <1>3 DEF Pay
  <1>4. ASSUME NEW r \in Requests, Answer3D(r) PROVE UsedLast'
    BY <1>4 DEF Answer3D
  <1>5. ASSUME NEW r \in Requests, Expire(r) PROVE UsedLast'
    BY <1>5 DEF Expire
  <1>6. ASSUME NEW d \in Deliveries, NEW r \in Requests, Deliver(d, r) PROVE UsedLast'
    BY <1>6 DEF Deliver
  <1>7. ASSUME NEW d \in Deliveries, Lookup(d) PROVE UsedLast'
    BY <1>7 DEF Lookup, AfterLookup
  <1>8. ASSUME NEW d \in Deliveries, Settle(d) PROVE UsedLast'
    BY <1>8 DEF Settle, AfterCredit
  <1>9. ASSUME NEW d \in Deliveries, Decline(d) PROVE UsedLast'
    BY <1>9 DEF Decline
  <1>10. ASSUME NEW d \in Deliveries, Notice(d) PROVE UsedLast'
    BY <1>10 DEF Notice
  <1>11. ASSUME NEW a \in Actors, ReadBalance(a) PROVE UsedLast'
    BY <1>11 DEF ReadBalance
  <1>12. ASSUME NEW a \in Actors, SaveWallet(a) PROVE UsedLast'
    BY <1>12 DEF SaveWallet, Saved
  <1>13. ASSUME NEW a \in Actors, AddTransactionLogs(a) PROVE UsedLast'
    BY <1>13 DEF AddTransactionLogs, AfterCredit
  <1>14. ASSUME NEW a \in Actors, PlaceOrder(a) PROVE UsedLast'
    BY <1>14 DEF PlaceOrder, AfterOrder
  <1>15. ASSUME NEW a \in Actors, Close(a) PROVE UsedLast'
    BY <1>15 DEF Close
  <1>16. CASE OtherCharge
    BY <1>16 DEF OtherCharge
  <1>17. CASE UNCHANGED vars
    BY <1>17 DEF vars
  <1>18. ASSUME NEW a \in Actors, Fails(a) PROVE UsedLast'
    BY <1>18 DEF Fails
  <1> QED
    BY <1>1, <1>2, <1>3, <1>4, <1>5, <1>6, <1>7, <1>8, <1>9, <1>10, <1>11, <1>12,
       <1>13, <1>14, <1>15, <1>16, <1>17, <1>18 DEF Next, PayStep, NotifyStep, CreditStep

LEMMA CreditsKept == TopUpInv /\ [Next]_vars => CreditsArePaid'
  <1> SUFFICES ASSUME TopUpInv, [Next]_vars PROVE CreditsArePaid'
    OBVIOUS
  <1> USE TopUpAssumption, NoneAssumption DEF TopUpInv, TypeOK, CreditsArePaid, GatewayAfterPay, BeforePay, OrderKnown, CreditingIsPaid, Crediting, ChargePositive
  <1>1. ASSUME NEW r \in Requests, Accept(r) PROVE CreditsArePaid'
    BY <1>1 DEF Accept
  <1>2. ASSUME NEW r \in Requests, Prepare(r) PROVE CreditsArePaid'
    BY <1>2 DEF Prepare, CoveredByBalance
  <1>3. ASSUME NEW r \in Requests, Pay(r) PROVE CreditsArePaid'
    BY <1>3 DEF Pay
  <1>4. ASSUME NEW r \in Requests, Answer3D(r) PROVE CreditsArePaid'
    BY <1>4 DEF Answer3D
  <1>5. ASSUME NEW r \in Requests, Expire(r) PROVE CreditsArePaid'
    BY <1>5 DEF Expire
  <1>6. ASSUME NEW d \in Deliveries, NEW r \in Requests, Deliver(d, r) PROVE CreditsArePaid'
    BY <1>6 DEF Deliver
  <1>7. ASSUME NEW d \in Deliveries, Lookup(d) PROVE CreditsArePaid'
    BY <1>7 DEF Lookup, AfterLookup
  <1>8. ASSUME NEW d \in Deliveries, Settle(d) PROVE CreditsArePaid'
    BY <1>8 DEF Settle, AfterCredit
  <1>9. ASSUME NEW d \in Deliveries, Decline(d) PROVE CreditsArePaid'
    BY <1>9 DEF Decline
  <1>10. ASSUME NEW d \in Deliveries, Notice(d) PROVE CreditsArePaid'
    BY <1>10 DEF Notice
  <1>11. ASSUME NEW a \in Actors, ReadBalance(a) PROVE CreditsArePaid'
    BY <1>11 DEF ReadBalance
  <1>12. ASSUME NEW a \in Actors, SaveWallet(a) PROVE CreditsArePaid'
    BY <1>12 DEF SaveWallet, Saved
  <1>13. ASSUME NEW a \in Actors, AddTransactionLogs(a) PROVE CreditsArePaid'
    BY <1>13 DEF AddTransactionLogs, AfterCredit
  <1>14. ASSUME NEW a \in Actors, PlaceOrder(a) PROVE CreditsArePaid'
    BY <1>14 DEF PlaceOrder, AfterOrder
  <1>15. ASSUME NEW a \in Actors, Close(a) PROVE CreditsArePaid'
    BY <1>15 DEF Close
  <1>16. CASE OtherCharge
    BY <1>16 DEF OtherCharge
  <1>17. CASE UNCHANGED vars
    BY <1>17 DEF vars
  <1>18. ASSUME NEW a \in Actors, Fails(a) PROVE CreditsArePaid'
    BY <1>18 DEF Fails
  <1> QED
    BY <1>1, <1>2, <1>3, <1>4, <1>5, <1>6, <1>7, <1>8, <1>9, <1>10, <1>11, <1>12,
       <1>13, <1>14, <1>15, <1>16, <1>17, <1>18 DEF Next, PayStep, NotifyStep, CreditStep

LEMMA PaidRowKept == TopUpInv /\ [Next]_vars => PaidRowHasItsLog'
  <1> SUFFICES ASSUME TopUpInv, [Next]_vars PROVE PaidRowHasItsLog'
    OBVIOUS
  <1> USE TopUpAssumption, NoneAssumption DEF TopUpInv, TypeOK, PaidRowHasItsLog, LoggedBeforeUse, HasRow, CreditsArePaid, GatewayAfterPay, BeforePay, OrderKnown
  <1>1. ASSUME NEW r \in Requests, Accept(r) PROVE PaidRowHasItsLog'
    BY <1>1 DEF Accept
  <1>2. ASSUME NEW r \in Requests, Prepare(r) PROVE PaidRowHasItsLog'
    BY <1>2 DEF Prepare, CoveredByBalance
  <1>3. ASSUME NEW r \in Requests, Pay(r) PROVE PaidRowHasItsLog'
    BY <1>3 DEF Pay
  <1>4. ASSUME NEW r \in Requests, Answer3D(r) PROVE PaidRowHasItsLog'
    BY <1>4 DEF Answer3D
  <1>5. ASSUME NEW r \in Requests, Expire(r) PROVE PaidRowHasItsLog'
    BY <1>5 DEF Expire
  <1>6. ASSUME NEW d \in Deliveries, NEW r \in Requests, Deliver(d, r) PROVE PaidRowHasItsLog'
    BY <1>6 DEF Deliver
  <1>7. ASSUME NEW d \in Deliveries, Lookup(d) PROVE PaidRowHasItsLog'
    BY <1>7 DEF Lookup, AfterLookup
  <1>8. ASSUME NEW d \in Deliveries, Settle(d) PROVE PaidRowHasItsLog'
    BY <1>8 DEF Settle, AfterCredit
  <1>9. ASSUME NEW d \in Deliveries, Decline(d) PROVE PaidRowHasItsLog'
    <2>1. /\ UNCHANGED <<logs, amount>>
          /\ \A r \in Requests : payment'[r].status = "paid" => payment'[r] = payment[r]
      BY <1>9 DEF Decline
    <2> QED
      BY <2>1
  <1>10. ASSUME NEW d \in Deliveries, Notice(d) PROVE PaidRowHasItsLog'
    BY <1>10 DEF Notice
  <1>11. ASSUME NEW a \in Actors, ReadBalance(a) PROVE PaidRowHasItsLog'
    BY <1>11 DEF ReadBalance
  <1>12. ASSUME NEW a \in Actors, SaveWallet(a) PROVE PaidRowHasItsLog'
    BY <1>12 DEF SaveWallet, Saved
  <1>13. ASSUME NEW a \in Actors, AddTransactionLogs(a) PROVE PaidRowHasItsLog'
    BY <1>13 DEF AddTransactionLogs, AfterCredit
  <1>14. ASSUME NEW a \in Actors, PlaceOrder(a) PROVE PaidRowHasItsLog'
    BY <1>14 DEF PlaceOrder, AfterOrder
  <1>15. ASSUME NEW a \in Actors, Close(a) PROVE PaidRowHasItsLog'
    BY <1>15 DEF Close
  <1>16. CASE OtherCharge
    BY <1>16 DEF OtherCharge
  <1>17. CASE UNCHANGED vars
    BY <1>17 DEF vars
  <1>18. ASSUME NEW a \in Actors, Fails(a) PROVE PaidRowHasItsLog'
    BY <1>18 DEF Fails
  <1> QED
    BY <1>1, <1>2, <1>3, <1>4, <1>5, <1>6, <1>7, <1>8, <1>9, <1>10, <1>11, <1>12,
       <1>13, <1>14, <1>15, <1>16, <1>17, <1>18 DEF Next, PayStep, NotifyStep, CreditStep

LEMMA PlacedKept == TopUpInv /\ [Next]_vars => PlacedIsFunded'
  <1> SUFFICES ASSUME TopUpInv, [Next]_vars PROVE PlacedIsFunded'
    OBVIOUS
  <1> USE TopUpAssumption, NoneAssumption DEF TopUpInv, TypeOK, PlacedIsFunded, LoggedBeforeUse, HasRow, Covered, UsedLast, OrderKnown
  <1>1. ASSUME NEW r \in Requests, Accept(r) PROVE PlacedIsFunded'
    BY <1>1 DEF Accept
  <1>2. ASSUME NEW r \in Requests, Prepare(r) PROVE PlacedIsFunded'
    BY <1>2 DEF Prepare, CoveredByBalance
  <1>3. ASSUME NEW r \in Requests, Pay(r) PROVE PlacedIsFunded'
    BY <1>3 DEF Pay
  <1>4. ASSUME NEW r \in Requests, Answer3D(r) PROVE PlacedIsFunded'
    BY <1>4 DEF Answer3D
  <1>5. ASSUME NEW r \in Requests, Expire(r) PROVE PlacedIsFunded'
    BY <1>5 DEF Expire
  <1>6. ASSUME NEW d \in Deliveries, NEW r \in Requests, Deliver(d, r) PROVE PlacedIsFunded'
    BY <1>6 DEF Deliver
  <1>7. ASSUME NEW d \in Deliveries, Lookup(d) PROVE PlacedIsFunded'
    BY <1>7 DEF Lookup, AfterLookup
  <1>8. ASSUME NEW d \in Deliveries, Settle(d) PROVE PlacedIsFunded'
    BY <1>8 DEF Settle, AfterCredit
  <1>9. ASSUME NEW d \in Deliveries, Decline(d) PROVE PlacedIsFunded'
    BY <1>9 DEF Decline
  <1>10. ASSUME NEW d \in Deliveries, Notice(d) PROVE PlacedIsFunded'
    BY <1>10 DEF Notice
  <1>11. ASSUME NEW a \in Actors, ReadBalance(a) PROVE PlacedIsFunded'
    BY <1>11 DEF ReadBalance
  <1>12. ASSUME NEW a \in Actors, SaveWallet(a) PROVE PlacedIsFunded'
    BY <1>12 DEF SaveWallet, Saved
  <1>13. ASSUME NEW a \in Actors, AddTransactionLogs(a) PROVE PlacedIsFunded'
    BY <1>13 DEF AddTransactionLogs, AfterCredit
  <1>14. ASSUME NEW a \in Actors, PlaceOrder(a) PROVE PlacedIsFunded'
    BY <1>14 DEF PlaceOrder, AfterOrder
  <1>15. ASSUME NEW a \in Actors, Close(a) PROVE PlacedIsFunded'
    BY <1>15 DEF Close
  <1>16. CASE OtherCharge
    BY <1>16 DEF OtherCharge
  <1>17. CASE UNCHANGED vars
    BY <1>17 DEF vars
  <1>18. ASSUME NEW a \in Actors, Fails(a) PROVE PlacedIsFunded'
    BY <1>18 DEF Fails
  <1> QED
    BY <1>1, <1>2, <1>3, <1>4, <1>5, <1>6, <1>7, <1>8, <1>9, <1>10, <1>11, <1>12,
       <1>13, <1>14, <1>15, <1>16, <1>17, <1>18 DEF Next, PayStep, NotifyStep, CreditStep

LEMMA ClosedKept == TopUpInv /\ [Next]_vars => ClosedIsCredited'
  <1> SUFFICES ASSUME TopUpInv, [Next]_vars PROVE ClosedIsCredited'
    OBVIOUS
  <1> USE TopUpAssumption, NoneAssumption DEF TopUpInv, TypeOK, ClosedIsCredited, LoggedBeforeUse, HasRow, UsedLast, OrderKnown
  <1>1. ASSUME NEW r \in Requests, Accept(r) PROVE ClosedIsCredited'
    BY <1>1 DEF Accept
  <1>2. ASSUME NEW r \in Requests, Prepare(r) PROVE ClosedIsCredited'
    BY <1>2 DEF Prepare, CoveredByBalance
  <1>3. ASSUME NEW r \in Requests, Pay(r) PROVE ClosedIsCredited'
    BY <1>3 DEF Pay
  <1>4. ASSUME NEW r \in Requests, Answer3D(r) PROVE ClosedIsCredited'
    BY <1>4 DEF Answer3D
  <1>5. ASSUME NEW r \in Requests, Expire(r) PROVE ClosedIsCredited'
    BY <1>5 DEF Expire
  <1>6. ASSUME NEW d \in Deliveries, NEW r \in Requests, Deliver(d, r) PROVE ClosedIsCredited'
    BY <1>6 DEF Deliver
  <1>7. ASSUME NEW d \in Deliveries, Lookup(d) PROVE ClosedIsCredited'
    BY <1>7 DEF Lookup, AfterLookup
  <1>8. ASSUME NEW d \in Deliveries, Settle(d) PROVE ClosedIsCredited'
    BY <1>8 DEF Settle, AfterCredit
  <1>9. ASSUME NEW d \in Deliveries, Decline(d) PROVE ClosedIsCredited'
    BY <1>9 DEF Decline
  <1>10. ASSUME NEW d \in Deliveries, Notice(d) PROVE ClosedIsCredited'
    BY <1>10 DEF Notice
  <1>11. ASSUME NEW a \in Actors, ReadBalance(a) PROVE ClosedIsCredited'
    BY <1>11 DEF ReadBalance
  <1>12. ASSUME NEW a \in Actors, SaveWallet(a) PROVE ClosedIsCredited'
    BY <1>12 DEF SaveWallet, Saved
  <1>13. ASSUME NEW a \in Actors, AddTransactionLogs(a) PROVE ClosedIsCredited'
    BY <1>13 DEF AddTransactionLogs, AfterCredit
  <1>14. ASSUME NEW a \in Actors, PlaceOrder(a) PROVE ClosedIsCredited'
    BY <1>14 DEF PlaceOrder, AfterOrder
  <1>15. ASSUME NEW a \in Actors, Close(a) PROVE ClosedIsCredited'
    BY <1>15 DEF Close, Captures
  <1>16. CASE OtherCharge
    BY <1>16 DEF OtherCharge
  <1>17. CASE UNCHANGED vars
    BY <1>17 DEF vars
  <1>18. ASSUME NEW a \in Actors, Fails(a) PROVE ClosedIsCredited'
    BY <1>18 DEF Fails
  <1> QED
    BY <1>1, <1>2, <1>3, <1>4, <1>5, <1>6, <1>7, <1>8, <1>9, <1>10, <1>11, <1>12,
       <1>13, <1>14, <1>15, <1>16, <1>17, <1>18 DEF Next, PayStep, NotifyStep, CreditStep

-----------------------------------------------------------------------------
\* Whatever the interleaving of requests, callbacks, expiring keys, failing calls
\* and other charges, the inductive invariant holds.
THEOREM TopUpInvariant == Spec => []TopUpInv
  <1>1. TopUpInv /\ [Next]_vars => TopUpInv'
    BY TypeKept, OrderKept, GatewayKept, ChargeKept, CreditingKept, LoggedKept,
       UsedKept, OriginsKept, CreditsKept, PaidRowKept, PlacedKept, ClosedKept,
       BoundKept DEF TopUpInv
  <1> QED
    BY InitHolds, <1>1, PTL DEF Spec

\* The variables keep their types and the wallet is never overdrawn.
THEOREM TypeCorrect == Spec => []TypeOK
  BY TopUpInvariant, PTL DEF TopUpInv

\* The wallet is only credited for payments the gateway took, by their amount.
THEOREM OnlyPaidIsCredited == Spec => []CreditsArePaid
  BY TopUpInvariant, PTL DEF TopUpInv

\* A payments row marked paid points at its own TOP_UP row.
THEOREM PaidRowsAreLogged == Spec => []PaidRowHasItsLog
  BY TopUpInvariant, PTL DEF TopUpInv

\* Nothing is ordered before its money is in the wallet.
THEOREM NothingBeforeMoney == Spec => []PlacedIsFunded
  BY TopUpInvariant, PTL DEF TopUpInv

\* No payment is captured at the gateway that the wallet has not been credited for.
THEOREM NothingClosedUncredited == Spec => []ClosedIsCredited
  BY TopUpInvariant, PTL DEF TopUpInv

\* The wallet never holds more than was put into it.
THEOREM NeverTooMuch == Spec => []NeverMoreThanPutIn
  BY TopUpInvariant, PTL DEF TopUpInv

-----------------------------------------------------------------------------
(* A paid row stays paid.                                                  *)

\* A callback is about an answered payment, and marks a row failed only when the
\* gateway declined; what the gateway answered it does not take back.
WordIsFinal ==
    \A d \in Deliveries :
        /\ pc[d] = "lookup" => gateway[order[d]] \in {"paid", "declined"}
        /\ pc[d] = "decline" => gateway[order[d]] = "declined"

\* A step that leaves the gateway's answers and the callbacks' places alone, or
\* moves one of them to another place.
WordUntouched ==
    /\ \A r \in Requests : gateway[r] \in {"paid", "declined"} => gateway'[r] = gateway[r]
    /\ \A d \in Deliveries : \/ pc'[d] \notin {"lookup", "decline"}
                             \/ pc'[d] = pc[d] /\ order'[d] = order[d]

LEMMA UntouchedKeepsWord == TopUpInv /\ WordIsFinal /\ WordUntouched => WordIsFinal'
  <1> SUFFICES ASSUME TopUpInv, WordIsFinal, WordUntouched,
                      NEW d \in Deliveries, pc'[d] \in {"lookup", "decline"}
               PROVE  /\ pc'[d] = "lookup" => gateway'[order'[d]] \in {"paid", "declined"}
                      /\ pc'[d] = "decline" => gateway'[order'[d]] = "declined"
    BY DEF WordIsFinal
  <1>1. pc'[d] = pc[d] /\ order'[d] = order[d]
    BY DEF WordUntouched
  <1>2. order[d] \in Requests
    BY <1>1 DEF TopUpInv, OrderKnown
  <1> QED
    BY <1>1, <1>2 DEF WordIsFinal, WordUntouched

LEMMA WordKept == TopUpInv /\ WordIsFinal /\ [Next]_vars => WordIsFinal'
  <1> SUFFICES ASSUME TopUpInv, WordIsFinal, [Next]_vars PROVE WordIsFinal'
    OBVIOUS
  <1> USE TopUpAssumption, NoneAssumption DEF TopUpInv, TypeOK
  <1>1. ASSUME NEW r \in Requests, Accept(r) PROVE WordUntouched
    BY <1>1 DEF Accept, WordUntouched
  <1>2. ASSUME NEW r \in Requests, Prepare(r) PROVE WordUntouched
    BY <1>2 DEF Prepare, WordUntouched
  <1>3. ASSUME NEW r \in Requests, Pay(r) PROVE WordUntouched
    <2>1. gateway[r] = "unknown"
      BY <1>3 DEF Pay, GatewayAfterPay, BeforePay
    <2>2. \A q \in Requests : gateway[q] \in {"paid", "declined"} => gateway'[q] = gateway[q]
      BY <1>3, <2>1 DEF Pay
    <2>3. \A d \in Deliveries : pc'[d] = pc[d] /\ order'[d] = order[d]
      BY <1>3 DEF Pay
    <2> QED
      BY <2>2, <2>3 DEF WordUntouched
  <1>4. ASSUME NEW r \in Requests, Answer3D(r) PROVE WordUntouched
    BY <1>4 DEF Answer3D, WordUntouched
  <1>5. ASSUME NEW r \in Requests, Expire(r) PROVE WordUntouched
    BY <1>5 DEF Expire, WordUntouched
  <1>6. ASSUME NEW d \in Deliveries, NEW r \in Requests, Deliver(d, r) PROVE WordIsFinal'
    <2>1. /\ pc'[d] = "lookup" /\ order'[d] = r
          /\ gateway' = gateway /\ gateway[r] \in {"paid", "declined"}
      BY <1>6 DEF Deliver
    <2>2. \A e \in Deliveries \ {d} : pc'[e] = pc[e] /\ order'[e] = order[e]
      BY <1>6 DEF Deliver
    <2> QED
      BY <2>1, <2>2 DEF WordIsFinal
  <1>7. ASSUME NEW d \in Deliveries, Lookup(d) PROVE WordIsFinal'
    <2>1. /\ pc[d] = "lookup" /\ pc'[d] = AfterLookup(d)
          /\ gateway' = gateway /\ order' = order
      BY <1>7 DEF Lookup
    <2>2. \A e \in Deliveries \ {d} : pc'[e] = pc[e]
      BY <1>7 DEF Lookup
    <2>3. pc'[d] # "lookup" /\ (pc'[d] = "decline" => gateway[order[d]] = "declined")
      BY <2>1 DEF AfterLookup, WordIsFinal
    <2> QED
      BY <2>1, <2>2, <2>3 DEF WordIsFinal
  <1>8. ASSUME NEW d \in Deliveries, Settle(d) PROVE WordUntouched
    BY <1>8 DEF Settle, WordUntouched, AfterCredit
  <1>9. ASSUME NEW d \in Deliveries, Decline(d) PROVE WordUntouched
    BY <1>9 DEF Decline, WordUntouched
  <1>10. ASSUME NEW d \in Deliveries, Notice(d) PROVE WordUntouched
    BY <1>10 DEF Notice, WordUntouched
  <1>11. ASSUME NEW a \in Actors, ReadBalance(a) PROVE WordUntouched
    BY <1>11 DEF ReadBalance, WordUntouched
  <1>12. ASSUME NEW a \in Actors, SaveWallet(a) PROVE WordUntouched
    BY <1>12 DEF SaveWallet, WordUntouched
  <1>13. ASSUME NEW a \in Actors, AddTransactionLogs(a) PROVE WordUntouched
    BY <1>13 DEF AddTransactionLogs, WordUntouched, AfterCredit
  <1>14. ASSUME NEW a \in Actors, PlaceOrder(a) PROVE WordUntouched
    BY <1>14 DEF PlaceOrder, WordUntouched, AfterOrder
  <1>15. ASSUME NEW a \in Actors, Close(a) PROVE WordUntouched
    BY <1>15 DEF Close, WordUntouched
  <1>16. ASSUME OtherCharge PROVE WordUntouched
    BY <1>16 DEF OtherCharge, WordUntouched
  <1>17. ASSUME UNCHANGED vars PROVE WordUntouched
    BY <1>17 DEF vars, WordUntouched
  <1>18. ASSUME NEW a \in Actors, Fails(a) PROVE WordUntouched
    BY <1>18 DEF Fails, WordUntouched
  <1> HIDE DEF TopUpInv
  <1> QED
    BY <1>1, <1>2, <1>3, <1>4, <1>5, <1>6, <1>7, <1>8, <1>9, <1>10, <1>11, <1>12, <1>13,
       <1>14, <1>15, <1>16, <1>17, <1>18, UntouchedKeepsWord
    DEF Next, PayStep, NotifyStep, CreditStep

\* A row marked paid is about a payment the gateway took.
LEMMA PaidRowIsPaid ==
    ASSUME TopUpInv, NEW r \in Requests, payment[r].status = "paid"
    PROVE  gateway[r] = "paid"
  <1>1. PICK row \in logs : row.order = r
    BY DEF TopUpInv, PaidRowHasItsLog
  <1> QED
    BY <1>1 DEF TopUpInv, CreditsArePaid

PaidStaysPaidStep ==
    \A r \in Requests : payment[r].status = "paid" => payment'[r].status = "paid"

LEMMA PaidStep == TopUpInv /\ WordIsFinal /\ [Next]_vars => PaidStaysPaidStep
  <1> SUFFICES ASSUME TopUpInv, WordIsFinal, [Next]_vars,
                      NEW r \in Requests, payment[r].status = "paid"
               PROVE  payment'[r].status = "paid"
    BY DEF PaidStaysPaidStep
  <1>1. gateway[r] = "paid"
    BY PaidRowIsPaid
  <1>2. DOMAIN payment = Requests
    BY DEF TopUpInv, TypeOK
  <1>3. ASSUME NEW q \in Requests, Prepare(q) PROVE payment'[r] = payment[r]
    <2>1. gateway[q] = "unknown"
      BY <1>3 DEF TopUpInv, GatewayAfterPay, BeforePay, Prepare
    <2>2. q # r
      BY <1>1, <2>1
    <2>3. CASE UNCHANGED payment
      BY <2>3
    <2>4. CASE payment' = [payment EXCEPT ![q] = [status |-> "created", log |-> None]]
      BY <1>2, <2>2, <2>4
    <2> QED
      BY <1>3, <2>3, <2>4 DEF Prepare
  <1>4. ASSUME NEW d \in Deliveries, Decline(d) PROVE payment'[r] = payment[r]
    <2>1. order[d] # r
      BY <1>1, <1>4 DEF WordIsFinal, Decline
    <2>2. payment' = payment \/ \E row : payment' = [payment EXCEPT ![order[d]] = row]
      BY <1>4 DEF Decline
    <2> QED
      BY <1>2, <2>1, <2>2
  <1>5. ASSUME NEW d \in Deliveries, Settle(d) PROVE payment'[r].status = "paid"
    <2>1. payment' = [payment EXCEPT ![order[d]] = [status |-> "paid", log |-> d]]
      BY <1>5 DEF Settle
    <2>2. CASE r = order[d]
      BY <1>2, <2>1, <2>2
    <2>3. CASE r # order[d]
      BY <1>2, <2>1, <2>3
    <2> QED
      BY <2>2, <2>3
  <1>6. \/ payment' = payment
        \/ \E q \in Requests : Prepare(q)
        \/ \E d \in Deliveries : Decline(d) \/ Settle(d)
    BY DEF Next, PayStep, NotifyStep, CreditStep, vars, Accept, Pay, Answer3D, Expire, Deliver,
           Lookup, Notice, ReadBalance, SaveWallet, AddTransactionLogs, PlaceOrder, Close,
           Fails, OtherCharge
  <1> QED
    BY <1>3, <1>4, <1>5, <1>6

\* A payment settled as paid is never turned into a failed one, whichever other
\* callbacks about it are still under way.
THEOREM PaidIsFinal == Spec => PaidStaysPaid
  <1>1. Init => WordIsFinal
    <2> SUFFICES ASSUME Init PROVE \A d \in Deliveries : pc[d] = "idle"
      BY DEF WordIsFinal
    <2> QED
      BY DEF Init
  <1>2. TopUpInv /\ WordIsFinal /\ [Next]_vars => WordIsFinal'
    BY WordKept
  <1>3. TopUpInv /\ WordIsFinal /\ [Next]_vars => PaidStaysPaidStep
    BY PaidStep
  <1> QED
    BY <1>1, <1>2, <1>3, TopUpInvariant, PTL DEF Spec, PaidStaysPaid, PaidStaysPaidStep

-----------------------------------------------------------------------------
(* The wallet as a ledger.                                                 *)

\* Whoever has looked remembers what it read and what the balance is now; nobody
\* else remembers anything.
Remembers(a) == IF a \in Window THEN origin[a] \in since[a] /\ balance \in since[a]
                                ELSE since[a] = {}
LookInv == /\ since \in [Actors -> SUBSET Nat]
           /\ \A a \in Actors : Remembers(a)

USE DEF Ledger!ledger

\* Only reading originBalance opens a window.
LEMMA OpenedByRead ==
    ASSUME TopUpInv, [Next]_vars, NEW a \in Window', a \notin Window
    PROVE  ReadBalance(a)
  <1> USE DEF TopUpInv, TypeOK, Window
  <1>1. a \in Actors /\ ask' = ask /\ pc'[a] # pc[a]
    BY DEF Next, vars, PayStep, NotifyStep, CreditStep, Accept, Prepare, Pay, Answer3D, Expire,
           Deliver, Lookup, Settle, Decline, Notice, ReadBalance, SaveWallet,
           AddTransactionLogs, PlaceOrder, Close, Fails, OtherCharge
  <1>2. pc'[a] \in {"save", "prepare", "pay"}
    OBVIOUS
  <1>3. ~(a \in Requests /\ PayStep(a))
    <2>1. ASSUME a \in Requests, Accept(a) PROVE FALSE
      BY <1>1, <2>1 DEF Accept
    <2>2. ASSUME a \in Requests, Prepare(a) PROVE FALSE
      BY <1>1, <2>2 DEF Prepare, CoveredByBalance
    <2>3. ASSUME a \in Requests, Pay(a) PROVE FALSE
      BY <1>1, <2>3 DEF Pay
    <2> QED
      BY <2>1, <2>2, <2>3 DEF PayStep
  <1>4. ASSUME NEW r \in Requests, PayStep(r) \/ Answer3D(r) \/ Expire(r) PROVE FALSE
    BY <1>1, <1>3, <1>4 DEF PayStep, Accept, Prepare, CoveredByBalance, Pay, Answer3D, Expire
  <1>5. ASSUME NEW d \in Deliveries, NotifyStep(d) PROVE FALSE
    BY <1>1, <1>2, <1>5 DEF NotifyStep, Lookup, AfterLookup, Settle, Decline, Notice, AfterCredit
  <1>6. ASSUME NEW d \in Deliveries, NEW r \in Requests, Deliver(d, r) PROVE FALSE
    BY <1>1, <1>2, <1>6 DEF Deliver
  <1>7. ASSUME NEW b \in Actors, SaveWallet(b) \/ AddTransactionLogs(b) PROVE FALSE
    BY <1>1, <1>2, <1>7 DEF SaveWallet, AddTransactionLogs, AfterCredit
  <1>8. ASSUME NEW b \in Actors, PlaceOrder(b) \/ Close(b) \/ Fails(b) PROVE FALSE
    BY <1>1, <1>2, <1>8 DEF PlaceOrder, Close, AfterOrder, Fails
  <1>9. ASSUME NEW b \in Actors, ReadBalance(b) PROVE a = b
    BY <1>1, <1>9 DEF ReadBalance
  <1>10. ~OtherCharge /\ ~UNCHANGED vars
    BY <1>1 DEF OtherCharge, vars
  <1> QED
    BY <1>4, <1>5, <1>6, <1>7, <1>8, <1>9, <1>10 DEF Next, CreditStep

LEMMA OriginInWindow ==
    ASSUME TopUpInv, [Next]_vars, NEW a \in Window
    PROVE  origin'[a] = origin[a]
  <1>1. ASSUME NEW b \in Actors, ReadBalance(b) PROVE origin'[a] = origin[a]
    <2>1. a # b
      BY <1>1 DEF ReadBalance, Window
    <2> QED
      BY <1>1, <2>1 DEF ReadBalance, TopUpInv, TypeOK
  <1> QED
    BY <1>1 DEF Next, vars, PayStep, NotifyStep, CreditStep, Accept, Prepare, Pay, Answer3D,
       Expire, Deliver, Lookup, Settle, Decline, Notice, SaveWallet, AddTransactionLogs,
       PlaceOrder, Close, Fails, OtherCharge

LEMMA LookKept == TopUpInv /\ LookInv /\ [Next /\ Remember]_<<vars, since>> => LookInv'
  <1> SUFFICES ASSUME TopUpInv, LookInv, [Next /\ Remember]_<<vars, since>> PROVE LookInv'
    OBVIOUS
  <1>1. CASE Next /\ Remember
    <2>1. balance \in Nat /\ balance' \in Nat
      <3>1. TypeOK'
        BY <1>1, TypeKept
      <3> QED
        BY <3>1 DEF TopUpInv, TypeOK
    <2>2. since' = [a \in Actors |-> IF a \in Window' THEN since[a] \cup {balance'} ELSE {}]
      BY <1>1 DEF Remember
    <2>3. since' \in [Actors -> SUBSET Nat]
      BY <2>1, <2>2 DEF LookInv
    <2>4. ASSUME NEW a \in Actors PROVE Remembers(a)'
      <3>1. CASE a \notin Window'
        BY <2>2, <3>1 DEF Remembers
      <3>2. CASE a \in Window' /\ a \in Window
        <4>1. origin'[a] = origin[a]
          BY <1>1, <3>2, OriginInWindow
        <4> QED
          BY <2>2, <3>2, <4>1 DEF Remembers, LookInv
      <3>3. CASE a \in Window' /\ a \notin Window
        <4>1. ReadBalance(a)
          BY <1>1, <3>3, OpenedByRead
        <4>2. origin'[a] = balance'
          BY <4>1 DEF ReadBalance, TopUpInv, TypeOK
        <4> QED
          BY <2>2, <3>3, <4>2 DEF Remembers
      <3> QED
        BY <3>1, <3>2, <3>3
    <2> QED
      BY <2>3, <2>4 DEF LookInv
  <1>2. CASE UNCHANGED <<vars, since>>
    BY <1>2 DEF LookInv, Remembers, Window, vars
  <1> QED
    BY <1>1, <1>2

\* A step that leaves the balance alone and closes no window is none of the ledger;
\* if it closes one, that top-up is given up.
LEMMA WindowsOnly ==
    ASSUME LookInv, Remember, UNCHANGED <<balance, credited, debited>>,
           NEW a \in Actors, Window' = Window \/ Window' = Window \ {a}
    PROVE  Ledger!GiveUp(a) \/ UNCHANGED Ledger!ledger
  <1>1. since' = [b \in Actors |-> IF b \in Window' THEN since[b] \cup {balance} ELSE {}]
    BY DEF Remember
  <1>2. \A b \in Actors : b \in Window => since[b] \cup {balance} = since[b]
    BY DEF LookInv, Remembers
  <1>3. CASE Window' = Window
    <2>1. since' = since
      BY <1>1, <1>2, <1>3 DEF LookInv, Remembers
    <2> QED
      BY <2>1
  <1>4. CASE Window' = Window \ {a}
    <2>1. since' = [since EXCEPT ![a] = {}]
      BY <1>1, <1>2, <1>4 DEF LookInv, Remembers
    <2> QED
      BY <2>1 DEF Ledger!GiveUp
  <1> QED
    BY <1>3, <1>4

\* What everybody who has looked remembers after a step that opens no window and
\* closes at most that of a.
LEMMA AllSee ==
    ASSUME LookInv, Remember, NEW t, t \in [Actors -> SUBSET Nat],
           \A b \in Actors : b \in Window' => t[b] = since[b] /\ b \in Window,
           \A b \in Actors : b \notin Window' => t[b] = {}
    PROVE  since' = Ledger!Seen(t, balance')
  <1>1. since' = [b \in Actors |-> IF b \in Window' THEN since[b] \cup {balance'} ELSE {}]
    BY DEF Remember
  <1>2. \A b \in Actors : b \in Window' => t[b] # {}
    BY DEF LookInv, Remembers
  <1> QED
    BY <1>1, <1>2 DEF Ledger!Seen

LEMMA CreditStepIsCredit ==
    ASSUME TopUpInv, LookInv, Remember, NEW a \in Actors, SaveWallet(a)
    PROVE  Ledger!Credit(a)
  <1> USE DEF TopUpInv, TypeOK
  <1>1. order[a] \in Requests /\ amount[order[a]] \in Nat \ {0}
    BY DEF SaveWallet, OrderKnown, CreditingIsPaid, Crediting, ChargePositive
  <1>2. origin[a] \in since[a]
    BY DEF SaveWallet, LookInv, Remembers, Window
  <1>3. /\ credited' = credited + amount[order[a]]
        /\ balance' = origin[a] + amount[order[a]]
        /\ debited' = debited
    BY DEF SaveWallet, Saved
  <1>4. Window' = Window \ {a}
    BY DEF SaveWallet, Window
  <1> DEFINE t == [since EXCEPT ![a] = {}]
  <1>5. /\ t \in [Actors -> SUBSET Nat]
        /\ \A b \in Actors : b \in Window' => t[b] = since[b] /\ b \in Window
        /\ \A b \in Actors : b \notin Window' => t[b] = {}
    BY <1>4 DEF LookInv, Remembers
  <1>6. since' = Ledger!Seen(t, balance')
    <2> HIDE DEF t
    <2> QED
      BY <1>5, AllSee
  <1>7. credited' - credited = amount[order[a]] /\ credited' > credited
    BY <1>1, <1>3
  <1> QED
    BY <1>2, <1>3, <1>6, <1>7 DEF Ledger!Credit

LEMMA ChargeIsDebit ==
    ASSUME TopUpInv, LookInv, Remember, Window' = Window,
           NEW n \in Nat \ {0}, n <= balance, balance' = balance - n,
           debited' = debited + n, credited' = credited
    PROVE  Ledger!Debit
  <1>1. since' = Ledger!Seen(since, balance')
    <2>1. /\ since \in [Actors -> SUBSET Nat]
          /\ \A b \in Actors : b \in Window' => since[b] = since[b] /\ b \in Window
          /\ \A b \in Actors : b \notin Window' => since[b] = {}
      BY DEF LookInv, Remembers
    <2> QED
      BY <2>1, AllSee
  <1>2. debited' - debited = n /\ debited' > debited
    BY DEF TopUpInv, TypeOK
  <1> QED
    BY <1>1, <1>2 DEF Ledger!Debit

LEMMA LedgerStep ==
    TopUpInv /\ LookInv /\ [Next /\ Remember]_<<vars, since>>
        => [Ledger!LedgerNext]_(Ledger!ledger)
  <1> SUFFICES ASSUME TopUpInv, LookInv, [Next /\ Remember]_<<vars, since>>
               PROVE  [Ledger!LedgerNext]_(Ledger!ledger)
    OBVIOUS
  <1>1. CASE UNCHANGED <<vars, since>>
    BY <1>1 DEF vars
  <1> SUFFICES ASSUME Next, Remember PROVE [Ledger!LedgerNext]_(Ledger!ledger)
    BY <1>1
  <1> DEFINE Money == <<balance, credited, debited>>
             Closes(a) == Window' = Window \/ Window' = Window \ {a}
  <1>2. ASSUME NEW a \in Actors, UNCHANGED Money, Closes(a)
        PROVE  [Ledger!LedgerNext]_(Ledger!ledger)
    BY <1>2, WindowsOnly DEF Ledger!LedgerNext
  <1> USE DEF TopUpInv, TypeOK, Window
  <1>3. ASSUME NEW r \in Requests, PayStep(r) \/ Answer3D(r) \/ Expire(r)
        PROVE  UNCHANGED Money /\ Closes(r)
    BY <1>3 DEF PayStep, Accept, Prepare, Pay, Answer3D, Expire
  <1>4. ASSUME NEW d \in Deliveries, NotifyStep(d) \/ \E r \in Requests : Deliver(d, r)
        PROVE  UNCHANGED Money /\ Closes(d)
    BY <1>4, TopUpAssumption DEF NotifyStep, Lookup, AfterLookup, Settle, Decline, Notice, AfterCredit,
       Deliver
  <1>5. ASSUME NEW a \in Actors, AddTransactionLogs(a) \/ Close(a) \/ Fails(a)
        PROVE  UNCHANGED Money /\ Closes(a)
    BY <1>5 DEF AddTransactionLogs, AfterCredit, Close, Fails
  <1>6. ASSUME NEW a \in Actors, ReadBalance(a) PROVE Ledger!Look(a)
    <2>1. a \notin Window /\ Window' = Window \cup {a} /\ UNCHANGED Money
      BY <1>6 DEF ReadBalance
    <2>2. since' = [b \in Actors |-> IF b \in Window' THEN since[b] \cup {balance} ELSE {}]
      BY <2>1 DEF Remember
    <2>3. since' = [since EXCEPT ![a] = {balance}]
      <3> HIDE DEF Window
      <3>1. since[a] = {} /\ \A b \in Actors : b \in Window => since[b] \cup {balance} = since[b]
        BY <2>1 DEF LookInv, Remembers
      <3> QED
        BY <2>1, <2>2, <3>1 DEF LookInv, Remembers
    <2> QED
      BY <2>1, <2>3 DEF Ledger!Look
  <1>7. ASSUME NEW a \in Actors, SaveWallet(a) PROVE Ledger!Credit(a)
    BY <1>7, CreditStepIsCredit
  <1>8. ASSUME NEW a \in Actors, PlaceOrder(a)
        PROVE  Ledger!Debit \/ (UNCHANGED Money /\ Closes(a))
    <2>1. Window' = Window
      BY <1>8 DEF PlaceOrder, AfterOrder
    <2>2. ask[order[a]].price \in Nat \ {0}
      BY <1>8, AskFields DEF PlaceOrder, OrderKnown
    <2>3. CASE balance' = balance /\ debited' = debited
      BY <1>8, <2>1, <2>3 DEF PlaceOrder
    <2>4. CASE /\ ask[order[a]].price <= balance
               /\ balance' = balance - ask[order[a]].price
               /\ debited' = debited + ask[order[a]].price
      <3>1. credited' = credited
        BY <1>8 DEF PlaceOrder
      <3> HIDE DEF TopUpInv, Window
      <3> QED
        BY <2>1, <2>2, <2>4, <3>1, ChargeIsDebit
    <2> QED
      BY <1>8, <2>3, <2>4 DEF PlaceOrder
  <1>9. ASSUME OtherCharge PROVE Ledger!Debit
    <2>1. Window' = Window /\ credited' = credited
      BY <1>9 DEF OtherCharge
    <2>2. PICK n \in Prices : /\ n <= balance
                              /\ balance' = balance - n
                              /\ debited' = debited + n
      BY <1>9 DEF OtherCharge
    <2>3. n \in Nat \ {0}
      BY TopUpAssumption
    <2> HIDE DEF TopUpInv, Window
    <2> QED
      BY <2>1, <2>2, <2>3, ChargeIsDebit
  <1> HIDE DEF Money, Closes, TopUpInv, Window
  <1> QED
    BY <1>2, <1>3, <1>4, <1>5, <1>6, <1>7, <1>8, <1>9 DEF Next, CreditStep, Ledger!LedgerNext

\* For any number of requests and callbacks, however their windows overlap, the code
\* implements the ledger: a top-up leaves a balance the wallet had since it was read,
\* plus the amount of the payment.
THEOREM WalletIsLedger == WindowSpec => ImplementsLedger
  <1>1. Init /\ since = [a \in Actors |-> {}]
            => TopUpInv /\ LookInv /\ Ledger!LedgerInit
    <2>1. Init => Window = {}
      BY DEF Init, Window
    <2> QED
      BY <2>1, InitHolds DEF Init, LookInv, Remembers, Ledger!LedgerInit
  <1>2. TopUpInv /\ [Next /\ Remember]_<<vars, since>> => TopUpInv'
    <2>1. [Next /\ Remember]_<<vars, since>> => [Next]_vars
      BY DEF vars
    <2> QED
      BY <2>1, TypeKept, OrderKept, GatewayKept, ChargeKept, CreditingKept, LoggedKept,
         UsedKept, OriginsKept, CreditsKept, PaidRowKept, PlacedKept, ClosedKept,
         BoundKept DEF TopUpInv
  <1> QED
    BY <1>1, <1>2, LookKept, LedgerStep, PTL
       DEF WindowSpec, ImplementsLedger, Ledger!LedgerSpec
=============================================================================
