-------------------------------- MODULE TopUp --------------------------------
(***************************************************************************)
(* Credit-card top-up of one member's wallet: the six paying methods of    *)
(* src/src/credit-card/credit-card.service.ts and the gateway's callback   *)
(* `notify`.  Each method is a process whose steps are the awaits between  *)
(* which other requests of the same member run; the wallet is read in one  *)
(* await and overwritten in a later one.                                   *)
(*                                                                         *)
(* External, modelled from how the service uses them: the Newebpay gateway *)
(* (asks for the 3D page exactly when P3D is 1, calls `notify` zero, one   *)
(* or several times for a 3D payment), the PHP API (creates the order and  *)
(* charges the wallet), Redis key expiry.                                  *)
(*                                                                         *)
(* A request stands for its MerchantOrderNo, which checkP3D makes unique.  *)
(* Saving the card (isSave), platform logs and texts are left out.         *)
(*                                                                         *)
(* Any await of a handler may throw (Fails): `notify` swallows it, the     *)
(* paying methods answer with an error, and nothing is undone or retried.  *)
(* A statement that took effect and then threw is its action, then Fails;  *)
(* the end of the process is Fails of every handler it was running.        *)
(***************************************************************************)
EXTENDS Integers, FiniteSets

CONSTANTS Requests,           \* pay requests of the member
          Deliveries,         \* HTTP calls of `notify` the gateway may make
          Flows,              \* the paying methods the member may use
          Prices,             \* amounts to pay: shouldPay or data.amount
          InitialBalance,     \* wallet balance before the first request
          Validations3D,      \* host.creditCard3DValidationEnabled == 1 may be these
          MaxCharges          \* bound: other charges of the wallet

OrderFlows  == {"advanceCreateCreditCardPay", "advanceCreateCreditCardByCreditCardID"}
DemandFlows == {"demandsCreateCreditCardPay", "demandsCreateCreditCardByCreditCardID"}
TopUpFlows  == {"creditCardAndCreate", "payCreditCardByCreditCardID"}
BookingFlows == OrderFlows \cup DemandFlows
AllFlows     == BookingFlows \cup TopUpFlows

ASSUME TopUpAssumption ==
    /\ Flows \subseteq AllFlows
    /\ Prices \subseteq Nat \ {0}
    /\ InitialBalance \in Nat
    /\ MaxCharges \in Nat
    /\ Validations3D \subseteq BOOLEAN
    /\ Requests \cap Deliveries = {}

Actors == Requests \cup Deliveries

\* No order: the delivery has not been made.
None == "none"
ASSUME NoneAssumption == None \notin Requests

\* is_fullAmount only matters to the booking flows.  The setting is the same for
\* every request of a process.
Asks == {q \in [flow : Flows, full : BOOLEAN, price : Prices,
                validation3D : Validations3D] :
            q.flow \in TopUpFlows => q.full}

VARIABLES
    ask,        \* [Requests -> Asks], what each request asks for
    pc,         \* [Actors -> step], where each handler stands
    order,      \* [Actors -> Requests], the MerchantOrderNo it works on
    origin,     \* [Actors -> Nat], originBalance, as last read
    amount,     \* [Requests -> Int], payments.amount, what is charged
    balance,    \* users.wallet.balance
    pending,    \* Redis keys set by checkP3D and not yet expired
    payment,    \* payments rows: status and transaction_log_id
    logs,       \* TOP_UP rows of transaction_logs
    gateway,    \* [Requests -> state of the payment at Newebpay]
    placed,     \* handlers whose order or demand the PHP API created
    closed,     \* captures requested (runPayclose): by whom, for which order
    notices,    \* [to, mark] notifications added for the member
    charges,    \* other charges made so far
    credited,   \* history: total added to the wallet by top-ups
    debited     \* history: total taken from the wallet by charges

handler == <<ask, order>>
vars == <<ask, pc, order, origin, amount, balance, pending, payment, logs,
          gateway, placed, closed, notices, charges, credited, debited>>

NoPayment == [status |-> "absent", log |-> None]

Init ==
    /\ ask \in [Requests -> Asks]
    /\ \A r, s \in Requests : ask[r].validation3D = ask[s].validation3D
    /\ pc = [a \in Actors |-> "idle"]
    /\ order = [a \in Actors |-> IF a \in Requests THEN a ELSE None]
    /\ origin = [a \in Actors |-> 0]
    /\ amount = [r \in Requests |-> 0]
    /\ balance = InitialBalance
    /\ pending = {}
    /\ payment = [r \in Requests |-> NoPayment]
    /\ logs = {}
    /\ gateway = [r \in Requests |-> "unknown"]
    /\ placed = {} /\ closed = {} /\ notices = {}
    /\ charges = 0 /\ credited = 0 /\ debited = 0

Goto(a, step) == pc' = [pc EXCEPT ![a] = step]

\* Where a handler goes once the wallet is credited and logged.
AfterCredit(r) == IF ask[r].flow \in BookingFlows THEN "order" ELSE "close"

\* Variant of AfterOrder: an order the balance paid for is captured as well.
AfterOrderCapture(a) ==
    IF ask[order[a]].flow \in OrderFlows THEN "close"
    ELSE IF a \in Deliveries THEN "notice" ELSE "done"

\* Where it goes after order() or demand(): only an order that a charge paid
\* for is captured here, and only `notify` tells the member.
AfterOrder(a) ==
    IF ask[order[a]].flow \in OrderFlows /\ amount[order[a]] > 0 THEN "close"
    ELSE IF a \in Deliveries THEN "notice" ELSE "done"

-----------------------------------------------------------------------------
(* The paying methods, up to the gateway's answer.                         *)

\* The request arrives.  A booking first asks the PHP API for the price, a
\* payment with a stored card looks the card up.
Accept(r) ==
    /\ pc[r] = "idle"
    /\ Goto(r, IF ask[r].flow \in BookingFlows THEN "read" ELSE "prepare")
    /\ UNCHANGED <<handler, origin, amount, balance, pending, payment, logs,
                   gateway, placed, closed, notices, charges, credited, debited>>

\* originBalance: a booking reads it before it charges the card, the other
\* methods and `notify` once the card is charged.
ReadBalance(a) ==
    /\ pc[a] = "read"
    /\ origin' = [origin EXCEPT ![a] = balance]
    /\ Goto(a, IF a \in Requests /\ ask[a].flow \in BookingFlows
               THEN "prepare" ELSE "save")
    /\ UNCHANGED <<handler, amount, balance, pending, payment, logs, gateway,
                   placed, closed, notices, charges, credited, debited>>

ChargeOf(r) == IF ask[r].full THEN ask[r].price ELSE ask[r].price - origin[r]

\* What is left to pay, shouldPay - balance, is nothing: the card is not needed.
\* Variants: any balance at all is taken for enough; the case is not singled out.
CoveredByAny(r) == ~ask[r].full /\ ChargeOf(r) < ask[r].price
CoveredNever(r) == FALSE
CoveredByBalance(r) == ~ask[r].full /\ ChargeOf(r) <= 0

\* checkP3D keeps the request in Redis, then the payments row is created, which
\* may throw.  A booking the balance covers goes on without the card.
Prepare(r) ==
    /\ pc[r] = "prepare"
    /\ amount' = [amount EXCEPT ![r] = ChargeOf(r)]
    /\ pending' = pending \cup {r}
    /\ \/ /\ payment' = [payment EXCEPT ![r] = [status |-> "created", log |-> None]]
          /\ Goto(r, IF CoveredByBalance(r) THEN "order" ELSE "pay")
       \/ UNCHANGED payment /\ Goto(r, "failed")
    /\ UNCHANGED <<handler, origin, balance, logs, gateway, placed, closed,
                   notices, charges, credited, debited>>

\* P3D as checkP3D sets it from the configuration.
P3D(r) == IF ask[r].validation3D THEN 0 ELSE 1

\* runPay: the card is charged at once, or the 3D page is handed to the member,
\* or the gateway refuses; the answer may also get lost after the gateway acted.
Pay(r) ==
    /\ pc[r] = "pay"
    /\ \/ /\ P3D(r) = 1
          /\ gateway' = [gateway EXCEPT ![r] = "html"]
          /\ Goto(r, "done") \/ Goto(r, "failed")
       \/ /\ P3D(r) = 0
          /\ gateway' = [gateway EXCEPT ![r] = "paid"]
          /\ \/ Goto(r, IF ask[r].flow \in BookingFlows THEN "save" ELSE "read")
             \/ Goto(r, "failed")
       \/ /\ gateway' = [gateway EXCEPT ![r] = "refused"]
          /\ Goto(r, "failed")
    /\ UNCHANGED <<handler, origin, amount, balance, pending, payment, logs,
                   placed, closed, notices, charges, credited, debited>>

-----------------------------------------------------------------------------
(* The gateway's 3D page and its callback.                                 *)

\* The member answers the 3D page.
Answer3D(r) ==
    /\ gateway[r] = "html"
    /\ \E outcome \in {"paid", "declined"} :
          gateway' = [gateway EXCEPT ![r] = outcome]
    /\ UNCHANGED <<handler, pc, origin, amount, balance, pending, payment, logs,
                   placed, closed, notices, charges, credited, debited>>

\* The gateway calls `notify` about an answered 3D payment, once more or never.
Deliver(d, r) ==
    /\ P3D(r) = 1
    /\ pc[d] = "idle"
    /\ gateway[r] \in {"paid", "declined"}
    /\ order' = [order EXCEPT ![d] = r]
    /\ Goto(d, "lookup")
    /\ UNCHANGED <<ask, origin, amount, balance, pending, payment, logs, gateway,
                   placed, closed, notices, charges, credited, debited>>

\* `notify` needs the request back from Redis; without it the call ends with
\* the exception swallowed.  Variants: the gateway's Status is not looked at; a
\* request gone from Redis is declined.
AfterLookupPaid(d) == IF order[d] \notin pending THEN "failed" ELSE "read"
AfterLookupGone(d) ==
    IF order[d] \in pending /\ gateway[order[d]] = "paid" THEN "read" ELSE "decline"
AfterLookup(d) ==
    IF order[d] \notin pending THEN "failed"
    ELSE IF gateway[order[d]] = "paid" THEN "read" ELSE "decline"

Lookup(d) ==
    /\ pc[d] = "lookup"
    /\ Goto(d, AfterLookup(d))
    /\ UNCHANGED <<handler, origin, amount, balance, pending, payment, logs, gateway,
                   placed, closed, notices, charges, credited, debited>>

\* setex 3600: the key goes away by itself.
Expire(r) ==
    /\ r \in pending
    /\ pending' = pending \ {r}
    /\ UNCHANGED <<handler, pc, origin, amount, balance, payment, logs, gateway,
                   placed, closed, notices, charges, credited, debited>>

\* FAIL: the member is told, then the row is marked; a failing platform log or
\* UPDATE leaves the row as it was.
Decline(d) ==
    /\ pc[d] = "decline"
    /\ notices' = notices \cup {[to |-> d, mark |-> "p_25"]}
    /\ \/ /\ payment' = [payment EXCEPT ![order[d]] =
                            [status |-> "failed", log |-> payment[order[d]].log]]
          /\ Goto(d, "done")
       \/ UNCHANGED payment /\ Goto(d, "failed")
    /\ UNCHANGED <<handler, origin, amount, balance, pending, logs, gateway,
                   placed, closed, charges, credited, debited>>

-----------------------------------------------------------------------------
(* Crediting the wallet, shared by the paying methods and `notify`.        *)

\* The balance to save.  Variant: the price instead of what the card was charged.
SavedPrice(a) == origin[a] + ask[order[a]].price
Saved(a) == origin[a] + amount[order[a]]

\* Variants of SaveWallet: a callback forgets its transaction log; a wallet that
\* changed since it was read is not saved.
SaveWalletUnlogged(a) ==
    /\ pc[a] = "save"
    /\ balance' = Saved(a)
    /\ credited' = credited + amount[order[a]]
    /\ Goto(a, IF a \in Deliveries THEN "settle" ELSE "log")
    /\ UNCHANGED <<handler, origin, amount, pending, payment, logs, gateway,
                   placed, closed, notices, charges, debited>>
SaveWalletIfFresh(a) ==
    /\ pc[a] = "save" /\ origin[a] = balance
    /\ balance' = Saved(a)
    /\ credited' = credited + amount[order[a]]
    /\ Goto(a, "log")
    /\ UNCHANGED <<handler, origin, amount, pending, payment, logs, gateway,
                   placed, closed, notices, charges, debited>>

\* userModel.save(): the balance becomes what was read plus the amount.
SaveWallet(a) ==
    /\ pc[a] = "save"
    /\ balance' = Saved(a)
    /\ credited' = credited + amount[order[a]]
    /\ Goto(a, "log")
    /\ UNCHANGED <<handler, origin, amount, pending, payment, logs, gateway,
                   placed, closed, notices, charges, debited>>

\* advanceCreateCreditCardPay logs shouldPay + originBalance, the other methods
\* the balance they saved.
LoggedBalance(a) ==
    IF a \in Requests /\ ask[a].flow = "advanceCreateCreditCardPay"
    THEN ask[a].price + origin[a]
    ELSE amount[order[a]] + origin[a]

AddTransactionLogs(a) ==
    /\ pc[a] = "log"
    /\ logs' = logs \cup {[by |-> a, order |-> order[a],
                           amount |-> amount[order[a]], balance |-> LoggedBalance(a)]}
    /\ Goto(a, IF a \in Deliveries THEN "settle" ELSE AfterCredit(a))
    /\ UNCHANGED <<handler, origin, amount, balance, pending, payment, gateway,
                   placed, closed, notices, charges, credited, debited>>

\* `notify` marks the payments row paid.
Settle(d) ==
    /\ pc[d] = "settle"
    /\ payment' = [payment EXCEPT ![order[d]] = [status |-> "paid", log |-> d]]
    /\ Goto(d, AfterCredit(order[d]))
    /\ UNCHANGED <<handler, origin, amount, balance, pending, logs, gateway,
                   placed, closed, notices, charges, credited, debited>>

-----------------------------------------------------------------------------
(* What the payment was for.                                               *)

\* order() or demand(): the PHP API creates the booking and charges its price;
\* when the wallet is short it answers with an error, which ends the handler.
PlaceOrder(a) ==
    LET price == ask[order[a]].price IN
    /\ pc[a] = "order"
    /\ \/ /\ price <= balance
          /\ balance' = balance - price
          /\ debited' = debited + price
          /\ placed' = placed \cup {a}
          /\ Goto(a, AfterOrder(a))
       \/ /\ price > balance
          /\ Goto(a, "failed")
          /\ UNCHANGED <<balance, debited, placed>>
    /\ UNCHANGED <<handler, origin, amount, pending, payment, logs, gateway,
                   closed, notices, charges, credited>>

\* The MerchantOrderNo a capture names: the paying methods have theirs, the
\* gateway's callback has it (and the amount) in Result only, where runPayclose's
\* payload does not look, so that `notify` makes up a number no payment has.
Captures(a) == IF a \in Deliveries THEN None ELSE order[a]

\* runPayclose: the capture request to the gateway.
Close(a) ==
    /\ pc[a] = "close"
    /\ closed' = closed \cup {[by |-> a, order |-> Captures(a)]}
    /\ Goto(a, IF a \in Deliveries THEN "notice" ELSE "done")
    /\ UNCHANGED <<handler, origin, amount, balance, pending, payment, logs, gateway,
                   placed, notices, charges, credited, debited>>

\* The last step of `notify`: notification p_26.
Notice(d) ==
    /\ pc[d] = "notice"
    /\ notices' = notices \cup {[to |-> d, mark |-> "p_26"]}
    /\ Goto(d, "done")
    /\ UNCHANGED <<handler, origin, amount, balance, pending, payment, logs, gateway,
                   placed, closed, charges, credited, debited>>

\* The await a handler is in throws, or the process ends.
Fails(a) ==
    /\ pc[a] \notin {"idle", "done", "failed"}
    /\ Goto(a, "failed")
    /\ UNCHANGED <<handler, origin, amount, balance, pending, payment, logs, gateway,
                   placed, closed, notices, charges, credited, debited>>

\* Another charge of the same wallet through the PHP API.
OtherCharge ==
    /\ charges < MaxCharges
    /\ \E n \in Prices :
          /\ n <= balance
          /\ balance' = balance - n
          /\ debited' = debited + n
    /\ charges' = charges + 1
    /\ UNCHANGED <<handler, pc, origin, amount, pending, payment, logs, gateway,
                   placed, closed, notices, credited>>

-----------------------------------------------------------------------------
PayStep(r)    == Accept(r) \/ Prepare(r) \/ Pay(r)
NotifyStep(d) == Lookup(d) \/ Settle(d) \/ Decline(d) \/ Notice(d)
CreditStep(a) == \/ ReadBalance(a) \/ SaveWallet(a) \/ AddTransactionLogs(a)
                 \/ PlaceOrder(a) \/ Close(a)

Next ==
    \/ \E r \in Requests : PayStep(r) \/ Answer3D(r) \/ Expire(r)
    \/ \E d \in Deliveries : NotifyStep(d) \/ \E r \in Requests : Deliver(d, r)
    \/ \E a \in Actors : CreditStep(a) \/ Fails(a)
    \/ OtherCharge

Spec == Init /\ [][Next]_vars

\* A handler that was started keeps running until it ends or an await throws: the
\* event loop serves every await.  Nothing says that an await must throw.
Fairness == /\ \A r \in Requests : WF_vars(PayStep(r) /\ pc[r] # "idle")
            /\ \A d \in Deliveries : WF_vars(NotifyStep(d))
            /\ \A a \in Actors : WF_vars(CreditStep(a))

-----------------------------------------------------------------------------
(* Properties.                                                             *)

Steps == {"idle", "read", "prepare", "pay", "save", "log", "settle", "order",
          "close", "notice", "lookup", "decline", "done", "failed"}

\* The types of the variables; a wallet is never overdrawn.
TypeOK ==
    /\ ask \in [Requests -> Asks]
    /\ pc \in [Actors -> Steps]
    /\ order \in [Actors -> Requests \cup {None}]
    /\ origin \in [Actors -> Nat]
    /\ amount \in [Requests -> Int]
    /\ balance \in Nat
    /\ pending \subseteq Requests
    /\ payment \in [Requests -> [status : {"absent", "created", "paid", "failed"},
                                 log : Deliveries \cup {None}]]
    /\ logs \subseteq [by : Actors, order : Requests, amount : Nat, balance : Nat]
    /\ gateway \in [Requests -> {"unknown", "html", "paid", "refused", "declined"}]
    /\ placed \subseteq Actors
    /\ closed \subseteq [by : Actors, order : Requests \cup {None}]
    /\ notices \subseteq [to : Deliveries, mark : {"p_25", "p_26"}]
    /\ charges \in Nat /\ credited \in Nat /\ debited \in Nat

\* Money appears in the wallet only for a payment the gateway really took, and
\* for the amount of its payments row: neither a 3D page still open, nor a
\* declined one, nor another request's answer is ever credited.
CreditsArePaid ==
    \A row \in logs : /\ gateway[row.order] = "paid"
                      /\ row.amount = amount[row.order]
                      /\ row.amount > 0

\* A payments row marked paid (status 1) points at the TOP_UP row of the same
\* order and amount, whatever number of callbacks ran at the same time.
PaidRowHasItsLog ==
    \A r \in Requests : payment[r].status = "paid" =>
        \E row \in logs : /\ row.by = payment[r].log
                          /\ row.order = r
                          /\ row.amount = amount[r]

\* An order or a demand reaches the PHP API only when its own payment is in the
\* wallet and logged, or the wallet already covered the price when it was read.
PlacedIsFunded ==
    \A a \in placed : \/ \E row \in logs : row.by = a
                      \/ ~ask[order[a]].full /\ ask[order[a]].price <= origin[a]

\* A capture is only requested by a handler that has logged its top-up, and if it
\* names a payment, then the one that was logged.
ClosedIsCredited ==
    \A c \in closed : \E row \in logs : row.by = c.by /\ c.order \in {row.order, None}

\* Reads and writes of the wallet lie awaits apart, so concurrent top-ups may be
\* lost and charges may be undone; what no interleaving can do is to leave the
\* member with more than the initial balance and every top-up together.
NeverMoreThanPutIn == balance <= InitialBalance + credited

\* A payment settled as paid is never turned into a failed one, however late a
\* callback about it arrives.
PaidStaysPaid ==
    [][\A r \in Requests : payment[r].status = "paid" => payment'[r].status = "paid"]_vars

\* Nothing credits a payment whose handler was lost, for nothing is retried.  What
\* the code does ensure: a handler that holds the gateway's word gets all the way
\* - the wallet saved, a TOP_UP row written, for a callback the payments row marked
\* paid - unless one of its own awaits throws.  Keys that expire, other charges,
\* stale balances and other handlers that fail half-way do not stop it.
PaidIsCredited ==
    \A a \in Actors :
        pc[a] \in {"read", "save"} /\ order[a] \in Requests /\ gateway[order[a]] = "paid"
            ~> \/ pc[a] = "failed"
               \/ /\ \E row \in logs : row.by = a /\ row.order = order[a]
                  /\ a \in Deliveries => payment[order[a]].status = "paid"

\* "Check payments" before crediting (the code only prints the row's status):
\* one payment is credited once.
CreditedOnce == \A x, y \in logs : x.order = y.order => x = y
=============================================================================
