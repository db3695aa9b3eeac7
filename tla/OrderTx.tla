------------------------------- MODULE OrderTx -------------------------------
(***************************************************************************)
(* Creation of orders: order.service.ts inside the database transaction    *)
(* that database-transaction.interceptor.ts opens.  A request is the list  *)
(* of awaits it still has to do; each action takes the first one off.      *)
(*                                                                         *)
(* The interceptor's commit is commented out, so no action commits.  A     *)
(* transaction that is not rolled back keeps its connection and its row    *)
(* locks until the process ends, and what waits for them gives up after a  *)
(* timeout of the database.                                                *)
(*                                                                         *)
(* Left out: the columns of an order nothing here reads, the platform log  *)
(* (a row like another), the messages that afterCommit would send, and     *)
(* which look-up refused a request.  Bookable times are BookingTimes.tla.  *)
(***************************************************************************)
EXTENDS Integers, Sequences, FiniteSets, SequencesExt

CONSTANTS Requests,     \* calls of createOrder
          Members,      \* users who order
          Bank,         \* the company's user, id 1
          OrderIds,     \* ids createOrderId may draw
          Nobody,       \* holder of a row nobody has locked
          Asked,        \* [Requests -> Ask]: what the requests may ask for
          Wallets,      \* [balance, voucher]: wallets members may start with
          Shelves,      \* [Members -> sequence of Effective]: vouchers, by expiry
          FeePercent,   \* panelFeeCommisionRate
          MaxDiscount,  \* voucherMaxDiscount
          Pools,        \* sizes the connection pool may have
          TopUpAmount,  \* what another request adds to a wallet
          Places,       \* places of the vouchers of a member
          MaxTopUps, MaxRestarts   \* bounds

\* Whose order it is, price times duration plus tip, and vouchers or not.
OrderDto == [who : Members, total : Nat, pay : BOOLEAN]

\* findUnExpiredAndEffective returns vouchers with something left on them.
Effective == {c \in [amount : Nat, used : Nat] : c.used < c.amount}

ASSUME OrderAssumption ==
    /\ Bank \notin Members
    /\ Nobody \notin Requests
    /\ Asked \subseteq [Requests -> OrderDto]
    /\ Wallets \subseteq [balance : Int, voucher : Int]
    /\ Shelves \subseteq [Members -> Seq(Effective)]
    /\ Pools \subseteq Nat /\ TopUpAmount \in Int
    /\ MaxTopUps \in Nat /\ MaxRestarts \in Nat

VARIABLES
    ask,      \* [Requests -> what it asks for]
    todo,     \* [Requests -> awaits still to do]
    tx,       \* [Requests -> state of the transaction]
    answer,   \* [Requests -> what the client got]
    lock,     \* [rows -> request whose transaction has locked it]
    wallet,   \* committed wallets, the bank's among them
    shelf,    \* [Members -> what findUnExpiredAndEffective returns, by expiry]
    reg,      \* [Requests -> what it has read]
    own,      \* [Requests -> what its transaction has written]
    pool,     \* connections the process may have open
    topUps, restarts   \* counters of the bounds

vars == <<ask, todo, tx, answer, lock, wallet, shelf, reg, own, pool,
          topUps, restarts>>
fixed == <<ask, shelf, pool>>

\* Rows that may be locked: wallets, order ids, vouchers by their place.
Rows == Members \cup {Bank} \cup OrderIds \cup (Members \X Places)

\* The awaits of createOrder, those of useDiscount for every voucher, and those
\* whose repository rolls back by itself when they fail.
Program(q) == <<"begin", "user", "provider", "order", "platform", "wallet", "look",
                "readBank", "bank", "look", "memberLog", "bankLog">>
              \o (IF q.pay THEN <<"vouchers", "ok">> ELSE <<"ok">>)
PerVoucher == <<"card", "cardLook", "cardLog">>
RollingAwaits == {"order", "platform", "memberLog", "bankLog",
                  "card", "cardLook", "cardLog"}

\* Awaits that need a connection besides the transaction's.
OutsideAwaits == {"begin", "user", "provider", "look", "readBank", "vouchers", "cardLook"}

NoWallet  == [balance |-> 0, voucher |-> 0]
Nothing   == [mine |-> NoWallet, bank |-> 0, cards |-> <<>>, id |-> Nobody]
Unwritten == [member |-> NoWallet, bank |-> 0, used |-> <<>>, logs |-> <<>>]

Init ==
    /\ ask \in Asked
    /\ todo = [o \in Requests |-> Program(ask[o])]
    /\ tx = [o \in Requests |-> "none"]
    /\ answer = [o \in Requests |-> "none"]
    /\ lock = [r \in Rows |-> Nobody]
    /\ wallet \in [Members \cup {Bank} -> Wallets]
    /\ shelf \in Shelves
    /\ pool \in Pools
    /\ reg = [o \in Requests |-> Nothing]
    /\ own = [o \in Requests |-> Unwritten]
    /\ topUps = 0
    /\ restarts = 0

-----------------------------------------------------------------------------
(* Prices.                                                                 *)

Least(a, b) == IF a < b THEN a ELSE b

\* discountCount: 100 for each full 1000, at most the wallet's vouchers and the
\* maximum.
Discount(q, vouchers) ==
    IF q.pay /\ q.total >= 1000
    THEN Least(Least((q.total \div 1000) * 100, vouchers), MaxDiscount) ELSE 0

\* feeCount rounds up.
Fee(q) == -((-(q.total * FeePercent)) \div 100)

AmountsPayable(q, vouchers) == q.total + Fee(q) - Discount(q, vouchers)
Payable(o) == AmountsPayable(ask[o], reg[o].mine.voucher)

\* Whether the balance checks let the order through.
Affordable(q, mine) == mine.balance >= AmountsPayable(q, mine.voucher) /\ mine.balance > 0

\* Variant: what is left to take is not cut at the amount of the voucher.
UsedUpUncut(card, point) == card.used + point
UsedUp(card, point) == Least(card.amount, card.used + point)

\* useDiscount, one voucher: `point` is left to take before it, and after it.
\* When the voucher covers it all, the code goes on with what is left on the
\* voucher; when it does not, it adds to `used` what is left to take.
TakeFrom(taken, card) ==
    LET point == taken.point
        left  == card.amount - card.used
    IN  CASE left >= point /\ point > 0 ->
               [point |-> left - point,
                cards |-> Append(taken.cards, [amount |-> card.amount,
                             used |-> card.used + point, log |-> point])]
          [] left < point /\ point > 0 ->
               [point |-> point - left,
                cards |-> Append(taken.cards, [amount |-> card.amount,
                             used |-> UsedUp(card, point - left), log |-> left])]
          [] OTHER ->
               [point |-> point,
                cards |-> Append(taken.cards, [amount |-> card.amount,
                             used |-> card.used, log |-> 0])]

\* Points createOrder asks for, whatever the discount was.
UsePoint == 2000
Taken(cards) ==
    LET taken[i \in 0..Len(cards)] ==
            IF i = 0 THEN [point |-> UsePoint, cards |-> <<>>]
                     ELSE TakeFrom(taken[i - 1], cards[i])
    IN  taken[Len(cards)].cards

SumLeft(cards) == FoldLeft(LAMBDA s, c : s + (c.amount - c.used), 0, cards)
-----------------------------------------------------------------------------
(* Steps.                                                                  *)

At(o, await) == todo[o] # <<>> /\ Head(todo[o]) = await
Goes(o) == todo' = [todo EXCEPT ![o] = Tail(todo[o])]

\* Transactions hold their connection until they have been rolled back.
Busy == {o \in Requests : tx[o] \in {"open", "rolling"}}
Connection == Cardinality(Busy) < pool

\* Variant: the statement is sent without its transaction.
AcquireNothing(o, r) == /\ lock[r] \in {Nobody, o}
                        /\ UNCHANGED lock
\* The row lock of an UPDATE or an INSERT stays with the transaction.
Acquire(o, r) == /\ lock[r] \in {Nobody, o}
                 /\ lock' = [lock EXCEPT ![r] = o]
\* Variant: a rollback leaves its rows locked.
ReleaseNothing(o) == lock' = lock
Release(o) == lock' = [r \in Rows |-> IF lock[r] = o THEN Nobody ELSE lock[r]]

Reads(o, what) == /\ Connection
                  /\ reg' = [reg EXCEPT ![o] = what]
                  /\ UNCHANGED <<fixed, tx, answer, lock, wallet, own, topUps, restarts>>
Writes(o, what) == /\ own' = [own EXCEPT ![o] = what]
                   /\ UNCHANGED <<fixed, tx, answer, wallet, reg, topUps, restarts>>

\* TransactionInterceptor: `await sequelizeInstance.transaction()`.
Begin(o) ==
    /\ At(o, "begin") /\ Connection
    /\ tx' = [tx EXCEPT ![o] = "open"]
    /\ Goes(o)
    /\ UNCHANGED <<fixed, answer, lock, wallet, reg, own, topUps, restarts>>

\* UserInterceptor reads the member the rest of the request works with.
ReadUser(o) ==
    /\ At(o, "user") /\ Goes(o)
    /\ Reads(o, [reg[o] EXCEPT !.mine = wallet[ask[o].who]])

\* The provider is found, not blocked, and free at that time; the snapshot pays.
LookUp(o) ==
    /\ At(o, "provider") /\ Goes(o)
    /\ Affordable(ask[o], reg[o].mine)
    /\ \E id \in OrderIds : Reads(o, [reg[o] EXCEPT !.id = id])

Insert(o) ==
    /\ At(o, "order") /\ Goes(o)
    /\ Acquire(o, reg[o].id)
    /\ Writes(o, own[o])

\* updateUserBalance reads the row back outside the transaction; so does the
\* update of a voucher.  The platform log is a row nothing here reads.
Passes(o) ==
    /\ \E await \in {"platform", "look", "cardLook"} :
          /\ At(o, await)
          /\ await \in OutsideAwaits => Connection
    /\ Goes(o)
    /\ UNCHANGED <<fixed, tx, answer, lock, wallet, reg, own, topUps, restarts>>

ChargeMember(o) ==
    /\ At(o, "wallet") /\ Goes(o)
    /\ Acquire(o, ask[o].who)
    /\ Writes(o, [own[o] EXCEPT !.member = [reg[o].mine EXCEPT !.balance = @ - Payable(o)]])

\* The bank's row is read without the transaction and without a lock.
ReadBank(o) ==
    /\ At(o, "readBank") /\ Goes(o)
    /\ Reads(o, [reg[o] EXCEPT !.bank = wallet[Bank].balance])

CreditBank(o) ==
    /\ At(o, "bank") /\ Goes(o)
    /\ Acquire(o, Bank)
    /\ Writes(o, [own[o] EXCEPT !.bank = reg[o].bank + Payable(o)])

Log(o) ==
    /\ \/ /\ At(o, "memberLog")
          /\ Writes(o, [own[o] EXCEPT !.logs = Append(@, [user |-> ask[o].who,
                 amount |-> -Payable(o), balance |-> reg[o].mine.balance - Payable(o)])])
       \/ /\ At(o, "bankLog")
          /\ Writes(o, [own[o] EXCEPT !.logs = Append(@, [user |-> Bank,
                 amount |-> Payable(o), balance |-> reg[o].bank + Payable(o)])])
    /\ Goes(o)
    /\ UNCHANGED lock

\* useDiscount: the vouchers as they are, and what is taken from each.
ReadVouchers(o) ==
    LET mine == shelf[ask[o].who]
        each == [i \in 1..(3 * Len(mine)) |-> PerVoucher[1 + ((i - 1) % 3)]]
    IN  /\ At(o, "vouchers")
        /\ todo' = [todo EXCEPT ![o] = <<"voucherWallet", "look">> \o each \o Tail(@)]
        /\ Reads(o, [reg[o] EXCEPT !.cards = Taken(mine)])

\* The wallet as the request found it, and the new sum of the vouchers.
WriteVoucherWallet(o) ==
    /\ At(o, "voucherWallet") /\ Goes(o)
    /\ Acquire(o, ask[o].who)
    /\ Writes(o, [own[o] EXCEPT !.member =
                     [reg[o].mine EXCEPT !.voucher = SumLeft(reg[o].cards)]])

WriteVoucher(o) ==
    LET i == Len(own[o].used) + 1 IN
    /\ At(o, "card") /\ Goes(o)
    /\ Acquire(o, <<ask[o].who, i>>)
    /\ Writes(o, [own[o] EXCEPT !.used = Append(@, reg[o].cards[i].used)])

LogVoucher(o) ==
    LET i == Len(own[o].used) IN
    /\ At(o, "cardLog") /\ Goes(o)
    /\ Writes(o, [own[o] EXCEPT !.logs = Append(@, [user |-> ask[o].who,
          amount |-> reg[o].cards[i].log, balance |-> reg[o].cards[i].amount - reg[o].cards[i].used])])
    /\ UNCHANGED lock

\* Variant: `tap` commits.
DoneCommitted(state) == "committed"
\* The answer is sent; `tap` does nothing, so the transaction stays open.
Done(state) == state
Acknowledge(o) ==
    /\ At(o, "ok") /\ Goes(o)
    /\ answer' = [answer EXCEPT ![o] = "ok"]
    /\ tx' = [tx EXCEPT ![o] = Done(@)]
    /\ UNCHANGED <<fixed, lock, wallet, reg, own, topUps, restarts>>

-----------------------------------------------------------------------------
(* What goes wrong.                                                        *)

\* An await throws: a look-up refuses, the database is down, a wait for a lock
\* or a connection times out.  Some repositories start a rollback nobody awaits
\* and throw; the interceptor's own then throws as well.
Fails(o) ==
    /\ todo[o] # <<>> /\ Head(todo[o]) \notin {"ok", "rollback", "masked"}
    /\ IF Head(todo[o]) = "begin"
       THEN /\ todo' = [todo EXCEPT ![o] = <<>>]
            /\ answer' = [answer EXCEPT ![o] = "refused"]
            /\ UNCHANGED tx
       ELSE /\ UNCHANGED answer
            /\ IF Head(todo[o]) \in RollingAwaits
               THEN /\ tx' = [tx EXCEPT ![o] = "rolling"]
                    /\ todo' = [todo EXCEPT ![o] = <<"masked">>]
               ELSE /\ todo' = [todo EXCEPT ![o] = <<"rollback">>]
                    /\ UNCHANGED tx
    /\ UNCHANGED <<fixed, lock, wallet, reg, own, topUps, restarts>>

\* Variant: catchError rethrows only.
RollbackForgotten(o) ==
    /\ At(o, "rollback") /\ Goes(o)
    /\ answer' = [answer EXCEPT ![o] = "refused"]
    /\ UNCHANGED <<fixed, tx, lock, own, wallet, reg, topUps, restarts>>

\* catchError awaits the rollback, then rethrows what refused the request.
Rollback(o) ==
    /\ At(o, "rollback") /\ Goes(o)
    /\ tx' = [tx EXCEPT ![o] = "gone"]
    /\ Release(o)
    /\ own' = [own EXCEPT ![o] = Unwritten]
    /\ answer' = [answer EXCEPT ![o] = "refused"]
    /\ UNCHANGED <<fixed, wallet, reg, topUps, restarts>>

\* "Transaction cannot be rolled back": answered in place of the reason, whether
\* the first rollback has come to its end or not.
Mask(o) ==
    /\ At(o, "masked") /\ Goes(o)
    /\ answer' = [answer EXCEPT ![o] = "masked"]
    /\ UNCHANGED <<fixed, tx, lock, wallet, reg, own, topUps, restarts>>

RollsBack(o) ==
    /\ tx[o] = "rolling"
    /\ tx' = [tx EXCEPT ![o] = "gone"]
    /\ Release(o)
    /\ own' = [own EXCEPT ![o] = Unwritten]
    /\ UNCHANGED <<fixed, todo, answer, wallet, reg, topUps, restarts>>

\* The process ends: the database rolls back what its connections had open.
Restart ==
    /\ restarts < MaxRestarts
    /\ restarts' = restarts + 1
    /\ LET begun == {o \in Requests : tx[o] # "none"}
       IN  /\ todo' = [o \in Requests |-> IF o \in begun THEN <<>> ELSE todo[o]]
           /\ tx' = [o \in Requests |-> IF o \in begun THEN "gone" ELSE "none"]
           /\ answer' = [o \in Requests |-> IF o \in begun /\ answer[o] = "none"
                                              THEN "lost" ELSE answer[o]]
    /\ lock' = [r \in Rows |-> Nobody]
    /\ own' = [o \in Requests |-> Unwritten]
    /\ UNCHANGED <<fixed, wallet, reg, topUps>>

\* A top-up of the member, outside any transaction: it too waits for the row.
TopUp(m) ==
    /\ topUps < MaxTopUps
    /\ lock[m] = Nobody /\ Connection
    /\ topUps' = topUps + 1
    /\ wallet' = [wallet EXCEPT ![m].balance = @ + TopUpAmount]
    /\ UNCHANGED <<fixed, todo, tx, answer, lock, reg, own, restarts>>

-----------------------------------------------------------------------------
Step(o) == \/ Begin(o) \/ ReadUser(o) \/ LookUp(o) \/ Insert(o) \/ Passes(o)
           \/ ChargeMember(o) \/ ReadBank(o) \/ CreditBank(o) \/ Log(o)
           \/ ReadVouchers(o) \/ WriteVoucherWallet(o) \/ WriteVoucher(o)
           \/ LogVoucher(o) \/ Acknowledge(o)
           \/ Fails(o) \/ Rollback(o) \/ Mask(o)

Next == \/ \E o \in Requests : Step(o) \/ RollsBack(o)
        \/ Restart
        \/ \E m \in Members : TopUp(m)

Spec == Init /\ [][Next]_vars

\* Node runs what can run and the waits of the database end by their timeout:
\* a request that stands still is served or fails.
Fairness == \A o \in Requests : WF_vars(Step(o)) /\ WF_vars(RollsBack(o))
FairSpec == Spec /\ Fairness
-----------------------------------------------------------------------------
(* Properties.                                                             *)

Answers == {"none", "ok", "refused", "masked", "lost"}

\* Requests, transactions, locks and answers keep their types.
TypeOK ==
    /\ ask \in Asked
    /\ tx \in [Requests -> {"none", "open", "rolling", "gone"}]
    /\ answer \in [Requests -> Answers]
    /\ lock \in [Rows -> Requests \cup {Nobody}]
    /\ topUps \in 0..MaxTopUps /\ restarts \in 0..MaxRestarts

\* Whoever holds a row can still give it back: a lock belongs to a transaction
\* that is open or being rolled back, so none outlives its request's failure.
LocksAreHeld == \A r \in Rows : lock[r] # Nobody => tx[lock[r]] \in {"open", "rolling"}

\* Every order locks the company's wallet, and no success gives it back: between
\* two restarts createOrder answers one request at most with success.
OneAcknowledged ==
    \A a, b \in Requests :
        (\A o \in {a, b} : answer[o] = "ok" /\ tx[o] = "open") => a = b

\* useDiscount takes from a voucher what is left on it at most, gives nothing
\* back, and never logs less than it takes.
VouchersOnlyDrawn ==
    \A o \in Requests : \A i \in DOMAIN own[o].used :
        LET card == shelf[ask[o].who][i] IN
        /\ own[o].used[i] \in card.used .. card.amount
        /\ own[o].used[i] - card.used <= reg[o].cards[i].log

\* A top-up never gets in between an order that has charged the member and the
\* end of its transaction, which an acknowledged order does not reach.
HeldWalletUntouched ==
    [][\A m \in Members : wallet'[m] # wallet[m] =>
          \A o \in Requests : ask[o].who = m => own[o].member = NoWallet]_vars

\* Every request comes to an end, even when all wait for the same connections or
\* rows, and one that has not succeeded ends up holding nothing.
RequestSettles ==
    \A o \in Requests :
        todo[o] # <<>> ~> /\ todo[o] = <<>>
                         /\ (answer[o] = "ok" \/ tx[o] \in {"none", "gone"})

\* "update the points left to the member": what an order takes from the member is
\* what it gives to the company (order.service.ts:461-484).
MemberPaysTheBank ==
    \A o \in Requests :
        answer[o] = "ok" /\ tx[o] = "open" =>
            reg[o].mine.balance - own[o].member.balance = own[o].bank - reg[o].bank
=============================================================================
