# A formal model of the CityBanana NestJS API

The service is the real-time and payment side of a dating platform: NestJS over
MySQL (Sequelize), Redis, Firebase (Firestore documents, a realtime database for
message lists, push messages), Bull queues, a PHP API that owns bookings and
wallet charges, and the Newebpay card gateway. Paths below are relative to the
repository; its tests only say "should be defined", so the code is the reference.

The handlers of the service take no locks of their own. Every `await` is a place
where another request, a cron pass, a queue job or a callback of the same process
runs, and almost all state is read in one await and overwritten in a later one.
The modules therefore take **one step per await that reads or writes shared
state**, and model what outside services do from how the code uses them. Where a
database transaction is open its row locks are modelled too, because they decide
what else can run.

## Inventory

| component | state | operations | what is hard | what makes it correct | modules |
|---|---|---|---|---|---|
| card payments, `src/src/credit-card` | `users.wallet.balance`, `payments`, `transaction_logs`, Redis `order:*` keys | six paying methods, `notify`, capture | callbacks repeated, late or never; wallet read in one await, written in another; Redis expiry; a step failing after the card was charged | only paid amounts are credited; money before booking; rows and logs agree | `TopUp`, `TopUpLedger`, `WalletLedger` |
| inquiries, `src/src/firebase/vorder`, `src/src/cron` | Firestore `vorders`, `chat_rooms`, message lists | set, read, delete, provider's reply, automatic reply | cron passes beside requests; `forEach` with async callbacks; process death | what is due is answered, once by passes that follow one another; marks are never lost or revived | `Inquiry` |
| chat rooms and counters, `src/src/firebase/chats` | `unReadMessageCount` per room and per user | send, read, remove, city AI, recount job | counters read, then written by several senders | no counter shows more than was counted; a recount puts totals right | `Chat` |
| orders and their transactions, `src/src/order`, `src/src/database` | `datings`, wallets of the member and the company, vouchers, logs, row locks, the connection pool | create order; begin, roll back, never commit | a commit that is commented out; rollbacks nobody awaits; a stale snapshot of the wallet; the pool at its limit | a lock can always be given back; what is charged is not overwritten; requests end | `OrderTx` |
| bookable times, `src/src/order/order-helper` | none | four filters, one after the other | borders, midnight, minimum hours, month ends, two clocks | the offers are exactly the free hours | `BookingTimes` |
| verification codes, `src/src/auth`, `src/src/sms` | one Redis key per phone | send, validate | every step reads the key again and writes it back whole; a failing gateway | a code that counts was sent | `VerifyCode`, `SignUp` |
| registration and OAuth accounts, `src/src/auth`, `src/src/users` | member rows, account rows, transactions | register, login, bind, unbind, LINE bot | rows read outside the transaction that writes them; failing commits; rollbacks that hide the reason | an account has a member; an answer tells what happened | `Accounts`, `SignUp` |
| notifications, `src/src/notification`, `src/src/firebase/notification` | notification documents, `unReadCount` | add, read, read all, default data, push | default data nobody awaits; a number read and written later, and one set from inside the transaction that counts | the badge never exceeds what was counted | `Notify`, `SignUp` |
| reports, `src/src/report` | stored charts | one chart, or all of them | several statements for one chart; two time zones; edges of eleven times | a chart adds up and counts nothing twice | `Reports` |
| the rest | see `PROJECT.json` | look-ups, relays, single documents | - | - | see "Not modelled" |

Interactions: the paying methods and `notify` share the wallet with the PHP API
and with orders; an order is made only for a time the filters leave; an inquiry's
automatic reply uses the chat rooms (the provider's must exist) and may be
overtaken by the provider's reply, by the member deleting or asking again; a
registration checks the phone's code, and its commit starts the member's default
notification data without awaiting it; cron, Bull jobs and HTTP handlers share one
event loop.

`PROJECT.json` lists every component with its files, and the hazards with the
line each one bites at.

## Modules

Each `MC*` module instantiates the module of its name for TLC, and each `*Proofs`
module holds the theorems about it; `InductionLemmas` has the inductions several of
them rest on. The awaits of a request that several modules
need (OrderTx, Chat, Calls) are a list `todo`; an action takes the first one off,
and a failing await replaces the list by what the code still does. Any await may
throw, in every module.

### TopUp, TopUpLedger, WalletLedger - paying by card

`TopUp.tla` models one member. Each pay request and each HTTP call of `notify` is
an actor with a program counter:

| action | code (`credit-card.service.ts` unless said) |
|---|---|
| `Accept` | the six methods' entry: price of the booking, look-up of the stored card |
| `ReadBalance` | `originBalance` - before the charge in bookings, after it elsewhere |
| `Prepare` | `checkP3D` (Redis `setex 3600`) and the `payments` row; a non-positive difference skips the card |
| `Pay` | `runPay`: charged, 3D page, refused, or charged with the answer lost |
| `Answer3D`, `Deliver`, `Expire` | external: the 3D page, the gateway's callback, the Redis key's end |
| `Lookup`, `Decline`, `Settle`, `Notice` | `notify` |
| `SaveWallet`, `AddTransactionLogs` | the shared credit: write the balance, then log it |
| `PlaceOrder`, `Close` | `order`/`demand` of the PHP API, `runPayclose` |
| `Fails` | any of these awaits throws: `notify` swallows it, a paying method answers with an error; nothing is undone or retried. The end of the process is this step for each handler it ran |
| `OtherCharge` | external: the PHP API charging the wallet |

`credited`, `debited` and `by` in a log are history. `P3D` is what the code
computes: `creditCard3DValidationEnabled = 1` yields `P3D = 0`, the opposite of
the setting's comment; the model keeps the code's meaning. `Captures` is the order
number a capture names. In `notify` it is looked for where the callback does not
have it, so that a made-up number is sent (`None`).

`WalletLedger.tla` is the abstract promise: a charge takes its amount in one step; a
top-up looks at the balance and later replaces it by a balance the wallet *really had
since that look*, plus its amount. `TopUpLedger.tla` adds the history `since` (for each
handler that has read `originBalance`, the balances since then) and shows that TopUp
implements the ledger whichever way the windows overlap. Nothing serialises the windows
in the code, and nothing does in the model: two windows that overlap lose the earlier
write, a charge inside a window is undone, and the ledger says that this is all that
can be lost. `NeverMoreThanPutIn` is the other half: no interleaving invents money.

Nothing retries a credit that failed, so "a paid payment is credited" is false in the
code and no property says it. `PaidIsCredited` says what is left: a handler that holds
the gateway's word, standing at the reading or the saving of the balance, gets to the
TOP_UP row (a callback to the paid row as well) or one of *its own* awaits throws.
Neither an expired key, another charge, a stale balance nor another handler that fails
stops it.

### Inquiry - inquiries and their automatic answer

Per member/provider pair, `doc` is the Firestore document (`gen` numbers the
askings; 0 is "no document"), `rooms` the `chat_rooms` documents. `ask`, `reply`, `del`
are the HTTP handlers. `pass`, `todo`, `found`, `task` are, for each chain of passes (the
cron job's, the boot's), the pass and the tasks its `forEach` starts without awaiting
them. Chains overlap freely; within one a pass starts when the one before it is done.

| actions | code |
|---|---|
| `AskRead`, `AskWrite`, `AskRooms`, `AskTell` | `setVorder`, `setVorderAndSendMessage` |
| `ReplyRead`, `ReplyMark`, `ReplyPush` | `checkIsBlacklistedAndSendMessage`, `updateVorderProviderFeedBack` |
| `DelRead`, `DelCheck`, `DelWrite` | `getVorder`, `deleteVorder` |
| `PassStart`, `Scan`, `Launch`, `PassEnd` | `checkVorderHaveResponse`, `getStayResVorders`, `vorderFeedback` |
| `TaskUnread`, `TaskPush`, `TaskMark`, `TaskOffer` | the task of one inquiry |
| `Die`, `Crash` | an unhandled rejection ends the process; a crash; both restart it |

`told` (lists an automatic answer was ever pushed to), `autos` (the automatic answers of
an inquiry, by chain) and `ends` (the times the process ended) are history. The lists
themselves are not state: `removeMessages` may empty one at any time and no handler here
reads one, so the properties speak of what was pushed, not of what is still there.

Behaviour the model keeps and no property judges, because nothing in the
repository says what should happen: two overlapping passes answer the same inquiry
twice, which is why `AnsweredOnce` counts the answers of each chain; a stale mark lands
on the inquiry asked after the one that was answered; `getVorder` deletes, two reads
after it judged the inquiry expired, whatever inquiry is there by then.

### Chat - unread counters

A user's document holds the total of his unread messages (`total`), a copy of the
count of the service chat (`mirror`) and, in the service chat's own document, the
counts by kind of sender (`desk`); each of his entries holds the count of one room
(`room`). A handler is the list `todo` of awaits it still has to do, `Program` gives
the list of each kind, and `reg` is what it has read so far:

| awaits (actions) | code (`chat-firestore-helper.service.ts`) |
|---|---|
| user, userSet (`CheckUser`, `SetUser`) | `checkUserChatRoomEmpty`, `setUserChatRoom` |
| entry, ownEntry and their Set (`CheckEntry`, `SetEntry`) | `setReceiverRoomData` |
| count, bump, own, keep, ownCount (`ReadCount`, `Bump`, `Own`, `KeepOwn`) | `getReveiveUserUnReadTotal`, `setUnreadCountAndLastMessage` |
| zero (`Zero`) | `messageReaded`, `removeMessages` |
| total, ownTotal, doc, ownDoc, addTotal, lower (`ReadTotal`, `CheckDoc`, `AddTotal`, `Lower`) | `getUserUnReadMessageCount`, `updateUserUnReadMessageCount` |
| sum, setTotal (`ReadSum`, `SetTotal`) | `countUnreadMessages`, the queued job |
| desk, addDesk (`ReadDesk`, `AddDesk`) | `getServcieChatUnReadMessageCount`, `updateServiceChatUnReadMessageCount` |
| mirror, setMirror (`ReadMirror`, `SetMirror`) | `updateUserUnReadMessageCountByServiceChat` |

Kinds of handlers: `send` is `setUnreadCountAndLastMessage` with the texts, images,
positions, bot questions and inquiry messages that go through it; `self` its
`justSendLoginUser` form; `register` and `welcome` are `setUserRomData`; `cms`, `ai`,
`notify` the service desk's, the city AI's and the bulk message; `read`, `open` and
`remove` what the client calls on entering or emptying a room; `recount` the job.
`Abort` lets any await throw, `RefuseEntry` and `RefuseDoc` are the updates Firestore
refuses. A write that throws is taken not to have happened. The second look
`setUserChatRoom` and `setReceiverRoomData` take before they write is the one
modelled: nothing is ever removed, so the first adds no behaviour. A bulk message is
one call per addressee. A recount over entries of which none has a number sums to
`undefined` (`Uncounted`), which Firestore refuses to store: the recount ends there.

What the code does not promise, and no property says: a room or a total may show too
little (two senders, one of them overwritten), and emptying a room does not lower
the total; the recount, which the client may ask for, is what puts it right.

### OrderTx - an order and its database transaction

`TransactionInterceptor` opens a transaction around `createOrder` and has its
commit commented out. `tx` is the state of each request's transaction (`rolling`: a
repository has started a rollback nobody awaits), `lock` holds the rows it has
locked, `reg` is what the request has read and `own` what its transaction has
written, which never becomes part of the committed `wallet`. `pool` is the number
of connections; statements outside the transaction need one of their own.

| actions | code |
|---|---|
| `Begin`, `ReadUser` | `database-transaction.interceptor.ts`, the user's interceptor, which reads the wallet all later steps work with |
| `LookUp` | `createOrder`: the provider, the time, the balance (`order.service.ts`) |
| `Insert`, `Passes` | `order.repository.ts` `create`, the platform log, reading rows back |
| `ChargeMember`, `ReadBank`, `CreditBank`, `Log` | `updateUserBalance`, the company's wallet read outside and written inside the transaction, both transaction logs |
| `ReadVouchers`, `WriteVoucherWallet`, `WriteVoucher`, `LogVoucher` | `useDiscount` and its loop over the vouchers (`TakeFrom`); the wallet is read back after it is written |
| `Acknowledge` | the answer; `tap` does nothing, the transaction stays open |
| `Fails`, `Rollback`, `Mask`, `RollsBack` | `catchError`; a second rollback of a transaction that is over throws in place of the reason |
| `Restart`, `TopUp` | the process ends and the database rolls back; another request's top-up, which waits for the row |

### BookingTimes - when an order may be made

`createOrder`, and the list of bookable times a client sees, build a table of days and
hours and pass it through three filters; each is one step: `Create` (`createCanBookingTimes`), `FilterNonBusinessHours`,
`FilterBookingSchedule`, `FilterByMinHours`. `dates` is the table, `offer` the
durations at the end, and `Verdict` what `createOrder` makes of them. The
situation `s` is the provider's data: orders received and enrolments, weekly closed
hours, the calendar, the interval between orders, the category's least duration.

The days are those of the server's clock, `Zone` hours ahead of UTC (the dockerfile sets
`Asia/Shanghai`), but two things are read with `moment.utc`: the last day (`LastDay`) and
the start of a booked row (`StartRead`). Rows the PHP system stores hold that clock's
figures and are read rightly; a row `createOrder` stored is an *instant* and is read
`Zone` hours early.

The model keeps these habits of the code, which the properties respect:

* while it is still yesterday in UTC (from 00:00 to 08:00), `LastDay` is the last day that
  is offered, and `filterByMinHours` leaves it as it is: each hour left keeps every
  duration from the least to a day. `OfferedExactly` speaks of the other days, and of
  that day `AcceptedIsFree` says only that the order's first hour is free;
* a row stored as an instant blocks the wrong hours. The properties about what is taken
  speak of the rows that can be read (`Legible`); the others are in the runs and may
  remove hours anywhere. No order `createOrder` makes is ever committed (see OrderTx),
  so today every row is of the first kind;
* how many days ahead the first date is comes from the difference of two days of
  the month. Where the interval runs into the next month it is negative and past
  days are offered (`FutureUnlessMonthEnds` excludes just that);
* the interval is added after another member's order or enrolment, not after one's
  own, and never before one;
* a duration is offered only if the hour after it is free as well (`OfferedExactly`);
* `IsCurrentReceiver` asks whether some order and some enrolment exist, whoever made them.

### Calls, Accounts, VerifyCode, Notify, SignUp - a member signs up

`Calls` has what the three parts share: `job`, `todo`, `answer`. `SignUp` composes
them in one process, so that a validation sees whether the phone's member is there
and the commit of a registration starts the default notification data; when those
fail nobody handles it and the process ends (`Ends`).

| module, actions | code |
|---|---|
| `Accounts`: `Begin`, `Asks`, `CreateUser`, `ReadUser`, `Find`, `CreateOrUpdate`, `Commit` | the registrations and `bind` of `auth.controller.ts`, the OAuth repositories, `users.repository.ts`; the four providers' copies differ only in names |
| `Relink`, `Unlink` | `login` writes back the owner it has read; `updateUserIdToNull` |
| `Fails`, `RollsBack`, `AccountsEnd` | the interceptor, repositories that roll back by themselves, the end of the process |
| `VerifyCode`: `Look`, `Sms`, `Keep`, `RunsOut` | `sendSMSAuthCode`; the five minutes and the key's end |
| `First`, `VerifyAuthCrumb`, `VerifyAuthCode`, `Compare`, `Again`, `Lower`, `Authenticate`, `Verdict` | `validatorAuthCode`, whose every step reads the key again |
| `Notify`: `Count`, `Store`, `Chat`, `Push` | adding a notification: a Firestore transaction counts it, then the document, the chats, FCM |
| `CountNothing`, then `Set` and the failure | the transaction reads no document: 0 is set outside it, in an await of its own, whatever is there by then; then the call throws |
| `MarkReaded`, `Check`, `Set`, `Get`, `Put` | reading, resetting, the default data: the number is read and written later |

`counted` and `overwritten` (a number that was not counted was written over another) are
history. Two first additions may both read nothing; the set of the slower one may then
undo what a third has counted. `BadgeCounts` therefore claims equality only until
something was overwritten, and the bound always. The bot's handlers of `line-user-bot.controller.ts`
never commit; the model keeps that.

### Reports - the charts of the data centre

`Switch` takes the chart type and the days a line will have, `Query` runs one
statement in MySQL's day, `CreateReport` stores the chart; `Save` is the second save it
awaits, after which the pass of the cron job goes on to the next of twelve types in
eleven times. `Fails` ends it, with the chart stored or not. A booking's class
(`done`, `unpaid`, `agreed`, `open`, `withdrawn`, the four cancellations) stands for the
statuses, with or without the provider's remuneration, that the statements tell apart.
`Inserted` and `TimePasses` happen in between. `Window` is the WHERE clause of each
time, `AutoDay` the days the process expects, `EarlierWindow` what complaints are
compared with. Kept as they are: "the past seven days" has points for five; the
district chart's statement is refused when there is no booking; popular hours
count starting times, not bookings; two series of the cancellations have each
other's name. A row outside the range of the process's days (another clock, midnight in
between) puts a date into one series that the others lack; `ChartsAreTrue` claims that
the series line up only without one. A complaint made at midnight sharp is in both
compared times, which `PeriodsApart` leaves out.

## Runs

| run | bounds | shows |
|---|---|---|
| `topup_3d` | 2 requests, 2 callbacks, 1 other charge, 3 flows, price 2, balance 1 | `CreditsArePaid`, `PaidRowHasItsLog`, `PlacedIsFunded`, `ClosedIsCredited`, `NeverMoreThanPutIn`, `PaidStaysPaid` and the types over every interleaving and every failing await |
| `topup_live` | 2 requests charged at once or on the 3D page, 1 callback, 1 other charge, the other flows | `PaidIsCredited`; `ImplementsLedger`: the wallet ledger, windows overlapping freely |
| `topup_twice` | 1 request, 2 callbacks | a violation: the repeated callback credits again |
| `inquiry` | 1 pair asking twice, 2 overlapping chains of passes, 1 crash, requests that fail half way, deletions | types, `MarkedWasTold`, `AnsweredOnce` (one automatic answer per chain, and one more each time the process ended), `MarksStay`, `NoReturn` |
| `inquiry_live` | 2 pairs asking once, 1 chain, requests that fail half way, deletions under a pass | `DueIsHandled` |
| `inquiry_crash_loop` | 1 pair, 1 asking that ends half way | a violation: every pass dies on that inquiry |
| `chat` | 2 handlers about any pair of 19 orders, 4 users, with and without the service chat's document | types, the three bounds on what counters show, `AiKeepsSlack`, `RecountSettles` |
| `order` | 2 requests of one or two members, 2 or 3 connections, 2 vouchers, 1 restart, 1 top-up | types, `LocksAreHeld`, `OneAcknowledged`, `VouchersOnlyDrawn`, `HeldWalletUntouched`, `RequestSettles` |
| `order_voucher` | the same, 3 connections, no restart | a violation: vouchers undo the charge |
| `booking` | days of 4 hours, 1 of them ahead of UTC, 3 days ahead, weeks of 2 days, months of 5; up to 2 of 5 bookings (one an instant), 3 calendars, 3 intervals, every hour of the request | types, `AcceptedIsFree`, `IntervalAfterOthers`, `OfferedExactly`, `FutureUnlessMonthEnds` |
| `signup` | 4 calls, 2 phones, 2 accounts, 2 retries; all pairs of account calls with a login or an unbind, and 8 further scenes | types, `LinkHasUser`, `AnswerTellsUser`, `CodesWereSent`, `BadgeCounts`, `TakenOnlyUnseen` |
| `reports` | 12 charts in 11 times on 4 days around the turn of a year, a quarter and a week; months of 30 days, 8 hours between the zones, 1 insertion, 1 midnight | `ChartsAreTrue`, `PeriodsApart` |

The bounds are small because the hazards are pairwise: a lost update needs two
windows, a double credit two callbacks for one request, an early or late mark one
task beside one other handler and a second asking, a healthy inquiry kept from its
answer a second one that is half made, a lost count two handlers of the
same room or user, a held lock two orders. Two handlers are also enough for a recount
that starts after another left the totals wrong. Price 2 over balance 1 makes
"covered", "difference" and "full" differ, and top-ups and charges change which it is. Two connections are fewer than two orders need and three are just enough.
Four hours make a day in which two bookings, an interval and
midnight still meet, and a month of five days has its end within reach of an interval.
A sign-up's fourth call is the login or unbind, or the notification, that comes
late. Rows of reports lie on each edge of each time and one hour or day beside it.

`MaxCharges`, `MaxAsks`, `MaxCrashes`, `MaxTopUps`, `MaxRestarts` and the cap `Many`
of the answer and end counters are the only bounds on counters. Symmetry is used in
the safety runs of TopUp and Inquiry, where no definition tells one request, callback or
chain of passes from another. `CHECK_DEADLOCK FALSE` is there because the system may rest: all requests
answered, nobody has to ask again.

Fairness: a handler, task or pass that can take its next step eventually does -
the event loop runs every settled promise, and MySQL ends every wait for a lock or
a connection by a timeout. In OrderTx a step of a request includes its failing one, so
weak fairness says that it is served or fails, never that it is served; a rollback
that was started comes to its end. Cron starts its pass again and again
(`CronJob.start`). Nothing makes a member ask, answer the 3D page or delete, nor the
gateway call back, so those actions have no fairness. The failing branch of a step is
always allowed, so a property about success names the failures that excuse it: the
handler's own (`PaidIsCredited`), a half-made inquiry that keeps ending the process
(`DueIsHandled`), a recount in which an await threw (`RecountSettles`). SignUp, BookingTimes and Reports are checked for safety only.

## Findings

* `notify` prints the row it finds under "Check payments" and goes on: each
  repeated call inside an hour credits the wallet again (`topup_twice`).
* An inquiry whose creation ended before its chat rooms makes the automatic reply
  reject in a task nobody awaits; Node ends the process, and so does every later
  pass (`inquiry_crash_loop`). A healthy inquiry of another pair may thereby stay
  unanswered too. `DueIsHandled` states what does hold: with both rooms there, a due
  inquiry is handled unless some half-made one keeps coming up.
* `useDiscount` writes the wallet as the request read it, with the new sum of the
  vouchers, after the charge has been written in the same transaction: the member
  has his points back while the company keeps them (`order_voucher`).

## Proofs

Eight modules are checked by TLAPS for every value of the constants, under the named
assumptions of the modules (amounts are naturals, requests and callbacks are distinct,
counters have natural bounds, scenarios have the shape of their records, users and the
rows of the tables are finite, a voucher an order is given has something left on it, which
is what `findUnExpiredAndEffective` selects). Every safety invariant, every action
property and the refinement that a passing run checks is a theorem.

* InductionLemmas: sums and recursive functions are where a proof needs an induction, and
  the library's induction theorems take an operator, which no prover here can be given.
  The lemmas take the *set* of what a statement holds of instead. A nonempty collection of
  subsets of a finite set has a smallest one (`SmallestSubset`, from the library's
  well-founded strict subset ordering), so what passes from the proper subsets to the set
  holds of every subset (`SubsetInduction`), and what passes from a number to the next
  holds up to any number (`UpTo`). From these: a function given by its first value and its
  steps exists (`RecursionExists`), so a recursive definition has the values it is written
  with; and `SumFunctionOnSet` of the community modules, a fold in an order nobody chose,
  is the sum in any order (`SumStep`, `SumAny`), grows with its terms, changes as one of
  them does, and is the sum over the parts of a partition (`SumParts`).

* TopUp: the inductive invariant ties each step of an actor to the facts that hold there -
  an actor that saves has an order the gateway took and a non-negative
  `amount`; one that logs has credited it; a row's `log` names a delivery whose
  TOP_UP row exists. `CreditsArePaid`, `PaidRowHasItsLog`, `PlacedIsFunded`,
  `ClosedIsCredited` and `NeverMoreThanPutIn` follow. None of them is inductive alone:
  a log row appears two awaits after the gateway was asked, so the invariant must carry
  the gateway's answer along. For `NeverMoreThanPutIn` it carries that what an actor
  read as `origin` was at most what had been put in by then, and that this sum only grows.
  `PaidStaysPaid` needs `WordIsFinal`: a callback declines only what the gateway has
  declined, so it never meets a row another callback may settle.
  `WalletIsLedger` is the refinement `TopUpLedger` states with INSTANCE. It adds
  `LookInv` - what a handler inside its window has read is one of the balances in
  `since`, the present one is too, and nobody outside a window has any - and maps each
  step to a look, a giving up, a top-up, a charge or a stutter. No assumption about the
  order of windows is made.
* Inquiry: `MarkedWasTold` needs that a task at its mark has pushed both answers and
  that one at "member" has pushed to the provider; what was pushed stays history.
  `NoReturn` and `MarksStay` follow from the type invariant with the fact that an
  absent document holds nothing, action by action. `OneAnswerEach` proves `AnsweredOnce`
  for each chain of passes, whatever other chains overlap with it and whatever the number
  of pairs, inquiries and crashes: `RoundInv` says that an inquiry has had one answer of a
  chain less than the bound as long as it may get one more (`Again`: its document is not
  marked and no task of the chain is about to mark it, or the chain is on its way to
  answer it). Other chains only ever mark a document, which takes answers away.
* Chat: `ChatInv` says of every handler that the counts and totals in its registers
  are within the histories `delivered` and `counted`. The bounds on rooms and totals
  are not inductive without it, because a handler writes back what it read awaits
  ago; with it the order of the awaits no longer matters, so the two theorems
  hold for any program of these awaits, any traffic and any aborts. A recount writes the
  sum over all rooms: `ChatTypes` (the types with the awaits left) needs that a sum of
  naturals is one, and `TwiceInv` that the sum and the totals a handler has read are within
  what was sent and counted, which gives `CountedTwiceAtMost`. `AiKeepsSlack` speaks of a
  whole handler: `SlackInv` says for each of its ten awaits how far the two totals are from
  the sums of their rooms while nobody else touches those users, and every await changes
  one room (`SumChange`) or one total.
* OrderTx: `OrderInv` reads the state of a request's transaction off the awaits it
  has left: before "begin" there is none, on the way to "ok" it is open, after a
  failure it is open until "rollback" or is being rolled back. Past the company's wallet
  a request that has not failed holds that row, and whoever has written the member's
  wallet holds his. `LocksAreHeld`, `OneAcknowledged` and `HeldWalletUntouched` are then facts
  about who can hold one row. `VouchersOnlyDrawn` takes the loop over the vouchers, whatever
  their number (`TakenDraws`), and `DrawInv`: what an order has read is what that loop makes
  of the member's vouchers, it has written the first of them, and the awaits ahead say how
  many follow.
* BookingTimes: what a filter has taken out stays out, so a fact established by the
  filter that removes an hour is kept by the later ones; the rest is arithmetic of days.
  `OfferedExactly` is about the chains `filterByMinHours` follows from an hour, over midnight
  into the next date: by induction on its length a chain goes on exactly as long as the
  hours are left (`ChainIsRun`), and the invariant keeps that every duration of every hour
  left is in the offer (`LeftAreOffered`). `AcceptedIsFree` follows: the hours an accepted order covers are all left,
  and what is left is open (`OpenHours`) and free. On `LastDay` the offer is what was left
  and nothing is known of the durations, so both theorems take that day apart.
* SignUp: `SignUpInv` has a part for each of the three modules and says from the
  awaits a call has ahead what its transaction, its locks, its reads and its notification are
  like; a step of one part leaves the other two alone, but for a commit, which may start
  the default data, and the end of the process. For `BadgeIsCounted` a held number is at
  most what has been counted by the time it is written, and equality is kept as long as
  nothing was written over a count.
* Reports: `ReportsInv` says that a stored chart is what all statements of its type gave,
  made into a chart, and that what a statement about complaints gave lies in the time of
  the day it was asked. For `PeriodsApart` the rest is arithmetic - each of the eleven times
  and the time before it share at most one midnight (`TimesApart`), for months of any length.
  For `ChartsAreTrue`: the dates of a line list the days in order, each once
  (`AscendingLists`), so they part the rows and the values add up (`SeriesAddsUp`); without
  a row outside the range every series has the days of the range; each starting time
  is in one band (`OneBand`) of one day, so the table of popular hours parts them too.

Model-checked only: what needs fairness, which is liveness and ENABLED and so out of the
prover's reach (`PaidIsCredited`, `DueIsHandled`, `RecountSettles`, `RequestSettles`), and the
three violations, which are counterexamples. RECURSIVE operators are out of reach
as well; the modules use recursive functions and folds.

## Not modelled

* Saving a card, the default flag and the card list: the rows of `credit_cards` meet no other
  modelled state but the flag itself, and payments take a card as given.
* The check of a time and the insertion of the order are in two modules
  (`BookingTimes`, `OrderTx`). The check reads the provider's orders before the insertion
  and nothing locks them, so two members may be told at once that the same hour is
  free; no property says so.
* TopUp and OrderTx over one wallet: OrderTx has a top-up as one step that waits for
  the row, which is how MySQL treats it while a transaction holds the row. The window of
  a top-up that has read the wallet before an order charges it is not modelled: no
  order is ever committed, so what such a window would overwrite is not there to be lost;
  a product of both modules is too large for TLC.
* Outside services: what the PHP API does with bookings and its callbacks, the gateway's
  envelope, SMS and push delivery, maps, Telegram. Their answers are the failing and
  succeeding branches of the actions that call them.
* Look-ups of rows, lists for the back office, guards and token signatures,
  popups, UI settings, identity records, demands, activities, the socket relay:
  they read, or write one document as a whole, and no second step depends on it.
* The sitemap job writes files from look-ups.
* Texts, formats, names and colours of charts, and logs, throughout.
