-------------------------------- MODULE Chat --------------------------------
(***************************************************************************)
(* Unread counters of the chat.  A user has a document chat_rooms/{user}   *)
(* with the total of unread messages and a copy of the count of the        *)
(* service chat, and one entry chat_rooms/{user}/users/{partner} for each  *)
(* partner with the count of that room.  Sources: firebase/chats/          *)
(* chat-firestore/*, chats.service.ts, and the queue of message-queue/.    *)
(*                                                                         *)
(* Every counter is read in one await and written in a later one.  A       *)
(* handler is the list of awaits it still has to do; each action takes the *)
(* first one off the list.  Documents and entries are never removed.       *)
(*                                                                         *)
(* Left out: the message lists, last messages and bot flags (no counter    *)
(* reads them), push and telegram messages, which come after the counters. *)
(***************************************************************************)
EXTENDS Integers, Sequences, FiniteSets, Functions

CONSTANTS Users,        \* banana ids, the service chat among them
          ServiceChat,  \* serviceChatId
          Calls,        \* requests and jobs that may run
          Traffic,      \* what they may be about
          Populations,  \* sets of users whose documents may exist at the start
          Opened        \* <<user, partner>>: entries that exist at the start

\* send: a message; self: one only the sender sees; register, welcome: a new
\* user without or with a first message; cms: a message of the service chat; ai:
\* a message in the name of a provider; notify: one of a bulk message; read,
\* remove: the user `to` opens or empties the room; open: he only gets the room;
\* recount: the queued job.
Kinds == {"send", "self", "register", "welcome", "cms", "ai", "notify",
          "read", "remove", "open", "recount"}

Orders == [kind : Kinds, from : Users, to : Users, provider : BOOLEAN]

ASSUME ChatAssumption == /\ IsFiniteSet(Users)
                         /\ ServiceChat \in Users
                         /\ Traffic \subseteq Orders
                         /\ Populations \subseteq SUBSET Users

\* No document; an entry without a count.
Absent == -2
Unset  == -1

VARIABLES
    room,       \* [Users -> [Users -> unReadMessageCount of the entry]]
    total,      \* [Users -> unReadMessageCount of the document]
    mirror,     \* [Users -> unReadMessageCountByServiceChat]
    desk,       \* the service chat's counts by kind of sender
    call,       \* [Calls -> what the call is about]
    todo,       \* [Calls -> awaits still to do]
    reg,        \* [Calls -> what it has read]
    idle,       \* calls not made yet
    delivered,  \* history: [Users -> [Users -> messages counted in the room]]
    counted,    \* history: [Users -> messages counted in the total]
    recounted,  \* history: users whose total a recount has written
    disturbed,  \* history: calls during which another one made a step
    failed,     \* history: calls in which an await threw
    before      \* history: [Calls -> totals against rooms when it started]

counters == <<room, total, mirror, desk>>
history  == <<delivered, counted, recounted>>
vars == <<counters, call, todo, reg, idle, history, disturbed, failed, before>>

Nothing == [cnt |-> 0, tot |-> 0, ownCnt |-> 0, ownTot |-> 0, sum |-> 0,
            mir |-> 0, had |-> FALSE, desk |-> [provider |-> 0, member |-> 0]]

\* getReveiveUserUnReadTotal: 0 without an entry or a count.
Count(u, v) == IF room[u][v] < 0 THEN 0 ELSE room[u][v]

\* getUserUnReadMessageCount: 0 without a document.
Total(u) == IF total[u] < 0 THEN 0 ELSE total[u]

Sum(u) == SumFunction([v \in Users |-> Count(u, v)])

\* How far a user's total is from the sum of his rooms.
Slack(u) == Total(u) - Sum(u)

Init ==
    /\ room = [u \in Users |-> [v \in Users |->
                  IF <<u, v>> \in Opened THEN Unset ELSE Absent]]
    /\ \E known \in Populations :
          /\ total = [u \in Users |-> IF u \in known THEN 0 ELSE Absent]
          /\ mirror = [u \in Users |-> IF u \in known THEN 0 ELSE Unset]
    /\ desk = [provider |-> 0, member |-> 0]
    /\ call \in [Calls -> Traffic]
    /\ todo = [a \in Calls |-> <<>>]
    /\ reg = [a \in Calls |-> Nothing]
    /\ idle = Calls
    /\ delivered = [u \in Users |-> [v \in Users |-> 0]]
    /\ counted = [u \in Users |-> 0]
    /\ recounted = {}
    /\ disturbed = {}
    /\ failed = {}
    /\ before = [a \in Calls |-> [from |-> 0, to |-> 0, covered |-> FALSE]]

-----------------------------------------------------------------------------
(* The handlers, await by await.                                           *)

\* The receiver's total; the service chat has two of its own.
CountTotal(c) == IF c.to = ServiceChat THEN <<"desk", "addDesk">>
                                       ELSE <<"total", "doc", "addTotal">>

\* Whoever wrote to the service chat has his copy of its count renewed.
CopyCount(c) == IF c.to = ServiceChat THEN <<"mirror", "setMirror">> ELSE <<>>

\* setUnreadCountAndLastMessage once both rooms are there.
Message(c) == <<"count", "bump">> \o CountTotal(c) \o <<"own">> \o CopyCount(c)

\* The second call of the bulk message, from the user to the service chat.
Back == <<"ownEntry", "ownCount", "keep">>

\* "must wait for updateUserUnReadMessageCount": the own room is emptied last.
\* Variant: it is emptied first.
OwnLast  == <<"ownTotal", "ownCount", "ownDoc", "lower", "own">>
OwnFirst == <<"own", "ownTotal", "ownCount", "ownDoc", "lower">>
Lowering == OwnLast

\* Variant: the copy of the service chat's count is not renewed.
RecountTotal == <<"sum", "doc", "setTotal">>
Recounting == <<"sum", "doc", "setTotal", "mirror", "setMirror">>

Program(c) ==
    [send     |-> <<"user", "entry">> \o Message(c),
     self     |-> <<"own">> \o CopyCount(c),
     register |-> <<"user", "ownEntry", "entry">>,
     welcome  |-> <<"user", "ownEntry", "entry">> \o Message(c),
     cms      |-> <<"count", "bump", "own", "mirror", "setMirror">>,
     ai       |-> <<"count", "bump", "total", "doc", "addTotal">> \o Lowering,
     notify   |-> <<"entry", "user", "count", "bump", "total", "doc", "addTotal">> \o Back,
     read     |-> <<"entry", "zero">>,
     remove   |-> <<"zero">>,
     open     |-> <<"entry">>,
     recount  |-> Recounting][c.kind]

Running == {a \in Calls : todo[a] # <<>>}
At(a, await) == todo[a] # <<>> /\ Head(todo[a]) = await

\* A step by a disturbs every other handler.
Disturb(a) == disturbed' = disturbed \cup (Running \ {a})
Then(a, rest) == /\ todo' = [todo EXCEPT ![a] = rest]
                 /\ Disturb(a)
                 /\ UNCHANGED <<call, idle, before>>
Goto(a, rest) == Then(a, rest) /\ UNCHANGED failed
Go(a) == Goto(a, Tail(todo[a]))

\* An error ends the handler; the bulk message goes on with its second call.
Fail(a) == /\ Then(a, IF call[a].kind = "notify" /\ Len(todo[a]) > Len(Back)
                      THEN Back ELSE <<>>)
           /\ failed' = failed \cup {a}
           /\ UNCHANGED <<counters, reg, history>>

\* Any await may throw: Firestore, the database and the profile API are remote.
Abort(a) == todo[a] # <<>> /\ Fail(a)

Start(a) ==
    /\ a \in idle
    /\ idle' = idle \ {a}
    /\ todo' = [todo EXCEPT ![a] = Program(call[a])]
    /\ disturbed' = disturbed \cup Running \cup (IF Running = {} THEN {} ELSE {a})
    /\ before' = [before EXCEPT ![a] =
                     [from |-> Slack(call[a].from), to |-> Slack(call[a].to),
                      covered |-> Total(call[a].from) >= Count(call[a].from, call[a].to)]]
    /\ UNCHANGED <<counters, call, reg, history, failed>>

From(a) == call[a].from
To(a)   == call[a].to

-----------------------------------------------------------------------------
(* Documents and entries that may not be there yet.                        *)

\* Whose document setUserChatRoom makes, and when it is looked at.
Subject(a) == IF call[a].kind \in {"register", "welcome"} THEN From(a) ELSE To(a)
MakesUser(a) == total[Subject(a)] = Absent /\ ~(call[a].kind = "send" /\ call[a].provider)

\* checkUserChatRoomEmpty, and the look setUserChatRoom takes once more.
CheckUser(a) ==
    /\ At(a, "user")
    /\ Goto(a, IF MakesUser(a) THEN <<"userSet">> \o Tail(todo[a]) ELSE Tail(todo[a]))
    /\ UNCHANGED <<counters, reg, history>>

\* setUserChatRoom for a document that was not there: it is set as a whole.
SetUser(a) ==
    /\ At(a, "userSet")
    /\ total' = [total EXCEPT ![Subject(a)] = 0]
    /\ mirror' = [mirror EXCEPT ![Subject(a)] = 0]
    /\ Go(a)
    /\ UNCHANGED <<room, desk, reg, history>>

\* setReceiverRoomData: u's entry about v, when there is none yet, is set without
\* a count.
CheckEntry(a) ==
    \E own \in BOOLEAN :
        LET u == IF own THEN From(a) ELSE To(a)
            v == IF own THEN To(a) ELSE From(a) IN
        /\ At(a, IF own THEN "ownEntry" ELSE "entry")
        /\ Goto(a, IF room[u][v] = Absent
                   THEN <<IF own THEN "ownEntrySet" ELSE "entrySet">> \o Tail(todo[a])
                   ELSE Tail(todo[a]))
        /\ UNCHANGED <<counters, reg, history>>

PutRoom(u, v, n) == room' = [room EXCEPT ![u] = [room[u] EXCEPT ![v] = n]]

SetEntry(a) ==
    /\ \/ At(a, "entrySet") /\ PutRoom(To(a), From(a), Unset)
       \/ At(a, "ownEntrySet") /\ PutRoom(From(a), To(a), Unset)
    /\ Go(a)
    /\ UNCHANGED <<total, mirror, desk, reg, history>>

-----------------------------------------------------------------------------
(* Counts of rooms.                                                        *)

Keep(a, r) == /\ reg' = [reg EXCEPT ![a] = r]
              /\ Go(a)
              /\ UNCHANGED <<counters, history>>

ReadCount(a) == \/ /\ At(a, "count")
                   /\ Keep(a, [reg[a] EXCEPT !.cnt = Count(To(a), From(a))])
                \/ /\ At(a, "ownCount")
                   /\ Keep(a, [reg[a] EXCEPT !.ownCnt = Count(From(a), To(a))])

Deliver(u, v) ==
    delivered' = [delivered EXCEPT ![u] = [delivered[u] EXCEPT ![v] = delivered[u][v] + 1]]

\* The receiver's room.
Bump(a) ==
    /\ At(a, "bump") /\ room[To(a)][From(a)] # Absent
    /\ PutRoom(To(a), From(a), reg[a].cnt + 1)
    /\ Deliver(To(a), From(a))
    /\ Go(a)
    /\ UNCHANGED <<total, mirror, desk, reg, counted, recounted>>

\* The sender has read what he answers; a new user has the welcome message unread.
\* Variant: everybody has.
OwnUnread(c) == 1
OwnCount(c) == IF c.kind = "welcome" THEN 1 ELSE 0

Own(a) ==
    /\ At(a, "own") /\ room[From(a)][To(a)] # Absent
    /\ PutRoom(From(a), To(a), OwnCount(call[a]))
    /\ IF call[a].kind = "welcome" THEN Deliver(From(a), To(a)) ELSE UNCHANGED delivered
    /\ Go(a)
    /\ UNCHANGED <<total, mirror, desk, reg, counted, recounted>>

\* messageReaded and removeMessages empty the room; the total is not lowered.
Zero(a) ==
    /\ At(a, "zero") /\ room[To(a)][From(a)] # Absent
    /\ PutRoom(To(a), From(a), 0)
    /\ Go(a)
    /\ UNCHANGED <<total, mirror, desk, reg, history>>

\* The bulk message writes the service chat's count of the user back.
KeepOwn(a) ==
    /\ At(a, "keep") /\ room[From(a)][To(a)] # Absent
    /\ PutRoom(From(a), To(a), reg[a].ownCnt)
    /\ Go(a)
    /\ UNCHANGED <<total, mirror, desk, reg, history>>

\* An update of an entry that is not there is refused.
RefuseEntry(a) ==
    /\ \/ (At(a, "bump") \/ At(a, "zero")) /\ room[To(a)][From(a)] = Absent
       \/ (At(a, "own") \/ At(a, "keep")) /\ room[From(a)][To(a)] = Absent
    /\ Fail(a)

-----------------------------------------------------------------------------
(* Totals.                                                                 *)

ReadTotal(a) == \/ /\ At(a, "total")
                   /\ Keep(a, [reg[a] EXCEPT !.tot = Total(To(a))])
                \/ /\ At(a, "ownTotal")
                   /\ Keep(a, [reg[a] EXCEPT !.ownTot = Total(From(a))])

\* updateUserUnReadMessageCount looks whether there is a document to update ...
CheckDoc(a) == \/ At(a, "doc")    /\ Keep(a, [reg[a] EXCEPT !.had = total[To(a)] # Absent])
               \/ At(a, "ownDoc") /\ Keep(a, [reg[a] EXCEPT !.had = total[From(a)] # Absent])

\* ... and otherwise sets one that holds the total alone.
PutTotal(a, u, n) ==
    /\ total' = [total EXCEPT ![u] = n]
    /\ mirror' = IF reg[a].had THEN mirror ELSE [mirror EXCEPT ![u] = Unset]
    /\ Go(a)
    /\ UNCHANGED <<room, desk, reg, delivered>>

\* Variant: the room's count is added instead of one.
AddedCount(a) == reg[a].tot + reg[a].cnt + 1
Added(a) == reg[a].tot + 1

AddTotal(a) ==
    /\ At(a, "addTotal")
    /\ PutTotal(a, To(a), Added(a))
    /\ counted' = [counted EXCEPT ![To(a)] = counted[To(a)] + 1]
    /\ UNCHANGED recounted

\* What the sender had not read of this room is taken off his total, down to 0.
\* Variant: below 0.
LoweredBelow(a) == reg[a].ownTot - reg[a].ownCnt
Lowered(a) == IF reg[a].ownTot - reg[a].ownCnt <= 0 THEN 0
              ELSE reg[a].ownTot - reg[a].ownCnt

Lower(a) ==
    /\ At(a, "lower")
    /\ PutTotal(a, From(a), Lowered(a))
    /\ UNCHANGED <<counted, recounted>>

\* The user has entries and none of them has a count.
Uncounted(u) == /\ \E v \in Users : room[u][v] # Absent
                /\ \A v \in Users : room[u][v] \in {Absent, Unset}

\* countUnreadMessages: _sum of the counts of all entries, read at once.  It leaves
\* out what is undefined; of undefined counts alone it is undefined, of none 0.
Summed(u) == IF Uncounted(u) THEN Unset ELSE Sum(u)

ReadSum(a) == At(a, "sum") /\ Keep(a, [reg[a] EXCEPT !.sum = Summed(To(a))])

SetTotal(a) ==
    /\ At(a, "setTotal") /\ reg[a].sum # Unset
    /\ PutTotal(a, To(a), reg[a].sum)
    /\ recounted' = recounted \cup {To(a)}
    /\ UNCHANGED counted

-----------------------------------------------------------------------------
(* The service chat.                                                       *)

\* getServcieChatUnReadMessageCount, then an update of the document it is in.
ReadDesk(a) == At(a, "desk") /\ Keep(a, [reg[a] EXCEPT !.desk = desk])

AddDesk(a) ==
    LET d  == reg[a].desk
        d1 == IF call[a].provider THEN [d EXCEPT !.provider = d.provider + 1]
                                  ELSE [d EXCEPT !.member = d.member + 1] IN
    /\ At(a, "addDesk") /\ total[ServiceChat] # Absent
    /\ desk' = d1
    /\ total' = [total EXCEPT ![ServiceChat] = d1.provider + d1.member]
    /\ counted' = [counted EXCEPT ![ServiceChat] = counted[ServiceChat] + 1]
    /\ Go(a)
    /\ UNCHANGED <<room, mirror, reg, delivered, recounted>>

\* Whose copy of the service chat's count is renewed.
Copier(a) == IF call[a].kind \in {"cms", "recount"} THEN To(a) ELSE From(a)

\* getUserByServiceChatUnReadMessageCount: an entry without a count gives undefined.
ReadMirror(a) ==
    LET n == room[Copier(a)][ServiceChat] IN
    At(a, "mirror") /\ Keep(a, [reg[a] EXCEPT !.mir = IF n = Absent THEN 0 ELSE n])

SetMirror(a) ==
    /\ At(a, "setMirror") /\ total[Copier(a)] # Absent /\ reg[a].mir # Unset
    /\ mirror' = [mirror EXCEPT ![Copier(a)] = reg[a].mir]
    /\ Go(a)
    /\ UNCHANGED <<room, total, desk, reg, history>>

\* An update of a document that is not there is refused, and a value that is
\* undefined everywhere.
RefuseDoc(a) ==
    /\ \/ At(a, "addDesk") /\ total[ServiceChat] = Absent
       \/ At(a, "setTotal") /\ reg[a].sum = Unset
       \/ At(a, "setMirror") /\ (total[Copier(a)] = Absent \/ reg[a].mir = Unset)
    /\ Fail(a)

-----------------------------------------------------------------------------
Step(a) ==
    \/ CheckUser(a) \/ SetUser(a) \/ CheckEntry(a) \/ SetEntry(a)
    \/ ReadCount(a) \/ Bump(a) \/ Own(a) \/ Zero(a) \/ KeepOwn(a) \/ RefuseEntry(a)
    \/ ReadTotal(a) \/ CheckDoc(a) \/ AddTotal(a) \/ Lower(a)
    \/ ReadSum(a) \/ SetTotal(a)
    \/ ReadDesk(a) \/ AddDesk(a) \/ ReadMirror(a) \/ SetMirror(a) \/ RefuseDoc(a)

Next == \E a \in Calls : Start(a) \/ Step(a) \/ Abort(a)

Spec == Init /\ [][Next]_vars

\* A handler that was started goes on; nobody has to start one, and no await
\* has to throw.
FairSpec == Spec /\ \A a \in Calls : WF_vars(Step(a))

-----------------------------------------------------------------------------
(* Properties.                                                             *)

Awaits == {"user", "userSet", "entry", "entrySet", "ownEntry", "ownEntrySet",
           "count", "bump", "own", "zero", "keep", "total", "doc", "addTotal",
           "ownTotal", "ownCount", "ownDoc", "lower", "sum", "setTotal", "desk",
           "addDesk", "mirror", "setMirror"}

\* The types of the variables; no counter is negative.
TypeOK ==
    /\ room \in [Users -> [Users -> Nat \cup {Absent, Unset}]]
    /\ total \in [Users -> Nat \cup {Absent}]
    /\ mirror \in [Users -> Nat \cup {Unset}]
    /\ desk \in [provider : Nat, member : Nat]
    /\ call \in [Calls -> Traffic]
    /\ \A a \in Calls : \A i \in DOMAIN todo[a] : todo[a][i] \in Awaits
    /\ reg \in [Calls -> [cnt : Nat, tot : Nat, ownCnt : Nat, ownTot : Nat,
                          sum : Nat \cup {Unset}, mir : Nat \cup {Unset}, had : BOOLEAN,
                          desk : [provider : Nat, member : Nat]]]
    /\ idle \subseteq Calls /\ disturbed \subseteq Calls /\ failed \subseteq Calls
    /\ delivered \in [Users -> [Users -> Nat]]
    /\ counted \in [Users -> Nat]
    /\ recounted \subseteq Users

\* "unread messages of this partner": however senders, readers, recounts and
\* bulk messages overlap, a room never shows more messages than were sent to it.
RoomNeverOvercounts ==
    \A u, v \in Users : room[u][v] <= delivered[u][v]

\* "unread messages of all partners": until a recount writes a user's total, it
\* never exceeds the messages counted in it, whatever overlaps.
TotalNeverOvercounts ==
    \A u \in Users : u \notin recounted => total[u] <= counted[u]

\* A recount may count a message whose sender is about to count it himself; no
\* message is counted a third time.
CountedTwiceAtMost ==
    \A u \in Users :
        total[u] <= SumFunction([v \in Users |-> delivered[u][v]]) + counted[u]

\* "This must wait for updateUserUnReadMessageCount, or the count is 0 by then
\* and the sum comes out wrong": a message in a provider's name that nothing
\* disturbs leaves both totals as far from their rooms as they were.
AiKeepsSlack ==
    [][\A a \in Calls :
          /\ call[a].kind = "ai" /\ todo[a] # <<>> /\ todo'[a] = <<>>
          /\ a \notin failed'
          /\ a \notin disturbed' /\ before[a].covered
          => Slack(From(a))' = before[a].from /\ Slack(To(a))' = before[a].to]_vars

Busy(j) == \E a \in Running \ {j} : {From(a), To(a)} \cap {From(j), To(j)} # {}

\* What a recount promises: the total is the sum of the rooms, and the copy is
\* the count of the service chat's room.
Settled(u) == /\ Total(u) = Sum(u)
              /\ room[u][ServiceChat] # Unset => mirror[u] = Count(u, ServiceChat)

\* However wrong overlapping handlers left a user's counters, a recount that
\* nobody disturbs and in which nothing throws puts them right.  (It throws, and
\* leaves the total as it was, when no entry of the user has a count.)
RecountSettles ==
    \A j \in Calls :
        At(j, "sum") /\ ~Busy(j) ~> Settled(To(j)) \/ Busy(j) \/ j \in failed
=============================================================================
