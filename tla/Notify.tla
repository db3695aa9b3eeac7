-------------------------------- MODULE Notify --------------------------------
(***************************************************************************)
(* Notifications of one member: notification.service.ts over Firestore,    *)
(* with the number of unread ones in the member's document.  Adding counts *)
(* in a Firestore transaction; everything else reads the number and writes *)
(* it later.                                                               *)
(*                                                                         *)
(* Left out: texts and pictures of the notifications, the bulk import of   *)
(* old ones, popups, and that FCM may not deliver.                         *)
(***************************************************************************)
EXTENDS Calls, FiniteSets, Integers

VARIABLES badge,     \* unReadCount of the member's document, -1 without one
          datas,     \* [Calls -> the notification it added: "none", "unread", "read"]
          counted,   \* calls that have counted theirs
          pushed,    \* calls that have sent it to the devices
          held,      \* [Calls -> number it has read]
          overwritten \* whether a number not counted has been written over another

notifyVars == <<badge, datas, counted, pushed, held, overwritten>>

\* A mark: whether it is one of a cash order, its letter, and how many chats it
\* tells.  Unknown marks are those showMessage has no title for.
OrderMarks == [cash : BOOLEAN, letter : {"d"}, chats : 0..2]
PointMarks == [cash : BOOLEAN, letter : {"p"}, chats : {0}]
OtherMarks == [cash : {FALSE}, letter : {"q", "u", "v", "a"}, chats : {0}]
UnknownMarks == [cash : {FALSE}, letter : {"x"}, chats : {0}]
Marks == OrderMarks \cup PointMarks \cup OtherMarks \cup UnknownMarks

\* /d_*.{2,3}/ and the others look for their letter anywhere before two more
\* characters: the a of "cash_" is found like that of "a_01".
Matches(m, letter) == m.letter = letter \/ (m.cash /\ letter = "a")

\* The kind of a notification: the first that matches.
SetType(m) ==
    IF Matches(m, "d") \/ Matches(m, "a") THEN "order"
    ELSE IF Matches(m, "v") \/ Matches(m, "u") THEN "system"
    ELSE IF Matches(m, "p") THEN "transaction" ELSE "null"
\* The kind the app is told: each `if` of addNotificationData overwrites the one
\* before, and the last looks for an a.
FcmType(m) ==
    IF Matches(m, "a") THEN "demand"
    ELSE IF m.cash \/ Matches(m, "q") \/ Matches(m, "d") THEN "order" ELSE SetType(m)

NotifyInit(n) ==
    /\ badge = n
    /\ datas = [c \in Calls |-> "none"]
    /\ counted = {}
    /\ pushed = [c \in Calls |-> "none"]
    /\ held = [c \in Calls |-> 0]
    /\ overwritten = FALSE

NotifyJobs == {"add", "readed", "reset", "default", "readAll"}
\* Variant: addNotificationUnReadCount, which reads and then writes.
CountingApart == <<"check", "get", "put">>
Counting == <<"count">>
NotifyAwaits(j) ==
    CASE j.kind = "add" -> Counting \o <<"store">> \o [i \in 1..j.mark.chats |-> "chat"]
                                    \o <<"push", "ok">>
      [] j.kind = "readed" -> <<"mark", "check", "ok">>
      [] j.kind = "reset" -> <<"put", "ok">>
      [] j.kind = "default" -> IF j.after = Nobody THEN <<"check", "ok">> ELSE <<>>
      [] j.kind = "readAll" -> [i \in 1..Len(j.of) |-> "markNext"] \o <<"ok">>

NoDoc == -1
Gives(c, awaits) == todo' = [todo EXCEPT ![c] = awaits \o Tail(@)]

\* runTransactionsUpdateUnReadCount: read and written in one transaction.
Count(c) ==
    /\ At(c, "count") /\ Goes(c)
    /\ badge # NoDoc
    /\ badge' = badge + 1
    /\ counted' = counted \cup {c}
    /\ UNCHANGED <<job, answer, datas, pushed, held, overwritten>>

\* Where the transaction reads no document, 0 is set outside it, whatever is there
\* by then; then the count of nothing is read, which throws.  The client repeats a
\* transaction for Firestore's own errors only.
CountNothing(c) ==
    /\ At(c, "count")
    /\ badge = NoDoc
    /\ Turns(c, <<"zero", "refused">>)
    /\ UNCHANGED <<job, answer, notifyVars>>

\* Firestore does not store a title that is undefined.
Store(c) ==
    /\ At(c, "store") /\ Goes(c)
    /\ job[c].mark \notin UnknownMarks
    /\ datas' = [datas EXCEPT ![c] = "unread"]
    /\ UNCHANGED <<job, answer, badge, counted, pushed, held, overwritten>>

\* "d_08" tells the member in the chat, twice where demands may be made; "d_09"
\* tells the provider.
Chat(c) ==
    /\ At(c, "chat") /\ Goes(c)
    /\ UNCHANGED <<job, answer, notifyVars>>

Push(c) ==
    /\ At(c, "push") /\ Goes(c)
    /\ pushed' = [pushed EXCEPT ![c] = FcmType(job[c].mark)]
    /\ UNCHANGED <<job, answer, badge, datas, counted, held, overwritten>>

\* An update of a notification that is not there fails.
MarkReaded(c) ==
    /\ \/ At(c, "mark") /\ datas[job[c].of] # "none"
          /\ datas' = [datas EXCEPT ![job[c].of] = "read"]
       \/ LET i == Len(job[c].of) + 2 - Len(todo[c]) IN
          /\ At(c, "markNext") /\ datas[job[c].of[i]] # "none"
          /\ datas' = [datas EXCEPT ![job[c].of[i]] = "read"]
    /\ Goes(c)
    /\ UNCHANGED <<job, answer, badge, counted, pushed, held, overwritten>>

\* checkNotificationEmpty: without a document it is set to 0, with one the number
\* is read, and written later.
Check(c) ==
    /\ At(c, "check")
    /\ Gives(c, IF badge = NoDoc THEN <<"set">> ELSE <<"get", "put">>)
    /\ UNCHANGED <<job, answer, notifyVars>>
Set(c) ==
    /\ At(c, "set") \/ At(c, "zero")
    /\ Goes(c)
    /\ badge' = 0
    /\ overwritten' = (overwritten \/ badge # NoDoc)
    /\ UNCHANGED <<job, answer, datas, counted, pushed, held>>

\* What the caller makes of the number it has read.
Reduced(n) == IF n - 1 < 0 THEN 0 ELSE n - 1
Changed(kind, n) == CASE kind = "readed" -> Reduced(n)
                      [] kind = "add" -> n + 1
                      [] OTHER -> n
Get(c) ==
    /\ At(c, "get") /\ Goes(c)
    /\ held' = [held EXCEPT ![c] = Changed(job[c].kind, IF badge = NoDoc THEN 0 ELSE badge)]
    /\ UNCHANGED <<job, answer, badge, datas, counted, pushed, overwritten>>

Put(c) ==
    /\ At(c, "put") /\ Goes(c)
    /\ badge # NoDoc
    /\ badge' = held[c]
    /\ counted' = IF job[c].kind = "add" THEN counted \cup {c} ELSE counted
    /\ overwritten' = (overwritten \/ job[c].kind # "add")
    /\ UNCHANGED <<job, answer, datas, pushed, held>>

\* Firestore, the chats or FCM fail, or a notification is not there to be read.
NotifyFails(c) ==
    /\ Working(c)
    /\ job[c].kind = "default" => job[c].after = Nobody
    /\ Turns(c, <<"refused">>)
    /\ UNCHANGED <<job, answer, notifyVars>>

NotifyStep(c) ==
    /\ job[c].kind \in NotifyJobs
    /\ \/ Count(c) \/ CountNothing(c) \/ Store(c) \/ Chat(c) \/ Push(c) \/ MarkReaded(c)
       \/ Check(c) \/ Set(c) \/ Get(c) \/ Put(c) \/ NotifyFails(c)

-----------------------------------------------------------------------------
NotifyTypeOK ==
    /\ badge \in {NoDoc} \cup 0..Cardinality(Calls) * 2
    /\ datas \in [Calls -> {"none", "unread", "read"}]
    /\ counted \subseteq Calls
    /\ pushed \in [Calls -> {"none", "order", "demand", "system", "transaction", "null"}]
    /\ held \in [Calls -> Nat]
    /\ \A c \in Calls : job[c].kind = "add" => job[c].mark \in Marks
=============================================================================
