------------------------------- MODULE Inquiry -------------------------------
(***************************************************************************)
(* Inquiries ("vorder" documents in Firestore): a member asks a provider,  *)
(* and when the provider does not answer for some hours a cron pass        *)
(* answers in the provider's name.  Sources: firebase/vorder/*, the cron   *)
(* job of cron/cron.service.ts, and the provider's chat message of         *)
(* firebase/chats/chat-realtime/chat-realtime.service.ts.                  *)
(*                                                                         *)
(* Every handler is a process whose steps are its awaits.  A pass reads    *)
(* the documents one after the other, then runs one task for every due     *)
(* inquiry, all at once and awaited by nobody (forEach with an async       *)
(* callback): what a task throws is an unhandled rejection, which ends the *)
(* process on the Node 18 of the dockerfile; docker restarts it.           *)
(*                                                                         *)
(* Of the messages only the automatic answers are kept, as a history of    *)
(* the lists they were ever pushed to: no handler here reads a list, and   *)
(* chats.service may empty one at any time (removeMessages).  Unread       *)
(* counters and push notifications are left to the chat module.            *)
(***************************************************************************)
EXTENDS Naturals

CONSTANTS Pairs,      \* (member, provider) pairs
          Passes,     \* what starts passes: the cron job, the boot; theirs overlap
          MaxAsks,    \* bound: times a member asks the same provider
          AskMayFail, \* set-vorder may fail after it wrote the document
          MayDelete,  \* inquiries may be deleted
          MaxCrashes  \* bound: crashes for other reasons than a task's error

ASSUME InquiryAssumption == /\ MaxAsks \in Nat /\ MaxCrashes \in Nat
                            /\ AskMayFail \in BOOLEAN /\ MayDelete \in BOOLEAN

Boxes == {"member", "provider"}

VARIABLES
    doc,      \* vorder/{member}/users/{provider}
    rooms,    \* [Pairs -> SUBSET Boxes], chat_rooms documents that exist
    told,     \* [Pairs -> lists the automatic answer was ever pushed to]
    ask,      \* [Pairs -> step of setVorderAndSendMessage]
    reply,    \* [Pairs -> step of checkIsBlacklistedAndSendMessage]
    del,      \* [Pairs -> step of deleteVorder]
    pass,     \* [Passes -> "idle", "scan" or "run"]
    todo,     \* [Passes -> pairs not read yet]
    found,    \* [Passes -> [Pairs -> inquiry found due, 0 for none]]
    task,     \* [Passes -> [Pairs -> step of the answering task]]
    asked,    \* inquiries asked so far; numbers them
    autos,    \* [Passes -> [Pairs -> [inquiry -> answers sent, up to Many]]]
    ends,     \* times the process ended, up to Many
    crashes   \* of those, for other reasons than a task's error

\* Bound: more answers or ends than this are not told apart.
Many == MaxCrashes + 2

vars == <<doc, rooms, told, ask, reply, del, pass, todo, found, task, ends, asked,
          autos, crashes>>
requests == <<ask, reply, del>>
passes == <<pass, todo, found, task, ends>>

\* gen tells inquiries of the same pair apart: their createdAt.
NoDoc == [gen |-> 0, provider |-> 0, system |-> 0, old |-> FALSE]

Init ==
    /\ doc = [q \in Pairs |-> NoDoc]
    /\ rooms = [q \in Pairs |-> {}]
    /\ told = [q \in Pairs |-> {}]
    /\ ask = [q \in Pairs |-> "idle"]
    /\ reply = [q \in Pairs |-> "idle"]
    /\ del = [q \in Pairs |-> "idle"]
    /\ pass = [p \in Passes |-> "idle"]
    /\ todo = [p \in Passes |-> {}]
    /\ found = [p \in Passes |-> [q \in Pairs |-> 0]]
    /\ task = [p \in Passes |-> [q \in Pairs |-> "idle"]]
    /\ asked = [q \in Pairs |-> 0]
    /\ autos = [p \in Passes |-> [q \in Pairs |-> [g \in 1..MaxAsks |-> 0]]]
    /\ ends = 0 /\ crashes = 0

Exists(q) == doc[q].gen # 0

-----------------------------------------------------------------------------
(* The member asks: setVorderAndSendMessage.                               *)

Fresh(g) == [gen |-> g, provider |-> 0, system |-> 0, old |-> FALSE]

\* setVorder reads the document to choose between set and update.
AskRead(q) ==
    /\ ask[q] = "idle" /\ asked[q] < MaxAsks
    /\ ask' = [ask EXCEPT ![q] = IF Exists(q) THEN "update" ELSE "set"]
    /\ UNCHANGED <<doc, rooms, told, reply, del, passes, asked, autos, crashes>>

\* An update of a document deleted in the meantime fails and ends the request.
AskWrite(q) ==
    /\ \/ /\ ask[q] = "set" \/ (ask[q] = "update" /\ Exists(q))
          /\ asked' = [asked EXCEPT ![q] = asked[q] + 1]
          /\ doc' = [doc EXCEPT ![q] = Fresh(asked[q] + 1)]
          /\ ask' = [ask EXCEPT ![q] = "rooms"]
       \/ /\ ask[q] = "update" /\ ~Exists(q)
          /\ ask' = [ask EXCEPT ![q] = "idle"]
          /\ UNCHANGED <<asked, doc>>
    /\ UNCHANGED <<rooms, told, reply, del, passes, autos, crashes>>

\* The rooms are made after the document, from profiles other services answer:
\* the provider's room first.
AskRooms(q) ==
    /\ ask[q] = "rooms"
    /\ \/ /\ rooms' = [rooms EXCEPT ![q] = Boxes]
          /\ ask' = [ask EXCEPT ![q] = "tell"]
       \/ /\ AskMayFail /\ rooms[q] # Boxes
          /\ \E made \in {{}, {"provider"}} :
                rooms' = [rooms EXCEPT ![q] = rooms[q] \cup made]
          /\ ask' = [ask EXCEPT ![q] = "idle"]
    /\ UNCHANGED <<doc, told, reply, del, passes, asked, autos, crashes>>

\* The inquiry is pushed to the member's list, then to the provider's; a push
\* that fails ends the request as well.
AskTell(q) ==
    /\ ask[q] = "tell"
    /\ ask' = [ask EXCEPT ![q] = "idle"]
    /\ UNCHANGED <<doc, rooms, told, reply, del, passes, asked, autos, crashes>>

-----------------------------------------------------------------------------
(* The provider writes in the chat.                                        *)

\* The document is read before the message goes out.
ReplyRead(q) ==
    /\ reply[q] = "idle" /\ asked[q] > 0
    /\ reply' = [reply EXCEPT ![q] = IF Exists(q) /\ doc[q].provider = 0
                                     THEN "mark" ELSE "push"]
    /\ UNCHANGED <<doc, rooms, told, ask, del, passes, asked, autos, crashes>>

\* updateVorderProviderFeedBack: update touches one field and fails when the
\* document is gone.
ReplyMark(q) ==
    /\ reply[q] = "mark"
    /\ \/ /\ Exists(q)
          /\ doc' = [doc EXCEPT ![q] = [doc[q] EXCEPT !.provider = 1]]
          /\ reply' = [reply EXCEPT ![q] = "push"]
       \/ /\ ~Exists(q)
          /\ reply' = [reply EXCEPT ![q] = "idle"]
          /\ UNCHANGED doc
    /\ UNCHANGED <<rooms, told, ask, del, passes, asked, autos, crashes>>

ReplyPush(q) ==
    /\ reply[q] = "push"
    /\ reply' = [reply EXCEPT ![q] = "idle"]
    /\ UNCHANGED <<doc, rooms, told, ask, del, passes, asked, autos, crashes>>

-----------------------------------------------------------------------------
(* Deleting, by the member or because getVorder finds the date is past.    *)

\* deleteVorder of the service has read the document; getVorder read it first,
\* and whether it found startedAt to be past is left open.
DelRead(q) ==
    /\ MayDelete
    /\ del[q] = "idle" /\ Exists(q)
    /\ \E step \in {"first", "again"} : del' = [del EXCEPT ![q] = step]
    /\ UNCHANGED <<doc, rooms, told, ask, reply, passes, asked, autos, crashes>>

\* Both deleteVorder methods look whether there is a document, not at which.
DelCheck(q) ==
    /\ del[q] \in {"first", "again"}
    /\ del' = [del EXCEPT ![q] = IF ~Exists(q) THEN "idle"
                                 ELSE IF del[q] = "first" THEN "again" ELSE "delete"]
    /\ UNCHANGED <<doc, rooms, told, ask, reply, passes, asked, autos, crashes>>

DelWrite(q) ==
    /\ del[q] = "delete"
    /\ doc' = [doc EXCEPT ![q] = NoDoc]
    /\ del' = [del EXCEPT ![q] = "idle"]
    /\ UNCHANGED <<rooms, told, ask, reply, passes, asked, autos, crashes>>

-----------------------------------------------------------------------------
(* The cron pass: vorderFeedback.                                          *)

\* The query of getStayResVorders.  Variant: the system's own answer is not
\* looked at.
DueToProvider(q) == Exists(q) /\ doc[q].old /\ doc[q].provider = 0
Due(q) == Exists(q) /\ doc[q].old /\ doc[q].provider = 0 /\ doc[q].system = 0

PassStart(p) ==
    /\ pass[p] = "idle"
    /\ pass' = [pass EXCEPT ![p] = "scan"]
    /\ todo' = [todo EXCEPT ![p] = Pairs]
    /\ UNCHANGED <<doc, rooms, told, requests, found, task, ends, asked, autos, crashes>>

Scan(p, q) ==
    /\ pass[p] = "scan" /\ q \in todo[p]
    /\ todo' = [todo EXCEPT ![p] = todo[p] \ {q}]
    /\ found' = [found EXCEPT ![p] =
                    [found[p] EXCEPT ![q] = IF Due(q) THEN doc[q].gen ELSE 0]]
    /\ UNCHANGED <<doc, rooms, told, requests, pass, task, ends, asked, autos, crashes>>

\* forEach starts every task and waits for none.
Launch(p) ==
    /\ pass[p] = "scan" /\ todo[p] = {}
    /\ pass' = [pass EXCEPT ![p] = "run"]
    /\ task' = [task EXCEPT ![p] =
                   [q \in Pairs |-> IF found[p][q] # 0 THEN "unread" ELSE "idle"]]
    /\ UNCHANGED <<doc, rooms, told, requests, todo, found, ends, asked, autos, crashes>>

\* Variant: the pass is never over.
PassEndHung(p) ==
    /\ pass[p] = "run" /\ \A q \in Pairs : task[p][q] = "idle"
    /\ found' = [found EXCEPT ![p] = [q \in Pairs |-> 0]]
    /\ UNCHANGED <<doc, rooms, told, requests, pass, todo, task, ends, asked, autos, crashes>>
PassEnd(p) ==
    /\ pass[p] = "run" /\ \A q \in Pairs : task[p][q] = "idle"
    /\ pass' = [pass EXCEPT ![p] = "idle"]
    /\ found' = [found EXCEPT ![p] = [q \in Pairs |-> 0]]
    /\ UNCHANGED <<doc, rooms, told, requests, todo, task, ends, asked, autos, crashes>>

\* The process dies: every handler with it; documents and messages stay.
Die ==
    /\ ask' = [q \in Pairs |-> "idle"]
    /\ reply' = [q \in Pairs |-> "idle"]
    /\ del' = [q \in Pairs |-> "idle"]
    /\ pass' = [p \in Passes |-> "idle"]
    /\ todo' = [p \in Passes |-> {}]
    /\ found' = [p \in Passes |-> [q \in Pairs |-> 0]]
    /\ task' = [p \in Passes |-> [q \in Pairs |-> "idle"]]
    /\ ends' = IF ends = Many THEN Many ELSE ends + 1

TaskGoto(p, q, step) ==
    /\ task' = [task EXCEPT ![p] = [task[p] EXCEPT ![q] = step]]
    /\ UNCHANGED <<requests, pass, todo, found, ends>>

\* setUnreadCountAndLastMessage makes the member's room when there is none, then
\* updates the provider's, which must exist.
TaskUnread(p, q) ==
    /\ task[p][q] = "unread"
    /\ rooms' = [rooms EXCEPT ![q] = rooms[q] \cup {"member"}]
    /\ IF "provider" \in rooms[q] THEN TaskGoto(p, q, "provider") ELSE Die
    /\ UNCHANGED <<doc, told, asked, autos, crashes>>

\* The answer goes to the provider's list, then to the member's, then it is
\* noted.  Variant: it is noted too early.
AfterPushEarly(box) == "mark"
AfterPush(box) == IF box = "provider" THEN "member" ELSE "mark"

TaskPush(p, q) ==
    /\ task[p][q] \in Boxes
    /\ told' = [told EXCEPT ![q] = told[q] \cup {task[p][q]}]
    /\ TaskGoto(p, q, AfterPush(task[p][q]))
    /\ LET g == found[p][q]
           n == autos[p][q][g] IN
       autos' = IF task[p][q] # "member" THEN autos
                ELSE [autos EXCEPT ![p][q][g] = IF n = Many THEN Many ELSE n + 1]
    /\ UNCHANGED <<doc, rooms, asked, crashes>>

\* isSystemFeedBack: 1.  Variant: the whole document is written.
NotedWhole(q) == [doc[q] EXCEPT !.provider = 0, !.system = 1]
Noted(q) == [doc[q] EXCEPT !.system = 1]

\* Variants of TaskMark: set with merge, which makes a document of one field when
\* there is none; set with the inquiry that was read.
TaskMarkMerge(p, q) ==
    /\ task[p][q] = "mark"
    /\ doc' = [doc EXCEPT ![q] = Noted(q)]
    /\ TaskGoto(p, q, "offer")
    /\ UNCHANGED <<rooms, told, asked, autos, crashes>>
TaskMarkSet(p, q) ==
    /\ task[p][q] = "mark"
    /\ doc' = [doc EXCEPT ![q] = [Fresh(found[p][q]) EXCEPT !.system = 1]]
    /\ TaskGoto(p, q, "offer")
    /\ UNCHANGED <<rooms, told, asked, autos, crashes>>

\* updateVorderAutoFeedBack: an update of whatever document is there now.
TaskMark(p, q) ==
    /\ task[p][q] = "mark"
    /\ \/ /\ Exists(q)
          /\ doc' = [doc EXCEPT ![q] = Noted(q)]
          /\ TaskGoto(p, q, "offer")
       \/ ~Exists(q) /\ Die /\ UNCHANGED doc
    /\ UNCHANGED <<rooms, told, asked, autos, crashes>>

\* In some districts the member is offered a demand besides.
TaskOffer(p, q) ==
    /\ task[p][q] = "offer"
    /\ TaskGoto(p, q, "idle")
    /\ UNCHANGED <<doc, rooms, told, asked, autos, crashes>>

-----------------------------------------------------------------------------
(* Time and crashes.                                                       *)

\* Hours go by: a handler that just wrote the document has ended by then.
Age(q) ==
    /\ Exists(q) /\ ~doc[q].old /\ ask[q] = "idle"
    /\ doc' = [doc EXCEPT ![q] = [doc[q] EXCEPT !.old = TRUE]]
    /\ UNCHANGED <<rooms, told, requests, passes, asked, autos, crashes>>

Crash ==
    /\ crashes < MaxCrashes
    /\ crashes' = crashes + 1
    /\ Die
    /\ UNCHANGED <<doc, rooms, told, asked, autos>>

-----------------------------------------------------------------------------
AskStep(q)     == AskWrite(q) \/ AskRooms(q) \/ AskTell(q)
ReplyStep(q)   == ReplyMark(q) \/ ReplyPush(q)
DelStep(q)     == DelCheck(q) \/ DelWrite(q)
TaskStep(p, q) == \/ TaskUnread(p, q) \/ TaskPush(p, q)
                  \/ TaskMark(p, q) \/ TaskOffer(p, q)
PassStep(p)    == \/ PassStart(p) \/ Launch(p) \/ PassEnd(p)
                  \/ \E q \in Pairs : Scan(p, q)

Next ==
    \/ \E q \in Pairs : \/ AskRead(q) \/ ReplyRead(q) \/ DelRead(q)
                        \/ AskStep(q) \/ ReplyStep(q) \/ DelStep(q)
                        \/ Age(q)
    \/ \E p \in Passes : PassStep(p) \/ \E q \in Pairs : TaskStep(p, q)
    \/ Crash

Spec == Init /\ [][Next]_vars

\* Handlers and tasks that were started go on, and cron starts its pass again
\* and again.  Nobody has to ask, answer or delete.
FairSpec ==
    /\ Spec
    /\ \A q \in Pairs : /\ WF_vars(AskStep(q)) /\ WF_vars(ReplyStep(q))
                        /\ WF_vars(DelStep(q))
    /\ \A p \in Passes : /\ WF_vars(PassStep(p))
                         /\ \A q \in Pairs : WF_vars(TaskStep(p, q))

-----------------------------------------------------------------------------
(* Properties.                                                             *)

Docs == [gen : 0..MaxAsks, provider : {0, 1}, system : {0, 1}, old : BOOLEAN]
Counts == [1..MaxAsks -> 0..Many]

\* The types of the variables; a document that does not exist holds nothing.
TypeOK ==
    /\ doc \in [Pairs -> Docs]
    /\ \A q \in Pairs : Exists(q) \/ doc[q] = NoDoc
    /\ rooms \in [Pairs -> SUBSET Boxes]
    /\ told \in [Pairs -> SUBSET Boxes]
    /\ ask \in [Pairs -> {"idle", "set", "update", "rooms", "tell"}]
    /\ reply \in [Pairs -> {"idle", "mark", "push"}]
    /\ del \in [Pairs -> {"idle", "first", "again", "delete"}]
    /\ pass \in [Passes -> {"idle", "scan", "run"}]
    /\ todo \in [Passes -> SUBSET Pairs]
    /\ found \in [Passes -> [Pairs -> 0..MaxAsks]]
    /\ task \in [Passes -> [Pairs -> {"idle", "unread", "mark", "offer"} \cup Boxes]]
    /\ asked \in [Pairs -> 0..MaxAsks]
    /\ autos \in [Passes -> [Pairs -> Counts]]
    /\ ends \in 0..Many /\ crashes \in 0..MaxCrashes

\* The automatic answer is sent before it is noted: whatever crashes in
\* between, an inquiry noted as answered by the system has had an automatic
\* answer pushed to both message lists of its pair.
MarkedWasTold == \A q \in Pairs : doc[q].system = 1 => told[q] = Boxes

\* The provider's mark and the system's are written by handlers that do not see
\* each other; neither wipes out the other's, and only asking again resets them.
MarksStay ==
    [][\A q \in Pairs : Exists(q) /\ doc'[q].gen = doc[q].gen =>
          doc[q].provider <= doc'[q].provider /\ doc[q].system <= doc'[q].system]_vars

\* A mark that arrives after the inquiry was deleted does not bring it back.
NoReturn ==
    [][\A q \in Pairs : ~Exists(q) /\ doc'[q].gen # 0 => asked'[q] > asked[q]]_vars

\* set-vorder ended before the provider's room: its task ends the process.
HalfMade(q) == Due(q) /\ "provider" \notin rooms[q]

\* An inquiry left unanswered whose rooms are there is taken care of in the end,
\* whatever ends the process meanwhile, unless some inquiry (of this pair or of another
\* one) keeps coming up whose rooms are not: every pass then ends the process,
\* and may do so before this one's answer is noted.
DueIsHandled ==
    \A q \in Pairs : \/ Due(q) /\ rooms[q] = Boxes ~> ~Due(q)
                     \/ []<>(\E o \in Pairs : HalfMade(o))

\* "neither the provider nor the system has answered": passes that follow one
\* another (those of the cron job, or those at boot) answer an inquiry once, and
\* once more for every end of the process that falls between the answer and its
\* mark, whatever passes started by the other overlap with them.
AnsweredOnce ==
    \A p \in Passes, q \in Pairs, g \in 1..MaxAsks : autos[p][q][g] <= 1 + ends

\* "check all inquiries and send the system's answer".
EveryInquiryAnswered == \A q \in Pairs : Due(q) ~> ~Due(q)
=============================================================================
