---------------------------- MODULE InquiryProofs ----------------------------
(***************************************************************************)
(* Theorems about Inquiry for any number of pairs, of overlapping passes,  *)
(* of inquiries and of crashes.  InquiryInv is the inductive invariant: an *)
(* answering task that got as far as the second list, or as the mark, has  *)
(* already left its messages behind, and a document's inquiry was asked.   *)
(* RoundInv adds when an inquiry may get one more answer from the passes   *)
(* that follow one another, whatever others overlap with them.             *)
(***************************************************************************)
EXTENDS Inquiry, TLAPS

Sent(q, box) == box \in told[q]

\* How far a task has got tells what it has sent.
SentOnTheWay ==
    \A p \in Passes, q \in Pairs :
        /\ task[p][q] \in {"member", "mark"} => Sent(q, "provider")
        /\ task[p][q] = "mark" => Sent(q, "member")

\* A document holds an inquiry that was asked; a request about to write one has
\* not reached the bound.
DocWasAsked ==
    \A q \in Pairs : /\ doc[q].gen <= asked[q]
                     /\ ask[q] \in {"set", "update"} => asked[q] < MaxAsks

InquiryInv == TypeOK /\ DocWasAsked /\ SentOnTheWay /\ MarkedWasTold

MarksStayStep ==
    \A q \in Pairs : Exists(q) /\ doc'[q].gen = doc[q].gen =>
        doc[q].provider <= doc'[q].provider /\ doc[q].system <= doc'[q].system

NoReturnStep ==
    \A q \in Pairs : ~Exists(q) /\ doc'[q].gen # 0 => asked'[q] > asked[q]

USE DEF requests, passes, Boxes, Die, TaskGoto
-----------------------------------------------------------------------------
LEMMA InitHolds == Init => InquiryInv
  <1> SUFFICES ASSUME Init PROVE InquiryInv
    OBVIOUS
  <1> USE InquiryAssumption DEF Init, NoDoc
  <1>1. TypeOK
    <2>1. [g \in 1..MaxAsks |-> 0] \in Counts
      BY DEF Counts, Many
    <2>2. doc \in [Pairs -> Docs]
      BY DEF Docs
    <2>3. 0 \in 0..Many /\ 0 \in 0..MaxAsks /\ 0 \in 0..MaxCrashes
      BY DEF Many
    <2> QED
      BY <2>1, <2>2, <2>3 DEF TypeOK, Exists
  <1>2. DocWasAsked
    <2> SUFFICES ASSUME NEW q \in Pairs
                 PROVE  /\ doc[q].gen <= asked[q]
                        /\ ask[q] \in {"set", "update"} => asked[q] < MaxAsks
      BY DEF DocWasAsked
    <2>1. doc[q].gen = 0 /\ asked[q] = 0 /\ ask[q] = "idle"
      OBVIOUS
    <2> HIDE DEF Init
    <2> QED
      BY <2>1
  <1>3. SentOnTheWay /\ MarkedWasTold
    BY DEF SentOnTheWay, MarkedWasTold
  <1> QED
    BY <1>1, <1>2, <1>3 DEF InquiryInv

\* What is written over a document keeps its type and its inquiry.
LEMMA DocRecords ==
    ASSUME NEW d \in Docs
    PROVE  LET provided == [d EXCEPT !.provider = 1]
               noted    == [d EXCEPT !.system = 1]
               aged     == [d EXCEPT !.old = TRUE]
           IN /\ provided \in Docs /\ provided.gen = d.gen
              /\ provided.provider = 1 /\ provided.system = d.system
              /\ noted \in Docs /\ noted.gen = d.gen
              /\ noted.provider = d.provider /\ noted.system = 1
              /\ aged \in Docs /\ aged.gen = d.gen
              /\ aged.provider = d.provider /\ aged.system = d.system
  BY DEF Docs

LEMMA DocFields ==
    ASSUME TypeOK, NEW q \in Pairs
    PROVE  /\ doc[q] \in Docs /\ doc[q].gen \in Nat
           /\ doc[q].provider \in {0, 1} /\ doc[q].system \in {0, 1}
           /\ Exists(q) \/ doc[q] = NoDoc
  <1>1. doc[q] \in Docs /\ (Exists(q) \/ doc[q] = NoDoc)
    BY DEF TypeOK
  <1> QED
    BY <1>1, InquiryAssumption DEF Docs

LEMMA NewDocs ==
    /\ NoDoc \in Docs /\ NoDoc.gen = 0 /\ NoDoc.provider = 0 /\ NoDoc.system = 0
    /\ \A g \in 1..MaxAsks : /\ Fresh(g) \in Docs /\ Fresh(g).gen = g
                             /\ Fresh(g).provider = 0 /\ Fresh(g).system = 0
  BY InquiryAssumption DEF Docs, NoDoc, Fresh

\* A document, a deletion or a set of rooms is replaced by another.
LEMMA DocPut ==
    ASSUME TypeOK, NEW q \in Pairs, NEW d \in Docs, d.gen # 0 \/ d = NoDoc,
           doc' = [doc EXCEPT ![q] = d]
    PROVE  doc' \in [Pairs -> Docs] /\ \A i \in Pairs : doc'[i].gen # 0 \/ doc'[i] = NoDoc
  <1>1. doc \in [Pairs -> Docs] /\ \A i \in Pairs : doc[i].gen # 0 \/ doc[i] = NoDoc
    BY DEF TypeOK, Exists
  <1>2. \A i \in Pairs : doc'[i] = IF i = q THEN d ELSE doc[i]
    BY <1>1
  <1> QED
    BY <1>1, <1>2

Dels == {"idle", "first", "again", "delete"}

LEMMA RoomsPut ==
    ASSUME TypeOK, NEW q \in Pairs, NEW made \in SUBSET Boxes
    PROVE  /\ [rooms EXCEPT ![q] = made] \in [Pairs -> SUBSET Boxes]
           /\ [rooms EXCEPT ![q] = rooms[q] \cup made] \in [Pairs -> SUBSET Boxes]
  <1>1. rooms \in [Pairs -> SUBSET Boxes]
    BY DEF TypeOK
  <1>2. rooms[q] \cup made \in SUBSET Boxes
    BY <1>1
  <1> QED
    BY <1>1, <1>2

\* One more answer by pass p.
More(p, q, g) == [autos EXCEPT ![p][q][g] = IF autos[p][q][g] = Many THEN Many
                                            ELSE autos[p][q][g] + 1]
LEMMA AutosPut ==
    ASSUME TypeOK, NEW p \in Passes, NEW q \in Pairs, NEW g
    PROVE  /\ More(p, q, g) \in [Passes -> [Pairs -> Counts]]
           /\ \A r \in Passes, s \in Pairs, h \in 1..MaxAsks :
                 More(p, q, g)[r][s][h] =
                    IF r = p /\ s = q /\ h = g
                    THEN IF autos[p][q][g] = Many THEN Many ELSE autos[p][q][g] + 1
                    ELSE autos[r][s][h]
  <1> DEFINE n == IF autos[p][q][g] = Many THEN Many ELSE autos[p][q][g] + 1
             row == [autos[p][q] EXCEPT ![g] = n]
  <1>1. autos \in [Passes -> [Pairs -> Counts]]
    BY DEF TypeOK
  <1>2. g \in 1..MaxAsks => n \in 0..Many
    <2>1. SUFFICES ASSUME g \in 1..MaxAsks PROVE n \in 0..Many
      OBVIOUS
    <2>2. autos[p][q] \in Counts /\ Many \in Nat
      BY <1>1, InquiryAssumption DEF Many
    <2>3. autos[p][q][g] \in 0..Many
      BY <2>1, <2>2 DEF Counts
    <2> QED
      BY <2>2, <2>3
  <1>3. More(p, q, g) = [autos EXCEPT ![p] = [autos[p] EXCEPT ![q] = row]]
    BY DEF More
  <1> HIDE DEF n
  <1>4. /\ row \in Counts
        /\ \A h \in 1..MaxAsks : row[h] = IF h = g THEN n ELSE autos[p][q][h]
    <2>1. autos[p][q] \in [1..MaxAsks -> 0..Many]
      BY <1>1 DEF Counts
    <2>2. row \in [1..MaxAsks -> 0..Many]
      BY <1>2, <2>1
    <2>3. \A h \in 1..MaxAsks : row[h] = IF h = g THEN n ELSE autos[p][q][h]
      BY <2>1
    <2> HIDE DEF row
    <2> QED
      BY <2>2, <2>3 DEF Counts
  <1> HIDE DEF row
  <1>5. /\ More(p, q, g) \in [Passes -> [Pairs -> Counts]]
        /\ \A r \in Passes, s \in Pairs :
              More(p, q, g)[r][s] = IF r = p /\ s = q THEN row ELSE autos[r][s]
    BY <1>1, <1>3, <1>4
  <1> QED
    BY <1>4, <1>5 DEF n

LEMMA NextAsk ==
    ASSUME TypeOK, DocWasAsked, NEW q \in Pairs, ask[q] \in {"set", "update"}
    PROVE  asked[q] + 1 \in 1..MaxAsks /\ asked[q] \in Nat
  BY InquiryAssumption DEF TypeOK, DocWasAsked

\* An end of the process leaves nothing running.
LEMMA DieTyped ==
    ASSUME TypeOK, Die
    PROVE  /\ ask' \in [Pairs -> {"idle", "set", "update", "rooms", "tell"}]
           /\ reply' \in [Pairs -> {"idle", "mark", "push"}]
           /\ del' \in [Pairs -> Dels]
           /\ pass' \in [Passes -> {"idle", "scan", "run"}]
           /\ todo' \in [Passes -> SUBSET Pairs]
           /\ found' \in [Passes -> [Pairs -> 0..MaxAsks]]
           /\ task' \in [Passes -> [Pairs -> {"idle", "unread", "mark", "offer"} \cup Boxes]]
           /\ ends' \in 0..Many
  <1>1. Many \in Nat /\ ends \in 0..Many
    BY InquiryAssumption DEF Many, TypeOK
  <1>2. (IF ends = Many THEN Many ELSE ends + 1) \in 0..Many
    BY <1>1
  <1>3. 0 \in 0..MaxAsks
    BY InquiryAssumption
  <1> HIDE DEF Many
  <1> QED
    BY <1>2, <1>3 DEF Dels

LEMMA TypeKept == InquiryInv /\ [Next]_vars => TypeOK'
  <1> SUFFICES ASSUME InquiryInv, [Next]_vars PROVE TypeOK'
    OBVIOUS
  <1> USE InquiryAssumption DEF InquiryInv, TypeOK
  <1>1. ASSUME NEW q \in Pairs, AskRead(q) PROVE TypeOK'
    BY <1>1 DEF AskRead, Exists
  <1>2. ASSUME NEW q \in Pairs, AskWrite(q) PROVE TypeOK'
    <2>1. CASE /\ ask[q] \in {"set", "update"}
              /\ doc' = [doc EXCEPT ![q] = Fresh(asked[q] + 1)]
      <3>1. /\ Fresh(asked[q] + 1) \in Docs /\ Fresh(asked[q] + 1).gen # 0
            /\ asked[q] + 1 \in 0..MaxAsks
        BY <2>1, NextAsk, NewDocs
      <3>2. doc' \in [Pairs -> Docs] /\ \A i \in Pairs : doc'[i].gen # 0 \/ doc'[i] = NoDoc
        BY <2>1, <3>1, DocPut
      <3>3. asked' \in [Pairs -> 0..MaxAsks]
        BY <1>2, <3>1 DEF AskWrite
      <3>4. ask' = [ask EXCEPT ![q] = "rooms"] \/ ask' = [ask EXCEPT ![q] = "idle"]
        BY <1>2 DEF AskWrite
      <3>5. ask' \in [Pairs -> {"idle", "set", "update", "rooms", "tell"}]
        BY <3>4
      <3> QED
        BY <1>2, <3>2, <3>3, <3>5 DEF AskWrite, Exists
    <2>2. CASE UNCHANGED <<asked, doc>>
      BY <1>2, <2>2 DEF AskWrite, Exists
    <2> QED
      BY <1>2, <2>1, <2>2 DEF AskWrite
  <1>3. ASSUME NEW q \in Pairs, AskRooms(q) PROVE TypeOK'
    <2>1. PICK made \in SUBSET Boxes :
              \/ rooms' = [rooms EXCEPT ![q] = made]
              \/ rooms' = [rooms EXCEPT ![q] = rooms[q] \cup made]
      BY <1>3 DEF AskRooms
    <2>2. /\ [rooms EXCEPT ![q] = made] \in [Pairs -> SUBSET Boxes]
         /\ [rooms EXCEPT ![q] = rooms[q] \cup made] \in [Pairs -> SUBSET Boxes]
      BY RoomsPut
    <2>3. rooms' \in [Pairs -> SUBSET Boxes]
      BY <2>1, <2>2
    <2>4. ask' = [ask EXCEPT ![q] = "tell"] \/ ask' = [ask EXCEPT ![q] = "idle"]
      BY <1>3 DEF AskRooms
    <2>5. ask' \in [Pairs -> {"idle", "set", "update", "rooms", "tell"}]
      BY <2>4
    <2> QED
      BY <1>3, <2>3, <2>5 DEF AskRooms, Exists
  <1>4. ASSUME NEW q \in Pairs, AskTell(q) PROVE TypeOK'
    BY <1>4 DEF AskTell, Exists
  <1>5. ASSUME NEW q \in Pairs, ReplyRead(q) PROVE TypeOK'
    BY <1>5 DEF ReplyRead, Exists
  <1>6. ASSUME NEW q \in Pairs, ReplyMark(q) PROVE TypeOK'
    <2>1. /\ [doc[q] EXCEPT !.provider = 1] \in Docs
         /\ ([doc[q] EXCEPT !.provider = 1]).gen = doc[q].gen
      BY DocFields, DocRecords
    <2>2. CASE Exists(q) /\ doc' = [doc EXCEPT ![q] = [doc[q] EXCEPT !.provider = 1]]
      <3>1. doc' \in [Pairs -> Docs] /\ \A i \in Pairs : doc'[i].gen # 0 \/ doc'[i] = NoDoc
        BY <2>1, <2>2, DocPut DEF Exists
      <3> QED
        BY <1>6, <3>1 DEF ReplyMark, Exists
    <2>3. CASE ~Exists(q) /\ doc' = doc
      <3>1. reply' = [reply EXCEPT ![q] = "idle"] \/ reply' = [reply EXCEPT ![q] = "push"]
        BY <1>6 DEF ReplyMark
      <3>2. reply' \in [Pairs -> {"idle", "mark", "push"}]
        BY <3>1
      <3> QED
        BY <1>6, <2>3, <3>2 DEF ReplyMark, Exists
    <2> QED
      BY <1>6, <2>2, <2>3 DEF ReplyMark, Exists
  <1>7. ASSUME NEW q \in Pairs, ReplyPush(q) PROVE TypeOK'
    BY <1>7 DEF ReplyPush, Exists
  <1>8. ASSUME NEW q \in Pairs, DelRead(q) PROVE TypeOK'
    BY <1>8 DEF DelRead, Exists
  <1>9. ASSUME NEW q \in Pairs, DelCheck(q) PROVE TypeOK'
    BY <1>9 DEF DelCheck, Exists
  <1>10. ASSUME NEW q \in Pairs, DelWrite(q) PROVE TypeOK'
    <2>1. doc' \in [Pairs -> Docs] /\ \A i \in Pairs : doc'[i].gen # 0 \/ doc'[i] = NoDoc
      BY <1>10, NewDocs, DocPut DEF DelWrite
    <2>2. del' \in [Pairs -> Dels]
      BY <1>10 DEF DelWrite, Dels
    <2> QED
      BY <1>10, <2>1, <2>2 DEF DelWrite, Exists, Dels
  <1>11. ASSUME NEW q \in Pairs, Age(q) PROVE TypeOK'
    <2>1. /\ [doc[q] EXCEPT !.old = TRUE] \in Docs
         /\ ([doc[q] EXCEPT !.old = TRUE]).gen = doc[q].gen
      BY DocFields, DocRecords
    <2>2. CASE Exists(q) /\ doc' = [doc EXCEPT ![q] = [doc[q] EXCEPT !.old = TRUE]]
      <3>1. doc' \in [Pairs -> Docs] /\ \A i \in Pairs : doc'[i].gen # 0 \/ doc'[i] = NoDoc
        BY <2>1, <2>2, DocPut DEF Exists
      <3> QED
        BY <1>11, <3>1 DEF Age, Exists
    <2>3. CASE ~Exists(q) /\ doc' = doc
      BY <1>11, <2>3 DEF Age, Exists, Dels
    <2> QED
      BY <1>11, <2>2, <2>3 DEF Age, Exists
  <1>12. ASSUME NEW p \in Passes, PassStart(p) PROVE TypeOK'
    BY <1>12 DEF PassStart, Exists
  <1>13. ASSUME NEW p \in Passes, Launch(p) PROVE TypeOK'
    BY <1>13 DEF Launch, Exists
  <1>14. ASSUME NEW p \in Passes, PassEnd(p) PROVE TypeOK'
    BY <1>14 DEF PassEnd, Exists
  <1>15. ASSUME NEW p \in Passes, NEW q \in Pairs, Scan(p, q) PROVE TypeOK'
    <2>1. doc[q].gen \in 0..MaxAsks /\ 0 \in 0..MaxAsks
      BY DEF Docs
    <2>2. /\ found' \in [Passes -> [Pairs -> 0..MaxAsks]]
          /\ todo' \in [Passes -> SUBSET Pairs]
      BY <1>15, <2>1 DEF Scan
    <2> QED
      BY <1>15, <2>2 DEF Scan, Exists
  <1>16. ASSUME NEW p \in Passes, NEW q \in Pairs, TaskUnread(p, q) PROVE TypeOK'
    <2>1. rooms' \in [Pairs -> SUBSET Boxes]
      BY <1>16 DEF TaskUnread
    <2>2. CASE TaskGoto(p, q, "provider")
      BY <1>16, <2>1, <2>2 DEF TaskUnread, Exists
    <2>3. CASE Die
      <3>1. UNCHANGED <<doc, told, asked, autos, crashes>>
        BY <1>16 DEF TaskUnread
      <3> HIDE DEF Die
      <3> QED
        BY <2>1, <2>3, <3>1, DieTyped DEF Exists, Dels
    <2> QED
      BY <1>16, <2>2, <2>3 DEF TaskUnread
  <1>17. ASSUME NEW p \in Passes, NEW q \in Pairs, TaskPush(p, q) PROVE TypeOK'
    <2>1. told' \in [Pairs -> SUBSET Boxes]
      BY <1>17 DEF TaskPush
    <2>2. autos' \in [Passes -> [Pairs -> Counts]]
      <3>1. CASE autos' = autos
        BY <3>1
      <3>2. CASE autos' = More(p, q, found[p][q])
        BY <3>2, AutosPut
      <3> QED
        BY <1>17, <3>1, <3>2 DEF TaskPush, More
    <2>3. task' \in [Passes -> [Pairs -> {"idle", "unread", "mark", "offer"} \cup Boxes]]
      BY <1>17 DEF TaskPush, AfterPush
    <2> QED
      BY <1>17, <2>1, <2>2, <2>3 DEF TaskPush, Exists
  <1>18. ASSUME NEW p \in Passes, NEW q \in Pairs, TaskMark(p, q) PROVE TypeOK'
    <2>1. /\ [doc[q] EXCEPT !.system = 1] \in Docs
         /\ ([doc[q] EXCEPT !.system = 1]).gen = doc[q].gen
      BY DocFields, DocRecords
    <2>2. CASE Exists(q) /\ doc' = [doc EXCEPT ![q] = [doc[q] EXCEPT !.system = 1]]
      <3>1. doc' \in [Pairs -> Docs] /\ \A i \in Pairs : doc'[i].gen # 0 \/ doc'[i] = NoDoc
        BY <2>1, <2>2, DocPut DEF Exists
      <3>2. TaskGoto(p, q, "offer")
        BY <1>18, <2>2 DEF TaskMark
      <3>3. task' \in [Passes -> [Pairs -> {"idle", "unread", "mark", "offer"} \cup Boxes]]
        BY <3>2
      <3> QED
        BY <1>18, <3>1, <3>2, <3>3 DEF TaskMark, Exists
    <2>3. CASE ~Exists(q) /\ doc' = doc
      <3>1. Die
        BY <1>18, <2>3 DEF TaskMark
      <3>2. UNCHANGED <<rooms, told, asked, autos, crashes>>
        BY <1>18 DEF TaskMark
      <3> HIDE DEF Die
      <3> QED
        BY <2>3, <3>1, <3>2, DieTyped DEF Exists, Dels
    <2> QED
      BY <1>18, <2>2, <2>3 DEF TaskMark, Noted, Exists
  <1>19. ASSUME NEW p \in Passes, NEW q \in Pairs, TaskOffer(p, q) PROVE TypeOK'
    BY <1>19 DEF TaskOffer, Exists
  <1>20. CASE Crash
    <2>1. Die /\ UNCHANGED <<doc, rooms, told, asked, autos>> /\ crashes' \in 0..MaxCrashes
      BY <1>20 DEF Crash
    <2> HIDE DEF Die
    <2> QED
      BY <2>1, DieTyped DEF Dels, Exists
  <1>21. CASE UNCHANGED vars
    BY <1>21 DEF vars, Exists
  <1> QED
    BY <1>1, <1>2, <1>3, <1>4, <1>5, <1>6, <1>7, <1>8, <1>9, <1>10,
       <1>11, <1>12, <1>13, <1>14, <1>15, <1>16, <1>17, <1>18, <1>19, <1>20, <1>21
    DEF Next, AskStep, ReplyStep, DelStep, TaskStep, PassStep

LEMMA AskedKept == InquiryInv /\ [Next]_vars => DocWasAsked'
  <1> SUFFICES ASSUME InquiryInv, [Next]_vars PROVE DocWasAsked'
    OBVIOUS
  <1> USE InquiryAssumption DEF InquiryInv, TypeOK, Docs, NoDoc, DocWasAsked
  <1>1. ASSUME NEW q \in Pairs, AskRead(q) PROVE DocWasAsked'
    BY <1>1 DEF AskRead, Exists
  <1>2. ASSUME NEW q \in Pairs, AskWrite(q) PROVE DocWasAsked'
    BY <1>2 DEF AskWrite, Exists, Fresh
  <1>3. ASSUME NEW q \in Pairs, AskRooms(q) PROVE DocWasAsked'
    BY <1>3 DEF AskRooms
  <1>4. ASSUME NEW q \in Pairs, AskTell(q) PROVE DocWasAsked'
    BY <1>4 DEF AskTell
  <1>5. ASSUME NEW q \in Pairs, ReplyRead(q) PROVE DocWasAsked'
    BY <1>5 DEF ReplyRead, Exists
  <1>6. ASSUME NEW q \in Pairs, ReplyMark(q) PROVE DocWasAsked'
    <2>1. ([doc[q] EXCEPT !.provider = 1]).gen = doc[q].gen
      BY DocFields, DocRecords
    <2>2. \A i \in Pairs : doc'[i].gen = doc[i].gen
      BY <1>6, <2>1 DEF TypeOK, ReplyMark
    <2> QED
      BY <1>6, <2>2 DEF ReplyMark
  <1>7. ASSUME NEW q \in Pairs, ReplyPush(q) PROVE DocWasAsked'
    BY <1>7 DEF ReplyPush
  <1>8. ASSUME NEW q \in Pairs, DelRead(q) PROVE DocWasAsked'
    BY <1>8 DEF DelRead, Exists
  <1>9. ASSUME NEW q \in Pairs, DelCheck(q) PROVE DocWasAsked'
    BY <1>9 DEF DelCheck, Exists
  <1>10. ASSUME NEW q \in Pairs, DelWrite(q) PROVE DocWasAsked'
    BY <1>10 DEF DelWrite
  <1>11. ASSUME NEW q \in Pairs, Age(q) PROVE DocWasAsked'
    <2>1. ([doc[q] EXCEPT !.old = TRUE]).gen = doc[q].gen
      BY DocFields, DocRecords
    <2>2. \A i \in Pairs : doc'[i].gen = doc[i].gen
      BY <1>11, <2>1 DEF TypeOK, Age
    <2> QED
      BY <1>11, <2>2 DEF Age
  <1>12. ASSUME NEW p \in Passes, PassStart(p) PROVE DocWasAsked'
    BY <1>12 DEF PassStart
  <1>13. ASSUME NEW p \in Passes, Launch(p) PROVE DocWasAsked'
    BY <1>13 DEF Launch
  <1>14. ASSUME NEW p \in Passes, PassEnd(p) PROVE DocWasAsked'
    BY <1>14 DEF PassEnd
  <1>15. ASSUME NEW p \in Passes, NEW q \in Pairs, Scan(p, q) PROVE DocWasAsked'
    BY <1>15 DEF Scan, Due, Exists
  <1>16. ASSUME NEW p \in Passes, NEW q \in Pairs, TaskUnread(p, q) PROVE DocWasAsked'
    BY <1>16 DEF TaskUnread
  <1>17. ASSUME NEW p \in Passes, NEW q \in Pairs, TaskPush(p, q) PROVE DocWasAsked'
    BY <1>17 DEF TaskPush, AfterPush
  <1>18. ASSUME NEW p \in Passes, NEW q \in Pairs, TaskMark(p, q) PROVE DocWasAsked'
    <2>1. ([doc[q] EXCEPT !.system = 1]).gen = doc[q].gen
      BY DocFields, DocRecords
    <2>2. \A i \in Pairs : doc'[i].gen = doc[i].gen
      BY <1>18, <2>1 DEF TypeOK, TaskMark, Noted
    <2> QED
      BY <1>18, <2>2 DEF TaskMark, Noted
  <1>19. ASSUME NEW p \in Passes, NEW q \in Pairs, TaskOffer(p, q) PROVE DocWasAsked'
    BY <1>19 DEF TaskOffer
  <1>20. CASE Crash
    BY <1>20 DEF Crash
  <1>21. CASE UNCHANGED vars
    BY <1>21 DEF vars
  <1> QED
    BY <1>1, <1>2, <1>3, <1>4, <1>5, <1>6, <1>7, <1>8, <1>9, <1>10,
       <1>11, <1>12, <1>13, <1>14, <1>15, <1>16, <1>17, <1>18, <1>19, <1>20, <1>21
    DEF Next, AskStep, ReplyStep, DelStep, TaskStep, PassStep

\* What was pushed stays pushed.
ToldGrows == \A q \in Pairs : told[q] \subseteq told'[q]
LEMMA PushedKept == InquiryInv /\ [Next]_vars => ToldGrows
  <1> SUFFICES ASSUME InquiryInv, [Next]_vars PROVE ToldGrows
    OBVIOUS
  <1> USE DEF InquiryInv, ToldGrows
  <1>1. ASSUME NEW q \in Pairs, AskRead(q) PROVE ToldGrows
    BY <1>1 DEF AskRead, Exists
  <1>2. ASSUME NEW q \in Pairs, AskWrite(q) PROVE ToldGrows
    BY <1>2 DEF AskWrite, Exists, Fresh
  <1>3. ASSUME NEW q \in Pairs, AskRooms(q) PROVE ToldGrows
    BY <1>3 DEF AskRooms
  <1>4. ASSUME NEW q \in Pairs, AskTell(q) PROVE ToldGrows
    BY <1>4 DEF AskTell
  <1>5. ASSUME NEW q \in Pairs, ReplyRead(q) PROVE ToldGrows
    BY <1>5 DEF ReplyRead, Exists
  <1>6. ASSUME NEW q \in Pairs, ReplyMark(q) PROVE ToldGrows
    BY <1>6 DEF ReplyMark, Exists
  <1>7. ASSUME NEW q \in Pairs, ReplyPush(q) PROVE ToldGrows
    BY <1>7 DEF ReplyPush
  <1>8. ASSUME NEW q \in Pairs, DelRead(q) PROVE ToldGrows
    BY <1>8 DEF DelRead, Exists
  <1>9. ASSUME NEW q \in Pairs, DelCheck(q) PROVE ToldGrows
    BY <1>9 DEF DelCheck, Exists
  <1>10. ASSUME NEW q \in Pairs, DelWrite(q) PROVE ToldGrows
    BY <1>10 DEF DelWrite
  <1>11. ASSUME NEW q \in Pairs, Age(q) PROVE ToldGrows
    BY <1>11 DEF Age, Exists
  <1>12. ASSUME NEW p \in Passes, PassStart(p) PROVE ToldGrows
    BY <1>12 DEF PassStart
  <1>13. ASSUME NEW p \in Passes, Launch(p) PROVE ToldGrows
    BY <1>13 DEF Launch
  <1>14. ASSUME NEW p \in Passes, PassEnd(p) PROVE ToldGrows
    BY <1>14 DEF PassEnd
  <1>15. ASSUME NEW p \in Passes, NEW q \in Pairs, Scan(p, q) PROVE ToldGrows
    BY <1>15 DEF Scan, Due, Exists
  <1>16. ASSUME NEW p \in Passes, NEW q \in Pairs, TaskUnread(p, q) PROVE ToldGrows
    BY <1>16 DEF TaskUnread
  <1>17. ASSUME NEW p \in Passes, NEW q \in Pairs, TaskPush(p, q) PROVE ToldGrows
    BY <1>17 DEF TaskPush, AfterPush
  <1>18. ASSUME NEW p \in Passes, NEW q \in Pairs, TaskMark(p, q) PROVE ToldGrows
    BY <1>18 DEF TaskMark, Noted, Exists
  <1>19. ASSUME NEW p \in Passes, NEW q \in Pairs, TaskOffer(p, q) PROVE ToldGrows
    BY <1>19 DEF TaskOffer
  <1>20. CASE Crash
    BY <1>20 DEF Crash
  <1>21. CASE UNCHANGED vars
    BY <1>21 DEF vars
  <1> QED
    BY <1>1, <1>2, <1>3, <1>4, <1>5, <1>6, <1>7, <1>8, <1>9, <1>10,
       <1>11, <1>12, <1>13, <1>14, <1>15, <1>16, <1>17, <1>18, <1>19, <1>20, <1>21
    DEF Next, AskStep, ReplyStep, DelStep, TaskStep, PassStep

LEMMA SentStays ==
    ASSUME InquiryInv, [Next]_vars, NEW q \in Pairs, NEW box, Sent(q, box)
    PROVE  Sent(q, box)'
  BY PushedKept DEF Sent, ToldGrows

\* What TaskPush adds.
LEMMA PushSends ==
    ASSUME TypeOK, NEW p, NEW q \in Pairs, TaskPush(p, q)
    PROVE  task[p][q] \in told'[q]
  BY DEF TaskPush, TypeOK

LEMMA SentKept == InquiryInv /\ [Next]_vars => SentOnTheWay'
  <1> SUFFICES ASSUME InquiryInv, [Next]_vars PROVE SentOnTheWay'
    OBVIOUS
  <1> USE DEF InquiryInv, SentOnTheWay
  <1>1. ASSUME NEW q \in Pairs, AskRead(q) PROVE SentOnTheWay'
    BY <1>1, SentStays DEF AskRead
  <1>2. ASSUME NEW q \in Pairs, AskWrite(q) PROVE SentOnTheWay'
    BY <1>2, SentStays DEF AskWrite
  <1>3. ASSUME NEW q \in Pairs, AskRooms(q) PROVE SentOnTheWay'
    BY <1>3, SentStays DEF AskRooms
  <1>4. ASSUME NEW q \in Pairs, AskTell(q) PROVE SentOnTheWay'
    BY <1>4, SentStays DEF AskTell
  <1>5. ASSUME NEW q \in Pairs, ReplyRead(q) PROVE SentOnTheWay'
    BY <1>5, SentStays DEF ReplyRead
  <1>6. ASSUME NEW q \in Pairs, ReplyMark(q) PROVE SentOnTheWay'
    BY <1>6, SentStays DEF ReplyMark
  <1>7. ASSUME NEW q \in Pairs, ReplyPush(q) PROVE SentOnTheWay'
    BY <1>7, SentStays DEF ReplyPush
  <1>8. ASSUME NEW q \in Pairs, DelRead(q) PROVE SentOnTheWay'
    BY <1>8, SentStays DEF DelRead
  <1>9. ASSUME NEW q \in Pairs, DelCheck(q) PROVE SentOnTheWay'
    BY <1>9, SentStays DEF DelCheck
  <1>10. ASSUME NEW q \in Pairs, DelWrite(q) PROVE SentOnTheWay'
    BY <1>10, SentStays DEF DelWrite
  <1>11. ASSUME NEW q \in Pairs, Age(q) PROVE SentOnTheWay'
    BY <1>11, SentStays DEF Age
  <1>12. ASSUME NEW p \in Passes, PassStart(p) PROVE SentOnTheWay'
    BY <1>12, SentStays DEF PassStart
  <1>13. ASSUME NEW p \in Passes, Launch(p) PROVE SentOnTheWay'
    <2>1. \A i \in Passes, j \in Pairs :
              task'[i][j] \in {"member", "mark"} => task'[i][j] = task[i][j]
      BY <1>13 DEF Launch, TypeOK
    <2> QED
      BY <2>1, SentStays
  <1>14. ASSUME NEW p \in Passes, PassEnd(p) PROVE SentOnTheWay'
    BY <1>14, SentStays DEF PassEnd
  <1>15. ASSUME NEW p \in Passes, NEW q \in Pairs, Scan(p, q) PROVE SentOnTheWay'
    BY <1>15, SentStays DEF Scan
  <1>16. ASSUME NEW p \in Passes, NEW q \in Pairs, TaskUnread(p, q) PROVE SentOnTheWay'
    <2>1. \A i \in Passes, j \in Pairs :
              task'[i][j] \in {"member", "mark"} => task'[i][j] = task[i][j]
      <3>1. CASE TaskGoto(p, q, "provider")
        BY <3>1 DEF TypeOK
      <3>2. CASE Die
        BY <3>2
      <3> QED
        BY <1>16, <3>1, <3>2 DEF TaskUnread
    <2> QED
      BY <2>1, SentStays
  <1>17. ASSUME NEW p \in Passes, NEW q \in Pairs, TaskPush(p, q) PROVE SentOnTheWay'
    <2>1. \A i \in Passes, j \in Pairs :
              task'[i][j] = IF i = p /\ j = q THEN AfterPush(task[p][q]) ELSE task[i][j]
      BY <1>17 DEF TaskPush, TypeOK
    <2>2. CASE task[p][q] = "provider"
      <3>1. Sent(q, "provider")'
        BY <1>17, <2>2, PushSends DEF Sent
      <3>2. \A i \in Passes, j \in Pairs :
                task'[i][j] \in {"member", "mark"} =>
                    \/ task'[i][j] = task[i][j]
                    \/ j = q /\ task'[i][j] = "member"
        <4>1. AfterPush(task[p][q]) = "member"
          BY <2>2 DEF AfterPush
        <4> QED
          BY <2>1, <4>1
      <3> QED
        BY <3>1, <3>2, SentStays
    <2>3. CASE task[p][q] = "member"
      <3>1. Sent(q, "member")' /\ Sent(q, "provider")'
        BY <1>17, <2>3, PushSends, SentStays DEF Sent
      <3>2. \A i \in Passes, j \in Pairs :
                task'[i][j] \in {"member", "mark"} => task'[i][j] = task[i][j] \/ j = q
        BY <2>1
      <3> QED
        BY <3>1, <3>2, SentStays
    <2> QED
      BY <1>17, <2>2, <2>3 DEF TaskPush
  <1>18. ASSUME NEW p \in Passes, NEW q \in Pairs, TaskMark(p, q) PROVE SentOnTheWay'
    <2>1. \A i \in Passes, j \in Pairs :
              task'[i][j] \in {"member", "mark"} => task'[i][j] = task[i][j]
      <3>1. CASE TaskGoto(p, q, "offer")
        BY <3>1 DEF TypeOK
      <3>2. CASE Die
        BY <3>2
      <3> QED
        BY <1>18, <3>1, <3>2 DEF TaskMark
    <2> QED
      BY <2>1, SentStays
  <1>19. ASSUME NEW p \in Passes, NEW q \in Pairs, TaskOffer(p, q) PROVE SentOnTheWay'
    <2>1. \A i \in Passes, j \in Pairs :
              task'[i][j] \in {"member", "mark"} => task'[i][j] = task[i][j]
      BY <1>19 DEF TaskOffer, TypeOK
    <2> QED
      BY <2>1, SentStays
  <1>20. CASE Crash
    BY <1>20 DEF Crash
  <1>21. CASE UNCHANGED vars
    BY <1>21, SentStays DEF vars
  <1> QED
    BY <1>1, <1>2, <1>3, <1>4, <1>5, <1>6, <1>7, <1>8, <1>9, <1>10,
       <1>11, <1>12, <1>13, <1>14, <1>15, <1>16, <1>17, <1>18, <1>19, <1>20, <1>21
    DEF Next, AskStep, ReplyStep, DelStep, TaskStep, PassStep

LEMMA ToldIsSent ==
    ASSUME TypeOK
    PROVE  MarkedWasTold
               <=> \A q \in Pairs : doc[q].system = 1 => \A box \in Boxes : Sent(q, box)
  BY DEF MarkedWasTold, Sent, TypeOK

LEMMA ToldIfMarked ==
    ASSUME InquiryInv, [Next]_vars,
           \A q \in Pairs : doc'[q].system = 1 =>
               doc[q].system = 1 \/ \A box \in Boxes : Sent(q, box)
    PROVE  MarkedWasTold'
  <1>1. \A q \in Pairs : doc'[q].system = 1 => \A box \in Boxes : Sent(q, box)
    BY ToldIsSent DEF InquiryInv
  <1>2. \A q \in Pairs : doc'[q].system = 1 => \A box \in Boxes : Sent(q, box)'
    BY <1>1, SentStays
  <1>3. TypeOK'
    BY TypeKept
  <1> QED
    BY <1>2, <1>3 DEF MarkedWasTold, Sent, TypeOK

LEMMA ToldKept == InquiryInv /\ [Next]_vars => MarkedWasTold'
  <1> SUFFICES ASSUME InquiryInv, [Next]_vars PROVE MarkedWasTold'
    OBVIOUS
  <1> USE DEF InquiryInv, TypeOK
  <1>1. ASSUME NEW q \in Pairs, AskRead(q) PROVE MarkedWasTold'
    BY <1>1, ToldIfMarked DEF AskRead
  <1>2. ASSUME NEW q \in Pairs, AskWrite(q) PROVE MarkedWasTold'
    <2>1. CASE doc' = [doc EXCEPT ![q] = Fresh(asked[q] + 1)]
      <3>1. Fresh(asked[q] + 1).system = 0
        BY DEF Fresh
      <3> QED
        BY <2>1, <3>1, ToldIfMarked
    <2>2. CASE doc' = doc
      BY <2>2, ToldIfMarked
    <2> QED
      BY <1>2, <2>1, <2>2 DEF AskWrite
  <1>3. ASSUME NEW q \in Pairs, AskRooms(q) PROVE MarkedWasTold'
    BY <1>3, ToldIfMarked DEF AskRooms
  <1>4. ASSUME NEW q \in Pairs, AskTell(q) PROVE MarkedWasTold'
    BY <1>4, ToldIfMarked DEF AskTell
  <1>5. ASSUME NEW q \in Pairs, ReplyRead(q) PROVE MarkedWasTold'
    BY <1>5, ToldIfMarked DEF ReplyRead
  <1>6. ASSUME NEW q \in Pairs, ReplyMark(q) PROVE MarkedWasTold'
    <2>1. ([doc[q] EXCEPT !.provider = 1]).system = doc[q].system
      BY DocFields, DocRecords
    <2> QED
      BY <1>6, <2>1, ToldIfMarked DEF ReplyMark
  <1>7. ASSUME NEW q \in Pairs, ReplyPush(q) PROVE MarkedWasTold'
    BY <1>7, ToldIfMarked DEF ReplyPush
  <1>8. ASSUME NEW q \in Pairs, DelRead(q) PROVE MarkedWasTold'
    BY <1>8, ToldIfMarked DEF DelRead
  <1>9. ASSUME NEW q \in Pairs, DelCheck(q) PROVE MarkedWasTold'
    BY <1>9, ToldIfMarked DEF DelCheck
  <1>10. ASSUME NEW q \in Pairs, DelWrite(q) PROVE MarkedWasTold'
    BY <1>10, NewDocs, ToldIfMarked DEF DelWrite
  <1>11. ASSUME NEW q \in Pairs, Age(q) PROVE MarkedWasTold'
    <2>1. ([doc[q] EXCEPT !.old = TRUE]).system = doc[q].system
      BY DocFields, DocRecords
    <2> QED
      BY <1>11, <2>1, ToldIfMarked DEF Age
  <1>12. ASSUME NEW p \in Passes, PassStart(p) PROVE MarkedWasTold'
    BY <1>12, ToldIfMarked DEF PassStart
  <1>13. ASSUME NEW p \in Passes, Launch(p) PROVE MarkedWasTold'
    BY <1>13, ToldIfMarked DEF Launch
  <1>14. ASSUME NEW p \in Passes, PassEnd(p) PROVE MarkedWasTold'
    BY <1>14, ToldIfMarked DEF PassEnd
  <1>15. ASSUME NEW p \in Passes, NEW q \in Pairs, Scan(p, q) PROVE MarkedWasTold'
    BY <1>15, ToldIfMarked DEF Scan
  <1>16. ASSUME NEW p \in Passes, NEW q \in Pairs, TaskUnread(p, q) PROVE MarkedWasTold'
    BY <1>16, ToldIfMarked DEF TaskUnread
  <1>17. ASSUME NEW p \in Passes, NEW q \in Pairs, TaskPush(p, q) PROVE MarkedWasTold'
    BY <1>17, ToldIfMarked DEF TaskPush
  <1>18. ASSUME NEW p \in Passes, NEW q \in Pairs, TaskMark(p, q) PROVE MarkedWasTold'
    <2>1. \A box \in Boxes : Sent(q, box)
      BY <1>18 DEF TaskMark, SentOnTheWay
    <2> QED
      BY <1>18, <2>1, ToldIfMarked DEF TaskMark
  <1>19. ASSUME NEW p \in Passes, NEW q \in Pairs, TaskOffer(p, q) PROVE MarkedWasTold'
    BY <1>19, ToldIfMarked DEF TaskOffer
  <1>20. CASE Crash
    BY <1>20, ToldIfMarked DEF Crash
  <1>21. CASE UNCHANGED vars
    BY <1>21, ToldIfMarked DEF vars
  <1> QED
    BY <1>1, <1>2, <1>3, <1>4, <1>5, <1>6, <1>7, <1>8, <1>9, <1>10,
       <1>11, <1>12, <1>13, <1>14, <1>15, <1>16, <1>17, <1>18, <1>19, <1>20, <1>21
    DEF Next, AskStep, ReplyStep, DelStep, TaskStep, PassStep
-----------------------------------------------------------------------------
(* One answer per inquiry from passes that follow one another.             *)

\* A pass or its task is on its way to answer inquiry g.
Answering(p, q, g) ==
    found[p][q] = g /\ (pass[p] = "scan" \/ task[p][q] \in {"unread", "provider", "member"})

\* Inquiry g may get one more answer of p's passes: it is not noted and p's task is
\* not just about to note it, or p is on its way to answer it.
Again(p, q, g) ==
    \/ /\ doc[q].gen = g /\ doc[q].system = 0
       /\ ~(found[p][q] = g /\ task[p][q] = "mark")
    \/ Answering(p, q, g)

\* What a pass has found belongs to it while it lasts, and was asked.
RoundShape ==
    \A p \in Passes, q \in Pairs :
        /\ pass[p] = "idle" => found[p][q] = 0
        /\ pass[p] = "scan" /\ q \in todo[p] => found[p][q] = 0
        /\ task[p][q] # "idle" => pass[p] = "run" /\ found[p][q] # 0
        /\ found[p][q] <= asked[q]

Counted(p, q, g) == /\ autos[p][q][g] <= ends + (IF Again(p, q, g) THEN 0 ELSE 1)
                    /\ g > asked[q] => autos[p][q][g] = 0
RoundInv == RoundShape /\ \A p \in Passes, q \in Pairs, g \in 1..MaxAsks : Counted(p, q, g)

LEMMA RoundNumbers ==
    ASSUME TypeOK
    PROVE  /\ \A q \in Pairs : asked[q] \in Nat /\ doc[q].gen \in Nat /\ doc[q].system \in {0, 1}
           /\ \A p \in Passes, q \in Pairs, g \in 1..MaxAsks :
                 autos[p][q][g] \in 0..Many /\ autos[p][q][g] \in Nat
           /\ \A p \in Passes, q \in Pairs : found[p][q] \in Nat /\ found[p][q] <= MaxAsks
           /\ ends \in Nat
  <1>1. \A q \in Pairs : doc[q].gen \in Nat /\ doc[q].system \in {0, 1}
    BY DocFields
  <1>2. /\ asked \in [Pairs -> 0..MaxAsks]
        /\ autos \in [Passes -> [Pairs -> Counts]]
        /\ found \in [Passes -> [Pairs -> 0..MaxAsks]] /\ ends \in 0..Many /\ Many \in Nat
    BY InquiryAssumption DEF TypeOK, Many
  <1>3. \A q \in Pairs : asked[q] \in Nat
    BY <1>2
  <1>4. \A p \in Passes, q \in Pairs, g \in 1..MaxAsks : autos[p][q][g] \in 0..Many
    <2>1. \A p \in Passes, q \in Pairs : autos[p][q] \in Counts
      BY <1>2
    <2> QED
      BY <2>1 DEF Counts
  <1>5. \A p \in Passes, q \in Pairs : found[p][q] \in 0..MaxAsks
    BY <1>2
  <1> QED
    BY <1>1, <1>2, <1>3, <1>4, <1>5, InquiryAssumption

\* A step that answers nothing and makes no inquiry that was asked before open to
\* an answer again keeps the counts.
LEMMA QuietCounts ==
    ASSUME TypeOK, \A p \in Passes, q \in Pairs, g \in 1..MaxAsks : Counted(p, q, g),
           UNCHANGED autos, UNCHANGED ends,
           \A q \in Pairs : asked'[q] \in Nat /\ asked[q] <= asked'[q],
           \A p \in Passes, q \in Pairs, g \in 1..MaxAsks :
              g <= asked[q] /\ Again(p, q, g)' => Again(p, q, g)
    PROVE  \A p \in Passes, q \in Pairs, g \in 1..MaxAsks : Counted(p, q, g)'
  <1> SUFFICES ASSUME NEW p \in Passes, NEW q \in Pairs, NEW g \in 1..MaxAsks
               PROVE  /\ autos'[p][q][g] <= ends' + (IF Again(p, q, g)' THEN 0 ELSE 1)
                      /\ g > asked'[q] => autos'[p][q][g] = 0
    BY DEF Counted
  <1>1. /\ asked[q] \in Nat /\ asked'[q] \in Nat /\ asked[q] <= asked'[q]
        /\ autos[p][q][g] \in Nat /\ ends \in Nat
    BY RoundNumbers
  <1>2. /\ autos[p][q][g] <= ends + (IF Again(p, q, g) THEN 0 ELSE 1)
        /\ g > asked[q] => autos[p][q][g] = 0
    BY DEF Counted
  <1>3. CASE g > asked[q]
    BY <1>1, <1>2, <1>3
  <1>4. CASE g <= asked[q]
    BY <1>1, <1>2, <1>4
  <1> QED
    BY <1>1, <1>3, <1>4

\* The passes stand still and no document goes back to unanswered.
DocsQuiet ==
    \A q \in Pairs, g \in 1..MaxAsks :
        g <= asked[q] /\ doc'[q].gen = g /\ doc'[q].system = 0
            => doc[q].gen = g /\ doc[q].system = 0

LEMMA QuietRound ==
    ASSUME TypeOK, RoundInv, UNCHANGED passes, UNCHANGED autos, DocsQuiet,
           \A q \in Pairs : asked'[q] \in Nat /\ asked[q] <= asked'[q]
    PROVE  RoundInv'
  <1>1. RoundShape'
    <2> SUFFICES ASSUME NEW p \in Passes, NEW q \in Pairs
                 PROVE  found[p][q] <= asked'[q]
      BY DEF RoundInv, RoundShape
    <2>1. found[p][q] <= asked[q] /\ asked[q] <= asked'[q]
      BY DEF RoundInv, RoundShape
    <2>2. found[p][q] \in Nat /\ asked[q] \in Nat /\ asked'[q] \in Nat
      BY RoundNumbers
    <2> QED
      BY <2>1, <2>2
  <1>2. \A p \in Passes, q \in Pairs, g \in 1..MaxAsks :
           g <= asked[q] /\ Again(p, q, g)' => Again(p, q, g)
    BY DEF Again, Answering, DocsQuiet
  <1> QED
    BY <1>1, <1>2, QuietCounts DEF RoundInv

\* The end of the process allows one more answer.
LEMMA DieRound ==
    ASSUME TypeOK, RoundInv, Die, UNCHANGED autos, UNCHANGED asked
    PROVE  RoundInv'
  <1>1. RoundShape'
    BY RoundNumbers DEF RoundShape
  <1>2. ASSUME NEW p \in Passes, NEW q \in Pairs, NEW g \in 1..MaxAsks
        PROVE  Counted(p, q, g)'
    <2>1. /\ autos[p][q][g] \in 0..Many /\ Many \in Nat /\ ends \in 0..Many
          /\ ends' = IF ends = Many THEN Many ELSE ends + 1
      BY RoundNumbers, InquiryAssumption DEF TypeOK, Many
    <2>2. /\ autos[p][q][g] <= ends + (IF Again(p, q, g) THEN 0 ELSE 1)
          /\ g > asked[q] => autos[p][q][g] = 0
      BY DEF RoundInv, Counted
    <2>3. autos'[p][q][g] <= ends' /\ ends' \in Nat
      BY <2>1, <2>2
    <2>4. autos'[p][q][g] <= ends' + (IF Again(p, q, g)' THEN 0 ELSE 1)
      BY <2>1, <2>3
    <2> QED
      BY <2>2, <2>4 DEF Counted
  <1> QED
    BY <1>1, <1>2 DEF RoundInv

\* A task goes on; what it answers next does not change.
LEMMA TaskRound ==
    ASSUME TypeOK, RoundInv, NEW p \in Passes, NEW q \in Pairs, NEW next,
           task[p][q] # "idle", TaskGoto(p, q, next), UNCHANGED autos, UNCHANGED asked, DocsQuiet,
           next \in {"unread", "provider", "member"} => task[p][q] \in {"unread", "provider", "member"},
           task[p][q] = "mark" /\ doc'[q].gen = found[p][q] => doc'[q].system = 1
    PROVE  RoundInv'
  <1>1. /\ pass' = pass /\ todo' = todo /\ found' = found /\ ends' = ends
        /\ \A r \in Passes, s \in Pairs :
              task'[r][s] = IF r = p /\ s = q THEN next ELSE task[r][s]
    BY DEF TypeOK
  <1>2. RoundShape'
    BY <1>1 DEF RoundInv, RoundShape
  <1>3. ASSUME NEW r \in Passes, NEW s \in Pairs, NEW g \in 1..MaxAsks, g <= asked[s],
               Again(r, s, g)'
        PROVE  Again(r, s, g)
    <2>1. CASE Answering(r, s, g)'
      <3>1. Answering(r, s, g)
        BY <1>1, <2>1 DEF Answering
      <3> QED
        BY <3>1 DEF Again
    <2>2. CASE /\ doc'[s].gen = g /\ doc'[s].system = 0
               /\ ~(found'[r][s] = g /\ task'[r][s] = "mark")
      <3>1. doc[s].gen = g /\ doc[s].system = 0
        BY <1>3, <2>2 DEF DocsQuiet
      <3>2. ~(found[r][s] = g /\ task[r][s] = "mark")
        BY <1>1, <2>2
      <3> QED
        BY <3>1, <3>2 DEF Again
    <2> QED
      BY <1>3, <2>1, <2>2 DEF Again
  <1> QED
    BY <1>1, <1>2, <1>3, QuietCounts, RoundNumbers DEF RoundInv

\* The answer itself: the member's list is the second one.
LEMMA PushRound ==
    ASSUME TypeOK, RoundInv, NEW p \in Passes, NEW q \in Pairs,
           TaskPush(p, q), task[p][q] = "member"
    PROVE  RoundInv'
  <1>0. PICK g : g = found[p][q]
    OBVIOUS
  <1>1. /\ pass' = pass /\ todo' = todo /\ found' = found /\ ends' = ends
        /\ \A r \in Passes, s \in Pairs :
              task'[r][s] = IF r = p /\ s = q THEN "mark" ELSE task[r][s]
        /\ UNCHANGED <<doc, asked>>
        /\ autos' = More(p, q, g)
    BY <1>0 DEF TaskPush, AfterPush, TypeOK, More
  <1>2. /\ pass[p] = "run" /\ g \in 1..MaxAsks /\ g <= asked[q] /\ asked[q] \in Nat
    BY <1>0, RoundNumbers, InquiryAssumption DEF RoundInv, RoundShape
  <1>3. RoundShape'
    BY <1>1 DEF RoundInv, RoundShape
  <1>4. /\ autos[p][q][g] \in 0..Many /\ Many \in Nat /\ ends \in Nat
    BY <1>2, RoundNumbers, InquiryAssumption DEF Many
  <1>5. autos[p][q][g] <= ends
    <2>1. Answering(p, q, g)
      BY <1>0 DEF Answering
    <2>2. Again(p, q, g)
      BY <2>1 DEF Again
    <2> QED
      BY <1>2, <1>4, <2>2 DEF RoundInv, Counted
  <1>6. ~Again(p, q, g)'
    BY <1>0, <1>1, <1>2 DEF Again, Answering
  <1>7. autos'[p][q][g] = IF autos[p][q][g] = Many THEN Many ELSE autos[p][q][g] + 1
    BY <1>1, <1>2, AutosPut
  <1>8. Counted(p, q, g)'
    <2>1. autos'[p][q][g] <= ends + 1
      BY <1>7, <1>4, <1>5
    <2>2. ~(g > asked[q])
      BY <1>2
    <2> QED
      BY <1>1, <1>6, <2>1, <2>2 DEF Counted
  <1>9. ASSUME NEW r \in Passes, NEW s \in Pairs, NEW h \in 1..MaxAsks,
               r # p \/ s # q \/ h # g
        PROVE  Counted(r, s, h)'
    <2>1. autos'[r][s][h] = autos[r][s][h]
      BY <1>1, <1>9, AutosPut
    <2>2. ASSUME Again(r, s, h)' PROVE Again(r, s, h)
      <3>1. found[r][s] = h => task'[r][s] = task[r][s]
        BY <1>0, <1>1, <1>9
      <3> QED
        BY <1>1, <2>2, <3>1 DEF Again, Answering
    <2>3. autos[r][s][h] \in Nat /\ ends \in Nat
      BY RoundNumbers
    <2> QED
      BY <1>1, <2>1, <2>2, <2>3 DEF RoundInv, Counted
  <1> QED
    BY <1>3, <1>8, <1>9 DEF RoundInv

LEMMA RoundKept == InquiryInv /\ RoundInv /\ [Next]_vars => RoundInv'
  <1> SUFFICES ASSUME InquiryInv, RoundInv, [Next]_vars PROVE RoundInv'
    OBVIOUS
  <1>0. TypeOK
    BY DEF InquiryInv
  <1>a. ASSUME UNCHANGED passes, UNCHANGED autos, DocsQuiet, UNCHANGED asked PROVE RoundInv'
    BY <1>0, <1>a, QuietRound, RoundNumbers
  <1>b. ASSUME UNCHANGED doc PROVE DocsQuiet
    BY <1>b DEF DocsQuiet
  <1>1. ASSUME NEW q \in Pairs, AskRead(q) PROVE RoundInv'
    BY <1>1, <1>a, <1>b DEF AskRead
  <1>2. ASSUME NEW q \in Pairs, AskWrite(q) PROVE RoundInv'
    <2>1. CASE UNCHANGED <<asked, doc>>
      BY <1>2, <2>1, <1>a, <1>b DEF AskWrite
    <2>2. CASE /\ asked' = [asked EXCEPT ![q] = asked[q] + 1]
               /\ doc' = [doc EXCEPT ![q] = Fresh(asked[q] + 1)]
      <3>1. Fresh(asked[q] + 1).gen = asked[q] + 1
        BY DEF Fresh
      <3>2. \A s \in Pairs : asked'[s] \in Nat /\ asked[s] <= asked'[s]
        BY <1>0, <2>2, RoundNumbers DEF TypeOK
      <3>3. DocsQuiet
        <4> SUFFICES ASSUME NEW s \in Pairs, NEW g \in 1..MaxAsks, g <= asked[s],
                            doc'[s].gen = g, doc'[s].system = 0
                     PROVE  doc[s].gen = g /\ doc[s].system = 0
          BY DEF DocsQuiet
        <4>1. s # q
          BY <1>0, <2>2, <3>1, RoundNumbers DEF TypeOK
        <4> QED
          BY <1>0, <2>2, <4>1 DEF TypeOK
      <3> QED
        BY <1>0, <1>2, <3>2, <3>3, QuietRound DEF AskWrite
    <2> QED
      BY <1>2, <2>1, <2>2 DEF AskWrite
  <1>3. ASSUME NEW q \in Pairs, AskRooms(q) PROVE RoundInv'
    BY <1>3, <1>a, <1>b DEF AskRooms
  <1>4. ASSUME NEW q \in Pairs, AskTell(q) PROVE RoundInv'
    BY <1>4, <1>a, <1>b DEF AskTell
  <1>5. ASSUME NEW q \in Pairs, ReplyRead(q) PROVE RoundInv'
    BY <1>5, <1>a, <1>b DEF ReplyRead
  <1>c. ASSUME NEW q \in Pairs, NEW d, doc' = [doc EXCEPT ![q] = d],
               d.gen = doc[q].gen, d.system = doc[q].system \/ d.system = 1
        PROVE  DocsQuiet
    BY <1>0, <1>c DEF DocsQuiet, TypeOK
  <1>6. ASSUME NEW q \in Pairs, ReplyMark(q) PROVE RoundInv'
    <2>1. DocsQuiet
      BY <1>0, <1>6, <1>b, <1>c, DocFields, DocRecords DEF ReplyMark
    <2> QED
      BY <1>6, <1>a, <2>1 DEF ReplyMark
  <1>7. ASSUME NEW q \in Pairs, ReplyPush(q) PROVE RoundInv'
    BY <1>7, <1>a, <1>b DEF ReplyPush
  <1>8. ASSUME NEW q \in Pairs, DelRead(q) PROVE RoundInv'
    BY <1>8, <1>a, <1>b DEF DelRead
  <1>9. ASSUME NEW q \in Pairs, DelCheck(q) PROVE RoundInv'
    BY <1>9, <1>a, <1>b DEF DelCheck
  <1>10. ASSUME NEW q \in Pairs, DelWrite(q) PROVE RoundInv'
    <2>1. DocsQuiet
      BY <1>0, <1>10, NewDocs DEF DelWrite, DocsQuiet, TypeOK
    <2> QED
      BY <1>10, <1>a, <2>1 DEF DelWrite
  <1>11. ASSUME NEW q \in Pairs, Age(q) PROVE RoundInv'
    <2>1. DocsQuiet
      BY <1>0, <1>11, <1>c, DocFields, DocRecords DEF Age
    <2> QED
      BY <1>11, <1>a, <2>1 DEF Age
  <1>d. ASSUME RoundShape', UNCHANGED autos, UNCHANGED ends, UNCHANGED asked,
               \A p \in Passes, q \in Pairs, g \in 1..MaxAsks :
                  Again(p, q, g)' => Again(p, q, g)
        PROVE  RoundInv'
    BY <1>0, <1>d, QuietCounts, RoundNumbers DEF RoundInv
  <1>13. ASSUME NEW p \in Passes, PassStart(p) PROVE RoundInv'
    <2>1. /\ pass[p] = "idle" /\ UNCHANGED <<doc, found, task, ends, asked, autos>>
          /\ pass'[p] = "scan"
          /\ \A r \in Passes : r # p => pass'[r] = pass[r] /\ todo'[r] = todo[r]
      BY <1>0, <1>13 DEF PassStart, TypeOK
    <2>2. \A q \in Pairs : found[p][q] = 0 /\ task[p][q] = "idle"
      BY <2>1 DEF RoundInv, RoundShape
    <2>3. RoundShape'
      BY <2>1, <2>2 DEF RoundInv, RoundShape
    <2>4. \A r \in Passes, q \in Pairs, g \in 1..MaxAsks : Again(r, q, g)' => Again(r, q, g)
      BY <2>1, <2>2 DEF Again, Answering
    <2> QED
      BY <1>d, <2>1, <2>3, <2>4
  <1>14. ASSUME NEW p \in Passes, Launch(p) PROVE RoundInv'
    <2>1. /\ pass[p] = "scan" /\ UNCHANGED <<doc, found, todo, ends, asked, autos>>
          /\ pass'[p] = "run"
          /\ \A q \in Pairs : task'[p][q] = IF found[p][q] # 0 THEN "unread" ELSE "idle"
          /\ \A r \in Passes : r # p => pass'[r] = pass[r] /\ task'[r] = task[r]
      BY <1>0, <1>14 DEF Launch, TypeOK
    <2>2. RoundShape'
      BY <2>1 DEF RoundInv, RoundShape
    <2>3. \A q \in Pairs : task[p][q] = "idle"
      BY <2>1 DEF RoundInv, RoundShape
    <2>4. \A r \in Passes, q \in Pairs, g \in 1..MaxAsks : Again(r, q, g)' => Again(r, q, g)
      BY <2>1, <2>3 DEF Again, Answering
    <2> QED
      BY <1>d, <2>1, <2>2, <2>4
  <1>15. ASSUME NEW p \in Passes, PassEnd(p) PROVE RoundInv'
    <2>1. /\ pass[p] = "run" /\ UNCHANGED <<doc, task, todo, ends, asked, autos>>
          /\ pass'[p] = "idle"
          /\ \A q \in Pairs : task[p][q] = "idle" /\ found'[p][q] = 0
          /\ \A r \in Passes : r # p => pass'[r] = pass[r] /\ found'[r] = found[r]
      BY <1>0, <1>15 DEF PassEnd, TypeOK
    <2>2. RoundShape'
      BY <1>0, <2>1, RoundNumbers DEF RoundInv, RoundShape
    <2>3. \A r \in Passes, q \in Pairs, g \in 1..MaxAsks : Again(r, q, g)' => Again(r, q, g)
      BY <2>1 DEF Again, Answering
    <2> QED
      BY <1>d, <2>1, <2>2, <2>3
  <1>16. ASSUME NEW p \in Passes, NEW q \in Pairs, Scan(p, q) PROVE RoundInv'
    <2>1. /\ pass[p] = "scan" /\ q \in todo[p] /\ UNCHANGED <<doc, pass, task, ends, asked, autos>>
          /\ todo'[p] = todo[p] \ {q}
          /\ \A s \in Pairs : found'[p][s] = IF s # q THEN found[p][s]
                                             ELSE IF Due(q) THEN doc[q].gen ELSE 0
          /\ \A r \in Passes : r # p => todo'[r] = todo[r] /\ found'[r] = found[r]
      BY <1>0, <1>16 DEF Scan, TypeOK
    <2>2. \A s \in Pairs : task[p][s] = "idle"
      BY <2>1 DEF RoundInv, RoundShape
    <2>3. found'[p][q] <= asked[q]
      BY <1>0, <2>1, RoundNumbers DEF InquiryInv, DocWasAsked
    <2>4. RoundShape'
      BY <2>1, <2>2, <2>3 DEF RoundInv, RoundShape
    <2>5. ASSUME NEW r \in Passes, NEW s \in Pairs, NEW g \in 1..MaxAsks, Again(r, s, g)'
          PROVE  Again(r, s, g)
      <3>1. CASE r # p
        BY <2>1, <2>5, <3>1 DEF Again, Answering
      <3>2. CASE r = p /\ s # q
        BY <2>1, <2>2, <2>5, <3>2 DEF Again, Answering
      <3>3. CASE r = p /\ s = q
        <4>1. doc[q].gen = g /\ doc[q].system = 0
          BY <2>1, <2>2, <2>5, <3>3 DEF Again, Answering, Due
        <4> QED
          BY <2>1, <2>2, <3>3, <4>1 DEF Again
      <3> QED
        BY <3>1, <3>2, <3>3
    <2> QED
      BY <1>d, <2>1, <2>4, <2>5
  <1>17. ASSUME NEW p \in Passes, NEW q \in Pairs, TaskUnread(p, q) PROVE RoundInv'
    <2>1. CASE TaskGoto(p, q, "provider")
      <3>1. /\ task[p][q] = "unread" /\ UNCHANGED autos /\ UNCHANGED asked /\ DocsQuiet
        BY <1>17, <1>b DEF TaskUnread
      <3> HIDE DEF TaskGoto
      <3> QED
        BY <1>0, <2>1, <3>1, TaskRound
    <2>2. CASE Die
      <3>1. UNCHANGED autos /\ UNCHANGED asked
        BY <1>17 DEF TaskUnread
      <3> HIDE DEF Die
      <3> QED
        BY <1>0, <2>2, <3>1, DieRound
    <2> QED
      BY <1>17, <2>1, <2>2 DEF TaskUnread
  <1>18. ASSUME NEW p \in Passes, NEW q \in Pairs, TaskPush(p, q) PROVE RoundInv'
    <2>1. CASE task[p][q] = "provider"
      <3>1. /\ TaskGoto(p, q, "member") /\ UNCHANGED autos /\ UNCHANGED asked /\ DocsQuiet
        BY <1>18, <2>1, <1>b DEF TaskPush, AfterPush
      <3> HIDE DEF TaskGoto
      <3> QED
        BY <1>0, <2>1, <3>1, TaskRound
    <2>2. CASE task[p][q] = "member"
      BY <1>0, <1>18, <2>2, PushRound
    <2> QED
      BY <1>18, <2>1, <2>2 DEF TaskPush
  <1>19. ASSUME NEW p \in Passes, NEW q \in Pairs, TaskMark(p, q) PROVE RoundInv'
    <2>0. task[p][q] = "mark" /\ UNCHANGED autos /\ UNCHANGED asked
      BY <1>19 DEF TaskMark
    <2>1. CASE doc' = [doc EXCEPT ![q] = Noted(q)] /\ TaskGoto(p, q, "offer")
      <3>1. Noted(q).gen = doc[q].gen /\ Noted(q).system = 1
        BY <1>0, DocFields, DocRecords DEF Noted
      <3>2. DocsQuiet
        BY <2>1, <3>1, <1>c
      <3>3. doc'[q].system = 1
        BY <1>0, <2>1, <3>1 DEF TypeOK
      <3> HIDE DEF TaskGoto
      <3> QED
        BY <1>0, <2>0, <2>1, <3>2, <3>3, TaskRound
    <2>2. CASE Die
      <3> HIDE DEF Die
      <3> QED
        BY <1>0, <2>0, <2>2, DieRound
    <2> QED
      BY <1>19, <2>1, <2>2 DEF TaskMark
  <1>20. ASSUME NEW p \in Passes, NEW q \in Pairs, TaskOffer(p, q) PROVE RoundInv'
    <2>1. /\ task[p][q] = "offer" /\ TaskGoto(p, q, "idle")
          /\ UNCHANGED autos /\ UNCHANGED asked /\ DocsQuiet
      BY <1>20, <1>b DEF TaskOffer
    <2> HIDE DEF TaskGoto
    <2> QED
      BY <1>0, <2>1, TaskRound
  <1>21. CASE Crash
    <2>1. Die /\ UNCHANGED autos /\ UNCHANGED asked
      BY <1>21 DEF Crash
    <2> HIDE DEF Die
    <2> QED
      BY <1>0, <2>1, DieRound
  <1>22. CASE UNCHANGED vars
    BY <1>22, <1>a, <1>b DEF vars
  <1> QED
    BY <1>1, <1>2, <1>3, <1>4, <1>5, <1>6, <1>7, <1>8, <1>9, <1>10,
       <1>11, <1>13, <1>14, <1>15, <1>16, <1>17, <1>18, <1>19, <1>20, <1>21, <1>22
    DEF Next, AskStep, ReplyStep, DelStep, TaskStep, PassStep

LEMMA RoundGivesOnce == ASSUME TypeOK, RoundInv PROVE AnsweredOnce
  <1> SUFFICES ASSUME NEW p \in Passes, NEW q \in Pairs, NEW g \in 1..MaxAsks
               PROVE  autos[p][q][g] <= 1 + ends
    BY DEF AnsweredOnce
  <1> QED
    BY RoundNumbers DEF RoundInv, Counted

-----------------------------------------------------------------------------
\* InquiryInv holds in every reachable state.
THEOREM InquiryInvariant == Spec => []InquiryInv
  <1>1. InquiryInv /\ [Next]_vars => InquiryInv'
    BY TypeKept, AskedKept, SentKept, ToldKept DEF InquiryInv
  <1> QED
    BY InitHolds, <1>1, PTL DEF Spec

\* The variables keep their types: in particular no handler leaves a document
\* of a mark alone behind, whatever was deleted under it.
THEOREM TypeCorrect == Spec => []TypeOK
  BY InquiryInvariant, PTL DEF InquiryInv

\* An inquiry that carries the system's mark has its automatic answer in both
\* message lists, for any crash between vorderFeedback's awaits.
THEOREM NotedAfterSent == Spec => []MarkedWasTold
  BY InquiryInvariant, PTL DEF InquiryInv

LEMMA MarksIfSame ==
    ASSUME TypeOK,
           \A q \in Pairs : \/ doc'[q] = doc[q]
                            \/ Exists(q) => doc'[q].gen # doc[q].gen
                            \/ /\ doc[q].provider <= doc'[q].provider
                               /\ doc[q].system <= doc'[q].system
    PROVE  MarksStayStep
  BY DocFields DEF MarksStayStep

LEMMA MarksStep == InquiryInv /\ [Next]_vars => MarksStayStep
  <1> SUFFICES ASSUME InquiryInv, [Next]_vars PROVE MarksStayStep
    OBVIOUS
  <1> USE DEF InquiryInv
  <1>1. ASSUME NEW q \in Pairs, AskRead(q) PROVE MarksStayStep
    BY <1>1, MarksIfSame DEF AskRead
  <1>2. ASSUME NEW q \in Pairs, AskWrite(q) PROVE MarksStayStep
    <2>1. CASE /\ ask[q] \in {"set", "update"}
              /\ doc' = [doc EXCEPT ![q] = Fresh(asked[q] + 1)]
      <3>1. Fresh(asked[q] + 1).gen > doc[q].gen
        BY <2>1, NextAsk, NewDocs, DocFields DEF DocWasAsked
      <3>2. doc'[q].gen # doc[q].gen
        BY <2>1, <3>1, DocFields DEF TypeOK
      <3> QED
        BY <2>1, <3>2, MarksIfSame
    <2>2. CASE doc' = doc
      BY <2>2, MarksIfSame
    <2> QED
      BY <1>2, <2>1, <2>2 DEF AskWrite
  <1>3. ASSUME NEW q \in Pairs, AskRooms(q) PROVE MarksStayStep
    BY <1>3, MarksIfSame DEF AskRooms
  <1>4. ASSUME NEW q \in Pairs, AskTell(q) PROVE MarksStayStep
    BY <1>4, MarksIfSame DEF AskTell
  <1>5. ASSUME NEW q \in Pairs, ReplyRead(q) PROVE MarksStayStep
    BY <1>5, MarksIfSame DEF ReplyRead
  <1>6. ASSUME NEW q \in Pairs, ReplyMark(q) PROVE MarksStayStep
    <2>1. /\ doc[q].provider <= ([doc[q] EXCEPT !.provider = 1]).provider
         /\ doc[q].system <= ([doc[q] EXCEPT !.provider = 1]).system
      BY DocFields, DocRecords
    <2>2. \A i \in Pairs : i # q => doc'[i] = doc[i]
      BY <1>6 DEF TypeOK, ReplyMark
    <2>3. doc'[q] = doc[q] \/ doc'[q] = [doc[q] EXCEPT !.provider = 1]
      BY <1>6 DEF TypeOK, ReplyMark
    <2> QED
      BY <2>1, <2>2, <2>3, MarksIfSame
  <1>7. ASSUME NEW q \in Pairs, ReplyPush(q) PROVE MarksStayStep
    BY <1>7, MarksIfSame DEF ReplyPush
  <1>8. ASSUME NEW q \in Pairs, DelRead(q) PROVE MarksStayStep
    BY <1>8, MarksIfSame DEF DelRead
  <1>9. ASSUME NEW q \in Pairs, DelCheck(q) PROVE MarksStayStep
    BY <1>9, MarksIfSame DEF DelCheck
  <1>10. ASSUME NEW q \in Pairs, DelWrite(q) PROVE MarksStayStep
    <2>1. Exists(q) => doc'[q].gen # doc[q].gen
      BY <1>10, NewDocs DEF DelWrite, TypeOK, Exists
    <2> QED
      BY <1>10, <2>1, MarksIfSame DEF DelWrite
  <1>11. ASSUME NEW q \in Pairs, Age(q) PROVE MarksStayStep
    <2>1. /\ doc[q].provider <= ([doc[q] EXCEPT !.old = TRUE]).provider
         /\ doc[q].system <= ([doc[q] EXCEPT !.old = TRUE]).system
      BY DocFields, DocRecords
    <2>2. \A i \in Pairs : i # q => doc'[i] = doc[i]
      BY <1>11 DEF TypeOK, Age
    <2>3. doc'[q] = doc[q] \/ doc'[q] = [doc[q] EXCEPT !.old = TRUE]
      BY <1>11 DEF TypeOK, Age
    <2> QED
      BY <2>1, <2>2, <2>3, MarksIfSame
  <1>12. ASSUME NEW p \in Passes, PassStart(p) PROVE MarksStayStep
    BY <1>12, MarksIfSame DEF PassStart
  <1>13. ASSUME NEW p \in Passes, Launch(p) PROVE MarksStayStep
    BY <1>13, MarksIfSame DEF Launch
  <1>14. ASSUME NEW p \in Passes, PassEnd(p) PROVE MarksStayStep
    BY <1>14, MarksIfSame DEF PassEnd
  <1>15. ASSUME NEW p \in Passes, NEW q \in Pairs, Scan(p, q) PROVE MarksStayStep
    BY <1>15, MarksIfSame DEF Scan
  <1>16. ASSUME NEW p \in Passes, NEW q \in Pairs, TaskUnread(p, q) PROVE MarksStayStep
    BY <1>16, MarksIfSame DEF TaskUnread
  <1>17. ASSUME NEW p \in Passes, NEW q \in Pairs, TaskPush(p, q) PROVE MarksStayStep
    BY <1>17, MarksIfSame DEF TaskPush
  <1>18. ASSUME NEW p \in Passes, NEW q \in Pairs, TaskMark(p, q) PROVE MarksStayStep
    <2>1. /\ doc[q].provider <= ([doc[q] EXCEPT !.system = 1]).provider
         /\ doc[q].system <= ([doc[q] EXCEPT !.system = 1]).system
      BY DocFields, DocRecords
    <2>2. \A i \in Pairs : i # q => doc'[i] = doc[i]
      BY <1>18 DEF TypeOK, TaskMark, Noted
    <2>3. doc'[q] = doc[q] \/ doc'[q] = [doc[q] EXCEPT !.system = 1]
      BY <1>18 DEF TypeOK, TaskMark, Noted
    <2> QED
      BY <2>1, <2>2, <2>3, MarksIfSame
  <1>19. ASSUME NEW p \in Passes, NEW q \in Pairs, TaskOffer(p, q) PROVE MarksStayStep
    BY <1>19, MarksIfSame DEF TaskOffer
  <1>20. CASE Crash
    BY <1>20, MarksIfSame DEF Crash
  <1>21. CASE UNCHANGED vars
    BY <1>21, MarksIfSame DEF vars
  <1> QED
    BY <1>1, <1>2, <1>3, <1>4, <1>5, <1>6, <1>7, <1>8, <1>9, <1>10,
       <1>11, <1>12, <1>13, <1>14, <1>15, <1>16, <1>17, <1>18, <1>19, <1>20, <1>21
    DEF Next, AskStep, ReplyStep, DelStep, TaskStep, PassStep

LEMMA ReturnStep == InquiryInv /\ [Next]_vars => NoReturnStep
  <1> SUFFICES ASSUME InquiryInv, [Next]_vars PROVE NoReturnStep
    OBVIOUS
  <1> USE DEF InquiryInv, TypeOK, NoDoc, Exists, NoReturnStep
  <1>1. ASSUME NEW q \in Pairs, AskRead(q) PROVE NoReturnStep
    BY <1>1 DEF AskRead, Exists
  <1>2. ASSUME NEW q \in Pairs, AskWrite(q) PROVE NoReturnStep
    <2>1. CASE /\ ask[q] \in {"set", "update"}
              /\ asked' = [asked EXCEPT ![q] = asked[q] + 1]
              /\ doc' = [doc EXCEPT ![q] = Fresh(asked[q] + 1)]
      BY <2>1, NextAsk
    <2>2. CASE doc' = doc
      BY <2>2
    <2> QED
      BY <1>2, <2>1, <2>2 DEF AskWrite
  <1>3. ASSUME NEW q \in Pairs, AskRooms(q) PROVE NoReturnStep
    BY <1>3 DEF AskRooms
  <1>4. ASSUME NEW q \in Pairs, AskTell(q) PROVE NoReturnStep
    BY <1>4 DEF AskTell
  <1>5. ASSUME NEW q \in Pairs, ReplyRead(q) PROVE NoReturnStep
    BY <1>5 DEF ReplyRead, Exists
  <1>6. ASSUME NEW q \in Pairs, ReplyMark(q) PROVE NoReturnStep
    BY <1>6 DEF ReplyMark, Exists
  <1>7. ASSUME NEW q \in Pairs, ReplyPush(q) PROVE NoReturnStep
    BY <1>7 DEF ReplyPush
  <1>8. ASSUME NEW q \in Pairs, DelRead(q) PROVE NoReturnStep
    BY <1>8 DEF DelRead, Exists
  <1>9. ASSUME NEW q \in Pairs, DelCheck(q) PROVE NoReturnStep
    BY <1>9 DEF DelCheck, Exists
  <1>10. ASSUME NEW q \in Pairs, DelWrite(q) PROVE NoReturnStep
    BY <1>10 DEF DelWrite
  <1>11. ASSUME NEW q \in Pairs, Age(q) PROVE NoReturnStep
    BY <1>11 DEF Age, Exists
  <1>12. ASSUME NEW p \in Passes, PassStart(p) PROVE NoReturnStep
    BY <1>12 DEF PassStart
  <1>13. ASSUME NEW p \in Passes, Launch(p) PROVE NoReturnStep
    BY <1>13 DEF Launch
  <1>14. ASSUME NEW p \in Passes, PassEnd(p) PROVE NoReturnStep
    BY <1>14 DEF PassEnd
  <1>15. ASSUME NEW p \in Passes, NEW q \in Pairs, Scan(p, q) PROVE NoReturnStep
    BY <1>15 DEF Scan, Due, Exists
  <1>16. ASSUME NEW p \in Passes, NEW q \in Pairs, TaskUnread(p, q) PROVE NoReturnStep
    BY <1>16 DEF TaskUnread
  <1>17. ASSUME NEW p \in Passes, NEW q \in Pairs, TaskPush(p, q) PROVE NoReturnStep
    BY <1>17 DEF TaskPush, AfterPush
  <1>18. ASSUME NEW p \in Passes, NEW q \in Pairs, TaskMark(p, q) PROVE NoReturnStep
    BY <1>18 DEF TaskMark, Noted, Exists
  <1>19. ASSUME NEW p \in Passes, NEW q \in Pairs, TaskOffer(p, q) PROVE NoReturnStep
    BY <1>19 DEF TaskOffer
  <1>20. CASE Crash
    BY <1>20 DEF Crash
  <1>21. CASE UNCHANGED vars
    BY <1>21 DEF vars
  <1> QED
    BY <1>1, <1>2, <1>3, <1>4, <1>5, <1>6, <1>7, <1>8, <1>9, <1>10,
       <1>11, <1>12, <1>13, <1>14, <1>15, <1>16, <1>17, <1>18, <1>19, <1>20, <1>21
    DEF Next, AskStep, ReplyStep, DelStep, TaskStep, PassStep

\* The provider's mark and the system's never wipe out each other.
THEOREM MarksAreKept == Spec => MarksStay
  <1>1. InquiryInv /\ [Next]_vars => MarksStayStep
    BY MarksStep
  <1> QED
    BY <1>1, InquiryInvariant, PTL DEF Spec, MarksStay, MarksStayStep

\* No late mark brings a deleted inquiry back.
THEOREM DeletedStaysDeleted == Spec => NoReturn
  <1>1. InquiryInv /\ [Next]_vars => NoReturnStep
    BY ReturnStep
  <1> QED
    BY <1>1, InquiryInvariant, PTL DEF Spec, NoReturn, NoReturnStep

\* Passes that follow one another answer an inquiry once, and once more for every
\* end of the process, in whatever step of whichever task or handler it falls and
\* however the passes of the cron job and the one at boot overlap.
THEOREM OneAnswerEach == Spec => []AnsweredOnce
  <1>1. Init => RoundInv
    <2> SUFFICES ASSUME Init PROVE RoundInv
      OBVIOUS
    <2> QED
      BY InquiryAssumption DEF Init, NoDoc, RoundInv, RoundShape, Counted, Again, Answering
  <1>2. InquiryInv /\ RoundInv /\ [Next]_vars => RoundInv'
    BY RoundKept
  <1>3. InquiryInv /\ RoundInv => AnsweredOnce
    BY RoundGivesOnce DEF InquiryInv
  <1> QED
    BY <1>1, <1>2, <1>3, InquiryInvariant, PTL DEF Spec
=============================================================================
