---------------------------- MODULE OrderTxProofs ----------------------------
(***************************************************************************)
(* Theorems about OrderTx for any number of requests, members, vouchers    *)
(* and connections.  OrderInv is the inductive invariant: where a request  *)
(* is in its awaits determines the state of its transaction, and what it   *)
(* has written is locked for it.  DrawInv adds the vouchers: those written *)
(* are the first of those read, and the awaits left say how many follow.   *)
(***************************************************************************)
EXTENDS OrderTx, InductionLemmas, SequenceTheorems, TLAPS

\* Awaits of a request, those of a failure among them.
Awaits == {"begin", "user", "provider", "order", "platform", "wallet", "look", "readBank",
           "bank", "memberLog", "bankLog", "vouchers", "voucherWallet", "card",
           "cardLook", "cardLog", "ok", "rollback", "masked"}
Aside == {"begin", "rollback", "masked"}

\* Awaits of an open transaction on its way to success, which is the last one.
Running(t) == \A i \in 1..Len(t) : /\ t[i] \notin Aside
                                   /\ t[i] = "ok" => i = Len(t)

\* The same of all awaits but the first, and of awaits none of which is the last.
OnceBegun(t) == \A i \in 2..Len(t) : /\ t[i] \notin Aside
                                     /\ t[i] = "ok" => i = Len(t)
OnTime(t, k) == \A i \in k..Len(t) : t[i] \notin Aside /\ t[i] # "ok"

\* The transaction of a request that has these awaits to do.
Shape(o) ==
    \/ tx[o] = "none" /\ todo[o] \in {Program(ask[o]), <<>>}
    \/ tx[o] = "open" /\ (todo[o] = <<"rollback">> \/ Running(todo[o]))
    \/ tx[o] \in {"rolling", "gone"} /\ todo[o] \in {<<"masked">>, <<>>}

BankAhead(t) == \E i \in 1..Len(t) : t[i] = "bank"

\* Past the company's wallet, a request that has not failed holds it.
BankHeld(o) == tx[o] = "open" /\ todo[o] # <<"rollback">> /\ ~BankAhead(todo[o])
                   => lock[Bank] = o

Answered(o) == answer[o] = "ok" => todo[o] = <<>>

\* Whoever has written the member's wallet holds it.
MemberHeld(o) == own[o].member # NoWallet => lock[ask[o].who] = o

Domains == /\ todo \in [Requests -> Seq(Awaits)]
           /\ DOMAIN own = Requests
           /\ \A o \in Requests : "member" \in DOMAIN own[o]
           /\ DOMAIN wallet = Members \cup {Bank}
           /\ shelf \in Shelves

OrderInv ==
    /\ TypeOK
    /\ Domains
    /\ LocksAreHeld
    /\ \A o \in Requests : Shape(o) /\ BankHeld(o) /\ Answered(o) /\ MemberHeld(o)
-----------------------------------------------------------------------------
(* Sequences of awaits.                                                    *)

LEMMA AskTyped == TypeOK /\ Domains => \A o \in Requests : /\ ask[o].who \in Members
                                                           /\ ask[o].pay \in BOOLEAN
                                                           /\ ask[o].who \in Rows
                                                           /\ Bank \in Rows
  <1> SUFFICES ASSUME TypeOK, NEW o \in Requests
               PROVE  /\ ask[o].who \in Members /\ ask[o].pay \in BOOLEAN
                      /\ ask[o].who \in Rows /\ Bank \in Rows
    OBVIOUS
  <1>1. ask \in [Requests -> OrderDto]
    BY OrderAssumption DEF TypeOK
  <1>2. ask[o] \in OrderDto
    BY <1>1
  <1> QED
    BY <1>2 DEF OrderDto, Rows

\* What a tail keeps of the awaits before it.
LEMMA TailKeeps ==
    ASSUME NEW t \in Seq(Awaits), t # <<>>
    PROVE  /\ Tail(t) \in Seq(Awaits)
           /\ OnceBegun(t) => Running(Tail(t))
           /\ BankAhead(t) => Head(t) = "bank" \/ BankAhead(Tail(t))
           /\ Running(t) /\ Head(t) = "ok" => Tail(t) = <<>>
  <1>1. /\ Len(t) \in Nat /\ Len(t) > 0 /\ Head(t) = t[1]
        /\ Tail(t) \in Seq(Awaits) /\ Len(Tail(t)) = Len(t) - 1
        /\ \A i \in 1..(Len(t) - 1) : Tail(t)[i] = t[i + 1]
    OBVIOUS
  <1>2. Len(Tail(t)) = Len(t) - 1
    OBVIOUS
  <1>3. OnceBegun(t) => Running(Tail(t))
    <2> SUFFICES ASSUME OnceBegun(t), NEW i \in 1..Len(Tail(t))
                 PROVE  /\ Tail(t)[i] \notin Aside
                        /\ Tail(t)[i] = "ok" => i = Len(Tail(t))
      BY DEF Running
    <2>1. i \in 1..(Len(t) - 1) /\ i + 1 \in 2..Len(t)
      BY <1>1
    <2>2. Tail(t)[i] = t[i + 1]
      BY <1>1, <2>1
    <2>3. t[i + 1] \notin Aside /\ (t[i + 1] = "ok" => i + 1 = Len(t))
      BY <2>1 DEF OnceBegun
    <2>4. ASSUME Tail(t)[i] = "ok" PROVE i = Len(Tail(t))
      <3>1. i + 1 = Len(t)
        BY <2>2, <2>3, <2>4
      <3>2. i = Len(t) - 1
        BY <2>1, <3>1
      <3> QED
        BY <1>2, <3>2
    <2> QED
      BY <2>2, <2>3, <2>4
  <1>4. ASSUME BankAhead(t), Head(t) # "bank" PROVE BankAhead(Tail(t))
    <2>1. PICK i \in 1..Len(t) : t[i] = "bank"
      BY <1>4 DEF BankAhead
    <2>2. i # 1
      BY <1>1, <1>4, <2>1
    <2>3. i - 1 \in 1..(Len(t) - 1) /\ (i - 1) + 1 = i
      BY <1>1, <2>2
    <2>4. Tail(t)[i - 1] = "bank"
      BY <1>1, <2>1, <2>3
    <2> QED
      BY <1>1, <2>3, <2>4 DEF BankAhead
  <1>5. ASSUME Running(t), Head(t) = "ok" PROVE Tail(t) = <<>>
    <2>1. 1 \in 1..Len(t) /\ t[1] = "ok"
      BY <1>1, <1>5
    <2>2. 1 = Len(t)
      BY <1>5, <2>1 DEF Running
    <2>3. Len(t) - 1 = 0
      BY <2>2
    <2>4. Len(Tail(t)) = 0
      BY <1>2, <2>3
    <2>5. Tail(t) \in Seq(Awaits)
      BY <1>1
    <2> QED
      BY <2>4, <2>5, EmptySeq
  <1> QED
    BY <1>1, <1>3, <1>4, <1>5

\* Awaits put before those that are left.
LEMMA ConcatKeeps ==
    ASSUME NEW s \in Seq(Awaits), NEW t \in Seq(Awaits), Running(t)
    PROVE  /\ s \o t \in Seq(Awaits)
           /\ OnTime(s, 1) => Running(s \o t)
           /\ s # <<>> /\ OnTime(s, 2) => OnceBegun(s \o t)
           /\ BankAhead(s) \/ BankAhead(t) => BankAhead(s \o t)
  <1> DEFINE u == s \o t
             m == Len(s)
             n == Len(t)
  <1>1. m \in Nat /\ n \in Nat /\ u \in Seq(Awaits) /\ Len(u) = m + n
    OBVIOUS
  <1>2. \A i \in 1..m : u[i] = s[i]
    BY ConcatProperties
  <1>3. \A i \in 1..n : u[m + i] = t[i]
    <2> SUFFICES ASSUME NEW i \in 1..n PROVE u[m + i] = t[i]
      OBVIOUS
    <2>1. m + i \in 1..(m + n) /\ ~(m + i <= m) /\ (m + i) - m = i
      BY <1>1
    <2> QED
      BY <1>1, <2>1, ConcatProperties
  <1> HIDE DEF u, m, n
  <1>5. ASSUME NEW k \in {1, 2}, OnTime(s, k), k = 1 \/ s # <<>>, NEW i \in k..(m + n)
        PROVE  u[i] \notin Aside /\ (u[i] = "ok" => i = m + n)
    <2>1. CASE i \in k..m
      <3>1. i \in 1..m /\ u[i] = s[i]
        BY <1>1, <1>2, <2>1
      <3>2. s[i] \notin Aside /\ s[i] # "ok"
        BY <1>5, <2>1 DEF OnTime, m
      <3> QED
        BY <3>1, <3>2
    <2>2. CASE i \notin k..m
      <3>1. m > 0 \/ k = 1
        BY <1>1, <1>5, EmptySeq DEF m
      <3>2. i - m \in 1..n /\ m + (i - m) = i
        BY <1>1, <2>2, <3>1
      <3> DEFINE j == i - m
      <3>3. j \in 1..n /\ u[i] = t[j]
        BY <1>3, <3>2
      <3> HIDE DEF j
      <3>4. t[j] \notin Aside /\ (t[j] = "ok" => j = n)
        BY <3>3 DEF Running, n
      <3>5. j = n => i = m + n
        BY <1>1, <3>2 DEF j
      <3> QED
        BY <3>3, <3>4, <3>5
    <2> QED
      BY <2>1, <2>2
  <1>6. OnTime(s, 1) => Running(u)
    BY <1>1, <1>5 DEF Running
  <1>7. s # <<>> /\ OnTime(s, 2) => OnceBegun(u)
    BY <1>1, <1>5 DEF OnceBegun
  <1>8. ASSUME BankAhead(s) PROVE BankAhead(u)
    <2>1. PICK i \in 1..m : s[i] = "bank"
      BY <1>8 DEF BankAhead, m
    <2>2. i \in 1..(m + n) /\ u[i] = "bank"
      BY <1>1, <1>2, <2>1
    <2> QED
      BY <1>1, <2>2 DEF BankAhead
  <1>9. ASSUME BankAhead(t) PROVE BankAhead(u)
    <2>1. PICK i \in 1..n : t[i] = "bank"
      BY <1>9 DEF BankAhead, n
    <2>2. m + i \in 1..(m + n) /\ u[m + i] = "bank"
      BY <1>1, <1>3, <2>1
    <2> QED
      BY <1>1, <2>2 DEF BankAhead
  <1> QED
    BY <1>1, <1>6, <1>7, <1>8, <1>9 DEF u

\* The awaits of an order begin with the transaction, run to "ok" and pass the
\* company's wallet.
LEMMA ProgramRuns ==
    ASSUME NEW q
    PROVE  /\ Program(q) \in Seq(Awaits) /\ Program(q) # <<>>
           /\ Head(Program(q)) = "begin"
           /\ OnceBegun(Program(q))
           /\ BankAhead(Program(q))
  <1> DEFINE first == <<"begin", "user", "provider", "order", "platform", "wallet", "look",
                        "readBank", "bank", "look", "memberLog", "bankLog">>
             last == IF q.pay THEN <<"vouchers", "ok">> ELSE <<"ok">>
  <1>1. first \in Seq(Awaits) /\ first # <<>> /\ first[1] = "begin" /\ Len(first) = 12
    BY DEF Awaits
  <1>2. OnTime(first, 2)
    BY DEF OnTime, Aside
  <1>3. BankAhead(first)
    BY DEF BankAhead
  <1>4. last \in Seq(Awaits) /\ last # <<>>
    <2>1. "vouchers" \in Awaits /\ "ok" \in Awaits
      BY DEF Awaits
    <2> HIDE DEF Awaits
    <2>2. CASE q.pay
      BY <2>1, <2>2
    <2>3. CASE ~q.pay
      BY <2>1, <2>3
    <2> QED
      BY <2>2, <2>3
  <1>5. Running(last)
    BY DEF Running, Aside
  <1>6. Program(q) = first \o last
    BY DEF Program
  <1> HIDE DEF first, last
  <1>7. OnceBegun(first \o last) /\ BankAhead(first \o last) /\ first \o last \in Seq(Awaits)
    BY <1>1, <1>2, <1>3, <1>4, <1>5, ConcatKeeps
  <1>8. first \o last # <<>> /\ (first \o last)[1] = first[1]
    BY <1>1, <1>4, ConcatProperties
  <1>9. Head(first \o last) = "begin"
    BY <1>1, <1>7, <1>8
  <1> QED
    BY <1>6, <1>7, <1>8, <1>9

\* Only awaits of the orderly way are not "begin", "rollback" or "masked".
LEMMA OnTheWay ==
    ASSUME OrderInv, NEW o \in Requests, todo[o] # <<>>, Head(todo[o]) \notin Aside
    PROVE  /\ tx[o] = "open" /\ Running(todo[o])
           /\ todo[o] # <<"rollback">> /\ todo[o] \in Seq(Awaits)
  <1>1. Shape(o) /\ todo[o] \in Seq(Awaits)
    BY DEF OrderInv, Domains
  <1>2. todo[o] # Program(ask[o])
    BY ProgramRuns, AskTyped DEF OrderInv, Aside
  <1>3. todo[o] # <<"rollback">> /\ todo[o] # <<"masked">>
    BY DEF Aside
  <1> QED
    BY <1>1, <1>2, <1>3 DEF Shape
-----------------------------------------------------------------------------
(* The actions.                                                            *)

\* What is locked stays locked for the same request; what is not may become o's.
LockedFor(o) == /\ lock' \in [Rows -> Requests \cup {Nobody}]
                /\ \A r \in Rows : \/ lock'[r] = lock[r]
                                   \/ lock[r] = Nobody /\ lock'[r] = o

\* Only o's own writes change.
OwnOf(o) == /\ DOMAIN own' = Requests
            /\ \A p \in Requests \ {o} : own'[p] = own[p]
            /\ "member" \in DOMAIN own'[o]

LEMMA Locking ==
    ASSUME TypeOK, NEW o \in Requests, NEW r,
           \/ lock' = lock
           \/ lock[r] \in {Nobody, o} /\ lock' = [lock EXCEPT ![r] = o]
    PROVE  LockedFor(o)
  BY DEF TypeOK, LockedFor

\* The frame of an await that goes well: it is taken off, one row may be locked,
\* o may write.
LEMMA GoesOn ==
    ASSUME OrderInv, NEW o \in Requests,
           todo[o] # <<>>, Head(todo[o]) \notin Aside \cup {"ok"},
           UNCHANGED ask, UNCHANGED shelf, UNCHANGED tx, UNCHANGED answer, UNCHANGED wallet,
           UNCHANGED topUps, UNCHANGED restarts,
           LockedFor(o), OwnOf(o),
           Head(todo[o]) = "bank" => lock'[Bank] = o,
           own'[o].member # NoWallet => lock'[ask[o].who] = o,
           NEW t \in Seq(Awaits), todo' = [todo EXCEPT ![o] = t],
           Running(t),
           BankAhead(todo[o]) => Head(todo[o]) = "bank" \/ BankAhead(t)
    PROVE  OrderInv'
  <1> USE DEF OrderInv
  <1>1. tx[o] = "open" /\ Running(todo[o]) /\ todo[o] # <<"rollback">>
    BY OnTheWay
  <1>2. TypeOK'
    BY DEF TypeOK, LockedFor
  <1>3. Domains'
    BY DEF Domains, OwnOf
  <1>4. LocksAreHeld'
    BY <1>1 DEF LocksAreHeld, LockedFor
  <1>5. Shape(o)' /\ todo'[o] = t
    BY <1>1 DEF Shape, Domains
  <1>6. BankHeld(o)'
    <2> SUFFICES ASSUME ~BankAhead(t) PROVE lock'[Bank] = o
      BY <1>5 DEF BankHeld
    <2>1. CASE Head(todo[o]) = "bank"
      BY <2>1
    <2>2. CASE Head(todo[o]) # "bank"
      <3>1. lock[Bank] = o
        BY <1>1, <2>2 DEF BankHeld
      <3> QED
        BY <3>1, AskTyped, OrderAssumption DEF LockedFor
    <2> QED
      BY <2>1, <2>2
  <1>7. Answered(o)' /\ MemberHeld(o)'
    BY DEF Answered, MemberHeld
  <1>8. ASSUME NEW p \in Requests, p # o
        PROVE  Shape(p)' /\ BankHeld(p)' /\ Answered(p)' /\ MemberHeld(p)'
    <2>1. todo'[p] = todo[p] /\ own'[p] = own[p]
      BY <1>8 DEF Domains, OwnOf
    <2>2. \A r \in Rows : lock[r] = p => lock'[r] = p
      BY OrderAssumption DEF LockedFor
    <2> QED
      BY <1>8, <2>1, <2>2, AskTyped DEF Shape, BankHeld, Answered, MemberHeld
  <1> QED
    BY <1>2, <1>3, <1>4, <1>5, <1>6, <1>7, <1>8

LEMMA TakenOff ==
    ASSUME OrderInv, NEW o \in Requests, NEW await, At(o, await), await \notin Aside \cup {"ok"},
           UNCHANGED ask, UNCHANGED shelf, UNCHANGED tx, UNCHANGED answer, UNCHANGED wallet,
           UNCHANGED topUps, UNCHANGED restarts,
           LockedFor(o), OwnOf(o), Goes(o),
           await = "bank" => lock'[Bank] = o,
           own'[o].member = own[o].member \/ lock'[ask[o].who] = o
    PROVE  OrderInv'
  <1>1. todo[o] # <<>> /\ Head(todo[o]) = await
    BY DEF At
  <1>2. Running(todo[o]) /\ todo[o] \in Seq(Awaits)
    BY <1>1, OnTheWay
  <1>3. OnceBegun(todo[o])
    BY <1>2 DEF Running, OnceBegun
  <1>4. /\ Tail(todo[o]) \in Seq(Awaits) /\ Running(Tail(todo[o]))
        /\ BankAhead(todo[o]) => await = "bank" \/ BankAhead(Tail(todo[o]))
    BY <1>1, <1>2, <1>3, TailKeeps
  <1>5. own'[o].member # NoWallet => lock'[ask[o].who] = o
    <2>1. own[o].member # NoWallet => lock[ask[o].who] = o
      BY DEF OrderInv, MemberHeld
    <2>2. ask[o].who \in Rows
      BY AskTyped DEF OrderInv
    <2> QED
      BY <2>1, <2>2, OrderAssumption DEF LockedFor
  <1>6. todo' = [todo EXCEPT ![o] = Tail(todo[o])]
    BY DEF Goes
  <1> QED
    BY <1>1, <1>4, <1>5, <1>6, GoesOn

\* Awaits that only read.
LEMMA Reading ==
    ASSUME OrderInv, NEW o \in Requests, NEW await, At(o, await),
           await \notin Aside \cup {"ok", "bank"}, Goes(o),
           UNCHANGED fixed, UNCHANGED tx, UNCHANGED answer, UNCHANGED lock, UNCHANGED wallet,
           UNCHANGED own, UNCHANGED topUps, UNCHANGED restarts
    PROVE  OrderInv'
  <1>1. LockedFor(o)
    BY DEF OrderInv, TypeOK, LockedFor
  <1>2. OwnOf(o)
    BY DEF OrderInv, Domains, OwnOf
  <1>3. UNCHANGED ask /\ UNCHANGED shelf
    BY DEF fixed
  <1> QED
    BY <1>1, <1>2, <1>3, TakenOff

\* Awaits that write.
LEMMA Writing ==
    ASSUME OrderInv, NEW o \in Requests, NEW await, At(o, await),
           await \notin Aside \cup {"ok"}, Goes(o), NEW what, Writes(o, what), LockedFor(o),
           await = "bank" => lock'[Bank] = o,
           "member" \in DOMAIN what,
           what.member = own[o].member \/ lock'[ask[o].who] = o
    PROVE  OrderInv'
  <1>1. DOMAIN own = Requests
    BY DEF OrderInv, Domains
  <1>2. own' = [own EXCEPT ![o] = what]
    BY DEF Writes
  <1>3. own'[o] = what /\ OwnOf(o)
    BY <1>1, <1>2 DEF OwnOf
  <1>4. /\ UNCHANGED ask /\ UNCHANGED shelf /\ UNCHANGED tx /\ UNCHANGED answer
        /\ UNCHANGED wallet /\ UNCHANGED topUps /\ UNCHANGED restarts
    BY DEF Writes, fixed
  <1> QED
    BY <1>3, <1>4, TakenOff

\* What a request has read of its own row stays in reach of the domain facts.
LEMMA OwnRow == OrderInv => \A o \in Requests : "member" \in DOMAIN own[o]
  BY DEF OrderInv, Domains

LEMMA InitHolds == Init => OrderInv
  <1> SUFFICES ASSUME Init PROVE OrderInv
    OBVIOUS
  <1> USE OrderAssumption DEF Init
  <1>1. TypeOK
    BY DEF TypeOK, Answers
  <1>2. Domains
    BY ProgramRuns DEF Domains, Unwritten
  <1>3. LocksAreHeld
    BY DEF LocksAreHeld
  <1>4. ASSUME NEW o \in Requests
        PROVE  Shape(o) /\ BankHeld(o) /\ Answered(o) /\ MemberHeld(o)
    BY <1>4 DEF Shape, BankHeld, Answered, MemberHeld, Unwritten
  <1> QED
    BY <1>1, <1>2, <1>3, <1>4 DEF OrderInv

LEMMA BeginKeeps == ASSUME OrderInv, NEW o \in Requests, Begin(o) PROVE OrderInv'
  <1> USE DEF OrderInv
  <1>1. /\ todo[o] # <<>> /\ Head(todo[o]) = "begin" /\ todo[o] \in Seq(Awaits)
        /\ todo' = [todo EXCEPT ![o] = Tail(todo[o])] /\ tx' = [tx EXCEPT ![o] = "open"]
        /\ UNCHANGED ask /\ UNCHANGED shelf /\ UNCHANGED answer /\ UNCHANGED lock
        /\ UNCHANGED wallet /\ UNCHANGED own /\ UNCHANGED topUps /\ UNCHANGED restarts
    BY DEF Begin, At, Goes, fixed, Domains
  <1>2. todo[o] # <<"rollback">> /\ todo[o] # <<"masked">>
    BY <1>1
  <1>3. ~Running(todo[o])
    <2>1. Len(todo[o]) \in Nat /\ Len(todo[o]) > 0 /\ todo[o][1] = "begin"
      BY <1>1
    <2> QED
      BY <2>1 DEF Running, Aside
  <1>4. tx[o] = "none" /\ todo[o] = Program(ask[o])
    BY <1>1, <1>2, <1>3 DEF Shape
  <1>5. Tail(todo[o]) \in Seq(Awaits) /\ Running(Tail(todo[o])) /\ BankAhead(Tail(todo[o]))
    BY <1>1, <1>4, ProgramRuns, TailKeeps
  <1>6. TypeOK' /\ Domains'
    BY <1>1, <1>5 DEF TypeOK, Domains
  <1>7. LocksAreHeld'
    BY <1>1, <1>4 DEF LocksAreHeld, TypeOK
  <1>8. Shape(o)' /\ BankHeld(o)' /\ Answered(o)' /\ MemberHeld(o)'
    BY <1>1, <1>5 DEF Shape, BankHeld, Answered, MemberHeld, TypeOK, Domains
  <1>9. ASSUME NEW p \in Requests, p # o
        PROVE  Shape(p)' /\ BankHeld(p)' /\ Answered(p)' /\ MemberHeld(p)'
    <2>1. todo'[p] = todo[p] /\ tx'[p] = tx[p]
      BY <1>1, <1>9 DEF Domains, TypeOK
    <2> QED
      BY <1>1, <1>9, <2>1 DEF Shape, BankHeld, Answered, MemberHeld
  <1> QED
    BY <1>6, <1>7, <1>8, <1>9

LEMMA ReadsKeep ==
    ASSUME OrderInv, NEW o \in Requests,
           ReadUser(o) \/ LookUp(o) \/ Passes(o) \/ ReadBank(o)
    PROVE  OrderInv'
  <1>1. CASE ReadUser(o)
    BY <1>1, Reading DEF ReadUser, Reads, Aside
  <1>2. CASE LookUp(o)
    BY <1>2, Reading DEF LookUp, Reads, Aside
  <1>3. CASE Passes(o)
    <2>1. PICK await \in {"platform", "look", "cardLook"} : At(o, await)
      BY <1>3 DEF Passes
    <2> QED
      BY <1>3, <2>1, Reading DEF Passes, Aside
  <1>4. CASE ReadBank(o)
    BY <1>4, Reading DEF ReadBank, Reads, Aside
  <1> QED
    BY <1>1, <1>2, <1>3, <1>4

LEMMA WritesKeep ==
    ASSUME OrderInv, NEW o \in Requests,
           \/ Insert(o) \/ ChargeMember(o) \/ CreditBank(o) \/ Log(o)
           \/ WriteVoucherWallet(o) \/ WriteVoucher(o) \/ LogVoucher(o)
    PROVE  OrderInv'
  <1> USE OwnRow, AskTyped DEF Aside
  <1>0. TypeOK /\ Domains
    BY DEF OrderInv
  <1>1. CASE Insert(o)
    <2>1. LockedFor(o)
      BY <1>0, <1>1, Locking DEF Insert, Acquire
    <2> QED
      BY <1>1, <2>1, Writing DEF Insert
  <1>2. CASE ChargeMember(o)
    <2>1. LockedFor(o) /\ lock'[ask[o].who] = o
      BY <1>0, <1>2, Locking DEF ChargeMember, Acquire, TypeOK
    <2> QED
      BY <1>2, <2>1, Writing DEF ChargeMember
  <1>3. CASE CreditBank(o)
    <2>1. LockedFor(o) /\ lock'[Bank] = o
      BY <1>0, <1>3, Locking DEF CreditBank, Acquire, TypeOK
    <2> QED
      BY <1>3, <2>1, Writing DEF CreditBank
  <1>4. CASE Log(o)
    <2>1. LockedFor(o)
      BY <1>0, <1>4, Locking DEF Log
    <2>2. CASE At(o, "memberLog")
      BY <1>4, <2>1, <2>2, Writing DEF Log, At
    <2>3. CASE At(o, "bankLog")
      BY <1>4, <2>1, <2>3, Writing DEF Log, At
    <2> QED
      BY <1>4, <2>2, <2>3 DEF Log
  <1>5. CASE WriteVoucherWallet(o)
    <2>1. LockedFor(o) /\ lock'[ask[o].who] = o
      BY <1>0, <1>5, Locking DEF WriteVoucherWallet, Acquire, TypeOK
    <2> QED
      BY <1>5, <2>1, Writing DEF WriteVoucherWallet
  <1>6. CASE WriteVoucher(o)
    <2>1. LockedFor(o)
      BY <1>0, <1>6, Locking DEF WriteVoucher, Acquire
    <2> QED
      BY <1>6, <2>1, Writing DEF WriteVoucher
  <1>7. CASE LogVoucher(o)
    <2>1. LockedFor(o)
      BY <1>0, <1>7, Locking DEF LogVoucher
    <2>2. PICK i, row : /\ i = Len(own[o].used)
                        /\ Writes(o, [own[o] EXCEPT !.logs = Append(@, row)])
      BY <1>7 DEF LogVoucher
    <2> DEFINE what == [own[o] EXCEPT !.logs = Append(@, row)]
    <2>3. "member" \in DOMAIN what /\ what.member = own[o].member
      BY <1>0, <1>7 DEF LogVoucher, Domains
    <2>4. Writes(o, what)
      BY <2>2
    <2>5. At(o, "cardLog") /\ Goes(o) /\ "cardLog" \notin Aside \cup {"ok"}
      BY <1>7 DEF LogVoucher, Aside
    <2> HIDE DEF what
    <2> QED
      BY <2>1, <2>3, <2>4, <2>5, Writing
  <1> QED
    BY <1>1, <1>2, <1>3, <1>4, <1>5, <1>6, <1>7

\* The awaits useDiscount puts in between.
LEMMA VouchersKeep ==
    ASSUME OrderInv, NEW o \in Requests, ReadVouchers(o)
    PROVE  OrderInv'
  <1> DEFINE mine == shelf[ask[o].who]
             each == [i \in 1..(3 * Len(mine)) |-> PerVoucher[1 + ((i - 1) % 3)]]
             s == <<"voucherWallet", "look">> \o each
             t == Tail(todo[o])
  <1>1. TypeOK /\ Domains
    BY DEF OrderInv
  <1>2. todo[o] # <<>> /\ Head(todo[o]) = "vouchers"
    BY DEF ReadVouchers, At
  <1>3. Running(todo[o]) /\ todo[o] \in Seq(Awaits)
    BY <1>2, OnTheWay DEF Aside
  <1>4. OnceBegun(todo[o])
    BY <1>3 DEF Running, OnceBegun
  <1>5. /\ t \in Seq(Awaits) /\ Running(t)
        /\ BankAhead(todo[o]) => BankAhead(t)
    BY <1>2, <1>3, <1>4, TailKeeps
  <1>7. Len(mine) \in Nat
    <2>1. mine \in Seq(Effective)
      BY <1>1, AskTyped, OrderAssumption DEF Domains
    <2> HIDE DEF mine
    <2> QED
      BY <2>1
  <1>8. \A i \in 1..(3 * Len(mine)) : each[i] \in {"card", "cardLook", "cardLog"}
    <2> SUFFICES ASSUME NEW i \in 1..(3 * Len(mine))
                 PROVE  each[i] \in {"card", "cardLook", "cardLog"}
      OBVIOUS
    <2> DEFINE k == 1 + ((i - 1) % 3)
    <2>1. k \in 1..3
      <3> HIDE DEF mine
      <3> QED
        BY <1>7
    <2>2. each[i] = PerVoucher[k]
      OBVIOUS
    <2> HIDE DEF k, each
    <2> QED
      BY <2>1, <2>2 DEF PerVoucher
  <1>9. each \in [1..(3 * Len(mine)) -> Awaits] /\ 3 * Len(mine) \in Nat
    <2>1. \A i \in 1..(3 * Len(mine)) : each[i] \in Awaits
      <3> HIDE DEF each, mine
      <3> QED
        BY <1>8 DEF Awaits
    <2> DEFINE n == 3 * Len(mine)
    <2>2. n \in Nat
      BY <1>7
    <2>3. each = [i \in 1..n |-> each[i]]
      OBVIOUS
    <2> HIDE DEF each, n
    <2>4. \A i \in 1..n : each[i] \in Awaits
      BY <2>1 DEF n
    <2>5. each \in [1..n -> Awaits]
      BY <2>3, <2>4
    <2> QED
      BY <2>2, <2>5 DEF n
  <1> HIDE DEF each, mine, t
  <1>10. each \in Seq(Awaits) /\ Len(each) = 3 * Len(mine)
    BY <1>9, SeqDef
  <1>11. OnTime(each, 1)
    BY <1>8, <1>10 DEF OnTime, Aside
  <1>12. /\ each \o t \in Seq(Awaits) /\ Running(each \o t)
         /\ BankAhead(t) => BankAhead(each \o t)
    BY <1>5, <1>10, <1>11, ConcatKeeps
  <1> DEFINE first == <<"voucherWallet", "look">>
  <1>13. first \in Seq(Awaits) /\ OnTime(first, 1)
    BY DEF Awaits, OnTime, Aside
  <1> HIDE DEF first
  <1>14. /\ first \o (each \o t) \in Seq(Awaits) /\ Running(first \o (each \o t))
         /\ BankAhead(each \o t) => BankAhead(first \o (each \o t))
    BY <1>12, <1>13, ConcatKeeps
  <1>15. first \o (each \o t) = (first \o each) \o t
    <2>1. first \in Seq(Awaits) /\ each \in Seq(Awaits) /\ t \in Seq(Awaits)
      BY <1>5, <1>10, <1>13
    <2> HIDE DEF Awaits
    <2> QED
      BY <2>1, ConcatAssociative
  <1>16. todo' = [todo EXCEPT ![o] = first \o each \o t]
    BY DEF ReadVouchers, first, each, mine, t
  <1>17. /\ UNCHANGED ask /\ UNCHANGED shelf /\ UNCHANGED tx /\ UNCHANGED answer
         /\ UNCHANGED wallet /\ UNCHANGED own /\ UNCHANGED topUps /\ UNCHANGED restarts
         /\ UNCHANGED lock
    BY DEF ReadVouchers, Reads, fixed
  <1>18. LockedFor(o) /\ OwnOf(o)
    BY <1>1, <1>17 DEF TypeOK, Domains, LockedFor, OwnOf
  <1>19. own'[o].member # NoWallet => lock'[ask[o].who] = o
    BY <1>17 DEF OrderInv, MemberHeld
  <1> QED
    BY <1>2, <1>5, <1>12, <1>14, <1>15, <1>16, <1>17, <1>18, <1>19, GoesOn DEF Aside

LEMMA AcknowledgeKeeps == ASSUME OrderInv, NEW o \in Requests, Acknowledge(o) PROVE OrderInv'
  <1> USE DEF OrderInv
  <1>1. /\ todo[o] # <<>> /\ Head(todo[o]) = "ok" /\ tx' = [tx EXCEPT ![o] = tx[o]]
        /\ todo' = [todo EXCEPT ![o] = Tail(todo[o])] /\ answer' = [answer EXCEPT ![o] = "ok"]
        /\ UNCHANGED ask /\ UNCHANGED shelf /\ UNCHANGED lock
        /\ UNCHANGED wallet /\ UNCHANGED own /\ UNCHANGED topUps /\ UNCHANGED restarts
    BY DEF Acknowledge, At, Goes, Done, fixed
  <1>2. /\ tx[o] = "open" /\ Running(todo[o]) /\ todo[o] # <<"rollback">>
        /\ todo[o] \in Seq(Awaits)
    BY <1>1, OnTheWay DEF Aside
  <1>3. Tail(todo[o]) = <<>>
    BY <1>1, <1>2, TailKeeps
  <1>4. tx' = tx
    BY <1>1 DEF TypeOK
  <1>5. todo'[o] = <<>> /\ todo' \in [Requests -> Seq(Awaits)]
    BY <1>1, <1>3 DEF Domains
  <1>6. TypeOK' /\ Domains' /\ LocksAreHeld'
    BY <1>1, <1>4, <1>5 DEF TypeOK, Domains, LocksAreHeld, Answers
  <1>7. ~BankAhead(todo[o])
    BY <1>1, <1>2, <1>3, TailKeeps DEF BankAhead, Running, OnceBegun
  <1>8. Shape(o)' /\ BankHeld(o)' /\ Answered(o)' /\ MemberHeld(o)'
    BY <1>1, <1>2, <1>4, <1>5, <1>7 DEF Shape, BankHeld, Answered, MemberHeld, Running
  <1>9. ASSUME NEW p \in Requests, p # o
        PROVE  Shape(p)' /\ BankHeld(p)' /\ Answered(p)' /\ MemberHeld(p)'
    <2>1. todo'[p] = todo[p] /\ answer'[p] = answer[p]
      BY <1>1, <1>9 DEF Domains, TypeOK
    <2> QED
      BY <1>1, <1>4, <1>9, <2>1 DEF Shape, BankHeld, Answered, MemberHeld
  <1> QED
    BY <1>6, <1>8, <1>9

LEMMA FailsKeep == ASSUME OrderInv, NEW o \in Requests, Fails(o) PROVE OrderInv'
  <1> USE DEF OrderInv
  <1>1. /\ UNCHANGED ask /\ UNCHANGED shelf /\ UNCHANGED lock
        /\ UNCHANGED wallet /\ UNCHANGED own /\ UNCHANGED topUps /\ UNCHANGED restarts
        /\ todo[o] # <<>> /\ todo[o] \in Seq(Awaits)
    BY DEF Fails, fixed, Domains
  <1>2. <<>> \in Seq(Awaits) /\ <<"masked">> \in Seq(Awaits) /\ <<"rollback">> \in Seq(Awaits)
    BY DEF Awaits
  <1>3. CASE Head(todo[o]) = "begin"
    <2>1. /\ todo' = [todo EXCEPT ![o] = <<>>] /\ tx' = tx
          /\ answer' = [answer EXCEPT ![o] = "refused"]
      BY <1>3 DEF Fails
    <2>2. tx[o] = "none"
      <3>1. ~Running(todo[o])
        BY <1>1, <1>3 DEF Running, Aside
      <3> QED
        BY <1>1, <1>3, <3>1 DEF Shape
    <2> QED
      BY <1>1, <1>2, <2>1, <2>2
      DEF TypeOK, Domains, LocksAreHeld, Shape, BankHeld, Answered, MemberHeld, Answers
  <1>4. CASE Head(todo[o]) # "begin"
    <2>1. tx[o] = "open" /\ UNCHANGED answer
      BY <1>1, <1>4, OnTheWay DEF Fails, Aside
    <2>2. answer[o] # "ok"
      BY <1>1 DEF Answered
    <2>3. CASE Head(todo[o]) \in RollingAwaits
      <3>1. tx' = [tx EXCEPT ![o] = "rolling"] /\ todo' = [todo EXCEPT ![o] = <<"masked">>]
        BY <1>4, <2>3 DEF Fails
      <3> QED
        BY <1>1, <1>2, <2>1, <2>2, <3>1
        DEF TypeOK, Domains, LocksAreHeld, Shape, BankHeld, Answered, MemberHeld
    <2>4. CASE Head(todo[o]) \notin RollingAwaits
      <3>1. tx' = tx /\ todo' = [todo EXCEPT ![o] = <<"rollback">>]
        BY <1>4, <2>4 DEF Fails
      <3> QED
        BY <1>1, <1>2, <2>1, <2>2, <3>1
        DEF TypeOK, Domains, LocksAreHeld, Shape, BankHeld, Answered, MemberHeld
    <2> QED
      BY <2>3, <2>4
  <1> QED
    BY <1>3, <1>4

LEMMA MaskKeeps == ASSUME OrderInv, NEW o \in Requests, Mask(o) PROVE OrderInv'
  <1> USE DEF OrderInv
  <1>1. /\ todo[o] # <<>> /\ Head(todo[o]) = "masked"
        /\ todo' = [todo EXCEPT ![o] = Tail(todo[o])]
        /\ answer' = [answer EXCEPT ![o] = "masked"]
        /\ UNCHANGED ask /\ UNCHANGED shelf /\ UNCHANGED lock /\ UNCHANGED tx
        /\ UNCHANGED wallet /\ UNCHANGED own /\ UNCHANGED topUps /\ UNCHANGED restarts
    BY DEF Mask, At, Goes, fixed
  <1>2. ~Running(todo[o])
    <2>1. todo[o] \in Seq(Awaits)
      BY DEF Domains
    <2> QED
      BY <1>1, <2>1 DEF Running, Aside
  <1>3. tx[o] \in {"rolling", "gone"} /\ todo[o] = <<"masked">>
    BY <1>1, <1>2, ProgramRuns DEF Shape
  <1>4. Tail(todo[o]) = <<>> /\ <<>> \in Seq(Awaits)
    BY <1>3
  <1>5. todo'[o] = <<>> /\ todo' \in [Requests -> Seq(Awaits)]
    BY <1>1, <1>4 DEF Domains
  <1> QED
    BY <1>1, <1>3, <1>5
    DEF TypeOK, Domains, LocksAreHeld, Shape, BankHeld, Answered, MemberHeld, Answers

\* What a transaction that ends leaves behind.
LEMMA Ending ==
    ASSUME OrderInv, NEW o \in Requests, tx' = [tx EXCEPT ![o] = "gone"],
           Release(o), own' = [own EXCEPT ![o] = Unwritten],
           UNCHANGED ask, UNCHANGED shelf, UNCHANGED wallet, UNCHANGED topUps, UNCHANGED restarts,
           NEW t \in {<<>>, <<"masked">>}, todo' = [todo EXCEPT ![o] = t],
           NEW a \in Answers, answer' = [answer EXCEPT ![o] = a], a = "ok" => t = <<>>
    PROVE  OrderInv'
  <1> USE OrderAssumption DEF OrderInv
  <1>1. t \in Seq(Awaits)
    <2>1. <<>> \in Seq(Awaits) /\ <<"masked">> \in Seq(Awaits)
      BY DEF Awaits
    <2> QED
      BY <2>1
  <1>2. TypeOK'
    BY DEF TypeOK, Release
  <1>3. Domains'
    BY <1>1 DEF Domains, Unwritten
  <1>4. LocksAreHeld'
    BY DEF LocksAreHeld, Release, TypeOK
  <1>5. Shape(o)' /\ BankHeld(o)' /\ Answered(o)' /\ MemberHeld(o)'
    BY DEF Shape, BankHeld, Answered, MemberHeld, TypeOK, Domains, Unwritten
  <1>6. ASSUME NEW p \in Requests, p # o
        PROVE  Shape(p)' /\ BankHeld(p)' /\ Answered(p)' /\ MemberHeld(p)'
    <2>1. /\ todo'[p] = todo[p] /\ tx'[p] = tx[p] /\ answer'[p] = answer[p]
          /\ own'[p] = own[p]
      BY <1>6 DEF TypeOK, Domains
    <2>2. \A r \in Rows : lock[r] = p => lock'[r] = p
      BY <1>6 DEF Release
    <2> QED
      BY <2>1, <2>2, AskTyped DEF Shape, BankHeld, Answered, MemberHeld
  <1> QED
    BY <1>2, <1>3, <1>4, <1>5, <1>6

LEMMA RollbackKeeps == ASSUME OrderInv, NEW o \in Requests, Rollback(o) PROVE OrderInv'
  <1>1. /\ todo[o] # <<>> /\ Head(todo[o]) = "rollback" /\ todo[o] \in Seq(Awaits)
        /\ todo' = [todo EXCEPT ![o] = Tail(todo[o])]
    BY DEF Rollback, At, Goes, OrderInv, Domains
  <1>2. ~Running(todo[o])
    BY <1>1 DEF Running, Aside
  <1>3. todo[o] = <<"rollback">>
    BY <1>1, <1>2, ProgramRuns DEF Shape, OrderInv
  <1>4. Tail(todo[o]) = <<>>
    BY <1>3
  <1>5. /\ UNCHANGED ask /\ UNCHANGED shelf /\ UNCHANGED wallet /\ UNCHANGED topUps
        /\ UNCHANGED restarts /\ tx' = [tx EXCEPT ![o] = "gone"] /\ Release(o)
        /\ own' = [own EXCEPT ![o] = Unwritten] /\ answer' = [answer EXCEPT ![o] = "refused"]
    BY DEF Rollback, fixed
  <1> QED
    BY <1>1, <1>4, <1>5, Ending DEF Answers

LEMMA RollsBackKeeps == ASSUME OrderInv, NEW o \in Requests, RollsBack(o) PROVE OrderInv'
  <1>1. todo[o] \in {<<>>, <<"masked">>} /\ answer[o] \in Answers
    BY DEF RollsBack, OrderInv, Shape, TypeOK
  <1>2. todo' = [todo EXCEPT ![o] = todo[o]] /\ answer' = [answer EXCEPT ![o] = answer[o]]
    BY DEF RollsBack, OrderInv, Domains, TypeOK
  <1>3. answer[o] = "ok" => todo[o] = <<>>
    BY DEF OrderInv, Answered
  <1>4. /\ UNCHANGED ask /\ UNCHANGED shelf /\ UNCHANGED wallet /\ UNCHANGED topUps
        /\ UNCHANGED restarts /\ tx' = [tx EXCEPT ![o] = "gone"] /\ Release(o)
        /\ own' = [own EXCEPT ![o] = Unwritten]
    BY DEF RollsBack, fixed
  <1> QED
    BY <1>1, <1>2, <1>3, <1>4, Ending

LEMMA RestartKeeps == ASSUME OrderInv, Restart PROVE OrderInv'
  <1> USE OrderAssumption DEF OrderInv, Restart, fixed
  <1>1. TypeOK'
    BY DEF TypeOK, Answers
  <1>2. Domains'
    <2>1. <<>> \in Seq(Awaits)
      OBVIOUS
    <2>2. todo' \in [Requests -> Seq(Awaits)]
      BY <2>1 DEF Domains
    <2> QED
      BY <2>2 DEF Domains, Unwritten
  <1>3. LocksAreHeld'
    BY DEF LocksAreHeld
  <1>4. ASSUME NEW o \in Requests
        PROVE  Shape(o)' /\ BankHeld(o)' /\ Answered(o)' /\ MemberHeld(o)'
    <2>1. MemberHeld(o)'
      BY DEF MemberHeld, Unwritten
    <2>2. CASE tx[o] = "none"
      BY <2>1, <2>2 DEF Shape, BankHeld, Answered, TypeOK
    <2>3. CASE tx[o] # "none"
      BY <2>1, <2>3 DEF Shape, BankHeld, Answered, TypeOK
    <2> QED
      BY <2>2, <2>3
  <1> QED
    BY <1>1, <1>2, <1>3, <1>4

LEMMA TopUpKeeps == ASSUME OrderInv, NEW m \in Members, TopUp(m) PROVE OrderInv'
  <1> USE OrderAssumption DEF OrderInv, TopUp, fixed
  <1>1. TypeOK' /\ LocksAreHeld'
    BY DEF TypeOK, LocksAreHeld
  <1>2. Domains'
    BY DEF Domains
  <1>3. ASSUME NEW o \in Requests
        PROVE  Shape(o)' /\ BankHeld(o)' /\ Answered(o)' /\ MemberHeld(o)'
    BY DEF Shape, BankHeld, Answered, MemberHeld
  <1> QED
    BY <1>1, <1>2, <1>3

LEMMA StutterKeeps == OrderInv /\ UNCHANGED vars => OrderInv'
  BY DEF OrderInv, TypeOK, Domains, LocksAreHeld, Shape, BankHeld, Answered, MemberHeld, vars

LEMMA NextKeeps == OrderInv /\ [Next]_vars => OrderInv'
  <1> SUFFICES ASSUME OrderInv, [Next]_vars PROVE OrderInv'
    OBVIOUS
  <1>1. ASSUME NEW o \in Requests, Step(o) PROVE OrderInv'
    BY <1>1, BeginKeeps, ReadsKeep, WritesKeep, VouchersKeep, AcknowledgeKeeps, FailsKeep,
       RollbackKeeps, MaskKeeps DEF Step
  <1>2. ASSUME NEW o \in Requests, RollsBack(o) PROVE OrderInv'
    BY <1>2, RollsBackKeeps
  <1>3. CASE Restart
    BY <1>3, RestartKeeps
  <1>4. ASSUME NEW m \in Members, TopUp(m) PROVE OrderInv'
    BY <1>4, TopUpKeeps
  <1>5. CASE UNCHANGED vars
    BY <1>5, StutterKeeps
  <1> QED
    BY <1>1, <1>2, <1>3, <1>4, <1>5 DEF Next
-----------------------------------------------------------------------------
(* What is taken from vouchers.                                            *)

Entry == [amount : Nat, used : Int, log : Int]
Taking == [point : Int, cards : Seq(Entry)]

\* A voucher after something has been taken from it.
DrawnFrom(entry, card) ==
    entry.used \in card.used..card.amount /\ entry.used - card.used <= entry.log

LEMMA TakesOne ==
    ASSUME NEW taken \in Taking, NEW card \in Effective
    PROVE  /\ TakeFrom(taken, card) \in Taking
           /\ \E entry \in Entry : /\ TakeFrom(taken, card).cards = Append(taken.cards, entry)
                                   /\ DrawnFrom(entry, card)
  <1> DEFINE point == taken.point
             left == card.amount - card.used
             Gives(p, u, l) == TakeFrom(taken, card) =
                 [point |-> p, cards |-> Append(taken.cards, [amount |-> card.amount,
                                                              used |-> u, log |-> l])]
  <1>1. /\ point \in Int /\ card.amount \in Nat /\ card.used \in Nat
        /\ card.used < card.amount /\ taken.cards \in Seq(Entry)
    BY DEF Taking, Effective
  <1>2. \E p \in Int, u \in card.used..card.amount, l \in Int :
            Gives(p, u, l) /\ u - card.used <= l
    <2>1. CASE left >= point /\ point > 0
      <3>1. /\ left - point \in Int /\ card.used + point \in card.used..card.amount
            /\ card.used + point - card.used <= point
        BY <1>1, <2>1
      <3>2. Gives(left - point, card.used + point, point)
        BY <1>1, <2>1 DEF TakeFrom
      <3> HIDE DEF Gives
      <3> QED
        BY <1>1, <3>1, <3>2
    <2>2. CASE left < point /\ point > 0
      <3> DEFINE u == UsedUp(card, point - left)
      <3>1. /\ point - left \in Int /\ left \in Int /\ u \in card.used..card.amount
            /\ u - card.used <= left
        BY <1>1, <2>2 DEF UsedUp, Least
      <3>2. Gives(point - left, u, left)
        BY <1>1, <2>2 DEF TakeFrom
      <3> HIDE DEF Gives, u
      <3> QED
        BY <3>1, <3>2
    <2>3. CASE ~(point > 0)
      <3>1. card.used \in card.used..card.amount /\ card.used - card.used <= 0
        BY <1>1
      <3>2. Gives(point, card.used, 0)
        BY <2>3 DEF TakeFrom
      <3> HIDE DEF Gives
      <3> QED
        BY <1>1, <3>1, <3>2
    <2>4. left >= point \/ left < point
      BY <1>1
    <2> HIDE DEF Gives, point, left
    <2> QED
      BY <2>1, <2>2, <2>3, <2>4
  <1>3. PICK p \in Int, u \in card.used..card.amount, l \in Int :
            Gives(p, u, l) /\ u - card.used <= l
    BY <1>2
  <1> DEFINE entry == [amount |-> card.amount, used |-> u, log |-> l]
  <1>4. entry \in Entry
    BY <1>1 DEF Entry
  <1>5. DrawnFrom(entry, card)
    BY <1>3 DEF DrawnFrom
  <1>6. TakeFrom(taken, card) = [point |-> p, cards |-> Append(taken.cards, entry)]
    BY <1>3
  <1> HIDE DEF entry
  <1>7. Append(taken.cards, entry) \in Seq(Entry)
    BY <1>1, <1>4
  <1> QED
    BY <1>4, <1>5, <1>6, <1>7 DEF Taking

\* Whatever vouchers a member has, each is drawn from and none is left out.
LEMMA TakenDraws ==
    ASSUME NEW cards \in Seq(Effective)
    PROVE  /\ Taken(cards) \in Seq(Entry) /\ Len(Taken(cards)) = Len(cards)
           /\ \A i \in 1..Len(cards) : DrawnFrom(Taken(cards)[i], cards[i])
  <1> DEFINE n == Len(cards)
             start == [point |-> UsePoint, cards |-> <<>>]
             step == [p \in (1..n) \X Taking |-> TakeFrom(p[2], cards[p[1]])]
             Takes(g) == g = [i \in 0..n |-> IF i = 0 THEN start
                                             ELSE TakeFrom(g[i - 1], cards[i])]
             t == CHOOSE g : Takes(g)
  <1>1. n \in Nat /\ start \in Taking /\ \A i \in 1..n : cards[i] \in Effective
    BY DEF Taking, UsePoint
  <1>2. step \in [(1..n) \X Taking -> Taking]
    <2>1. \A p \in (1..n) \X Taking : TakeFrom(p[2], cards[p[1]]) \in Taking
      BY <1>1, TakesOne
    <2> QED
      BY <2>1
  <1>3. \E g : Takes(g)
    <2> HIDE DEF step, start, n, t, Takes
    <2>0. n \in Nat /\ start \in Taking /\ step \in [(1..n) \X Taking -> Taking]
      BY <1>1, <1>2
    <2>1. PICK g \in [0..n -> Taking] : Steps(g, n, start, step)
      BY <2>0, RecursionExists
    <2>2. ASSUME NEW i \in 1..n PROVE g[i] = TakeFrom(g[i - 1], cards[i])
      <3>1. i - 1 \in 0..n
        BY <1>1
      <3>2. g[i - 1] \in Taking
        BY <2>1, <3>1
      <3>3. step[<<i, g[i - 1]>>] = TakeFrom(g[i - 1], cards[i])
        BY <3>2 DEF step
      <3> QED
        BY <2>1, <3>3 DEF Steps
    <2>3. Takes(g)
      <3> USE DEF Takes
      <3>1. \A i \in 0..n : g[i] = IF i = 0 THEN start ELSE TakeFrom(g[i - 1], cards[i])
        <4>1. \A i \in 0..n : i = 0 \/ i \in 1..n
          BY <1>1
        <4> QED
          BY <2>1, <2>2, <4>1 DEF Steps
      <3> QED
        BY <2>1, <3>1
    <2> HIDE DEF Takes
    <2> QED
      BY <2>3
  <1>4. Takes(t)
    <2> HIDE DEF Takes
    <2> QED
      BY <1>3
  <1>5. Taken(cards) = t[n].cards
    BY DEF Taken
  <1> HIDE DEF t
  <1>6. t[0] = start /\ \A i \in 1..n : t[i] = TakeFrom(t[i - 1], cards[i])
    <2>1. \A i \in 0..n : t[i] = IF i = 0 THEN start ELSE TakeFrom(t[i - 1], cards[i])
      BY <1>4
    <2>2. 0 \in 0..n /\ \A i \in 1..n : i \in 0..n /\ i # 0
      BY <1>1
    <2> HIDE DEF Takes, start, n
    <2> QED
      BY <2>1, <2>2
  <1> DEFINE T == {i \in 0..n : /\ t[i] \in Taking /\ Len(t[i].cards) = i
                                /\ \A j \in 1..i : DrawnFrom(t[i].cards[j], cards[j])}
  <1> HIDE DEF n, Takes
  <1>7. 0 \in T
    BY <1>1, <1>6
  <1>8. ASSUME NEW i \in 1..n, i - 1 \in T PROVE i \in T
    <2>1. /\ t[i - 1] \in Taking /\ Len(t[i - 1].cards) = i - 1
          /\ \A j \in 1..(i - 1) : DrawnFrom(t[i - 1].cards[j], cards[j])
      BY <1>8
    <2>2. t[i] = TakeFrom(t[i - 1], cards[i]) /\ cards[i] \in Effective
      BY <1>1, <1>6
    <2>3. t[i] \in Taking
      BY <2>1, <2>2, TakesOne
    <2>4. PICK entry \in Entry : /\ t[i].cards = Append(t[i - 1].cards, entry)
                                 /\ DrawnFrom(entry, cards[i])
      BY <2>1, <2>2, TakesOne
    <2>5. i \in Nat /\ i \in 0..n /\ i = (i - 1) + 1
      BY <1>1
    <2>6. t[i - 1].cards \in Seq(Entry)
      BY <2>1 DEF Taking
    <2>7. /\ Len(t[i].cards) = i /\ t[i].cards[i] = entry
          /\ \A j \in 1..(i - 1) : t[i].cards[j] = t[i - 1].cards[j]
      BY <2>1, <2>4, <2>5, <2>6, AppendProperties
    <2>8. \A j \in 1..i : j = i \/ j \in 1..(i - 1)
      BY <2>5
    <2>9. \A j \in 1..i : DrawnFrom(t[i].cards[j], cards[j])
      BY <2>1, <2>4, <2>7, <2>8
    <2> QED
      BY <2>3, <2>5, <2>7, <2>9
  <1>9. 0..n \subseteq T
    <2> HIDE DEF T
    <2> QED
      BY <1>1, <1>7, <1>8, UpTo
  <1>10. n \in T
    <2> HIDE DEF T
    <2> QED
      BY <1>1, <1>9
  <1>11. t[n] \in Taking /\ Len(t[n].cards) = n
         /\ \A j \in 1..n : DrawnFrom(t[n].cards[j], cards[j])
    BY <1>10
  <1> QED
    BY <1>5, <1>11 DEF n, Taking
-----------------------------------------------------------------------------
(* Vouchers left to write.                                                 *)

\* Where a request may write a voucher and read the vouchers, which it does
\* last but one, when n vouchers are left to write.
CardsAhead(t, n) == \A j \in 1..Len(t) : t[j] = "card" =>
                        \E k \in 1..n : Len(t) - j = 3 * k
ReadAhead(t) == \A j \in 1..Len(t) : t[j] = "vouchers" => j = Len(t) - 1
Unread(t) == \E j \in 1..Len(t) : t[j] = "vouchers"

\* A request with the awaits t has drawn from the first vouchers what it said it
\* would, and has the others ahead.
Drawing(t, cards, used, taken) ==
    /\ CardsAhead(t, Len(cards) - Len(used))
    /\ ReadAhead(t)
    /\ Unread(t) => cards = <<>>
    /\ cards \in {<<>>, taken}
    /\ used \in Seq(Int) /\ Len(used) <= Len(cards)
    /\ \A i \in 1..Len(used) : used[i] = cards[i].used

DrawInv ==
    /\ DOMAIN reg = Requests
    /\ \A o \in Requests :
          /\ "cards" \in DOMAIN reg[o] /\ "used" \in DOMAIN own[o]
          /\ Drawing(todo[o], reg[o].cards, own[o].used, Taken(shelf[ask[o].who]))

LEMMA ShelfTaken == OrderInv => \A o \in Requests :
                        /\ shelf[ask[o].who] \in Seq(Effective)
                        /\ Taken(shelf[ask[o].who]) \in Seq(Entry)
  <1> SUFFICES ASSUME OrderInv, NEW o \in Requests
               PROVE  /\ shelf[ask[o].who] \in Seq(Effective)
                      /\ Taken(shelf[ask[o].who]) \in Seq(Entry)
    OBVIOUS
  <1>1. ask[o].who \in Members /\ shelf \in [Members -> Seq(Effective)]
    BY AskTyped, OrderAssumption DEF OrderInv, Domains
  <1>2. shelf[ask[o].who] \in Seq(Effective)
    BY <1>1
  <1> QED
    BY <1>2, TakenDraws

\* An await that is no voucher leaves the vouchers where they are.
LEMMA TailDraws ==
    ASSUME NEW t \in Seq(Awaits), t # <<>>, Head(t) # "card",
           NEW cards, NEW used, NEW taken, Drawing(t, cards, used, taken)
    PROVE  Drawing(Tail(t), cards, used, taken)
  <1>1. /\ Len(t) \in Nat /\ Len(t) > 0 /\ Len(Tail(t)) = Len(t) - 1
        /\ \A i \in 1..(Len(t) - 1) : Tail(t)[i] = t[i + 1]
    OBVIOUS
  <1>2. ASSUME NEW j \in 1..Len(Tail(t))
        PROVE  /\ j + 1 \in 1..Len(t) /\ Tail(t)[j] = t[j + 1]
               /\ Len(Tail(t)) - j = Len(t) - (j + 1)
    BY <1>1
  <1>3. CardsAhead(Tail(t), Len(cards) - Len(used))
    BY <1>2 DEF Drawing, CardsAhead
  <1>4. ReadAhead(Tail(t))
    <2> SUFFICES ASSUME NEW j \in 1..Len(Tail(t)), Tail(t)[j] = "vouchers"
                 PROVE  j = Len(Tail(t)) - 1
      BY DEF ReadAhead
    <2>1. ReadAhead(t)
      BY DEF Drawing
    <2>2. j + 1 \in 1..Len(t) /\ t[j + 1] = "vouchers"
      BY <1>2
    <2>3. j + 1 = Len(t) - 1
      BY <2>1, <2>2 DEF ReadAhead
    <2> DEFINE m == Len(Tail(t))
    <2>4. m = Len(t) - 1 /\ Len(t) \in Nat /\ j \in 1..m
      BY <1>1
    <2>5. j = m - 1
      <3> HIDE DEF m
      <3> QED
        BY <2>3, <2>4
    <2> QED
      BY <2>5
  <1>5. Unread(Tail(t)) => Unread(t)
    BY <1>2 DEF Unread
  <1> QED
    BY <1>3, <1>4, <1>5 DEF Drawing

\* A voucher that is written is one of those read, and the next ones stay ahead.
LEMMA CardDraws ==
    ASSUME NEW t \in Seq(Awaits), t # <<>>, Head(t) = "card",
           NEW cards, NEW used, NEW taken \in Seq(Entry), Drawing(t, cards, used, taken)
    PROVE  Drawing(Tail(t), cards, Append(used, cards[Len(used) + 1].used), taken)
  <1> DEFINE u == Len(used)
             more == Append(used, cards[u + 1].used)
  <1>1. /\ Len(t) \in Nat /\ Len(t) > 0 /\ Len(Tail(t)) = Len(t) - 1 /\ t[1] = "card"
        /\ \A i \in 1..(Len(t) - 1) : Tail(t)[i] = t[i + 1]
    OBVIOUS
  <1>2. cards \in Seq(Entry) /\ used \in Seq(Int) /\ u \in Nat /\ Len(cards) \in Nat
    BY DEF Drawing
  <1>3. PICK k \in 1..(Len(cards) - u) : Len(t) - 1 = 3 * k
    <2>1. CardsAhead(t, Len(cards) - u)
      BY DEF Drawing
    <2>2. 1 \in 1..Len(t)
      BY <1>1
    <2> QED
      BY <1>1, <2>1, <2>2 DEF CardsAhead
  <1>4. u + 1 \in 1..Len(cards)
    BY <1>2, <1>3
  <1>5. cards[u + 1].used \in Int
    <2>1. cards[u + 1] \in Entry
      BY <1>2, <1>4
    <2> QED
      BY <2>1 DEF Entry
  <1>6. /\ more \in Seq(Int) /\ Len(more) = u + 1 /\ more[u + 1] = cards[u + 1].used
        /\ \A i \in 1..u : more[i] = used[i]
    BY <1>2, <1>5, AppendProperties
  <1> HIDE DEF more
  <1>7. ASSUME NEW j \in 1..Len(Tail(t))
        PROVE  /\ j + 1 \in 1..Len(t) /\ Tail(t)[j] = t[j + 1]
               /\ Len(Tail(t)) - j = Len(t) - (j + 1) /\ Len(Tail(t)) - j < 3 * k
    BY <1>1, <1>3
  <1>8. CardsAhead(Tail(t), Len(cards) - Len(more))
    <2> SUFFICES ASSUME NEW j \in 1..Len(Tail(t)), Tail(t)[j] = "card"
                 PROVE  \E l \in 1..(Len(cards) - Len(more)) : Len(Tail(t)) - j = 3 * l
      BY DEF CardsAhead
    <2>1. PICK l \in 1..(Len(cards) - u) : Len(t) - (j + 1) = 3 * l
      BY <1>7 DEF Drawing, CardsAhead
    <2>2. 3 * l < 3 * k
      BY <1>7, <2>1
    <2>3. l \in 1..(Len(cards) - (u + 1))
      BY <1>2, <1>3, <2>1, <2>2
    <2> QED
      BY <1>6, <1>7, <2>1, <2>3
  <1>9. ReadAhead(Tail(t))
    <2> SUFFICES ASSUME NEW j \in 1..Len(Tail(t)), Tail(t)[j] = "vouchers"
                 PROVE  j = Len(Tail(t)) - 1
      BY DEF ReadAhead
    <2>1. ReadAhead(t)
      BY DEF Drawing
    <2>2. j + 1 \in 1..Len(t) /\ t[j + 1] = "vouchers"
      BY <1>7
    <2>3. j + 1 = Len(t) - 1
      BY <2>1, <2>2 DEF ReadAhead
    <2> DEFINE m == Len(Tail(t))
    <2>4. m = Len(t) - 1 /\ Len(t) \in Nat /\ j \in 1..m
      BY <1>1
    <2>5. j = m - 1
      <3> HIDE DEF m
      <3> QED
        BY <2>3, <2>4
    <2> QED
      BY <2>5
  <1>10. ~Unread(Tail(t))
    <2> SUFFICES ASSUME NEW j \in 1..Len(Tail(t)), Tail(t)[j] = "vouchers" PROVE FALSE
      BY DEF Unread
    <2>1. Unread(t)
      BY <1>7 DEF Unread
    <2>2. cards = <<>>
      BY <2>1 DEF Drawing
    <2> QED
      BY <1>4, <2>2
  <1>11. \A i \in 1..Len(more) : more[i] = cards[i].used
    <2>1. \A i \in 1..(u + 1) : i = u + 1 \/ i \in 1..u
      BY <1>2
    <2> QED
      BY <1>6, <2>1 DEF Drawing
  <1> QED
    BY <1>2, <1>4, <1>6, <1>8, <1>9, <1>10, <1>11 DEF Drawing, more

\* u has the elements of s and t one after the other.
Joins(u, s, t, m, n) ==
    /\ Len(u) = m + n
    /\ \A i \in 1..m : u[i] = s[i]
    /\ \A i \in 1..n : u[m + i] = t[i]

LEMMA Joined ==
    ASSUME NEW S, NEW s \in Seq(S), NEW t \in Seq(S), NEW m, NEW n, Len(s) = m, Len(t) = n
    PROVE  s \o t \in Seq(S) /\ Joins(s \o t, s, t, m, n)
  <1> DEFINE u == s \o t
  <1>1. /\ u \in Seq(S) /\ Len(u) = m + n
        /\ \A i \in 1..(m + n) : u[i] = IF i <= m THEN s[i] ELSE t[i - m]
    BY ConcatProperties
  <1> HIDE DEF u
  <1>0. m \in Nat /\ n \in Nat
    OBVIOUS
  <1>2. \A i \in 1..m : i \in 1..(m + n) /\ i <= m
    BY <1>0
  <1>3. \A i \in 1..n : m + i \in 1..(m + n) /\ ~(m + i <= m) /\ (m + i) - m = i
    BY <1>0
  <1>4. \A i \in 1..m : u[i] = s[i]
    BY <1>1, <1>2
  <1>5. \A i \in 1..n : u[m + i] = t[i]
    BY <1>1, <1>3
  <1> QED
    BY <1>1, <1>4, <1>5 DEF u, Joins

\* After the vouchers have been read, all of them are to be written.
LEMMA ReadDraws ==
    ASSUME NEW t \in Seq(Awaits), t # <<>>, Head(t) = "vouchers",
           NEW cards, NEW used, NEW taken \in Seq(Entry), Drawing(t, cards, used, taken),
           NEW each, each = [i \in 1..(3 * Len(taken)) |-> PerVoucher[1 + ((i - 1) % 3)]]
    PROVE  Drawing(<<"voucherWallet", "look">> \o each \o Tail(t), taken, used, taken)
  <1> DEFINE n == Len(taken)
             s == <<"voucherWallet", "look">> \o each \o Tail(t)
  <1>1. /\ Len(t) \in Nat /\ Len(t) > 0 /\ t[1] = "vouchers" /\ Tail(t) \in Seq(Awaits)
        /\ Len(Tail(t)) = Len(t) - 1
        /\ \A i \in 1..(Len(t) - 1) : Tail(t)[i] = t[i + 1]
    OBVIOUS
  <1>2. Len(t) = 2
    <2>1. ReadAhead(t) /\ 1 \in 1..Len(t)
      BY <1>1 DEF Drawing
    <2>2. 1 = Len(t) - 1
      BY <1>1, <2>1 DEF ReadAhead
    <2>3. Len(t) \in Nat
      BY <1>1
    <2> QED
      BY <2>2, <2>3
  <1>3. cards = <<>> /\ Len(cards) = 0
    <2>1. Unread(t)
      BY <1>1 DEF Unread
    <2> QED
      BY <2>1 DEF Drawing
  <1>4. used = <<>> /\ Len(used) = 0
    <2>1. used \in Seq(Int) /\ Len(used) <= 0
      BY <1>3 DEF Drawing
    <2> QED
      BY <2>1, EmptySeq
  <1>5. t[2] # "card"
    <2>1. CardsAhead(t, 0) /\ 2 \in 1..Len(t)
      BY <1>2, <1>3, <1>4 DEF Drawing
    <2> QED
      BY <2>1 DEF CardsAhead
  <1>6. t[2] # "vouchers"
    <2>1. ReadAhead(t) /\ 2 \in 1..Len(t)
      BY <1>2 DEF Drawing
    <2> QED
      BY <1>2, <2>1 DEF ReadAhead
  <1>7. n \in Nat /\ 3 * n \in Nat
    OBVIOUS
  <1>8. ASSUME NEW i \in 1..(3 * n)
        PROVE  /\ each[i] \in {"card", "cardLook", "cardLog"}
               /\ each[i] = "card" => (i - 1) % 3 = 0
    <2> DEFINE k == 1 + ((i - 1) % 3)
    <2>1. k \in 1..3 /\ (k = 1 => (i - 1) % 3 = 0)
      BY <1>7
    <2>2. each[i] = PerVoucher[k]
      OBVIOUS
    <2> HIDE DEF k
    <2> QED
      BY <2>1, <2>2 DEF PerVoucher
  <1> DEFINE Voucher == {"card", "cardLook", "cardLog"}
  <1>9. each \in Seq(Awaits) /\ Len(each) = 3 * n
    <2> DEFINE m == 3 * n
    <2>1. \A i \in 1..m : each[i] \in Awaits
      BY <1>8 DEF Awaits
    <2>2. m \in Nat /\ DOMAIN each = 1..m /\ each = [i \in 1..m |-> each[i]]
      BY <1>7
    <2> HIDE DEF m
    <2>3. each \in [1..m -> Awaits]
      BY <2>1, <2>2
    <2>4. each \in Seq(Awaits) /\ Len(each) = m
      BY <2>2, <2>3, SeqDef
    <2> QED
      BY <2>4 DEF m
  <1>10. <<"voucherWallet", "look">> \in Seq(Awaits) /\ Len(<<"voucherWallet", "look">>) = 2
    BY DEF Awaits
  <1> DEFINE w == <<"voucherWallet", "look">>
             v == w \o each
  <1>11. /\ v \in Seq(Awaits) /\ Len(v) = 2 + 3 * n
         /\ v[1] = "voucherWallet" /\ v[2] = "look"
         /\ \A i \in 1..(3 * n) : v[2 + i] = each[i]
    <2> DEFINE m == 3 * n
    <2>1. w \in Seq(Awaits) /\ Len(w) = 2 /\ w[1] = "voucherWallet" /\ w[2] = "look"
      BY <1>10
    <2>2. m \in Nat /\ Len(each) = m
      BY <1>7, <1>9
    <2> HIDE DEF w, m
    <2>3. v \in Seq(Awaits) /\ Joins(v, w, each, 2, m)
      BY <1>9, <2>1, <2>2, Joined
    <2> HIDE DEF v
    <2> QED
      BY <2>1, <2>3 DEF m, Joins
  <1>12. /\ s \in Seq(Awaits) /\ Len(s) = 3 * n + 3 /\ s[3 * n + 3] = t[2]
         /\ s[1] = "voucherWallet" /\ s[2] = "look"
         /\ \A i \in 1..(3 * n) : s[i + 2] = each[i]
    <2> DEFINE r == Tail(t)
               m == 2 + 3 * n
    <2>1. r \in Seq(Awaits) /\ Len(r) = 1 /\ r[1] = t[2]
      <3>1. 1 \in 1..(Len(t) - 1)
        BY <1>2
      <3>2. r[1] = t[1 + 1]
        BY <1>1, <3>1
      <3>3. Len(r) = 2 - 1
        BY <1>1, <1>2
      <3>4. r \in Seq(Awaits)
        BY <1>1
      <3> HIDE DEF r
      <3> QED
        BY <3>2, <3>3, <3>4
    <2>2. m \in Nat /\ Len(v) = m
      BY <1>7, <1>11
    <2> HIDE DEF v, r, m
    <2>3. v \o r \in Seq(Awaits) /\ Joins(v \o r, v, r, m, 1)
      BY <1>11, <2>1, <2>2, Joined
    <2>4. s = v \o r
      BY DEF v, r
    <2> HIDE DEF s
    <2>5. /\ 1 \in 1..m /\ 2 \in 1..m /\ m + 1 = 3 * n + 3
          /\ \A i \in 1..(3 * n) : 2 + i \in 1..m /\ 2 + i = i + 2
      BY <1>7 DEF m
    <2>6. /\ Len(s) = 3 * n + 3 /\ s[3 * n + 3] = t[2]
          /\ s[1] = "voucherWallet" /\ s[2] = "look"
      <3>1. Joins(s, v, r, m, 1)
        BY <2>3, <2>4
      <3>2. 1 \in 1..1 /\ 1 \in 1..m /\ 2 \in 1..m
        BY <2>5
      <3>3. Len(s) = m + 1 /\ s[m + 1] = r[1] /\ s[1] = v[1] /\ s[2] = v[2]
        BY <3>1, <3>2 DEF Joins
      <3> QED
        BY <1>11, <2>1, <2>5, <3>3
    <2>7. \A i \in 1..(3 * n) : s[i + 2] = each[i]
      BY <1>11, <2>3, <2>4, <2>5 DEF Joins
    <2> QED
      BY <2>3, <2>4, <2>6, <2>7
  <1> HIDE DEF v, w, s, n
  <1>13. ASSUME NEW j \in 1..Len(s)
         PROVE  j = 1 \/ j = 2 \/ j = 3 * n + 3 \/ (j - 2 \in 1..(3 * n) /\ s[j] = each[j - 2])
    <2>1. j = 1 \/ j = 2 \/ j = 3 * n + 3 \/ (j - 2 \in 1..(3 * n) /\ (j - 2) + 2 = j)
      BY <1>7, <1>12
    <2> QED
      BY <1>12, <2>1
  <1>14. CardsAhead(s, n)
    <2> SUFFICES ASSUME NEW j \in 1..Len(s), s[j] = "card"
                 PROVE  \E k \in 1..n : Len(s) - j = 3 * k
      BY DEF CardsAhead
    <2>1. j - 2 \in 1..(3 * n) /\ s[j] = each[j - 2]
      BY <1>5, <1>12, <1>13
    <2>2. (j - 3) % 3 = 0
      <3>1. ((j - 2) - 1) % 3 = 0
        BY <1>8, <2>1
      <3>2. (j - 2) - 1 = j - 3
        BY <1>12
      <3> QED
        BY <3>1, <3>2
    <2>3. j \in Int /\ n \in Int /\ 3 <= j /\ j <= 3 * n + 2
      BY <1>7, <1>12, <2>1
    <2>4. PICK q \in Int : j - 3 = 3 * q
      <3> DEFINE k == j - 3
      <3>1. k \in Nat
        BY <2>3
      <3> HIDE DEF k
      <3>2. k = 3 * (k \div 3) + (k % 3) /\ k \div 3 \in Int
        BY <3>1
      <3>3. k % 3 = 0
        BY <2>2 DEF k
      <3>4. k = 3 * (k \div 3)
        BY <3>1, <3>2, <3>3
      <3> QED
        BY <3>2, <3>4 DEF k
    <2>5. n - q \in 1..n /\ (3 * n + 3) - j = 3 * (n - q)
      BY <2>3, <2>4
    <2> QED
      BY <1>12, <2>5
  <1>15. ASSUME NEW j \in 1..Len(s) PROVE s[j] # "vouchers"
    <2>1. j - 2 \in 1..(3 * n) => each[j - 2] # "vouchers"
      BY <1>8
    <2> QED
      BY <1>6, <1>12, <1>13, <2>1
  <1>16. ReadAhead(s) /\ ~Unread(s)
    BY <1>15 DEF ReadAhead, Unread
  <1>17. CardsAhead(s, Len(taken) - Len(used))
    <2>1. Len(taken) - Len(used) = n
      BY <1>4, <1>7 DEF n
    <2> QED
      BY <1>14, <2>1
  <1>18. Drawing(s, taken, used, taken)
    <2>1. Len(used) <= Len(taken) /\ (\A i \in 1..Len(used) : used[i] = taken[i].used)
      BY <1>4, <1>7 DEF n
    <2> QED
      BY <1>4, <1>16, <1>17, <2>1 DEF Drawing
  <1> QED
    BY <1>18 DEF s

\* What was written may be rolled back, and nothing is left of a request that fails.
LEMMA NothingDrawn ==
    ASSUME NEW t, NEW cards, NEW used, NEW taken \in Seq(Entry), Drawing(t, cards, used, taken)
    PROVE  Drawing(t, cards, <<>>, taken)
  <1>1. /\ cards \in Seq(Entry) /\ Len(cards) \in Nat /\ Len(used) \in Nat
        /\ <<>> \in Seq(Int) /\ Len(<<>>) = 0
    BY DEF Drawing
  <1>2. CardsAhead(t, Len(cards) - Len(<<>>))
    <2>1. CardsAhead(t, Len(cards) - Len(used))
      BY DEF Drawing
    <2>2. \A k \in 1..(Len(cards) - Len(used)) : k \in 1..(Len(cards) - Len(<<>>))
      BY <1>1
    <2> QED
      BY <2>1, <2>2 DEF CardsAhead
  <1> QED
    BY <1>1, <1>2 DEF Drawing

LEMMA EndDraws ==
    ASSUME NEW t, NEW cards, NEW used, NEW taken, Drawing(t, cards, used, taken),
           NEW end \in {<<>>, <<"rollback">>, <<"masked">>}
    PROVE  Drawing(end, cards, used, taken)
  <1>1. \A j \in 1..Len(end) : end[j] # "card" /\ end[j] # "vouchers"
    OBVIOUS
  <1> QED
    BY <1>1 DEF Drawing, CardsAhead, ReadAhead, Unread

LEMMA ProgramDraws == \A q, taken : Drawing(Program(q), <<>>, <<>>, taken)
  <1> SUFFICES ASSUME NEW q, NEW taken PROVE Drawing(Program(q), <<>>, <<>>, taken)
    OBVIOUS
  <1> DEFINE first == <<"begin", "user", "provider", "order", "platform", "wallet", "look",
                        "readBank", "bank", "look", "memberLog", "bankLog">>
             last == IF q.pay THEN <<"vouchers", "ok">> ELSE <<"ok">>
             t == Program(q)
  <1>1. /\ first \in Seq(Awaits) /\ Len(first) = 12
        /\ \A i \in 1..12 : first[i] # "card" /\ first[i] # "vouchers"
    BY DEF Awaits
  <1>2. PICK n \in {1, 2} :
            /\ last \in Seq(Awaits) /\ Len(last) = n
            /\ \A i \in 1..n : last[i] # "card" /\ (last[i] = "vouchers" => i = n - 1)
    <2>1. "vouchers" \in Awaits /\ "ok" \in Awaits
      BY DEF Awaits
    <2> HIDE DEF Awaits
    <2>2. CASE q.pay
      <3>1. /\ last \in Seq(Awaits) /\ Len(last) = 2
            /\ \A i \in 1..2 : last[i] # "card" /\ (last[i] = "vouchers" => i = 2 - 1)
        BY <2>1, <2>2
      <3> HIDE DEF last
      <3> QED
        BY <3>1
    <2>3. CASE ~q.pay
      <3>1. /\ last \in Seq(Awaits) /\ Len(last) = 1
            /\ \A i \in 1..1 : last[i] # "card" /\ (last[i] = "vouchers" => i = 1 - 1)
        BY <2>1, <2>3
      <3> HIDE DEF last
      <3> QED
        BY <3>1
    <2> QED
      BY <2>2, <2>3
  <1>3. t = first \o last
    BY DEF Program
  <1> HIDE DEF first, last, t
  <1>4. Joins(t, first, last, 12, n)
    BY <1>1, <1>2, <1>3, Joined
  <1>5. ASSUME NEW j \in 1..Len(t)
        PROVE  t[j] # "card" /\ (t[j] = "vouchers" => j = Len(t) - 1)
    <2>1. Len(t) = 12 + n
      BY <1>4 DEF Joins
    <2>2. CASE j \in 1..12
      BY <1>1, <1>4, <2>2 DEF Joins
    <2>3. CASE j \notin 1..12
      <3>1. j - 12 \in 1..n /\ 12 + (j - 12) = j
        BY <1>2, <2>1, <2>3
      <3>2. t[j] = last[j - 12]
        BY <1>4, <3>1 DEF Joins
      <3> QED
        BY <1>2, <2>1, <3>1, <3>2
    <2> QED
      BY <2>2, <2>3
  <1>6. /\ <<>> \in Seq(Int) /\ Len(<<>>) <= Len(<<>>)
        /\ \A i \in 1..Len(<<>>) : FALSE
    OBVIOUS
  <1> QED
    BY <1>5, <1>6 DEF Drawing, CardsAhead, ReadAhead, t
-----------------------------------------------------------------------------
(* The vouchers through the actions.                                       *)

\* Only o goes on, with the awaits t.
LEMMA DrawKeeps ==
    ASSUME OrderInv, DrawInv, NEW o \in Requests, UNCHANGED ask, UNCHANGED shelf,
           DOMAIN reg' = Requests,
           \A p \in Requests \ {o} : /\ reg'[p] = reg[p] /\ own'[p] = own[p]
                                     /\ todo'[p] = todo[p],
           "cards" \in DOMAIN reg'[o], "used" \in DOMAIN own'[o],
           Drawing(todo'[o], reg'[o].cards, own'[o].used, Taken(shelf[ask[o].who]))
    PROVE  DrawInv'
  BY DEF DrawInv

LEMMA GoesDraws ==
    ASSUME OrderInv, DrawInv, NEW o \in Requests, NEW await, At(o, await), await # "card", Goes(o),
           UNCHANGED ask, UNCHANGED shelf,
           NEW r, reg' = reg \/ reg' = [reg EXCEPT ![o] = r],
           "cards" \in DOMAIN r, r.cards = reg[o].cards,
           NEW w, own' = own \/ own' = [own EXCEPT ![o] = w],
           "used" \in DOMAIN w, w.used \in {own[o].used, <<>>}
    PROVE  DrawInv'
  <1> DEFINE t == todo[o]
             taken == Taken(shelf[ask[o].who])
  <1>1. /\ t \in Seq(Awaits) /\ t # <<>> /\ Head(t) # "card"
        /\ todo' = [todo EXCEPT ![o] = Tail(t)]
    BY DEF OrderInv, Domains, At, Goes
  <1>2. Drawing(t, reg[o].cards, own[o].used, taken) /\ DOMAIN reg = Requests
        /\ "cards" \in DOMAIN reg[o] /\ "used" \in DOMAIN own[o] /\ DOMAIN own = Requests
        /\ DOMAIN todo = Requests
    BY DEF DrawInv, OrderInv, Domains
  <1>3. taken \in Seq(Entry)
    BY ShelfTaken
  <1>4. todo'[o] = Tail(t) /\ \A p \in Requests \ {o} : todo'[p] = todo[p]
    BY <1>1, <1>2
  <1>5. /\ DOMAIN reg' = Requests /\ "cards" \in DOMAIN reg'[o] /\ reg'[o].cards = reg[o].cards
        /\ \A p \in Requests \ {o} : reg'[p] = reg[p]
    BY <1>2
  <1>6. /\ "used" \in DOMAIN own'[o] /\ own'[o].used \in {own[o].used, <<>>}
        /\ \A p \in Requests \ {o} : own'[p] = own[p]
    BY <1>2
  <1> HIDE DEF t, taken
  <1>7. Drawing(Tail(t), reg[o].cards, own[o].used, taken)
    BY <1>1, <1>2, TailDraws
  <1>8. Drawing(Tail(t), reg[o].cards, <<>>, taken)
    BY <1>3, <1>7, NothingDrawn
  <1>9. Drawing(todo'[o], reg'[o].cards, own'[o].used, taken)
    BY <1>4, <1>5, <1>6, <1>7, <1>8
  <1>10. \A p \in Requests \ {o} : /\ reg'[p] = reg[p] /\ own'[p] = own[p]
                                   /\ todo'[p] = todo[p]
    BY <1>4, <1>5, <1>6
  <1>11. Drawing(todo'[o], reg'[o].cards, own'[o].used, Taken(shelf[ask[o].who]))
    BY <1>9 DEF taken
  <1> QED
    BY <1>5, <1>6, <1>10, <1>11, DrawKeeps

LEMMA OtherDraws ==
    ASSUME OrderInv, DrawInv, NEW o \in Requests,
           \/ Begin(o) \/ ReadUser(o) \/ LookUp(o) \/ Insert(o) \/ Passes(o)
           \/ ChargeMember(o) \/ ReadBank(o) \/ CreditBank(o) \/ Log(o)
           \/ WriteVoucherWallet(o) \/ LogVoucher(o) \/ Acknowledge(o)
           \/ Rollback(o) \/ Mask(o)
    PROVE  DrawInv'
  <1>1. "cards" \in DOMAIN reg[o] /\ "used" \in DOMAIN own[o]
    BY DEF DrawInv
  <1>2. CASE Begin(o)
    BY <1>1, <1>2, GoesDraws DEF Begin, fixed
  <1>3. CASE ReadUser(o)
    <2> DEFINE r == [reg[o] EXCEPT !.mine = wallet[ask[o].who]]
    <2>1. "cards" \in DOMAIN r /\ r.cards = reg[o].cards
      BY <1>1
    <2>2. /\ At(o, "user") /\ Goes(o) /\ reg' = [reg EXCEPT ![o] = r] /\ own' = own
          /\ UNCHANGED ask /\ UNCHANGED shelf
      BY <1>3 DEF ReadUser, Reads, fixed
    <2> HIDE DEF r
    <2> QED
      BY <1>1, <2>1, <2>2, GoesDraws
  <1>4. CASE LookUp(o)
    <2>1. PICK id \in OrderIds : Reads(o, [reg[o] EXCEPT !.id = id])
      BY <1>4 DEF LookUp
    <2> DEFINE r == [reg[o] EXCEPT !.id = id]
    <2>2. "cards" \in DOMAIN r /\ r.cards = reg[o].cards
      BY <1>1
    <2>3. /\ At(o, "provider") /\ Goes(o) /\ reg' = [reg EXCEPT ![o] = r] /\ own' = own
          /\ UNCHANGED ask /\ UNCHANGED shelf
      BY <1>4, <2>1 DEF LookUp, Reads, fixed
    <2> HIDE DEF r
    <2> QED
      BY <1>1, <2>2, <2>3, GoesDraws
  <1>5. CASE ReadBank(o)
    <2> DEFINE r == [reg[o] EXCEPT !.bank = wallet[Bank].balance]
    <2>1. "cards" \in DOMAIN r /\ r.cards = reg[o].cards
      BY <1>1
    <2>2. /\ At(o, "readBank") /\ Goes(o) /\ reg' = [reg EXCEPT ![o] = r] /\ own' = own
          /\ UNCHANGED ask /\ UNCHANGED shelf
      BY <1>5 DEF ReadBank, Reads, fixed
    <2> HIDE DEF r
    <2> QED
      BY <1>1, <2>1, <2>2, GoesDraws
  <1>6. CASE Passes(o)
    <2>1. PICK await \in {"platform", "look", "cardLook"} : At(o, await)
      BY <1>6 DEF Passes
    <2>2. /\ await # "card" /\ Goes(o) /\ reg' = reg /\ own' = own
          /\ UNCHANGED ask /\ UNCHANGED shelf
      BY <1>6 DEF Passes, fixed
    <2> QED
      BY <1>1, <2>1, <2>2, GoesDraws
  <1>7. ASSUME NEW await, await # "card", At(o, await), Goes(o), NEW w, Writes(o, w),
               "used" \in DOMAIN w, w.used = own[o].used
        PROVE  DrawInv'
    <2>1. reg' = reg /\ own' = [own EXCEPT ![o] = w] /\ UNCHANGED ask /\ UNCHANGED shelf
      BY <1>7 DEF Writes, fixed
    <2> QED
      BY <1>1, <1>7, <2>1, GoesDraws
  <1>8. CASE Insert(o)
    BY <1>1, <1>7, <1>8 DEF Insert
  <1>9. CASE ChargeMember(o)
    <2> DEFINE w == [own[o] EXCEPT !.member = [reg[o].mine EXCEPT !.balance = @ - Payable(o)]]
    <2>1. "used" \in DOMAIN w /\ w.used = own[o].used
      BY <1>1
    <2>2. At(o, "wallet") /\ Goes(o) /\ Writes(o, w)
      BY <1>9 DEF ChargeMember
    <2> HIDE DEF w
    <2> QED
      BY <1>7, <2>1, <2>2
  <1>10. CASE CreditBank(o)
    <2> DEFINE w == [own[o] EXCEPT !.bank = reg[o].bank + Payable(o)]
    <2>1. "used" \in DOMAIN w /\ w.used = own[o].used
      BY <1>1
    <2>2. At(o, "bank") /\ Goes(o) /\ Writes(o, w)
      BY <1>10 DEF CreditBank
    <2> HIDE DEF w
    <2> QED
      BY <1>7, <2>1, <2>2
  <1>11. CASE WriteVoucherWallet(o)
    <2> DEFINE w == [own[o] EXCEPT !.member =
                        [reg[o].mine EXCEPT !.voucher = SumLeft(reg[o].cards)]]
    <2>1. "used" \in DOMAIN w /\ w.used = own[o].used
      BY <1>1
    <2>2. At(o, "voucherWallet") /\ Goes(o) /\ Writes(o, w)
      BY <1>11 DEF WriteVoucherWallet
    <2> HIDE DEF w
    <2> QED
      BY <1>7, <2>1, <2>2
  <1>12. ASSUME NEW await, await # "card", At(o, await), Goes(o), NEW row,
                Writes(o, [own[o] EXCEPT !.logs = Append(@, row)])
         PROVE  DrawInv'
    <2> DEFINE w == [own[o] EXCEPT !.logs = Append(@, row)]
    <2>1. "used" \in DOMAIN w /\ w.used = own[o].used
      BY <1>1
    <2>2. Writes(o, w)
      BY <1>12
    <2> HIDE DEF w
    <2> QED
      BY <1>7, <1>12, <2>1, <2>2
  <1>13. CASE Log(o)
    BY <1>12, <1>13 DEF Log
  <1>14. CASE LogVoucher(o)
    BY <1>12, <1>14 DEF LogVoucher
  <1>15. CASE Acknowledge(o)
    BY <1>1, <1>15, GoesDraws DEF Acknowledge, fixed
  <1>16. CASE Rollback(o)
    <2>1. "used" \in DOMAIN Unwritten /\ Unwritten.used = <<>>
      BY DEF Unwritten
    <2>2. /\ At(o, "rollback") /\ Goes(o) /\ reg' = reg /\ UNCHANGED ask /\ UNCHANGED shelf
          /\ own' = [own EXCEPT ![o] = Unwritten]
      BY <1>16 DEF Rollback, fixed
    <2> QED
      BY <1>1, <2>1, <2>2, GoesDraws
  <1>17. CASE Mask(o)
    BY <1>1, <1>17, GoesDraws DEF Mask, fixed
  <1> QED
    BY <1>2, <1>3, <1>4, <1>5, <1>6, <1>8, <1>9, <1>10, <1>11, <1>13, <1>14, <1>15,
       <1>16, <1>17

LEMMA ReadVouchersDraws ==
    ASSUME OrderInv, DrawInv, NEW o \in Requests, ReadVouchers(o)
    PROVE  DrawInv'
  <1> DEFINE mine == shelf[ask[o].who]
             taken == Taken(mine)
             each == [i \in 1..(3 * Len(mine)) |-> PerVoucher[1 + ((i - 1) % 3)]]
             t == todo[o]
             s == <<"voucherWallet", "look">> \o each \o Tail(t)
             r == [reg[o] EXCEPT !.cards = taken]
  <1>1. /\ t \in Seq(Awaits) /\ t # <<>> /\ Head(t) = "vouchers"
        /\ todo' = [todo EXCEPT ![o] = s] /\ reg' = [reg EXCEPT ![o] = r]
        /\ UNCHANGED ask /\ UNCHANGED shelf /\ UNCHANGED own
    BY DEF OrderInv, Domains, ReadVouchers, At, Reads, fixed
  <1>2. /\ Drawing(t, reg[o].cards, own[o].used, taken) /\ DOMAIN reg = Requests
        /\ "cards" \in DOMAIN reg[o] /\ "used" \in DOMAIN own[o] /\ DOMAIN todo = Requests
    BY DEF DrawInv, OrderInv, Domains
  <1>3. taken \in Seq(Entry) /\ Len(taken) = Len(mine)
    BY ShelfTaken, TakenDraws
  <1>4. each = [i \in 1..(3 * Len(taken)) |-> PerVoucher[1 + ((i - 1) % 3)]]
    BY <1>3
  <1>5. Drawing(s, taken, own[o].used, taken)
    <2> HIDE DEF t, taken, each
    <2> QED
      BY <1>1, <1>2, <1>3, <1>4, ReadDraws
  <1>6. "cards" \in DOMAIN r /\ r.cards = taken
    BY <1>2
  <1> HIDE DEF r, s, taken
  <1>7. /\ DOMAIN reg' = Requests /\ reg'[o] = r /\ todo'[o] = s /\ own' = own
        /\ \A p \in Requests \ {o} : reg'[p] = reg[p] /\ todo'[p] = todo[p]
    BY <1>1, <1>2
  <1>8. Drawing(todo'[o], reg'[o].cards, own'[o].used, Taken(shelf[ask[o].who]))
    BY <1>5, <1>6, <1>7 DEF taken
  <1> QED
    BY <1>1, <1>2, <1>6, <1>7, <1>8, DrawKeeps

LEMMA WriteVoucherDraws ==
    ASSUME OrderInv, DrawInv, NEW o \in Requests, WriteVoucher(o)
    PROVE  DrawInv'
  <1> DEFINE taken == Taken(shelf[ask[o].who])
             t == todo[o]
             more == Append(own[o].used, reg[o].cards[Len(own[o].used) + 1].used)
             w == [own[o] EXCEPT !.used = more]
  <1>1. /\ t \in Seq(Awaits) /\ t # <<>> /\ Head(t) = "card"
        /\ todo' = [todo EXCEPT ![o] = Tail(t)] /\ own' = [own EXCEPT ![o] = w]
        /\ UNCHANGED ask /\ UNCHANGED shelf /\ UNCHANGED reg
    BY DEF OrderInv, Domains, WriteVoucher, At, Goes, Writes, fixed
  <1>2. /\ Drawing(t, reg[o].cards, own[o].used, taken) /\ DOMAIN reg = Requests
        /\ "cards" \in DOMAIN reg[o] /\ "used" \in DOMAIN own[o] /\ DOMAIN own = Requests
        /\ DOMAIN todo = Requests
    BY DEF DrawInv, OrderInv, Domains
  <1>3. taken \in Seq(Entry)
    BY ShelfTaken
  <1>4. "used" \in DOMAIN w /\ w.used = more
    BY <1>2
  <1>5. Drawing(Tail(t), reg[o].cards, more, taken)
    <2> HIDE DEF t, taken
    <2> QED
      BY <1>1, <1>2, <1>3, CardDraws
  <1> HIDE DEF w, more, taken
  <1>6. /\ own'[o] = w /\ todo'[o] = Tail(t) /\ reg' = reg
        /\ \A p \in Requests \ {o} : own'[p] = own[p] /\ todo'[p] = todo[p]
    BY <1>1, <1>2
  <1>7. Drawing(todo'[o], reg'[o].cards, own'[o].used, Taken(shelf[ask[o].who]))
    BY <1>4, <1>5, <1>6 DEF taken
  <1> QED
    BY <1>1, <1>2, <1>4, <1>6, <1>7, DrawKeeps

LEMMA FailsDraws ==
    ASSUME OrderInv, DrawInv, NEW o \in Requests, Fails(o)
    PROVE  DrawInv'
  <1>1. PICK end \in {<<>>, <<"rollback">>, <<"masked">>} : todo' = [todo EXCEPT ![o] = end]
    BY DEF Fails
  <1>2. UNCHANGED ask /\ UNCHANGED shelf /\ UNCHANGED reg /\ UNCHANGED own
    BY DEF Fails, fixed
  <1>3. /\ Drawing(todo[o], reg[o].cards, own[o].used, Taken(shelf[ask[o].who]))
        /\ DOMAIN reg = Requests /\ "cards" \in DOMAIN reg[o] /\ "used" \in DOMAIN own[o]
        /\ DOMAIN todo = Requests
    BY DEF DrawInv, OrderInv, Domains
  <1>4. Drawing(end, reg[o].cards, own[o].used, Taken(shelf[ask[o].who]))
    BY <1>3, EndDraws
  <1>5. todo'[o] = end /\ \A p \in Requests \ {o} : todo'[p] = todo[p]
    BY <1>1, <1>3
  <1>6. Drawing(todo'[o], reg'[o].cards, own'[o].used, Taken(shelf[ask[o].who]))
    BY <1>2, <1>4, <1>5
  <1> QED
    BY <1>2, <1>3, <1>5, <1>6, DrawKeeps

LEMMA RollsBackDraws ==
    ASSUME OrderInv, DrawInv, NEW o \in Requests, RollsBack(o)
    PROVE  DrawInv'
  <1>1. /\ UNCHANGED ask /\ UNCHANGED shelf /\ UNCHANGED reg /\ UNCHANGED todo
        /\ own' = [own EXCEPT ![o] = Unwritten]
    BY DEF RollsBack, fixed
  <1>2. /\ Drawing(todo[o], reg[o].cards, own[o].used, Taken(shelf[ask[o].who]))
        /\ DOMAIN reg = Requests /\ "cards" \in DOMAIN reg[o] /\ DOMAIN own = Requests
    BY DEF DrawInv, OrderInv, Domains
  <1>3. own'[o].used = <<>> /\ "used" \in DOMAIN own'[o]
    BY <1>1, <1>2 DEF Unwritten
  <1>4. Drawing(todo[o], reg[o].cards, <<>>, Taken(shelf[ask[o].who]))
    BY <1>2, ShelfTaken, NothingDrawn
  <1>5. Drawing(todo'[o], reg'[o].cards, own'[o].used, Taken(shelf[ask[o].who]))
    BY <1>1, <1>3, <1>4
  <1>6. \A p \in Requests \ {o} : own'[p] = own[p]
    BY <1>1, <1>2
  <1> QED
    BY <1>1, <1>2, <1>3, <1>5, <1>6, DrawKeeps

LEMMA RestartDraws == ASSUME OrderInv, DrawInv, Restart PROVE DrawInv'
  <1>1. UNCHANGED ask /\ UNCHANGED shelf /\ UNCHANGED reg /\ DOMAIN reg = Requests
    BY DEF Restart, fixed, DrawInv
  <1>2. ASSUME NEW o \in Requests
        PROVE  /\ "cards" \in DOMAIN reg[o] /\ "used" \in DOMAIN own'[o]
               /\ Drawing(todo'[o], reg[o].cards, own'[o].used, Taken(shelf[ask[o].who]))
    <2>1. Drawing(todo[o], reg[o].cards, own[o].used, Taken(shelf[ask[o].who]))
          /\ "cards" \in DOMAIN reg[o]
      BY DEF DrawInv
    <2>2. Drawing(todo[o], reg[o].cards, <<>>, Taken(shelf[ask[o].who]))
      BY <2>1, ShelfTaken, NothingDrawn
    <2>3. Drawing(<<>>, reg[o].cards, <<>>, Taken(shelf[ask[o].who]))
      BY <2>2, EndDraws
    <2>4. own'[o].used = <<>> /\ "used" \in DOMAIN own'[o]
      BY DEF Restart, Unwritten
    <2>5. todo'[o] \in {<<>>, todo[o]}
      BY DEF Restart
    <2> QED
      BY <2>1, <2>2, <2>3, <2>4, <2>5
  <1> QED
    BY <1>1, <1>2 DEF DrawInv

LEMMA StartDraws == Init => DrawInv
  <1> SUFFICES ASSUME Init PROVE DrawInv
    OBVIOUS
  <1>1. DOMAIN reg = Requests
    BY DEF Init
  <1>2. ASSUME NEW o \in Requests
        PROVE  /\ "cards" \in DOMAIN reg[o] /\ "used" \in DOMAIN own[o]
               /\ Drawing(todo[o], reg[o].cards, own[o].used, Taken(shelf[ask[o].who]))
    <2>1. /\ "cards" \in DOMAIN reg[o] /\ "used" \in DOMAIN own[o]
          /\ todo[o] = Program(ask[o]) /\ reg[o].cards = <<>> /\ own[o].used = <<>>
      BY DEF Init, Nothing, Unwritten
    <2> QED
      BY <2>1, ProgramDraws
  <1> QED
    BY <1>1, <1>2 DEF DrawInv

LEMMA NextDraws == OrderInv /\ DrawInv /\ [Next]_vars => DrawInv'
  <1> SUFFICES ASSUME OrderInv, DrawInv, [Next]_vars PROVE DrawInv'
    OBVIOUS
  <1>1. ASSUME NEW o \in Requests, Step(o) PROVE DrawInv'
    BY <1>1, OtherDraws, ReadVouchersDraws, WriteVoucherDraws, FailsDraws DEF Step
  <1>2. ASSUME NEW o \in Requests, RollsBack(o) PROVE DrawInv'
    BY <1>2, RollsBackDraws
  <1>3. CASE Restart
    BY <1>3, RestartDraws
  <1>4. ASSUME NEW m \in Members, TopUp(m) PROVE DrawInv'
    BY <1>4 DEF TopUp, fixed, DrawInv
  <1>5. CASE UNCHANGED vars
    BY <1>5 DEF vars, DrawInv
  <1> QED
    BY <1>1, <1>2, <1>3, <1>4, <1>5 DEF Next
-----------------------------------------------------------------------------
(* Theorems.                                                               *)

THEOREM Invariance == Spec => []OrderInv
  <1>1. Init => OrderInv
    BY InitHolds
  <1>2. OrderInv /\ [Next]_vars => OrderInv'
    BY NextKeeps
  <1> QED
    BY <1>1, <1>2, PTL DEF Spec

\* Requests, transactions, locks and answers of order creation keep their types.
THEOREM OrderTypes == Spec => []TypeOK
  <1>1. OrderInv => TypeOK
    BY DEF OrderInv
  <1> QED
    BY <1>1, Invariance, PTL

\* However many orders, connections and restarts: a row of the database that
\* creation of an order has locked belongs to a transaction that can still end.
THEOREM LocksCanBeGivenBack == Spec => []LocksAreHeld
  <1>1. OrderInv => LocksAreHeld
    BY DEF OrderInv
  <1> QED
    BY <1>1, Invariance, PTL

\* createOrder acknowledges one request at most as long as the process runs,
\* because nothing commits and every order locks the company's wallet.
THEOREM AcknowledgedOnce == Spec => []OneAcknowledged
  <1>1. OrderInv => OneAcknowledged
    <2> SUFFICES ASSUME OrderInv, NEW a \in Requests, NEW b \in Requests,
                        answer[a] = "ok", tx[a] = "open", answer[b] = "ok", tx[b] = "open"
                 PROVE  a = b
      BY DEF OneAcknowledged
    <2>1. todo[a] = <<>> /\ todo[b] = <<>>
      BY DEF OrderInv, Answered
    <2>2. ~BankAhead(<<>>) /\ <<>> # <<"rollback">>
      BY DEF BankAhead
    <2>3. lock[Bank] = a /\ lock[Bank] = b
      <3>1. BankHeld(a) /\ BankHeld(b)
        BY DEF OrderInv
      <3> HIDE DEF BankAhead
      <3> QED
        BY <2>1, <2>2, <3>1 DEF BankHeld
    <2> QED
      BY <2>3
  <1> QED
    BY <1>1, Invariance, PTL

\* A wallet an order has charged, and not rolled back, is changed by nobody else.
THEOREM ChargedWalletStays == Spec => HeldWalletUntouched
  <1> DEFINE Untouched == \A m \in Members : wallet'[m] # wallet[m] =>
                             \A o \in Requests : ask[o].who = m => own[o].member = NoWallet
  <1>1. OrderInv /\ [Next]_vars => [Untouched]_vars
    <2> SUFFICES ASSUME OrderInv, Next, NEW m \in Members, wallet'[m] # wallet[m],
                        NEW o \in Requests, ask[o].who = m
                 PROVE  own[o].member = NoWallet
      OBVIOUS
    <2>1. ASSUME NEW p \in Requests, Step(p) \/ RollsBack(p) PROVE wallet' = wallet
      BY <2>1 DEF Step, RollsBack, Begin, ReadUser, LookUp, Insert, Passes, ChargeMember,
                  ReadBank, CreditBank, Log, ReadVouchers, WriteVoucherWallet, WriteVoucher,
                  LogVoucher, Acknowledge, Fails, Rollback, Mask, Reads, Writes
    <2>2. Restart => wallet' = wallet
      BY DEF Restart
    <2>3. PICK n \in Members : TopUp(n)
      BY <2>1, <2>2 DEF Next
    <2>4. n = m
      BY <2>3 DEF TopUp, OrderInv, Domains
    <2>5. lock[m] = Nobody
      BY <2>3, <2>4 DEF TopUp
    <2> QED
      BY <2>5, OrderAssumption DEF OrderInv, MemberHeld
  <1> QED
    BY <1>1, Invariance, PTL DEF Spec, HeldWalletUntouched

THEOREM DrawInvariance == Spec => []DrawInv
  <1>1. Init => DrawInv
    BY StartDraws
  <1>2. OrderInv /\ DrawInv /\ [Next]_vars => DrawInv'
    BY NextDraws
  <1> QED
    BY <1>1, <1>2, Invariance, PTL DEF Spec

\* Whatever vouchers a member has and however many of them an order writes: it
\* takes from each what is left on it at most, gives nothing back, and logs no
\* less than it takes (useDiscount).
THEOREM VouchersDrawn == Spec => []VouchersOnlyDrawn
  <1>1. OrderInv /\ DrawInv => VouchersOnlyDrawn
    <2> SUFFICES ASSUME OrderInv, DrawInv, NEW o \in Requests, NEW i \in DOMAIN own[o].used
                 PROVE  LET card == shelf[ask[o].who][i]
                        IN  /\ own[o].used[i] \in card.used .. card.amount
                            /\ own[o].used[i] - card.used <= reg[o].cards[i].log
      BY DEF VouchersOnlyDrawn
    <2> DEFINE mine == shelf[ask[o].who]
    <2>1. mine \in Seq(Effective)
      BY ShelfTaken
    <2>2. Drawing(todo[o], reg[o].cards, own[o].used, Taken(mine))
      BY DEF DrawInv
    <2> HIDE DEF mine
    <2>3. /\ Taken(mine) \in Seq(Entry) /\ Len(Taken(mine)) = Len(mine)
          /\ \A j \in 1..Len(mine) : DrawnFrom(Taken(mine)[j], mine[j])
      BY <2>1, TakenDraws
    <2>4. /\ i \in 1..Len(own[o].used) /\ Len(own[o].used) <= Len(reg[o].cards)
          /\ own[o].used[i] = reg[o].cards[i].used
      BY <2>2 DEF Drawing
    <2>5. reg[o].cards = Taken(mine)
      BY <2>2, <2>4 DEF Drawing
    <2>6. i \in 1..Len(mine)
      <3>1. Len(own[o].used) \in Nat /\ Len(mine) \in Nat
        BY <2>1, <2>2 DEF Drawing
      <3> QED
        BY <2>3, <2>4, <2>5, <3>1
    <2>7. DrawnFrom(reg[o].cards[i], mine[i])
      BY <2>3, <2>5, <2>6
    <2> QED
      BY <2>4, <2>7 DEF DrawnFrom, mine
  <1> QED
    BY <1>1, Invariance, DrawInvariance, PTL
=============================================================================
