----------------------------- MODULE SignUpProofs -----------------------------
(***************************************************************************)
(* Theorems about SignUp for any number of calls, members and accounts.    *)
(* SignUpInv is the inductive invariant, in three parts, one for each of   *)
(* the modules SignUp composes: the awaits a call has ahead say what its   *)
(* transaction, its reads and its notification are like.                   *)
(***************************************************************************)
EXTENDS SignUp, SequenceTheorems, FiniteSetTheorems, TLAPS

\* All that awaits are called.
Words == {"begin", "crumb", "create", "find", "link", "commit", "events", "profile",
          "user", "token", "suspended", "relink", "unlink", "rollback",
          "look", "sms", "keep", "first", "code", "compare", "again", "lower",
          "authenticate", "member", "count", "store", "chat", "push", "mark",
          "markNext", "check", "get", "put", "set", "zero"} \cup Answers

\* Awaits a call has ahead, in no order.
Ahead(t) == {t[i] : i \in 1..Len(t)}
Has(c, await) == await \in Ahead(todo[c])

\* The order of the awaits of accounts and codes, the same in every handler.
Rank(await) ==
    CASE await \in {"begin", "look", "first"} -> 1
      [] await \in {"crumb", "user", "sms"} -> 2
      [] await \in {"create", "code", "keep"} -> 3
      [] await \in {"find", "compare", "again"} -> 4
      [] await \in {"link", "rollback", "suspended", "unlink", "lower", "authenticate"} -> 5
      [] await \in {"commit", "relink", "member"} -> 6
      [] await \in {"events", "token"} -> 7
      [] await = "profile" -> 8
      [] OTHER -> 9
InOrder(t) == \A i, j \in 1..Len(t) : i < j => Rank(t[i]) < Rank(t[j])

-----------------------------------------------------------------------------
(* Sequences of awaits.                                                    *)

LEMMA AheadOfTail ==
    ASSUME NEW t \in Seq(Words), t # <<>>
    PROVE  /\ Tail(t) \in Seq(Words) /\ Head(t) \in Words
           /\ Ahead(t) = {Head(t)} \cup Ahead(Tail(t))
  <1>1. /\ Len(t) \in Nat /\ Len(t) > 0 /\ Head(t) = t[1] /\ Head(t) \in Words
        /\ Tail(t) \in Seq(Words) /\ Len(Tail(t)) = Len(t) - 1
        /\ \A i \in 1..(Len(t) - 1) : Tail(t)[i] = t[i + 1]
    OBVIOUS
  <1>2. ASSUME NEW x \in Ahead(t) PROVE x \in {Head(t)} \cup Ahead(Tail(t))
    <2>1. PICK i \in 1..Len(t) : x = t[i]
      BY <1>2 DEF Ahead
    <2>2. CASE i = 1
      BY <1>1, <2>1, <2>2
    <2>3. CASE i # 1
      <3>1. i - 1 \in 1..(Len(t) - 1) /\ (i - 1) + 1 = i
        BY <1>1, <2>3
      <3>2. x = Tail(t)[i - 1] /\ i - 1 \in 1..Len(Tail(t))
        BY <1>1, <2>1, <3>1
      <3> QED
        BY <3>2 DEF Ahead
    <2> QED
      BY <2>2, <2>3
  <1>3. ASSUME NEW x \in Ahead(Tail(t)) PROVE x \in Ahead(t)
    <2>1. PICK i \in 1..Len(Tail(t)) : x = Tail(t)[i]
      BY DEF Ahead
    <2>2. x = t[i + 1] /\ i + 1 \in 1..Len(t)
      BY <1>1, <2>1
    <2> QED
      BY <2>2 DEF Ahead
  <1>4. Head(t) \in Ahead(t)
    BY <1>1 DEF Ahead
  <1> QED
    BY <1>1, <1>2, <1>3, <1>4

LEMMA TailInOrder ==
    ASSUME NEW t \in Seq(Words), t # <<>>, InOrder(t)
    PROVE  /\ InOrder(Tail(t))
           /\ \A x \in Ahead(Tail(t)) : Rank(Head(t)) < Rank(x)
  <1>1. /\ Len(t) \in Nat /\ Len(t) > 0 /\ Head(t) = t[1] /\ Len(Tail(t)) = Len(t) - 1
        /\ \A i \in 1..(Len(t) - 1) : Tail(t)[i] = t[i + 1]
    OBVIOUS
  <1>2. ASSUME NEW i \in 1..Len(Tail(t)), NEW j \in 1..Len(Tail(t)), i < j
        PROVE  Rank(Tail(t)[i]) < Rank(Tail(t)[j])
    <2>1. i + 1 \in 1..Len(t) /\ j + 1 \in 1..Len(t) /\ i + 1 < j + 1
      BY <1>1, <1>2
    <2>2. Rank(t[i + 1]) < Rank(t[j + 1])
      BY <2>1 DEF InOrder
    <2> QED
      BY <1>1, <2>2
  <1>3. ASSUME NEW x \in Ahead(Tail(t)) PROVE Rank(Head(t)) < Rank(x)
    <2>1. PICK i \in 1..Len(Tail(t)) : x = Tail(t)[i]
      BY DEF Ahead
    <2>2. x = t[i + 1] /\ i + 1 \in 1..Len(t) /\ 1 \in 1..Len(t) /\ 1 < i + 1
      BY <1>1, <2>1
    <2>3. Rank(t[1]) < Rank(t[i + 1])
      BY <2>2 DEF InOrder
    <2> QED
      BY <1>1, <2>2, <2>3
  <1> QED
    BY <1>2, <1>3 DEF InOrder

LEMMA RankIsNumber == \A x : Rank(x) \in 1..9
  BY DEF Rank

LEMMA NoAwaits == <<>> \in Seq(Words) /\ Ahead(<<>>) = {} /\ InOrder(<<>>)
  BY DEF Ahead, InOrder

LEMMA OneAwait ==
    ASSUME NEW x \in Words
    PROVE  <<x>> \in Seq(Words) /\ Ahead(<<x>>) = {x} /\ InOrder(<<x>>)
  <1>1. <<x>> \in Seq(Words) /\ Len(<<x>>) = 1 /\ <<x>>[1] = x
    OBVIOUS
  <1>2. 1..1 = {1}
    OBVIOUS
  <1>3. Ahead(<<x>>) = {x}
    BY <1>1, <1>2 DEF Ahead
  <1>4. InOrder(<<x>>)
    BY <1>1 DEF InOrder
  <1> QED
    BY <1>1, <1>3, <1>4

LEMMA TwoAwaits ==
    ASSUME NEW x \in Words, NEW y \in Words
    PROVE  /\ <<x, y>> \in Seq(Words) /\ Ahead(<<x, y>>) = {x, y}
           /\ Rank(x) < Rank(y) => InOrder(<<x, y>>)
  <1>1. /\ <<x, y>> \in Seq(Words) /\ Len(<<x, y>>) = 2
        /\ <<x, y>>[1] = x /\ <<x, y>>[2] = y
    OBVIOUS
  <1>2. 1..2 = {1, 2}
    OBVIOUS
  <1>3. Ahead(<<x, y>>) = {x, y}
    BY <1>1, <1>2 DEF Ahead
  <1>4. ASSUME Rank(x) < Rank(y), NEW i \in 1..2, NEW j \in 1..2, i < j
        PROVE  Rank(<<x, y>>[i]) < Rank(<<x, y>>[j])
    <2>1. i = 1 /\ j = 2
      BY <1>4
    <2> QED
      BY <1>1, <1>4, <2>1
  <1> QED
    BY <1>1, <1>3, <1>4 DEF InOrder

LEMMA ThreeAwaits ==
    ASSUME NEW x \in Words, NEW y \in Words, NEW z \in Words
    PROVE  /\ <<x, y, z>> \in Seq(Words) /\ Ahead(<<x, y, z>>) = {x, y, z}
           /\ Rank(x) < Rank(y) /\ Rank(y) < Rank(z) => InOrder(<<x, y, z>>)
  <1>1. /\ <<x, y, z>> \in Seq(Words) /\ Len(<<x, y, z>>) = 3
        /\ <<x, y, z>>[1] = x /\ <<x, y, z>>[2] = y /\ <<x, y, z>>[3] = z
    OBVIOUS
  <1>2. 1..3 = {1, 2, 3}
    OBVIOUS
  <1>3. Ahead(<<x, y, z>>) = {x, y, z}
    BY <1>1, <1>2 DEF Ahead
  <1>4. ASSUME Rank(x) < Rank(y), Rank(y) < Rank(z), NEW i \in 1..3, NEW j \in 1..3, i < j
        PROVE  Rank(<<x, y, z>>[i]) < Rank(<<x, y, z>>[j])
    <2>1. (i = 1 /\ j = 2) \/ (i = 1 /\ j = 3) \/ (i = 2 /\ j = 3)
      BY <1>4
    <2>2. Rank(x) < Rank(z)
      <3>1. Rank(x) \in 1..9 /\ Rank(y) \in 1..9 /\ Rank(z) \in 1..9
        BY RankIsNumber
      <3> HIDE DEF Rank
      <3> QED
        BY <1>4, <3>1
    <2>3. CASE i = 1 /\ j = 2
      BY <1>1, <1>4, <2>3
    <2>4. CASE i = 1 /\ j = 3
      BY <1>1, <2>2, <2>4
    <2>5. CASE i = 2 /\ j = 3
      BY <1>1, <1>4, <2>5
    <2> QED
      BY <2>1, <2>3, <2>4, <2>5
  <1> QED
    BY <1>1, <1>3, <1>4 DEF InOrder

\* What the handlers start with.
LEMMA AccountLists ==
    ASSUME NEW kind \in AccountJobs
    PROVE  /\ AccountAwaits(kind) \in Seq(Words) /\ InOrder(AccountAwaits(kind))
           /\ "verified" \notin Ahead(AccountAwaits(kind))
           /\ kind = "oauthRegister" => Ahead(AccountAwaits(kind)) =
                 {"begin", "crumb", "create", "find", "link", "commit",
                  "events", "profile", "ok"}
           /\ kind = "register" => Ahead(AccountAwaits(kind)) =
                 {"begin", "crumb", "create", "commit", "events", "profile", "ok"}
           /\ kind = "bind" => Ahead(AccountAwaits(kind)) =
                 {"begin", "user", "find", "link", "commit", "token", "ok"}
           /\ kind = "login" => Ahead(AccountAwaits(kind)) =
                 {"find", "suspended", "relink", "profile", "ok"}
           /\ kind = "unbind" => Ahead(AccountAwaits(kind)) =
                 {"unlink", "ok"}
           /\ kind = "botLine" => Ahead(AccountAwaits(kind)) =
                 {"begin", "link", "ok"}
           /\ kind = "botUpdate" => Ahead(AccountAwaits(kind)) =
                 {"begin", "find", "link"}
           /\ kind = "botUser" => Ahead(AccountAwaits(kind)) =
                 {"begin", "create", "ok"}
  <1>1. /\ OauthRegister \in Seq(Words) /\ InOrder(OauthRegister)
        /\ Ahead(OauthRegister) = {"begin", "crumb", "create", "find", "link", "commit", "events", "profile", "ok"}
    <2>1. \A i \in 1..9 : OauthRegister[i] \in Words
      BY DEF OauthRegister, Words, Answers
    <2>2. OauthRegister \in Seq(Words) /\ Len(OauthRegister) = 9
      BY <2>1 DEF OauthRegister
    <2>3. Ahead(OauthRegister) = {"begin", "crumb", "create", "find", "link", "commit", "events", "profile", "ok"}
      BY DEF OauthRegister, Ahead
    <2>4. \A i, j \in 1..9 : i < j => Rank(OauthRegister[i]) < Rank(OauthRegister[j])
      BY DEF OauthRegister, Rank
    <2> QED
      BY <2>2, <2>3, <2>4 DEF InOrder
  <1>2. /\ Register \in Seq(Words) /\ InOrder(Register)
        /\ Ahead(Register) = {"begin", "crumb", "create", "commit", "events", "profile", "ok"}
    <2>1. \A i \in 1..7 : Register[i] \in Words
      BY DEF Register, Words, Answers
    <2>2. Register \in Seq(Words) /\ Len(Register) = 7
      BY <2>1 DEF Register
    <2>3. Ahead(Register) = {"begin", "crumb", "create", "commit", "events", "profile", "ok"}
      BY DEF Register, Ahead
    <2>4. \A i, j \in 1..7 : i < j => Rank(Register[i]) < Rank(Register[j])
      BY DEF Register, Rank
    <2> QED
      BY <2>2, <2>3, <2>4 DEF InOrder
  <1>3. /\ Bind \in Seq(Words) /\ InOrder(Bind)
        /\ Ahead(Bind) = {"begin", "user", "find", "link", "commit", "token", "ok"}
    <2>1. \A i \in 1..7 : Bind[i] \in Words
      BY DEF Bind, Words, Answers
    <2>2. Bind \in Seq(Words) /\ Len(Bind) = 7
      BY <2>1 DEF Bind
    <2>3. Ahead(Bind) = {"begin", "user", "find", "link", "commit", "token", "ok"}
      BY DEF Bind, Ahead
    <2>4. \A i, j \in 1..7 : i < j => Rank(Bind[i]) < Rank(Bind[j])
      BY DEF Bind, Rank
    <2> QED
      BY <2>2, <2>3, <2>4 DEF InOrder
  <1>4. /\ Login \in Seq(Words) /\ InOrder(Login)
        /\ Ahead(Login) = {"find", "suspended", "relink", "profile", "ok"}
    <2>1. \A i \in 1..5 : Login[i] \in Words
      BY DEF Login, Words, Answers
    <2>2. Login \in Seq(Words) /\ Len(Login) = 5
      BY <2>1 DEF Login
    <2>3. Ahead(Login) = {"find", "suspended", "relink", "profile", "ok"}
      BY DEF Login, Ahead
    <2>4. \A i, j \in 1..5 : i < j => Rank(Login[i]) < Rank(Login[j])
      BY DEF Login, Rank
    <2> QED
      BY <2>2, <2>3, <2>4 DEF InOrder
  <1>5. BotLine \in Seq(Words) /\ InOrder(BotLine) /\ Ahead(BotLine) = {"begin", "link", "ok"}
    <2>1. "begin" \in Words /\ "link" \in Words /\ "ok" \in Words
      BY DEF Words, Answers
    <2>2. Rank("begin") < Rank("link") /\ Rank("link") < Rank("ok")
      BY DEF Rank
    <2> QED
      BY <2>1, <2>2, ThreeAwaits DEF BotLine
  <1>6. BotUpdate \in Seq(Words) /\ InOrder(BotUpdate) /\ Ahead(BotUpdate) = {"begin", "find", "link"}
    <2>1. "begin" \in Words /\ "find" \in Words /\ "link" \in Words
      BY DEF Words, Answers
    <2>2. Rank("begin") < Rank("find") /\ Rank("find") < Rank("link")
      BY DEF Rank
    <2> QED
      BY <2>1, <2>2, ThreeAwaits DEF BotUpdate
  <1>7. BotUser \in Seq(Words) /\ InOrder(BotUser) /\ Ahead(BotUser) = {"begin", "create", "ok"}
    <2>1. "begin" \in Words /\ "create" \in Words /\ "ok" \in Words
      BY DEF Words, Answers
    <2>2. Rank("begin") < Rank("create") /\ Rank("create") < Rank("ok")
      BY DEF Rank
    <2> QED
      BY <2>1, <2>2, ThreeAwaits DEF BotUser
  <1>8. Unbind \in Seq(Words) /\ InOrder(Unbind) /\ Ahead(Unbind) = {"unlink", "ok"}
    <2>1. "unlink" \in Words /\ "ok" \in Words
      BY DEF Words, Answers
    <2>2. Rank("unlink") < Rank("ok")
      BY DEF Rank
    <2> QED
      BY <2>1, <2>2, TwoAwaits DEF Unbind
  <1>9. CASE kind = "oauthRegister"
    <2>1. AccountAwaits(kind) = OauthRegister
      BY <1>9 DEF AccountAwaits
    <2> QED
      BY <1>9, <2>1, <1>1
  <1>10. CASE kind = "register"
    <2>1. AccountAwaits(kind) = Register
      BY <1>10 DEF AccountAwaits
    <2> QED
      BY <1>10, <2>1, <1>2
  <1>11. CASE kind = "bind"
    <2>1. AccountAwaits(kind) = Bind
      BY <1>11 DEF AccountAwaits
    <2> QED
      BY <1>11, <2>1, <1>3
  <1>12. CASE kind = "login"
    <2>1. AccountAwaits(kind) = Login
      BY <1>12 DEF AccountAwaits
    <2> QED
      BY <1>12, <2>1, <1>4
  <1>13. CASE kind = "unbind"
    <2>1. AccountAwaits(kind) = Unbind
      BY <1>13 DEF AccountAwaits
    <2> QED
      BY <1>13, <2>1, <1>8
  <1>14. CASE kind = "botLine"
    <2>1. AccountAwaits(kind) = BotLine
      BY <1>14 DEF AccountAwaits
    <2> QED
      BY <1>14, <2>1, <1>5
  <1>15. CASE kind = "botUpdate"
    <2>1. AccountAwaits(kind) = BotUpdate
      BY <1>15 DEF AccountAwaits
    <2> QED
      BY <1>15, <2>1, <1>6
  <1>16. CASE kind = "botUser"
    <2>1. AccountAwaits(kind) = BotUser
      BY <1>16 DEF AccountAwaits
    <2> QED
      BY <1>16, <2>1, <1>7
  <1> QED
    BY <1>9, <1>10, <1>11, <1>12, <1>13, <1>14, <1>15, <1>16 DEF AccountJobs

\* Ranks, one by one.
LEMMA Ranks ==
    /\ Rank("begin") = 1 /\ Rank("look") = 1 /\ Rank("first") = 1
    /\ Rank("crumb") = 2 /\ Rank("user") = 2 /\ Rank("sms") = 2
    /\ Rank("create") = 3 /\ Rank("code") = 3 /\ Rank("keep") = 3
    /\ Rank("find") = 4 /\ Rank("compare") = 4 /\ Rank("again") = 4
    /\ Rank("link") = 5 /\ Rank("rollback") = 5 /\ Rank("suspended") = 5
    /\ Rank("unlink") = 5 /\ Rank("lower") = 5 /\ Rank("authenticate") = 5
    /\ Rank("commit") = 6 /\ Rank("relink") = 6 /\ Rank("member") = 6
    /\ Rank("events") = 7 /\ Rank("token") = 7 /\ Rank("profile") = 8
    /\ \A x \in Answers : Rank(x) = 9
  BY DEF Rank, Answers

-----------------------------------------------------------------------------
(* The invariant.                                                          *)

Domains == /\ job \in [Calls -> Jobs]
           /\ todo \in [Calls -> Seq(Words)]
           /\ answer \in [Calls -> Answers \cup {"none"}]

Registers == {"oauthRegister", "register"}
Kind(c) == job[c].kind
Phone(c) == job[c].phone

\* Which handlers do what.
KindFits(c) ==
    /\ Has(c, "create") => Kind(c) \in Registers \cup {"botUser"}
    /\ Has(c, "link") => Kind(c) \in {"oauthRegister", "bind", "botLine", "botUpdate"}
    /\ Has(c, "commit") => Kind(c) \in Registers \cup {"bind"}
    /\ Has(c, "relink") => Kind(c) = "login"

\* The transaction of a call, from the awaits it has ahead.
TxFits(c) ==
    /\ Has(c, "begin") => tx[c] = "none"
    /\ (Has(c, "create") \/ Has(c, "link") \/ Has(c, "commit")) /\ ~Has(c, "begin")
           => tx[c] = "open"
    /\ tx[c] \in {"rolling", "gone"} => Ahead(todo[c]) \subseteq {"masked", "refused"}
    /\ Has(c, "rollback") => /\ tx[c] = "open"
                             /\ Ahead(todo[c]) \subseteq {"rollback", "masked", "refused"}

\* What it has written, and what it may commit: past the INSERT there is the member.
WritesFit(c) ==
    /\ Kind(c) \in Registers /\ (Has(c, "link") \/ Has(c, "commit")) /\ ~Has(c, "create")
           => own[c].user
    /\ Kind(c) = "bind" /\ (Has(c, "link") \/ Has(c, "commit")) /\ ~Has(c, "user")
           => users[Phone(c)] # Nobody
    /\ own[c].owner # Nobody =>
           /\ own[c].owner = Phone(c)
           /\ Kind(c) \in {"oauthRegister", "bind", "botLine", "botUpdate"}
           /\ Kind(c) = "oauthRegister" => own[c].user
           /\ Kind(c) = "bind" => users[Phone(c)] # Nobody
    /\ own[c].user => lock[Phone(c)] = c /\ users[Phone(c)] = Nobody

\* What it has been told, or will be.
AnswerFits(c) ==
    /\ Kind(c) \in Registers /\ ((Has(c, "ok") /\ ~Has(c, "commit")) \/ answer[c] = "ok")
           => users[Phone(c)] = c
    /\ Has(c, "refused") \/ answer[c] = "refused" => tx[c] # "committed" /\ ~Has(c, "commit")

\* What it has read of the account.
SeenFits(c) ==
    /\ Kind(c) \notin {"login", "botUpdate"} => seen[c] \notin Phones
    /\ Has(c, "relink") /\ ~Has(c, "find") => seen[c] \in Phones

AccountOf(c) == /\ InOrder(todo[c]) /\ KindFits(c) /\ TxFits(c) /\ WritesFit(c)
                /\ AnswerFits(c) /\ SeenFits(c)
Bystander(c) == tx[c] = "none" /\ own[c] = Unwritten /\ seen[c] = Nobody

AccountInv ==
    /\ AccountsTypeOK
    /\ \A c \in Calls : IF Kind(c) \in AccountJobs THEN AccountOf(c) ELSE Bystander(c)
    /\ \A c \in Calls, p \in Phones : users[p] = c => tx[c] = "committed"
    /\ \A c \in Calls : seen[c] \in Phones => users[seen[c]] # Nobody
    /\ LinkHasUser

-----------------------------------------------------------------------------
(* Accounts.                                                               *)

LEMMA JobFields ==
    ASSUME Domains, NEW c \in Calls
    PROVE  /\ Kind(c) \in AccountJobs => Phone(c) \in Phones /\ job[c].account \in OauthAccounts
           /\ Kind(c) = "validate" => job[c].crumb \in Calls /\ job[c].code \in Calls
           /\ Kind(c) = "add" => job[c].mark \in Marks
  <1>1. job[c] \in Jobs
    BY DEF Domains
  <1> QED
    BY <1>1 DEF Jobs, Kind, Phone, AccountJobs

\* What is left of the awaits when the first one is done.
LEMMA WhatIsLeft ==
    ASSUME Domains, NEW c \in Calls, todo[c] # <<>>, InOrder(todo[c]), Goes(c)
    PROVE  /\ todo' \in [Calls -> Seq(Words)]
           /\ \A d \in Calls \ {c} : todo'[d] = todo[d]
           /\ todo'[c] = Tail(todo[c])
           /\ InOrder(todo'[c])
           /\ \A x : Has(c, x) <=> x = Head(todo[c]) \/ x \in Ahead(todo'[c])
           /\ \A x : x \in Ahead(todo'[c]) => Rank(Head(todo[c])) < Rank(x)
  <1>1. todo[c] \in Seq(Words)
    BY DEF Domains
  <1>2. /\ Tail(todo[c]) \in Seq(Words)
        /\ Ahead(todo[c]) = {Head(todo[c])} \cup Ahead(Tail(todo[c]))
    BY <1>1, AheadOfTail
  <1>3. /\ InOrder(Tail(todo[c]))
        /\ \A x \in Ahead(Tail(todo[c])) : Rank(Head(todo[c])) < Rank(x)
    BY <1>1, TailInOrder
  <1>4. /\ todo' \in [Calls -> Seq(Words)] /\ todo'[c] = Tail(todo[c])
        /\ \A d \in Calls \ {c} : todo'[d] = todo[d]
    BY <1>2 DEF Goes, Domains
  <1> QED
    BY <1>2, <1>3, <1>4 DEF Has

\* A step of another call: it may add members, but none where this one has.
Elsewhere(c) ==
    /\ todo'[c] = todo[c] /\ answer'[c] = answer[c] /\ tx'[c] = tx[c]
    /\ own'[c] = own[c] /\ seen'[c] = seen[c]
    /\ \A r \in Rows : lock[r] = c => lock'[r] = c
    /\ \A p \in Phones : /\ users[p] # Nobody => users'[p] = users[p]
                         /\ own[c].user /\ p = Phone(c) => users'[p] = users[p]

LEMMA ElsewhereKeeps ==
    ASSUME Domains, NEW c \in Calls, Kind(c) \in AccountJobs, AccountOf(c), Elsewhere(c),
           job' = job, Nobody \notin Calls
    PROVE  AccountOf(c)'
  <1>1. /\ Phone(c) \in Phones /\ Phone(c) \in Rows /\ Phone(c)' = Phone(c) /\ Kind(c)' = Kind(c)
        /\ \A x : Has(c, x)' <=> Has(c, x)
        /\ Ahead(todo[c])' = Ahead(todo[c]) /\ InOrder(todo[c])' = InOrder(todo[c])
    BY JobFields DEF Elsewhere, Has, Rows, Phone, Kind
  <1>2. KindFits(c)' /\ TxFits(c)' /\ SeenFits(c)'
    BY <1>1 DEF AccountOf, KindFits, TxFits, SeenFits, Elsewhere
  <1>3. WritesFit(c)'
    BY <1>1 DEF AccountOf, WritesFit, Elsewhere
  <1>4. AnswerFits(c)'
    BY <1>1 DEF AccountOf, AnswerFits, Elsewhere
  <1> QED
    BY <1>1, <1>2, <1>3, <1>4 DEF AccountOf

\* Calls whose rows a step leaves alone.
LEMMA TheOthers ==
    ASSUME Domains, AccountInv, NEW c \in Calls, job' = job, Nobody \notin Calls,
           \A d \in Calls \ {c} : IF Kind(d) \in AccountJobs THEN Elsewhere(d)
                                  ELSE tx'[d] = tx[d] /\ own'[d] = own[d] /\ seen'[d] = seen[d]
    PROVE  \A d \in Calls \ {c} :
               IF Kind(d)' \in AccountJobs THEN AccountOf(d)' ELSE Bystander(d)'
  <1> SUFFICES ASSUME NEW d \in Calls \ {c}
               PROVE  IF Kind(d)' \in AccountJobs THEN AccountOf(d)' ELSE Bystander(d)'
    OBVIOUS
  <1>1. Kind(d)' = Kind(d)
    BY DEF Kind
  <1>2. CASE Kind(d) \in AccountJobs
    <2>1. AccountOf(d) /\ Elsewhere(d)
      BY <1>2 DEF AccountInv
    <2>2. AccountOf(d)'
      BY <1>2, <2>1, ElsewhereKeeps
    <2> QED
      BY <1>1, <1>2, <2>2
  <1>3. CASE Kind(d) \notin AccountJobs
    <2>1. Bystander(d) /\ tx'[d] = tx[d] /\ own'[d] = own[d] /\ seen'[d] = seen[d]
      BY <1>3 DEF AccountInv
    <2>2. Bystander(d)'
      BY <2>1 DEF Bystander
    <2> QED
      BY <1>1, <1>3, <2>2
  <1> QED
    BY <1>2, <1>3

\* What every step of a call may rely on.
LEMMA Before ==
    ASSUME Domains, AccountInv, NEW c \in Calls, Kind(c) \in AccountJobs, SignUpAssumption
    PROVE  /\ Nobody \notin Calls /\ Nobody \notin Phones /\ "before" # Nobody
           /\ "before" \notin Calls /\ "free" \notin Phones /\ "none" \notin Phones
           /\ Phone(c) \in Phones /\ Phone(c) \in Rows
           /\ job[c].account \in OauthAccounts /\ job[c].account \in Rows
           /\ job[c].phone = Phone(c)
           /\ InOrder(todo[c]) /\ KindFits(c) /\ TxFits(c) /\ WritesFit(c)
           /\ AnswerFits(c) /\ SeenFits(c)
  BY JobFields DEF SignUpAssumption, AccountInv, AccountOf, Rows, Phone

\* A step that changes nothing of the accounts but, when it begins, the transaction.
LEMMA QuietStep ==
    ASSUME Domains, AccountInv, NEW c \in Calls, Kind(c) \in AccountJobs, SignUpAssumption,
           todo[c] # <<>>, Head(todo[c]) \in Checks \cup {"begin", "user"}, Goes(c),
           UNCHANGED <<job, answer, users, links, lock, seen, own>>,
           tx' = IF Head(todo[c]) = "begin" THEN [tx EXCEPT ![c] = "open"] ELSE tx,
           Head(todo[c]) = "user" => users[Phone(c)] # Nobody
    PROVE  AccountInv'
  <1>1. /\ Nobody \notin Calls /\ Phone(c) \in Phones
        /\ InOrder(todo[c]) /\ KindFits(c) /\ TxFits(c) /\ WritesFit(c)
        /\ AnswerFits(c) /\ SeenFits(c)
    BY Before
  <1>2. /\ \A d \in Calls \ {c} : todo'[d] = todo[d]
        /\ InOrder(todo'[c])
        /\ \A x : Has(c, x) <=> x = Head(todo[c]) \/ x \in Ahead(todo'[c])
        /\ \A x : x \in Ahead(todo'[c]) => Rank(Head(todo[c])) < Rank(x)
    BY <1>1, WhatIsLeft
  <1>3. Head(todo[c]) \notin {"create", "link", "commit", "relink", "find", "rollback",
                               "ok", "refused", "masked"}
    BY DEF Checks
  <1>4. /\ Kind(c)' = Kind(c) /\ Phone(c)' = Phone(c)
        /\ \A x : Has(c, x)' <=> x \in Ahead(todo'[c])
    BY DEF Kind, Phone, Has
  <1>5. tx' \in [Calls -> {"none", "open", "rolling", "committed", "gone"}]
        /\ \A d \in Calls \ {c} : tx'[d] = tx[d]
    BY DEF AccountInv, AccountsTypeOK
  <1>6. \A d \in Calls \ {c} : IF Kind(d) \in AccountJobs THEN Elsewhere(d)
                               ELSE tx'[d] = tx[d] /\ own'[d] = own[d] /\ seen'[d] = seen[d]
    BY <1>2, <1>5 DEF Elsewhere
  <1>7. \A d \in Calls \ {c} :
               IF Kind(d)' \in AccountJobs THEN AccountOf(d)' ELSE Bystander(d)'
    BY <1>1, <1>6, TheOthers
  <1>8. tx[c] \notin {"rolling", "gone"} /\ Ahead(todo[c]) \in SUBSET Ahead(todo[c])
    <2>1. Has(c, Head(todo[c]))
      BY <1>2
    <2>2. Head(todo[c]) \in Ahead(todo[c])
      BY <2>1 DEF Has
    <2> QED
      BY <1>1, <1>3, <2>2 DEF TxFits
  <1>9. ~Has(c, "rollback")
    <2>1. Head(todo[c]) \in Ahead(todo[c])
      BY <1>2 DEF Has
    <2> QED
      BY <1>1, <1>3, <2>1 DEF TxFits
  <1>10. tx[c] = "committed" => Head(todo[c]) # "begin"
    BY <1>1, <1>2 DEF TxFits
  <1>11. Head(todo[c]) = "begin" => tx'[c] = "open" /\ ~Has(c, "begin")'
    BY <1>2, <1>4, Ranks DEF AccountInv, AccountsTypeOK
  <1>12. Head(todo[c]) # "begin" => tx'[c] = tx[c] /\ (Has(c, "begin")' <=> Has(c, "begin"))
    BY <1>2, <1>4
  <1>13. AccountOf(c)'
    <2>1. KindFits(c)'
      BY <1>1, <1>2, <1>4 DEF KindFits
    <2>2. TxFits(c)'
      <3>1. Has(c, "begin")' => tx'[c] = "none"
        BY <1>1, <1>11, <1>12 DEF TxFits
      <3>2. (Has(c, "create")' \/ Has(c, "link")' \/ Has(c, "commit")') /\ ~Has(c, "begin")'
                => tx'[c] = "open"
        BY <1>1, <1>2, <1>4, <1>11, <1>12 DEF TxFits
      <3>3. tx'[c] \notin {"rolling", "gone"}
        BY <1>8, <1>11, <1>12
      <3>4. ~Has(c, "rollback")'
        BY <1>2, <1>4, <1>9
      <3> QED
        BY <3>1, <3>2, <3>3, <3>4 DEF TxFits
    <2>3. WritesFit(c)'
      BY <1>1, <1>2, <1>3, <1>4 DEF WritesFit
    <2>4. AnswerFits(c)'
      BY <1>1, <1>2, <1>3, <1>4, <1>11, <1>12 DEF AnswerFits
    <2>5. SeenFits(c)'
      BY <1>1, <1>2, <1>3, <1>4 DEF SeenFits
    <2> QED
      BY <1>2, <2>1, <2>2, <2>3, <2>4, <2>5 DEF AccountOf
  <1>14. \A d \in Calls : IF Kind(d)' \in AccountJobs THEN AccountOf(d)' ELSE Bystander(d)'
    BY <1>4, <1>7, <1>13
  <1>15. AccountsTypeOK'
    BY <1>5, <1>8, <1>10, <1>11, <1>12 DEF AccountInv, AccountsTypeOK
  <1>16. \A d \in Calls, p \in Phones : users'[p] = d => tx'[d] = "committed"
    BY <1>5, <1>10, <1>12 DEF AccountInv
  <1> QED
    BY <1>14, <1>15, <1>16 DEF AccountInv, LinkHasUser

\* What a step of the awaits' list leaves, in one fact.
LEMMA Moving ==
    ASSUME Domains, AccountInv, NEW c \in Calls, Kind(c) \in AccountJobs, SignUpAssumption,
           todo[c] # <<>>, Goes(c), job' = job
    PROVE  /\ \A d \in Calls \ {c} : todo'[d] = todo[d]
           /\ InOrder(todo[c])'
           /\ Kind(c)' = Kind(c) /\ Phone(c)' = Phone(c)
           /\ \A x : Has(c, x) <=> x = Head(todo[c]) \/ Has(c, x)'
           /\ \A x : Has(c, x)' => Rank(Head(todo[c])) < Rank(x)
           /\ Head(todo[c]) \notin {"rollback", "masked", "refused"} =>
                  tx[c] \notin {"rolling", "gone"} /\ ~Has(c, "rollback")
  <1>1. InOrder(todo[c]) /\ TxFits(c)
    BY Before
  <1>2. /\ \A d \in Calls \ {c} : todo'[d] = todo[d]
        /\ InOrder(todo'[c])
        /\ \A x : Has(c, x) <=> x = Head(todo[c]) \/ x \in Ahead(todo'[c])
        /\ \A x : x \in Ahead(todo'[c]) => Rank(Head(todo[c])) < Rank(x)
    BY <1>1, WhatIsLeft
  <1>3. \A x : Has(c, x)' <=> x \in Ahead(todo'[c])
    BY DEF Has
  <1>4. Head(todo[c]) \in Ahead(todo[c])
    BY <1>2 DEF Has
  <1> QED
    BY <1>1, <1>2, <1>3, <1>4 DEF TxFits, Kind, Phone

LEMMA FindStep ==
    ASSUME Domains, AccountInv, NEW c \in Calls, Kind(c) \in AccountJobs, SignUpAssumption,
           Find(c)
    PROVE  AccountInv'
  <1> DEFINE owner == links[job[c].account]
  <1>1. /\ Nobody \notin Calls /\ Phone(c) \in Phones /\ job[c].account \in OauthAccounts
        /\ KindFits(c) /\ TxFits(c) /\ WritesFit(c) /\ AnswerFits(c) /\ SeenFits(c)
    BY Before
  <1>2. /\ todo[c] # <<>> /\ Head(todo[c]) = "find" /\ Goes(c)
        /\ seen' = [seen EXCEPT ![c] = owner]
        /\ UNCHANGED <<job, answer, users, links, tx, lock, own>>
        /\ MayGoOn(c, owner)
    BY DEF Find, At
  <1>3. /\ \A d \in Calls \ {c} : todo'[d] = todo[d]
        /\ InOrder(todo[c])'
        /\ Kind(c)' = Kind(c) /\ Phone(c)' = Phone(c)
        /\ \A x : Has(c, x) <=> x = "find" \/ Has(c, x)'
        /\ \A x : Has(c, x)' => 4 < Rank(x)
        /\ tx[c] \notin {"rolling", "gone"} /\ ~Has(c, "rollback")
    BY <1>2, Moving, Ranks
  <1>4. /\ owner \in Phones \cup {"free", "none"}
        /\ seen' \in [Calls -> Phones \cup {"free", "none", Nobody}]
        /\ seen'[c] = owner /\ \A d \in Calls \ {c} : seen'[d] = seen[d]
    BY <1>1, <1>2 DEF AccountInv, AccountsTypeOK
  <1>5. Kind(c) = "login" => owner \in Phones
    BY <1>2 DEF MayGoOn, Kind
  <1>6. Kind(c) \notin {"login", "botUpdate"} => owner \notin Phones
    BY <1>2 DEF MayGoOn, Kind
  <1>7. \A d \in Calls \ {c} : IF Kind(d) \in AccountJobs THEN Elsewhere(d)
                               ELSE tx'[d] = tx[d] /\ own'[d] = own[d] /\ seen'[d] = seen[d]
    BY <1>2, <1>3, <1>4 DEF Elsewhere
  <1>8. \A d \in Calls \ {c} :
               IF Kind(d)' \in AccountJobs THEN AccountOf(d)' ELSE Bystander(d)'
    BY <1>1, <1>2, <1>7, TheOthers
  <1>9. AccountOf(c)'
    <2>1. KindFits(c)'
      BY <1>1, <1>3 DEF KindFits
    <2>2. TxFits(c)'
      BY <1>1, <1>2, <1>3 DEF TxFits
    <2>3. WritesFit(c)'
      BY <1>1, <1>2, <1>3 DEF WritesFit
    <2>4. AnswerFits(c)'
      BY <1>1, <1>2, <1>3 DEF AnswerFits
    <2>5. SeenFits(c)'
      BY <1>1, <1>3, <1>4, <1>5, <1>6 DEF SeenFits, KindFits
    <2> QED
      BY <1>3, <2>1, <2>2, <2>3, <2>4, <2>5 DEF AccountOf
  <1>10. \A d \in Calls : IF Kind(d)' \in AccountJobs THEN AccountOf(d)' ELSE Bystander(d)'
    BY <1>3, <1>8, <1>9
  <1>11. AccountsTypeOK'
    BY <1>2, <1>4 DEF AccountInv, AccountsTypeOK
  <1>12. \A d \in Calls : seen'[d] \in Phones => users'[seen'[d]] # Nobody
    BY <1>1, <1>2, <1>4 DEF AccountInv, LinkHasUser
  <1> QED
    BY <1>2, <1>10, <1>11, <1>12 DEF AccountInv, LinkHasUser

LEMMA CreateStep ==
    ASSUME Domains, AccountInv, NEW c \in Calls, Kind(c) \in AccountJobs, SignUpAssumption,
           CreateUser(c)
    PROVE  AccountInv'
  <1>1. /\ Nobody \notin Calls /\ Phone(c) \in Phones /\ Phone(c) \in Rows
        /\ job[c].phone = Phone(c)
        /\ KindFits(c) /\ TxFits(c) /\ WritesFit(c) /\ AnswerFits(c) /\ SeenFits(c)
    BY Before
  <1>2. /\ todo[c] # <<>> /\ Head(todo[c]) = "create" /\ Goes(c)
        /\ users[Phone(c)] = Nobody /\ lock[Phone(c)] \in {Nobody, c}
        /\ lock' = [lock EXCEPT ![Phone(c)] = c]
        /\ own' = [own EXCEPT ![c].user = TRUE]
        /\ UNCHANGED <<job, answer, users, links, tx, seen>>
    BY <1>1 DEF CreateUser, At, Acquire, Create
  <1>3. /\ \A d \in Calls \ {c} : todo'[d] = todo[d]
        /\ InOrder(todo[c])'
        /\ Kind(c)' = Kind(c) /\ Phone(c)' = Phone(c)
        /\ \A x : Has(c, x) <=> x = "create" \/ Has(c, x)'
        /\ \A x : Has(c, x)' => 3 < Rank(x)
        /\ tx[c] \notin {"rolling", "gone"} /\ ~Has(c, "rollback")
    BY <1>2, Moving, Ranks
  <1>4. ~Has(c, "begin") /\ tx[c] = "open"
    BY <1>1, <1>3, Ranks DEF TxFits
  <1>5. /\ own[c] \in [user : BOOLEAN, owner : Phones \cup {Nobody}]
        /\ own' \in [Calls -> [user : BOOLEAN, owner : Phones \cup {Nobody}]]
        /\ own'[c].user = TRUE /\ own'[c].owner = own[c].owner
        /\ \A d \in Calls \ {c} : own'[d] = own[d]
    <2>1. own \in [Calls -> [user : BOOLEAN, owner : Phones \cup {Nobody}]]
      BY DEF AccountInv, AccountsTypeOK
    <2>2. own[c] \in [user : BOOLEAN, owner : Phones \cup {Nobody}]
      BY <2>1
    <2>3. [own[c] EXCEPT !.user = TRUE] \in [user : BOOLEAN, owner : Phones \cup {Nobody}]
      BY <2>2
    <2>4. own' = [own EXCEPT ![c] = [own[c] EXCEPT !.user = TRUE]]
      BY <1>2
    <2>5. own'[c] = [own[c] EXCEPT !.user = TRUE] /\ \A d \in Calls \ {c} : own'[d] = own[d]
      BY <2>1, <2>4
    <2>6. own' \in [Calls -> [user : BOOLEAN, owner : Phones \cup {Nobody}]]
      BY <2>1, <2>3, <2>4
    <2>7. own'[c].user = TRUE /\ own'[c].owner = own[c].owner
      BY <2>2, <2>5
    <2> QED
      BY <2>2, <2>5, <2>6, <2>7
  <1>6. /\ lock' \in [Rows -> Calls \cup {Nobody}] /\ lock'[Phone(c)] = c
        /\ \A r \in Rows : r # Phone(c) => lock'[r] = lock[r]
        /\ \A r \in Rows : lock'[r] # Nobody => tx'[lock'[r]] \in {"open", "rolling"}
    BY <1>1, <1>2, <1>4 DEF AccountInv, AccountsTypeOK
  <1>7. \A d \in Calls \ {c} : IF Kind(d) \in AccountJobs THEN Elsewhere(d)
                               ELSE tx'[d] = tx[d] /\ own'[d] = own[d] /\ seen'[d] = seen[d]
    BY <1>1, <1>2, <1>3, <1>5, <1>6 DEF Elsewhere
  <1>8. \A d \in Calls \ {c} :
               IF Kind(d)' \in AccountJobs THEN AccountOf(d)' ELSE Bystander(d)'
    BY <1>1, <1>2, <1>7, TheOthers
  <1>9. AccountOf(c)'
    <2>1. KindFits(c)'
      BY <1>1, <1>3 DEF KindFits
    <2>2. TxFits(c)'
      BY <1>1, <1>2, <1>3 DEF TxFits
    <2>3. WritesFit(c)'
      BY <1>1, <1>2, <1>3, <1>5, <1>6, Ranks DEF WritesFit, KindFits
    <2>4. AnswerFits(c)'
      BY <1>1, <1>2, <1>3 DEF AnswerFits
    <2>5. SeenFits(c)'
      BY <1>1, <1>2, <1>3 DEF SeenFits
    <2> QED
      BY <1>3, <2>1, <2>2, <2>3, <2>4, <2>5 DEF AccountOf
  <1>10. \A d \in Calls : IF Kind(d)' \in AccountJobs THEN AccountOf(d)' ELSE Bystander(d)'
    BY <1>3, <1>8, <1>9
  <1>11. AccountsTypeOK'
    BY <1>2, <1>5, <1>6 DEF AccountInv, AccountsTypeOK
  <1> QED
    BY <1>2, <1>10, <1>11 DEF AccountInv, LinkHasUser

LEMMA LinkStep ==
    ASSUME Domains, AccountInv, NEW c \in Calls, Kind(c) \in AccountJobs, SignUpAssumption,
           CreateOrUpdate(c)
    PROVE  AccountInv'
  <1> DEFINE a == job[c].account
  <1>1. /\ Nobody \notin Calls /\ Nobody \notin Phones /\ Phone(c) \in Phones
        /\ a \in Rows /\ job[c].phone = Phone(c)
        /\ KindFits(c) /\ TxFits(c) /\ WritesFit(c) /\ AnswerFits(c) /\ SeenFits(c)
    BY Before
  <1>2. /\ todo[c] # <<>> /\ Head(todo[c]) = "link" /\ Goes(c)
        /\ lock[a] \in {Nobody, c}
        /\ lock' = [lock EXCEPT ![a] = c]
        /\ own' = [own EXCEPT ![c].owner = Phone(c)]
        /\ UNCHANGED <<job, answer, users, links, tx, seen>>
    BY <1>1 DEF CreateOrUpdate, At, Acquire, Link
  <1>3. /\ \A d \in Calls \ {c} : todo'[d] = todo[d]
        /\ InOrder(todo[c])'
        /\ Kind(c)' = Kind(c) /\ Phone(c)' = Phone(c)
        /\ \A x : Has(c, x) <=> x = "link" \/ Has(c, x)'
        /\ \A x : Has(c, x)' => 5 < Rank(x)
        /\ tx[c] \notin {"rolling", "gone"} /\ ~Has(c, "rollback")
    BY <1>2, Moving, Ranks
  <1>4. ~Has(c, "begin") /\ ~Has(c, "create") /\ ~Has(c, "user") /\ tx[c] = "open"
    BY <1>1, <1>3, Ranks DEF TxFits
  <1>5. /\ own[c] \in [user : BOOLEAN, owner : Phones \cup {Nobody}]
        /\ own' \in [Calls -> [user : BOOLEAN, owner : Phones \cup {Nobody}]]
        /\ own'[c].user = own[c].user /\ own'[c].owner = Phone(c)
        /\ \A d \in Calls \ {c} : own'[d] = own[d]
    BY <1>1, <1>2 DEF AccountInv, AccountsTypeOK
  <1>6. /\ lock' \in [Rows -> Calls \cup {Nobody}] /\ lock'[a] = c
        /\ \A r \in Rows : r # a => lock'[r] = lock[r]
        /\ \A r \in Rows : lock'[r] # Nobody => tx'[lock'[r]] \in {"open", "rolling"}
        /\ \A r \in Rows : lock[r] = c => lock'[r] = c
    BY <1>1, <1>2, <1>4 DEF AccountInv, AccountsTypeOK
  <1>7. \A d \in Calls \ {c} : IF Kind(d) \in AccountJobs THEN Elsewhere(d)
                               ELSE tx'[d] = tx[d] /\ own'[d] = own[d] /\ seen'[d] = seen[d]
    BY <1>1, <1>2, <1>3, <1>5, <1>6 DEF Elsewhere
  <1>8. \A d \in Calls \ {c} :
               IF Kind(d)' \in AccountJobs THEN AccountOf(d)' ELSE Bystander(d)'
    BY <1>1, <1>2, <1>7, TheOthers
  <1>9. AccountOf(c)'
    <2>1. KindFits(c)'
      BY <1>1, <1>3 DEF KindFits
    <2>2. TxFits(c)'
      BY <1>1, <1>2, <1>3 DEF TxFits
    <2>3. WritesFit(c)'
      <3>1. Phone(c) \in Rows
        BY <1>1 DEF Rows
      <3>2. /\ Kind(c) \in {"oauthRegister", "bind", "botLine", "botUpdate"}
            /\ Kind(c) = "oauthRegister" => own[c].user
            /\ Kind(c) = "bind" => users[Phone(c)] # Nobody
        BY <1>1, <1>3, <1>4 DEF KindFits, WritesFit, Registers
      <3>3. Kind(c) = "register" => own'[c].user
        BY <3>2
      <3>4. own[c].user => lock'[Phone(c)] = c /\ users'[Phone(c)] = Nobody
        BY <1>1, <1>2, <1>6, <3>1 DEF WritesFit
      <3> QED
        BY <1>1, <1>2, <1>3, <1>5, <3>2, <3>3, <3>4 DEF WritesFit, Registers
    <2>4. AnswerFits(c)'
      BY <1>1, <1>2, <1>3 DEF AnswerFits
    <2>5. SeenFits(c)'
      BY <1>1, <1>2, <1>3 DEF SeenFits
    <2> QED
      BY <1>3, <2>1, <2>2, <2>3, <2>4, <2>5 DEF AccountOf
  <1>10. \A d \in Calls : IF Kind(d)' \in AccountJobs THEN AccountOf(d)' ELSE Bystander(d)'
    BY <1>3, <1>8, <1>9
  <1>11. AccountsTypeOK'
    BY <1>2, <1>5, <1>6 DEF AccountInv, AccountsTypeOK
  <1> QED
    BY <1>2, <1>10, <1>11 DEF AccountInv, LinkHasUser

\* login and unbind: the account's row, and no other.
LEMMA LinksStep ==
    ASSUME Domains, AccountInv, NEW c \in Calls, Kind(c) \in AccountJobs, SignUpAssumption,
           Relink(c) \/ Unlink(c)
    PROVE  AccountInv'
  <1>1. /\ Nobody \notin Calls /\ Phone(c) \in Phones /\ job[c].account \in OauthAccounts
        /\ "free" \notin Phones
        /\ KindFits(c) /\ TxFits(c) /\ WritesFit(c) /\ AnswerFits(c) /\ SeenFits(c)
    BY Before
  <1>2. /\ todo[c] # <<>> /\ Head(todo[c]) \in {"relink", "unlink"} /\ Goes(c)
        /\ UNCHANGED <<job, answer, users, tx, lock, seen, own>>
    BY DEF Relink, Unlink, At
  <1>3. /\ \A d \in Calls \ {c} : todo'[d] = todo[d]
        /\ InOrder(todo[c])'
        /\ Kind(c)' = Kind(c) /\ Phone(c)' = Phone(c)
        /\ \A x : Has(c, x) <=> x = Head(todo[c]) \/ Has(c, x)'
        /\ \A x : Has(c, x)' => Rank(Head(todo[c])) < Rank(x)
        /\ tx[c] \notin {"rolling", "gone"} /\ ~Has(c, "rollback")
    BY <1>2, Moving
  <1>4. Relink(c) => seen[c] \in Phones
    <2>1. Relink(c) => Head(todo[c]) = "relink"
      BY DEF Relink, At
    <2>2. Relink(c) => Has(c, "relink") /\ ~Has(c, "find")
      BY <1>3, <2>1, Ranks
    <2> QED
      BY <1>1, <2>2 DEF SeenFits
  <1>5. links' \in [OauthAccounts -> Phones \cup {"free", "none"}]
    <2>1. CASE Relink(c)
      BY <1>1, <1>4, <2>1 DEF Relink, AccountInv, AccountsTypeOK
    <2>2. CASE Unlink(c)
      BY <2>2 DEF Unlink, AccountInv, AccountsTypeOK
    <2> QED
      BY <2>1, <2>2
  <1>6. LinkHasUser'
    <2>1. CASE Relink(c)
      BY <1>1, <1>2, <1>4, <2>1 DEF Relink, AccountInv, AccountsTypeOK, LinkHasUser
    <2>2. CASE Unlink(c)
      BY <1>1, <1>2, <2>2 DEF Unlink, AccountInv, AccountsTypeOK, LinkHasUser
    <2> QED
      BY <2>1, <2>2
  <1>7. \A d \in Calls \ {c} : IF Kind(d) \in AccountJobs THEN Elsewhere(d)
                               ELSE tx'[d] = tx[d] /\ own'[d] = own[d] /\ seen'[d] = seen[d]
    BY <1>2, <1>3 DEF Elsewhere
  <1>8. \A d \in Calls \ {c} :
               IF Kind(d)' \in AccountJobs THEN AccountOf(d)' ELSE Bystander(d)'
    BY <1>1, <1>2, <1>7, TheOthers
  <1>9. AccountOf(c)'
    <2>1. KindFits(c)'
      BY <1>1, <1>3 DEF KindFits
    <2>2. TxFits(c)'
      BY <1>1, <1>2, <1>3 DEF TxFits
    <2>3. WritesFit(c)'
      BY <1>1, <1>2, <1>3 DEF WritesFit
    <2>4. AnswerFits(c)'
      BY <1>1, <1>2, <1>3 DEF AnswerFits
    <2>5. SeenFits(c)'
      BY <1>1, <1>2, <1>3 DEF SeenFits
    <2> QED
      BY <1>3, <2>1, <2>2, <2>3, <2>4, <2>5 DEF AccountOf
  <1>10. \A d \in Calls : IF Kind(d)' \in AccountJobs THEN AccountOf(d)' ELSE Bystander(d)'
    BY <1>3, <1>8, <1>9
  <1>11. AccountsTypeOK'
    BY <1>2, <1>5 DEF AccountInv, AccountsTypeOK
  <1> QED
    BY <1>2, <1>6, <1>10, <1>11 DEF AccountInv

LEMMA CommitStep ==
    ASSUME Domains, AccountInv, NEW c \in Calls, Kind(c) \in AccountJobs, SignUpAssumption,
           Commit(c)
    PROVE  AccountInv'
  <1> DEFINE a == job[c].account
             p == Phone(c)
  <1>1. /\ Nobody \notin Calls /\ Nobody \notin Phones /\ p \in Phones /\ p \in Rows
        /\ a \in OauthAccounts /\ job[c].phone = p /\ InOrder(todo[c])
        /\ KindFits(c) /\ TxFits(c) /\ WritesFit(c) /\ AnswerFits(c) /\ SeenFits(c)
    BY Before
  <1>2. /\ todo[c] # <<>> /\ Head(todo[c]) = "commit"
        /\ users' = IF own[c].user THEN [users EXCEPT ![p] = c] ELSE users
        /\ links' = IF own[c].owner # Nobody THEN [links EXCEPT ![a] = own[c].owner] ELSE links
        /\ tx' = [tx EXCEPT ![c] = "committed"]
        /\ own' = [own EXCEPT ![c] = Unwritten]
        /\ lock' = [r \in Rows |-> IF lock[r] = c THEN Nobody ELSE lock[r]]
        /\ UNCHANGED <<job, answer, seen>>
    BY <1>1 DEF Commit, At, Release
  <1>3. /\ todo'[c] = Tail(todo[c])
        /\ \A d \in Calls \ {c} : Kind(d) \in AccountJobs => todo'[d] = todo[d]
    BY DEF Commit, Kind, AccountJobs
  <1>4. /\ InOrder(todo[c])' /\ Kind(c)' = Kind(c) /\ Phone(c)' = p
        /\ \A x : Has(c, x) <=> x = "commit" \/ Has(c, x)'
        /\ \A x : Has(c, x)' => 6 < Rank(x)
    <2>1. todo[c] \in Seq(Words)
      BY DEF Domains
    <2>2. Ahead(todo[c]) = {"commit"} \cup Ahead(Tail(todo[c]))
      BY <1>2, <2>1, AheadOfTail
    <2>3. InOrder(Tail(todo[c])) /\ \A x \in Ahead(Tail(todo[c])) : 6 < Rank(x)
      BY <1>1, <1>2, <2>1, TailInOrder, Ranks
    <2> QED
      BY <1>2, <1>3, <2>2, <2>3 DEF Has, Kind, Phone
  <1>5. /\ Has(c, "commit") /\ ~Has(c, "begin") /\ ~Has(c, "create") /\ ~Has(c, "user")
        /\ ~Has(c, "rollback") /\ ~Has(c, "commit")' /\ ~Has(c, "link")'
        /\ ~Has(c, "begin")' /\ ~Has(c, "create")' /\ ~Has(c, "rollback")' /\ ~Has(c, "find")
    BY <1>4, Ranks
  <1>6. Kind(c) \in Registers \cup {"bind"} /\ tx[c] = "open"
    BY <1>1, <1>5 DEF KindFits, TxFits
  <1>7. Kind(c) \in Registers => own[c].user
    BY <1>1, <1>5 DEF WritesFit
  <1>8. own[c].owner # Nobody => own[c].owner = p /\ (own[c].user \/ users[p] # Nobody)
    BY <1>1, <1>6 DEF WritesFit, Registers
  <1>9. own[c].user => lock[p] = c /\ users[p] = Nobody
    BY <1>1 DEF WritesFit
  <1>10. /\ users \in [Phones -> Calls \cup {"before", Nobody}]
         /\ users' \in [Phones -> Calls \cup {"before", Nobody}]
         /\ \A q \in Phones : users[q] # Nobody => users'[q] = users[q]
         /\ \A q \in Phones : q # p => users'[q] = users[q]
         /\ own[c].user => users'[p] = c
         /\ ~own[c].user => users'[p] = users[p]
    BY <1>1, <1>2, <1>9 DEF AccountInv, AccountsTypeOK
  <1>11. /\ links' \in [OauthAccounts -> Phones \cup {"free", "none"}]
         /\ \A b \in OauthAccounts : links'[b] = links[b] \/ (links'[b] = p /\ own[c].owner # Nobody)
    <2>1. links \in [OauthAccounts -> Phones \cup {"free", "none"}]
      BY DEF AccountInv, AccountsTypeOK
    <2>2. CASE own[c].owner = Nobody
      <3>1. links' = links
        BY <1>2, <2>2
      <3>2. links' \in [OauthAccounts -> Phones \cup {"free", "none"}]
        BY <2>1, <3>1
      <3>3. \A b \in OauthAccounts : links'[b] = links[b]
        BY <3>1
      <3> QED
        BY <3>2, <3>3
    <2>3. CASE own[c].owner # Nobody
      <3>1. links' = [links EXCEPT ![a] = p]
        BY <1>2, <1>8, <2>3
      <3> HIDE DEF a, p
      <3>2. links' \in [OauthAccounts -> Phones \cup {"free", "none"}]
        BY <1>1, <2>1, <3>1
      <3> QED
        BY <1>1, <2>1, <2>3, <3>1, <3>2
    <2> QED
      BY <2>2, <2>3
  <1>12. /\ tx' \in [Calls -> {"none", "open", "rolling", "committed", "gone"}]
         /\ tx'[c] = "committed" /\ \A d \in Calls \ {c} : tx'[d] = tx[d]
    BY <1>2 DEF AccountInv, AccountsTypeOK
  <1>13. /\ own' \in [Calls -> [user : BOOLEAN, owner : Phones \cup {Nobody}]]
         /\ own'[c].user = FALSE /\ own'[c].owner = Nobody
         /\ \A d \in Calls \ {c} : own'[d] = own[d]
    BY <1>2 DEF AccountInv, AccountsTypeOK, Unwritten
  <1>14. /\ lock' \in [Rows -> Calls \cup {Nobody}]
         /\ \A r \in Rows : lock'[r] # Nobody => tx'[lock'[r]] \in {"open", "rolling"}
         /\ \A r \in Rows : lock[r] # c => lock'[r] = lock[r]
    BY <1>2, <1>12 DEF AccountInv, AccountsTypeOK
  <1>15. \A d \in Calls \ {c} : IF Kind(d) \in AccountJobs THEN Elsewhere(d)
                                ELSE tx'[d] = tx[d] /\ own'[d] = own[d] /\ seen'[d] = seen[d]
    <2> SUFFICES ASSUME NEW d \in Calls \ {c}
                 PROVE  IF Kind(d) \in AccountJobs THEN Elsewhere(d)
                        ELSE tx'[d] = tx[d] /\ own'[d] = own[d] /\ seen'[d] = seen[d]
      OBVIOUS
    <2>1. Kind(d) \in AccountJobs /\ own[d].user => lock[Phone(d)] = d
      BY DEF AccountInv, AccountOf, WritesFit
    <2>2. Kind(d) \in AccountJobs /\ own[d].user /\ own[c].user => Phone(d) # p
      BY <1>9, <2>1
    <2> QED
      BY <1>2, <1>3, <1>10, <1>12, <1>13, <1>14, <2>2 DEF Elsewhere
  <1>16. \A d \in Calls \ {c} :
               IF Kind(d)' \in AccountJobs THEN AccountOf(d)' ELSE Bystander(d)'
    BY <1>1, <1>2, <1>15, TheOthers
  <1>17. AccountOf(c)'
    <2>1. KindFits(c)'
      BY <1>1, <1>4 DEF KindFits
    <2>2. TxFits(c)'
      BY <1>5, <1>12 DEF TxFits
    <2>3. WritesFit(c)'
      BY <1>5, <1>13 DEF WritesFit
    <2>4. AnswerFits(c)'
      BY <1>1, <1>2, <1>4, <1>5, <1>7, <1>10 DEF AnswerFits
    <2>5. SeenFits(c)'
      BY <1>1, <1>2, <1>4 DEF SeenFits
    <2> QED
      BY <1>4, <2>1, <2>2, <2>3, <2>4, <2>5 DEF AccountOf
  <1>18. \A d \in Calls : IF Kind(d)' \in AccountJobs THEN AccountOf(d)' ELSE Bystander(d)'
    BY <1>4, <1>16, <1>17
  <1>19. AccountsTypeOK'
    BY <1>2, <1>10, <1>11, <1>12, <1>13, <1>14 DEF AccountInv, AccountsTypeOK
  <1>20. \A d \in Calls, q \in Phones : users'[q] = d => tx'[d] = "committed"
    BY <1>2, <1>10, <1>12 DEF AccountInv
  <1>21. \A d \in Calls : seen'[d] \in Phones => users'[seen'[d]] # Nobody
    BY <1>2, <1>10 DEF AccountInv
  <1>22. LinkHasUser'
    BY <1>1, <1>8, <1>10, <1>11 DEF AccountInv, LinkHasUser
  <1> QED
    BY <1>18, <1>19, <1>20, <1>21, <1>22 DEF AccountInv

\* What a failure leaves to do.
LEMMA FailStep ==
    ASSUME Domains, AccountInv, NEW c \in Calls, Kind(c) \in AccountJobs, SignUpAssumption,
           Fails(c)
    PROVE  AccountInv'
  <1>1. /\ Nobody \notin Calls /\ Phone(c) \in Phones /\ InOrder(todo[c])
        /\ KindFits(c) /\ TxFits(c) /\ WritesFit(c) /\ AnswerFits(c) /\ SeenFits(c)
    BY Before
  <1>2. /\ todo[c] # <<>> /\ Head(todo[c]) \notin Answers /\ Head(todo[c]) # "rollback"
        /\ todo' = [todo EXCEPT ![c] = OnFailure(c)]
        /\ tx' = IF Rolling(c) THEN [tx EXCEPT ![c] = "rolling"] ELSE tx
        /\ UNCHANGED <<job, answer, users, links, lock, seen, own>>
    BY DEF Fails, Working, At, Turns
  <1>3. todo[c] \in Seq(Words) /\ Head(todo[c]) \in Ahead(todo[c])
    BY <1>2, AheadOfTail DEF Domains
  <1>4. tx[c] \in {"none", "open", "committed"}
    BY <1>1, <1>2, <1>3 DEF TxFits, Answers, AccountInv, AccountsTypeOK
  <1>5. Rolling(c) => tx[c] = "open"
    <2>1. Rolling(c) => Head(todo[c]) \in {"commit", "link"}
      BY DEF Rolling, At
    <2>2. \A x \in Ahead(Tail(todo[c])) : Rank(Head(todo[c])) < Rank(x)
      BY <1>1, <1>2, <1>3, TailInOrder
    <2>3. Ahead(todo[c]) = {Head(todo[c])} \cup Ahead(Tail(todo[c]))
      BY <1>2, <1>3, AheadOfTail
    <2>4. Rolling(c) => ~Has(c, "begin")
      BY <2>1, <2>2, <2>3, Ranks DEF Has
    <2> QED
      BY <1>1, <1>3, <2>1, <2>4 DEF TxFits, Has
  <1>6. /\ InOrder(OnFailure(c))
        /\ \/ Ahead(OnFailure(c)) = {"refused"} /\ tx'[c] = "none"
           \/ Ahead(OnFailure(c)) = {"masked"} /\ tx'[c] \in {"committed", "rolling"}
           \/ Ahead(OnFailure(c)) \in {{"rollback", "masked"}, {"rollback", "refused"}}
              /\ tx'[c] = "open"
    <2>1. "refused" \in Words /\ "masked" \in Words /\ "rollback" \in Words
      BY DEF Words, Answers
    <2>2. Rank("rollback") < Rank("masked") /\ Rank("rollback") < Rank("refused")
      BY Ranks DEF Answers
    <2>3. tx[c] = "none" => OnFailure(c) = <<"refused">> /\ tx'[c] = "none"
      BY <1>2, <1>5 DEF OnFailure
    <2>4. tx[c] = "committed" => OnFailure(c) = <<"masked">> /\ tx'[c] = "committed"
      BY <1>2, <1>5 DEF OnFailure
    <2>5. Rolling(c) => OnFailure(c) = <<"masked">> /\ tx'[c] = "rolling"
      BY <1>2, <1>5 DEF OnFailure, AccountInv, AccountsTypeOK
    <2>6. tx[c] = "open" /\ ~Rolling(c) =>
              /\ OnFailure(c) \in {<<"rollback", "masked">>, <<"rollback", "refused">>}
              /\ tx'[c] = "open"
      BY <1>2 DEF OnFailure
    <2>7. Ahead(<<"refused">>) = {"refused"} /\ InOrder(<<"refused">>)
          /\ Ahead(<<"masked">>) = {"masked"} /\ InOrder(<<"masked">>)
      BY <2>1, OneAwait
    <2>8. /\ Ahead(<<"rollback", "masked">>) = {"rollback", "masked"}
          /\ Ahead(<<"rollback", "refused">>) = {"rollback", "refused"}
          /\ InOrder(<<"rollback", "masked">>) /\ InOrder(<<"rollback", "refused">>)
      BY <2>1, <2>2, TwoAwaits
    <2> QED
      BY <1>4, <2>3, <2>4, <2>5, <2>6, <2>7, <2>8
  <1>7. /\ todo'[c] = OnFailure(c) /\ \A d \in Calls \ {c} : todo'[d] = todo[d]
        /\ tx' \in [Calls -> {"none", "open", "rolling", "committed", "gone"}]
        /\ \A d \in Calls \ {c} : tx'[d] = tx[d]
        /\ tx[c] \in {"open", "rolling"} => tx'[c] \in {"open", "rolling"}
        /\ tx[c] = "committed" => tx'[c] = "committed"
    BY <1>2, <1>5 DEF Domains, AccountInv, AccountsTypeOK
  <1>8. /\ Kind(c)' = Kind(c) /\ Phone(c)' = Phone(c) /\ InOrder(todo[c])'
        /\ Ahead(todo[c])' = Ahead(OnFailure(c))
        /\ \A x : Has(c, x)' <=> x \in Ahead(OnFailure(c))
    BY <1>2, <1>6, <1>7 DEF Kind, Phone, Has
  <1>9. /\ ~Has(c, "begin")' /\ ~Has(c, "create")' /\ ~Has(c, "link")' /\ ~Has(c, "commit")'
        /\ ~Has(c, "relink")' /\ ~Has(c, "ok")'
    BY <1>6, <1>8
  <1>10. \A d \in Calls \ {c} : IF Kind(d) \in AccountJobs THEN Elsewhere(d)
                               ELSE tx'[d] = tx[d] /\ own'[d] = own[d] /\ seen'[d] = seen[d]
    BY <1>2, <1>7 DEF Elsewhere
  <1>11. \A d \in Calls \ {c} :
               IF Kind(d)' \in AccountJobs THEN AccountOf(d)' ELSE Bystander(d)'
    BY <1>1, <1>2, <1>10, TheOthers
  <1>12. AccountOf(c)'
    <2>1. KindFits(c)'
      BY <1>9 DEF KindFits
    <2>2. TxFits(c)'
      BY <1>6, <1>8, <1>9 DEF TxFits
    <2>3. WritesFit(c)'
      BY <1>1, <1>2, <1>8, <1>9 DEF WritesFit
    <2>4. AnswerFits(c)'
      BY <1>1, <1>2, <1>6, <1>8, <1>9 DEF AnswerFits
    <2>5. SeenFits(c)'
      BY <1>1, <1>2, <1>8, <1>9 DEF SeenFits
    <2> QED
      BY <1>8, <2>1, <2>2, <2>3, <2>4, <2>5 DEF AccountOf
  <1>13. \A d \in Calls : IF Kind(d)' \in AccountJobs THEN AccountOf(d)' ELSE Bystander(d)'
    BY <1>8, <1>11, <1>12
  <1>14. AccountsTypeOK'
    BY <1>2, <1>7 DEF AccountInv, AccountsTypeOK
  <1>15. \A d \in Calls, p \in Phones : users'[p] = d => tx'[d] = "committed"
    BY <1>2, <1>7 DEF AccountInv
  <1> QED
    BY <1>2, <1>13, <1>14, <1>15 DEF AccountInv, LinkHasUser

LEMMA RollStep ==
    ASSUME Domains, AccountInv, NEW c \in Calls, Kind(c) \in AccountJobs, SignUpAssumption,
           RollsBack(c)
    PROVE  AccountInv'
  <1>1. /\ Nobody \notin Calls /\ Phone(c) \in Phones /\ InOrder(todo[c])
        /\ KindFits(c) /\ TxFits(c) /\ WritesFit(c) /\ AnswerFits(c) /\ SeenFits(c)
    BY Before
  <1>2. /\ tx' = [tx EXCEPT ![c] = "gone"]
        /\ own' = [own EXCEPT ![c] = Unwritten]
        /\ lock' = [r \in Rows |-> IF lock[r] = c THEN Nobody ELSE lock[r]]
        /\ UNCHANGED <<job, answer, users, links, seen>>
    BY DEF RollsBack, Release
  <1>3. /\ \A d \in Calls \ {c} : todo'[d] = todo[d]
        /\ InOrder(todo'[c]) /\ Ahead(todo'[c]) \subseteq {"masked", "refused"}
        /\ Ahead(todo'[c]) \subseteq Ahead(todo[c]) /\ tx[c] \in {"open", "rolling"}
    <2>1. CASE At(c, "rollback") /\ Goes(c)
      <3>1. /\ \A d \in Calls \ {c} : todo'[d] = todo[d]
            /\ InOrder(todo'[c])
            /\ \A x : Has(c, x) <=> x = "rollback" \/ x \in Ahead(todo'[c])
            /\ \A x : x \in Ahead(todo'[c]) => 5 < Rank(x)
        BY <1>1, <2>1, WhatIsLeft, Ranks DEF At
      <3>2. /\ tx[c] = "open" /\ Ahead(todo[c]) \subseteq {"rollback", "masked", "refused"}
            /\ "rollback" \notin Ahead(todo'[c])
        BY <1>1, <3>1, Ranks DEF TxFits
      <3> QED
        BY <3>1, <3>2 DEF Has
    <2>2. CASE tx[c] = "rolling" /\ UNCHANGED todo
      BY <1>1, <2>2 DEF TxFits
    <2> QED
      BY <2>1, <2>2 DEF RollsBack
  <1>4. /\ Kind(c)' = Kind(c) /\ Phone(c)' = Phone(c)
        /\ \A x : Has(c, x)' => x \in {"masked", "refused"} /\ Has(c, x)
    BY <1>2, <1>3 DEF Kind, Phone, Has
  <1>5. /\ tx' \in [Calls -> {"none", "open", "rolling", "committed", "gone"}]
        /\ tx'[c] = "gone" /\ \A d \in Calls \ {c} : tx'[d] = tx[d]
    BY <1>2 DEF AccountInv, AccountsTypeOK
  <1>6. /\ own' \in [Calls -> [user : BOOLEAN, owner : Phones \cup {Nobody}]]
        /\ own'[c].user = FALSE /\ own'[c].owner = Nobody
        /\ \A d \in Calls \ {c} : own'[d] = own[d]
    BY <1>2 DEF AccountInv, AccountsTypeOK, Unwritten
  <1>7. /\ lock' \in [Rows -> Calls \cup {Nobody}]
        /\ \A r \in Rows : lock'[r] # Nobody => tx'[lock'[r]] \in {"open", "rolling"}
        /\ \A r \in Rows : lock[r] # c => lock'[r] = lock[r]
    BY <1>2, <1>5 DEF AccountInv, AccountsTypeOK
  <1>8. \A d \in Calls \ {c} : IF Kind(d) \in AccountJobs THEN Elsewhere(d)
                               ELSE tx'[d] = tx[d] /\ own'[d] = own[d] /\ seen'[d] = seen[d]
    BY <1>2, <1>3, <1>5, <1>6, <1>7 DEF Elsewhere
  <1>9. \A d \in Calls \ {c} :
               IF Kind(d)' \in AccountJobs THEN AccountOf(d)' ELSE Bystander(d)'
    BY <1>1, <1>2, <1>8, TheOthers
  <1>10. AccountOf(c)'
    <2>1. KindFits(c)'
      BY <1>4 DEF KindFits
    <2>2. TxFits(c)'
      BY <1>3, <1>4, <1>5 DEF TxFits
    <2>3. WritesFit(c)'
      BY <1>4, <1>6 DEF WritesFit
    <2>4. AnswerFits(c)'
      BY <1>1, <1>2, <1>4, <1>5 DEF AnswerFits
    <2>5. SeenFits(c)'
      BY <1>1, <1>2, <1>4 DEF SeenFits
    <2> QED
      BY <1>3, <2>1, <2>2, <2>3, <2>4, <2>5 DEF AccountOf
  <1>11. \A d \in Calls : IF Kind(d)' \in AccountJobs THEN AccountOf(d)' ELSE Bystander(d)'
    BY <1>4, <1>9, <1>10
  <1>12. AccountsTypeOK'
    BY <1>2, <1>5, <1>6, <1>7 DEF AccountInv, AccountsTypeOK
  <1>13. \A d \in Calls, p \in Phones : users'[p] = d => tx'[d] = "committed"
    BY <1>2, <1>3, <1>5 DEF AccountInv
  <1> QED
    BY <1>2, <1>11, <1>12, <1>13 DEF AccountInv, LinkHasUser

LEMMA AnsweredStep ==
    ASSUME Domains, AccountInv, NEW c \in Calls, SignUpAssumption, Reply(c),
           UNCHANGED accountVars
    PROVE  AccountInv'
  <1>1. /\ todo[c] # <<>> /\ Head(todo[c]) \in Answers /\ Goes(c)
        /\ answer' = [answer EXCEPT ![c] = Head(todo[c])]
        /\ UNCHANGED <<job, users, links, tx, lock, seen, own>>
    BY DEF Reply, accountVars
  <1>2. /\ answer'[c] = Head(todo[c]) /\ \A d \in Calls \ {c} : answer'[d] = answer[d]
    BY <1>1 DEF Domains
  <1>3. \A d \in Calls \ {c} : todo'[d] = todo[d]
    BY <1>1 DEF Goes, Domains
  <1>4. \A d \in Calls \ {c} : IF Kind(d) \in AccountJobs THEN Elsewhere(d)
                               ELSE tx'[d] = tx[d] /\ own'[d] = own[d] /\ seen'[d] = seen[d]
    BY <1>1, <1>2, <1>3 DEF Elsewhere
  <1>5. \A d \in Calls \ {c} :
               IF Kind(d)' \in AccountJobs THEN AccountOf(d)' ELSE Bystander(d)'
    BY <1>1, <1>4, TheOthers DEF SignUpAssumption
  <1>6. CASE Kind(c) \notin AccountJobs
    <2>1. Bystander(c)' /\ Kind(c)' = Kind(c)
      BY <1>1, <1>6 DEF AccountInv, Bystander, Kind
    <2>2. \A d \in Calls : IF Kind(d)' \in AccountJobs THEN AccountOf(d)' ELSE Bystander(d)'
      BY <1>5, <1>6, <2>1
    <2> QED
      BY <1>1, <2>2 DEF AccountInv, AccountsTypeOK, LinkHasUser
  <1>7. CASE Kind(c) \in AccountJobs
    <2>1. KindFits(c) /\ TxFits(c) /\ WritesFit(c) /\ AnswerFits(c) /\ SeenFits(c)
      BY <1>7, Before
    <2>2. /\ InOrder(todo[c])' /\ Kind(c)' = Kind(c) /\ Phone(c)' = Phone(c)
          /\ \A x : Has(c, x) <=> x = Head(todo[c]) \/ Has(c, x)'
          /\ \A x : Has(c, x)' => Rank(Head(todo[c])) < Rank(x)
      BY <1>1, <1>7, Moving
    <2>3. \A x : ~Has(c, x)'
      BY <1>1, <2>2, Ranks, RankIsNumber
    <2>4. ~Has(c, "commit") /\ Has(c, Head(todo[c]))
      BY <1>1, <2>2, <2>3 DEF Answers
    <2>5. AccountOf(c)'
      <3>1. KindFits(c)'
        BY <2>3 DEF KindFits
      <3>2. TxFits(c)'
        BY <2>3 DEF TxFits, Has
      <3>3. WritesFit(c)'
        BY <1>1, <2>1, <2>2, <2>3 DEF WritesFit
      <3>4. AnswerFits(c)'
        BY <1>1, <1>2, <2>1, <2>2, <2>3, <2>4 DEF AnswerFits
      <3>5. SeenFits(c)'
        BY <1>1, <2>1, <2>2, <2>3 DEF SeenFits
      <3> QED
        BY <2>2, <3>1, <3>2, <3>3, <3>4, <3>5 DEF AccountOf
    <2>6. \A d \in Calls : IF Kind(d)' \in AccountJobs THEN AccountOf(d)' ELSE Bystander(d)'
      BY <1>5, <1>7, <2>2, <2>5
    <2> QED
      BY <1>1, <2>6 DEF AccountInv, AccountsTypeOK, LinkHasUser
  <1> QED
    BY <1>6, <1>7

-----------------------------------------------------------------------------
(* Codes.                                                                  *)

\* A send keeps its code after its SMS; a validation writes back a code it has read,
\* and succeeds only with a code that was in the cache when it looked.
CodeOf(c) ==
    /\ InOrder(todo[c])
    /\ Has(c, "keep") => Kind(c) = "send"
    /\ Has(c, "code") \/ Has(c, "compare") \/ Has(c, "member") => Kind(c) = "validate"
    /\ Has(c, "keep") /\ ~Has(c, "sms") => c \in outbox
    /\ (Has(c, "lower") \/ Has(c, "authenticate")) /\ ~Has(c, "again")
           => read[c].last.code \in outbox
    /\ read[c].code => job[c].code \in outbox
    /\ Has(c, "member") => /\ ~Has(c, "first") /\ ~Has(c, "code")
                           /\ read[c].first.retry <= 0 \/ read[c].code
    /\ Has(c, "verified") \/ answer[c] = "verified" => job[c].code \in outbox

CodeInv ==
    /\ CodesTypeOK
    /\ \A c \in Calls : IF Kind(c) \in CodeJobs THEN CodeOf(c)
                        ELSE ~Has(c, "verified") /\ answer[c] # "verified"
    /\ info # NoInfo => info.code \in outbox

LEMMA Refusal ==
    ASSUME Domains, NEW c \in Calls, Refuses(c)
    PROVE  /\ todo' \in [Calls -> Seq(Words)]
           /\ \A d \in Calls \ {c} : todo'[d] = todo[d]
           /\ InOrder(todo[c])' /\ \A x : Has(c, x)' <=> x = "refused"
  <1>1. "refused" \in Words
    BY DEF Words, Answers
  <1>2. /\ <<"refused">> \in Seq(Words) /\ Ahead(<<"refused">>) = {"refused"}
        /\ InOrder(<<"refused">>)
    BY <1>1, OneAwait
  <1>3. /\ todo' \in [Calls -> Seq(Words)] /\ todo'[c] = <<"refused">>
        /\ \A d \in Calls \ {c} : todo'[d] = todo[d]
    BY <1>2 DEF Refuses, Turns, Domains
  <1> QED
    BY <1>2, <1>3 DEF Has

LEMMA GoOrRefuse ==
    ASSUME Domains, NEW c \in Calls, todo[c] # <<>>, InOrder(todo[c]), job' = job,
           Goes(c) \/ Refuses(c)
    PROVE  /\ InOrder(todo[c])' /\ todo' \in [Calls -> Seq(Words)]
           /\ \A d \in Calls \ {c} : todo'[d] = todo[d]
           /\ \A x : Has(c, x)' => x = "refused" \/ (Has(c, x) /\ Rank(Head(todo[c])) < Rank(x))
           /\ (\A x : Has(c, x)' => x = "refused")
              \/ (\A x : Has(c, x) => x = Head(todo[c]) \/ Has(c, x)')
  <1>1. CASE Goes(c)
    <2>1. /\ todo' \in [Calls -> Seq(Words)]
          /\ \A d \in Calls \ {c} : todo'[d] = todo[d]
          /\ InOrder(todo'[c])
          /\ \A x : Has(c, x) <=> x = Head(todo[c]) \/ x \in Ahead(todo'[c])
          /\ \A x : x \in Ahead(todo'[c]) => Rank(Head(todo[c])) < Rank(x)
      BY <1>1, WhatIsLeft
    <2> QED
      BY <2>1 DEF Has
  <1>2. CASE Refuses(c)
    BY <1>2, Refusal
  <1> QED
    BY <1>1, <1>2

\* A step of another call: codes may only be sent.
LEMMA CodesElsewhere ==
    ASSUME Domains, NEW c \in Calls, CodeInv, job' = job, todo'[c] = todo[c],
           answer'[c] = answer[c], read'[c] = read[c], outbox \subseteq outbox'
    PROVE  IF Kind(c)' \in CodeJobs THEN CodeOf(c)'
           ELSE ~Has(c, "verified")' /\ answer'[c] # "verified"
  <1>1. /\ Kind(c)' = Kind(c) /\ \A x : Has(c, x)' <=> Has(c, x)
        /\ InOrder(todo[c])' = InOrder(todo[c])
    BY DEF Kind, Has
  <1>2. CASE Kind(c) \in CodeJobs
    <2>1. CodeOf(c)
      BY <1>2 DEF CodeInv
    <2>2. CodeOf(c)'
      BY <1>1, <2>1 DEF CodeOf
    <2> QED
      BY <1>1, <1>2, <2>2
  <1>3. CASE Kind(c) \notin CodeJobs
    BY <1>1, <1>3 DEF CodeInv
  <1> QED
    BY <1>2, <1>3

\* The steps that go on, or end with a refusal.
LEMMA CodeGoes ==
    ASSUME Domains, CodeInv, NEW c \in Calls, Kind(c) \in CodeJobs, SignUpAssumption,
           \/ Look(c) \/ Sms(c) \/ Keep(c) \/ First(c) \/ VerifyAuthCrumb(c)
           \/ VerifyAuthCode(c) \/ Again(c) \/ Lower(c) \/ Authenticate(c)
    PROVE  CodeInv'
  <1>1. /\ CodeOf(c) /\ CodesTypeOK /\ (info # NoInfo => info.code \in outbox)
        /\ Nobody \notin Calls
    BY DEF CodeInv, SignUpAssumption
  <1>2. /\ todo[c] # <<>> /\ (Goes(c) \/ Refuses(c))
        /\ job' = job /\ answer' = answer
    BY DEF Look, Sms, Keep, First, VerifyAuthCrumb, VerifyAuthCode, Again, Lower,
           Authenticate, At, Reads, codeVars
  <1>3. /\ InOrder(todo[c])'
        /\ \A d \in Calls \ {c} : todo'[d] = todo[d]
        /\ \A x : Has(c, x)' => x = "refused" \/ (Has(c, x) /\ Rank(Head(todo[c])) < Rank(x))
        /\ (\A x : Has(c, x)' => x = "refused")
           \/ (\A x : Has(c, x) => x = Head(todo[c]) \/ Has(c, x)')
    BY <1>1, <1>2, GoOrRefuse DEF CodeOf
  <1>4. Kind(c)' = Kind(c)
    BY <1>2 DEF Kind
  <1>5. Has(c, Head(todo[c])) /\ \A x : Has(c, x) => x = Head(todo[c]) \/ Rank(Head(todo[c])) < Rank(x)
    <2>1. todo[c] \in Seq(Words)
      BY DEF Domains
    <2> QED
      BY <1>1, <1>2, <2>1, AheadOfTail, TailInOrder DEF Has, CodeOf
  <1>6. /\ info \in Infos /\ stale \subseteq Calls /\ outbox \subseteq Calls
        /\ read \in [Calls -> [first : Infos, last : Infos, crumb : BOOLEAN, code : BOOLEAN]]
        /\ read[c] \in [first : Infos, last : Infos, crumb : BOOLEAN, code : BOOLEAN]
    BY <1>1 DEF CodesTypeOK
  <1>7. SUFFICES /\ CodeOf(c)' /\ CodesTypeOK' /\ (info' # NoInfo => info'.code \in outbox')
                 /\ outbox \subseteq outbox' /\ \A d \in Calls \ {c} : read'[d] = read[d]
    <2>1. \A d \in Calls \ {c} : IF Kind(d)' \in CodeJobs THEN CodeOf(d)'
                                 ELSE ~Has(d, "verified")' /\ answer'[d] # "verified"
      BY <1>2, <1>3, <1>7, CodesElsewhere
    <2> QED
      BY <1>4, <1>7, <2>1 DEF CodeInv
  <1>8. CASE Look(c)
    <2>1. Head(todo[c]) = "look" /\ UNCHANGED codeVars
      BY <1>8 DEF Look, At
    <2>2. UNCHANGED <<info, stale, outbox, read>>
      BY <2>1 DEF codeVars
    <2>3. CodeOf(c)'
      BY <1>1, <1>2, <1>3, <1>4, <2>1, <2>2, Ranks DEF CodeOf
    <2> QED
      BY <1>1, <2>2, <2>3 DEF CodesTypeOK
  <1>9. CASE Sms(c)
    <2>1. /\ Head(todo[c]) = "sms" /\ UNCHANGED <<info, stale, read>>
          /\ outbox' \in {outbox, outbox \cup {c}}
          /\ (Goes(c) /\ c \in outbox') \/ Refuses(c)
      BY <1>9 DEF Sms, At
    <2>2. c \in outbox' \/ ~Has(c, "keep")'
      BY <2>1, Refusal
    <2>3. CodeOf(c)'
      BY <1>1, <1>2, <1>3, <1>4, <2>1, <2>2, Ranks DEF CodeOf
    <2> QED
      BY <1>1, <1>6, <2>1, <2>3 DEF CodesTypeOK
  <1>10. CASE Keep(c)
    <2>1. /\ Head(todo[c]) = "keep" /\ UNCHANGED <<stale, outbox, read>>
          /\ info' \in {Fresh(c), info}
      BY <1>10 DEF Keep, At
    <2>2. ~Has(c, "sms")
      BY <1>5, <2>1, Ranks
    <2>3. c \in outbox
      BY <1>1, <1>5, <2>1, <2>2 DEF CodeOf
    <2>4. Fresh(c) \in Infos /\ Fresh(c).code = c
      BY CodeAssumption DEF Fresh, Infos
    <2>5. CodeOf(c)'
      BY <1>1, <1>2, <1>3, <1>4, <2>1, <2>3, Ranks DEF CodeOf
    <2>6. info' \in Infos /\ (info' # NoInfo => info'.code \in outbox')
      BY <1>1, <1>6, <2>1, <2>3, <2>4
    <2> QED
      BY <1>1, <2>1, <2>5, <2>6 DEF CodesTypeOK
  <1>11. CASE First(c)
    <2>1. /\ Head(todo[c]) = "first" /\ UNCHANGED <<info, stale, outbox>>
          /\ read' = [read EXCEPT ![c] = [read[c] EXCEPT !.first = info]]
          /\ info = NoInfo => Refuses(c)
      BY <1>11 DEF First, At, Reads
    <2>2. /\ [read[c] EXCEPT !.first = info] \in
                 [first : Infos, last : Infos, crumb : BOOLEAN, code : BOOLEAN]
          /\ read'[c].first = info
          /\ read'[c].last = read[c].last /\ read'[c].crumb = read[c].crumb /\ read'[c].code = read[c].code
          /\ \A d \in Calls \ {c} : read'[d] = read[d]
      BY <1>6, <2>1
    <2>3. read' \in [Calls -> [first : Infos, last : Infos, crumb : BOOLEAN, code : BOOLEAN]]
      BY <1>6, <2>1, <2>2
    <2>4. ~Has(c, "member")
      BY <1>1, <1>5, <2>1 DEF CodeOf
    <2>5. CodeOf(c)'
      BY <1>1, <1>2, <1>3, <1>4, <2>1, <2>2, <2>4, Ranks DEF CodeOf
    <2> QED
      BY <1>1, <1>6, <2>1, <2>2, <2>3, <2>5 DEF CodesTypeOK
  <1>12. CASE VerifyAuthCrumb(c)
    <2>1. /\ Head(todo[c]) = "crumb" /\ UNCHANGED <<info, stale, outbox>>
          /\ read' = [read EXCEPT ![c] = [read[c] EXCEPT !.crumb = (info.code = job[c].crumb)]]
          /\ info = NoInfo => Refuses(c)
      BY <1>12 DEF VerifyAuthCrumb, At, Reads
    <2>2. /\ [read[c] EXCEPT !.crumb = (info.code = job[c].crumb)] \in
                 [first : Infos, last : Infos, crumb : BOOLEAN, code : BOOLEAN]
          /\ read'[c].crumb = (info.code = job[c].crumb)
          /\ read'[c].first = read[c].first /\ read'[c].last = read[c].last /\ read'[c].code = read[c].code
          /\ \A d \in Calls \ {c} : read'[d] = read[d]
      BY <1>6, <2>1
    <2>3. read' \in [Calls -> [first : Infos, last : Infos, crumb : BOOLEAN, code : BOOLEAN]]
      BY <1>6, <2>1, <2>2
    <2>5. CodeOf(c)'
      BY <1>1, <1>2, <1>3, <1>4, <2>1, <2>2, Ranks DEF CodeOf
    <2> QED
      BY <1>1, <1>6, <2>1, <2>2, <2>3, <2>5 DEF CodesTypeOK
  <1>13. CASE VerifyAuthCode(c)
    <2>1. /\ Head(todo[c]) = "code" /\ UNCHANGED <<info, stale, outbox>>
          /\ read' = [read EXCEPT ![c] = [read[c] EXCEPT !.code = (info.code = job[c].code)]]
          /\ info = NoInfo => Refuses(c)
      BY <1>13 DEF VerifyAuthCode, At, Reads
    <2>2. /\ [read[c] EXCEPT !.code = (info.code = job[c].code)] \in
                 [first : Infos, last : Infos, crumb : BOOLEAN, code : BOOLEAN]
          /\ read'[c].code = (info.code = job[c].code)
          /\ read'[c].first = read[c].first /\ read'[c].last = read[c].last /\ read'[c].crumb = read[c].crumb
          /\ \A d \in Calls \ {c} : read'[d] = read[d]
      BY <1>6, <2>1
    <2>3. read' \in [Calls -> [first : Infos, last : Infos, crumb : BOOLEAN, code : BOOLEAN]]
      BY <1>6, <2>1, <2>2
    <2>4. Kind(c) = "validate" /\ ~Has(c, "member")
      BY <1>1, <1>5, <2>1 DEF CodeOf
    <2>6. read'[c].code => job[c].code \in outbox
      <3>1. job[c].code \in Calls
        BY <2>4, JobFields
      <3>2. NoInfo.code = Nobody
        BY DEF NoInfo
      <3> QED
        BY <1>1, <2>2, <3>1, <3>2
    <2>5. CodeOf(c)'
      BY <1>1, <1>2, <1>3, <1>4, <2>1, <2>2, <2>4, <2>6, Ranks DEF CodeOf
    <2> QED
      BY <1>1, <1>6, <2>1, <2>2, <2>3, <2>5 DEF CodesTypeOK
  <1>14. CASE Again(c)
    <2>1. /\ Head(todo[c]) = "again" /\ UNCHANGED <<info, stale, outbox>>
          /\ read' = [read EXCEPT ![c] = [read[c] EXCEPT !.last = info]]
          /\ info = NoInfo => Refuses(c)
      BY <1>14 DEF Again, At, Reads
    <2>2. /\ [read[c] EXCEPT !.last = info] \in
                 [first : Infos, last : Infos, crumb : BOOLEAN, code : BOOLEAN]
          /\ read'[c].last = info
          /\ read'[c].first = read[c].first /\ read'[c].crumb = read[c].crumb /\ read'[c].code = read[c].code
          /\ \A d \in Calls \ {c} : read'[d] = read[d]
      BY <1>6, <2>1
    <2>3. read' \in [Calls -> [first : Infos, last : Infos, crumb : BOOLEAN, code : BOOLEAN]]
      BY <1>6, <2>1, <2>2
    <2>4. info = NoInfo => ~Has(c, "lower")' /\ ~Has(c, "authenticate")'
      BY <2>1, Refusal
    <2>5. CodeOf(c)'
      BY <1>1, <1>2, <1>3, <1>4, <2>1, <2>2, <2>4, Ranks DEF CodeOf
    <2> QED
      BY <1>1, <1>6, <2>1, <2>2, <2>3, <2>5 DEF CodesTypeOK
  <1>15. CASE Lower(c)
    <2>1. /\ Head(todo[c]) = "lower" /\ UNCHANGED <<stale, outbox, read>>
      BY <1>15 DEF Lower, At
    <2>2. read[c].last.code \in outbox
      BY <1>1, <1>5, <2>1, Ranks DEF CodeOf
    <2>3. read[c].last \in Infos
      BY <1>6
    <2>4. info' \in Infos /\ info'.code = read[c].last.code
      BY <1>15, <2>3, CodeAssumption DEF Lower, Infos
    <2>5. CodeOf(c)'
      BY <1>1, <1>2, <1>3, <1>4, <2>1, <2>2, Ranks DEF CodeOf
    <2> QED
      BY <1>1, <2>1, <2>2, <2>4, <2>5 DEF CodesTypeOK
  <1>16. CASE Authenticate(c)
    <2>1. /\ Head(todo[c]) = "authenticate" /\ UNCHANGED <<stale, outbox, read>>
      BY <1>16 DEF Authenticate, At
    <2>2. read[c].last.code \in outbox
      BY <1>1, <1>5, <2>1, Ranks DEF CodeOf
    <2>3. read[c].last \in Infos
      BY <1>6
    <2>4. info' \in Infos /\ info'.code = read[c].last.code
      BY <1>16, <2>3, CodeAssumption DEF Authenticate, Infos
    <2>5. CodeOf(c)'
      BY <1>1, <1>2, <1>3, <1>4, <2>1, <2>2, Ranks DEF CodeOf
    <2> QED
      BY <1>1, <2>1, <2>2, <2>4, <2>5 DEF CodesTypeOK
  <1> QED
    BY <1>8, <1>9, <1>10, <1>11, <1>12, <1>13, <1>14, <1>15, <1>16

LEMMA CompareStep ==
    ASSUME Domains, CodeInv, NEW c \in Calls, Kind(c) \in CodeJobs, SignUpAssumption,
           Compare(c) \/ \E registered \in BOOLEAN : Verdict(c, registered)
    PROVE  CodeInv' /\ todo' \in [Calls -> Seq(Words)]
  <1>1. /\ CodeOf(c) /\ CodesTypeOK
        /\ UNCHANGED <<job, answer, info, stale, outbox, read>>
        /\ todo[c] # <<>> /\ Head(todo[c]) \in {"compare", "member"}
    BY DEF CodeInv, Compare, Verdict, codeVars, At
  <1>2. Kind(c)' = Kind(c) /\ Kind(c) = "validate" /\ Has(c, Head(todo[c]))
    <2>1. Has(c, Head(todo[c]))
      BY <1>1, AheadOfTail DEF Domains, Has
    <2> QED
      BY <1>1, <2>1 DEF CodeOf, Kind
  <1>3. /\ "again" \in Words /\ "lower" \in Words /\ "authenticate" \in Words
        /\ "member" \in Words /\ "refused" \in Words /\ "registered" \in Words
        /\ "verified" \in Words
    BY DEF Words, Answers
  <1>4. /\ Rank("again") < Rank("lower") /\ Rank("lower") < Rank("refused")
        /\ Rank("again") < Rank("authenticate") /\ Rank("authenticate") < Rank("member")
    BY Ranks DEF Answers
  <1>5. CASE Compare(c)
    <2> DEFINE wrong == read[c].first.retry > 0 /\ Mismatch(read[c])
               left  == IF wrong THEN <<"again", "lower", "refused">>
                        ELSE <<"again", "authenticate", "member">>
    <2>1. todo' = [todo EXCEPT ![c] = left]
      BY <1>5 DEF Compare, Turns
    <2>2. /\ left \in Seq(Words) /\ InOrder(left)
          /\ wrong => Ahead(left) = {"again", "lower", "refused"}
          /\ ~wrong => Ahead(left) = {"again", "authenticate", "member"}
      BY <1>3, <1>4, ThreeAwaits
    <2>3. ~wrong => read[c].first.retry <= 0 \/ read[c].code
      <3>1. read[c].first.retry \in 0..MaxRetry
        BY <1>1 DEF CodesTypeOK, Infos
      <3> QED
        BY <3>1, CodeAssumption DEF Mismatch
    <2> HIDE DEF wrong, left
    <2>4. /\ todo' \in [Calls -> Seq(Words)] /\ todo'[c] = left
          /\ \A d \in Calls \ {c} : todo'[d] = todo[d]
      BY <2>1, <2>2 DEF Domains
    <2>5. \A x : Has(c, x)' <=> x \in Ahead(left)
      BY <2>4 DEF Has
    <2>6. CodeOf(c)'
      <3>1. InOrder(todo[c])'
        BY <2>2, <2>4
      <3>2. Has(c, "again")' /\ ~Has(c, "keep")' /\ ~Has(c, "first")' /\ ~Has(c, "code")'
            /\ ~Has(c, "verified")'
        BY <2>2, <2>5
      <3>3. Has(c, "member")' => read[c].first.retry <= 0 \/ read[c].code
        BY <2>2, <2>3, <2>5
      <3> QED
        BY <1>1, <1>2, <3>1, <3>2, <3>3 DEF CodeOf
    <2>7. \A d \in Calls \ {c} : IF Kind(d)' \in CodeJobs THEN CodeOf(d)'
                                 ELSE ~Has(d, "verified")' /\ answer'[d] # "verified"
      BY <1>1, <2>4, CodesElsewhere
    <2> QED
      BY <1>1, <1>2, <2>4, <2>6, <2>7 DEF CodeInv, CodesTypeOK
  <1>6. CASE \E registered \in BOOLEAN : Verdict(c, registered)
    <2>1. PICK registered \in BOOLEAN : Verdict(c, registered)
      BY <1>6
    <2>2. Head(todo[c]) = "member"
      BY <2>1 DEF Verdict, At
    <2>3. PICK x \in {"registered", "refused", "verified"} :
             /\ todo' = [todo EXCEPT ![c] = <<x>>]
             /\ x = "verified" => ~(read[c].first.retry <= 0)
      <3>1. CASE registered
        <4>1. todo' = [todo EXCEPT ![c] = <<"registered">>]
          BY <2>1, <3>1 DEF Verdict, Turns
        <4> QED
          BY <4>1
      <3>2. CASE ~registered /\ (read[c].first.authenticated \/ read[c].first.code \in stale
                                 \/ read[c].first.retry <= 0)
        <4>1. todo' = [todo EXCEPT ![c] = <<"refused">>]
          BY <2>1, <3>2 DEF Verdict, Turns
        <4> QED
          BY <4>1
      <3>3. CASE ~registered /\ ~(read[c].first.authenticated \/ read[c].first.code \in stale
                                  \/ read[c].first.retry <= 0)
        <4>1. todo' = [todo EXCEPT ![c] = <<"verified">>]
          BY <2>1, <3>3 DEF Verdict, Turns
        <4> QED
          BY <3>3, <4>1
      <3> QED
        BY <3>1, <3>2, <3>3
    <2>4. <<x>> \in Seq(Words) /\ Ahead(<<x>>) = {x} /\ InOrder(<<x>>)
      BY <1>3, OneAwait
    <2>5. /\ todo' \in [Calls -> Seq(Words)] /\ todo'[c] = <<x>>
          /\ \A d \in Calls \ {c} : todo'[d] = todo[d]
      BY <2>3, <2>4 DEF Domains
    <2>6. \A y : Has(c, y)' <=> y = x
      BY <2>4, <2>5 DEF Has
    <2>7. x = "verified" => job[c].code \in outbox
      BY <1>1, <1>2, <2>2, <2>3 DEF CodeOf
    <2>8. CodeOf(c)'
      BY <1>1, <1>2, <2>4, <2>5, <2>6, <2>7 DEF CodeOf
    <2>9. \A d \in Calls \ {c} : IF Kind(d)' \in CodeJobs THEN CodeOf(d)'
                                 ELSE ~Has(d, "verified")' /\ answer'[d] # "verified"
      BY <1>1, <2>5, CodesElsewhere
    <2> QED
      BY <1>1, <1>2, <2>5, <2>8, <2>9 DEF CodeInv, CodesTypeOK
  <1> QED
    BY <1>5, <1>6

LEMMA RunsOutStep ==
    ASSUME Domains, CodeInv, SignUpAssumption, RunsOut
    PROVE  CodeInv'
  <1>1. /\ UNCHANGED <<job, todo, answer, outbox, read>>
        /\ info' \in {info, NoInfo} /\ stale' \subseteq stale \cup {info.code}
        /\ info.code \in outbox
    BY DEF RunsOut, CodeInv
  <1>2. \A d \in Calls : IF Kind(d)' \in CodeJobs THEN CodeOf(d)'
                         ELSE ~Has(d, "verified")' /\ answer'[d] # "verified"
    BY <1>1, CodesElsewhere
  <1>3. NoInfo \in Infos
    BY CodeAssumption DEF NoInfo, Infos
  <1> QED
    BY <1>1, <1>2, <1>3 DEF CodeInv, CodesTypeOK

\* Steps of other kinds of calls, and answers.
LEMMA CodesUntouched ==
    ASSUME Domains, CodeInv, job' = job, UNCHANGED codeVars,
           \A d \in Calls : answer'[d] = answer[d] \/ answer'[d] # "verified",
           \A d \in Calls : IF Kind(d) \in CodeJobs THEN todo'[d] = todo[d] /\ answer'[d] = answer[d]
                            ELSE Has(d, "verified")' => Has(d, "verified")
    PROVE  CodeInv'
  <1>1. UNCHANGED <<info, stale, outbox, read>>
    BY DEF codeVars
  <1>2. ASSUME NEW d \in Calls
        PROVE  IF Kind(d)' \in CodeJobs THEN CodeOf(d)'
               ELSE ~Has(d, "verified")' /\ answer'[d] # "verified"
    <2>1. Kind(d)' = Kind(d)
      BY DEF Kind
    <2>2. CASE Kind(d) \in CodeJobs
      BY <1>1, <2>2, CodesElsewhere
    <2>3. CASE Kind(d) \notin CodeJobs
      BY <2>1, <2>3 DEF CodeInv
    <2> QED
      BY <2>2, <2>3
  <1> QED
    BY <1>1, <1>2 DEF CodeInv, CodesTypeOK

LEMMA CodesAnswered ==
    ASSUME Domains, CodeInv, NEW c \in Calls, Reply(c), UNCHANGED codeVars
    PROVE  CodeInv'
  <1>1. /\ todo[c] # <<>> /\ Head(todo[c]) \in Answers /\ Goes(c)
        /\ answer' = [answer EXCEPT ![c] = Head(todo[c])]
        /\ UNCHANGED <<job, info, stale, outbox, read>>
    BY DEF Reply, codeVars
  <1>2. /\ answer'[c] = Head(todo[c]) /\ \A d \in Calls \ {c} : answer'[d] = answer[d]
        /\ \A d \in Calls \ {c} : todo'[d] = todo[d]
    BY <1>1 DEF Domains, Goes
  <1>3. todo'[c] = Tail(todo[c]) /\ todo[c] \in Seq(Words)
    BY <1>1 DEF Domains, Goes
  <1>4. Ahead(todo[c]) = {Head(todo[c])} \cup Ahead(todo'[c])
    BY <1>1, <1>3, AheadOfTail
  <1>5. Kind(c)' = Kind(c) /\ \A x : Has(c, x) <=> x = Head(todo[c]) \/ Has(c, x)'
    BY <1>1, <1>4 DEF Has, Kind
  <1>6. \A d \in Calls \ {c} : IF Kind(d)' \in CodeJobs THEN CodeOf(d)'
                               ELSE ~Has(d, "verified")' /\ answer'[d] # "verified"
    BY <1>1, <1>2, CodesElsewhere
  <1>7. CASE Kind(c) \in CodeJobs
    <2>1. CodeOf(c)
      BY <1>7 DEF CodeInv
    <2>2. /\ InOrder(todo[c])' /\ \A x : Has(c, x)' => Rank(Head(todo[c])) < Rank(x)
      BY <1>1, <2>1, WhatIsLeft DEF CodeOf, Has
    <2>3. \A x : ~Has(c, x)'
      BY <1>1, <2>2, Ranks, RankIsNumber
    <2>4. CodeOf(c)'
      BY <1>1, <1>2, <1>5, <2>1, <2>2, <2>3 DEF CodeOf
    <2> QED
      BY <1>1, <1>5, <1>6, <1>7, <2>4 DEF CodeInv, CodesTypeOK
  <1>8. CASE Kind(c) \notin CodeJobs
    <2>1. ~Has(c, "verified")' /\ answer'[c] # "verified"
      BY <1>2, <1>5, <1>8 DEF CodeInv
    <2> QED
      BY <1>1, <1>5, <1>6, <1>8, <2>1 DEF CodeInv, CodesTypeOK
  <1> QED
    BY <1>7, <1>8

-----------------------------------------------------------------------------
(* Notifications.                                                          *)

\* An addition counts once, first of all, and writes the number in no other way.
NoteOf(c) ==
    IF Kind(c) = "add"
    THEN /\ ~Has(c, "get") /\ ~Has(c, "put") /\ ~Has(c, "check") /\ ~Has(c, "set")
         /\ Has(c, "count") => c \notin counted
         /\ todo[c] # <<>> => "count" \notin Ahead(Tail(todo[c]))
    ELSE ~Has(c, "count")

\* Whoever writes the number late has read no more than was counted by then.
NoteInv ==
    /\ NotifyTypeOK
    /\ BadgeCounts
    /\ badge = NoDoc => counted = {}
    /\ \A c \in Calls : held[c] <= Cardinality(counted)
    /\ \A c \in Calls : Kind(c) \in NotifyJobs => NoteOf(c)

LEMMA Finite ==
    ASSUME SignUpAssumption, counted \subseteq Calls
    PROVE  /\ IsFiniteSet(counted) /\ Cardinality(counted) \in Nat
           /\ Cardinality(Calls) \in Nat /\ Cardinality(counted) <= Cardinality(Calls)
  BY FS_Subset, FS_CardinalityType DEF SignUpAssumption

LEMMA AheadOfConcat ==
    ASSUME NEW s \in Seq(Words), NEW t \in Seq(Words)
    PROVE  s \o t \in Seq(Words) /\ Ahead(s \o t) = Ahead(s) \cup Ahead(t)
  <1>1. /\ s \o t \in Seq(Words) /\ Len(s \o t) = Len(s) + Len(t)
        /\ Len(s) \in Nat /\ Len(t) \in Nat
        /\ \A i \in 1..(Len(s) + Len(t)) :
               (s \o t)[i] = IF i <= Len(s) THEN s[i] ELSE t[i - Len(s)]
    BY ConcatProperties
  <1> HIDE DEF Words
  <1>2. ASSUME NEW x \in Ahead(s \o t) PROVE x \in Ahead(s) \cup Ahead(t)
    <2>1. PICK i \in 1..(Len(s) + Len(t)) : x = (s \o t)[i]
      BY <1>1, <1>2 DEF Ahead
    <2>2. CASE i <= Len(s)
      <3>1. i \in 1..Len(s) /\ x = s[i]
        BY <1>1, <2>1, <2>2
      <3> QED
        BY <3>1 DEF Ahead
    <2>3. CASE ~(i <= Len(s))
      <3>1. i - Len(s) \in 1..Len(t) /\ x = t[i - Len(s)]
        BY <1>1, <2>1, <2>3
      <3> QED
        BY <3>1 DEF Ahead
    <2> QED
      BY <2>2, <2>3
  <1>3. ASSUME NEW x \in Ahead(s) PROVE x \in Ahead(s \o t)
    <2>1. PICK i \in 1..Len(s) : x = s[i]
      BY <1>3 DEF Ahead
    <2>2. i \in 1..(Len(s) + Len(t)) /\ x = (s \o t)[i]
      BY <1>1, <2>1
    <2> QED
      BY <1>1, <2>2 DEF Ahead
  <1>4. ASSUME NEW x \in Ahead(t) PROVE x \in Ahead(s \o t)
    <2>1. PICK i \in 1..Len(t) : x = t[i]
      BY <1>4 DEF Ahead
    <2>2. /\ Len(s) + i \in 1..(Len(s) + Len(t)) /\ ~(Len(s) + i <= Len(s))
          /\ (Len(s) + i) - Len(s) = i
      BY <1>1, <2>1
    <2>3. x = (s \o t)[Len(s) + i]
      BY <1>1, <2>1, <2>2
    <2> QED
      BY <1>1, <2>2, <2>3 DEF Ahead
  <1> QED
    BY <1>1, <1>2, <1>3, <1>4

\* A call that goes on has fewer awaits, and one that counts has counted.
LEMMA NoteGoes ==
    ASSUME Domains, NEW c \in Calls, Kind(c) \in NotifyJobs, NoteOf(c), todo[c] # <<>>,
           job' = job, Goes(c) \/ Refuses(c),
           counted' = counted \/ (counted' = counted \cup {c} /\ Head(todo[c]) = "count")
    PROVE  /\ todo' \in [Calls -> Seq(Words)] /\ \A d \in Calls \ {c} : todo'[d] = todo[d]
           /\ NoteOf(c)' /\ Has(c, Head(todo[c]))
  <1>1. /\ todo[c] \in Seq(Words) /\ Tail(todo[c]) \in Seq(Words)
        /\ Ahead(todo[c]) = {Head(todo[c])} \cup Ahead(Tail(todo[c]))
    BY AheadOfTail DEF Domains
  <1>2. Kind(c)' = Kind(c)
    BY DEF Kind
  <1>3. CASE Goes(c)
    <2>1. /\ todo' \in [Calls -> Seq(Words)] /\ todo'[c] = Tail(todo[c])
          /\ \A d \in Calls \ {c} : todo'[d] = todo[d]
      BY <1>1, <1>3 DEF Domains, Goes
    <2>2. \A x : Has(c, x) <=> x = Head(todo[c]) \/ Has(c, x)'
      BY <1>1, <2>1 DEF Has
    <2>3. todo'[c] # <<>> => Ahead(todo'[c]) = {Head(todo'[c])} \cup Ahead(Tail(todo'[c]))
      BY <2>1, AheadOfTail
    <2>4. Kind(c) = "add" => ~Has(c, "count")'
      BY <2>1 DEF NoteOf, Has
    <2>5. Kind(c) = "add" /\ todo'[c] # <<>> => "count" \notin Ahead(Tail(todo'[c]))
      BY <2>3, <2>4 DEF Has
    <2>6. NoteOf(c)'
      BY <1>2, <2>2, <2>4, <2>5 DEF NoteOf
    <2> QED
      BY <2>1, <2>2, <2>6
  <1>4. CASE Refuses(c)
    <2>1. /\ todo' \in [Calls -> Seq(Words)]
          /\ \A d \in Calls \ {c} : todo'[d] = todo[d]
          /\ \A x : Has(c, x)' <=> x = "refused"
      BY <1>4, Refusal
    <2>2. todo'[c] # <<>> => Ahead(todo'[c]) = {Head(todo'[c])} \cup Ahead(Tail(todo'[c]))
      BY <2>1, AheadOfTail
    <2>3. todo'[c] # <<>> => "count" \notin Ahead(Tail(todo'[c]))
      BY <2>1, <2>2 DEF Has
    <2>4. NoteOf(c)'
      BY <1>2, <2>1, <2>3 DEF NoteOf
    <2> QED
      BY <1>1, <2>1, <2>4 DEF Has
  <1> QED
    BY <1>3, <1>4

LEMMA NotesElsewhere ==
    ASSUME Domains, NEW c \in Calls, NEW d \in Calls \ {c}, NoteOf(d), job' = job,
           todo'[d] = todo[d], counted' \subseteq counted \cup {c}
    PROVE  NoteOf(d)'
  <1>1. Kind(d)' = Kind(d) /\ \A x : Has(d, x)' <=> Has(d, x)
    BY DEF Kind, Has
  <1> QED
    BY <1>1 DEF NoteOf

\* Everything but the number and what is held of it.
LEMMA NotePlain ==
    ASSUME Domains, NoteInv, NEW c \in Calls, Kind(c) \in NotifyJobs, SignUpAssumption,
           Store(c) \/ Chat(c) \/ Push(c) \/ MarkReaded(c) \/ NotifyFails(c)
    PROVE  NoteInv' /\ todo' \in [Calls -> Seq(Words)]
  <1>1. /\ todo[c] # <<>> /\ (Goes(c) \/ Refuses(c))
        /\ UNCHANGED <<job, answer, badge, counted, held, overwritten>>
    BY DEF Store, Chat, Push, MarkReaded, NotifyFails, At, Working, Refuses, notifyVars
  <1>2. NoteOf(c)
    BY DEF NoteInv
  <1>3. /\ todo' \in [Calls -> Seq(Words)] /\ \A d \in Calls \ {c} : todo'[d] = todo[d]
        /\ NoteOf(c)'
    BY <1>1, <1>2, NoteGoes
  <1>4. \A d \in Calls \ {c} : Kind(d) \in NotifyJobs => NoteOf(d)'
    BY <1>1, <1>3, NotesElsewhere DEF NoteInv
  <1>5. \A d \in Calls : Kind(d)' = Kind(d)
    BY <1>1 DEF Kind
  <1>6. datas' \in [Calls -> {"none", "unread", "read"}]
    <2>1. datas \in [Calls -> {"none", "unread", "read"}]
      BY DEF NoteInv, NotifyTypeOK
    <2>2. \/ datas' = datas \/ datas' = [datas EXCEPT ![c] = "unread"]
          \/ \E x : datas' = [datas EXCEPT ![x] = "read"]
      BY DEF Store, Chat, Push, MarkReaded, NotifyFails, notifyVars
    <2> QED
      BY <2>1, <2>2
  <1>7. pushed' \in [Calls -> {"none", "order", "demand", "system", "transaction", "null"}]
    <2>1. pushed \in [Calls -> {"none", "order", "demand", "system", "transaction", "null"}]
      BY DEF NoteInv, NotifyTypeOK
    <2>2. \/ pushed' = pushed \/ pushed' = [pushed EXCEPT ![c] = FcmType(job[c].mark)]
      BY DEF Store, Chat, Push, MarkReaded, NotifyFails, notifyVars
    <2>3. FcmType(job[c].mark) \in {"order", "demand", "system", "transaction", "null"}
      BY DEF FcmType, SetType
    <2> QED
      BY <2>1, <2>2, <2>3
  <1>8. NotifyTypeOK'
    BY <1>1, <1>6, <1>7 DEF NoteInv, NotifyTypeOK
  <1> QED
    BY <1>1, <1>3, <1>4, <1>5, <1>8 DEF NoteInv, BadgeCounts

LEMMA NumberStep ==
    ASSUME Domains, NoteInv, NEW c \in Calls, Kind(c) \in NotifyJobs, SignUpAssumption,
           Count(c) \/ Set(c) \/ Get(c) \/ Put(c)
    PROVE  NoteInv' /\ todo' \in [Calls -> Seq(Words)]
  <1>1. /\ todo[c] # <<>> /\ Goes(c)
        /\ UNCHANGED <<job, answer, datas, pushed>>
        /\ Count(c) => Head(todo[c]) = "count"
        /\ Get(c) \/ Put(c) => Head(todo[c]) \in {"get", "put"}
    BY DEF Count, Set, Get, Put, At
  <1>2. /\ NoteOf(c) /\ NotifyTypeOK /\ BadgeCounts /\ (badge = NoDoc => counted = {})
        /\ \A d \in Calls : held[d] <= Cardinality(counted)
    BY DEF NoteInv
  <1>3. /\ IsFiniteSet(counted) /\ Cardinality(counted) \in Nat
        /\ Cardinality(Calls) \in Nat /\ Cardinality(counted) <= Cardinality(Calls)
        /\ Cardinality({}) = 0
    BY <1>2, Finite, FS_EmptySet DEF NotifyTypeOK
  <1>4. Has(c, Head(todo[c]))
    BY <1>1, AheadOfTail DEF Domains, Has
  <1>5. Get(c) \/ Put(c) => Kind(c) # "add"
    BY <1>1, <1>2, <1>4 DEF NoteOf
  <1>6. Count(c) => c \notin counted /\ Kind(c) = "add"
    BY <1>1, <1>2, <1>4 DEF NoteOf
  <1>7. job[c].kind = Kind(c)
    BY DEF Kind
  <1>8. /\ badge \in Int /\ held \in [Calls -> Nat] /\ (badge # NoDoc => badge \in Nat)
        /\ counted \subseteq Calls
    BY <1>2, <1>3 DEF NotifyTypeOK, NoDoc
  <1>9. counted' = counted \/ (counted' = counted \cup {c} /\ Head(todo[c]) = "count")
    BY <1>1, <1>5, <1>7 DEF Count, Set, Get, Put
  <1>10. /\ todo' \in [Calls -> Seq(Words)] /\ \A d \in Calls \ {c} : todo'[d] = todo[d]
         /\ NoteOf(c)'
    BY <1>1, <1>2, <1>9, NoteGoes
  <1>11. \A d \in Calls \ {c} : Kind(d) \in NotifyJobs => NoteOf(d)'
    BY <1>1, <1>9, <1>10, NotesElsewhere DEF NoteInv
  <1>12. \A d \in Calls : Kind(d)' = Kind(d)
    BY <1>1 DEF Kind
  <1>13. SUFFICES /\ counted' \subseteq Calls /\ held' \in [Calls -> Nat]
                  /\ Cardinality(counted') \in Nat /\ Cardinality(counted') <= Cardinality(Calls)
                  /\ badge' = NoDoc \/ (badge' \in Nat /\ badge' <= Cardinality(counted'))
                  /\ ~overwritten' /\ badge' # NoDoc => badge' = Cardinality(counted')
                  /\ badge' = NoDoc => counted' = {}
                  /\ \A d \in Calls : held'[d] <= Cardinality(counted')
    <2>1. NotifyTypeOK'
      <3>1. badge' \in {NoDoc} \cup 0..Cardinality(Calls) * 2
        BY <1>3, <1>13 DEF NoDoc
      <3> QED
        BY <1>1, <1>2, <1>13, <3>1 DEF NotifyTypeOK
    <2>2. BadgeCounts'
      BY <1>13 DEF BadgeCounts
    <2> QED
      BY <1>10, <1>11, <1>12, <1>13, <2>1, <2>2 DEF NoteInv
  <1>14. CASE Count(c)
    <2>1. /\ badge # NoDoc /\ badge' = badge + 1 /\ counted' = counted \cup {c}
          /\ UNCHANGED <<held, overwritten>>
      BY <1>14 DEF Count
    <2>2. Cardinality(counted') = Cardinality(counted) + 1
      BY <1>3, <1>6, <1>14, <2>1, FS_AddElement
    <2>3. Cardinality(counted') <= Cardinality(Calls) /\ counted' \subseteq Calls
      BY <1>8, <2>1, FS_Subset DEF SignUpAssumption
    <2>4. badge \in Nat /\ badge <= Cardinality(counted)
          /\ (~overwritten => badge = Cardinality(counted))
      BY <1>2, <1>8, <2>1 DEF BadgeCounts
    <2>5. badge' # NoDoc
      BY <2>1, <2>4 DEF NoDoc
    <2>6. held' = held /\ \A d \in Calls : held[d] \in Nat /\ held[d] <= Cardinality(counted)
      BY <1>2, <1>8, <2>1
    <2>7. \A d \in Calls : held'[d] <= Cardinality(counted')
      BY <1>3, <2>2, <2>6
    <2>8. badge' \in Nat /\ badge' <= Cardinality(counted')
          /\ (~overwritten' => badge' = Cardinality(counted'))
      BY <1>3, <2>1, <2>2, <2>4
    <2>9. Cardinality(counted') \in Nat /\ held' \in [Calls -> Nat]
      BY <1>3, <1>8, <2>1, <2>2
    <2> QED
      BY <2>3, <2>5, <2>7, <2>8, <2>9
  <1>15. CASE Set(c)
    <2>1. /\ badge' = 0 /\ overwritten' = (overwritten \/ badge # NoDoc)
          /\ UNCHANGED <<counted, held>>
      BY <1>15 DEF Set
    <2>2. badge' # NoDoc
      BY <2>1 DEF NoDoc
    <2>3. ~overwritten' => badge' = Cardinality(counted')
      BY <1>2, <1>3, <2>1
    <2> QED
      BY <1>2, <1>3, <1>8, <2>1, <2>2, <2>3
  <1>16. CASE Get(c)
    <2>1. /\ UNCHANGED <<badge, counted, overwritten>>
          /\ held' = [held EXCEPT ![c] = Changed(Kind(c), IF badge = NoDoc THEN 0 ELSE badge)]
      BY <1>7, <1>16 DEF Get
    <2>2. Kind(c) # "add"
      BY <1>5, <1>16
    <2> DEFINE n == IF badge = NoDoc THEN 0 ELSE badge
    <2>3. n \in Nat /\ n <= Cardinality(counted)
      BY <1>2, <1>3, <1>8 DEF BadgeCounts
    <2>4. Changed(Kind(c), n) \in {n, Reduced(n)}
      BY <2>2 DEF Changed
    <2>5. Reduced(n) \in Nat /\ Reduced(n) <= Cardinality(counted)
      BY <1>3, <2>3 DEF Reduced
    <2>6. held' \in [Calls -> Nat] /\ \A d \in Calls : held'[d] <= Cardinality(counted)
      BY <1>2, <1>8, <2>1, <2>3, <2>4, <2>5
    <2>7. badge = NoDoc \/ (badge \in Nat /\ badge <= Cardinality(counted))
      BY <1>2, <1>8 DEF BadgeCounts
    <2> QED
      BY <1>2, <1>3, <1>8, <2>1, <2>6, <2>7 DEF BadgeCounts
  <1>17. CASE Put(c)
    <2>1. badge' = held[c] /\ badge # NoDoc /\ counted' = counted /\ held' = held
          /\ overwritten' = TRUE
      <3>1. Kind(c) # "add"
        BY <1>5, <1>17
      <3>2. overwritten' = (overwritten \/ Kind(c) # "add")
        BY <1>7, <1>17 DEF Put
      <3> QED
        BY <1>7, <1>17, <3>1, <3>2 DEF Put
    <2>2. badge' \in Nat /\ badge' <= Cardinality(counted)
      BY <1>2, <1>8, <2>1
    <2> QED
      BY <1>2, <1>3, <1>8, <2>1, <2>2 DEF NoDoc
  <1> QED
    BY <1>14, <1>15, <1>16, <1>17

LEMMA CheckStep ==
    ASSUME Domains, NoteInv, NEW c \in Calls, Kind(c) \in NotifyJobs, SignUpAssumption,
           Check(c)
    PROVE  NoteInv' /\ todo' \in [Calls -> Seq(Words)]
  <1> DEFINE new == IF badge = NoDoc THEN <<"set">> ELSE <<"get", "put">>
  <1>1. /\ todo[c] # <<>> /\ Head(todo[c]) = "check"
        /\ todo' = [todo EXCEPT ![c] = new \o Tail(todo[c])]
        /\ UNCHANGED <<job, answer, badge, datas, counted, pushed, held, overwritten>>
    BY DEF Check, At, Gives, notifyVars
  <1>2. /\ todo[c] \in Seq(Words) /\ Tail(todo[c]) \in Seq(Words)
        /\ Ahead(todo[c]) = {"check"} \cup Ahead(Tail(todo[c]))
    BY <1>1, AheadOfTail DEF Domains
  <1>3. new \in Seq(Words) /\ "count" \notin Ahead(new)
    <2>1. "set" \in Words /\ "get" \in Words /\ "put" \in Words
      BY DEF Words
    <2> QED
      BY <2>1, OneAwait, TwoAwaits
  <1> HIDE DEF new
  <1>4. /\ new \o Tail(todo[c]) \in Seq(Words)
        /\ Ahead(new \o Tail(todo[c])) = Ahead(new) \cup Ahead(Tail(todo[c]))
    BY <1>2, <1>3, AheadOfConcat
  <1>5. /\ todo' \in [Calls -> Seq(Words)] /\ \A d \in Calls \ {c} : todo'[d] = todo[d]
        /\ todo'[c] = new \o Tail(todo[c])
    BY <1>1, <1>4 DEF Domains
  <1>6. \A d \in Calls : Kind(d)' = Kind(d)
    BY <1>1 DEF Kind
  <1>7. Kind(c) # "add" /\ ~Has(c, "count")
    BY <1>2 DEF NoteInv, NoteOf, Has
  <1>8. NoteOf(c)'
    BY <1>2, <1>3, <1>4, <1>5, <1>6, <1>7 DEF NoteOf, Has
  <1>9. \A d \in Calls \ {c} : Kind(d) \in NotifyJobs => NoteOf(d)'
    BY <1>1, <1>5, NotesElsewhere DEF NoteInv
  <1> QED
    BY <1>1, <1>5, <1>6, <1>8, <1>9 DEF NoteInv, NotifyTypeOK, BadgeCounts

\* An addition that finds no document has the 0 and its refusal ahead.
LEMMA NothingStep ==
    ASSUME Domains, NoteInv, NEW c \in Calls, Kind(c) \in NotifyJobs, SignUpAssumption,
           CountNothing(c)
    PROVE  /\ NoteInv' /\ todo' \in [Calls -> Seq(Words)]
           /\ ~Has(c, "verified")'
  <1> DEFINE new == <<"zero", "refused">>
  <1>1. /\ todo' = [todo EXCEPT ![c] = new]
        /\ UNCHANGED <<job, answer, badge, datas, counted, pushed, held, overwritten>>
    BY DEF CountNothing, Turns, notifyVars
  <1>2. new \in Seq(Words) /\ Ahead(new) = {"zero", "refused"}
    BY TwoAwaits DEF Words, Answers
  <1>3. /\ new # <<>> /\ Ahead(Tail(new)) \subseteq Ahead(new)
    <2>1. new # <<>>
      OBVIOUS
    <2> HIDE DEF new
    <2>2. Ahead(new) = {Head(new)} \cup Ahead(Tail(new))
      BY <1>2, <2>1, AheadOfTail
    <2> QED
      BY <2>1, <2>2
  <1> HIDE DEF new
  <1>4. /\ todo' \in [Calls -> Seq(Words)] /\ \A d \in Calls \ {c} : todo'[d] = todo[d]
        /\ todo'[c] = new
    BY <1>1, <1>2 DEF Domains
  <1>5. \A d \in Calls : Kind(d)' = Kind(d)
    BY <1>1 DEF Kind
  <1>6. \A x : Has(c, x)' <=> x \in {"zero", "refused"}
    BY <1>2, <1>4 DEF Has
  <1>7. "count" \notin Ahead(Tail(todo'[c]))
    BY <1>2, <1>3, <1>4
  <1>8. NoteOf(c)'
    BY <1>6, <1>7 DEF NoteOf
  <1>9. \A d \in Calls \ {c} : Kind(d) \in NotifyJobs => NoteOf(d)'
    BY <1>1, <1>4, NotesElsewhere DEF NoteInv
  <1>10. ~Has(c, "verified")'
    BY <1>6
  <1>11. NoteInv'
    BY <1>1, <1>5, <1>8, <1>9 DEF NoteInv, NotifyTypeOK, BadgeCounts
  <1> QED
    BY <1>4, <1>10, <1>11

\* Steps of other kinds of calls: the default data may start, and all may end.
LEMMA NotesUntouched ==
    ASSUME Domains, NoteInv, job' = job, UNCHANGED notifyVars,
           \A d \in Calls : Kind(d) \in NotifyJobs =>
               todo'[d] = todo[d] \/ (~Has(d, "count")' /\ Kind(d) # "add")
               \/ todo'[d] = <<>>
    PROVE  NoteInv'
  <1>1. UNCHANGED <<badge, datas, counted, pushed, held, overwritten>>
    BY DEF notifyVars
  <1>2. ASSUME NEW d \in Calls, Kind(d)' \in NotifyJobs PROVE NoteOf(d)'
    <2>1. Kind(d)' = Kind(d) /\ NoteOf(d)
      BY <1>2 DEF Kind, NoteInv
    <2>2. CASE todo'[d] = todo[d]
      <3>1. \A x : Has(d, x)' <=> Has(d, x)
        BY <2>2 DEF Has
      <3> QED
        BY <1>1, <2>1, <2>2, <3>1 DEF NoteOf
    <2>3. CASE ~Has(d, "count")' /\ Kind(d) # "add"
      BY <2>1, <2>3 DEF NoteOf
    <2>4. CASE todo'[d] = <<>>
      <3>1. \A x : ~Has(d, x)'
        BY <2>4, NoAwaits DEF Has
      <3> QED
        BY <2>1, <2>4, <3>1 DEF NoteOf
    <2> QED
      BY <1>2, <2>1, <2>2, <2>3, <2>4
  <1> QED
    BY <1>1, <1>2 DEF NoteInv, NotifyTypeOK, BadgeCounts

LEMMA NotesAnswered ==
    ASSUME Domains, NoteInv, NEW c \in Calls, Reply(c), UNCHANGED notifyVars
    PROVE  NoteInv'
  <1>1. /\ todo[c] # <<>> /\ Goes(c) /\ job' = job
        /\ UNCHANGED <<badge, datas, counted, pushed, held, overwritten>>
    BY DEF Reply, notifyVars
  <1>2. \A d \in Calls \ {c} : todo'[d] = todo[d]
    BY <1>1 DEF Goes, Domains
  <1>3. \A d \in Calls : Kind(d)' = Kind(d)
    BY <1>1 DEF Kind
  <1>4. Kind(c) \in NotifyJobs => NoteOf(c)'
    BY <1>1, NoteGoes DEF NoteInv
  <1>5. \A d \in Calls \ {c} : Kind(d) \in NotifyJobs => NoteOf(d)'
    BY <1>1, <1>2, NotesElsewhere DEF NoteInv
  <1> QED
    BY <1>1, <1>3, <1>4, <1>5 DEF NoteInv, NotifyTypeOK, BadgeCounts

-----------------------------------------------------------------------------
(* The three together.                                                     *)

SignUpInv == Domains /\ AccountInv /\ CodeInv /\ NoteInv

\* What a step of an account's call does to the others' awaits: a commit may start
\* the default data.
LEMMA AccountMoves ==
    ASSUME Domains, AccountInv, NEW c \in Calls, SignUpAssumption, AccountStep(c)
    PROVE  /\ todo' \in [Calls -> Seq(Words)] /\ job' = job /\ answer' = answer
           /\ \A d \in Calls \ {c} : \/ todo'[d] = todo[d]
                                     \/ Kind(d) = "default" /\ todo'[d] = <<"check", "ok">>
           /\ Has(c, "verified")' => Has(c, "verified")
  <1>1. /\ job' = job /\ answer' = answer /\ Kind(c) \in AccountJobs
    BY DEF AccountStep, Begin, Asks, CreateUser, ReadUser, Find, CreateOrUpdate, Relink,
           Unlink, Commit, Fails, RollsBack, Kind
  <1>2. todo[c] \in Seq(Words) /\ InOrder(todo[c])
    BY <1>1, Before DEF Domains
  <1>3. <<"check", "ok">> \in Seq(Words)
    BY TwoAwaits DEF Words, Answers
  <1>4. CASE todo[c] # <<>> /\ Goes(c)
    <2>1. /\ todo' \in [Calls -> Seq(Words)]
          /\ \A d \in Calls \ {c} : todo'[d] = todo[d]
          /\ \A x : Has(c, x) <=> x = Head(todo[c]) \/ x \in Ahead(todo'[c])
      BY <1>2, <1>4, WhatIsLeft
    <2> QED
      BY <1>1, <2>1 DEF Has
  <1>5. CASE Commit(c)
    <2>1. todo[c] # <<>> /\ Tail(todo[c]) \in Seq(Words)
          /\ Ahead(todo[c]) = {Head(todo[c])} \cup Ahead(Tail(todo[c]))
      BY <1>2, <1>5, AheadOfTail DEF Commit, At
    <2> DEFINE starts == {d \in Calls : job[d].kind = "default" /\ job[d].after = c
                                        /\ own[c].user}
    <2>2. todo' = [d \in Calls |-> IF d \in starts THEN <<"check", "ok">>
                                   ELSE IF d = c THEN Tail(todo[c]) ELSE todo[d]]
      BY <1>5 DEF Commit
    <2>3. \A d \in starts : Kind(d) = "default"
      BY DEF Kind
    <2>4. c \notin starts
      BY <1>1 DEF Kind, AccountJobs
    <2> HIDE DEF starts
    <2>5. todo' \in [Calls -> Seq(Words)]
      BY <1>3, <2>1, <2>2 DEF Domains
    <2>6. todo'[c] = Tail(todo[c])
      BY <2>2, <2>4
    <2> QED
      BY <1>1, <2>1, <2>2, <2>3, <2>5, <2>6 DEF Has
  <1>6. CASE Fails(c)
    <2>1. /\ "refused" \in Words /\ "masked" \in Words /\ "rollback" \in Words
      BY DEF Words, Answers
    <2>2. OnFailure(c) \in {<<"refused">>, <<"masked">>, <<"rollback", "masked">>,
                            <<"rollback", "refused">>}
      BY DEF OnFailure
    <2>3. OnFailure(c) \in Seq(Words) /\ "verified" \notin Ahead(OnFailure(c))
      <3>1. CASE OnFailure(c) \in {<<"refused">>, <<"masked">>}
        <4>1. PICK x \in {"refused", "masked"} : OnFailure(c) = <<x>>
          BY <3>1
        <4>2. <<x>> \in Seq(Words) /\ Ahead(<<x>>) = {x}
          BY <2>1, OneAwait
        <4> QED
          BY <4>1, <4>2
      <3>2. CASE OnFailure(c) \in {<<"rollback", "masked">>, <<"rollback", "refused">>}
        <4>1. PICK x \in {"refused", "masked"} : OnFailure(c) = <<"rollback", x>>
          BY <3>2
        <4>2. <<"rollback", x>> \in Seq(Words) /\ Ahead(<<"rollback", x>>) = {"rollback", x}
          BY <2>1, TwoAwaits
        <4> QED
          BY <4>1, <4>2
      <3> QED
        BY <2>2, <3>1, <3>2
    <2>4. todo' = [todo EXCEPT ![c] = OnFailure(c)]
      BY <1>6 DEF Fails, Turns
    <2>5. todo' \in [Calls -> Seq(Words)] /\ todo'[c] = OnFailure(c)
          /\ \A d \in Calls \ {c} : todo'[d] = todo[d]
      BY <2>3, <2>4 DEF Domains
    <2> QED
      BY <1>1, <2>3, <2>5 DEF Has
  <1>7. CASE UNCHANGED todo
    BY <1>1, <1>7 DEF Has, Domains
  <1> QED
    BY <1>4, <1>5, <1>6, <1>7
       DEF AccountStep, Begin, Asks, CreateUser, ReadUser, Find, CreateOrUpdate, Relink,
           Unlink, RollsBack, At

LEMMA AccountSteps ==
    ASSUME Domains, AccountInv, NEW c \in Calls, SignUpAssumption, AccountStep(c)
    PROVE  AccountInv'
  <1>1. Kind(c) \in AccountJobs
    BY DEF AccountStep, Kind
  <1>2. CASE Begin(c)
    <2>1. /\ todo[c] # <<>> /\ Head(todo[c]) = "begin" /\ Goes(c)
          /\ UNCHANGED <<job, answer, users, links, lock, seen, own>>
          /\ tx' = [tx EXCEPT ![c] = "open"]
      BY <1>2 DEF Begin, At
    <2> QED
      BY <1>1, <2>1, QuietStep
  <1>3. CASE Asks(c)
    <2>1. /\ todo[c] # <<>> /\ Head(todo[c]) \in Checks /\ Goes(c)
          /\ UNCHANGED <<job, answer, users, links, lock, seen, own>> /\ tx' = tx
      BY <1>3 DEF Asks, At, accountVars
    <2>2. Head(todo[c]) # "begin" /\ Head(todo[c]) # "user"
      BY <2>1 DEF Checks
    <2> QED
      BY <1>1, <2>1, <2>2, QuietStep
  <1>4. CASE ReadUser(c)
    <2>1. /\ todo[c] # <<>> /\ Head(todo[c]) = "user" /\ Goes(c)
          /\ UNCHANGED <<job, answer, users, links, lock, seen, own>> /\ tx' = tx
          /\ users[Phone(c)] # Nobody
      BY <1>4 DEF ReadUser, At, accountVars, Phone
    <2> QED
      BY <1>1, <2>1, QuietStep
  <1> QED
    BY <1>1, <1>2, <1>3, <1>4, FindStep, CreateStep, LinkStep, LinksStep, CommitStep,
       FailStep, RollStep DEF AccountStep

\* Steps of other kinds of calls.
LEMMA AccountsUntouched ==
    ASSUME Domains, AccountInv, SignUpAssumption, job' = job, UNCHANGED accountVars,
           \A d \in Calls : Kind(d) \in AccountJobs => todo'[d] = todo[d] /\ answer'[d] = answer[d]
    PROVE  AccountInv'
  <1>1. UNCHANGED <<users, links, tx, lock, seen, own>>
    BY DEF accountVars
  <1>2. ASSUME NEW d \in Calls
        PROVE  IF Kind(d)' \in AccountJobs THEN AccountOf(d)' ELSE Bystander(d)'
    <2>1. Kind(d)' = Kind(d)
      BY DEF Kind
    <2>2. CASE Kind(d) \in AccountJobs
      <3>1. AccountOf(d) /\ Elsewhere(d)
        BY <1>1, <2>2 DEF AccountInv, Elsewhere
      <3> QED
        BY <2>1, <2>2, <3>1, ElsewhereKeeps DEF SignUpAssumption
    <2>3. CASE Kind(d) \notin AccountJobs
      BY <1>1, <2>1, <2>3 DEF AccountInv, Bystander
    <2> QED
      BY <2>2, <2>3
  <1> QED
    BY <1>1, <1>2 DEF AccountInv, AccountsTypeOK, LinkHasUser

LEMMA CodeSteps ==
    ASSUME Domains, CodeInv, NEW c \in Calls, SignUpAssumption,
           CodeStep(c, users[CodePhone] # Nobody)
    PROVE  /\ CodeInv' /\ todo' \in [Calls -> Seq(Words)] /\ UNCHANGED <<job, answer>>
           /\ Kind(c) \in CodeJobs /\ \A d \in Calls \ {c} : todo'[d] = todo[d]
  <1>1. Kind(c) \in CodeJobs /\ UNCHANGED <<job, answer>>
    BY DEF CodeStep, Look, Sms, Keep, First, VerifyAuthCrumb, VerifyAuthCode, Compare,
           Again, Lower, Authenticate, Verdict, Reads, codeVars, Kind
  <1>2. CASE \/ Look(c) \/ Sms(c) \/ Keep(c) \/ First(c) \/ VerifyAuthCrumb(c)
             \/ VerifyAuthCode(c) \/ Again(c) \/ Lower(c) \/ Authenticate(c)
    <2>1. todo[c] # <<>> /\ (Goes(c) \/ Refuses(c))
      BY <1>2 DEF Look, Sms, Keep, First, VerifyAuthCrumb, VerifyAuthCode, Again, Lower,
                  Authenticate, At
    <2>2. InOrder(todo[c])
      BY <1>1 DEF CodeInv, CodeOf
    <2>3. todo' \in [Calls -> Seq(Words)] /\ \A d \in Calls \ {c} : todo'[d] = todo[d]
      BY <1>1, <2>1, <2>2, GoOrRefuse
    <2>4. CodeInv'
      BY <1>1, <1>2, CodeGoes
    <2> QED
      BY <1>1, <2>3, <2>4
  <1>3. CASE Compare(c) \/ Verdict(c, users[CodePhone] # Nobody)
    <2>1. (users[CodePhone] # Nobody) \in BOOLEAN
      OBVIOUS
    <2>2. Compare(c) \/ \E registered \in BOOLEAN : Verdict(c, registered)
      BY <1>3, <2>1
    <2>3. CodeInv' /\ todo' \in [Calls -> Seq(Words)]
      BY <1>1, <2>2, CompareStep
    <2>4. \A d \in Calls \ {c} : todo'[d] = todo[d]
      BY <1>3 DEF Compare, Verdict, Turns, Domains
    <2> QED
      BY <1>1, <2>3, <2>4
  <1> QED
    BY <1>2, <1>3 DEF CodeStep

LEMMA NoteSteps ==
    ASSUME Domains, NoteInv, NEW c \in Calls, SignUpAssumption, NotifyStep(c)
    PROVE  /\ NoteInv' /\ todo' \in [Calls -> Seq(Words)] /\ UNCHANGED <<job, answer>>
           /\ Kind(c) \in NotifyJobs /\ \A d \in Calls \ {c} : todo'[d] = todo[d]
           /\ Has(c, "verified")' => Has(c, "verified")
  <1>1. Kind(c) \in NotifyJobs /\ UNCHANGED <<job, answer>> /\ todo[c] # <<>>
    BY DEF NotifyStep, Count, CountNothing, Store, Chat, Push, MarkReaded, Check, Set, Get,
           Put, NotifyFails, notifyVars, Kind, At, Working
  <1>2. NoteInv' /\ todo' \in [Calls -> Seq(Words)]
    BY <1>1, NotePlain, NumberStep, NothingStep, CheckStep DEF NotifyStep
  <1>3. \A d \in Calls \ {c} : todo'[d] = todo[d]
    BY DEF NotifyStep, Count, CountNothing, Store, Chat, Push, MarkReaded, Check, Set, Get,
           Put, NotifyFails, Goes, Turns, Gives, Domains
  <1>4. /\ todo[c] \in Seq(Words) /\ Tail(todo[c]) \in Seq(Words)
        /\ Ahead(todo[c]) = {Head(todo[c])} \cup Ahead(Tail(todo[c]))
    BY <1>1, AheadOfTail DEF Domains
  <1>5. Has(c, "verified")' => Has(c, "verified")
    <2>1. CASE Goes(c)
      <3>1. todo'[c] = Tail(todo[c])
        BY <2>1 DEF Goes, Domains
      <3> QED
        BY <1>4, <3>1 DEF Has
    <2>2. CASE Refuses(c)
      BY <2>2, Refusal
    <2>3. CASE Check(c)
      <3> DEFINE new == IF badge = NoDoc THEN <<"set">> ELSE <<"get", "put">>
      <3>1. todo'[c] = new \o Tail(todo[c])
        BY <2>3 DEF Check, Gives, Domains
      <3>2. new \in Seq(Words) /\ "verified" \notin Ahead(new)
        <4>1. "set" \in Words /\ "get" \in Words /\ "put" \in Words
          BY DEF Words
        <4> QED
          BY <4>1, OneAwait, TwoAwaits
      <3> HIDE DEF new
      <3>3. Ahead(todo'[c]) = Ahead(new) \cup Ahead(Tail(todo[c]))
        BY <1>4, <3>1, <3>2, AheadOfConcat
      <3> QED
        BY <1>4, <3>2, <3>3 DEF Has
    <2>4. CASE CountNothing(c)
      BY <1>1, <2>4, NothingStep
    <2> QED
      BY <2>1, <2>2, <2>3, <2>4 DEF NotifyStep, Count, Store, Chat, Push, MarkReaded, Set, Get,
                                    Put, NotifyFails, Refuses
  <1> QED
    BY <1>1, <1>2, <1>3, <1>5

LEMMA EndsStep ==
    ASSUME SignUpInv, SignUpAssumption, Ends
    PROVE  SignUpInv'
  <1>1. /\ todo' = [c \in Calls |-> <<>>]
        /\ UNCHANGED <<job, answer, users, links, seen>>
        /\ UNCHANGED codeVars /\ UNCHANGED notifyVars
        /\ tx' = [c \in Calls |-> IF tx[c] \in {"open", "rolling"} THEN "gone" ELSE tx[c]]
        /\ lock' = [r \in Rows |-> Nobody]
        /\ own' = [c \in Calls |-> Unwritten]
    BY DEF Ends, AccountsEnd
  <1>2. Domains'
    BY <1>1, NoAwaits DEF SignUpInv, Domains
  <1>3. \A c \in Calls : \A x : ~Has(c, x)'
    BY <1>1, NoAwaits DEF Has
  <1>4. CodeInv'
    <2>1. UNCHANGED <<info, stale, outbox, read>>
      BY <1>1 DEF codeVars
    <2>2. ASSUME NEW c \in Calls
          PROVE  IF Kind(c)' \in CodeJobs THEN CodeOf(c)'
                 ELSE ~Has(c, "verified")' /\ answer'[c] # "verified"
      <3>1. Kind(c)' = Kind(c) /\ answer'[c] = answer[c] /\ InOrder(todo[c])'
        BY <1>1, NoAwaits DEF Kind
      <3>2. CASE Kind(c) \in CodeJobs
        <4>1. CodeOf(c)
          BY <3>2 DEF SignUpInv, CodeInv
        <4>2. CodeOf(c)'
          BY <1>1, <1>3, <2>1, <3>1, <4>1 DEF CodeOf
        <4> QED
          BY <3>1, <3>2, <4>2
      <3>3. CASE Kind(c) \notin CodeJobs
        BY <1>3, <3>1, <3>3 DEF SignUpInv, CodeInv
      <3> QED
        BY <3>2, <3>3
    <2> QED
      BY <2>1, <2>2 DEF SignUpInv, CodeInv, CodesTypeOK
  <1>5. NoteInv'
    BY <1>1, NotesUntouched DEF SignUpInv
  <1>6. AccountInv'
    <2>1. /\ tx' \in [Calls -> {"none", "open", "rolling", "committed", "gone"}]
          /\ own' \in [Calls -> [user : BOOLEAN, owner : Phones \cup {Nobody}]]
          /\ lock' \in [Rows -> Calls \cup {Nobody}]
      BY <1>1 DEF SignUpInv, AccountInv, AccountsTypeOK, Unwritten
    <2>2. AccountsTypeOK'
      BY <1>1, <2>1 DEF SignUpInv, AccountInv, AccountsTypeOK
    <2>3. ASSUME NEW c \in Calls
          PROVE  IF Kind(c)' \in AccountJobs THEN AccountOf(c)' ELSE Bystander(c)'
      <3>1. /\ Kind(c)' = Kind(c) /\ Phone(c)' = Phone(c) /\ InOrder(todo[c])'
            /\ Ahead(todo[c])' = {} /\ own'[c].user = FALSE /\ own'[c].owner = Nobody
            /\ own'[c] = Unwritten
        BY <1>1, NoAwaits DEF Kind, Phone, Unwritten
      <3>2. tx[c] # "committed" => tx'[c] # "committed"
        BY <1>1
      <3>3. CASE Kind(c) \in AccountJobs
        <4>1. KindFits(c)' /\ WritesFit(c)'
          BY <1>3, <3>1 DEF KindFits, WritesFit
        <4>2. TxFits(c)'
          BY <1>3, <3>1 DEF TxFits
        <4>3. AnswerFits(c) /\ SeenFits(c)
          BY <3>3 DEF SignUpInv, AccountInv, AccountOf
        <4>4. AnswerFits(c)' /\ SeenFits(c)'
          BY <1>1, <1>3, <3>1, <3>2, <4>3 DEF AnswerFits, SeenFits
        <4> QED
          BY <3>1, <3>3, <4>1, <4>2, <4>4 DEF AccountOf
      <3>4. CASE Kind(c) \notin AccountJobs
        BY <1>1, <3>1, <3>4 DEF SignUpInv, AccountInv, Bystander
      <3> QED
        BY <3>3, <3>4
    <2>4. \A c \in Calls, p \in Phones : users'[p] = c => tx'[c] = "committed"
      BY <1>1 DEF SignUpInv, AccountInv
    <2> QED
      BY <1>1, <2>2, <2>3, <2>4 DEF SignUpInv, AccountInv, LinkHasUser
  <1> QED
    BY <1>2, <1>4, <1>5, <1>6 DEF SignUpInv

LEMMA StepKeepsInv ==
    ASSUME SignUpInv, SignUpAssumption, [Next]_vars
    PROVE  SignUpInv'
  <1>1. ASSUME NEW c \in Calls, AccountStep(c), UNCHANGED <<codeVars, notifyVars>>
        PROVE  SignUpInv'
    <2>1. /\ todo' \in [Calls -> Seq(Words)] /\ job' = job /\ answer' = answer
          /\ \A d \in Calls \ {c} : \/ todo'[d] = todo[d]
                                    \/ Kind(d) = "default" /\ todo'[d] = <<"check", "ok">>
          /\ Has(c, "verified")' => Has(c, "verified")
      BY <1>1, AccountMoves DEF SignUpInv
    <2>2. Kind(c) \in AccountJobs
      BY <1>1 DEF AccountStep, Kind
    <2>3. Ahead(<<"check", "ok">>) = {"check", "ok"}
      BY TwoAwaits DEF Words, Answers
    <2>4. CodeInv'
      <3>1. \A d \in Calls : IF Kind(d) \in CodeJobs THEN todo'[d] = todo[d] /\ answer'[d] = answer[d]
                             ELSE Has(d, "verified")' => Has(d, "verified")
        <4> SUFFICES ASSUME NEW d \in Calls
                     PROVE  IF Kind(d) \in CodeJobs
                            THEN todo'[d] = todo[d] /\ answer'[d] = answer[d]
                            ELSE Has(d, "verified")' => Has(d, "verified")
          OBVIOUS
        <4>1. CASE d = c
          BY <2>1, <2>2, <4>1 DEF CodeJobs, AccountJobs
        <4>2. CASE todo'[d] = todo[d]
          BY <2>1, <4>2 DEF Has
        <4>3. CASE Kind(d) = "default" /\ todo'[d] = <<"check", "ok">>
          <5>1. ~Has(d, "verified")'
            BY <2>3, <4>3 DEF Has
          <5> QED
            BY <4>3, <5>1 DEF CodeJobs
        <4> QED
          BY <2>1, <4>1, <4>2, <4>3
      <3> QED
        BY <1>1, <2>1, <3>1, CodesUntouched DEF SignUpInv
    <2>5. NoteInv'
      <3>1. ASSUME NEW d \in Calls, Kind(d) \in NotifyJobs
            PROVE  \/ todo'[d] = todo[d]
                   \/ ~Has(d, "count")' /\ Kind(d) # "add"
                   \/ todo'[d] = <<>>
        <4>1. d # c
          BY <2>2, <3>1 DEF NotifyJobs, AccountJobs
        <4>2. CASE todo'[d] = todo[d]
          BY <4>2
        <4>3. CASE Kind(d) = "default" /\ todo'[d] = <<"check", "ok">>
          BY <2>3, <4>3 DEF Has
        <4> QED
          BY <2>1, <4>1, <4>2, <4>3
      <3> QED
        BY <1>1, <2>1, <3>1, NotesUntouched DEF SignUpInv
    <2>6. AccountInv'
      BY <1>1, AccountSteps DEF SignUpInv
    <2> QED
      BY <2>1, <2>4, <2>5, <2>6 DEF SignUpInv, Domains
  <1>2. ASSUME NEW c \in Calls, CodeStep(c, users[CodePhone] # Nobody),
               UNCHANGED <<accountVars, notifyVars>>
        PROVE  SignUpInv'
    <2>1. /\ CodeInv' /\ todo' \in [Calls -> Seq(Words)] /\ UNCHANGED <<job, answer>>
          /\ Kind(c) \in CodeJobs /\ \A d \in Calls \ {c} : todo'[d] = todo[d]
      BY <1>2, CodeSteps DEF SignUpInv
    <2>2. \A d \in Calls : Kind(d) \in AccountJobs \cup NotifyJobs => d # c
      BY <2>1 DEF CodeJobs, AccountJobs, NotifyJobs
    <2>3. AccountInv'
      BY <1>2, <2>1, <2>2, AccountsUntouched DEF SignUpInv
    <2>4. NoteInv'
      BY <1>2, <2>1, <2>2, NotesUntouched DEF SignUpInv
    <2> QED
      BY <2>1, <2>3, <2>4 DEF SignUpInv, Domains
  <1>3. ASSUME NEW c \in Calls, NotifyStep(c), UNCHANGED <<accountVars, codeVars>>
        PROVE  SignUpInv'
    <2>1. /\ NoteInv' /\ todo' \in [Calls -> Seq(Words)] /\ UNCHANGED <<job, answer>>
          /\ Kind(c) \in NotifyJobs /\ \A d \in Calls \ {c} : todo'[d] = todo[d]
          /\ Has(c, "verified")' => Has(c, "verified")
      BY <1>3, NoteSteps DEF SignUpInv
    <2>2. \A d \in Calls : Kind(d) \in AccountJobs \cup CodeJobs => d # c
      BY <2>1 DEF CodeJobs, AccountJobs, NotifyJobs
    <2>3. AccountInv'
      BY <1>3, <2>1, <2>2, AccountsUntouched DEF SignUpInv
    <2>4. CodeInv'
      <3>1. \A d \in Calls : IF Kind(d) \in CodeJobs THEN todo'[d] = todo[d] /\ answer'[d] = answer[d]
                             ELSE Has(d, "verified")' => Has(d, "verified")
        BY <2>1, <2>2 DEF Has
      <3> QED
        BY <1>3, <2>1, <3>1, CodesUntouched DEF SignUpInv
    <2> QED
      BY <2>1, <2>3, <2>4 DEF SignUpInv, Domains
  <1>4. ASSUME NEW c \in Calls, Reply(c), UNCHANGED <<accountVars, codeVars, notifyVars>>
        PROVE  SignUpInv'
    <2>1. /\ todo[c] # <<>> /\ Head(todo[c]) \in Answers /\ Goes(c) /\ job' = job
          /\ answer' = [answer EXCEPT ![c] = Head(todo[c])]
      BY <1>4 DEF Reply
    <2>2. Tail(todo[c]) \in Seq(Words)
      BY <2>1, AheadOfTail DEF SignUpInv, Domains
    <2>3. Domains'
      BY <2>1, <2>2 DEF SignUpInv, Domains, Goes
    <2> QED
      BY <1>4, <2>3, AnsweredStep, CodesAnswered, NotesAnswered DEF SignUpInv
  <1>5. ASSUME RunsOut, UNCHANGED <<accountVars, notifyVars>> PROVE SignUpInv'
    <2>1. UNCHANGED <<job, todo, answer>>
      BY <1>5 DEF RunsOut
    <2>2. AccountInv'
      BY <1>5, <2>1, AccountsUntouched DEF SignUpInv
    <2>3. NoteInv'
      BY <1>5, <2>1, NotesUntouched DEF SignUpInv
    <2>4. CodeInv'
      BY <1>5, RunsOutStep DEF SignUpInv
    <2> QED
      BY <2>1, <2>2, <2>3, <2>4 DEF SignUpInv, Domains
  <1>6. CASE UNCHANGED vars
    <2>1. UNCHANGED <<job, todo, answer>> /\ UNCHANGED accountVars
          /\ UNCHANGED codeVars /\ UNCHANGED notifyVars
      BY <1>6 DEF vars
    <2>2. AccountInv'
      BY <2>1, AccountsUntouched DEF SignUpInv
    <2>3. NoteInv'
      BY <2>1, NotesUntouched DEF SignUpInv
    <2>4. CodeInv'
      <3>1. \A d \in Calls : IF Kind(d) \in CodeJobs THEN todo'[d] = todo[d] /\ answer'[d] = answer[d]
                             ELSE Has(d, "verified")' => Has(d, "verified")
        BY <2>1 DEF Has
      <3> QED
        BY <2>1, <3>1, CodesUntouched DEF SignUpInv
    <2> QED
      BY <2>1, <2>2, <2>3, <2>4 DEF SignUpInv, Domains
  <1> QED
    BY <1>1, <1>2, <1>3, <1>4, <1>5, <1>6, EndsStep DEF Next

-----------------------------------------------------------------------------
(* The start, and the theorems.                                            *)

LEMMA CodeLists ==
    ASSUME NEW kind \in CodeJobs
    PROVE  /\ CodeAwaits(kind) \in Seq(Words) /\ InOrder(CodeAwaits(kind))
           /\ Ahead(CodeAwaits(kind)) = IF kind = "send" THEN {"look", "sms", "keep", "ok"}
                                        ELSE {"first", "crumb", "code", "compare"}
  <1>1. Send \in Seq(Words) /\ InOrder(Send) /\ Ahead(Send) = {"look", "sms", "keep", "ok"}
    <2>1. \A i \in 1..4 : Send[i] \in Words
      BY DEF Send, Words, Answers
    <2>2. Send \in Seq(Words) /\ Len(Send) = 4
      BY <2>1 DEF Send
    <2>3. Ahead(Send) = {"look", "sms", "keep", "ok"}
      BY DEF Send, Ahead
    <2>4. \A i, j \in 1..4 : i < j => Rank(Send[i]) < Rank(Send[j])
      BY DEF Send, Rank
    <2> QED
      BY <2>2, <2>3, <2>4 DEF InOrder
  <1>2. /\ Validate \in Seq(Words) /\ InOrder(Validate)
        /\ Ahead(Validate) = {"first", "crumb", "code", "compare"}
    <2>1. \A i \in 1..4 : Validate[i] \in Words
      BY DEF Validate, Words, Answers
    <2>2. Validate \in Seq(Words) /\ Len(Validate) = 4
      BY <2>1 DEF Validate
    <2>3. Ahead(Validate) = {"first", "crumb", "code", "compare"}
      BY DEF Validate, Ahead
    <2>4. \A i, j \in 1..4 : i < j => Rank(Validate[i]) < Rank(Validate[j])
      BY DEF Validate, Rank
    <2> QED
      BY <2>2, <2>3, <2>4 DEF InOrder
  <1> QED
    BY <1>1, <1>2 DEF CodeAwaits, CodeJobs

\* A list that counts at most first, and one that does not count, one after the other.
CountsFirst(t) == /\ t \in Seq(Words) /\ t # <<>>
                  /\ \A i \in 2..Len(t) : t[i] # "count"

LEMMA CountsFirstLonger ==
    ASSUME NEW s, CountsFirst(s), NEW t \in Seq(Words), "count" \notin Ahead(t)
    PROVE  CountsFirst(s \o t)
  <1> HIDE DEF Words
  <1>1. /\ s \in Seq(Words) /\ s # <<>> /\ Len(s) \in Nat /\ Len(t) \in Nat
        /\ s \o t \in Seq(Words) /\ Len(s \o t) = Len(s) + Len(t)
        /\ \A i \in 1..(Len(s) + Len(t)) :
               (s \o t)[i] = IF i <= Len(s) THEN s[i] ELSE t[i - Len(s)]
    BY ConcatProperties DEF CountsFirst
  <1>2. s \o t # <<>>
    BY <1>1, ConcatEqualIffEmpty
  <1>3. ASSUME NEW i \in 2..(Len(s) + Len(t)) PROVE (s \o t)[i] # "count"
    <2>1. CASE i <= Len(s)
      <3>1. i \in 2..Len(s) /\ (s \o t)[i] = s[i]
        BY <1>1, <2>1
      <3> QED
        BY <3>1 DEF CountsFirst
    <2>2. CASE ~(i <= Len(s))
      <3>1. i - Len(s) \in 1..Len(t) /\ (s \o t)[i] = t[i - Len(s)]
        BY <1>1, <2>2
      <3> QED
        BY <3>1 DEF Ahead
    <2> QED
      BY <2>1, <2>2
  <1> QED
    BY <1>1, <1>2, <1>3 DEF CountsFirst

LEMMA CountsFirstTail ==
    ASSUME NEW t, CountsFirst(t)
    PROVE  "count" \notin Ahead(Tail(t))
  <1> HIDE DEF Words
  <1>1. t \in Seq(Words) /\ t # <<>> /\ Len(t) \in Nat
    BY DEF CountsFirst
  <1>2. Len(Tail(t)) = Len(t) - 1 /\ \A i \in 1..Len(Tail(t)) : Tail(t)[i] = t[i + 1]
    BY <1>1, HeadTailProperties
  <1>3. ASSUME NEW i \in 1..Len(Tail(t)) PROVE Tail(t)[i] # "count"
    <2>1. i + 1 \in 2..Len(t)
      BY <1>1, <1>2
    <2> QED
      BY <1>2, <2>1 DEF CountsFirst
  <1> QED
    BY <1>3 DEF Ahead

LEMMA Repeated ==
    ASSUME NEW n \in Nat, NEW x \in Words
    PROVE  [i \in 1..n |-> x] \in Seq(Words) /\ Ahead([i \in 1..n |-> x]) \subseteq {x}
  <1> HIDE DEF Words
  <1>1. [i \in 1..n |-> x] \in [1..n -> Words]
    OBVIOUS
  <1>2. [i \in 1..n |-> x] \in Seq(Words) /\ Len([i \in 1..n |-> x]) = n
    BY <1>1
  <1> QED
    BY <1>2 DEF Ahead

LEMMA NoteLists ==
    ASSUME NEW j \in Jobs, j.kind \in NotifyJobs
    PROVE  /\ NotifyAwaits(j) \in Seq(Words)
           /\ "verified" \notin Ahead(NotifyAwaits(j))
           /\ IF j.kind = "add"
              THEN /\ \A x \in {"get", "put", "check", "set"} : x \notin Ahead(NotifyAwaits(j))
                   /\ "count" \notin Ahead(Tail(NotifyAwaits(j)))
              ELSE "count" \notin Ahead(NotifyAwaits(j))
  <1>0. /\ "count" \in Words /\ "store" \in Words /\ "chat" \in Words /\ "push" \in Words
        /\ "ok" \in Words /\ "mark" \in Words /\ "check" \in Words /\ "put" \in Words
        /\ "markNext" \in Words
    BY DEF Words, Answers
  <1> HIDE DEF Words
  <1>1. CASE j.kind = "add"
    <2> DEFINE chats == [i \in 1..j.mark.chats |-> "chat"]
               s == Counting \o <<"store">>
               t == s \o chats
    <2>1. j.mark.chats \in Nat
      <3>1. j.mark \in Marks
        BY <1>1 DEF Jobs, AccountJobs
      <3>2. \A m \in OrderMarks \cup PointMarks : m.chats \in Nat
        BY DEF OrderMarks, PointMarks
      <3>3. \A m \in OtherMarks : m.chats \in Nat
        BY DEF OtherMarks
      <3>4. \A m \in UnknownMarks : m.chats \in Nat
        BY DEF UnknownMarks
      <3> QED
        BY <3>1, <3>2, <3>3, <3>4 DEF Marks
    <2>2. /\ Counting \in Seq(Words) /\ Ahead(Counting) = {"count"}
          /\ <<"store">> \in Seq(Words) /\ Ahead(<<"store">>) = {"store"}
          /\ <<"push", "ok">> \in Seq(Words) /\ Ahead(<<"push", "ok">>) = {"push", "ok"}
      BY <1>0, OneAwait, TwoAwaits DEF Counting
    <2>3. CountsFirst(Counting)
      BY <2>2 DEF CountsFirst, Counting
    <2>4. chats \in Seq(Words) /\ Ahead(chats) \subseteq {"chat"}
      BY <1>0, <2>1, Repeated
    <2> HIDE DEF chats
    <2>5. /\ s \in Seq(Words) /\ Ahead(s) = {"count", "store"} /\ CountsFirst(s)
      BY <2>2, <2>3, AheadOfConcat, CountsFirstLonger
    <2> HIDE DEF s
    <2>6. /\ t \in Seq(Words) /\ Ahead(t) \subseteq {"count", "store", "chat"} /\ CountsFirst(t)
      BY <2>4, <2>5, AheadOfConcat, CountsFirstLonger
    <2> HIDE DEF t
    <2> DEFINE tail == <<"push", "ok">>
    <2> HIDE DEF tail
    <2>7. /\ t \o tail \in Seq(Words)
          /\ Ahead(t \o tail) \subseteq {"count", "store", "chat", "push", "ok"}
          /\ CountsFirst(t \o tail)
      <3>1. tail \in Seq(Words) /\ Ahead(tail) = {"push", "ok"}
        BY <2>2 DEF tail
      <3>2. t \o tail \in Seq(Words) /\ Ahead(t \o tail) = Ahead(t) \cup Ahead(tail)
        BY <2>6, <3>1, AheadOfConcat
      <3>3. CountsFirst(t \o tail)
        BY <2>6, <3>1, CountsFirstLonger
      <3> QED
        BY <2>6, <3>1, <3>2, <3>3
    <2>8. NotifyAwaits(j) = t \o tail
      BY <1>1 DEF NotifyAwaits, t, s, chats, tail
    <2>9. "count" \notin Ahead(Tail(t \o tail))
      BY <2>7, CountsFirstTail
    <2> QED
      BY <1>1, <2>7, <2>8, <2>9
  <1>2. CASE j.kind = "readed"
    <2>1. NotifyAwaits(j) = <<"mark", "check", "ok">>
      BY <1>2 DEF NotifyAwaits
    <2>2. /\ <<"mark", "check", "ok">> \in Seq(Words)
          /\ Ahead(<<"mark", "check", "ok">>) = {"mark", "check", "ok"}
      BY <1>0, ThreeAwaits
    <2> QED
      BY <1>2, <2>1, <2>2
  <1>3. CASE j.kind = "reset"
    <2>1. NotifyAwaits(j) = <<"put", "ok">>
      BY <1>3 DEF NotifyAwaits
    <2>2. <<"put", "ok">> \in Seq(Words) /\ Ahead(<<"put", "ok">>) = {"put", "ok"}
      BY <1>0, TwoAwaits
    <2> QED
      BY <1>3, <2>1, <2>2
  <1>4. CASE j.kind = "default"
    <2>1. CASE j.after = Nobody
      <3>1. NotifyAwaits(j) = <<"check", "ok">>
        BY <1>4, <2>1 DEF NotifyAwaits
      <3>2. <<"check", "ok">> \in Seq(Words) /\ Ahead(<<"check", "ok">>) = {"check", "ok"}
        BY <1>0, TwoAwaits
      <3> QED
        BY <1>4, <3>1, <3>2
    <2>2. CASE j.after # Nobody
      <3>1. NotifyAwaits(j) = <<>>
        BY <1>4, <2>2 DEF NotifyAwaits
      <3> QED
        BY <1>4, <3>1, NoAwaits
    <2> QED
      BY <2>1, <2>2
  <1>5. CASE j.kind = "readAll"
    <2> DEFINE all == [i \in 1..Len(j.of) |-> "markNext"]
    <2>1. j.of \in Seq(Calls)
      BY <1>5 DEF Jobs, AccountJobs
    <2>2. Len(j.of) \in Nat
      BY <2>1
    <2>3. all \in Seq(Words) /\ Ahead(all) \subseteq {"markNext"}
      BY <1>0, <2>2, Repeated
    <2>4. <<"ok">> \in Seq(Words) /\ Ahead(<<"ok">>) = {"ok"}
      BY <1>0, OneAwait
    <2>5. NotifyAwaits(j) = all \o <<"ok">>
      BY <1>5 DEF NotifyAwaits
    <2> HIDE DEF all
    <2> DEFINE last == <<"ok">>
    <2> HIDE DEF last
    <2>6. all \o last \in Seq(Words) /\ Ahead(all \o last) \subseteq {"markNext", "ok"}
      <3>1. last \in Seq(Words) /\ Ahead(last) = {"ok"}
        BY <2>4 DEF last
      <3>2. all \o last \in Seq(Words) /\ Ahead(all \o last) = Ahead(all) \cup Ahead(last)
        BY <2>3, <3>1, AheadOfConcat
      <3> QED
        BY <2>3, <3>1, <3>2
    <2>7. NotifyAwaits(j) = all \o last
      BY <2>5 DEF last
    <2> QED
      BY <1>5, <2>6, <2>7
  <1> QED
    BY <1>1, <1>2, <1>3, <1>4, <1>5 DEF NotifyJobs

LEMMA StartsInv ==
    ASSUME Init, SignUpAssumption
    PROVE  SignUpInv
  <1>1. PICK s \in Scenarios :
           /\ job = s.jobs /\ todo = [c \in Calls |-> Awaits(s.jobs[c])]
           /\ answer = [c \in Calls |-> "none"]
           /\ AccountsInit(s.registered, s.owned) /\ CodesInit /\ NotifyInit(s.badge)
    BY DEF Init
  <1>2. /\ job \in [Calls -> Jobs] /\ s.registered \subseteq Phones
        /\ s.owned \in [OauthAccounts -> s.registered \cup {"free", "none"}]
        /\ s.badge \in {NoDoc, 0}
        /\ Nobody \notin Calls /\ Nobody \notin Phones /\ "before" \notin Calls
        /\ "before" # Nobody /\ "free" \notin Phones /\ "none" \notin Phones
    BY <1>1 DEF SignUpAssumption
  <1>3. \A c \in Calls : todo[c] = Awaits(job[c]) /\ job[c] \in Jobs /\ answer[c] = "none"
    BY <1>1, <1>2
  <1>4. ASSUME NEW c \in Calls, Kind(c) \in AccountJobs PROVE todo[c] = AccountAwaits(Kind(c))
    <2>1. Kind(c) \notin CodeJobs /\ Kind(c) \notin NotifyJobs
      BY <1>4 DEF AccountJobs, CodeJobs, NotifyJobs
    <2>2. Awaits(job[c]) = AccountAwaits(job[c].kind)
      BY <1>4, <2>1 DEF Awaits, Kind
    <2> QED
      BY <1>3, <2>2 DEF Kind
  <1>5. ASSUME NEW c \in Calls, Kind(c) \in CodeJobs PROVE todo[c] = CodeAwaits(Kind(c))
    <2>1. Kind(c) \notin AccountJobs /\ Kind(c) \notin NotifyJobs
      BY <1>5 DEF AccountJobs, CodeJobs, NotifyJobs
    <2>2. Awaits(job[c]) = CodeAwaits(job[c].kind)
      BY <1>5, <2>1 DEF Awaits, Kind
    <2> QED
      BY <1>3, <2>2 DEF Kind
  <1>6. ASSUME NEW c \in Calls, Kind(c) \in NotifyJobs PROVE todo[c] = NotifyAwaits(job[c])
    <2>1. Kind(c) \notin AccountJobs /\ Kind(c) \notin CodeJobs
      BY <1>6 DEF AccountJobs, CodeJobs, NotifyJobs
    <2> QED
      BY <1>3, <1>6, <2>1 DEF Awaits, Kind
  <1>7. \A c \in Calls : Kind(c) \notin AccountJobs \cup CodeJobs \cup NotifyJobs => todo[c] = <<>>
    BY <1>3 DEF Awaits, Kind
  <1>8. ASSUME NEW c \in Calls
        PROVE  todo[c] \in Seq(Words) /\ (Kind(c) \notin CodeJobs => ~Has(c, "verified"))
    <2>1. CASE Kind(c) \in AccountJobs
      <3>1. todo[c] = AccountAwaits(Kind(c)) /\ AccountAwaits(Kind(c)) \in Seq(Words)
        BY <1>4, <2>1, AccountLists
      <3>2. "verified" \notin Ahead(AccountAwaits(Kind(c)))
        BY <2>1, AccountLists
      <3> QED
        BY <3>1, <3>2 DEF Has
    <2>2. CASE Kind(c) \in CodeJobs
      BY <1>5, <2>2, CodeLists
    <2>3. CASE Kind(c) \in NotifyJobs
      BY <1>3, <1>6, <2>3, NoteLists DEF Has, Kind
    <2>4. CASE Kind(c) \notin AccountJobs \cup CodeJobs \cup NotifyJobs
      BY <1>7, <2>4, NoAwaits DEF Has
    <2> QED
      BY <2>1, <2>2, <2>3, <2>4
  <1>9. Domains
    <2>1. todo \in [Calls -> Seq(Words)]
      BY <1>1, <1>8
    <2>2. answer \in [Calls -> Answers \cup {"none"}]
      BY <1>1
    <2> QED
      BY <1>2, <2>1, <2>2 DEF Domains
  <1>10. AccountInv
    <2>1. /\ users = [p \in Phones |-> IF p \in s.registered THEN "before" ELSE Nobody]
          /\ links = s.owned /\ tx = [c \in Calls |-> "none"]
          /\ lock = [r \in Rows |-> Nobody] /\ seen = [c \in Calls |-> Nobody]
          /\ own = [c \in Calls |-> Unwritten]
      BY <1>1 DEF AccountsInit
    <2>2. AccountsTypeOK
      <3>1. own \in [Calls -> [user : BOOLEAN, owner : Phones \cup {Nobody}]]
        BY <2>1 DEF Unwritten
      <3>2. links \in [OauthAccounts -> Phones \cup {"free", "none"}]
        BY <1>2, <2>1
      <3> QED
        BY <2>1, <3>1, <3>2 DEF AccountsTypeOK
    <2>3. ASSUME NEW c \in Calls, Kind(c) \in AccountJobs PROVE AccountOf(c)
      <3>1. /\ InOrder(todo[c])
            /\ Kind(c) = "oauthRegister" => Ahead(todo[c]) =
                  {"begin", "crumb", "create", "find", "link", "commit",
                   "events", "profile", "ok"}
            /\ Kind(c) = "register" => Ahead(todo[c]) =
                  {"begin", "crumb", "create", "commit", "events", "profile", "ok"}
            /\ Kind(c) = "bind" => Ahead(todo[c]) =
                  {"begin", "user", "find", "link", "commit", "token", "ok"}
            /\ Kind(c) = "login" => Ahead(todo[c]) =
                  {"find", "suspended", "relink", "profile", "ok"}
            /\ Kind(c) = "unbind" => Ahead(todo[c]) =
                  {"unlink", "ok"}
            /\ Kind(c) = "botLine" => Ahead(todo[c]) =
                  {"begin", "link", "ok"}
            /\ Kind(c) = "botUpdate" => Ahead(todo[c]) =
                  {"begin", "find", "link"}
            /\ Kind(c) = "botUser" => Ahead(todo[c]) =
                  {"begin", "create", "ok"}
        BY <1>4, <2>3, AccountLists
      <3>2. /\ tx[c] = "none" /\ seen[c] = Nobody /\ own[c].user = FALSE
            /\ own[c].owner = Nobody /\ answer[c] = "none"
        BY <1>3, <2>1 DEF Unwritten
      <3>3. KindFits(c)
        BY <2>3, <3>1 DEF KindFits, AccountJobs, Registers, Has
      <3>4. TxFits(c)
        BY <2>3, <3>1, <3>2 DEF TxFits, AccountJobs, Has
      <3>5. WritesFit(c)
        BY <2>3, <3>1, <3>2 DEF WritesFit, AccountJobs, Registers, Has
      <3>6. AnswerFits(c)
        BY <2>3, <3>1, <3>2 DEF AnswerFits, AccountJobs, Registers, Has
      <3>7. SeenFits(c)
        BY <1>2, <2>3, <3>1, <3>2 DEF SeenFits, AccountJobs, Has
      <3> QED
        BY <3>1, <3>3, <3>4, <3>5, <3>6, <3>7 DEF AccountOf
    <2>4. \A c \in Calls : Bystander(c)
      BY <2>1 DEF Bystander
    <2>5. \A c \in Calls, p \in Phones : users[p] # c
      BY <1>2, <2>1
    <2>6. LinkHasUser
      BY <1>2, <2>1 DEF LinkHasUser
    <2>7. \A c \in Calls : seen[c] \notin Phones
      BY <1>2, <2>1
    <2> QED
      BY <2>2, <2>3, <2>4, <2>5, <2>6, <2>7 DEF AccountInv
  <1>11. CodeInv
    <2>1. /\ info = NoInfo /\ stale = {} /\ outbox = {} /\ read = [c \in Calls |-> NoRead]
      BY <1>1 DEF CodesInit
    <2>2. CodesTypeOK
      BY <2>1, CodeAssumption DEF CodesTypeOK, Infos, NoInfo, NoRead
    <2>3. ASSUME NEW c \in Calls, Kind(c) \in CodeJobs PROVE CodeOf(c)
      <3>1. /\ InOrder(todo[c])
            /\ Ahead(todo[c]) = IF Kind(c) = "send" THEN {"look", "sms", "keep", "ok"}
                                ELSE {"first", "crumb", "code", "compare"}
        BY <1>5, <2>3, CodeLists
      <3>2. read[c].code = FALSE /\ answer[c] = "none"
        BY <1>3, <2>1 DEF NoRead
      <3> QED
        BY <2>3, <3>1, <3>2 DEF CodeOf, CodeJobs, Has
    <2>4. \A c \in Calls : Kind(c) \notin CodeJobs => ~Has(c, "verified") /\ answer[c] # "verified"
      BY <1>3, <1>8
    <2> QED
      BY <2>1, <2>2, <2>3, <2>4 DEF CodeInv
  <1>12. NoteInv
    <2>1. /\ badge = s.badge /\ datas = [c \in Calls |-> "none"] /\ counted = {}
          /\ pushed = [c \in Calls |-> "none"] /\ held = [c \in Calls |-> 0] /\ overwritten = FALSE
      BY <1>1 DEF NotifyInit
    <2>2. Cardinality({}) = 0 /\ Cardinality(Calls) \in Nat
      BY FS_EmptySet, FS_CardinalityType DEF SignUpAssumption
    <2>3. \A c \in Calls : job[c].kind = "add" => job[c].mark \in Marks
      BY <1>9, JobFields DEF Kind
    <2>4. NotifyTypeOK
      BY <1>2, <2>1, <2>2, <2>3 DEF NotifyTypeOK
    <2>5. ASSUME NEW c \in Calls, Kind(c) \in NotifyJobs PROVE NoteOf(c)
      BY <1>3, <1>6, <2>1, <2>5, NoteLists DEF NoteOf, Kind, Has
    <2>6. BadgeCounts
      BY <1>2, <2>1, <2>2 DEF BadgeCounts
    <2> QED
      BY <2>1, <2>2, <2>4, <2>5, <2>6 DEF NoteInv
  <1> QED
    BY <1>9, <1>10, <1>11, <1>12 DEF SignUpInv

-----------------------------------------------------------------------------
(* The theorems.                                                           *)

\* SignUpInv holds from the start and every step keeps it: the transactions, locks
\* and reads of auth.controller.ts, of the code's validation and of the
\* notifications fit the awaits that are still ahead.
THEOREM SignUpInvariant == Spec => []SignUpInv
  <1>1. Init => SignUpInv
    BY StartsInv, SignUpAssumption
  <1>2. SignUpInv /\ [Next]_vars => SignUpInv'
    BY StepKeepsInv, SignUpAssumption
  <1> QED
    BY <1>1, <1>2, PTL DEF Spec

\* The three parts keep their types, and a row is locked only by a transaction that
\* is open or about to be rolled back, so that it will be given back.
THEOREM SignUpTypes == Spec => []TypeOK
  <1>1. SignUpInv => TypeOK
    BY DEF SignUpInv, AccountInv, CodeInv, NoteInv, TypeOK
  <1> QED
    BY <1>1, SignUpInvariant, PTL

\* An account's row never names a member who is not there, in whatever order the
\* registrations, binds, logins and the bot's updates of the account run.
THEOREM LinksHaveUsers == Spec => []LinkHasUser
  <1>1. SignUpInv => LinkHasUser
    BY DEF SignUpInv, AccountInv
  <1> QED
    BY <1>1, SignUpInvariant, PTL

\* What a registration was answered is what happened to its member, whichever of its
\* awaits failed: committed before "ok", nothing left of it after a refusal.
THEOREM AnswersTellUsers == Spec => []AnswerTellsUser
  <1>1. ASSUME SignUpInv PROVE AnswerTellsUser
    <2>1. ASSUME NEW c \in Calls, answer[c] = "ok", job[c].kind \in {"oauthRegister", "register"}
          PROVE  users[job[c].phone] = c
      <3>1. Kind(c) \in AccountJobs /\ Kind(c) \in Registers
        BY <2>1 DEF Kind, AccountJobs, Registers
      <3>2. AnswerFits(c)
        BY <1>1, <3>1 DEF SignUpInv, AccountInv, AccountOf
      <3> QED
        BY <2>1, <3>1, <3>2 DEF AnswerFits, Phone
    <2>2. ASSUME NEW c \in Calls, answer[c] = "refused", NEW p \in Phones
          PROVE  users[p] # c
      <3>1. tx[c] # "committed"
        <4>1. CASE Kind(c) \in AccountJobs
          <5>1. AnswerFits(c)
            BY <1>1, <4>1 DEF SignUpInv, AccountInv, AccountOf
          <5> QED
            BY <2>2, <5>1 DEF AnswerFits
        <4>2. CASE Kind(c) \notin AccountJobs
          BY <1>1, <4>2 DEF SignUpInv, AccountInv, Bystander
        <4> QED
          BY <4>1, <4>2
      <3> QED
        BY <1>1, <3>1 DEF SignUpInv, AccountInv
    <2> QED
      BY <2>1, <2>2 DEF AnswerTellsUser
  <1> QED
    BY <1>1, SignUpInvariant, PTL

\* The code that is kept, and the one a successful validation named, went to the SMS
\* gateway, though every step of a validation writes back what it had read.
THEOREM CodesSent == Spec => []CodesWereSent
  <1>1. ASSUME SignUpInv PROVE CodesWereSent
    <2>1. ASSUME NEW c \in Calls, answer[c] = "verified" PROVE job[c].code \in outbox
      <3>1. Kind(c) \in CodeJobs
        BY <1>1, <2>1 DEF SignUpInv, CodeInv
      <3>2. CodeOf(c)
        BY <1>1, <3>1 DEF SignUpInv, CodeInv
      <3> QED
        BY <2>1, <3>2 DEF CodeOf
    <2> QED
      BY <1>1, <2>1 DEF SignUpInv, CodeInv, CodesWereSent
  <1> QED
    BY <1>1, SignUpInvariant, PTL

\* The number of unread notifications is never above what was counted, and exact as
\* long as only additions write it.
THEOREM BadgeIsCounted == Spec => []BadgeCounts
  <1>1. SignUpInv => BadgeCounts
    BY DEF SignUpInv, NoteInv
  <1> QED
    BY <1>1, SignUpInvariant, PTL

\* A step of an account's call that takes an account from one member to another.
LEMMA TakingStep ==
    ASSUME SignUpInv, SignUpAssumption, NEW c \in Calls, AccountStep(c),
           NEW a \in OauthAccounts, links[a] \in Phones, links'[a] \in Phones \ {links[a]},
           NEW d \in Calls, todo'[d] # todo[d]
    PROVE  seen[d] # links[a]
  <1>1. /\ Kind(c) \in AccountJobs /\ AccountOf(c) /\ AccountsTypeOK
        /\ \A e \in Calls : Kind(e) \notin AccountJobs => Bystander(e)
        /\ todo \in [Calls -> Seq(Words)]
    BY DEF SignUpInv, Domains, AccountInv, AccountStep, Kind
  <1>2. /\ Nobody \notin Phones /\ "free" \notin Phones
        /\ links \in [OauthAccounts -> Phones \cup {"free", "none"}]
    BY <1>1 DEF SignUpAssumption, AccountsTypeOK
  <1>3. CASE Relink(c)
    <2>1. d = c
      BY <1>1, <1>3 DEF Relink, Goes
    <2>2. a = job[c].account /\ links'[a] = seen[c]
      BY <1>2, <1>3 DEF Relink
    <2> QED
      BY <2>1, <2>2
  <1>4. CASE Commit(c)
    <2>1. Has(c, "commit")
      <3>1. todo[c] \in Seq(Words) /\ todo[c] # <<>> /\ Head(todo[c]) = "commit"
        BY <1>1, <1>4 DEF Commit, At
      <3> QED
        BY <3>1 DEF Has, Ahead
    <2>2. Kind(c) \notin {"login", "botUpdate"} /\ seen[c] \notin Phones
      BY <1>1, <2>1 DEF AccountOf, KindFits, SeenFits, Registers
    <2>3. CASE d = c
      BY <2>2, <2>3
    <2>4. CASE d # c
      <3>1. job[d].kind = "default"
        BY <1>1, <1>4, <2>4 DEF Commit
      <3>2. Bystander(d)
        BY <1>1, <3>1 DEF Kind, AccountJobs
      <3> QED
        BY <1>2, <3>2 DEF Bystander
    <2> QED
      BY <2>3, <2>4
  <1>5. CASE Unlink(c)
    <2>1. links'[a] \in {links[a], "free"}
      BY <1>2, <1>5 DEF Unlink
    <2> QED
      BY <1>2, <2>1
  <1>6. CASE ~Relink(c) /\ ~Commit(c) /\ ~Unlink(c)
    <2>1. links' = links
      BY <1>6 DEF AccountStep, Begin, Asks, accountVars, CreateUser, Create, ReadUser, Find,
                  CreateOrUpdate, Link, Fails, RollsBack
    <2> QED
      BY <2>1
  <1> QED
    BY <1>3, <1>4, <1>5, <1>6

\* No call that had read an account as one member's gives it to another, however late
\* its write: a read "this account is free" is what is stale, never "this is mine".
THEOREM TakenUnseen == Spec => TakenOnlyUnseen
  <1>1. ASSUME SignUpInv, [Next]_vars, NEW a \in OauthAccounts, NEW d \in Calls,
               links[a] \in Phones, links'[a] \in Phones \ {links[a]}, todo'[d] # todo[d]
        PROVE  seen[d] # links[a]
    <2>1. links' # links
      BY <1>1
    <2>2. PICK c \in Calls : AccountStep(c)
      BY <1>1, <2>1 DEF Next, vars, accountVars, RunsOut, Ends, AccountsEnd
    <2> QED
      BY <1>1, <2>2, TakingStep, SignUpAssumption
  <1>2. SignUpInv /\ [Next]_vars =>
          [\A a \in OauthAccounts, c \in Calls :
              links[a] \in Phones /\ links'[a] \in Phones \ {links[a]} /\ todo'[c] # todo[c] =>
                  seen[c] # links[a]]_<<links, todo>>
    BY <1>1
  <1> QED
    BY <1>2, SignUpInvariant, PTL DEF Spec, TakenOnlyUnseen
=============================================================================
