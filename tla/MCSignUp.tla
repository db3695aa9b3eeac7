------------------------------- MODULE MCSignUp -------------------------------
(***************************************************************************)
(* Instance of SignUp for TLC: two members, two accounts, four calls.      *)
(* Calls that meet in a row, a key or a document are brought together.     *)
(***************************************************************************)
EXTENDS SignUp, TLC

CONSTANTS c1, c2, c3, c4, p1, p2, a1, a2

Idle == [kind |-> "idle"]
J(k, p, a) == [kind |-> k, phone |-> p, account |-> a]
Mark(cash, l, n) == [cash |-> cash, letter |-> l, chats |-> n]
Add(m) == [kind |-> "add", mark |-> m]
Default(c) == [kind |-> "default", after |-> c]
Code(crumb, code) == [kind |-> "validate", crumb |-> crumb, code |-> code]

Scene(j1, j2, j3, j4, regd, o1, o2, n) ==
    [jobs |-> c1 :> j1 @@ c2 :> j2 @@ c3 :> j3 @@ c4 :> j4,
     registered |-> regd, owned |-> a1 :> o1 @@ a2 :> o2, badge |-> n]

\* Every two calls for one account, or of one member, and a login or an unbind.
AccountScenes ==
    {Scene(J(k1, p1, a1), J(k2, p, a1), J(k3, p1, a1), Idle, regd, o, "none", NoDoc) :
        k1 \in AccountJobs, k2 \in AccountJobs, p \in {p1, p2}, k3 \in {"login", "unbind"},
        regd \in {{p1, p2}, {p2}}, o \in {"none", "free", p2}}

MCScenarios == AccountScenes \cup {
    \* A registration, its default data, the first notification, another's bind.
    Scene(J("oauthRegister", p1, a1), Default(c1), Add(Mark(FALSE, "u", 0)),
          J("bind", p2, a1), {p2}, "free", "none", NoDoc),
    Scene(J("oauthRegister", p1, a1), Default(c1), J("oauthRegister", p1, a2),
          J("oauthRegister", p2, a1), {}, "none", "free", NoDoc),
    \* The phone's code, and a registration with it.
    Scene([kind |-> "send"], Code(c1, c1), Code(c1, c4), J("register", p1, a1),
          {}, "none", "none", 0),
    Scene([kind |-> "send"], [kind |-> "send"], Code(c1, c2), Code(c2, c2),
          {}, "none", "none", 0),
    Scene([kind |-> "send"], Code(c4, c1), Code(c4, c1), J("register", p1, a1),
          {p2}, "none", "none", 0),
    \* The member's notifications.
    Scene(Add(Mark(FALSE, "d", 2)), [kind |-> "readed", of |-> c1], Default(Nobody),
          Add(Mark(TRUE, "p", 0)), {p1}, "none", "none", 0),
    Scene(Add(Mark(FALSE, "d", 1)), [kind |-> "reset"], Add(Mark(FALSE, "x", 0)),
          [kind |-> "readAll", of |-> <<c1, c3>>], {p1}, "none", "none", 0),
    Scene(Add(Mark(FALSE, "q", 0)), Add(Mark(FALSE, "a", 0)), Add(Mark(FALSE, "v", 0)),
          Default(Nobody), {p1}, "none", "none", NoDoc) }
=============================================================================
