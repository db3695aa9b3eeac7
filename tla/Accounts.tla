------------------------------- MODULE Accounts -------------------------------
(***************************************************************************)
(* Members and their accounts at one OAuth provider: registration, with or *)
(* without an account, login, bind and unbind of auth.controller.ts, and   *)
(* the LINE bot's line-user-bot.controller.ts, over MySQL.  The four       *)
(* providers' controllers and repositories are the same code but for names.*)
(*                                                                         *)
(* An account's row is read outside the transaction that then writes it.   *)
(*                                                                         *)
(* Left out: tokens, profiles, suspension and invitation codes (a check    *)
(* that refuses is a failing await), and that LINE's key is not unique.    *)
(***************************************************************************)
EXTENDS Calls, FiniteSets

CONSTANTS Phones,        \* phone numbers, one for each member
          OauthAccounts  \* accounts at the provider

VARIABLES users,   \* [Phones -> the call that registered it, "before", or Nobody]
          links,   \* [OauthAccounts -> owner; "free" without; "none" without a row]
          tx,      \* [Calls -> state of the transaction]
          lock,    \* [phones and accounts -> call whose transaction holds the row]
          seen,    \* [Calls -> what it read of the account, Nobody before]
          own      \* [Calls -> what its transaction has written]

accountVars == <<users, links, tx, lock, seen, own>>

Unwritten == [user |-> FALSE, owner |-> Nobody]

AccountJobs ==
    {"oauthRegister", "register", "login", "bind", "unbind", "botLine", "botUpdate", "botUser"}

\* The awaits of every handler, the same for the four providers.
OauthRegister ==
    <<"begin", "crumb", "create", "find", "link", "commit", "events", "profile", "ok">>
Register == <<"begin", "crumb", "create", "commit", "events", "profile", "ok">>
Bind == <<"begin", "user", "find", "link", "commit", "token", "ok">>
Login == <<"find", "suspended", "relink", "profile", "ok">>
Unbind == <<"unlink", "ok">>
\* The bot's never commit, and its update answers only after a commit.
BotLine == <<"begin", "link", "ok">>
BotUpdate == <<"begin", "find", "link">>
BotUser == <<"begin", "create", "ok">>
AccountAwaits(kind) ==
    CASE kind = "oauthRegister" -> OauthRegister [] kind = "register" -> Register
      [] kind = "bind" -> Bind [] kind = "login" -> Login [] kind = "unbind" -> Unbind
      [] kind = "botLine" -> BotLine [] kind = "botUpdate" -> BotUpdate
      [] kind = "botUser" -> BotUser

Rows == Phones \cup OauthAccounts

AccountsInit(registered, owned) ==
    /\ users = [p \in Phones |-> IF p \in registered THEN "before" ELSE Nobody]
    /\ links = owned
    /\ tx = [c \in Calls |-> "none"]
    /\ lock = [r \in Rows |-> Nobody]
    /\ seen = [c \in Calls |-> Nobody]
    /\ own = [c \in Calls |-> Unwritten]

-----------------------------------------------------------------------------
Acquire(c, r) == /\ lock[r] \in {Nobody, c}
                 /\ lock' = [lock EXCEPT ![r] = c]
\* Variant: the rows stay locked.
ReleaseNothing(c) == UNCHANGED lock
Release(c) == lock' = [r \in Rows |-> IF lock[r] = c THEN Nobody ELSE lock[r]]

Begin(c) ==
    /\ At(c, "begin") /\ Goes(c)
    /\ tx' = [tx EXCEPT ![c] = "open"]
    /\ UNCHANGED <<job, answer, users, links, lock, seen, own>>

\* Checks and calls of others that change nothing here: the code of the phone in
\* PHP's cache, the suspension, the token, the profile, PHP's own registration.
Checks == {"crumb", "suspended", "events", "token", "profile"}
Asks(c) ==
    /\ \E await \in Checks : At(c, await)
    /\ Goes(c)
    /\ UNCHANGED <<job, answer, accountVars>>

\* Variant: the statement is not part of the transaction.
CreateAtOnce(c) ==
    /\ users' = [users EXCEPT ![job[c].phone] = c]
    /\ UNCHANGED own
\* INSERT of the member; the phone is unique.
Create(c) ==
    /\ own' = [own EXCEPT ![c].user = TRUE]
    /\ UNCHANGED users
CreateUser(c) ==
    /\ At(c, "create") /\ Goes(c)
    /\ users[job[c].phone] = Nobody
    /\ Acquire(c, job[c].phone)
    /\ Create(c)
    /\ UNCHANGED <<job, answer, links, tx, seen>>

\* The member to bind must be there and have no account at the provider.
ReadUser(c) ==
    /\ At(c, "user") /\ Goes(c)
    /\ users[job[c].phone] # Nobody
    /\ \A a \in OauthAccounts : links[a] # job[c].phone
    /\ UNCHANGED <<job, answer, accountVars>>

\* Variant: "this account is bound already" is not checked.
MayGoOnAnyway(c, owner) == TRUE
\* 1016 refuses to bind what is bound, 1014 to log in with what is not, n7019 to
\* update what is not there.
MayGoOn(c, owner) ==
    CASE job[c].kind = "login" -> owner \in Phones
      [] job[c].kind = "botUpdate" -> owner # "none"
      [] OTHER -> owner \notin Phones
Find(c) ==
    LET owner == links[job[c].account] IN
    /\ At(c, "find") /\ Goes(c)
    /\ MayGoOn(c, owner)
    /\ seen' = [seen EXCEPT ![c] = owner]
    /\ UNCHANGED <<job, answer, users, links, tx, lock, own>>

\* Variant: the statement is not part of the transaction.
LinkAtOnce(c) ==
    /\ links' = [links EXCEPT ![job[c].account] = job[c].phone]
    /\ UNCHANGED own
\* createOrUpdate: an UPDATE by the account's key when a row was found, an INSERT
\* when none was; the INSERT fails when there is one by now.
Link(c) ==
    /\ own' = [own EXCEPT ![c].owner = job[c].phone]
    /\ UNCHANGED links
CreateOrUpdate(c) ==
    LET a == job[c].account IN
    /\ At(c, "link") /\ Goes(c)
    /\ Acquire(c, a)
    /\ seen[c] \in {"none", Nobody} => links[a] = "none"
    /\ Link(c)
    /\ UNCHANGED <<job, answer, users, tx, seen>>

\* login: the same UPDATE with the owner it read, outside any transaction.
Relink(c) ==
    LET a == job[c].account IN
    /\ At(c, "relink") /\ Goes(c)
    /\ lock[a] = Nobody
    /\ links' = [links EXCEPT ![a] = seen[c]]
    /\ UNCHANGED <<job, answer, users, tx, lock, seen, own>>

\* updateUserIdToNull: every account of the member, none of which may be locked.
Unlink(c) ==
    LET p == job[c].phone IN
    /\ At(c, "unlink") /\ Goes(c)
    /\ \A a \in OauthAccounts :
          lock[a] # Nobody => links[a] # p /\ own[lock[a]].owner # p
    /\ links' = [a \in OauthAccounts |-> IF links[a] = p THEN "free" ELSE links[a]]
    /\ UNCHANGED <<job, answer, users, tx, lock, seen, own>>

\* commit, and what afterCommit starts and does not await.
Commit(c) ==
    LET starts == {d \in Calls : job[d].kind = "default" /\ job[d].after = c /\ own[c].user}
    IN
    /\ At(c, "commit")
    /\ todo' = [d \in Calls |-> IF d \in starts THEN <<"check", "ok">>
                                ELSE IF d = c THEN Tail(todo[c]) ELSE todo[d]]
    /\ users' = IF own[c].user THEN [users EXCEPT ![job[c].phone] = c] ELSE users
    /\ links' = IF own[c].owner # Nobody
                THEN [links EXCEPT ![job[c].account] = own[c].owner] ELSE links
    /\ tx' = [tx EXCEPT ![c] = "committed"]
    /\ own' = [own EXCEPT ![c] = Unwritten]
    /\ Release(c)
    /\ UNCHANGED <<job, answer, seen>>

-----------------------------------------------------------------------------
(* What goes wrong.                                                        *)

\* An UPDATE that fails starts a rollback nobody awaits, and so does the bot's
\* INSERT; a commit that fails is over for Sequelize.
Rolling(c) == \/ At(c, "commit")
              \/ At(c, "link") /\ (seen[c] = "free" \/ job[c].kind \in {"botLine", "botUpdate"})

\* What a request still does when an await throws: the interceptor rolls back,
\* which throws when the transaction is over already and then hides the reason.
\* The plain registration has rolled back before.
OnFailure(c) ==
    IF tx[c] = "none" THEN <<"refused">>
    ELSE IF tx[c] = "committed" \/ Rolling(c) THEN <<"masked">>
    ELSE IF job[c].kind = "register" /\ ~At(c, "crumb") THEN <<"rollback", "masked">>
    ELSE <<"rollback", "refused">>

Fails(c) ==
    /\ Working(c) /\ ~At(c, "rollback")
    /\ Turns(c, OnFailure(c))
    /\ tx' = IF Rolling(c) THEN [tx EXCEPT ![c] = "rolling"] ELSE tx
    /\ UNCHANGED <<job, answer, users, links, lock, seen, own>>

RollsBack(c) ==
    /\ \/ At(c, "rollback") /\ Goes(c)
       \/ tx[c] = "rolling" /\ UNCHANGED todo
    /\ tx' = [tx EXCEPT ![c] = "gone"]
    /\ own' = [own EXCEPT ![c] = Unwritten]
    /\ Release(c)
    /\ UNCHANGED <<job, answer, users, links, seen>>

AccountStep(c) ==
    /\ job[c].kind \in AccountJobs
    /\ \/ Begin(c) \/ Asks(c) \/ CreateUser(c) \/ ReadUser(c) \/ Find(c)
       \/ CreateOrUpdate(c) \/ Relink(c) \/ Unlink(c) \/ Commit(c)
       \/ Fails(c) \/ RollsBack(c)

\* The process ends: what was asked is lost, and MySQL rolls back.
AccountsEnd ==
    /\ tx' = [c \in Calls |-> IF tx[c] \in {"open", "rolling"} THEN "gone" ELSE tx[c]]
    /\ lock' = [r \in Rows |-> Nobody]
    /\ own' = [c \in Calls |-> Unwritten]
    /\ UNCHANGED <<users, links, seen>>

-----------------------------------------------------------------------------
(* Properties.                                                             *)

AccountsTypeOK ==
    /\ users \in [Phones -> Calls \cup {"before", Nobody}]
    /\ links \in [OauthAccounts -> Phones \cup {"free", "none"}]
    /\ tx \in [Calls -> {"none", "open", "rolling", "committed", "gone"}]
    /\ lock \in [Rows -> Calls \cup {Nobody}]
    /\ \A r \in Rows : lock[r] # Nobody => tx[lock[r]] \in {"open", "rolling"}
    /\ seen \in [Calls -> Phones \cup {"free", "none", Nobody}]
    /\ own \in [Calls -> [user : BOOLEAN, owner : Phones \cup {Nobody}]]

\* An account belongs to a member who is there: the two rows of a registration
\* are written together, and nobody binds or logs in a member who is not.
LinkHasUser ==
    \A a \in OauthAccounts : links[a] \in Phones => users[links[a]] # Nobody

\* A registration that is answered has its member, and one that is refused has
\* left none behind, whichever await failed.
AnswerTellsUser ==
    \A c \in Calls :
        /\ answer[c] = "ok" /\ job[c].kind \in {"oauthRegister", "register"} =>
               users[job[c].phone] = c
        /\ answer[c] = "refused" => \A p \in Phones : users[p] # c

\* "this account is bound already": an account goes from one member straight to
\* another only by a call that had not read it as the first one's, however much
\* later it writes.
TakenOnlyUnseen ==
    [][\A a \in OauthAccounts, c \in Calls :
          links[a] \in Phones /\ links'[a] \in Phones \ {links[a]} /\ todo'[c] # todo[c] =>
              seen[c] # links[a]]_<<links, todo>>
=============================================================================
