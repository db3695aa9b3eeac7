-------------------------------- MODULE SignUp --------------------------------
(***************************************************************************)
(* A sign-up and what goes on around it: the code sent to the phone        *)
(* (VerifyCode), the registration and the accounts of the OAuth provider   *)
(* (Accounts), and the member's notifications (Notify), in one process.    *)
(* A validation looks whether the phone is registered; the commit of a     *)
(* registration starts the member's default notification data and does not *)
(* wait for it, so that the first notification may come before it.         *)
(***************************************************************************)
EXTENDS Accounts, VerifyCode, Notify

CONSTANTS Scenarios   \* [jobs, registered, owned, badge]: what is asked, and of what state

\* What a call may ask; idle ones ask nothing.
Jobs == [kind : AccountJobs, phone : Phones, account : OauthAccounts]
        \cup [kind : {"send", "reset", "idle"}]
        \cup [kind : {"validate"}, crumb : Calls, code : Calls]
        \cup [kind : {"add"}, mark : Marks]
        \cup [kind : {"readed"}, of : Calls]
        \cup [kind : {"readAll"}, of : Seq(Calls)]
        \cup [kind : {"default"}, after : Calls \cup {Nobody}]

ASSUME SignUpAssumption ==
    /\ Nobody \notin Calls \cup Phones /\ "before" \notin Calls \cup {Nobody}
    /\ {"free", "none"} \cap Phones = {} /\ CodePhone \in Phones
    /\ IsFiniteSet(Calls)
    /\ \A s \in Scenarios : /\ s.jobs \in [Calls -> Jobs]
                            /\ s.registered \subseteq Phones
                            /\ s.owned \in [OauthAccounts -> s.registered \cup {"free", "none"}]
                            /\ s.badge \in {NoDoc, 0}

vars == <<job, todo, answer, accountVars, codeVars, notifyVars>>

Awaits(j) == CASE j.kind \in AccountJobs -> AccountAwaits(j.kind)
               [] j.kind \in CodeJobs -> CodeAwaits(j.kind)
               [] j.kind \in NotifyJobs -> NotifyAwaits(j)
               [] OTHER -> <<>>

Init == \E s \in Scenarios :
    /\ job = s.jobs
    /\ todo = [c \in Calls |-> Awaits(s.jobs[c])]
    /\ answer = [c \in Calls |-> "none"]
    /\ AccountsInit(s.registered, s.owned)
    /\ CodesInit
    /\ NotifyInit(s.badge)

\* Nobody handles the failure of the default data a registration started: Node
\* ends the process, and with it every request.
Ends ==
    /\ \E d \in Calls : /\ job[d].kind = "default" /\ job[d].after # Nobody
                        /\ Working(d)
    /\ todo' = [c \in Calls |-> <<>>]
    /\ AccountsEnd
    /\ UNCHANGED <<job, answer, codeVars, notifyVars>>

Next ==
    \/ \E c \in Calls :
        \/ AccountStep(c) /\ UNCHANGED <<codeVars, notifyVars>>
        \/ CodeStep(c, users[CodePhone] # Nobody) /\ UNCHANGED <<accountVars, notifyVars>>
        \/ NotifyStep(c) /\ UNCHANGED <<accountVars, codeVars>>
        \/ Reply(c) /\ UNCHANGED <<accountVars, codeVars, notifyVars>>
    \/ RunsOut /\ UNCHANGED <<accountVars, notifyVars>>
    \/ Ends

Spec == Init /\ [][Next]_vars

-----------------------------------------------------------------------------
\* Types of the three parts; a lock belongs to a transaction that can still give
\* it back.
TypeOK == AccountsTypeOK /\ CodesTypeOK /\ NotifyTypeOK

\* The number of unread notifications is never above what was counted, whatever is
\* written late; and it is exactly that until a number that was not counted
\* is written over another: by a reader, a reset, the default data, or as the 0 of
\* an addition that had found no document.
BadgeCounts ==
    badge # NoDoc =>
        /\ badge <= Cardinality(counted)
        /\ ~overwritten => badge = Cardinality(counted)
=============================================================================
