------------------------------ MODULE VerifyCode ------------------------------
(***************************************************************************)
(* The code a phone is sent by SMS, and its validation: sendSMSAuthCode    *)
(* and validatorAuthCode of auth.service.ts over one key of the cache.     *)
(* Every step of a validation reads the key again, and writes it back      *)
(* whole.  A send gives its code and its crumb, which are called like it.  *)
(*                                                                         *)
(* Left out: two sends within a second, whose crumbs would be the same;    *)
(* a cache that fails; the development environment, which sends nothing.   *)
(***************************************************************************)
EXTENDS Calls

CONSTANTS CodePhone,   \* the phone
          MaxRetry     \* MAX_AUTH_RETRY

ASSUME CodeAssumption == MaxRetry \in Nat

VARIABLES info,    \* what the cache keeps: None, or a code with its retries
          stale,   \* sends whose code has run out
          outbox,  \* sends whose SMS may have reached the phone
          read     \* [Calls -> what it has read of info]

codeVars == <<info, stale, outbox, read>>

NoInfo == [code |-> Nobody, retry |-> 0, authenticated |-> FALSE]
Fresh(c) == [code |-> c, retry |-> MaxRetry, authenticated |-> FALSE]

\* What a validation keeps of its reads: the first one, the one it is about to
\* change, and whether crumb and code were right.
NoRead == [first |-> NoInfo, last |-> NoInfo, crumb |-> FALSE, code |-> FALSE]

CodesInit ==
    /\ info = NoInfo
    /\ stale = {}
    /\ outbox = {}
    /\ read = [c \in Calls |-> NoRead]

CodeJobs == {"send", "validate"}
\* Variant: the cache is set before the gateway has answered.
SendKeptFirst == <<"look", "keep", "sms", "ok">>
Send == <<"look", "sms", "keep", "ok">>
Validate == <<"first", "crumb", "code", "compare">>
CodeAwaits(kind) == IF kind = "send" THEN Send ELSE Validate

Refuses(c) == Turns(c, <<"refused">>)
Reads(c, what) == /\ read' = [read EXCEPT ![c] = what]
                  /\ UNCHANGED <<job, answer, info, stale, outbox>>

\* 1001: a code that has not run out is not sent again.
Look(c) ==
    /\ At(c, "look")
    /\ IF info # NoInfo /\ info.code \notin stale THEN Refuses(c) ELSE Goes(c)
    /\ UNCHANGED <<job, answer, codeVars>>

\* The gateway; when it fails the message may have gone out or not.
Sms(c) ==
    /\ At(c, "sms")
    /\ \/ Goes(c) /\ outbox' = outbox \cup {c}
       \/ Refuses(c) /\ outbox' \in {outbox, outbox \cup {c}}
    /\ UNCHANGED <<job, answer, info, stale, read>>

\* setCacheAuthVerifyCodeInfo returns its error, and the send goes on.
Keep(c) ==
    /\ At(c, "keep") /\ Goes(c)
    /\ info' \in {Fresh(c), info}
    /\ UNCHANGED <<job, answer, stale, outbox, read>>

\* Five minutes have passed since a send, and later the key is gone.
RunsOut == /\ info # NoInfo
           /\ \/ stale' = stale \cup {info.code} /\ stale' # stale /\ UNCHANGED info
              \/ info.code \in stale /\ info' = NoInfo /\ UNCHANGED stale
           /\ UNCHANGED <<job, todo, answer, outbox, read>>

\* 1019 when there is none; afterwards a key that is gone is a TypeError.
First(c) ==
    /\ At(c, "first")
    /\ IF info = NoInfo THEN Refuses(c) ELSE Goes(c)
    /\ Reads(c, [read[c] EXCEPT !.first = info])
VerifyAuthCrumb(c) ==
    /\ At(c, "crumb")
    /\ IF info = NoInfo THEN Refuses(c) ELSE Goes(c)
    /\ Reads(c, [read[c] EXCEPT !.crumb = (info.code = job[c].crumb)])
VerifyAuthCode(c) ==
    /\ At(c, "code")
    /\ IF info = NoInfo THEN Refuses(c) ELSE Goes(c)
    /\ Reads(c, [read[c] EXCEPT !.code = (info.code = job[c].code)])

\* Variant: one of the two is enough.
MismatchOfBoth(r) == ~r.crumb /\ ~r.code
Mismatch(r) == ~r.crumb \/ ~r.code
Compare(c) ==
    /\ At(c, "compare")
    /\ Turns(c, IF read[c].first.retry > 0 /\ Mismatch(read[c])
                THEN <<"again", "lower", "refused">>
                ELSE <<"again", "authenticate", "member">>)
    /\ UNCHANGED <<job, answer, codeVars>>

\* setRetryVerifyCodeCount, setVerifyCodeSuccess: read, change, write back.
Again(c) ==
    /\ At(c, "again")
    /\ IF info = NoInfo THEN Refuses(c) ELSE Goes(c)
    /\ Reads(c, [read[c] EXCEPT !.last = info])
Lower(c) ==
    /\ At(c, "lower") /\ Goes(c)
    /\ info' = IF ~read[c].last.authenticated /\ read[c].last.retry > 0
               THEN [read[c].last EXCEPT !.retry = @ - 1] ELSE read[c].last
    /\ UNCHANGED <<job, answer, stale, outbox, read>>
Authenticate(c) ==
    /\ At(c, "authenticate") /\ Goes(c)
    /\ info' = [read[c].last EXCEPT !.authenticated = TRUE]
    /\ UNCHANGED <<job, answer, stale, outbox, read>>

\* A member is told so; 1008 when it was validated before, 1005 when it was too
\* late or tried too often.
Verdict(c, registered) ==
    LET first == read[c].first IN
    /\ At(c, "member")
    /\ Turns(c, IF registered THEN <<"registered">>
                ELSE IF first.authenticated \/ first.code \in stale \/ first.retry <= 0
                THEN <<"refused">> ELSE <<"verified">>)
    /\ UNCHANGED <<job, answer, codeVars>>

CodeStep(c, registered) ==
    /\ job[c].kind \in CodeJobs
    /\ \/ Look(c) \/ Sms(c) \/ Keep(c) \/ First(c) \/ VerifyAuthCrumb(c)
       \/ VerifyAuthCode(c) \/ Compare(c) \/ Again(c) \/ Lower(c) \/ Authenticate(c)
       \/ Verdict(c, registered)

-----------------------------------------------------------------------------
Infos == [code : Calls \cup {Nobody}, retry : 0..MaxRetry, authenticated : BOOLEAN]
CodesTypeOK ==
    /\ info \in Infos
    /\ stale \subseteq Calls /\ outbox \subseteq Calls
    /\ read \in [Calls -> [first : Infos, last : Infos, crumb : BOOLEAN, code : BOOLEAN]]

\* The code in the cache has been handed to the SMS gateway, and a validation that
\* succeeds named one that was: no validation that writes back what it read, late,
\* brings in another.
CodesWereSent ==
    /\ info # NoInfo => info.code \in outbox
    /\ \A c \in Calls : answer[c] = "verified" => job[c].code \in outbox
=============================================================================
