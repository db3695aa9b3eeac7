-------------------------------- MODULE Calls --------------------------------
(***************************************************************************)
(* Requests as the modules of a sign-up see them: what each asks, the      *)
(* awaits it still has to do, and what it was answered.                    *)
(***************************************************************************)
EXTENDS Naturals, Sequences

CONSTANTS Calls,   \* requests, and what a request leaves running behind it
          Nobody   \* no call, no member

VARIABLES job,     \* [Calls -> what it asks, a record with its kind]
          todo,    \* [Calls -> awaits still to do; the last one is the answer]
          answer   \* [Calls -> what the client got]

Answers == {"ok", "refused", "masked", "verified", "registered"}

At(c, await) == todo[c] # <<>> /\ Head(todo[c]) = await
Goes(c) == todo' = [todo EXCEPT ![c] = Tail(@)]
Turns(c, awaits) == todo' = [todo EXCEPT ![c] = awaits]
Working(c) == todo[c] # <<>> /\ Head(todo[c]) \notin Answers

Reply(c) ==
    /\ todo[c] # <<>> /\ Head(todo[c]) \in Answers
    /\ answer' = [answer EXCEPT ![c] = Head(todo[c])]
    /\ Goes(c)
    /\ UNCHANGED job
=============================================================================
