---------------------------- MODULE WalletLedger ----------------------------
(***************************************************************************)
(* What a wallet promises its owner, with nothing said about requests,     *)
(* gateways or awaits.  A charge takes its amount away in one step and is  *)
(* refused when the balance is short.  A top-up looks at the balance and   *)
(* later replaces it by a balance the wallet really had since that look,   *)
(* plus its amount: it can undo what came in between, it cannot make up a  *)
(* balance, and it is exact when nothing came in between.                  *)
(***************************************************************************)
EXTENDS Naturals

CONSTANTS Owners,             \* who may top the wallet up
          InitialBalance      \* what the wallet holds at the start, a natural number

VARIABLES balance,            \* the wallet's balance
          credited,           \* total of every top-up so far
          debited,            \* total of every charge so far
          since               \* [Owners -> SUBSET Nat], the balances since the look;
                              \* {} for who is not topping up

ledger == <<balance, credited, debited, since>>

LedgerInit == /\ balance = InitialBalance /\ credited = 0 /\ debited = 0
              /\ since = [a \in Owners |-> {}]

\* Everybody who has looked sees the balance become b.
Seen(looks, b) ==
    [a \in Owners |-> IF looks[a] = {} THEN {} ELSE looks[a] \cup {b}]

Look(a) == /\ since' = [since EXCEPT ![a] = {balance}]
           /\ UNCHANGED <<balance, credited, debited>>

GiveUp(a) == /\ since' = [since EXCEPT ![a] = {}]
             /\ UNCHANGED <<balance, credited, debited>>

Credit(a) == /\ credited' > credited
             /\ \E b \in since[a] : balance' = b + (credited' - credited)
             /\ since' = Seen([since EXCEPT ![a] = {}], balance')
             /\ UNCHANGED debited

Debit == /\ debited' > debited
         /\ debited' - debited <= balance
         /\ balance' = balance - (debited' - debited)
         /\ since' = Seen(since, balance')
         /\ UNCHANGED credited

LedgerNext == Debit \/ \E a \in Owners : Look(a) \/ GiveUp(a) \/ Credit(a)

LedgerSpec == LedgerInit /\ [][LedgerNext]_ledger
=============================================================================
