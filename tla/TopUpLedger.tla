----------------------------- MODULE TopUpLedger -----------------------------
(***************************************************************************)
(* TopUp implements WalletLedger, whichever way its windows overlap.  The  *)
(* history variable `since` remembers, for every handler that has read     *)
(* originBalance and may still overwrite the balance, which balances the   *)
(* wallet has had since then.                                              *)
(***************************************************************************)
EXTENDS TopUp

VARIABLE since                \* [Actors -> SUBSET Nat], history

\* Handlers between reading originBalance and overwriting the balance.  A booking
\* reads it before the card is charged, the others after that.
Window == {a \in Actors : \/ pc[a] = "save"
                          \/ a \in Requests /\ pc[a] \in {"prepare", "pay"}
                                            /\ ask[a].flow \in BookingFlows}

Remember ==
    since' = [a \in Actors |-> IF a \in Window' THEN since[a] \cup {balance'} ELSE {}]

WindowSpec == /\ Init /\ since = [a \in Actors |-> {}]
              /\ [][Next /\ Remember]_<<vars, since>>

FairWindowSpec == WindowSpec /\ Fairness

Ledger == INSTANCE WalletLedger WITH Owners <- Actors

\* However the paying methods, the callbacks and the PHP API's charges overlap, the
\* balance a top-up leaves is one the wallet had between its read and its write
\* plus the amount charged to the card.  Updates are lost only inside a window: a
\* top-up nobody overlaps adds exactly its amount, and no charge is lost that was
\* made before the read.
ImplementsLedger == Ledger!LedgerSpec
=============================================================================
