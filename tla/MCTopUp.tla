------------------------------- MODULE MCTopUp -------------------------------
(***************************************************************************)
(* Instance of TopUp for TLC.  Requests and callbacks are interchangeable: *)
(* no definition of TopUp tells one request from another.                  *)
(***************************************************************************)
EXTENDS TopUp, TLC

MCSymmetry == Permutations(Requests) \cup Permutations(Deliveries)
=============================================================================
