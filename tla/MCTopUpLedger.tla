---------------------------- MODULE MCTopUpLedger ----------------------------
(* Instance of TopUpLedger for TLC. *)
EXTENDS TopUpLedger, TLC

MCSymmetry == Permutations(Requests) \cup Permutations(Deliveries)
=============================================================================
