------------------------------ MODULE MCInquiry ------------------------------
(* Instance of Inquiry for TLC: pairs and passes are interchangeable. *)
EXTENDS Inquiry, TLC

MCSymmetry == Permutations(Pairs) \cup Permutations(Passes)
=============================================================================
