----------------------------- MODULE MCSession -----------------------------
(* Instances of Session for TLC. *)
EXTENDS Session, TLC

(* Requests are interchangeable: safety runs may identify permutations. *)
RequestSymmetry == Permutations(Requests)
=============================================================================
