--------------------------- MODULE MCCacheAside ---------------------------
(* Instances of CacheAside for TLC. *)
EXTENDS CacheAside, TLC

(* Requests are interchangeable: safety runs may identify permutations. *)
RequestSymmetry == Permutations(Requests)

(* The edits of all five lists. *)
MCEdits == Edits
=============================================================================
