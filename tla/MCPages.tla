------------------------------ MODULE MCPages ------------------------------
(* Instances of Pages for TLC. *)
EXTENDS Pages, TLC

CONSTANTS f1, f2

(* Requests and users are interchangeable: safety runs may identify        *)
(* permutations.                                                            *)
Symmetry == Permutations(Requests) \cup Permutations(Users)

(* An account with two pages; the Telegram session is one with one page. *)
MCAccounts == {<<f1, f2>>}
=============================================================================
