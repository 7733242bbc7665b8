------------------------------ MODULE MCInbox ------------------------------
(* Instances of Inbox for TLC. *)
EXTENDS Inbox, TLC

(* Requests are interchangeable: safety runs may identify permutations. *)
RequestSymmetry == Permutations(Requests)

(* Single messages, one behind a receipt, a receipt alone, and a batch of two. *)
MCBatches == {<<1>>, <<Receipt, 2>>, <<Receipt>>, <<1, 2>>}

(* The customer's second message replies to the first one. *)
MCReply == <<Nobody, 1>>
=============================================================================
