------------------------------- MODULE MCSync -------------------------------
(* Instances of Sync for TLC. *)
EXTENDS Sync, TLC

(* Of the two dialogs one has up to three messages, the other one. *)
MCMaxMessages == 2 :> 1 @@ 1 :> 3

(* The second message replies to the first one. *)
MCReplyTo == [m \in Message |-> IF m = <<1, 2>> THEN 1 ELSE 0]

(* The other dialog has a message of the provider, without a text. *)
MCBare == {<<2, 1>>}
=============================================================================
