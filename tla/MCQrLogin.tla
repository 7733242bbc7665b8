----------------------------- MODULE MCQrLogin -----------------------------
(* Instances of QrLogin for TLC. *)
EXTENDS QrLogin

CONSTANTS a1, a2, a3, k1, k2

(* Two attempts under one sessionId, and one under its own. *)
SharedKey == [a \in {a1, a2, a3} |-> IF a = a3 THEN k2 ELSE k1]
=============================================================================
