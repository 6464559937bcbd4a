--------------------------- MODULE MCVerification ---------------------------
(* Verification with small values for TLC. *)
EXTENDS Verification
=============================================================================
