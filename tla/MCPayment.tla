------------------------------ MODULE MCPayment ------------------------------
(* The constants of Payment get their values, all of them model values, in the *)
(* configurations.  ChargeIsHonoured is a liveness property, so that no set of *)
(* them is taken to be symmetric.                                              *)
EXTENDS Payment, TLC
=============================================================================
