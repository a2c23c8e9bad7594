-------------------------- MODULE MCPaymentGateway --------------------------
(***************************************************************************)
(* Small instances of PaymentGateway.                                      *)
(***************************************************************************)
EXTENDS PaymentGateway, TLC

CONSTANTS t1, t2, p1, f1, f2

\* The gateway refuses an amount of 0 only.
SignedAmounts == {-1, 4}

MCSymmetry == Permutations({t1, t2}) \cup Permutations({f1, f2})
=============================================================================
