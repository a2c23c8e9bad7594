---------------------------- MODULE MCColdWallet ----------------------------
(***************************************************************************)
(* Small instances of ColdWallet: two generated keys and one that comes    *)
(* from a seed phrase, two of which have to sign.                          *)
(***************************************************************************)
EXTENDS ColdWallet, TLC

CONSTANTS w1, w2, pw1, pw2

MCSymmetry == Permutations({w1, w2})
=============================================================================
