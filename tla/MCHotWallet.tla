---------------------------- MODULE MCHotWallet -----------------------------
(***************************************************************************)
(* Small instances of HotWallet.                                           *)
(***************************************************************************)
EXTENDS HotWallet, TLC

CONSTANTS w1, w2, k1, k2, pw1, pw2

MCSymmetry ==
  Permutations(Wallets) \cup Permutations(Keys) \cup Permutations(Passwords)
=============================================================================
