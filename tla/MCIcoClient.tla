---------------------------- MODULE MCIcoClient -----------------------------
(***************************************************************************)
(* Small instances of IcoClient.                                           *)
(***************************************************************************)
EXTENDS IcoClient, TLC

CONSTANTS alice, bob, c1, c2

MCSymmetry == Permutations({alice, bob}) \cup Permutations({c1, c2})
=============================================================================
