------------------------------ MODULE MCNovaIco -----------------------------
(***************************************************************************)
(* Small instances of NovaIco.  The constants keep the relations of        *)
(* constants.rs that the properties depend on: three decreasing rates,     *)
(* MIN_PURCHASE < MAX_PURCHASE with arguments on both sides of each,       *)
(* divisions that truncate, products on both sides of U64_MAX.             *)
(***************************************************************************)
EXTENDS NovaIco, TLC

CONSTANTS alice, bob

MCUsers == {alice, bob}
MCSymmetry == Permutations(MCUsers)
============================================================================
