------------------------------ MODULE MCReader ------------------------------
(* TLC instance of Reader. *)
EXTENDS Reader, TLC

CONSTANTS b1, b2, ann, bob

MCOrder == <<b1, b2>>
MCWallets == {ann, bob}
MCSymmetry == Permutations(MCWallets)
=============================================================================
