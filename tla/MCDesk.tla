------------------------------- MODULE MCDesk -------------------------------
(* TLC instance of Desk. *)
EXTENDS Desk, TLC

CONSTANTS ann, bob

MCWallets == {ann, bob}
MCOrigins == {"form", "sync", "people", "other"}

\* Nothing tells the wallets apart: a label has one holder, so CHOOSE chooses none.
MCSymmetry == Permutations(MCWallets)
=============================================================================
