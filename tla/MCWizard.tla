------------------------------ MODULE MCWizard ------------------------------
(* TLC instance of Wizard: one wallet that batches and one that does not. *)
EXTENDS Wizard

CONSTANTS smart, plain

MCWallets == {smart, plain}
MCBatching == {smart}
=============================================================================
