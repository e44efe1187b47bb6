------------------------------ MODULE Parties ------------------------------
(* What SignIn and Wizard speak of alike: wallets, and the absence of one. *)
CONSTANTS
  Wallets,
  None           \* null and undefined in the code, address(0) in the contracts

ASSUME PartiesAssumption == None \notin Wallets
=============================================================================
