----------------------------- MODULE MCConsole -----------------------------
(* TLC instance of Console. *)
EXTENDS Console, TLC

CONSTANTS ann, bob, acme, beta, tokyo

MCFirstOwner == [o \in {acme, beta} |-> ann]
MCSites == [o \in {acme, beta} |-> IF o = acme THEN {tokyo} ELSE {}]
MCSymmetry == Permutations(Tabs)
=============================================================================
