------------------------------ MODULE MCPortal ------------------------------
(* TLC instances of Portal: two names, each with a tier of its own. *)
EXTENDS Portal

CONSTANTS n1, n2, t1, t2

MCIdents == {[name |-> n1, tier |-> t1, user |-> n1], [name |-> n2, tier |-> t2, user |-> n2]}
MCNames == {n1, n2}
MCTiers == {t1, t2}

\* Threads, and the two members together with their tiers; not the addresses,
\* which occur in the order in which sets are enumerated.
MCSwap == (n1 :> n2) @@ (n2 :> n1) @@ (t1 :> t2) @@ (t2 :> t1)
MCSame == [x \in {n1, n2, t1, t2} |-> x]
MCSymmetry == {w @@ m : w \in Permutations(Workers), m \in {MCSwap, MCSame}}
=============================================================================
