------------------------------ MODULE MCGateway ------------------------------
(* TLC instances of Gateway: one or two devices, two names, two groups. *)
EXTENDS Gateway

CONSTANTS n1, n2, t1, g1, g2

MCNames == {n1, n2}
MCOneName == {n1}
MCTiers == {t1}
MCGroups == {g1, g2}
MCGroup == {g1}
MCIdents == [name : Names, tier : Tiers, user : Names \union {None}]

\* Two groups of one tier.
MCOneGroup == (g1 :> t1)
MCTwoGroups == (g1 :> t1) @@ (g2 :> t1)
\* ENS puts each name in a group of its own; only n1 has a row in users,
\* and there it is a member of the other one.
MCUsers == [u \in Names \union {Anon} |-> IF u = n1 THEN [group |-> g2, disabled |-> FALSE] ELSE None]
MCMember == [u \in Names \union {Anon} |-> IF u = n1 THEN [group |-> g1, disabled |-> FALSE] ELSE None]
MCPublished == [n \in Names |-> IF n = n1 THEN g1 ELSE g2]

BothWays == BOOLEAN
Online == {TRUE}

MCSymmetry == Permutations(Workers)
=============================================================================
