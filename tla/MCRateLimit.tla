---------------------------- MODULE MCRateLimit ----------------------------
(* TLC instance of RateLimit: two devices of one name, one group, and a
   device without a name. *)
EXTENDS RateLimit, TLC

CONSTANTS a, b, c, g, n

MCIps == {a, b, c}
MCSessions == {[ip |-> a, group |-> g, name |-> n], [ip |-> b, group |-> g, name |-> n],
               [ip |-> c, group |-> g, name |-> None]}
MCRows == {[device |-> 1, group |-> 2, ens |-> 2], [device |-> None, group |-> 1, ens |-> 1],
           [device |-> 2, group |-> None, ens |-> None]}
MCSeed == [x \in {g} |-> [device |-> 1, group |-> 2, ens |-> 2]]
MCAmounts == {1, -1}
MCSymmetry == Permutations(Threads)
=============================================================================
