------------------------------ MODULE MCSignIn ------------------------------
(* TLC instance of SignIn: requests, wallets and devices are
   interchangeable. *)
EXTENDS SignIn, TLC

CONSTANTS w1, w2, a, b

MCWallets == {w1, w2}
MCIps == {a, b}
MCSymmetry == {r @@ w @@ i : r \in Permutations(Requests), w \in Permutations(MCWallets),
                             i \in Permutations(MCIps)}
=============================================================================
