----------------------------- MODULE Challenge -----------------------------
(***************************************************************************)
(* What the console promises about sign-in challenges: one that was issued *)
(* to a device is accepted at most once and from that device only, and may *)
(* at any time cease to be good for anything.  How long it lives and in    *)
(* what structure is not said here; SignIn shows that web/lib/portal       *)
(* keeps the promise.                                                      *)
(***************************************************************************)
EXTENDS Sequences

CONSTANTS Nonces, Ips, None

VARIABLES
  holder,     \* nonce -> the device it was issued to, None before that
  good,       \* the nonces that may still be accepted
  takers      \* nonce -> the devices it was accepted from

Init ==
  /\ holder = [c \in Nonces |-> None]
  /\ good = {}
  /\ takers = [c \in Nonces |-> <<>>]

\* A challenge for ip; older ones may be given up for it.
Issue(c, ip, S) ==
  /\ holder[c] = None
  /\ holder' = [holder EXCEPT ![c] = ip]
  /\ good' = (good \ S) \union {c}
  /\ UNCHANGED takers

Accept(c, S) ==
  /\ c \in good
  /\ takers' = [takers EXCEPT ![c] = Append(@, holder[c])]
  /\ good' = good \ (S \union {c})
  /\ UNCHANGED holder

Expire(S) == good' = good \ S /\ UNCHANGED <<holder, takers>>

Next ==
  \E S \in SUBSET Nonces :
    \/ Expire(S)
    \/ \E c \in Nonces : Accept(c, S) \/ \E ip \in Ips : Issue(c, ip, S)

Spec == Init /\ [][Next]_<<holder, good, takers>>
=============================================================================
