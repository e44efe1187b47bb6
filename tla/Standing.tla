------------------------------ MODULE Standing ------------------------------
(***************************************************************************)
(* What a branch promises about memberships: a person stands at a branch   *)
(* under one label and one role, or not at all.  A standing is given whole *)
(* and ends whole, one person's at a time; it is never altered in between, *)
(* so a promotion is an end and a new beginning.  Whoever ever stood       *)
(* somewhere has a Member name for ever; and no two people are given the   *)
(* same one, unless the organization itself struck it from its registry.   *)
(***************************************************************************)
CONSTANTS Accounts, Labels, Roles, None

VARIABLES
  standing,       \* account -> [label, role], None without a membership
  name,           \* account -> Member name, None before the first membership
  struck          \* names the organization struck from its registry

Init ==
  /\ standing = [a \in Accounts |-> None]
  /\ name = [a \in Accounts |-> None]
  /\ struck = {}

Named(a, n) ==
  IF name[a] # None THEN UNCHANGED name
  ELSE /\ n \in struck \/ \A b \in Accounts : name[b] # n
       /\ name' = [name EXCEPT ![a] = n]

Begin(a, n, s) ==
  /\ standing[a] = None
  /\ standing' = [standing EXCEPT ![a] = s]
  /\ Named(a, n)
  /\ UNCHANGED struck

End(a) ==
  /\ standing' = [standing EXCEPT ![a] = None]
  /\ UNCHANGED <<name, struck>>

Enrol(a, n) == Named(a, n) /\ UNCHANGED <<standing, struck>>

Strike(n) == struck' = struck \union {n} /\ UNCHANGED <<standing, name>>

Next ==
  \/ \E a \in Accounts :
       \/ End(a)
       \/ \E n \in Labels : Enrol(a, n) \/ \E s \in [label : Labels, role : Roles] : Begin(a, n, s)
  \/ \E n \in Labels : Strike(n)

Spec == Init /\ [][Next]_<<standing, name, struck>>
=============================================================================
