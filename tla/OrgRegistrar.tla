---------------------------- MODULE OrgRegistrar ----------------------------
(***************************************************************************)
(* The Member layer (OrgRegistrar.sol): one name per person in the         *)
(* registry of the organization, made at the first onboarding anywhere,    *)
(* and an optional role that counts at every branch.                       *)
(*                                                                         *)
(* A transaction runs alone, so a call is one step, or a conjunct of the   *)
(* step of the registrar that makes the call.                              *)
(***************************************************************************)
CONSTANTS
  Accounts, Labels, Roles, None,
  OrgSetters        \* hold ROLE_SET_ORG_ROLE

VARIABLES
  labelOf,          \* account -> its Member name, None before it is a Member
  orgRole,          \* account -> its organization-wide role
  names,            \* external: labels registered in the registry of the organization
  struck            \* history: names the organization unregistered there

org == <<labelOf, orgRole, names, struck>>

OrgInit ==
  /\ labelOf = [a \in Accounts |-> None]
  /\ orgRole = [a \in Accounts |-> None]
  /\ names = {} /\ struck = {}

\* A mistake: every onboarding makes a new name.
EnsureMemberAgain(label, account) ==
  /\ label \notin names
  /\ names' = names \union {label}
  /\ labelOf' = [labelOf EXCEPT ![account] = label]
  /\ UNCHANGED struck
\* ensureMember: whoever has a name keeps it, whatever label the call carries.
EnsureMember(label, account) ==
  /\ IF labelOf[account] # None
       THEN UNCHANGED <<labelOf, names>>
       ELSE /\ label \notin names
            /\ names' = names \union {label}
            /\ labelOf' = [labelOf EXCEPT ![account] = label]
  /\ UNCHANGED struck

\* setOrgRole: the role need not be defined at any branch.
SetOrgRole(caller, account, r) ==
  /\ caller \in OrgSetters
  /\ orgRole' = [orgRole EXCEPT ![account] = r]
  /\ UNCHANGED <<labelOf, names, struck>>

\* External: the organization, which holds every right in its registry, registers a
\* name there (a branch is one) or unregisters one, a Member's too: labelOf stays.
RegisterInOrg(l) ==
  /\ l \notin names
  /\ names' = names \union {l}
  /\ UNCHANGED <<labelOf, orgRole, struck>>

UnregisterInOrg(l) ==
  /\ l \in names
  /\ names' = names \ {l}
  /\ struck' = struck \union {l}
  /\ UNCHANGED <<labelOf, orgRole>>

OrgTypeOK ==
  /\ labelOf \in [Accounts -> Labels \union {None}]
  /\ orgRole \in [Accounts -> Roles \union {None}]
  /\ names \subseteq Labels /\ struck \subseteq Labels
=============================================================================
