----------------------------- MODULE Registrar ------------------------------
(***************************************************************************)
(* The registrar of a branch (BranchRegistrarV2.sol) over the registry and *)
(* the resolver of ENSv2: a catalogue of roles, memberships with the       *)
(* records and record rights that go with them, and the authority to mint  *)
(* that follows from a membership.                                         *)
(*                                                                         *)
(* Every external function is a transaction, hence one step.  Registry and *)
(* resolver are external; they also change without the registrar, by root  *)
(* holders of the registry and by members writing their own records.       *)
(*                                                                         *)
(* A registration of a label is a resource: the label and its number among *)
(* the registrations of that label.                                        *)
(***************************************************************************)
EXTENDS Naturals, OrgRegistrar

CONSTANTS
  Keys,             \* text records
  Root,             \* account -> the verbs it holds at ROOT_RESOURCE
  Delegates,        \* <<account, role>>: ROLE_MINT granted for one role
  Definitions,      \* what defineRole is called with
  CarefulSync,      \* syncMemberKeys names every key it withdraws
  MaxVersions,      \* bound: registrations of a label
  MaxChanges,       \* bound: changes of the catalogue and of organization roles
  MaxOutside        \* bound: changes of the registry behind the registrar's back

\* The writer of what the registrar writes: an entitlement or a record set by staff.
Branch == "branch"

Verbs == {"mint", "role_edit", "edit_record", "revoke"}

Resources == [label : Labels, version : 1..MaxVersions]
Records == Labels \X Keys
Memberships == [role : Roles, member : Accounts, granted : SUBSET Keys]
RoleSpecs == [onboards : BOOLEAN, open : BOOLEAN, entitled : SUBSET Keys,
              editable : SUBSET Keys, active : BOOLEAN]

ASSUME RegistrarAssumption ==
  /\ None \notin Accounts \union Labels \union Roles \union {Branch}
  /\ None \notin Resources \union Memberships \union RoleSpecs
  /\ Branch \notin Accounts
  /\ Root \in [Accounts -> SUBSET Verbs]
  /\ Delegates \subseteq Accounts \X Roles
  /\ Definitions \subseteq [onboards : BOOLEAN, open : BOOLEAN,
                            entitled : SUBSET Keys, editable : SUBSET Keys]
  /\ MaxVersions \in Nat /\ MaxChanges \in Nat /\ MaxOutside \in Nat

VARIABLES
  roleSpec,         \* role -> its definition and whether it is active, None if undefined
  membership,       \* resource -> [role, member, granted]: roleOf, memberOf, _grantedKeys
  membershipOf,     \* account -> its resource
  holder, version,  \* external, the registry: label -> owner, registrations so far
  text,             \* external, the resolver: <<label, key>> -> who wrote the value there
  may,              \* external, the resolver: <<label, key, account>> with ROLE_SET_TEXT
  closed,           \* the clock is past BRANCH_EXPIRY
  changes, outside, \* bounds
  meddled,          \* history: labels changed in the registry by somebody else
  withdrawn         \* history: <<label, key>> withdrawn by syncMemberKeys

book == <<membership, membershipOf>>
registry == <<holder, version>>
resolver == <<text, may>>
history == <<outside, meddled, withdrawn>>
vars == <<org, roleSpec, book, registry, resolver, closed, changes, history>>

Init ==
  /\ OrgInit
  /\ roleSpec = [r \in Roles |-> None]
  /\ membership = [x \in Resources |-> None]
  /\ membershipOf = [a \in Accounts |-> None]
  /\ holder = [l \in Labels |-> None]
  /\ version = [l \in Labels |-> 0]
  /\ text = [c \in Records |-> None]
  /\ may = {}
  /\ closed = FALSE
  /\ changes = 0 /\ outside = 0
  /\ meddled = {} /\ withdrawn = {}

----------------------------------------------------------------------------
(* The registry *)

\* getStatus: every name of the branch expires with it.
Available(l) == closed \/ holder[l] = None

\* register refuses an expiry in the past.
Register(l, owner) ==
  /\ Available(l) /\ ~closed
  /\ version[l] < MaxVersions
  /\ version' = [version EXCEPT ![l] = @ + 1]
  /\ holder' = [holder EXCEPT ![l] = owner]

Unregister(l) ==
  /\ holder' = [holder EXCEPT ![l] = None]
  /\ UNCHANGED version

----------------------------------------------------------------------------
(* Authority *)

Active(r) == roleSpec[r] # None /\ roleSpec[r].active

\* A mistake: a closed branch still confers authority.
EffectiveRoleForEver(a) ==
  IF membershipOf[a] # None THEN membership[membershipOf[a]].role
  ELSE IF orgRole[a] # None /\ Active(orgRole[a]) THEN orgRole[a] ELSE None
\* effectiveRole: a membership here, else the organization's role, else nothing.
EffectiveRole(a) ==
  IF membershipOf[a] # None /\ ~closed THEN membership[membershipOf[a]].role
  ELSE IF orgRole[a] # None /\ Active(orgRole[a]) THEN orgRole[a] ELSE None

\* _getRoles: minting follows from the role one has, for roles that are open.
Derived(a, r) ==
  LET mine == EffectiveRole(a) IN
  /\ mine # None /\ Active(mine) /\ roleSpec[mine].onboards
  /\ roleSpec[r] # None /\ roleSpec[r].open

MayMint(a, r) == "mint" \in Root[a] \/ <<a, r>> \in Delegates \/ Derived(a, r)

----------------------------------------------------------------------------
(* The catalogue *)

Change == changes < MaxChanges /\ changes' = changes + 1

DefineRole(caller, r, d) ==
  /\ "role_edit" \in Root[caller]
  /\ Change
  /\ roleSpec' = [roleSpec EXCEPT ![r] =
       [onboards |-> d.onboards, open |-> d.open, entitled |-> d.entitled,
        editable |-> d.editable, active |-> TRUE]]
  /\ UNCHANGED <<org, book, registry, resolver, closed, history>>

\* Retiring an undefined role changes nothing that is read.
RetireRole(caller, r) ==
  /\ "role_edit" \in Root[caller]
  /\ roleSpec[r] # None
  /\ Change
  /\ roleSpec' = [roleSpec EXCEPT ![r].active = FALSE]
  /\ UNCHANGED <<org, book, registry, resolver, closed, history>>

----------------------------------------------------------------------------
(* Memberships *)

\* A mistake: the resource is read before the registration.
MintedEarly(l) == [label |-> l, version |-> version[l]]
Minted(l) == [label |-> l, version |-> version[l] + 1]
Rights(l, ks, a) == {<<l, k, a>> : k \in ks}
Write(R, who) == [c \in Records |-> IF c \in R THEN who ELSE text[c]]

\* Named for a Member without a label of their own: the branch label serves.
MemberLabel(l, given) == IF given = None THEN l ELSE given

\* The records of the role are written and the rights to the member's own
\* handed out in the transaction that mints the name.
Onboard(caller, l, owner, r, given) ==
  LET x == Minted(l)
      spec == roleSpec[r]
  IN
  /\ Active(r)
  /\ MayMint(caller, r)
  /\ membershipOf[owner] = None
  /\ EnsureMember(MemberLabel(l, given), owner)
  /\ Register(l, owner)
  /\ membership' = [membership EXCEPT ![x] =
       [role |-> r, member |-> owner, granted |-> spec.editable]]
  /\ membershipOf' = [membershipOf EXCEPT ![owner] = x]
  /\ text' = Write({l} \X spec.entitled, Branch)
  /\ may' = may \union Rights(l, spec.editable, owner)
  /\ UNCHANGED <<orgRole, roleSpec, closed, changes, history>>

\* Two mistakes: clearing and handing back by the role as it is now.
ClearedByRole(x) == roleSpec[membership[x].role].entitled \union roleSpec[membership[x].role].editable
HandedBackByRole(x) == Rights(x.label, roleSpec[membership[x].role].editable, membership[x].member)

\* What the teardown clears, and the rights it hands back: those the membership
\* was granted, whatever the role lists by now.
Cleared(x) == roleSpec[membership[x].role].entitled \union membership[x].granted
HandedBack(x) == Rights(x.label, membership[x].granted, membership[x].member)

\* A mistake: the pointer stays.
ForgetMembership(x) == membership' = [membership EXCEPT ![x] = None] /\ UNCHANGED membershipOf
Forget(x) ==
  /\ membership' = [membership EXCEPT ![x] = None]
  /\ membershipOf' = [membershipOf EXCEPT ![membership[x].member] = None]

TearDown(x) ==
  /\ text' = Write({x.label} \X Cleared(x), None)
  /\ may' = may \ HandedBack(x)
  /\ Forget(x)

\* What _resolveResource finds: a membership by any of its ids.
Booked == {x \in Resources : membership[x] # None}

\* The label's registration goes with the membership, whoever holds it by now.
Revoke(caller, x) ==
  /\ "revoke" \in Root[caller]
  /\ TearDown(x)
  /\ IF Available(x.label) THEN UNCHANGED registry ELSE Unregister(x.label)
  /\ UNCHANGED <<org, roleSpec, closed, changes, history>>

\* A mistake: any membership may be released.
NeverLive(a) == FALSE
StillLive(a) ==
  LET l == membershipOf[a].label IN ~Available(l) /\ holder[l] = a

\* releaseMembership: anybody may call it.
Release(a) ==
  /\ membershipOf[a] # None
  /\ ~StillLive(a)
  /\ TearDown(membershipOf[a])
  /\ UNCHANGED <<org, roleSpec, registry, closed, changes, history>>

\* syncMemberKeys: what the membership was granted is forgotten, not handed back.
SyncKeys(caller, x, withdraw) ==
  LET m == membership[x].member
      now == roleSpec[membership[x].role].editable
  IN
  /\ "role_edit" \in Root[caller]
  /\ CarefulSync => membership[x].granted \ now \subseteq withdraw
  /\ Change
  /\ may' = (may \ Rights(x.label, withdraw, m)) \union Rights(x.label, now, m)
  /\ membership' = [membership EXCEPT ![x].granted = now]
  /\ withdrawn' = withdrawn \union ({x.label} \X (membership[x].granted \ now))
  /\ UNCHANGED <<org, roleSpec, membershipOf, registry, text, closed, outside, meddled>>

\* setRecord
SetRecord(caller, x, k) ==
  /\ "edit_record" \in Root[caller]
  /\ text' = Write({<<x.label, k>>}, Branch)
  /\ UNCHANGED <<org, roleSpec, book, registry, may, closed, changes, history>>

----------------------------------------------------------------------------
(* What happens elsewhere *)

\* A member writes a record: the resolver asks for the right to it, nothing else.
WriteOwn(a, l, k) ==
  /\ <<l, k, a>> \in may
  /\ text' = Write({<<l, k>>}, a)
  /\ UNCHANGED <<org, roleSpec, book, registry, may, closed, changes, history>>

\* Another branch onboards a person, or the organization enrols them.
EnrolElsewhere(label, a) ==
  /\ EnsureMember(label, a)
  /\ UNCHANGED <<orgRole, roleSpec, book, registry, resolver, closed, changes, history>>

PromoteInOrg(caller, a, r) ==
  /\ SetOrgRole(caller, a, r)
  /\ Change
  /\ UNCHANGED <<roleSpec, book, registry, resolver, closed, history>>

\* A root holder of the registry changes it directly.
Meddle(l) ==
  /\ outside < MaxOutside
  /\ outside' = outside + 1
  /\ meddled' = meddled \union {l}
  /\ UNCHANGED <<org, roleSpec, book, resolver, closed, changes, withdrawn>>

UnregisterOutside(l) == ~Available(l) /\ Unregister(l) /\ Meddle(l)
RegisterOutside(l, a) == Register(l, a) /\ Meddle(l)

\* The organization changes its own registry.
OrgChanges(l) ==
  /\ outside < MaxOutside
  /\ RegisterInOrg(l) \/ UnregisterInOrg(l)
  /\ outside' = outside + 1
  /\ UNCHANGED <<roleSpec, book, registry, resolver, closed, changes, meddled, withdrawn>>

Close ==
  /\ ~closed /\ closed' = TRUE
  /\ UNCHANGED <<org, roleSpec, book, registry, resolver, changes, history>>

Staff(c) ==
  \/ \E r \in Roles : RetireRole(c, r) \/ \E d \in Definitions : DefineRole(c, r, d)
  \/ \E x \in Booked :
       \/ Revoke(c, x)
       \/ \E ks \in SUBSET Keys : SyncKeys(c, x, ks)
       \/ \E k \in Keys : SetRecord(c, x, k)
  \/ \E a \in Accounts, r \in Roles \union {None} : PromoteInOrg(c, a, r)

Next ==
  \/ \E c \in Accounts : Staff(c)
  \/ \E c, a \in Accounts, l \in Labels, r \in Roles, given \in Labels \union {None} :
       Onboard(c, l, a, r, given)
  \/ \E a \in Accounts : Release(a)
  \/ \E a \in Accounts, l \in Labels : EnrolElsewhere(l, a) \/ RegisterOutside(l, a)
  \/ \E a \in Accounts, l \in Labels, k \in Keys : WriteOwn(a, l, k)
  \/ \E l \in Labels : UnregisterOutside(l) \/ OrgChanges(l)
  \/ Close

Spec == Init /\ [][Next]_vars

----------------------------------------------------------------------------
(* What the branch owes its members *)

\* The contract's tables hold what they are declared to hold; a registration is
\* numbered from one.
TypeOK ==
  /\ OrgTypeOK
  /\ roleSpec \in [Roles -> RoleSpecs \union {None}]
  /\ membership \in [Resources -> Memberships \union {None}]
  /\ membershipOf \in [Accounts -> Resources \union {None}]
  /\ holder \in [Labels -> Accounts \union {None}]
  /\ version \in [Labels -> 0..MaxVersions]
  /\ text \in [Records -> Accounts \union {Branch, None}]
  /\ may \subseteq Labels \X Keys \X Accounts
  /\ closed \in BOOLEAN
  /\ changes \in 0..MaxChanges /\ outside \in 0..MaxOutside
  /\ meddled \subseteq Labels /\ withdrawn \subseteq Records

\* membershipOf and memberOf are inverse to each other: a person has one membership,
\* whatever happened to the label in between, and a person whose membership ended by
\* either route may be onboarded again (AlreadyOnboarded).
PointersAgree ==
  \A a \in Accounts, x \in Resources :
    membershipOf[a] = x <=> x \in Booked /\ membership[x].member = a

Granted(l, k, a) ==
  \E x \in Booked : x.label = l /\ membership[x].member = a /\ k \in membership[x].granted

\* The resolver lets people write exactly what their membership was granted: nothing
\* survives a teardown, although grants sit on the label and roles are redefined
\* meanwhile, and nothing a member was granted is taken by another's teardown.
GrantsAgree ==
  \A l \in Labels, k \in Keys, a \in Accounts : <<l, k, a>> \in may <=> Granted(l, k, a)

\* A record somebody wrote on a name of theirs does not outlast their membership
\* under that name, except under a key that syncMemberKeys withdrew: a freed label
\* does not hand a profile to its next holder.
OwnRecordsEnd ==
  \A c \in Records :
    text[c] \in Accounts =>
      \/ c \in withdrawn
      \/ \E x \in Booked : x.label = c[1] /\ membership[x].member = text[c]

\* Until the branch closes, and unless somebody went behind its back, a membership is
\* the live registration of its label by its member, and a registration a membership.
RegistryAgrees ==
  \A l \in Labels \ meddled :
    ~closed =>
      /\ \A x \in Booked :
           x.label = l => x.version = version[l] /\ holder[l] = membership[x].member
      /\ holder[l] # None => \E x \in Booked : x.label = l

\* Whoever may mint by the role they have, rather than by a grant, holds a name at
\* this branch while it is open, or a role of the organization, or a membership whose
\* label somebody changed in the registry directly.
AuthorityIsLive ==
  \A a \in Accounts, r \in Roles :
    Derived(a, r) =>
      \/ orgRole[a] # None
      \/ ~closed /\ \E l \in Labels : holder[l] = a
      \/ ~closed /\ membershipOf[a] # None /\ membershipOf[a].label \in meddled

StandingOf(a) ==
  IF membershipOf[a] = None THEN None
  ELSE [label |-> membershipOf[a].label, role |-> membership[membershipOf[a]].role]

Promise == INSTANCE Standing WITH
  standing <- [a \in Accounts |-> StandingOf(a)],
  name <- labelOf,
  struck <- struck

\* The registrar implements Standing: memberships begin and end one at a time and
\* whole, roles are never changed in place, nobody's Member name is ever replaced, and
\* no two people are given the same one unless the organization struck it.
KeepsPromise == Promise!Spec
=============================================================================
