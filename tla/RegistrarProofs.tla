-------------------------- MODULE RegistrarProofs ---------------------------
(* Theorems about Registrar.  A step either leaves the book alone, enters one
   membership (Onboard), strikes one (TearDown) or renews what one was granted
   (SyncKeys). *)
EXTENDS Registrar, TLAPS

\* Whoever is in the book has a defined role, a Member name, and a number that
\* its label has reached: what keeps the next registration apart from it.
BookOK ==
  \A x \in Booked :
    /\ roleSpec[membership[x].role] # None
    /\ labelOf[membership[x].member] # None
    /\ x.version <= version[x.label]

RegistrarInv == TypeOK /\ BookOK /\ PointersAgree

LEMMA InitInv == Init => RegistrarInv
<1> SUFFICES ASSUME Init PROVE RegistrarInv
  OBVIOUS
<1> USE RegistrarAssumption DEF Init, OrgInit
<1>1. TypeOK
  <2>1. OrgTypeOK
    BY DEF OrgTypeOK
  <2>2. /\ roleSpec \in [Roles -> RoleSpecs \union {None}]
        /\ membership \in [Resources -> Memberships \union {None}]
        /\ membershipOf \in [Accounts -> Resources \union {None}]
        /\ holder \in [Labels -> Accounts \union {None}]
    OBVIOUS
  <2>3. text \in [Records -> Accounts \union {Branch, None}]
    OBVIOUS
  <2>4. version \in [Labels -> 0..MaxVersions] /\ changes \in 0..MaxChanges /\ outside \in 0..MaxOutside
    OBVIOUS
  <2> QED BY <2>1, <2>2, <2>3, <2>4 DEF TypeOK
<1>2. Booked = {}
  BY DEF Booked
<1>3. PointersAgree
  BY <1>2 DEF PointersAgree
<1> QED BY <1>1, <1>2, <1>3 DEF RegistrarInv, BookOK

----------------------------------------------------------------------------
(* What the steps do to the book *)

LEMMA BookedFacts ==
  ASSUME RegistrarInv, NEW x \in Booked
  PROVE  /\ x \in Resources /\ x.label \in Labels /\ x.version \in 1..MaxVersions
         /\ membership[x] \in Memberships
         /\ membership[x].role \in Roles /\ membership[x].member \in Accounts
         /\ membership[x].granted \subseteq Keys
         /\ roleSpec[membership[x].role] \in RoleSpecs
         /\ membershipOf[membership[x].member] = x
<1>1. x \in Resources /\ membership[x] \in Memberships
  BY DEF RegistrarInv, TypeOK, Booked
<1>2. /\ x.label \in Labels /\ x.version \in 1..MaxVersions
      /\ membership[x].role \in Roles /\ membership[x].member \in Accounts
      /\ membership[x].granted \subseteq Keys
  BY <1>1 DEF Resources, Memberships
<1>3. roleSpec[membership[x].role] \in RoleSpecs
  BY <1>2 DEF RegistrarInv, TypeOK, BookOK
<1> QED BY <1>1, <1>2, <1>3 DEF RegistrarInv, PointersAgree

\* Nobody has two memberships.
LEMMA OneEach ==
  ASSUME RegistrarInv, NEW x \in Booked, NEW y \in Booked,
         membership[x].member = membership[y].member
  PROVE  x = y
BY BookedFacts

LEMMA OnboardBook ==
  ASSUME RegistrarInv, NEW caller \in Accounts, NEW l \in Labels, NEW owner \in Accounts,
         NEW r \in Roles, NEW given \in Labels \union {None}, Onboard(caller, l, owner, r, given)
  PROVE  LET x == Minted(l) IN
         /\ x \in Resources /\ x.label = l /\ x.version = version[l] + 1
         /\ x \notin Booked /\ Booked' = Booked \union {x}
         /\ membership'[x] = [role |-> r, member |-> owner, granted |-> roleSpec[r].editable]
         /\ \A y \in Booked : membership'[y] = membership[y] /\ membership[y].member # owner
         /\ roleSpec[r] \in RoleSpecs
<1> DEFINE x == Minted(l)
           m == [role |-> r, member |-> owner, granted |-> roleSpec[r].editable]
<1>1. version[l] \in Nat /\ version[l] < MaxVersions
  BY RegistrarAssumption DEF RegistrarInv, TypeOK, Onboard, Register
<1>2. x \in Resources /\ x.label = l /\ x.version = version[l] + 1
  BY <1>1, RegistrarAssumption DEF Minted, Resources
<1>3. x \notin Booked
  BY <1>1, <1>2 DEF RegistrarInv, BookOK
<1>4. roleSpec[r] \in RoleSpecs
  BY DEF RegistrarInv, TypeOK, Onboard, Active
<1>5. m \in Memberships
  BY <1>4 DEF Memberships, RoleSpecs
<1>6. membership' = [membership EXCEPT ![x] = m]
  BY DEF Onboard
<1>7. membership'[x] = m /\ \A y \in Resources \ {x} : membership'[y] = membership[y]
  BY <1>2, <1>6 DEF RegistrarInv, TypeOK
<1>8. Booked' = Booked \union {x}
  BY <1>2, <1>5, <1>7, RegistrarAssumption DEF Booked
<1>9. \A y \in Booked : membership'[y] = membership[y] /\ membership[y].member # owner
  <2>1. TAKE y \in Booked
  <2>2. y \in Resources /\ membershipOf[membership[y].member] = y
    BY BookedFacts
  <2>3. membershipOf[owner] = None /\ y # None
    BY <2>2, RegistrarAssumption DEF Onboard
  <2> QED BY <1>3, <1>7, <2>2, <2>3
<1> QED BY <1>2, <1>3, <1>4, <1>7, <1>8, <1>9

LEMMA TearDownBook ==
  ASSUME RegistrarInv, NEW x \in Booked, TearDown(x)
  PROVE  /\ Booked' = Booked \ {x}
         /\ \A y \in Booked \ {x} :
              membership'[y] = membership[y] /\ membership[y].member # membership[x].member
         /\ membership' \in [Resources -> Memberships \union {None}]
         /\ membershipOf' = [membershipOf EXCEPT ![membership[x].member] = None]
<1>1. membership' = [membership EXCEPT ![x] = None]
  BY DEF TearDown, Forget
<1>2. x \in Resources
  BY BookedFacts
<1>3. membership'[x] = None /\ \A y \in Resources \ {x} : membership'[y] = membership[y]
  BY <1>1, <1>2 DEF RegistrarInv, TypeOK
<1>4. Booked' = Booked \ {x}
  BY <1>2, <1>3 DEF Booked
<1> QED BY <1>1, <1>2, <1>3, <1>4, OneEach DEF RegistrarInv, TypeOK, Booked, TearDown, Forget

LEMMA SyncBook ==
  ASSUME RegistrarInv, NEW caller \in Accounts, NEW x \in Booked, NEW ks \in SUBSET Keys,
         SyncKeys(caller, x, ks)
  PROVE  /\ membership' \in [Resources -> Memberships \union {None}]
         /\ Booked' = Booked
         /\ membership'[x].granted = roleSpec[membership[x].role].editable
         /\ \A y \in Booked : /\ membership'[y].role = membership[y].role
                              /\ membership'[y].member = membership[y].member
                              /\ y # x => membership'[y] = membership[y]
<1> DEFINE now == roleSpec[membership[x].role].editable
<1>1. membership' = [membership EXCEPT ![x].granted = now]
  BY DEF SyncKeys
<1>2. /\ x \in Resources /\ membership[x] \in Memberships /\ now \subseteq Keys
  BY BookedFacts DEF RoleSpecs
<1>3. /\ membership'[x] = [membership[x] EXCEPT !.granted = now]
      /\ \A y \in Resources \ {x} : membership'[y] = membership[y]
  BY <1>1, <1>2 DEF RegistrarInv, TypeOK
<1>4. /\ membership'[x] \in Memberships /\ membership'[x].role = membership[x].role
      /\ membership'[x].member = membership[x].member /\ membership'[x].granted = now
  BY <1>2, <1>3 DEF Memberships
<1>5. Booked' = Booked
  BY <1>2, <1>3, <1>4, RegistrarAssumption DEF Booked
<1>6. membership' \in [Resources -> Memberships \union {None}]
  BY <1>1, <1>2, <1>4 DEF RegistrarInv, TypeOK
<1> QED BY <1>3, <1>4, <1>5, <1>6 DEF Booked

----------------------------------------------------------------------------
(* The invariant, action by action *)

LEMMA WriteTyped ==
  ASSUME TypeOK, NEW R, NEW who \in Accounts \union {Branch, None}, text' = Write(R, who)
  PROVE  text' \in [Records -> Accounts \union {Branch, None}]
BY DEF TypeOK, Write

LEMMA EnsureNames ==
  ASSUME OrgTypeOK, NEW n \in Labels, NEW a \in Accounts, EnsureMember(n, a)
  PROVE  /\ labelOf' \in [Accounts -> Labels \union {None}]
         /\ labelOf'[a] # None
         /\ \A b \in Accounts : labelOf[b] # None => labelOf'[b] = labelOf[b]
         /\ names' \subseteq Labels /\ struck' \subseteq Labels
BY RegistrarAssumption DEF OrgTypeOK, EnsureMember

LEMMA RegisterNumbers ==
  ASSUME TypeOK, NEW l \in Labels, NEW a \in Accounts, Register(l, a)
  PROVE  /\ holder' \in [Labels -> Accounts \union {None}]
         /\ version' \in [Labels -> 0..MaxVersions]
         /\ version'[l] = version[l] + 1 /\ holder'[l] = a
         /\ \A k \in Labels \ {l} : version'[k] = version[k] /\ holder'[k] = holder[k]
         /\ \A k \in Labels : version[k] <= version'[k]
<1>1. version[l] \in Nat /\ version[l] < MaxVersions
  BY RegistrarAssumption DEF TypeOK, Register
<1>2. version[l] + 1 \in 0..MaxVersions
  BY <1>1, RegistrarAssumption
<1>3. version' = [version EXCEPT ![l] = version[l] + 1] /\ holder' = [holder EXCEPT ![l] = a]
  BY DEF Register
<1>4. /\ version' \in [Labels -> 0..MaxVersions] /\ version'[l] = version[l] + 1
      /\ \A k \in Labels \ {l} : version'[k] = version[k]
  BY <1>2, <1>3 DEF TypeOK
<1>5. /\ holder' \in [Labels -> Accounts \union {None}] /\ holder'[l] = a
      /\ \A k \in Labels \ {l} : holder'[k] = holder[k]
  BY <1>3 DEF TypeOK
<1>6. \A k \in Labels : version[k] <= version'[k]
  BY <1>1, <1>4 DEF TypeOK
<1> QED BY <1>4, <1>5, <1>6

\* Most steps leave the book alone and take nothing away that it relies on.
LEMMA BookUnchanged ==
  ASSUME RegistrarInv, TypeOK', UNCHANGED book,
         \A r \in Roles : roleSpec[r] # None => roleSpec'[r] # None,
         \A a \in Accounts : labelOf[a] # None => labelOf'[a] # None,
         \A l \in Labels : version[l] <= version'[l]
  PROVE  RegistrarInv'
<1>1. Booked' = Booked
  BY DEF Booked, book
<1>2. PointersAgree'
  BY <1>1 DEF RegistrarInv, PointersAgree, book
<1>3. BookOK'
  <2> SUFFICES ASSUME NEW x \in Booked
               PROVE  /\ roleSpec'[membership[x].role] # None
                      /\ labelOf'[membership[x].member] # None
                      /\ x.version <= version'[x.label]
    BY <1>1 DEF BookOK, book
  <2>1. /\ x.label \in Labels /\ x.version \in Nat
        /\ membership[x].role \in Roles /\ membership[x].member \in Accounts
    BY BookedFacts
  <2>2. version[x.label] \in Nat /\ version'[x.label] \in Nat
    BY <2>1 DEF RegistrarInv, TypeOK
  <2>3. x.version <= version[x.label]
    BY DEF RegistrarInv, BookOK
  <2>4. roleSpec[membership[x].role] # None /\ labelOf[membership[x].member] # None
    BY DEF RegistrarInv, BookOK
  <2> QED BY <2>1, <2>2, <2>3, <2>4
<1> QED BY <1>2, <1>3 DEF RegistrarInv

LEMMA OnboardInv ==
  ASSUME RegistrarInv, NEW caller \in Accounts, NEW l \in Labels, NEW owner \in Accounts,
         NEW r \in Roles, NEW given \in Labels \union {None}, Onboard(caller, l, owner, r, given)
  PROVE  RegistrarInv'
<1> DEFINE x == Minted(l)
           m == [role |-> r, member |-> owner, granted |-> roleSpec[r].editable]
<1>1. /\ x \in Resources /\ x.label = l /\ x.version = version[l] + 1
      /\ x \notin Booked /\ Booked' = Booked \union {x}
      /\ membership'[x] = m
      /\ \A y \in Booked : membership'[y] = membership[y] /\ membership[y].member # owner
      /\ roleSpec[r] \in RoleSpecs
  BY OnboardBook
<1>2. MemberLabel(l, given) \in Labels
  BY DEF MemberLabel
<1>3. /\ labelOf' \in [Accounts -> Labels \union {None}] /\ labelOf'[owner] # None
      /\ \A b \in Accounts : labelOf[b] # None => labelOf'[b] = labelOf[b]
      /\ names' \subseteq Labels /\ struck' \subseteq Labels
  BY <1>2, EnsureNames DEF RegistrarInv, TypeOK, Onboard
<1>4. /\ holder' \in [Labels -> Accounts \union {None}]
      /\ version' \in [Labels -> 0..MaxVersions]
      /\ version'[l] = version[l] + 1 /\ \A k \in Labels : version[k] <= version'[k]
  BY RegisterNumbers DEF RegistrarInv, Onboard
<1>5. m \in Memberships /\ roleSpec[r].editable \subseteq Keys
  BY <1>1 DEF Memberships, RoleSpecs
<1>6. /\ membership' \in [Resources -> Memberships \union {None}]
      /\ membershipOf' \in [Accounts -> Resources \union {None}]
      /\ membershipOf' = [membershipOf EXCEPT ![owner] = x]
  BY <1>1, <1>5 DEF RegistrarInv, TypeOK, Onboard
<1>7. text' \in [Records -> Accounts \union {Branch, None}]
  BY WriteTyped DEF Onboard, RegistrarInv
<1>8. may' \subseteq Labels \X Keys \X Accounts
  BY <1>5 DEF Onboard, RegistrarInv, TypeOK, Rights
<1>9. TypeOK'
  <2>1. OrgTypeOK'
    BY <1>3 DEF OrgTypeOK, RegistrarInv, TypeOK, Onboard
  <2> QED BY <1>3, <1>4, <1>6, <1>7, <1>8, <2>1 DEF TypeOK, RegistrarInv, Onboard, history
<1>10. BookOK'
  <2> SUFFICES ASSUME NEW y \in Booked'
               PROVE  /\ roleSpec[membership'[y].role] # None
                      /\ labelOf'[membership'[y].member] # None
                      /\ y.version <= version'[y.label]
    BY DEF BookOK, Onboard
  <2>1. CASE y = x
    BY <1>1, <1>3, <1>4, <2>1, RegistrarAssumption DEF RegistrarInv, TypeOK
  <2>2. CASE y \in Booked
    <3>1. /\ y.label \in Labels /\ y.version \in Nat /\ membership[y].member \in Accounts
          /\ membership'[y] = membership[y]
      BY <1>1, <2>2, BookedFacts
    <3>2. /\ roleSpec[membership[y].role] # None /\ labelOf[membership[y].member] # None
          /\ y.version <= version[y.label]
      BY <2>2 DEF RegistrarInv, BookOK
    <3>3. version[y.label] \in Nat /\ version'[y.label] \in Nat /\ version[y.label] <= version'[y.label]
      BY <1>4, <3>1 DEF RegistrarInv, TypeOK
    <3> QED BY <1>3, <3>1, <3>2, <3>3
  <2> QED BY <1>1, <2>1, <2>2
<1>11. PointersAgree'
  <2> SUFFICES ASSUME NEW a \in Accounts, NEW y \in Resources
               PROVE  membershipOf'[a] = y <=> y \in Booked' /\ membership'[y].member = a
    BY DEF PointersAgree
  <2>1. CASE a = owner
    <3>1. membershipOf'[a] = x
      BY <1>6, <2>1 DEF RegistrarInv, TypeOK
    <3> QED BY <1>1, <2>1, <3>1
  <2>2. CASE a # owner
    <3>1. membershipOf'[a] = membershipOf[a]
      BY <1>6, <2>2 DEF RegistrarInv, TypeOK
    <3>2. membershipOf[a] = y <=> y \in Booked /\ membership[y].member = a
      BY DEF RegistrarInv, PointersAgree
    <3> QED BY <1>1, <2>2, <3>1, <3>2
  <2> QED BY <2>1, <2>2
<1> QED BY <1>9, <1>10, <1>11 DEF RegistrarInv

\* By revoke or by releaseMembership, with the label's registration or without.
LEMMA TearDownInv ==
  ASSUME RegistrarInv, NEW x \in Booked, TearDown(x),
         holder' \in [Labels -> Accounts \union {None}],
         UNCHANGED <<org, roleSpec, version, closed, changes, history>>
  PROVE  RegistrarInv'
<1>1. /\ Booked' = Booked \ {x}
      /\ \A y \in Booked \ {x} :
           membership'[y] = membership[y] /\ membership[y].member # membership[x].member
      /\ membership' \in [Resources -> Memberships \union {None}]
      /\ membershipOf' = [membershipOf EXCEPT ![membership[x].member] = None]
  BY TearDownBook
<1>2. text' \in [Records -> Accounts \union {Branch, None}]
  BY WriteTyped DEF TearDown, RegistrarInv
<1>3. TypeOK'
  <2>1. membershipOf' \in [Accounts -> Resources \union {None}]
    BY <1>1 DEF RegistrarInv, TypeOK
  <2>2. may' \subseteq Labels \X Keys \X Accounts
    BY DEF RegistrarInv, TypeOK, TearDown
  <2> QED BY <1>1, <1>2, <2>1, <2>2 DEF RegistrarInv, TypeOK, OrgTypeOK, org, history
<1>4. BookOK'
  BY <1>1 DEF RegistrarInv, BookOK, org
<1>5. PointersAgree'
  <2> SUFFICES ASSUME NEW a \in Accounts, NEW y \in Resources
               PROVE  membershipOf'[a] = y <=> y \in Booked' /\ membership'[y].member = a
    BY DEF PointersAgree
  <2>1. membership[x].member \in Accounts
    BY BookedFacts
  <2>2. membershipOf[a] = y <=> y \in Booked /\ membership[y].member = a
    BY DEF RegistrarInv, PointersAgree
  <2>3. CASE a = membership[x].member
    <3>1. membershipOf'[a] = None /\ y # None
      BY <1>1, <2>1, <2>3, RegistrarAssumption DEF RegistrarInv, TypeOK
    <3> QED BY <1>1, <2>3, <3>1
  <2>4. CASE a # membership[x].member
    <3>1. membershipOf'[a] = membershipOf[a]
      BY <1>1, <2>1, <2>4 DEF RegistrarInv, TypeOK
    <3> QED BY <1>1, <2>2, <2>4, <3>1
  <2> QED BY <2>3, <2>4
<1> QED BY <1>3, <1>4, <1>5 DEF RegistrarInv

LEMMA SyncInv ==
  ASSUME RegistrarInv, NEW caller \in Accounts, NEW x \in Booked, NEW ks \in SUBSET Keys,
         SyncKeys(caller, x, ks)
  PROVE  RegistrarInv'
<1>1. /\ membership' \in [Resources -> Memberships \union {None}]
      /\ Booked' = Booked
      /\ \A y \in Booked : /\ membership'[y].role = membership[y].role
                           /\ membership'[y].member = membership[y].member
  BY SyncBook
<1>2. /\ x.label \in Labels /\ membership[x].member \in Accounts
      /\ membership[x].granted \subseteq Keys
      /\ roleSpec[membership[x].role].editable \subseteq Keys
  BY BookedFacts DEF RoleSpecs
<1>3. TypeOK'
  <2>1. may' \subseteq Labels \X Keys \X Accounts
    BY <1>2 DEF RegistrarInv, TypeOK, SyncKeys, Rights
  <2>2. withdrawn' \subseteq Records
    BY <1>2 DEF RegistrarInv, TypeOK, SyncKeys, Records
  <2>3. changes' \in 0..MaxChanges
    BY RegistrarAssumption DEF RegistrarInv, TypeOK, SyncKeys, Change
  <2> QED BY <1>1, <2>1, <2>2, <2>3 DEF RegistrarInv, TypeOK, OrgTypeOK, SyncKeys, org, registry
<1>4. BookOK'
  BY <1>1 DEF RegistrarInv, BookOK, SyncKeys, org, registry
<1>5. PointersAgree'
  BY <1>1 DEF RegistrarInv, PointersAgree, SyncKeys
<1> QED BY <1>3, <1>4, <1>5 DEF RegistrarInv

\* The ways a membership ends, and the steps that leave the book alone.
Ends(x) == \/ \E c \in Accounts : Revoke(c, x)
           \/ \E a \in Accounts : x = membershipOf[a] /\ Release(a)

Quiet ==
  \/ \E c \in Accounts, r \in Roles : RetireRole(c, r) \/ \E d \in Definitions : DefineRole(c, r, d)
  \/ \E c \in Accounts, x \in Booked, k \in Keys : SetRecord(c, x, k)
  \/ \E c, a \in Accounts, r \in Roles \union {None} : PromoteInOrg(c, a, r)
  \/ \E a \in Accounts, l \in Labels : EnrolElsewhere(l, a) \/ RegisterOutside(l, a)
  \/ \E a \in Accounts, l \in Labels, k \in Keys : WriteOwn(a, l, k)
  \/ \E l \in Labels : UnregisterOutside(l) \/ OrgChanges(l)
  \/ Close
  \/ UNCHANGED vars

LEMMA StepCases ==
  ASSUME RegistrarInv, [Next]_vars
  PROVE  \/ \E c, a \in Accounts, l \in Labels, r \in Roles, given \in Labels \union {None} :
              Onboard(c, l, a, r, given)
         \/ \E x \in Booked : Ends(x)
         \/ \E c \in Accounts, x \in Booked, ks \in SUBSET Keys : SyncKeys(c, x, ks)
         \/ Quiet
<1>1. CASE \E a \in Accounts : Release(a)
  <2>1. PICK a \in Accounts : Release(a)
    BY <1>1
  <2>2. membershipOf[a] \in Booked
    BY <2>1 DEF Release, RegistrarInv, TypeOK, PointersAgree
  <2> QED BY <2>1, <2>2 DEF Ends
<1>2. CASE \E c \in Accounts : Staff(c)
  BY <1>2 DEF Staff, Quiet, Ends
<1>3. CASE UNCHANGED vars
  BY <1>3 DEF Quiet
<1> QED BY <1>1, <1>2, <1>3 DEF Next, Quiet

LEMMA EndsInv ==
  ASSUME RegistrarInv, NEW x \in Booked, Ends(x)
  PROVE  /\ RegistrarInv' /\ TearDown(x)
         /\ UNCHANGED <<org, roleSpec, version, closed, changes, history>>
<1>1. TearDown(x) /\ UNCHANGED <<org, roleSpec, version, closed, changes, history>>
  BY DEF Ends, Revoke, Release, registry, Unregister
<1>2. holder' \in [Labels -> Accounts \union {None}]
  BY BookedFacts DEF Ends, Revoke, Release, registry, Unregister, RegistrarInv, TypeOK
<1> QED BY <1>1, <1>2, TearDownInv

LEMMA CatalogueInv ==
  ASSUME RegistrarInv, NEW r \in Roles, NEW spec \in RoleSpecs,
         roleSpec' = [roleSpec EXCEPT ![r] = spec], Change,
         UNCHANGED <<org, book, registry, resolver, closed, history>>
  PROVE  RegistrarInv'
<1>1. changes' \in 0..MaxChanges
  BY RegistrarAssumption DEF Change, RegistrarInv, TypeOK
<1>2. TypeOK'
  BY <1>1 DEF RegistrarInv, TypeOK, OrgTypeOK, org, book, registry, resolver, history
<1>3. \A q \in Roles : roleSpec[q] # None => roleSpec'[q] # None
  BY RegistrarAssumption DEF RegistrarInv, TypeOK
<1>4. \A l \in Labels : version[l] <= version'[l]
  BY DEF registry, RegistrarInv, TypeOK
<1> QED BY <1>2, <1>3, <1>4, BookUnchanged DEF org

LEMMA RecordInv ==
  ASSUME RegistrarInv, NEW R, NEW who \in Accounts \union {Branch, None}, text' = Write(R, who),
         UNCHANGED <<org, roleSpec, book, registry, may, closed, changes, history>>
  PROVE  RegistrarInv'
<1>1. TypeOK'
  BY WriteTyped DEF RegistrarInv, TypeOK, OrgTypeOK, org, book, registry, history
<1>2. \A l \in Labels : version[l] <= version'[l]
  BY DEF registry, RegistrarInv, TypeOK
<1> QED BY <1>1, <1>2, BookUnchanged DEF org

LEMMA EnrolInv ==
  ASSUME RegistrarInv, NEW n \in Labels, NEW a \in Accounts, EnrolElsewhere(n, a)
  PROVE  RegistrarInv'
<1>1. /\ labelOf' \in [Accounts -> Labels \union {None}]
      /\ \A b \in Accounts : labelOf[b] # None => labelOf'[b] = labelOf[b]
      /\ names' \subseteq Labels /\ struck' \subseteq Labels
  BY EnsureNames DEF EnrolElsewhere, RegistrarInv, TypeOK
<1>2. TypeOK'
  BY <1>1 DEF EnrolElsewhere, RegistrarInv, TypeOK, OrgTypeOK, book, registry, resolver, history
<1>3. \A l \in Labels : version[l] <= version'[l]
  BY DEF EnrolElsewhere, registry, RegistrarInv, TypeOK
<1> QED BY <1>1, <1>2, <1>3, BookUnchanged DEF EnrolElsewhere

LEMMA PromoteInv ==
  ASSUME RegistrarInv, NEW c \in Accounts, NEW a \in Accounts, NEW r \in Roles \union {None},
         PromoteInOrg(c, a, r)
  PROVE  RegistrarInv'
<1>1. orgRole' \in [Accounts -> Roles \union {None}] /\ UNCHANGED <<labelOf, names, struck>>
  BY DEF PromoteInOrg, SetOrgRole, RegistrarInv, TypeOK, OrgTypeOK
<1>2. changes' \in 0..MaxChanges
  BY RegistrarAssumption DEF PromoteInOrg, Change, RegistrarInv, TypeOK
<1>3. TypeOK'
  BY <1>1, <1>2 DEF PromoteInOrg, RegistrarInv, TypeOK, OrgTypeOK, book, registry, resolver, history
<1>4. \A l \in Labels : version[l] <= version'[l]
  BY DEF PromoteInOrg, registry, RegistrarInv, TypeOK
<1> QED BY <1>1, <1>3, <1>4, BookUnchanged DEF PromoteInOrg

LEMMA OutsideInv ==
  ASSUME RegistrarInv, NEW l \in Labels,
         UnregisterOutside(l) \/ \E a \in Accounts : RegisterOutside(l, a)
  PROVE  RegistrarInv'
<1>1. /\ holder' \in [Labels -> Accounts \union {None}]
      /\ version' \in [Labels -> 0..MaxVersions]
      /\ \A k \in Labels : version[k] <= version'[k]
  <2>1. CASE \E a \in Accounts : RegisterOutside(l, a)
    BY <2>1, RegisterNumbers DEF RegisterOutside, RegistrarInv
  <2>2. CASE UnregisterOutside(l)
    BY <2>2 DEF UnregisterOutside, Unregister, RegistrarInv, TypeOK
  <2> QED BY <2>1, <2>2
<1>2. /\ outside' \in 0..MaxOutside /\ meddled' \subseteq Labels
      /\ UNCHANGED <<org, roleSpec, book, resolver, closed, changes, withdrawn>>
  BY RegistrarAssumption DEF UnregisterOutside, RegisterOutside, Meddle, RegistrarInv, TypeOK
<1>3. TypeOK'
  BY <1>1, <1>2 DEF RegistrarInv, TypeOK, OrgTypeOK, org, book, resolver
<1> QED BY <1>1, <1>2, <1>3, BookUnchanged DEF org

LEMMA OrgInv ==
  ASSUME RegistrarInv, NEW l \in Labels, OrgChanges(l)
  PROVE  RegistrarInv'
<1>1. UNCHANGED <<labelOf, orgRole>> /\ names' \subseteq Labels /\ struck' \subseteq Labels
  BY DEF OrgChanges, RegisterInOrg, UnregisterInOrg, RegistrarInv, TypeOK, OrgTypeOK
<1>2. outside' \in 0..MaxOutside
  BY RegistrarAssumption DEF OrgChanges, RegistrarInv, TypeOK
<1>3. UNCHANGED <<roleSpec, book, registry, resolver, closed, changes, meddled, withdrawn>>
  BY DEF OrgChanges
<1>4. TypeOK'
  BY <1>1, <1>2, <1>3 DEF RegistrarInv, TypeOK, OrgTypeOK, book, registry, resolver
<1>5. \A k \in Labels : version[k] <= version'[k]
  BY <1>3 DEF registry, RegistrarInv, TypeOK
<1> QED BY <1>1, <1>3, <1>4, <1>5, BookUnchanged

LEMMA QuietInv ==
  ASSUME RegistrarInv, Quiet
  PROVE  RegistrarInv' /\ UNCHANGED <<book, may, withdrawn>>
<1>1. UNCHANGED <<book, may, withdrawn>>
  BY DEF Quiet, RetireRole, DefineRole, SetRecord, PromoteInOrg, EnrolElsewhere, RegisterOutside,
         WriteOwn, UnregisterOutside, OrgChanges, Close, Meddle, vars, resolver, history
<1>2. ASSUME NEW c \in Accounts, NEW r \in Roles, NEW d \in Definitions, DefineRole(c, r, d)
      PROVE  RegistrarInv'
  <2>1. [onboards |-> d.onboards, open |-> d.open, entitled |-> d.entitled,
         editable |-> d.editable, active |-> TRUE] \in RoleSpecs
    BY RegistrarAssumption DEF RoleSpecs
  <2> QED BY <1>2, <2>1, CatalogueInv DEF DefineRole
<1>3. ASSUME NEW c \in Accounts, NEW r \in Roles, RetireRole(c, r)
      PROVE  RegistrarInv'
  <2>1. roleSpec[r] \in RoleSpecs /\ roleSpec \in [Roles -> RoleSpecs \union {None}]
    BY <1>3 DEF RetireRole, RegistrarInv, TypeOK
  <2>2. [roleSpec[r] EXCEPT !.active = FALSE] \in RoleSpecs
    BY <2>1 DEF RoleSpecs
  <2>3. roleSpec' = [roleSpec EXCEPT ![r] = [roleSpec[r] EXCEPT !.active = FALSE]]
    BY <1>3, <2>1 DEF RetireRole
  <2> QED BY <1>3, <2>2, <2>3, CatalogueInv DEF RetireRole
<1>4. ASSUME NEW c \in Accounts, NEW x \in Booked, NEW k \in Keys, SetRecord(c, x, k)
      PROVE  RegistrarInv'
  BY <1>4, RecordInv DEF SetRecord
<1>5. ASSUME NEW a \in Accounts, NEW l \in Labels, NEW k \in Keys, WriteOwn(a, l, k)
      PROVE  RegistrarInv'
  BY <1>5, RecordInv DEF WriteOwn
<1>6. CASE Close \/ UNCHANGED vars
  <2>1. UNCHANGED <<org, roleSpec, book, registry, resolver, changes, history>> /\ closed' \in BOOLEAN
    BY <1>6 DEF Close, vars, RegistrarInv, TypeOK
  <2>2. TypeOK'
    BY <2>1 DEF RegistrarInv, TypeOK, OrgTypeOK, org, book, registry, resolver, history
  <2>3. \A l \in Labels : version[l] <= version'[l]
    BY <2>1 DEF registry, RegistrarInv, TypeOK
  <2>4. UNCHANGED book /\ UNCHANGED labelOf /\ UNCHANGED roleSpec
    BY <2>1 DEF org
  <2> QED BY <1>1, <2>2, <2>3, <2>4, BookUnchanged
<1>7. ASSUME NEW a \in Accounts, NEW l \in Labels, EnrolElsewhere(l, a) \/ RegisterOutside(l, a)
      PROVE  RegistrarInv'
  BY <1>7, EnrolInv, OutsideInv
<1>8. ASSUME NEW l \in Labels, UnregisterOutside(l) \/ OrgChanges(l)
      PROVE  RegistrarInv'
  BY <1>8, OutsideInv, OrgInv
<1>9. ASSUME NEW c \in Accounts, NEW a \in Accounts, NEW r \in Roles \union {None}, PromoteInOrg(c, a, r)
      PROVE  RegistrarInv'
  BY <1>9, PromoteInv
<1>10. RegistrarInv'
  BY <1>2, <1>3, <1>4, <1>5, <1>6, <1>7, <1>8, <1>9 DEF Quiet
<1> QED BY <1>1, <1>10

LEMMA NextInv == RegistrarInv /\ [Next]_vars => RegistrarInv'
BY StepCases, OnboardInv, EndsInv, SyncInv, QuietInv

\* The book of memberships at all times: the types of TypeOK, and membershipOf and
\* memberOf inverse to each other over any history of onboardings, revocations,
\* releases and changes of the registry behind the registrar's back.
THEOREM BookKept == Spec => [](TypeOK /\ PointersAgree)
<1>1. RegistrarInv => TypeOK /\ PointersAgree
  BY DEF RegistrarInv
<1> QED BY <1>1, InitInv, NextInv, PTL DEF Spec

----------------------------------------------------------------------------
(* Rights at the resolver *)

LEMMA RightsMembers ==
  ASSUME NEW n, NEW ks, NEW who, NEW l, NEW k, NEW a
  PROVE  <<l, k, a>> \in Rights(n, ks, who) <=> l = n /\ k \in ks /\ a = who
BY DEF Rights

LEMMA QuietGranted ==
  ASSUME RegistrarInv, Quiet
  PROVE  /\ may' = may /\ withdrawn' = withdrawn
         /\ \A l \in Labels, k \in Keys, a \in Accounts : Granted(l, k, a)' <=> Granted(l, k, a)
<1>1. membership' = membership /\ may' = may /\ withdrawn' = withdrawn
  BY QuietInv DEF book
<1>2. Booked' = Booked
  BY <1>1 DEF Booked
<1>3. ASSUME NEW l \in Labels, NEW k \in Keys, NEW a \in Accounts
      PROVE  Granted(l, k, a)' <=> Granted(l, k, a)
  BY <1>1, <1>2 DEF Granted
<1> QED BY <1>1, <1>3

LEMMA OnboardGrants ==
  ASSUME RegistrarInv, GrantsAgree,
         NEW caller \in Accounts, NEW n \in Labels, NEW owner \in Accounts,
         NEW r \in Roles, NEW given \in Labels \union {None}, Onboard(caller, n, owner, r, given)
  PROVE  GrantsAgree'
<1> DEFINE x == Minted(n)
<1> SUFFICES ASSUME NEW l \in Labels, NEW k \in Keys, NEW a \in Accounts
             PROVE  <<l, k, a>> \in may' <=> Granted(l, k, a)'
  BY DEF GrantsAgree
<1>1. /\ x.label = n /\ x \notin Booked /\ Booked' = Booked \union {x}
      /\ membership'[x].member = owner /\ membership'[x].granted = roleSpec[r].editable
      /\ \A y \in Booked : membership'[y] = membership[y]
  <2>1. /\ x.label = n /\ x \notin Booked /\ Booked' = Booked \union {x}
        /\ membership'[x] = [role |-> r, member |-> owner, granted |-> roleSpec[r].editable]
        /\ \A y \in Booked : membership'[y] = membership[y]
    BY OnboardBook
  <2> QED BY <2>1
<1>2. <<l, k, a>> \in may' <=>
        <<l, k, a>> \in may \/ (l = n /\ k \in roleSpec[r].editable /\ a = owner)
  <2>1. may' = may \union Rights(n, roleSpec[r].editable, owner)
    BY DEF Onboard
  <2> QED BY <2>1, RightsMembers
<1>3. <<l, k, a>> \in may <=> Granted(l, k, a)
  BY DEF GrantsAgree
<1> HIDE DEF x
<1> QED BY <1>1, <1>2, <1>3 DEF Granted

LEMMA EndsGrants ==
  ASSUME RegistrarInv, GrantsAgree, NEW x \in Booked, Ends(x)
  PROVE  GrantsAgree'
<1> SUFFICES ASSUME NEW l \in Labels, NEW k \in Keys, NEW a \in Accounts
             PROVE  <<l, k, a>> \in may' <=> Granted(l, k, a)'
  BY DEF GrantsAgree
<1>1. TearDown(x)
  BY EndsInv
<1>2. /\ Booked' = Booked \ {x}
      /\ \A y \in Booked \ {x} :
           membership'[y] = membership[y] /\ membership[y].member # membership[x].member
  BY <1>1, TearDownBook
<1>3. <<l, k, a>> \in may' <=>
        /\ <<l, k, a>> \in may
        /\ ~(l = x.label /\ k \in membership[x].granted /\ a = membership[x].member)
  BY <1>1, RightsMembers DEF TearDown, HandedBack
<1>4. <<l, k, a>> \in may <=> Granted(l, k, a)
  BY DEF GrantsAgree
<1> QED BY <1>2, <1>3, <1>4 DEF Granted

LEMMA SyncGrants ==
  ASSUME CarefulSync, RegistrarInv, GrantsAgree,
         NEW caller \in Accounts, NEW x \in Booked, NEW ks \in SUBSET Keys, SyncKeys(caller, x, ks)
  PROVE  GrantsAgree'
<1> DEFINE now == roleSpec[membership[x].role].editable
           m == membership[x].member
<1> SUFFICES ASSUME NEW l \in Labels, NEW k \in Keys, NEW a \in Accounts
             PROVE  <<l, k, a>> \in may' <=> Granted(l, k, a)'
  BY DEF GrantsAgree
<1>1. /\ Booked' = Booked /\ membership'[x].granted = now /\ membership'[x].member = m
      /\ \A y \in Booked \ {x} : membership'[y] = membership[y]
  BY SyncBook
<1>2. \A y \in Booked \ {x} : membership[y].member # m
  BY OneEach
<1>3. <<l, k, a>> \in may' <=>
        \/ <<l, k, a>> \in may /\ ~(l = x.label /\ k \in ks /\ a = m)
        \/ l = x.label /\ k \in now /\ a = m
  BY RightsMembers DEF SyncKeys
<1>4. <<l, k, a>> \in may <=> Granted(l, k, a)
  BY DEF GrantsAgree
<1>5. membership[x].granted \ now \subseteq ks
  BY DEF SyncKeys
<1> HIDE DEF now, m
<1>6. CASE a = m
  <2>1. <<l, k, a>> \in may <=> l = x.label /\ k \in membership[x].granted
    BY <1>2, <1>4, <1>6 DEF m, Granted
  <2>2. Granted(l, k, a)' <=> l = x.label /\ k \in now
    BY <1>1, <1>2, <1>6 DEF Granted
  <2> QED BY <1>3, <1>5, <1>6, <2>1, <2>2
<1>7. CASE a # m
  BY <1>1, <1>2, <1>3, <1>4, <1>7 DEF m, Granted
<1> QED BY <1>6, <1>7

\* What the resolver allows and what the book says are the same, provided that
\* syncMemberKeys is told of every key it takes away.
THEOREM RightsExact ==
  ASSUME CarefulSync
  PROVE  Spec => []GrantsAgree
<1>1. Init => GrantsAgree
  BY RegistrarAssumption DEF Init, GrantsAgree, Granted, Booked
<1>2. RegistrarInv /\ GrantsAgree /\ [Next]_vars => GrantsAgree'
  <2> SUFFICES ASSUME RegistrarInv, GrantsAgree, [Next]_vars PROVE GrantsAgree'
    OBVIOUS
  <2>1. CASE Quiet
    BY <2>1, QuietGranted DEF GrantsAgree
  <2>2. CASE \E x \in Booked : Ends(x)
    BY <2>2, EndsGrants
  <2>3. CASE \E c \in Accounts, x \in Booked, ks \in SUBSET Keys : SyncKeys(c, x, ks)
    BY <2>3, SyncGrants
  <2>4. CASE \E c, a \in Accounts, l \in Labels, r \in Roles, given \in Labels \union {None} :
               Onboard(c, l, a, r, given)
    BY <2>4, OnboardGrants
  <2> QED BY <2>1, <2>2, <2>3, <2>4, StepCases
<1> QED BY <1>1, <1>2, InitInv, NextInv, PTL DEF Spec

----------------------------------------------------------------------------
(* Records *)

\* Without a word about the callers of syncMemberKeys: a right that no membership
\* accounts for is a right to a key that was withdrawn.
RightsKnown ==
  \A l \in Labels, k \in Keys, a \in Accounts :
    <<l, k, a>> \in may => <<l, k>> \in withdrawn \/ Granted(l, k, a)

LEMMA OnboardKnown ==
  ASSUME RegistrarInv, RightsKnown,
         NEW caller \in Accounts, NEW n \in Labels, NEW owner \in Accounts,
         NEW r \in Roles, NEW given \in Labels \union {None}, Onboard(caller, n, owner, r, given)
  PROVE  RightsKnown'
<1> DEFINE x == Minted(n)
<1> SUFFICES ASSUME NEW l \in Labels, NEW k \in Keys, NEW a \in Accounts, <<l, k, a>> \in may'
             PROVE  <<l, k>> \in withdrawn \/ Granted(l, k, a)'
  BY DEF RightsKnown, Onboard, history
<1>1. /\ x.label = n /\ x \in Booked'
      /\ membership'[x].member = owner /\ membership'[x].granted = roleSpec[r].editable
      /\ \A y \in Booked : y \in Booked' /\ membership'[y] = membership[y]
  <2>1. /\ x.label = n /\ Booked' = Booked \union {x}
        /\ membership'[x] = [role |-> r, member |-> owner, granted |-> roleSpec[r].editable]
        /\ \A y \in Booked : membership'[y] = membership[y]
    BY OnboardBook
  <2> QED BY <2>1
<1>2. <<l, k, a>> \in may \/ (l = n /\ k \in roleSpec[r].editable /\ a = owner)
  <2>1. may' = may \union Rights(n, roleSpec[r].editable, owner)
    BY DEF Onboard
  <2> QED BY <2>1, RightsMembers
<1>3. <<l, k, a>> \in may => <<l, k>> \in withdrawn \/ Granted(l, k, a)
  BY DEF RightsKnown
<1> HIDE DEF x
<1> QED BY <1>1, <1>2, <1>3 DEF Granted

LEMMA EndsKnown ==
  ASSUME RegistrarInv, RightsKnown, NEW x \in Booked, Ends(x)
  PROVE  RightsKnown'
<1>1. TearDown(x) /\ withdrawn' = withdrawn
  BY EndsInv DEF history
<1> SUFFICES ASSUME NEW l \in Labels, NEW k \in Keys, NEW a \in Accounts, <<l, k, a>> \in may'
             PROVE  <<l, k>> \in withdrawn \/ Granted(l, k, a)'
  BY <1>1 DEF RightsKnown
<1>2. \A y \in Booked \ {x} : y \in Booked' /\ membership'[y] = membership[y]
  BY <1>1, TearDownBook
<1>3. /\ <<l, k, a>> \in may
      /\ ~(l = x.label /\ k \in membership[x].granted /\ a = membership[x].member)
  BY <1>1, RightsMembers DEF TearDown, HandedBack
<1>4. <<l, k>> \in withdrawn \/ Granted(l, k, a)
  BY <1>3 DEF RightsKnown
<1> QED BY <1>2, <1>3, <1>4 DEF Granted

LEMMA SyncKnown ==
  ASSUME RegistrarInv, RightsKnown,
         NEW caller \in Accounts, NEW x \in Booked, NEW ks \in SUBSET Keys, SyncKeys(caller, x, ks)
  PROVE  RightsKnown'
<1> DEFINE now == roleSpec[membership[x].role].editable
           m == membership[x].member
<1>1. withdrawn' = withdrawn \union ({x.label} \X (membership[x].granted \ now))
  BY DEF SyncKeys
<1> SUFFICES ASSUME NEW l \in Labels, NEW k \in Keys, NEW a \in Accounts, <<l, k, a>> \in may'
             PROVE  <<l, k>> \in withdrawn' \/ Granted(l, k, a)'
  BY DEF RightsKnown
<1>2. /\ Booked' = Booked /\ membership'[x].granted = now /\ membership'[x].member = m
      /\ \A y \in Booked \ {x} : membership'[y] = membership[y]
  BY SyncBook
<1>3. <<l, k, a>> \in may \/ (l = x.label /\ k \in now /\ a = m)
  BY RightsMembers DEF SyncKeys
<1>4. <<l, k, a>> \in may => <<l, k>> \in withdrawn \/ Granted(l, k, a)
  BY DEF RightsKnown
<1> HIDE DEF now, m
<1>5. CASE l = x.label /\ k \in now /\ a = m
  BY <1>2, <1>5 DEF Granted
<1>6. CASE <<l, k>> \in withdrawn
  BY <1>1, <1>6
<1>7. CASE Granted(l, k, a)
  <2>1. PICK y \in Booked : y.label = l /\ membership[y].member = a /\ k \in membership[y].granted
    BY <1>7 DEF Granted
  <2>2. CASE y = x /\ k \notin now
    BY <1>1, <2>1, <2>2
  <2>3. CASE y = x /\ k \in now
    BY <1>2, <2>1, <2>3 DEF Granted, m
  <2>4. CASE y # x
    BY <1>2, <2>1, <2>4 DEF Granted
  <2> QED BY <2>2, <2>3, <2>4
<1> QED BY <1>3, <1>4, <1>5, <1>6, <1>7

LEMMA NextKnown == RegistrarInv /\ RightsKnown /\ [Next]_vars => RightsKnown'
<1> SUFFICES ASSUME RegistrarInv, RightsKnown, [Next]_vars PROVE RightsKnown'
  OBVIOUS
<1>1. CASE Quiet
  BY <1>1, QuietGranted DEF RightsKnown
<1>2. CASE \E x \in Booked : Ends(x)
  BY <1>2, EndsKnown
<1>3. CASE \E c \in Accounts, x \in Booked, ks \in SUBSET Keys : SyncKeys(c, x, ks)
  BY <1>3, SyncKnown
<1>4. CASE \E c, a \in Accounts, l \in Labels, r \in Roles, given \in Labels \union {None} :
             Onboard(c, l, a, r, given)
  BY <1>4, OnboardKnown
<1> QED BY <1>1, <1>2, <1>3, <1>4, StepCases

\* A member's own record stands under a key that the membership was granted: the
\* key is what the teardown clears, the member alone is not.
OwnUnderGrant ==
  \A l \in Labels, k \in Keys :
    text[<<l, k>>] \in Accounts =>
      <<l, k>> \in withdrawn \/ Granted(l, k, text[<<l, k>>])

LEMMA Written ==
  ASSUME NEW R, NEW who, text' = Write(R, who), NEW l \in Labels, NEW k \in Keys
  PROVE  text'[<<l, k>>] = IF <<l, k>> \in R THEN who ELSE text[<<l, k>>]
BY DEF Write, Records

LEMMA OnboardOwn ==
  ASSUME RegistrarInv, OwnUnderGrant,
         NEW caller \in Accounts, NEW n \in Labels, NEW owner \in Accounts,
         NEW r \in Roles, NEW given \in Labels \union {None}, Onboard(caller, n, owner, r, given)
  PROVE  OwnUnderGrant'
<1> SUFFICES ASSUME NEW l \in Labels, NEW k \in Keys, text'[<<l, k>>] \in Accounts
             PROVE  <<l, k>> \in withdrawn \/ Granted(l, k, text[<<l, k>>])'
  BY DEF OwnUnderGrant, Onboard, history
<1>1. text'[<<l, k>>] = text[<<l, k>>]
  <2>1. text' = Write({n} \X roleSpec[r].entitled, Branch)
    BY DEF Onboard
  <2> QED BY <2>1, Written, RegistrarAssumption
<1>2. \A y \in Booked : y \in Booked' /\ membership'[y] = membership[y]
  BY OnboardBook
<1>3. <<l, k>> \in withdrawn \/ Granted(l, k, text[<<l, k>>])
  BY <1>1 DEF OwnUnderGrant
<1> QED BY <1>1, <1>2, <1>3 DEF Granted

LEMMA EndsOwn ==
  ASSUME RegistrarInv, OwnUnderGrant, NEW x \in Booked, Ends(x)
  PROVE  OwnUnderGrant'
<1>1. TearDown(x) /\ withdrawn' = withdrawn
  BY EndsInv DEF history
<1> SUFFICES ASSUME NEW l \in Labels, NEW k \in Keys, text'[<<l, k>>] \in Accounts
             PROVE  <<l, k>> \in withdrawn \/ Granted(l, k, text[<<l, k>>])'
  BY <1>1 DEF OwnUnderGrant
<1>2. text'[<<l, k>>] = text[<<l, k>>] /\ <<l, k>> \notin {x.label} \X Cleared(x)
  <2>1. text' = Write({x.label} \X Cleared(x), None)
    BY <1>1 DEF TearDown
  <2>2. text'[<<l, k>>] = IF <<l, k>> \in {x.label} \X Cleared(x) THEN None ELSE text[<<l, k>>]
    BY <2>1 DEF Write, Records
  <2> QED BY <2>2, RegistrarAssumption
<1>3. ~(l = x.label /\ k \in membership[x].granted)
  BY <1>2 DEF Cleared
<1>4. \A y \in Booked \ {x} : y \in Booked' /\ membership'[y] = membership[y]
  BY <1>1, TearDownBook
<1>5. <<l, k>> \in withdrawn \/ Granted(l, k, text[<<l, k>>])
  BY <1>2 DEF OwnUnderGrant
<1> QED BY <1>2, <1>3, <1>4, <1>5 DEF Granted

LEMMA SyncOwn ==
  ASSUME RegistrarInv, OwnUnderGrant,
         NEW caller \in Accounts, NEW x \in Booked, NEW ks \in SUBSET Keys, SyncKeys(caller, x, ks)
  PROVE  OwnUnderGrant'
<1> DEFINE now == roleSpec[membership[x].role].editable
<1> SUFFICES ASSUME NEW l \in Labels, NEW k \in Keys, text[<<l, k>>] \in Accounts
             PROVE  <<l, k>> \in withdrawn' \/ Granted(l, k, text[<<l, k>>])'
  BY DEF OwnUnderGrant, SyncKeys
<1>1. withdrawn' = withdrawn \union ({x.label} \X (membership[x].granted \ now)) /\ text' = text
  BY DEF SyncKeys
<1>2. /\ Booked' = Booked /\ membership'[x].granted = now
      /\ membership'[x].member = membership[x].member
      /\ \A y \in Booked \ {x} : membership'[y] = membership[y]
  BY SyncBook
<1>3. CASE <<l, k>> \in withdrawn
  BY <1>1, <1>3
<1>4. CASE Granted(l, k, text[<<l, k>>])
  <2>1. PICK y \in Booked : /\ y.label = l /\ membership[y].member = text[<<l, k>>]
                            /\ k \in membership[y].granted
    BY <1>4 DEF Granted
  <2>2. CASE y = x /\ k \notin now
    BY <1>1, <2>1, <2>2
  <2>3. CASE y = x /\ k \in now
    BY <1>1, <1>2, <2>1, <2>3 DEF Granted
  <2>4. CASE y # x
    BY <1>1, <1>2, <2>1, <2>4 DEF Granted
  <2> QED BY <2>2, <2>3, <2>4
<1> QED BY <1>3, <1>4 DEF OwnUnderGrant

LEMMA QuietOwn ==
  ASSUME RegistrarInv, RightsKnown, OwnUnderGrant, Quiet
  PROVE  OwnUnderGrant'
<1>1. /\ withdrawn' = withdrawn
      /\ \A l \in Labels, k \in Keys, a \in Accounts : Granted(l, k, a)' <=> Granted(l, k, a)
  BY QuietGranted
<1> SUFFICES ASSUME NEW l \in Labels, NEW k \in Keys, text'[<<l, k>>] \in Accounts
             PROVE  <<l, k>> \in withdrawn \/ Granted(l, k, text'[<<l, k>>])
  BY <1>1 DEF OwnUnderGrant
<1>2. CASE \E a \in Accounts, n \in Labels, i \in Keys : WriteOwn(a, n, i)
  <2>1. PICK a \in Accounts, n \in Labels, i \in Keys : WriteOwn(a, n, i)
    BY <1>2
  <2>2. text' = Write({<<n, i>>}, a) /\ <<n, i, a>> \in may
    BY <2>1 DEF WriteOwn
  <2>3. <<n, i>> \in withdrawn \/ Granted(n, i, a)
    BY <2>2 DEF RightsKnown
  <2>4. text'[<<l, k>>] = IF <<l, k>> \in {<<n, i>>} THEN a ELSE text[<<l, k>>]
    BY <2>2 DEF Write, Records
  <2>5. CASE l = n /\ k = i
    BY <2>3, <2>4, <2>5
  <2>6. CASE ~(l = n /\ k = i)
    BY <2>4, <2>6 DEF OwnUnderGrant
  <2> QED BY <2>5, <2>6
<1>3. CASE \E c \in Accounts, x \in Booked, i \in Keys : SetRecord(c, x, i)
  <2>1. PICK c \in Accounts, x \in Booked, i \in Keys : SetRecord(c, x, i)
    BY <1>3
  <2>2. text' = Write({<<x.label, i>>}, Branch)
    BY <2>1 DEF SetRecord
  <2>3. text'[<<l, k>>] = IF <<l, k>> \in {<<x.label, i>>} THEN Branch ELSE text[<<l, k>>]
    BY <2>2, Written
  <2> QED BY <2>3, RegistrarAssumption DEF OwnUnderGrant
<1>4. CASE text' = text
  BY <1>4 DEF OwnUnderGrant
<1> QED
  BY <1>2, <1>3, <1>4 DEF Quiet, RetireRole, DefineRole, PromoteInOrg, EnrolElsewhere, RegisterOutside,
     UnregisterOutside, OrgChanges, Close, Meddle, vars, resolver

\* Whoever's own record is found on a name is a member under that name, unless
\* syncMemberKeys took the key away.
THEOREM RecordsEnd == Spec => []OwnRecordsEnd
<1>1. Init => OwnUnderGrant /\ RightsKnown
  BY RegistrarAssumption DEF Init, OwnUnderGrant, RightsKnown, Records
<1>2. RegistrarInv /\ RightsKnown /\ OwnUnderGrant /\ [Next]_vars => OwnUnderGrant'
  <2> SUFFICES ASSUME RegistrarInv, RightsKnown, OwnUnderGrant, [Next]_vars PROVE OwnUnderGrant'
    OBVIOUS
  <2>1. CASE \E x \in Booked : Ends(x)
    BY <2>1, EndsOwn
  <2>2. CASE \E c \in Accounts, x \in Booked, ks \in SUBSET Keys : SyncKeys(c, x, ks)
    BY <2>2, SyncOwn
  <2>3. CASE \E c, a \in Accounts, l \in Labels, r \in Roles, given \in Labels \union {None} :
               Onboard(c, l, a, r, given)
    BY <2>3, OnboardOwn
  <2> QED BY <2>1, <2>2, <2>3, StepCases, QuietOwn
<1>3. OwnUnderGrant => OwnRecordsEnd
  <2> SUFFICES ASSUME OwnUnderGrant, NEW l \in Labels, NEW k \in Keys, text[<<l, k>>] \in Accounts
               PROVE  \/ <<l, k>> \in withdrawn
                      \/ \E x \in Booked : x.label = l /\ membership[x].member = text[<<l, k>>]
    BY DEF OwnRecordsEnd, Records
  <2> QED BY DEF OwnUnderGrant, Granted
<1> QED BY <1>1, <1>2, <1>3, InitInv, NextInv, NextKnown, PTL DEF Spec

----------------------------------------------------------------------------
(* Book and registry *)

LEMMA OnboardRegistry ==
  ASSUME RegistrarInv, RegistryAgrees,
         NEW caller \in Accounts, NEW n \in Labels, NEW owner \in Accounts,
         NEW r \in Roles, NEW given \in Labels \union {None}, Onboard(caller, n, owner, r, given)
  PROVE  RegistryAgrees'
<1> DEFINE x == Minted(n)
<1>1. /\ x.label = n /\ x.version = version[n] + 1 /\ Booked' = Booked \union {x}
      /\ membership'[x] = [role |-> r, member |-> owner, granted |-> roleSpec[r].editable]
      /\ \A y \in Booked : membership'[y] = membership[y]
  BY OnboardBook
<1>2. /\ version'[n] = version[n] + 1 /\ holder'[n] = owner
      /\ \A l \in Labels \ {n} : version'[l] = version[l] /\ holder'[l] = holder[l]
  BY RegisterNumbers DEF RegistrarInv, Onboard
<1>3. ~closed /\ holder[n] = None /\ ~closed' /\ meddled' = meddled
  BY DEF Onboard, Register, Available, history
<1> HIDE DEF x
<1> SUFFICES ASSUME NEW l \in Labels \ meddled
             PROVE  /\ \A y \in Booked' : y.label = l =>
                         y.version = version'[l] /\ holder'[l] = membership'[y].member
                    /\ holder'[l] # None => \E y \in Booked' : y.label = l
  BY <1>3 DEF RegistryAgrees
<1>4. /\ \A y \in Booked : y.label = l => y.version = version[l] /\ holder[l] = membership[y].member
      /\ holder[l] # None => \E y \in Booked : y.label = l
  BY <1>3 DEF RegistryAgrees
<1>5. CASE l = n
  <2>1. \A y \in Booked : y.label # n
    BY <1>3, <1>4, <1>5, BookedFacts, RegistrarAssumption
  <2> QED BY <1>1, <1>2, <1>5, <2>1
<1>6. CASE l # n
  BY <1>1, <1>2, <1>4, <1>6
<1> QED BY <1>5, <1>6

\* A release acts only on a label that was changed in the registry directly; a
\* revocation takes the only membership of its label and the registration.
LEMMA EndsRegistry ==
  ASSUME RegistrarInv, RegistryAgrees, NEW x \in Booked, Ends(x)
  PROVE  RegistryAgrees'
<1>1. TearDown(x) /\ version' = version /\ closed' = closed /\ meddled' = meddled
  BY EndsInv DEF history
<1>2. /\ Booked' = Booked \ {x}
      /\ \A y \in Booked \ {x} : membership'[y] = membership[y]
  BY <1>1, TearDownBook
<1> SUFFICES ASSUME NEW l \in Labels \ meddled, ~closed
             PROVE  /\ \A y \in Booked' : y.label = l =>
                         y.version = version[l] /\ holder'[l] = membership'[y].member
                    /\ holder'[l] # None => \E y \in Booked' : y.label = l
  BY <1>1 DEF RegistryAgrees
<1>3. /\ \A y \in Booked : y.label = l => y.version = version[l] /\ holder[l] = membership[y].member
      /\ holder[l] # None => \E y \in Booked : y.label = l
  BY DEF RegistryAgrees
<1>4. CASE \E a \in Accounts : x = membershipOf[a] /\ Release(a)
  <2>1. PICK a \in Accounts : x = membershipOf[a] /\ Release(a)
    BY <1>4
  <2>2. membership[x].member = a /\ x.label \in Labels
    BY <2>1, BookedFacts DEF RegistrarInv, PointersAgree
  <2>3. ~(~Available(x.label) /\ holder[x.label] = a)
    BY <2>1 DEF Release, StillLive
  <2>4. l # x.label
    BY <1>3, <2>2, <2>3, RegistrarAssumption DEF Available
  <2>5. holder' = holder
    BY <2>1 DEF Release, registry
  <2> QED BY <1>2, <1>3, <2>4, <2>5
<1>5. CASE \E c \in Accounts : Revoke(c, x)
  <2>1. PICK c \in Accounts : Revoke(c, x)
    BY <1>5
  <2>2. IF Available(x.label) THEN holder' = holder ELSE holder' = [holder EXCEPT ![x.label] = None]
    BY <2>1 DEF Revoke, Unregister, registry
  <2>3. CASE l = x.label
    <3>1. \A y \in Booked : y.label = l => y = x
      <4>1. TAKE y \in Booked
      <4>2. HAVE y.label = l
      <4>3. y.version = x.version /\ y.label = x.label
        BY <1>3, <2>3, <4>2
      <4> QED BY <4>3, BookedFacts DEF Resources
    <3>2. holder'[l] = None
      BY <2>2, <2>3 DEF Available, RegistrarInv, TypeOK
    <3> QED BY <1>2, <3>1, <3>2
  <2>4. CASE l # x.label
    <3>1. holder'[l] = holder[l]
      BY <2>2, <2>4 DEF RegistrarInv, TypeOK
    <3> QED BY <1>2, <1>3, <2>4, <3>1
  <2> QED BY <2>3, <2>4
<1> QED BY <1>4, <1>5 DEF Ends

LEMMA OtherRegistry ==
  ASSUME RegistrarInv, RegistryAgrees,
         \/ Quiet
         \/ \E c \in Accounts, x \in Booked, ks \in SUBSET Keys : SyncKeys(c, x, ks)
  PROVE  RegistryAgrees'
<1>1. Booked' = Booked /\ \A y \in Booked : membership'[y].member = membership[y].member
  <2>1. CASE Quiet
    <3>1. membership' = membership
      BY <2>1, QuietInv DEF book
    <3> QED BY <3>1 DEF Booked
  <2> QED BY <2>1, SyncBook
<1>2. /\ closed' = closed \/ closed'
      /\ meddled \subseteq meddled'
      /\ \A l \in Labels \ meddled' : holder'[l] = holder[l] /\ version'[l] = version[l]
  <2>1. CASE \E n \in Labels : UnregisterOutside(n)
    BY <2>1 DEF UnregisterOutside, Unregister, Meddle, RegistrarInv, TypeOK
  <2>2. CASE \E n \in Labels, a \in Accounts : RegisterOutside(n, a)
    BY <2>2 DEF RegisterOutside, Register, Meddle, RegistrarInv, TypeOK
  <2>3. CASE (closed' = closed \/ closed') /\ meddled' = meddled /\ holder' = holder /\ version' = version
    BY <2>3
  <2>4. CASE \E c \in Accounts, x \in Booked, ks \in SUBSET Keys : SyncKeys(c, x, ks)
    BY <2>3, <2>4 DEF SyncKeys, registry
  <2>5. CASE \/ \E c \in Accounts, r \in Roles :
                  RetireRole(c, r) \/ \E d \in Definitions : DefineRole(c, r, d)
             \/ \E c, a \in Accounts, r \in Roles \union {None} : PromoteInOrg(c, a, r)
    BY <2>3, <2>5 DEF RetireRole, DefineRole, PromoteInOrg, registry, history
  <2>6. CASE \/ \E c \in Accounts, x \in Booked, k \in Keys : SetRecord(c, x, k)
             \/ \E a \in Accounts, l \in Labels, k \in Keys : WriteOwn(a, l, k)
    BY <2>3, <2>6 DEF SetRecord, WriteOwn, registry, history
  <2>7. CASE \/ \E a \in Accounts, l \in Labels : EnrolElsewhere(l, a)
             \/ \E l \in Labels : OrgChanges(l)
             \/ Close \/ UNCHANGED vars
    BY <2>3, <2>7 DEF EnrolElsewhere, OrgChanges, Close, vars, registry, history
  <2> QED BY <2>1, <2>2, <2>4, <2>5, <2>6, <2>7 DEF Quiet
<1> SUFFICES ASSUME NEW l \in Labels \ meddled', ~closed'
             PROVE  /\ \A y \in Booked : y.label = l =>
                         y.version = version'[l] /\ holder'[l] = membership'[y].member
                    /\ holder'[l] # None => \E y \in Booked : y.label = l
  BY <1>1 DEF RegistryAgrees
<1>3. ~closed /\ l \in Labels \ meddled /\ holder'[l] = holder[l] /\ version'[l] = version[l]
  BY <1>2
<1> QED BY <1>1, <1>3 DEF RegistryAgrees

\* While the branch is open, and wherever nobody went behind its back, the book and
\* the registry name the same people: whatever is revoked, released, redefined and
\* registered again.
THEOREM RegistryFollowed == Spec => []RegistryAgrees
<1>1. Init => RegistryAgrees
  BY RegistrarAssumption DEF Init, RegistryAgrees, Booked
<1>2. RegistrarInv /\ RegistryAgrees /\ [Next]_vars => RegistryAgrees'
  <2> SUFFICES ASSUME RegistrarInv, RegistryAgrees, [Next]_vars PROVE RegistryAgrees'
    OBVIOUS
  <2>1. CASE \E x \in Booked : Ends(x)
    BY <2>1, EndsRegistry
  <2>2. CASE \E c, a \in Accounts, l \in Labels, r \in Roles, given \in Labels \union {None} :
               Onboard(c, l, a, r, given)
    BY <2>2, OnboardRegistry
  <2> QED BY <2>1, <2>2, StepCases, OtherRegistry
<1> QED BY <1>1, <1>2, InitInv, NextInv, PTL DEF Spec

\* Whoever mints by the role they have holds a name at the open branch or a role of the
\* organization.  The exception is the contract's own: it asks the book and not the
\* registry, so a member whose label was changed in the registry directly mints on until
\* somebody releases the membership.
THEOREM AuthorityLive == Spec => []AuthorityIsLive
<1>1. RegistrarInv /\ RegistryAgrees => AuthorityIsLive
  <2> SUFFICES ASSUME RegistrarInv, RegistryAgrees,
                      NEW a \in Accounts, NEW r \in Roles, Derived(a, r), orgRole[a] = None,
                      closed \/ membershipOf[a] = None \/ membershipOf[a].label \notin meddled
               PROVE  ~closed /\ \E l \in Labels : holder[l] = a
    BY DEF AuthorityIsLive
  <2>1. membershipOf[a] # None /\ ~closed
    BY DEF Derived, EffectiveRole
  <2>2. membershipOf[a] \in Booked /\ membership[membershipOf[a]].member = a
    BY <2>1 DEF RegistrarInv, TypeOK, PointersAgree
  <2>3. membershipOf[a].label \in Labels \ meddled
    BY <2>1, <2>2, BookedFacts
  <2>4. holder[membershipOf[a].label] = a
    BY <2>1, <2>2, <2>3 DEF RegistryAgrees
  <2> QED BY <2>1, <2>3, <2>4
<1> QED BY <1>1, RegistryFollowed, InitInv, NextInv, PTL DEF Spec

----------------------------------------------------------------------------
(* The registrar implements Standing *)

standings == [a \in Accounts |-> StandingOf(a)]
promiseVars == <<standings, labelOf, struck>>

\* A Member's name is registered, or was struck.
NamesKept == \A a \in Accounts : labelOf[a] # None => labelOf[a] \in names \union struck

\* A person's standing moves only when their pointer does, or the role in the book.
LEMMA SameStanding ==
  ASSUME RegistrarInv, NEW a \in Accounts, membershipOf'[a] = membershipOf[a],
         \A x \in Booked : membership[x].member = a => membership'[x].role = membership[x].role
  PROVE  StandingOf(a)' = StandingOf(a)
<1>1. CASE membershipOf[a] = None
  BY <1>1 DEF StandingOf
<1>2. CASE membershipOf[a] # None
  <2>1. membershipOf[a] \in Booked /\ membership[membershipOf[a]].member = a
    BY <1>2 DEF RegistrarInv, TypeOK, PointersAgree
  <2> QED BY <1>2, <2>1 DEF StandingOf
<1> QED BY <1>1, <1>2

LEMMA NamedByEnsure ==
  ASSUME OrgTypeOK, NamesKept, NEW n \in Labels, NEW a \in Accounts, EnsureMember(n, a)
  PROVE  Promise!Named(a, n) /\ NamesKept' /\ struck' = struck
<1>1. CASE labelOf[a] # None
  BY <1>1 DEF EnsureMember, Promise!Named, NamesKept
<1>2. CASE labelOf[a] = None
  <2>1. /\ n \notin names /\ names' = names \union {n} /\ struck' = struck
        /\ labelOf' = [labelOf EXCEPT ![a] = n]
    BY <1>2 DEF EnsureMember
  <2>2. n \in struck \/ \A b \in Accounts : labelOf[b] # n
    BY <2>1, RegistrarAssumption DEF NamesKept
  <2>3. NamesKept'
    BY <2>1 DEF NamesKept, OrgTypeOK
  <2> QED BY <1>2, <2>1, <2>2, <2>3 DEF Promise!Named
<1> QED BY <1>1, <1>2

\* The names of the organization move by an enrolment or by the organization's own hand.
LEMMA NamesNext ==
  ASSUME RegistrarInv, NamesKept, [Next]_vars
  PROVE  NamesKept'
<1>1. CASE \E x \in Booked : Ends(x)
  BY <1>1, EndsInv DEF org, NamesKept
<1>2. CASE \E c, a \in Accounts, l \in Labels, r \in Roles, given \in Labels \union {None} :
             Onboard(c, l, a, r, given)
  <2>1. PICK a \in Accounts, l \in Labels, given \in Labels \union {None} :
               EnsureMember(MemberLabel(l, given), a)
    BY <1>2 DEF Onboard
  <2>2. MemberLabel(l, given) \in Labels
    BY DEF MemberLabel
  <2> QED BY <2>1, <2>2, NamedByEnsure DEF RegistrarInv, TypeOK
<1>3. CASE \E a \in Accounts, l \in Labels : EnrolElsewhere(l, a)
  BY <1>3, NamedByEnsure DEF EnrolElsewhere, RegistrarInv, TypeOK
<1>4. CASE \E l \in Labels : OrgChanges(l)
  BY <1>4 DEF OrgChanges, RegisterInOrg, UnregisterInOrg, NamesKept
<1>5. CASE UNCHANGED <<labelOf, names, struck>>
  BY <1>5 DEF NamesKept
<1>6. ASSUME NEW c \in Accounts, NEW x \in Booked, NEW ks \in SUBSET Keys, SyncKeys(c, x, ks)
      PROVE  NamesKept'
  BY <1>5, <1>6 DEF SyncKeys, org
<1>7. CASE Quiet
  BY <1>3, <1>4, <1>5, <1>7 DEF Quiet, RetireRole, DefineRole, PromoteInOrg, SetOrgRole, RegisterOutside,
     SetRecord, WriteOwn, UnregisterOutside, Close, Meddle, vars, org
<1> QED BY <1>1, <1>2, <1>6, <1>7, StepCases

LEMMA OnboardBegins ==
  ASSUME RegistrarInv, NamesKept,
         NEW caller \in Accounts, NEW n \in Labels, NEW owner \in Accounts,
         NEW r \in Roles, NEW given \in Labels \union {None}, Onboard(caller, n, owner, r, given)
  PROVE  Promise!Next
<1> DEFINE x == Minted(n)
           s == [label |-> n, role |-> r]
<1>1. /\ x.label = n /\ x \in Resources
      /\ membership'[x] = [role |-> r, member |-> owner, granted |-> roleSpec[r].editable]
      /\ \A y \in Booked : membership'[y] = membership[y]
  BY OnboardBook
<1>2. membershipOf[owner] = None /\ membershipOf' = [membershipOf EXCEPT ![owner] = x]
  BY DEF Onboard
<1>3. membershipOf'[owner] = x /\ \A a \in Accounts \ {owner} : membershipOf'[a] = membershipOf[a]
  BY <1>2 DEF RegistrarInv, TypeOK
<1>4. StandingOf(owner) = None /\ StandingOf(owner)' = s
  BY <1>1, <1>2, <1>3, RegistrarAssumption DEF StandingOf
<1>5. \A a \in Accounts \ {owner} : StandingOf(a)' = StandingOf(a)
  BY <1>1, <1>3, SameStanding
<1>6. standings' = [standings EXCEPT ![owner] = s] /\ standings[owner] = None
  BY <1>4, <1>5 DEF standings
<1>7. MemberLabel(n, given) \in Labels
  BY DEF MemberLabel
<1>8. Promise!Named(owner, MemberLabel(n, given)) /\ struck' = struck
  BY <1>7, NamedByEnsure DEF Onboard, RegistrarInv, TypeOK
<1>9. Promise!Begin(owner, MemberLabel(n, given), s)
  BY <1>6, <1>8 DEF Promise!Begin, standings
<1>10. s \in [label : Labels, role : Roles]
  OBVIOUS
<1> QED BY <1>7, <1>9, <1>10 DEF Promise!Next

LEMMA EndsEnd ==
  ASSUME RegistrarInv, NEW x \in Booked, Ends(x)
  PROVE  Promise!Next
<1>1. TearDown(x) /\ labelOf' = labelOf /\ struck' = struck
  BY EndsInv DEF org
<1>2. PICK m \in Accounts : m = membership[x].member
  BY BookedFacts
<1>3. /\ \A y \in Booked \ {x} : membership'[y] = membership[y]
      /\ membershipOf' = [membershipOf EXCEPT ![m] = None]
  BY <1>1, <1>2, TearDownBook
<1>4. membershipOf'[m] = None /\ \A a \in Accounts \ {m} : membershipOf'[a] = membershipOf[a]
  BY <1>3 DEF RegistrarInv, TypeOK
<1>5. StandingOf(m)' = None
  BY <1>4 DEF StandingOf
<1>6. \A a \in Accounts \ {m} : StandingOf(a)' = StandingOf(a)
  BY <1>2, <1>3, <1>4, SameStanding
<1>7. standings' = [standings EXCEPT ![m] = None]
  BY <1>5, <1>6 DEF standings
<1> QED BY <1>1, <1>7 DEF Promise!Next, Promise!End, standings

LEMMA OtherStutters ==
  ASSUME RegistrarInv, NamesKept,
         \/ Quiet
         \/ \E c \in Accounts, x \in Booked, ks \in SUBSET Keys : SyncKeys(c, x, ks)
  PROVE  Promise!Next \/ UNCHANGED promiseVars
<1>1. /\ membershipOf' = membershipOf
      /\ \A x \in Booked : membership'[x].role = membership[x].role
  <2>1. CASE Quiet
    BY <2>1, QuietInv DEF book
  <2>2. CASE \E c \in Accounts, x \in Booked, ks \in SUBSET Keys : SyncKeys(c, x, ks)
    BY <2>2, SyncBook DEF SyncKeys
  <2> QED BY <2>1, <2>2
<1>2. standings' = standings
  BY <1>1, SameStanding DEF standings
<1>3. CASE \E a \in Accounts, l \in Labels : EnrolElsewhere(l, a)
  <2>1. PICK a \in Accounts, l \in Labels : EnrolElsewhere(l, a)
    BY <1>3
  <2>2. Promise!Enrol(a, l)
    BY <1>2, <2>1, NamedByEnsure DEF EnrolElsewhere, Promise!Enrol, standings, RegistrarInv, TypeOK
  <2> QED BY <2>2 DEF Promise!Next
<1>4. CASE labelOf' = labelOf /\ struck' = struck
  BY <1>2, <1>4 DEF promiseVars
<1>5. CASE \E l \in Labels : OrgChanges(l)
  <2>1. PICK l \in Labels : OrgChanges(l)
    BY <1>5
  <2>2. CASE RegisterInOrg(l)
    BY <1>4, <2>2 DEF RegisterInOrg
  <2>3. CASE UnregisterInOrg(l)
    <3>1. Promise!Strike(l)
      BY <1>2, <2>3 DEF UnregisterInOrg, Promise!Strike, standings
    <3> QED BY <3>1 DEF Promise!Next
  <2> QED BY <2>1, <2>2, <2>3 DEF OrgChanges
<1> QED
  BY <1>3, <1>4, <1>5 DEF Quiet, RetireRole, DefineRole, PromoteInOrg, SetOrgRole, RegisterOutside, SetRecord,
     WriteOwn, SyncKeys, UnregisterOutside, Close, Meddle, vars, org

\* Standings begin and end one person's at a time and whole, whatever the catalogue,
\* the registry and the resolver do; a Member name never changes, and two people are
\* given the same one only when the organization unregistered it.
THEOREM Implements == Spec => KeepsPromise
<1>1. Init => Promise!Init /\ NamesKept
  BY DEF Init, OrgInit, Promise!Init, StandingOf, NamesKept
<1>2. RegistrarInv /\ NamesKept /\ [Next]_vars => [Promise!Next]_promiseVars
  <2> SUFFICES ASSUME RegistrarInv, NamesKept, [Next]_vars PROVE Promise!Next \/ UNCHANGED promiseVars
    OBVIOUS
  <2>1. CASE \E x \in Booked : Ends(x)
    BY <2>1, EndsEnd
  <2>2. CASE \E c, a \in Accounts, l \in Labels, r \in Roles, given \in Labels \union {None} :
               Onboard(c, l, a, r, given)
    BY <2>2, OnboardBegins
  <2> QED BY <2>1, <2>2, StepCases, OtherStutters
<1> QED BY <1>1, <1>2, InitInv, NextInv, NamesNext, PTL DEF Spec, KeepsPromise, Promise!Spec, promiseVars, standings
=============================================================================
