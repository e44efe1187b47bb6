------------------------------- MODULE Mirror -------------------------------
(***************************************************************************)
(* Copying facts from the chain into the enforcer: the route               *)
(* web/app/api/ens/mirror, which reads the chain before it writes, and     *)
(* web/lib/enforcer/mirror.ts and ens-names.ts, which write.  One          *)
(* perimeter.  A request is a sequence of awaited reads and writes; the    *)
(* chain, the enforcer and other requests move between any two of them,    *)
(* and each may fail or time out.                                          *)
(***************************************************************************)
EXTENDS Naturals, FiniteSets, Functions

CONSTANTS
  Labels,        \* badge ids
  Wallets,
  Roles,         \* names of groups defined on the registrar
  WifiGroups,    \* values of wifi.group that are no role's name
  Branches,      \* badge ids that are labels of perimeters, too
  None,
  Origins,       \* who posts to the route; one request each in flight
  MaxMinted,     \* bound: memberships minted
  MaxMoves,      \* bound: what people do, here and elsewhere, and expiries of the cache
  MaxMishaps     \* bound: reads and calls that fail, waits given up

ASSUME MirrorAssumption ==
  /\ None \notin Labels \union Wallets \union Roles \union WifiGroups
  /\ None \notin [wifi : WifiGroups \union {None}, active : BOOLEAN]
  /\ Branches \subseteq Labels
  /\ {MaxMinted, MaxMoves, MaxMishaps} \subseteq Nat

VARIABLES
  members,       \* membershipOf, labelOf, roleOf of the registrar
  memberNames,   \* the wallet's name in the organization's registry
  specs,         \* the roles' wifi.group, and whether each is active; None: never defined
  minted,
  catalogue,     \* the names cached by getRoles; None: nothing cached
  groups,        \* enforcer: names of the groups table
  rows,          \* enforcer: the users table, by ENS name; the wallet and the rest of a row are left out
  recorded,      \* enforcer: the ens_names table
  posts,         \* requests to the route
  reported,      \* history: names whose revocation was reported, not enabled since
  moves, mishaps

registrarVars == <<members, memberNames, specs, minted>>
enforcerVars == <<groups, rows, recorded, reported>>
mirrorVars == <<registrarVars, catalogue, enforcerVars, posts, moves, mishaps>>

Move == moves < MaxMoves /\ moves' = moves + 1
Mishap == mishaps < MaxMishaps /\ mishaps' = mishaps + 1

GroupNames == Roles \union WifiGroups
Ok(answer) == answer \in {"mirrored", "not"}    \* res.ok

\* found: it has the id of the row; gone: that row was deleted meanwhile.  History:
\* fact, what the request names was so on the chain at some moment of it; undone, the
\* row was enabled after a revocation disabled it.
Idle == [kind |-> "idle", label |-> None, wallet |-> None, role |-> None, at |-> "idle",
         id |-> 0, group |-> None, found |-> FALSE, gone |-> FALSE, answer |-> None,
         fact |-> FALSE, undone |-> FALSE]

Free(p) == posts[p].at = "idle"

Holds(ms, w, l) == ms[w] # None /\ ms[w].label = l
LabelTaken(ms, l) == \E w \in Wallets : Holds(ms, w, l)

Active(ss, r) == ss[r] # None /\ ss[r].active

IsFact(x, ms, ss) == CASE x.kind = "member" -> Holds(ms, x.wallet, x.label)
                       [] x.kind = "group" -> Active(ss, x.role)
                       [] x.kind = "revoke" -> ~LabelTaken(ms, x.label)
                       [] OTHER -> FALSE
Noted(ms, ss) == [p \in Origins |-> [posts[p] EXCEPT !.fact = @ \/ IsFact(posts[p], ms, ss)]]

\* A request without the organization is refused at once.
Posted(p, kind, l, w, r, hasOrg) ==
  LET x == [Idle EXCEPT !.kind = kind, !.label = l, !.wallet = w, !.role = r]
  IN  posts' = [posts EXCEPT ![p] =
        IF hasOrg THEN [x EXCEPT !.at = "read", !.fact = IsFact(x, members, specs)]
        ELSE [x EXCEPT !.at = "done", !.answer = "refused"]]

MirrorInit ==
  /\ members = [w \in Wallets |-> None] /\ memberNames = [w \in Wallets |-> None]
  /\ minted = 0 /\ catalogue = None
  /\ rows = [l \in Labels |-> None] /\ recorded = {}
  /\ posts = [p \in Origins |-> Idle]
  /\ reported = {} /\ moves = 0 /\ mishaps = 0

----------------------------------------------------------------------------
(* The registrar *)

NameClash(l, w) == /\ memberNames[w] = None
                   /\ l \in Branches \/ \E v \in Wallets : memberNames[v] = l
Mintable(l, w, r) == /\ members[w] = None /\ ~LabelTaken(members, l) /\ ~NameClash(l, w)
                     /\ Active(specs, r)

Minted(l, w, r) ==
  /\ members' = [members EXCEPT ![w] = [label |-> l, role |-> r, id |-> minted + 1]]
  /\ memberNames' = [memberNames EXCEPT ![w] = IF @ = None THEN l ELSE @]
  /\ minted' = minted + 1
  /\ posts' = Noted(members', specs)

OnboardElsewhere(l, w, r) ==
  /\ minted < MaxMinted /\ Mintable(l, w, r) /\ Move
  /\ Minted(l, w, r)
  /\ UNCHANGED <<specs, catalogue, enforcerVars, mishaps>>

Revoke(w) ==
  /\ members[w] # None /\ Move
  /\ members' = [members EXCEPT ![w] = None]
  /\ posts' = Noted(members', specs)
  /\ UNCHANGED <<memberNames, specs, minted, catalogue, enforcerVars, mishaps>>

\* defineRole and retireRole.
ChangeRole(r, spec) ==
  /\ spec.active \/ (specs[r] # None /\ spec.wifi = specs[r].wifi)
  /\ spec # specs[r] /\ Move
  /\ specs' = [specs EXCEPT ![r] = spec]
  /\ posts' = Noted(members, specs')
  /\ UNCHANGED <<members, memberNames, minted, catalogue, enforcerVars, mishaps>>

----------------------------------------------------------------------------
(* The route: reads of the chain *)

Known == {r \in Roles : specs[r] # None}

\* allRoleNames(), cached for a minute; a read that failed is cached as no roles.
GetRoles(names) == \/ /\ catalogue # None
                      /\ names = catalogue /\ UNCHANGED <<catalogue, mishaps>>
                   \/ /\ catalogue = None /\ names = Known
                      /\ catalogue' = names /\ UNCHANGED mishaps
                   \/ /\ catalogue = None /\ names = {} /\ Mishap
                      /\ catalogue' = names

CacheExpires == /\ catalogue # None /\ catalogue' = None /\ Move
                /\ UNCHANGED <<registrarVars, enforcerVars, posts, mishaps>>

EnforcerGroupName(r) == IF specs[r] = None \/ specs[r].wifi = None THEN r ELSE specs[r].wifi

At(p, x) == posts' = [posts EXCEPT ![p] = x]
Answered(x, answer) == [x EXCEPT !.at = "done", !.answer = answer]

ReadMembership(p) ==
  LET x == posts[p]  m == members[x.wallet]
  IN  /\ x.at = "read" /\ x.kind = "member"
      /\ At(p, IF m = None THEN Answered(x, "refused")
               ELSE [x EXCEPT !.at = "label", !.id = m.id])
      /\ UNCHANGED <<registrarVars, catalogue, enforcerVars, moves, mishaps>>

\* A mistake: the label the caller named is believed.
MatchesWallet(x) == members[x.wallet] # None /\ members[x.wallet].id = x.id

\* labelOf and roleOf the id that membershipOf returned.
Matches(x) == /\ members[x.wallet] # None /\ members[x.wallet].id = x.id
              /\ members[x.wallet].label = x.label

ReadLabel(p) ==
  LET x == posts[p]
  IN  /\ x.at = "label"
      /\ At(p, IF Matches(x) THEN [x EXCEPT !.at = "roles", !.role = members[x.wallet].role]
               ELSE Answered(x, "refused"))
      /\ UNCHANGED <<registrarVars, catalogue, enforcerVars, moves, mishaps>>

ReadSpec(p) ==
  LET x == posts[p]
  IN  /\ x.at = "read" /\ x.kind = "group"
      /\ At(p, IF Active(specs, x.role) THEN [x EXCEPT !.at = "roles"] ELSE Answered(x, "refused"))
      /\ UNCHANGED <<registrarVars, catalogue, enforcerVars, moves, mishaps>>

\* A member's unknown group is a refusal, a group's own falls back to its name.
ReadRoles(p, names) ==
  LET x == posts[p]
  IN  /\ x.at = "roles" /\ GetRoles(names)
      /\ At(p, CASE x.role \in names -> [x EXCEPT !.at = "list", !.group = EnforcerGroupName(x.role)]
                 [] x.role \notin names /\ x.kind = "group" -> [x EXCEPT !.at = "list", !.group = x.role]
                 [] OTHER -> Answered(x, "refused"))
      /\ UNCHANGED <<registrarVars, enforcerVars, moves>>

\* The wallet has no membership.  Whether the label was that wallet's, or is
\* somebody's still, is not asked.
ReadGone(p) ==
  LET x == posts[p]
  IN  /\ x.at = "read" /\ x.kind = "revoke"
      /\ At(p, IF members[x.wallet] # None THEN Answered(x, "refused") ELSE [x EXCEPT !.at = "find"])
      /\ UNCHANGED <<registrarVars, catalogue, enforcerVars, moves, mishaps>>

ReadFails(p) ==
  /\ posts[p].at \in {"read", "label", "roles"} /\ Mishap
  /\ At(p, Answered(posts[p], "refused"))
  /\ UNCHANGED <<registrarVars, catalogue, enforcerVars, moves>>

----------------------------------------------------------------------------
(* mirrorGroup, mirrorMember, mirrorRevoke: what each call does there *)

\* PATCH a row that was found, POST one that was not (409 when it is there by now).
Writable(x) == ~x.gone /\ x.found = (rows[x.label] # None)
Enables(x) == x.at = "write" /\ Writable(x)
Copied(x) == [group |-> x.group, off |-> FALSE]
TurnedOff(l) == [rows EXCEPT ![l] = IF @ = None THEN @ ELSE [@ EXCEPT !.off = TRUE]]

Written(x) == CASE Enables(x) -> [rows EXCEPT ![x.label] = Copied(x)]
                [] x.at = "disable" /\ ~x.gone -> TurnedOff(x.label)
                [] OTHER -> rows

\* The row a request found, or wrote, is deleted.
Lost(l, ps) == [p \in Origins |->
  IF ps[p].label = l /\ (ps[p].found \/ ps[p].at \in {"record", "done"})
  THEN [ps[p] EXCEPT !.gone = TRUE] ELSE ps[p]]

\* Whoever enables a row undoes the revocations of it.
Enabled(l, ps) == [p \in Origins |-> IF ps[p].label = l /\ ps[p].at = "end"
                                     THEN [ps[p] EXCEPT !.undone = TRUE] ELSE ps[p]]

Call(p, next) ==
  LET x == posts[p]  after == [posts EXCEPT ![p] = next]
  IN  /\ rows' = Written(x)
      /\ groups' = IF x.at = "create" THEN groups \union {x.group} ELSE groups
      /\ posts' = IF Enables(x) THEN Enabled(x.label, after) ELSE after
      /\ reported' = CASE Enables(x) -> reported \ {x.label}
                       [] x.at = "end" /\ next.answer = "mirrored" /\ ~x.undone -> reported \union {x.label}
                       [] OTHER -> reported
      /\ UNCHANGED <<registrarVars, catalogue, recorded, moves>>

\* The member's name is recorded whatever became of its row.
Mirrored(x, answer) == IF x.kind = "member" THEN [x EXCEPT !.at = "record", !.answer = answer]
                       ELSE Answered(x, answer)

MirrorGroup(x) ==
  CASE x.at = "list" -> IF x.group \in groups THEN Mirrored(x, "mirrored") ELSE [x EXCEPT !.at = "create"]
    [] x.at = "create" -> Mirrored(x, "mirrored")

MirrorMember(x) ==
  CASE x.at = "list" -> IF x.group \in groups THEN [x EXCEPT !.at = "find"] ELSE Mirrored(x, "not")
    [] x.at = "find" -> [x EXCEPT !.at = "write", !.found = rows[x.label] # None]
    [] x.at = "write" -> Mirrored(x, IF Writable(x) THEN "mirrored" ELSE "not")

\* A name that was never mirrored needs no revocation.  What the last call does
\* to the session is Enforcer!RevokeUser.
HasRow(x) == rows[x.label] # None /\ ~x.gone

MirrorRevoke(x) ==
  CASE x.at = "find" -> IF HasRow(x) THEN [x EXCEPT !.at = "disable", !.found = TRUE]
                        ELSE Mirrored(x, "mirrored")
    [] x.at = "disable" -> IF HasRow(x) THEN [x EXCEPT !.at = "end"] ELSE Mirrored(x, "not")
    [] x.at = "end" -> Mirrored(x, IF HasRow(x) THEN "mirrored" ELSE "not")

\* A mistake: whether the row could be disabled is not looked at.
MistakenOff(x) == CASE x.at = "find" /\ x.kind = "member" -> [x EXCEPT !.at = "write"]
                    [] x.at = "list" /\ x.kind = "group" -> [x EXCEPT !.at = "create"]
                    [] x.at = "disable" -> [x EXCEPT !.at = "end"]
                    [] OTHER -> Mirrored(x, "not")

\* An enforcer that answers with an error: the lookup of a member's row has
\* found none, the list of groups none either.
Mistaken(x) == CASE x.at = "find" /\ x.kind = "member" -> [x EXCEPT !.at = "write"]
                 [] x.at = "list" /\ x.kind = "group" -> [x EXCEPT !.at = "create"]
                 [] OTHER -> Mirrored(x, "not")

Calls == {"list", "create", "find", "write", "disable", "end"}

CallAnswered(p) ==
  LET x == posts[p]
  IN  /\ x.at \in Calls
      /\ Call(p, CASE x.kind = "group" -> MirrorGroup(x)
                   [] x.kind = "member" -> MirrorMember(x)
                   [] x.kind = "revoke" -> MirrorRevoke(x))
      /\ UNCHANGED mishaps

\* The call times out, and was carried out or was not.
CallFails(p) ==
  LET x == posts[p]
  IN  /\ x.at \in Calls /\ Mishap
      /\ \/ Call(p, Mirrored(x, "not"))
         \/ /\ At(p, Mirrored(x, "not")) \/ At(p, Mistaken(x))
            /\ UNCHANGED <<registrarVars, catalogue, enforcerVars, moves>>

RecordName(p) ==
  LET x == posts[p]
  IN  /\ x.at = "record"
      /\ \/ recorded' = recorded \union {x.label} /\ UNCHANGED mishaps
         \/ Mishap /\ UNCHANGED recorded
      /\ At(p, Answered(x, x.answer))
      /\ UNCHANGED <<registrarVars, catalogue, groups, rows, reported, moves>>

----------------------------------------------------------------------------
(* Anybody may post *)

PostOther(kind, l, w, r) ==
  /\ Free("other") /\ Move
  /\ Posted("other", kind, l, w, r, TRUE)
  /\ UNCHANGED <<registrarVars, catalogue, enforcerVars, mishaps>>

Forget(p) ==
  /\ posts[p].at = "done" /\ At(p, Idle)
  /\ UNCHANGED <<registrarVars, catalogue, enforcerVars, moves, mishaps>>

Serve(p) == \/ ReadMembership(p) \/ ReadLabel(p) \/ ReadSpec(p) \/ ReadGone(p) \/ ReadFails(p)
            \/ \E names \in SUBSET Roles : ReadRoles(p, names)
            \/ CallAnswered(p) \/ CallFails(p) \/ RecordName(p)
            \/ p = "other" /\ Forget(p)

RoleSpecs == [wifi : WifiGroups \union {None}, active : BOOLEAN]

MirrorNext ==
  \/ \E p \in Origins : Serve(p)
  \/ \E kind \in {"member", "revoke"}, l \in Labels, w \in Wallets : PostOther(kind, l, w, None)
  \/ \E r \in Roles : PostOther("group", None, None, r)
  \/ \E l \in Labels, w \in Wallets, r \in Roles : OnboardElsewhere(l, w, r)
  \/ \E w \in Wallets : Revoke(w)
  \/ \E r \in Roles, spec \in RoleSpecs : ChangeRole(r, spec)
  \/ CacheExpires
=============================================================================
