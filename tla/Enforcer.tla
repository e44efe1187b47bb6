------------------------------ MODULE Enforcer ------------------------------
(***************************************************************************)
(* The enforcer of one branch gateway (proxy/proxy.py over proxy/db.py):   *)
(* groups, users and sessions, the portal's internal calls and the admin   *)
(* calls that change them.  Every handler is one SQLite transaction, so    *)
(* one step; the POST that revoke handlers send after their commit stays   *)
(* in posts until the portal takes it.                                     *)
(*                                                                         *)
(* A user is named by its username, which is also its ens_name: the        *)
(* console writes both alike (mirror.ts).  Anon is the portal-anon row.    *)
(***************************************************************************)
EXTENDS Naturals, FiniteSets, FiniteSetsExt

CONSTANTS
  Ips, Names, Tiers, Groups,
  Sids,           \* session ids
  Stamps,         \* what logged_in_at may be
  None,
  Anon,           \* id of the portal-anon row
  Denied,         \* published: the name is no membership
  NoGroup,        \* published: a membership without a wifi.group record
  SeedGroups,     \* the groups table to start from
  SeedUsers,      \* the users table to start from
  SeedPublished,  \* what the chain says at the start
  MaxAdmin        \* bound: administrative changes

Users == Names \union {Anon}

VARIABLES
  groupTier,      \* groups: id -> network_tier, None when there is no row
  users,          \* users: id -> row, None when there is no row
  session,        \* sessions: id -> row, None when there is no row
  posts,          \* revoke-ip calls sent to the portal and not yet taken
  published,      \* external: the wifi.group the console reads for a name
  admin           \* administrative changes so far

vars == <<groupTier, users, session, posts, published, admin>>

Exists(g) == groupTier[g] # None
Active(s) == session[s] # None /\ ~session[s].out /\ ~session[s].revoked
\* A mistake: the first session of an address instead of the last.
Oldest(S) == {s \in S : \A r \in S : session[s].at <= session[r].at}
\* ORDER BY logged_in_at DESC LIMIT 1: any of those stamped alike.
Newest(S) == {s \in S : \A r \in S : session[r].at <= session[s].at}

----------------------------------------------------------------------------
(* What the portal asks and reports *)

Ident(n, g, u) == [name |-> n, tier |-> groupTier[g], user |-> u]

\* The user id an ENS answer carries: of an enabled row with that username.
EnabledUser(n) == IF users[n] # None /\ ~users[n].disabled THEN n ELSE None

LocalIdent(n) ==
  IF EnabledUser(n) # None /\ users[n].group # None
    THEN {Ident(n, users[n].group, n)}
    ELSE {}

\* /internal/ens-lookup: the published group decides when the console answers;
\* unreachable, or without the record, the local row does.  Empty is a 404.
EnsLookup(n, reachable) ==
  CASE reachable /\ published[n] = Denied -> {}
    [] reachable /\ published[n] \in Groups ->
         IF Exists(published[n]) THEN {Ident(n, published[n], EnabledUser(n))} ELSE {}
    [] ~reachable \/ published[n] = NoGroup -> LocalIdent(n)

\* /internal/group-by-tier: LIMIT 1 without an ORDER BY.
GroupByTier(t) ==
  LET S == {g \in Groups : groupTier[g] = t} IN IF S = {} THEN {None} ELSE S

\* The row session-created writes to.  The ENS name is looked up only when the
\* given id has no row, and the portal gives portal-anon when it knows no user.
SessionUser(c) ==
  LET given == IF c.user = None THEN Anon ELSE c.user
  IN  CASE users[given] # None -> given
        [] users[given] = None /\ users[c.name] # None -> c.name
        [] OTHER -> Anon

\* Whether portal-anon is inserted, or moved to the group of this session.
Upserts(c) == SessionUser(c) = Anon /\ (c.user # None \/ users[Anon] = None)

SessionRow(c) == [user |-> SessionUser(c), group |-> c.group, ip |-> c.ip, name |-> c.name,
                  at |-> c.at, out |-> FALSE, revoked |-> FALSE]

\* /internal/session-created; a group that is gone fails the foreign key.
SessionCreated(c) ==
  /\ IF Exists(c.group)
       THEN /\ session' = [session EXCEPT ![c.sid] = SessionRow(c)]
            /\ users' = IF Upserts(c)
                          THEN [users EXCEPT ![Anon] = [group |-> c.group, disabled |->
                                  IF users[Anon] = None THEN FALSE ELSE users[Anon].disabled]]
                          ELSE users
       ELSE UNCHANGED <<session, users>>
  /\ UNCHANGED <<groupTier, posts, published, admin>>

\* A mistake: the end of a session is not recorded.
SessionEndedMissed(sid) == UNCHANGED vars
\* /internal/session-ended: nothing is updated when the row is not there.
SessionEnded(sid) ==
  /\ session' = IF session[sid] # None THEN [session EXCEPT ![sid].out = TRUE] ELSE session
  /\ UNCHANGED <<groupTier, users, posts, published, admin>>

\* proxy(): the sessions an API request from ip may be billed to.
Billed(ip) == Newest({s \in Sids : Active(s) /\ session[s].ip = ip})

----------------------------------------------------------------------------
(* What administrators do *)

Administer == admin < MaxAdmin /\ admin' = admin + 1

\* A mistake: the row is updated, the portal is not told.
RevokeUntold(s) ==
  /\ session' = [session EXCEPT ![s].revoked = TRUE]
  /\ UNCHANGED <<groupTier, users, posts, published>>

\* The UPDATE is committed, then the portal is told the address.
Revoke(s) ==
  /\ session' = [session EXCEPT ![s].revoked = TRUE]
  /\ posts' = posts \union {[sid |-> s, ip |-> session[s].ip]}
  /\ UNCHANGED <<groupTier, users, published>>

RevokeSession(s) == Administer /\ Active(s) /\ Revoke(s)

\* Of the user's active sessions, the latest.
RevokeUser(u) ==
  LET S == {s \in Sids : Active(s) /\ session[s].user = u}
  IN  /\ Administer
      /\ users[u] # None
      /\ \E s \in Newest(S) : Revoke(s)

CreateGroup(g, t) ==
  /\ Administer
  /\ ~Exists(g)
  /\ groupTier' = [groupTier EXCEPT ![g] = t]
  /\ UNCHANGED <<users, session, posts, published>>

\* PATCH /admin/groups/<gid>.  Running sessions keep the tier they were given.
UpdateGroup(g, t) ==
  /\ Administer
  /\ Exists(g) /\ groupTier[g] # t
  /\ groupTier' = [groupTier EXCEPT ![g] = t]
  /\ UNCHANGED <<users, session, posts, published>>

\* Refused while members or sessions refer to the group: the handler tests for
\* the active ones, the foreign key refuses for the ended ones.
DeleteGroup(g) ==
  /\ Administer
  /\ Exists(g)
  /\ \A u \in Users : users[u] # None => users[u].group # g
  /\ \A s \in Sids : session[s] # None => session[s].group # g
  /\ groupTier' = [groupTier EXCEPT ![g] = None]
  /\ UNCHANGED <<users, session, posts, published>>

CreateUser(n, g) ==
  /\ Administer
  /\ Exists(g) /\ users[n] = None
  /\ users' = [users EXCEPT ![n] = [group |-> g, disabled |-> FALSE]]
  /\ UNCHANGED <<groupTier, session, posts, published>>

\* PATCH /admin/users/<uid>, and add_member, which writes the group alike.
UpdateUser(u, g, disabled) ==
  /\ Administer
  /\ users[u] # None
  /\ g \in {users[u].group} \union {h \in Groups : Exists(h)}
  /\ users' = [users EXCEPT ![u] = [group |-> g, disabled |-> disabled]]
  /\ users' # users
  /\ UNCHANGED <<groupTier, session, posts, published>>

RemoveMember(u) ==
  /\ Administer
  /\ users[u] # None /\ users[u].group # None
  /\ users' = [users EXCEPT ![u].group = None]
  /\ UNCHANGED <<groupTier, session, posts, published>>

\* A mistake: the user is deleted, the sessions are not.
SessionsOfNobody(u) == {}
\* The sessions go with the user; the portal is not told.
SessionsOf(u) == {s \in Sids : session[s] # None /\ session[s].user = u}

DeleteUser(u) ==
  /\ Administer
  /\ users[u] # None
  /\ users' = [users EXCEPT ![u] = None]
  /\ session' = [s \in Sids |-> IF s \in SessionsOf(u) THEN None ELSE session[s]]
  /\ UNCHANGED <<groupTier, posts, published>>

\* External: an organisation rewrites the record on chain.
Publish(n, x) ==
  /\ Administer
  /\ published[n] # x
  /\ published' = [published EXCEPT ![n] = x]
  /\ UNCHANGED <<groupTier, users, session, posts>>

Init ==
  /\ groupTier = SeedGroups
  /\ users = SeedUsers
  /\ session = [s \in Sids |-> None]
  /\ posts = {}
  /\ published = SeedPublished
  /\ admin = 0

ManageGroups == \E g \in Groups :
  DeleteGroup(g) \/ \E t \in Tiers : CreateGroup(g, t) \/ UpdateGroup(g, t)

ManageUsers == \E u \in Users :
  \/ RemoveMember(u) \/ RevokeUser(u)
  \/ \E g \in Groups \union {None}, d \in BOOLEAN : UpdateUser(u, g, d)
  \/ \E g \in Groups : u # Anon /\ CreateUser(u, g)

Manage ==
  \/ ManageGroups
  \/ ManageUsers
  \/ \E s \in Sids : RevokeSession(s)
  \/ \E n \in Names, x \in Groups \union {Denied, NoGroup} : Publish(n, x)

UserRows == [group : Groups \union {None}, disabled : BOOLEAN]
SessionRows == [user : Users, group : Groups, ip : Ips, name : Names, at : Stamps,
                out : BOOLEAN, revoked : BOOLEAN]

TypeOK ==
  /\ groupTier \in [Groups -> Tiers \union {None}]
  /\ users \in [Users -> UserRows \union {None}]
  /\ session \in [Sids -> SessionRows \union {None}]
  /\ posts \subseteq [sid : Sids, ip : Ips]
  /\ published \in [Names -> Groups \union {Denied, NoGroup}]
  /\ admin \in 0..MaxAdmin

\* proxy() joins sessions with groups, /internal/session-created writes rows
\* about users: no delete, in whatever order with sign-ins whose group the
\* portal has cached, leaves a row that points at nothing.
References ==
  /\ \A u \in Users : users[u] # None /\ users[u].group # None => Exists(users[u].group)
  /\ \A s \in Sids : session[s] # None =>
       users[session[s].user] # None /\ Exists(session[s].group)
=============================================================================
