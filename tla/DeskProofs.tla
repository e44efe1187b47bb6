----------------------------- MODULE DeskProofs -----------------------------
(***************************************************************************)
(* Theorems about Desk and the mirror route behind it, for any badge ids,  *)
(* wallets, roles, posters and bounds.                                     *)
(***************************************************************************)
EXTENDS Desk, TLAPS

----------------------------------------------------------------------------
(* The invariant *)

Row == [group : GroupNames, off : BOOLEAN]
Off(row) == row = None \/ row.off
PostFields == {"kind", "label", "wallet", "role", "at", "id", "group", "found", "gone", "answer",
               "fact", "undone"}
FormFields == {"label", "wallet", "due", "free", "failed", "blocked", "sync", "at", "job", "said",
               "erased"}
PageFields == {"list", "source", "stale", "error", "users", "usersRead", "usersError", "sure"}

\* Which awaits a request of a kind goes through, and what it names.
StageOK(x) ==
  \/ x.at = "done"
  \/ x.kind = "idle" /\ x.at = "idle"
  \/ x.kind = "member" /\ x.at \in {"read", "label", "roles", "list", "find", "write", "record"}
  \/ x.kind = "group" /\ x.at \in {"read", "roles", "list", "create"}
  \/ x.kind = "revoke" /\ x.at \in {"read", "find", "disable", "end"}

NamesOK(x) ==
  /\ x.kind = "member" => x.label \in Labels /\ x.wallet \in Wallets
  /\ x.kind = "revoke" => x.label \in Labels
  /\ x.kind = "group" => x.role \in Roles
  /\ x.kind # "revoke" /\ x.at \in {"list", "create", "find", "write"} => x.group \in GroupNames

\* What is so while the request is served has been noted; past the last look at the
\* chain it has been so.
FactOK(x, ms, ss) ==
  /\ x.at \notin {"idle", "done"} /\ IsFact(x, ms, ss) => x.fact
  /\ x.kind # "revoke" /\ x.at \in {"roles", "list", "create", "find", "write"} => x.fact

\* What an answer, or the call before it, says of the row.
RowOK(x, rs) ==
  /\ x.kind = "member" /\ x.at \in {"record", "done"} /\ x.answer = "mirrored" => rs[x.label] # None \/ x.gone
  /\ x.at = "end" => x.undone \/ Off(rs[x.label])

PostOK(x, ms, ss, rs) ==
  DOMAIN x = PostFields /\ StageOK(x) /\ NamesOK(x) /\ FactOK(x, ms, ss) /\ RowOK(x, rs)

PostsOK == DOMAIN posts = Origins /\ \A p \in Origins : PostOK(posts[p], members, specs, rows)

RowsOK ==
  /\ rows \in [Labels -> Row \union {None}]
  /\ specs \in [Roles -> RoleSpecs \union {None}]
  /\ \A l \in reported : l \in Labels /\ Off(rows[l])

FormOK ==
  /\ DOMAIN form = FormFields
  /\ form.label \in Labels \union {None} /\ form.wallet \in Wallets \union {None}
  /\ form.due => form.label \in Labels
  /\ form.at # "idle" => form.job.label \in Labels /\ form.job.wallet \in Wallets
  /\ form.at = "mirroring" => posts["form"].kind = "member" /\ posts["form"].label = form.job.label
  /\ form.said.kind = "live" =>
       form.said.label \in Labels /\ (rows[form.said.label] # None \/ form.erased)
  /\ \A c \in checks : c.label \in Labels

\* An answer that may say of somebody that they are no member lists the sure members.
Believed(pg) == pg.source = "chain" \/ (pg.source = "indexer" /\ ~pg.stale)

PageOK ==
  /\ DOMAIN page = PageFields /\ page.source \in {"none", "chain", "indexer"}
  /\ \A l \in Labels : page.list[l] \in Wallets \union {None}
  /\ page.sure \subseteq Labels
  /\ Believed(page) => \A l \in page.sure : page.list[l] # None

DeskInv == PostsOK /\ RowsOK /\ FormOK /\ PageOK

LEMMA InitInv == Init => DeskInv
<1> SUFFICES ASSUME Init PROVE DeskInv
  OBVIOUS
<1> USE DEF Init, MirrorInit
<1>1. PostsOK
  <2>1. DOMAIN Idle = PostFields /\ Idle.kind = "idle" /\ Idle.at = "idle"
    BY DEF Idle, PostFields
  <2>2. PostOK(Idle, members, specs, rows)
    BY <2>1 DEF PostOK, StageOK, NamesOK, FactOK, RowOK
  <2> QED
    BY <2>2 DEF PostsOK
<1>2. RowsOK
  BY DEF RowsOK
<1>3. FormOK
  BY DEF FormOK, FormFields, Silent
<1>4. PageOK
  BY DEF PageOK, PageInit, NoList, PageFields, Believed
<1> QED
  BY <1>1, <1>2, <1>3, <1>4 DEF DeskInv

----------------------------------------------------------------------------
(* Parts of steps *)

\* The chain moves: whatever has become so is noted.
LEMMA NotedOK ==
  ASSUME DeskInv, posts' = Noted(members', specs'), UNCHANGED <<rows, reported>>,
         specs' \in [Roles -> RoleSpecs \union {None}]
  PROVE  /\ PostsOK' /\ RowsOK'
         /\ \A p \in Origins : posts'[p].kind = posts[p].kind /\ posts'[p].label = posts[p].label
<1> USE DEF DeskInv
<1>1. ASSUME NEW p \in Origins
      PROVE  /\ PostOK(posts'[p], members', specs', rows)
             /\ posts'[p].kind = posts[p].kind /\ posts'[p].label = posts[p].label
  <2> DEFINE x == posts[p]
             y == [x EXCEPT !.fact = @ \/ IsFact(x, members', specs')]
  <2>1. PostOK(x, members, specs, rows)
    BY DEF PostsOK
  <2>2. posts'[p] = y
    BY DEF Noted
  <2>3. /\ DOMAIN y = PostFields /\ y.fact = (x.fact \/ IsFact(x, members', specs'))
        /\ y.kind = x.kind /\ y.label = x.label /\ y.wallet = x.wallet /\ y.role = x.role /\ y.at = x.at
        /\ y.group = x.group /\ y.answer = x.answer /\ y.undone = x.undone /\ y.gone = x.gone
    BY <2>1 DEF PostOK, PostFields
  <2> HIDE DEF x, y
  <2>4. StageOK(y) /\ NamesOK(y) /\ RowOK(y, rows)
    BY <2>1, <2>3 DEF PostOK, StageOK, NamesOK, RowOK
  <2>5. IsFact(y, members', specs') <=> IsFact(x, members', specs')
    BY <2>3 DEF IsFact
  <2>6. FactOK(y, members', specs')
    BY <2>1, <2>3, <2>5 DEF PostOK, FactOK
  <2> QED
    BY <2>2, <2>3, <2>4, <2>6 DEF PostOK, x
<1>2. PostsOK'
  BY <1>1 DEF PostsOK, Noted
<1>3. RowsOK'
  BY DEF RowsOK
<1> QED
  BY <1>1, <1>2, <1>3

\* One request goes on, while chain and rows stay as they are.
LEMMA OnePost ==
  ASSUME DeskInv, NEW p \in Origins, NEW y, posts' = [posts EXCEPT ![p] = y],
         PostOK(y, members, specs, rows),
         UNCHANGED <<members, specs, rows, reported>>
  PROVE  /\ PostsOK' /\ RowsOK' /\ posts'[p] = y
         /\ \A q \in Origins \ {p} : posts'[q] = posts[q]
BY DEF DeskInv, PostsOK, RowsOK

\* A request is sent.
LEMMA PostedOK ==
  ASSUME DeskInv, NEW p \in Origins, NEW kind \in {"member", "group", "revoke"}, NEW l, NEW w, NEW r,
         NEW hasOrg \in BOOLEAN, Posted(p, kind, l, w, r, hasOrg),
         kind # "group" => l \in Labels, kind = "member" => w \in Wallets, kind = "group" => r \in Roles,
         UNCHANGED <<members, specs, rows, reported>>
  PROVE  /\ PostsOK' /\ RowsOK' /\ posts'[p].kind = kind /\ posts'[p].label = l
         /\ \A q \in Origins \ {p} : posts'[q] = posts[q]
<1> DEFINE x == [Idle EXCEPT !.kind = kind, !.label = l, !.wallet = w, !.role = r]
           y == [x EXCEPT !.at = "read", !.fact = IsFact(x, members, specs)]
           z == [x EXCEPT !.at = "done", !.answer = "refused"]
<1>1. /\ DOMAIN x = PostFields /\ x.kind = kind /\ x.label = l /\ x.wallet = w /\ x.role = r
  BY DEF Idle, PostFields
<1>2. posts' = [posts EXCEPT ![p] = IF hasOrg THEN y ELSE z]
  BY DEF Posted
<1> HIDE DEF x
<1>3. /\ DOMAIN y = PostFields /\ y.kind = kind /\ y.label = l /\ y.wallet = w /\ y.role = r
      /\ y.at = "read" /\ y.fact = IsFact(x, members, specs)
  BY <1>1 DEF PostFields
<1>4. /\ DOMAIN z = PostFields /\ z.kind = kind /\ z.label = l /\ z.wallet = w /\ z.role = r
      /\ z.at = "done" /\ z.answer = "refused"
  BY <1>1 DEF PostFields
<1> HIDE DEF y, z
<1>5. IsFact(y, members, specs) <=> IsFact(x, members, specs)
  BY <1>1, <1>3 DEF IsFact
<1>6. PostOK(y, members, specs, rows)
  BY <1>3, <1>5 DEF PostOK, StageOK, NamesOK, FactOK, RowOK
<1>7. PostOK(z, members, specs, rows)
  BY <1>4 DEF PostOK, StageOK, NamesOK, FactOK, RowOK
<1> QED
  BY <1>2, <1>3, <1>4, <1>6, <1>7, OnePost

----------------------------------------------------------------------------
(* The route *)

InOrder(x) == PostOK(x, members, specs, rows)

LEMMA AnsweredOK ==
  ASSUME NEW x, InOrder(x), NEW answer,
         x.kind = "member" /\ answer = "mirrored" => rows[x.label] # None \/ x.gone
  PROVE  LET y == Answered(x, answer) IN InOrder(y) /\ y.kind = x.kind /\ y.label = x.label
<1> DEFINE y == Answered(x, answer)
<1>1. /\ DOMAIN y = PostFields /\ y.at = "done" /\ y.answer = answer /\ y.kind = x.kind
      /\ y.label = x.label /\ y.wallet = x.wallet /\ y.role = x.role /\ y.gone = x.gone
  BY DEF InOrder, PostOK, PostFields, Answered
<1> HIDE DEF y
<1>2. InOrder(y)
  BY <1>1 DEF InOrder, PostOK, StageOK, NamesOK, FactOK, RowOK
<1> QED
  BY <1>1, <1>2 DEF y

\* The chain is read, or the name recorded.
LEMMA ReadNext ==
  ASSUME DeskInv, NEW p \in Origins,
         \/ ReadMembership(p) \/ ReadLabel(p) \/ ReadSpec(p) \/ ReadGone(p) \/ ReadFails(p)
         \/ \E names \in SUBSET Roles : ReadRoles(p, names)
         \/ RecordName(p)
  PROVE  \E y : /\ posts' = [posts EXCEPT ![p] = y]
                /\ InOrder(y) /\ y.kind = posts[p].kind /\ y.label = posts[p].label
<1> USE DEF DeskInv
<1> DEFINE x == posts[p]
<1>1. InOrder(x)
  BY DEF PostsOK, InOrder
<1>2. x.at # "idle" /\ x.at # "done" => (IsFact(x, members, specs) => x.fact)
  BY <1>1 DEF InOrder, PostOK, FactOK
<1>a. DOMAIN x = PostFields /\ StageOK(x) /\ NamesOK(x)
  BY <1>1 DEF InOrder, PostOK
<1>3. ASSUME NEW answer, posts' = [posts EXCEPT ![p] = Answered(x, answer)],
             x.kind = "member" /\ answer = "mirrored" => rows[x.label] # None \/ x.gone
      PROVE  \E y : /\ posts' = [posts EXCEPT ![p] = y]
                    /\ InOrder(y) /\ y.kind = x.kind /\ y.label = x.label
  BY <1>1, <1>3, AnsweredOK
<1>4. CASE ReadMembership(p)
  <2> DEFINE y == [x EXCEPT !.at = "label", !.id = members[x.wallet].id]
  <2>1. x.at = "read" /\ x.kind = "member"
    BY <1>4 DEF ReadMembership
  <2>2. /\ DOMAIN y = PostFields /\ y.at = "label" /\ y.kind = "member" /\ y.label = x.label
        /\ y.wallet = x.wallet /\ y.fact = x.fact
    BY <1>a, <2>1 DEF PostFields
  <2>3. posts' = [posts EXCEPT ![p] = Answered(x, "refused")] \/ posts' = [posts EXCEPT ![p] = y]
    BY <1>4 DEF ReadMembership, At
  <2> HIDE DEF x, y
  <2>4. IsFact(y, members, specs) => y.fact
    BY <1>2, <2>1, <2>2 DEF IsFact
  <2>5. InOrder(y)
    BY <1>a, <2>1, <2>2, <2>4 DEF InOrder, PostOK, StageOK, NamesOK, FactOK, RowOK
  <2> QED
    BY <1>3, <2>1, <2>2, <2>3, <2>5 DEF x
<1>5. CASE ReadLabel(p)
  <2> DEFINE y == [x EXCEPT !.at = "roles", !.role = members[x.wallet].role]
  <2>1. x.at = "label" /\ x.kind = "member"
    BY <1>5, <1>a DEF ReadLabel, StageOK
  <2>2. /\ DOMAIN y = PostFields /\ y.at = "roles" /\ y.kind = "member" /\ y.label = x.label
        /\ y.wallet = x.wallet /\ y.fact = x.fact
    BY <1>a, <2>1 DEF PostFields
  <2>3. \/ posts' = [posts EXCEPT ![p] = Answered(x, "refused")]
        \/ Matches(x) /\ posts' = [posts EXCEPT ![p] = y]
    BY <1>5 DEF ReadLabel, At
  <2> HIDE DEF x, y
  <2>4. Matches(x) => x.fact
    BY <1>2, <2>1 DEF Matches, IsFact, Holds
  <2>5. Matches(x) => InOrder(y)
    BY <1>a, <2>1, <2>2, <2>4 DEF InOrder, PostOK, StageOK, NamesOK, FactOK, RowOK
  <2> QED
    BY <1>3, <2>1, <2>2, <2>3, <2>5 DEF x
<1>6. CASE ReadSpec(p)
  <2> DEFINE y == [x EXCEPT !.at = "roles"]
  <2>1. x.at = "read" /\ x.kind = "group"
    BY <1>6 DEF ReadSpec
  <2>2. /\ DOMAIN y = PostFields /\ y.at = "roles" /\ y.kind = "group" /\ y.label = x.label
        /\ y.role = x.role /\ y.fact = x.fact
    BY <1>a, <2>1 DEF PostFields
  <2>3. \/ posts' = [posts EXCEPT ![p] = Answered(x, "refused")]
        \/ Active(specs, x.role) /\ posts' = [posts EXCEPT ![p] = y]
    BY <1>6 DEF ReadSpec, At
  <2> HIDE DEF x, y
  <2>4. Active(specs, x.role) => x.fact
    BY <1>2, <2>1 DEF IsFact
  <2>5. Active(specs, x.role) => InOrder(y)
    BY <1>a, <2>1, <2>2, <2>4 DEF InOrder, PostOK, StageOK, NamesOK, FactOK, RowOK
  <2> QED
    BY <1>3, <2>1, <2>2, <2>3, <2>5 DEF x
<1>7. CASE ReadGone(p)
  <2> DEFINE y == [x EXCEPT !.at = "find"]
  <2>1. x.at = "read" /\ x.kind = "revoke"
    BY <1>7 DEF ReadGone
  <2>2. /\ DOMAIN y = PostFields /\ y.at = "find" /\ y.kind = "revoke" /\ y.label = x.label
        /\ y.fact = x.fact
    BY <1>a, <2>1 DEF PostFields
  <2>3. posts' = [posts EXCEPT ![p] = Answered(x, "refused")] \/ posts' = [posts EXCEPT ![p] = y]
    BY <1>7 DEF ReadGone, At
  <2> HIDE DEF x, y
  <2>4. IsFact(y, members, specs) => y.fact
    BY <1>2, <2>1, <2>2 DEF IsFact
  <2>5. InOrder(y)
    BY <1>a, <2>1, <2>2, <2>4 DEF InOrder, PostOK, StageOK, NamesOK, FactOK, RowOK
  <2> QED
    BY <1>3, <2>1, <2>2, <2>3, <2>5 DEF x
<1>8. CASE ReadFails(p)
  BY <1>3, <1>8 DEF ReadFails, At
<1>9. ASSUME NEW names \in SUBSET Roles, ReadRoles(p, names)
      PROVE  \E y : /\ posts' = [posts EXCEPT ![p] = y]
                    /\ InOrder(y) /\ y.kind = x.kind /\ y.label = x.label
  <2>1. x.at = "roles" /\ x.fact /\ x.kind # "revoke"
    BY <1>1, <1>9 DEF ReadRoles, InOrder, PostOK, StageOK, FactOK
  <2>2. ASSUME NEW g \in GroupNames, posts' = [posts EXCEPT ![p] = [x EXCEPT !.at = "list", !.group = g]]
        PROVE  \E y : /\ posts' = [posts EXCEPT ![p] = y]
                      /\ InOrder(y) /\ y.kind = x.kind /\ y.label = x.label
    <3> DEFINE y == [x EXCEPT !.at = "list", !.group = g]
    <3>1. /\ DOMAIN y = PostFields /\ y.at = "list" /\ y.kind = x.kind /\ y.label = x.label
          /\ y.wallet = x.wallet /\ y.role = x.role /\ y.fact = x.fact /\ y.group = g
      BY <1>a DEF PostFields
    <3> HIDE DEF y
    <3>2. InOrder(y)
      BY <1>a, <2>1, <3>1 DEF InOrder, PostOK, StageOK, NamesOK, FactOK, RowOK
    <3> QED
      BY <2>2, <3>1, <3>2 DEF y
  <2>3. x.role \in names => EnforcerGroupName(x.role) \in GroupNames
    BY <1>a DEF EnforcerGroupName, GroupNames, RowsOK, RoleSpecs
  <2>4. x.kind = "group" => x.role \in GroupNames
    BY <1>a DEF NamesOK, GroupNames
  <2>5. \/ x.role \in names /\ posts' = [posts EXCEPT ![p] = [x EXCEPT !.at = "list", !.group = EnforcerGroupName(x.role)]]
        \/ x.kind = "group" /\ posts' = [posts EXCEPT ![p] = [x EXCEPT !.at = "list", !.group = x.role]]
        \/ posts' = [posts EXCEPT ![p] = Answered(x, "refused")]
    <3> DEFINE a == [x EXCEPT !.at = "list", !.group = EnforcerGroupName(x.role)]
               b == [x EXCEPT !.at = "list", !.group = x.role]
               c == Answered(x, "refused")
               y == CASE x.role \in names -> a [] x.role \notin names /\ x.kind = "group" -> b [] OTHER -> c
    <3>1. posts' = [posts EXCEPT ![p] = y]
      BY <1>9 DEF ReadRoles, At
    <3> HIDE DEF a, b, c
    <3>2. \/ x.role \in names /\ y = a
          \/ x.kind = "group" /\ y = b
          \/ y = c
      OBVIOUS
    <3> HIDE DEF y
    <3> QED
      BY <3>1, <3>2 DEF a, b, c
  <2> QED
    BY <1>3, <2>2, <2>3, <2>4, <2>5
<1>10. CASE RecordName(p)
  <2>1. x.at = "record" /\ posts' = [posts EXCEPT ![p] = Answered(x, x.answer)]
    BY <1>10 DEF RecordName, At
  <2>2. x.kind = "member" /\ x.answer = "mirrored" => rows[x.label] # None \/ x.gone
    BY <1>1, <2>1 DEF InOrder, PostOK, RowOK
  <2> QED
    BY <1>3, <2>1, <2>2
<1> QED
  BY <1>4, <1>5, <1>6, <1>7, <1>8, <1>9, <1>10

----------------------------------------------------------------------------
(* The rows *)

\* No row is removed; only those of the labels in on are enabled or new.
RowsMove(rs, on) ==
  /\ rs \in [Labels -> Row \union {None}]
  /\ \A l \in Labels : rows[l] # None => rs[l] # None
  /\ \A l \in Labels \ on : Off(rows[l]) => Off(rs[l])

LEMMA RowMoves ==
  ASSUME DeskInv, NEW rs, NEW on, RowsMove(rs, on), NEW x, InOrder(x),
         x.at = "end" => x.undone \/ x.label \notin on
  PROVE  PostOK(x, members, specs, rs)
<1>1. x.at = "end" => x.kind = "revoke"
  BY DEF InOrder, PostOK, StageOK
<1>2. x.kind \in {"member", "revoke"} => x.label \in Labels
  BY DEF InOrder, PostOK, NamesOK
<1>3. RowOK(x, rs)
  BY <1>1, <1>2 DEF InOrder, PostOK, RowOK, RowsMove
<1> QED
  BY <1>3 DEF InOrder, PostOK

LEMMA EnabledOK ==
  ASSUME DeskInv, NEW rs, NEW l, RowsMove(rs, {l}), NEW x, InOrder(x), x.label = l, x.at = "end"
  PROVE  LET y == [x EXCEPT !.undone = TRUE]
         IN  PostOK(y, members, specs, rs) /\ y.kind = x.kind /\ y.label = x.label
<1> DEFINE y == [x EXCEPT !.undone = TRUE]
<1>1. /\ DOMAIN y = PostFields /\ y.undone = TRUE
      /\ y.kind = x.kind /\ y.label = x.label /\ y.wallet = x.wallet /\ y.role = x.role /\ y.at = x.at
      /\ y.group = x.group /\ y.answer = x.answer /\ y.fact = x.fact /\ y.gone = x.gone
  BY DEF InOrder, PostOK, PostFields
<1> HIDE DEF y
<1>2. IsFact(y, members, specs) <=> IsFact(x, members, specs)
  BY <1>1 DEF IsFact
<1>3. InOrder(y)
  BY <1>1, <1>2 DEF InOrder, PostOK, StageOK, NamesOK, FactOK, RowOK
<1>4. PostOK(y, members, specs, rs)
  BY <1>1, <1>3, RowMoves
<1> QED
  BY <1>1, <1>4 DEF y

\* A request after somebody enabled a row, or nobody did.
LEMMA OtherMoved ==
  ASSUME DeskInv, NEW rs, NEW l, NEW on \in {{}, {l}}, RowsMove(rs, on), NEW q \in Origins,
         NEW z, z = IF on = {l} THEN Enabled(l, posts)[q] ELSE posts[q]
  PROVE  PostOK(z, members, specs, rs) /\ z.kind = posts[q].kind /\ z.label = posts[q].label
<1> DEFINE x == posts[q]
<1>1. InOrder(x)
  BY DEF DeskInv, PostsOK, InOrder
<1>2. CASE on = {}
  BY <1>1, <1>2, RowMoves
<1>3. CASE on = {l} /\ x.label = l /\ x.at = "end"
  <2>1. z = [x EXCEPT !.undone = TRUE]
    BY <1>3 DEF Enabled
  <2> HIDE DEF x
  <2>2. LET y == [x EXCEPT !.undone = TRUE]
        IN  PostOK(y, members, specs, rs) /\ y.kind = x.kind /\ y.label = x.label
    BY <1>1, <1>3, EnabledOK
  <2> QED
    BY <2>1, <2>2 DEF x
<1>4. CASE on = {l} /\ ~(x.label = l /\ x.at = "end")
  <2>1. z = x
    BY <1>4 DEF Enabled
  <2> QED
    BY <1>1, <1>4, <2>1, RowMoves
<1> QED
  BY <1>2, <1>3, <1>4

LEMMA RowsMoved ==
  ASSUME DeskInv, NEW l, NEW on \in {{}, {l}}, RowsMove(rows', on),
         posts' = IF on = {l} THEN Enabled(l, posts) ELSE posts,
         reported' = reported \ on,
         UNCHANGED <<members, specs>>
  PROVE  /\ PostsOK' /\ RowsOK'
         /\ \A q \in Origins : posts'[q].kind = posts[q].kind /\ posts'[q].label = posts[q].label
<1>1. ASSUME NEW q \in Origins
      PROVE  /\ PostOK(posts'[q], members, specs, rows')
             /\ posts'[q].kind = posts[q].kind /\ posts'[q].label = posts[q].label
  <2> DEFINE z == posts'[q]
  <2>1. z = IF on = {l} THEN Enabled(l, posts)[q] ELSE posts[q]
    OBVIOUS
  <2> HIDE DEF z
  <2>2. PostOK(z, members, specs, rows') /\ z.kind = posts[q].kind /\ z.label = posts[q].label
    <3>1. CASE on = {}
      BY <2>1, <3>1, OtherMoved
    <3>2. CASE on = {l}
      BY <2>1, <3>2, OtherMoved
    <3> QED
      BY <3>1, <3>2
  <2> QED
    BY <2>2 DEF z
<1>2. PostsOK'
  BY <1>1 DEF DeskInv, PostsOK, Enabled
<1>3. RowsOK'
  BY DEF DeskInv, RowsOK, RowsMove
<1> QED
  BY <1>1, <1>2, <1>3

\* A row as it is written, or switched off, is a row.
LEMMA RowsWritten ==
  ASSUME DeskInv, NEW l \in Labels
  PROVE  /\ RowsMove(TurnedOff(l), {})
         /\ Off(TurnedOff(l)[l])
         /\ \A row \in Row : RowsMove([rows EXCEPT ![l] = row], {l}) /\ [rows EXCEPT ![l] = row][l] # None
<1> USE DEF DeskInv
<1>1. rows \in [Labels -> Row \union {None}] /\ None \notin Row
  BY DeskAssumption DEF RowsOK, Row
<1>2. rows[l] # None => [rows[l] EXCEPT !.off = TRUE] \in Row /\ [rows[l] EXCEPT !.off = TRUE].off
  BY <1>1 DEF Row
<1>3. RowsMove(TurnedOff(l), {}) /\ Off(TurnedOff(l)[l])
  BY <1>1, <1>2 DEF RowsMove, TurnedOff, Off
<1>4. ASSUME NEW row \in Row
      PROVE  RowsMove([rows EXCEPT ![l] = row], {l}) /\ [rows EXCEPT ![l] = row][l] # None
  BY <1>1 DEF RowsMove
<1> QED
  BY <1>3, <1>4

\* A row is deleted: whoever speaks of it has lost it.
LEMMA RowsLost ==
  ASSUME DeskInv, NEW l \in Labels, rows' = [rows EXCEPT ![l] = None], posts' = Lost(l, posts),
         UNCHANGED <<members, specs, reported>>
  PROVE  /\ PostsOK' /\ RowsOK'
         /\ \A q \in Origins : posts'[q].kind = posts[q].kind /\ posts'[q].label = posts[q].label
<1> USE DEF DeskInv
<1>1. rows' \in [Labels -> Row \union {None}] /\ rows'[l] = None /\ \A k \in Labels \ {l} : rows'[k] = rows[k]
  BY DEF RowsOK
<1>2. ASSUME NEW q \in Origins
      PROVE  /\ PostOK(posts'[q], members, specs, rows')
             /\ posts'[q].kind = posts[q].kind /\ posts'[q].label = posts[q].label
  <2> DEFINE x == posts[q]
             y == [x EXCEPT !.gone = TRUE]
             lost == x.label = l /\ (x.found \/ x.at \in {"record", "done"})
  <2>1. InOrder(x)
    BY DEF PostsOK, InOrder
  <2>2. posts'[q] = IF lost THEN y ELSE x
    BY DEF Lost
  <2>3. /\ DOMAIN y = PostFields /\ y.gone = TRUE /\ y.undone = x.undone
        /\ y.kind = x.kind /\ y.label = x.label /\ y.wallet = x.wallet /\ y.role = x.role /\ y.at = x.at
        /\ y.group = x.group /\ y.answer = x.answer /\ y.fact = x.fact
    BY <2>1 DEF InOrder, PostOK, PostFields
  <2>4. (x.kind \in {"member", "revoke"} => x.label \in Labels) /\ (x.at = "end" => x.kind = "revoke")
    BY <2>1 DEF InOrder, PostOK, NamesOK, StageOK
  <2> HIDE DEF x, y
  <2>5. CASE lost
    <3>1. IsFact(y, members, specs) <=> IsFact(x, members, specs)
      BY <2>3 DEF IsFact
    <3>2. StageOK(y) /\ NamesOK(y) /\ FactOK(y, members, specs)
      BY <2>1, <2>3, <3>1 DEF InOrder, PostOK, StageOK, NamesOK, FactOK
    <3>3. RowOK(y, rows')
      BY <1>1, <2>3, <2>5 DEF RowOK, Off
    <3> QED
      BY <2>2, <2>3, <2>5, <3>2, <3>3 DEF PostOK, x
  <2>6. CASE ~lost
    <3>1. RowOK(x, rows')
      BY <1>1, <2>1, <2>4, <2>6 DEF InOrder, PostOK, RowOK, Off
    <3> QED
      BY <2>1, <2>2, <2>6, <3>1 DEF InOrder, PostOK, x
  <2> QED
    BY <2>5, <2>6
<1>3. PostsOK'
  BY <1>2 DEF PostsOK, Lost
<1>4. RowsOK'
  BY <1>1 DEF RowsOK, Off
<1> QED
  BY <1>2, <1>3, <1>4

----------------------------------------------------------------------------
(* Calls to the enforcer *)

\* What the next await of a request may be, once a call has been carried out.
GoesOn(x, y) ==
  /\ DOMAIN y = PostFields /\ StageOK(y) /\ NamesOK(y) /\ FactOK(y, members, specs)
  /\ y.kind = x.kind /\ y.label = x.label
  /\ y.kind = "member" /\ y.at \in {"record", "done"} /\ y.answer = "mirrored" => Enables(x)
  /\ y.at = "end" => x.at = "disable" /\ ~x.gone

\* All that changes in a request is where it is, and what it has found or is answered.
SameBut(x, y) ==
  /\ DOMAIN y = PostFields
  /\ y.kind = x.kind /\ y.label = x.label /\ y.wallet = x.wallet /\ y.role = x.role
  /\ y.group = x.group /\ y.fact = x.fact

LEMMA Moved ==
  ASSUME NEW x, InOrder(x), x.at \in Calls, NEW y, SameBut(x, y)
  PROVE  NamesOK(y) /\ FactOK(y, members, specs)
<1>1. NamesOK(x) /\ (IsFact(x, members, specs) => x.fact) /\ (x.kind # "revoke" => x.fact)
      /\ (x.kind = "revoke" \/ x.at \in {"list", "create", "find", "write"})
  BY DEF InOrder, PostOK, FactOK, Calls, StageOK
<1>2. IsFact(y, members, specs) <=> IsFact(x, members, specs)
  BY DEF IsFact, SameBut
<1>3. FactOK(y, members, specs)
  BY <1>1, <1>2 DEF FactOK, SameBut
<1>4. NamesOK(y)
  BY <1>1 DEF NamesOK, SameBut
<1> QED
  BY <1>3, <1>4

LEMMA MirroredOn ==
  ASSUME NEW x, InOrder(x), x.at \in Calls, NEW answer,
         x.kind = "member" /\ answer = "mirrored" => Enables(x)
  PROVE  GoesOn(x, Mirrored(x, answer))
<1> DEFINE y == Mirrored(x, answer)
<1>1. SameBut(x, y) /\ y.answer = answer /\ y.at = IF x.kind = "member" THEN "record" ELSE "done"
  BY DEF InOrder, PostOK, PostFields, SameBut, Mirrored, Answered
<1> HIDE DEF y
<1>2. NamesOK(y) /\ FactOK(y, members, specs)
  BY <1>1, Moved
<1>3. StageOK(y)
  BY <1>1 DEF StageOK, SameBut
<1> QED
  BY <1>1, <1>2, <1>3 DEF GoesOn, SameBut, y

LEMMA StepsOn ==
  ASSUME NEW x, InOrder(x), x.at \in Calls, NEW y, SameBut(x, y), y.answer = x.answer,
         y.at \in {"create", "find", "write", "disable", "end"}, StageOK(y),
         y.at = "end" => x.at = "disable" /\ ~x.gone
  PROVE  GoesOn(x, y)
<1>1. NamesOK(y) /\ FactOK(y, members, specs)
  BY Moved
<1> QED
  BY <1>1 DEF GoesOn, SameBut

\* Going on to a call.
LEMMA AtOn ==
  ASSUME NEW x, InOrder(x), x.at \in Calls, NEW at,
         \/ x.kind = "group" /\ at = "create"
         \/ x.kind = "member" /\ at \in {"find", "write"}
         \/ x.kind = "revoke" /\ at = "end" /\ x.at = "disable" /\ ~x.gone
  PROVE  GoesOn(x, [x EXCEPT !.at = at])
<1> DEFINE y == [x EXCEPT !.at = at]
<1>1. SameBut(x, y) /\ y.answer = x.answer /\ y.at = at
  BY DEF InOrder, PostOK, PostFields, SameBut
<1> HIDE DEF y
<1>2. StageOK(y)
  BY <1>1 DEF StageOK, SameBut
<1>3. y.at \in {"create", "find", "write", "disable", "end"}
  BY <1>1
<1>4. y.at = "end" => x.at = "disable" /\ ~x.gone
  BY <1>1
<1>5. GoesOn(x, y)
  BY <1>1, <1>2, <1>3, <1>4, StepsOn
<1> QED
  BY <1>5 DEF y

\* Going on to the write, with what was found.
LEMMA FoundOn ==
  ASSUME NEW x, InOrder(x), x.at \in Calls, NEW found, NEW at,
         (x.kind = "member" /\ at = "write") \/ (x.kind = "revoke" /\ at = "disable")
  PROVE  GoesOn(x, [x EXCEPT !.at = at, !.found = found])
<1> DEFINE y == [x EXCEPT !.at = at, !.found = found]
<1>1. SameBut(x, y) /\ y.answer = x.answer /\ y.at = at
  BY DEF InOrder, PostOK, PostFields, SameBut
<1> HIDE DEF y
<1>2. StageOK(y)
  BY <1>1 DEF StageOK, SameBut
<1>3. GoesOn(x, y)
  BY <1>1, <1>2, StepsOn
<1> QED
  BY <1>3 DEF y

\* Whichever way a call ends, the request goes on in order.
LEMMA GroupOn ==
  ASSUME NEW x, InOrder(x), x.at \in Calls, x.kind = "group"
  PROVE  GoesOn(x, MirrorGroup(x))
<1>1. x.at \in {"list", "create"}
  BY DEF InOrder, PostOK, StageOK, Calls
<1>2. GoesOn(x, Mirrored(x, "mirrored"))
  BY <1>1, MirroredOn
<1>3. GoesOn(x, [x EXCEPT !.at = "create"])
  BY <1>1, AtOn
<1> DEFINE a == Mirrored(x, "mirrored")
           b == [x EXCEPT !.at = "create"]
<1>4. MirrorGroup(x) = a \/ MirrorGroup(x) = b
  <2>1. CASE x.at = "list"
    BY <2>1 DEF MirrorGroup
  <2>2. CASE x.at = "create"
    BY <2>2 DEF MirrorGroup
  <2> QED
    BY <1>1, <2>1, <2>2
<1> QED
  BY <1>2, <1>3, <1>4

LEMMA MemberOn ==
  ASSUME NEW x, InOrder(x), x.at \in Calls, x.kind = "member"
  PROVE  GoesOn(x, MirrorMember(x))
<1>1. x.at \in {"list", "find", "write"}
  BY DEF InOrder, PostOK, StageOK, Calls
<1>2. CASE x.at = "list"
  <2>1. MirrorMember(x) = [x EXCEPT !.at = "find"] \/ MirrorMember(x) = Mirrored(x, "not")
    BY <1>2 DEF MirrorMember
  <2>2. GoesOn(x, Mirrored(x, "not"))
    BY <1>2, MirroredOn
  <2>3. GoesOn(x, [x EXCEPT !.at = "find"])
    BY <1>2, AtOn
  <2> QED
    BY <2>1, <2>2, <2>3
<1>3. CASE x.at = "find"
  <2>1. MirrorMember(x) = [x EXCEPT !.at = "write", !.found = rows[x.label] # None]
    BY <1>3 DEF MirrorMember
  <2>2. GoesOn(x, [x EXCEPT !.at = "write", !.found = rows[x.label] # None])
    BY <1>3, FoundOn
  <2> QED
    BY <2>1, <2>2
<1>4. CASE x.at = "write"
  <2>1. MirrorMember(x) = Mirrored(x, IF Writable(x) THEN "mirrored" ELSE "not")
    BY <1>4 DEF MirrorMember
  <2>2. Writable(x) => GoesOn(x, Mirrored(x, "mirrored"))
    BY <1>4, MirroredOn DEF Enables
  <2>3. GoesOn(x, Mirrored(x, "not"))
    BY <1>4, MirroredOn
  <2> QED
    BY <2>1, <2>2, <2>3
<1> QED
  BY <1>1, <1>2, <1>3, <1>4

LEMMA RevokeOn ==
  ASSUME NEW x, InOrder(x), x.at \in Calls, x.kind = "revoke"
  PROVE  GoesOn(x, MirrorRevoke(x))
<1>1. x.at \in {"find", "disable", "end"}
  BY DEF InOrder, PostOK, StageOK, Calls
<1>2. GoesOn(x, Mirrored(x, "not"))
  BY MirroredOn
<1>3. CASE x.at = "find"
  <2>1. \/ MirrorRevoke(x) = [x EXCEPT !.at = "disable", !.found = TRUE]
        \/ MirrorRevoke(x) = Mirrored(x, "mirrored")
    BY <1>3 DEF MirrorRevoke
  <2>2. GoesOn(x, Mirrored(x, "mirrored"))
    BY <1>3, MirroredOn
  <2>3. GoesOn(x, [x EXCEPT !.at = "disable", !.found = TRUE])
    BY <1>3, FoundOn
  <2> QED
    BY <2>1, <2>2, <2>3
<1>4. CASE x.at = "disable"
  <2>1. \/ ~x.gone /\ MirrorRevoke(x) = [x EXCEPT !.at = "end"]
        \/ MirrorRevoke(x) = Mirrored(x, "not")
    BY <1>4 DEF MirrorRevoke, HasRow
  <2>2. ~x.gone => GoesOn(x, [x EXCEPT !.at = "end"])
    BY <1>4, AtOn
  <2> QED
    BY <1>2, <2>1, <2>2
<1>5. CASE x.at = "end"
  <2>1. MirrorRevoke(x) = Mirrored(x, "mirrored") \/ MirrorRevoke(x) = Mirrored(x, "not")
    BY <1>5 DEF MirrorRevoke
  <2>2. GoesOn(x, Mirrored(x, "mirrored"))
    BY <1>5, MirroredOn
  <2> QED
    BY <1>2, <2>1, <2>2
<1> QED
  BY <1>1, <1>3, <1>4, <1>5

LEMMA MistakenOn ==
  ASSUME NEW x, InOrder(x), x.at \in Calls
  PROVE  GoesOn(x, Mistaken(x)) /\ GoesOn(x, Mirrored(x, "not"))
<1>1. GoesOn(x, Mirrored(x, "not"))
  BY MirroredOn
<1>2. \/ Mistaken(x) = Mirrored(x, "not")
      \/ x.at = "find" /\ x.kind = "member" /\ Mistaken(x) = [x EXCEPT !.at = "write"]
      \/ x.at = "list" /\ x.kind = "group" /\ Mistaken(x) = [x EXCEPT !.at = "create"]
  BY DEF Mistaken
<1>3. x.at = "find" /\ x.kind = "member" => GoesOn(x, [x EXCEPT !.at = "write"])
  BY AtOn
<1>4. x.at = "list" /\ x.kind = "group" => GoesOn(x, [x EXCEPT !.at = "create"])
  BY AtOn
<1> QED
  BY <1>1, <1>2, <1>3, <1>4

\* A call that was not carried out leaves the request in order.
LEMMA MistakenStays ==
  ASSUME NEW x, InOrder(x), x.at \in Calls
  PROVE  PostOK(Mistaken(x), members, specs, rows) /\ PostOK(Mirrored(x, "not"), members, specs, rows)
<1>1. ASSUME NEW y, GoesOn(x, y), y.at # "end", y.at \in {"record", "done"} => y.answer # "mirrored"
      PROVE  PostOK(y, members, specs, rows)
  BY <1>1 DEF GoesOn, PostOK, RowOK
<1>2. /\ Mirrored(x, "not").at \in {"record", "done"} /\ Mirrored(x, "not").answer = "not"
  BY DEF InOrder, PostOK, PostFields, Mirrored, Answered
<1>3. PostOK(Mirrored(x, "not"), members, specs, rows)
  BY <1>1, <1>2, MistakenOn
<1>4. \/ Mistaken(x) = Mirrored(x, "not")
      \/ Mistaken(x) = [x EXCEPT !.at = "write"]
      \/ Mistaken(x) = [x EXCEPT !.at = "create"]
  BY DEF Mistaken
<1>5. [x EXCEPT !.at = "write"].at = "write" /\ [x EXCEPT !.at = "create"].at = "create"
  BY DEF InOrder, PostOK, PostFields
<1>6. GoesOn(x, Mistaken(x))
  BY MistakenOn
<1>7. CASE Mistaken(x) = Mirrored(x, "not")
  BY <1>3, <1>7
<1>8. CASE Mistaken(x) # Mirrored(x, "not")
  <2>1. Mistaken(x).at \in {"write", "create"}
    BY <1>4, <1>5, <1>8
  <2> QED
    BY <1>1, <1>3, <1>6, <2>1
<1> QED
  BY <1>3, <1>7, <1>8

LEMMA CallNext ==
  ASSUME DeskInv, NEW p \in Origins
  PROVE  /\ CallAnswered(p) => \E y : GoesOn(posts[p], y) /\ Call(p, y)
         /\ CallFails(p) => \E y : /\ GoesOn(posts[p], y)
                                   /\ \/ Call(p, y)
                                      \/ /\ At(p, y) /\ PostOK(y, members, specs, rows)
                                         /\ UNCHANGED <<registrarVars, catalogue, enforcerVars, moves>>
<1> DEFINE x == posts[p]
<1>1. InOrder(x)
  BY DEF DeskInv, PostsOK, InOrder
<1>2. ASSUME CallAnswered(p) PROVE \E y : GoesOn(x, y) /\ Call(p, y)
  <2>1. x.at \in Calls /\ x.kind \in {"group", "member", "revoke"}
    BY <1>1, <1>2 DEF CallAnswered, InOrder, PostOK, StageOK, Calls
  <2> DEFINE y == CASE x.kind = "group" -> MirrorGroup(x)
                    [] x.kind = "member" -> MirrorMember(x)
                    [] x.kind = "revoke" -> MirrorRevoke(x)
  <2>2. Call(p, y)
    BY <1>2 DEF CallAnswered
  <2> HIDE DEF x
  <2>3. CASE x.kind = "group"
    <3>1. y = MirrorGroup(x)
      BY <2>3
    <3> QED
      BY <1>1, <2>1, <2>2, <2>3, <3>1, GroupOn
  <2>4. CASE x.kind = "member"
    <3>1. y = MirrorMember(x)
      BY <2>4
    <3> QED
      BY <1>1, <2>1, <2>2, <2>4, <3>1, MemberOn
  <2>5. CASE x.kind = "revoke"
    <3>1. y = MirrorRevoke(x)
      BY <2>5
    <3> QED
      BY <1>1, <2>1, <2>2, <2>5, <3>1, RevokeOn
  <2> QED
    BY <2>1, <2>3, <2>4, <2>5
<1>3. ASSUME CallFails(p)
      PROVE  \E y : /\ GoesOn(x, y)
                    /\ \/ Call(p, y)
                       \/ /\ At(p, y) /\ PostOK(y, members, specs, rows)
                          /\ UNCHANGED <<registrarVars, catalogue, enforcerVars, moves>>
  <2>1. x.at \in Calls
    BY <1>3 DEF CallFails
  <2>2. /\ GoesOn(x, Mirrored(x, "not")) /\ PostOK(Mirrored(x, "not"), members, specs, rows)
        /\ GoesOn(x, Mistaken(x)) /\ PostOK(Mistaken(x), members, specs, rows)
    BY <1>1, <2>1, MistakenOn, MistakenStays
  <2>3. \/ Call(p, Mirrored(x, "not"))
        \/ /\ At(p, Mirrored(x, "not")) \/ At(p, Mistaken(x))
           /\ UNCHANGED <<registrarVars, catalogue, enforcerVars, moves>>
    BY <1>3 DEF CallFails
  <2> QED
    BY <2>2, <2>3
<1> QED
  BY <1>2, <1>3

LEMMA CallStep ==
  ASSUME DeskInv, NEW p \in Origins, NEW y, posts[p].at \in Calls, GoesOn(posts[p], y), Call(p, y)
  PROVE  /\ PostsOK' /\ RowsOK'
         /\ \A q \in Origins : posts'[q].kind = posts[q].kind /\ posts'[q].label = posts[q].label
         /\ \A l \in Labels : rows[l] # None => rows'[l] # None
<1> DEFINE x == posts[p]
           after == [posts EXCEPT ![p] = y]
<1>1. /\ InOrder(x) /\ DOMAIN posts = Origins /\ x.at \in Calls /\ GoesOn(x, y)
  BY DEF DeskInv, PostsOK, InOrder
<1>2. /\ rows' = Written(x)
      /\ posts' = IF Enables(x) THEN Enabled(x.label, after) ELSE after
      /\ reported' = CASE Enables(x) -> reported \ {x.label}
                       [] x.at = "end" /\ y.answer = "mirrored" /\ ~x.undone -> reported \union {x.label}
                       [] OTHER -> reported
      /\ UNCHANGED <<members, specs>>
  BY DEF Call, registrarVars
<1>3. y.kind = x.kind /\ y.label = x.label
  BY <1>1 DEF GoesOn
<1>4. CASE Enables(x)
  <2>1. /\ x.at = "write" /\ x.kind = "member" /\ x.label \in Labels
        /\ x.group \in GroupNames
    BY <1>1, <1>4 DEF Enables, InOrder, PostOK, StageOK, NamesOK
  <2>2. rows' = [rows EXCEPT ![x.label] = Copied(x)] /\ Copied(x) \in Row
    BY <1>2, <1>4, <2>1 DEF Written, Copied, Row
  <2>3. RowsMove(rows', {x.label}) /\ rows'[x.label] # None
    BY <2>1, <2>2, RowsWritten
  <2>4. y.at # "end"
    BY <1>1, <2>1 DEF GoesOn
  <2>5. posts' = Enabled(x.label, after) /\ reported' = reported \ {x.label}
    <3> HIDE DEF x, after
    <3> QED
      BY <1>2, <1>4, <2>1
  <2>6. posts'[p] = y
    BY <1>1, <2>4, <2>5 DEF Enabled
  <2>7. PostOK(y, members, specs, rows')
    BY <1>1, <1>3, <2>3, <2>4 DEF GoesOn, PostOK, RowOK
  <2>8. ASSUME NEW q \in Origins, q # p
        PROVE  /\ PostOK(posts'[q], members, specs, rows')
               /\ posts'[q].kind = posts[q].kind /\ posts'[q].label = posts[q].label
    <3>1. posts'[q] = Enabled(x.label, posts)[q]
      BY <1>1, <2>5, <2>8 DEF Enabled
    <3> QED
      BY <2>3, <3>1, OtherMoved
  <2>9. PostsOK'
    BY <1>2, <2>5, <2>6, <2>7, <2>8 DEF PostsOK, Enabled
  <2>10. RowsOK'
    BY <1>2, <2>3, <2>5 DEF DeskInv, RowsOK, RowsMove
  <2> QED
    BY <1>3, <2>3, <2>6, <2>8, <2>9, <2>10 DEF RowsMove
<1>5. CASE ~Enables(x)
  <2>1. posts' = after
    BY <1>2, <1>5
  <2>2. /\ RowsMove(rows', {}) /\ PostOK(y, members, specs, rows') /\ RowsOK'
    <3>1. CASE x.at = "disable"
      <4>1. x.label \in Labels
        BY <1>1, <3>1 DEF InOrder, PostOK, StageOK, NamesOK
      <4>2. (rows' = IF x.gone THEN rows ELSE TurnedOff(x.label)) /\ reported' = reported
        BY <1>2, <1>5, <3>1 DEF Written
      <4>3. RowsMove(rows', {}) /\ (~x.gone => Off(rows'[x.label]))
        <5>1. RowsMove(rows, {})
          BY DEF DeskInv, RowsOK, RowsMove
        <5> QED
          BY <4>1, <4>2, <5>1, RowsWritten
      <4>4. PostOK(y, members, specs, rows')
        BY <1>1, <1>3, <1>5, <4>3 DEF GoesOn, PostOK, RowOK
      <4> QED
        BY <1>2, <4>2, <4>3, <4>4 DEF DeskInv, RowsOK, RowsMove
    <3>2. CASE x.at # "disable"
      <4>1. rows' = rows
        BY <1>2, <1>5, <3>2 DEF Written
      <4>2. RowsMove(rows', {})
        BY <4>1 DEF DeskInv, RowsOK, RowsMove
      <4>3. PostOK(y, members, specs, rows')
        BY <1>1, <1>5, <3>2 DEF GoesOn, PostOK, RowOK
      <4>4. \A l \in reported' \ reported : l = x.label /\ x.at = "end" /\ ~x.undone
        BY <1>2, <1>5
      <4>5. x.at = "end" /\ ~x.undone => x.label \in Labels /\ Off(rows[x.label])
        BY <1>1 DEF InOrder, PostOK, StageOK, NamesOK, RowOK
      <4> QED
        BY <1>2, <4>1, <4>2, <4>3, <4>4, <4>5 DEF DeskInv, RowsOK
    <3> QED
      BY <3>1, <3>2
  <2>3. ASSUME NEW q \in Origins, q # p
        PROVE  PostOK(posts'[q], members, specs, rows') /\ posts'[q] = posts[q]
    BY <1>1, <2>1, <2>2, <2>3, OtherMoved
  <2>4. PostsOK'
    BY <1>1, <1>2, <2>1, <2>2, <2>3 DEF PostsOK
  <2> QED
    BY <1>1, <1>3, <2>1, <2>2, <2>3, <2>4 DEF RowsMove
<1> QED
  BY <1>4, <1>5

----------------------------------------------------------------------------
(* The steps of the mirror *)

\* What a step that is not the form's own leaves in order.
Stays ==
  /\ PostsOK' /\ RowsOK'
  /\ posts'["form"].kind = posts["form"].kind /\ posts'["form"].label = posts["form"].label
  /\ \A l \in Labels : rows[l] # None => rows'[l] # None

LEMMA OriginsKnown == {"form", "sync", "people"} \subseteq Origins
BY DeskAssumption

LEMMA NothingMoves ==
  ASSUME DeskInv, UNCHANGED <<members, specs, rows, reported, posts>>
  PROVE  Stays
BY DEF DeskInv, PostsOK, RowsOK, Stays

LEMMA IdleOK ==
  ASSUME DeskInv, NEW p \in Origins, At(p, Idle), UNCHANGED <<members, specs, rows, reported>>
  PROVE  PostsOK' /\ RowsOK' /\ \A q \in Origins \ {p} : posts'[q] = posts[q]
<1>1. DOMAIN Idle = PostFields /\ Idle.kind = "idle" /\ Idle.at = "idle"
  BY DEF Idle, PostFields
<1>2. PostOK(Idle, members, specs, rows)
  BY <1>1 DEF PostOK, StageOK, NamesOK, FactOK, RowOK
<1> QED
  BY <1>2, OnePost DEF At

LEMMA ServeStays ==
  ASSUME DeskInv, NEW p \in Origins, Serve(p)
  PROVE  Stays
<1>1. ASSUME NEW y, posts' = [posts EXCEPT ![p] = y], PostOK(y, members, specs, rows),
             y.kind = posts[p].kind, y.label = posts[p].label,
             UNCHANGED <<members, specs, rows, reported>>
      PROVE  Stays
  BY <1>1, OnePost, OriginsKnown DEF Stays
<1>2. CASE \/ ReadMembership(p) \/ ReadLabel(p) \/ ReadSpec(p) \/ ReadGone(p) \/ ReadFails(p)
           \/ \E names \in SUBSET Roles : ReadRoles(p, names)
           \/ RecordName(p)
  <2>1. PICK y : posts' = [posts EXCEPT ![p] = y] /\ InOrder(y) /\ y.kind = posts[p].kind /\ y.label = posts[p].label
    BY <1>2, ReadNext
  <2>2. UNCHANGED <<members, specs, rows, reported>>
    BY <1>2 DEF ReadMembership, ReadLabel, ReadSpec, ReadGone, ReadFails, ReadRoles, RecordName,
                registrarVars, enforcerVars
  <2> QED
    BY <1>1, <2>1, <2>2 DEF InOrder
<1>3. ASSUME NEW y, posts[p].at \in Calls, GoesOn(posts[p], y), Call(p, y)
      PROVE  Stays
  BY <1>3, CallStep, OriginsKnown DEF Stays
<1>4. CASE CallAnswered(p)
  <2>1. posts[p].at \in Calls
    BY <1>4 DEF CallAnswered
  <2> QED
    BY <1>3, <1>4, <2>1, CallNext
<1>5. CASE CallFails(p)
  <2>1. posts[p].at \in Calls
    BY <1>5 DEF CallFails
  <2>2. PICK y : /\ GoesOn(posts[p], y)
                 /\ \/ Call(p, y)
                    \/ /\ At(p, y) /\ PostOK(y, members, specs, rows)
                       /\ UNCHANGED <<registrarVars, catalogue, enforcerVars, moves>>
    BY <1>5, CallNext
  <2>3. CASE Call(p, y)
    BY <1>3, <2>1, <2>2, <2>3
  <2>4. CASE ~Call(p, y)
    <3>1. /\ posts' = [posts EXCEPT ![p] = y] /\ PostOK(y, members, specs, rows)
          /\ UNCHANGED <<members, specs, rows, reported>>
      BY <2>2, <2>4 DEF At, registrarVars, enforcerVars
    <3>2. y.kind = posts[p].kind /\ y.label = posts[p].label
      BY <2>2 DEF GoesOn
    <3> QED
      BY <1>1, <3>1, <3>2
  <2> QED
    BY <2>3, <2>4
<1>6. CASE p = "other" /\ Forget(p)
  <2>1. At(p, Idle) /\ UNCHANGED <<members, specs, rows, reported>> /\ "form" # p
    BY <1>6 DEF Forget, registrarVars, enforcerVars
  <2> QED
    BY <2>1, IdleOK, OriginsKnown DEF Stays
<1> QED
  BY <1>2, <1>4, <1>5, <1>6 DEF Serve

LEMMA MirrorStays ==
  ASSUME DeskInv, MirrorNext
  PROVE  Stays
<1>1. ASSUME NEW kind \in {"member", "group", "revoke"}, NEW l, NEW w, NEW r,
             kind # "group" => l \in Labels, kind = "member" => w \in Wallets, kind = "group" => r \in Roles,
             PostOther(kind, l, w, r), "other" \in Origins
      PROVE  Stays
  <2>1. Posted("other", kind, l, w, r, TRUE) /\ UNCHANGED <<members, specs, rows, reported>>
    BY <1>1 DEF PostOther, registrarVars, enforcerVars
  <2>2. /\ PostsOK' /\ RowsOK'
        /\ \A q \in Origins \ {"other"} : posts'[q] = posts[q]
    BY <1>1, <2>1, PostedOK
  <2> QED
    BY <2>1, <2>2, OriginsKnown DEF Stays
<1>2. ASSUME NEW kind, NEW l, NEW w, NEW r, PostOther(kind, l, w, r), "other" \notin Origins
      PROVE  Stays
  <2>1. /\ DOMAIN posts' = Origins /\ \A q \in Origins : posts'[q] = posts[q]
        /\ UNCHANGED <<members, specs, rows, reported>>
    BY <1>2 DEF PostOther, Posted, registrarVars, enforcerVars, DeskInv, PostsOK
  <2>2. PostsOK' /\ RowsOK'
    BY <2>1 DEF DeskInv, PostsOK, RowsOK
  <2> QED
    BY <2>1, <2>2, OriginsKnown DEF Stays
<1>3. ASSUME posts' = Noted(members', specs'), UNCHANGED <<rows, reported>>,
             specs' \in [Roles -> RoleSpecs \union {None}]
      PROVE  Stays
  BY <1>3, NotedOK, OriginsKnown DEF Stays
<1>4. CASE \E p \in Origins : Serve(p)
  BY <1>4, ServeStays
<1>5. CASE \E kind \in {"member", "revoke"}, l \in Labels, w \in Wallets : PostOther(kind, l, w, None)
  BY <1>1, <1>2, <1>5
<1>6. CASE \E r \in Roles : PostOther("group", None, None, r)
  BY <1>1, <1>2, <1>6
<1>7. CASE \E l \in Labels, w \in Wallets, r \in Roles : OnboardElsewhere(l, w, r)
  BY <1>3, <1>7 DEF OnboardElsewhere, Minted, enforcerVars, DeskInv, RowsOK
<1>8. CASE \E w \in Wallets : Revoke(w)
  BY <1>3, <1>8 DEF Revoke, enforcerVars, DeskInv, RowsOK
<1>10. CASE \E r \in Roles, spec \in RoleSpecs : ChangeRole(r, spec)
  <2>1. PICK r \in Roles, spec \in RoleSpecs : specs' = [specs EXCEPT ![r] = spec]
    BY <1>10 DEF ChangeRole
  <2>2. specs' \in [Roles -> RoleSpecs \union {None}]
    BY <2>1 DEF DeskInv, RowsOK
  <2>3. posts' = Noted(members', specs') /\ UNCHANGED <<rows, reported>>
    BY <1>10 DEF ChangeRole, enforcerVars, Noted
  <2> QED
    BY <1>3, <2>2, <2>3
<1>9. CASE CacheExpires
  BY <1>9, NothingMoves DEF CacheExpires, registrarVars, enforcerVars
<1> QED
  BY <1>4, <1>5, <1>6, <1>7, <1>8, <1>9, <1>10 DEF MirrorNext

----------------------------------------------------------------------------
(* The steps of the form *)

\* The form goes on without a new job or a new answer.
LEMMA FormKept ==
  ASSUME DeskInv, Stays, DOMAIN form' = FormFields,
         form'.label \in Labels \union {None}, form'.wallet \in Wallets \union {None},
         form'.due => form'.label \in Labels,
         form'.at # "idle" => form.at # "idle" /\ form'.job = form.job,
         form'.at = "mirroring" => form.at = "mirroring",
         form'.said.kind = "live" => form'.said = form.said /\ form'.erased = form.erased,
         \A c \in checks' : c.label \in Labels
  PROVE  FormOK'
<1>1. form'.at # "idle" => form'.job.label \in Labels /\ form'.job.wallet \in Wallets
  BY DEF DeskInv, FormOK
<1>2. form'.at = "mirroring" => posts'["form"].kind = "member" /\ posts'["form"].label = form'.job.label
  BY DEF DeskInv, FormOK, Stays
<1>3. form'.said.kind = "live" =>
        form'.said.label \in Labels /\ (rows'[form'.said.label] # None \/ form'.erased)
  BY DEF DeskInv, FormOK, Stays
<1> QED
  BY <1>1, <1>2, <1>3 DEF FormOK

LEMMA FormSame ==
  ASSUME DeskInv, Stays, UNCHANGED <<form, checks>>
  PROVE  FormOK'
BY DEF DeskInv, FormOK, Stays

LEMMA PageSame ==
  ASSUME DeskInv, UNCHANGED page
  PROVE  PageOK'
BY DEF DeskInv, PageOK, Believed

\* The page's lists of users may be any; what it knows of members stays, or of fewer.
Recalls(pg) ==
  /\ DOMAIN pg = PageFields /\ pg.list = page.list /\ pg.source = page.source /\ pg.stale = page.stale
  /\ pg.sure \subseteq page.sure

LEMMA PageKept ==
  ASSUME DeskInv, Recalls(page')
  PROVE  PageOK'
BY DEF DeskInv, PageOK, Recalls, Believed

LEMMA PageRecalls ==
  ASSUME DeskInv, NEW sure, sure \subseteq page.sure
  PROVE  /\ Recalls(UsersRead(page)) /\ Recalls([page EXCEPT !.usersError = TRUE])
         /\ Recalls([page EXCEPT !.error = TRUE]) /\ Recalls([page EXCEPT !.sure = sure])
         /\ \A l, v : Recalls([page EXCEPT !.users[l] = v])
<1>1. DOMAIN page = PageFields
  BY DEF DeskInv, PageOK
<1> QED
  BY <1>1 DEF Recalls, UsersRead, PageFields

LEMMA StaticStays ==
  ASSUME DeskInv, UNCHANGED staticVars
  PROVE  Stays
BY NothingMoves DEF staticVars, registrarVars, enforcerVars

LEMMA FieldsStep ==
  ASSUME DeskInv,
         \/ \E l \in Labels : Scan(l)
         \/ \E w \in Wallets : TypeWallet(w)
         \/ StartCheck \/ RetrySync
         \/ \E c \in checks : LandFree(c) \/ LandName(c) \/ CheckFails(c)
  PROVE  DeskInv'
<1> USE DEF DeskInv
<1>a. /\ DOMAIN form = FormFields /\ form.label \in Labels \union {None}
      /\ form.wallet \in Wallets \union {None} /\ (form.due => form.label \in Labels)
      /\ \A c \in checks : c.label \in Labels
  BY DEF FormOK
<1>b. \A l, w, at : Ask(l, w, at).label = l
  BY DEF Ask
<1>c. None \notin Labels
  BY MirrorAssumption
<1>1. ASSUME NEW l \in Labels, Scan(l) PROVE Stays /\ FormOK' /\ page' = page
  <2>1. Stays
    BY <1>1, StaticStays DEF Scan
  <2>2. form' = [form EXCEPT !.label = l, !.free = "unknown", !.failed = FALSE, !.due = TRUE]
        /\ checks' = checks /\ page' = page
    BY <1>1 DEF Scan
  <2>3. /\ DOMAIN form' = FormFields /\ form'.label = l /\ form'.wallet = form.wallet
        /\ form'.at = form.at /\ form'.job = form.job /\ form'.said = form.said /\ form'.erased = form.erased
    BY <1>a, <2>2 DEF FormFields
  <2> QED
    BY <1>a, <2>1, <2>2, <2>3, FormKept
<1>2. ASSUME NEW w \in Wallets, TypeWallet(w) PROVE Stays /\ FormOK' /\ page' = page
  <2>1. Stays
    BY <1>2, StaticStays DEF TypeWallet
  <2>2. form' = [form EXCEPT !.wallet = w, !.due = form.label # None] /\ checks' = checks /\ page' = page
    BY <1>2 DEF TypeWallet
  <2>3. /\ DOMAIN form' = FormFields /\ form'.label = form.label /\ form'.wallet = w
        /\ form'.due = (form.label # None)
        /\ form'.at = form.at /\ form'.job = form.job /\ form'.said = form.said /\ form'.erased = form.erased
    BY <1>a, <2>2 DEF FormFields
  <2> QED
    BY <1>a, <2>1, <2>2, <2>3, FormKept
<1>3. CASE StartCheck
  <2>1. Stays
    BY <1>3, NothingMoves DEF StartCheck, mirrorVars, registrarVars, enforcerVars
  <2>2. /\ form.due /\ form' = [form EXCEPT !.due = FALSE, !.sync = "idle"] /\ page' = page
        /\ checks' = checks \union {Ask(form.label, form.wallet, "free")}
    BY <1>3 DEF StartCheck
  <2>3. /\ DOMAIN form' = FormFields /\ form'.label = form.label /\ form'.wallet = form.wallet
        /\ form'.due = FALSE
        /\ form'.at = form.at /\ form'.job = form.job /\ form'.said = form.said /\ form'.erased = form.erased
    BY <1>a, <2>2 DEF FormFields
  <2>4. \A c \in checks' : c.label \in Labels
    BY <1>a, <1>b, <2>2
  <2> QED
    BY <1>a, <2>1, <2>2, <2>3, <2>4, FormKept, PageSame DEF Stays
<1>4. CASE RetrySync
  <2>1. Stays
    BY <1>4, StaticStays DEF RetrySync
  <2>2. /\ form.label # None /\ form' = [form EXCEPT !.sync = "syncing"] /\ page' = page
        /\ checks' = checks \union {Ask(form.label, None, "resolve")}
    BY <1>4 DEF RetrySync, OffersRetrySync
  <2>3. /\ DOMAIN form' = FormFields /\ form'.label = form.label /\ form'.wallet = form.wallet
        /\ form'.due = form.due
        /\ form'.at = form.at /\ form'.job = form.job /\ form'.said = form.said /\ form'.erased = form.erased
    BY <1>a, <2>2 DEF FormFields
  <2>4. \A c \in checks' : c.label \in Labels
    BY <1>a, <1>b, <2>2
  <2> QED
    BY <1>a, <2>1, <2>2, <2>3, <2>4, FormKept, PageSame DEF Stays
<1>5. ASSUME NEW c \in checks, LandFree(c) \/ LandName(c) \/ CheckFails(c)
      PROVE  Stays /\ FormOK' /\ page' = page
  <2>1. Stays /\ page' = page
    BY <1>5, NothingMoves DEF LandFree, LandName, CheckFails, mirrorVars, registrarVars, enforcerVars
  <2>2. \/ form' = [form EXCEPT !.free = "no", !.failed = FALSE, !.sync = "syncing"]
        \/ form' = [form EXCEPT !.free = "yes", !.failed = FALSE]
        \/ form' = [form EXCEPT !.blocked = NameClash(c.label, c.wallet)]
        \/ form' = [form EXCEPT !.free = "unknown", !.failed = TRUE]
        \/ form' = [form EXCEPT !.blocked = FALSE]
    BY <1>5 DEF LandFree, LandName, CheckFails
  <2>3. /\ DOMAIN form' = FormFields /\ form'.label = form.label /\ form'.wallet = form.wallet
        /\ form'.due = form.due
        /\ form'.at = form.at /\ form'.job = form.job /\ form'.said = form.said /\ form'.erased = form.erased
    BY <1>a, <2>2 DEF FormFields
  <2>4. checks' \subseteq checks \union {Ask(c.label, None, "resolve"), Ask(c.label, c.wallet, "name")}
    BY <1>5 DEF LandFree, LandName, CheckFails
  <2>5. \A d \in checks' : d.label \in Labels
    BY <1>a, <1>b, <2>4
  <2> QED
    BY <1>a, <2>1, <2>3, <2>5, FormKept
<1> QED
  BY <1>1, <1>2, <1>3, <1>4, <1>5, PageSame DEF Stays

LEMMA SyncStep ==
  ASSUME DeskInv, SyncAnswered \/ \E c \in checks : Resolve(c)
  PROVE  DeskInv'
<1> USE DEF DeskInv
<1>a. /\ DOMAIN form = FormFields /\ form.label \in Labels \union {None}
      /\ form.wallet \in Wallets \union {None} /\ (form.due => form.label \in Labels)
      /\ \A c \in checks : c.label \in Labels
  BY DEF FormOK
<1>b. "sync" \in Origins \ {"form"} /\ "form" \in Origins \ {"sync"}
  BY OriginsKnown
<1>1. ASSUME NEW s, form' = [form EXCEPT !.sync = s], checks' \subseteq checks, Stays
      PROVE  FormOK'
  <2>1. /\ DOMAIN form' = FormFields /\ form'.label = form.label /\ form'.wallet = form.wallet
        /\ form'.due = form.due
        /\ form'.at = form.at /\ form'.job = form.job /\ form'.said = form.said /\ form'.erased = form.erased
    BY <1>a, <1>1 DEF FormFields
  <2> QED
    BY <1>a, <1>1, <2>1, FormKept
<1>2. CASE SyncAnswered
  <2>1. At("sync", Idle) /\ UNCHANGED <<members, specs, rows, reported, page, checks>>
    BY <1>2 DEF SyncAnswered, At, registrarVars, enforcerVars
  <2>2. Stays
    BY <1>b, <2>1, IdleOK DEF Stays
  <2>3. FormOK'
    BY <1>1, <1>2, <2>1, <2>2 DEF SyncAnswered
  <2> QED
    BY <2>1, <2>2, <2>3, PageSame DEF Stays
<1>3. ASSUME NEW c \in checks, Resolve(c) PROVE DeskInv'
  <2>1. UNCHANGED <<members, specs, rows, reported, page>> /\ checks' \subseteq checks
    BY <1>3 DEF Resolve, registrarVars, enforcerVars
  <2>2. CASE posts' = posts /\ form' = [form EXCEPT !.sync = "sync-failed"]
    <3>1. Stays
      BY <2>1, <2>2, NothingMoves
    <3> QED
      BY <1>1, <2>1, <2>2, <3>1, PageSame DEF Stays
  <2>3. ASSUME NEW w \in Wallets, Posted("sync", "member", c.label, w, None, TRUE), form' = form
        PROVE  DeskInv'
    <3>1. c.label \in Labels
      BY <1>a
    <3>2. PostsOK' /\ RowsOK' /\ \A q \in Origins \ {"sync"} : posts'[q] = posts[q]
      BY <1>b, <2>1, <2>3, <3>1, PostedOK
    <3>3. Stays
      BY <1>b, <2>1, <3>2 DEF Stays
    <3>4. FormOK'
      BY <1>a, <2>1, <2>3, <3>3 DEF FormOK, Stays
    <3> QED
      BY <2>1, <3>3, <3>4, PageSame DEF Stays
  <2> QED
    BY <1>3, <2>2, <2>3 DEF Resolve
<1> QED
  BY <1>2, <1>3

\* From the button to the mined transaction: the chain moves when it is mined.
LEMMA TxStep ==
  ASSUME DeskInv, (\E r \in Roles : Submit(r)) \/ SendTx \/ RefuseTx \/ Mine \/ GiveUp
  PROVE  DeskInv'
<1> USE DEF DeskInv
<1>a. /\ DOMAIN form = FormFields /\ form.label \in Labels \union {None}
      /\ form.wallet \in Wallets \union {None} /\ (form.due => form.label \in Labels)
      /\ \A c \in checks : c.label \in Labels
  BY DEF FormOK
<1>1. ASSUME Stays, UNCHANGED <<checks, page>>, DOMAIN form' = FormFields,
             form'.label = form.label, form'.wallet = form.wallet, form'.due = form.due,
             form'.at # "idle" => form.at # "idle" /\ form'.job = form.job,
             form'.at = "mirroring" => form.at = "mirroring",
             form'.said.kind = "live" => form'.said = form.said /\ form'.erased = form.erased
      PROVE  DeskInv'
  <2>1. FormOK'
    BY <1>a, <1>1, FormKept
  <2> QED
    BY <1>1, <2>1, PageSame DEF Stays
<1>2. ASSUME NEW r \in Roles, Submit(r) PROVE DeskInv'
  <2>1. Stays
    BY <1>2, StaticStays DEF Submit
  <2>2. /\ form.label \in Labels /\ form.wallet \in Wallets /\ UNCHANGED <<checks, page>>
        /\ form' = [form EXCEPT !.at = "signing",
                      !.job = [label |-> form.label, wallet |-> form.wallet, role |-> r],
                      !.said = Silent, !.erased = FALSE]
    BY <1>a, <1>2 DEF Submit, CanSubmit
  <2>3. /\ DOMAIN form' = FormFields /\ form'.label = form.label /\ form'.wallet = form.wallet
        /\ form'.due = form.due /\ form'.at = "signing"
        /\ form'.job = [label |-> form.label, wallet |-> form.wallet, role |-> r]
        /\ form'.said.kind = "none"
    BY <1>a, <2>2 DEF FormFields, Silent
  <2>4. FormOK'
    BY <1>a, <2>2, <2>3 DEF FormOK
  <2> QED
    BY <2>1, <2>2, <2>4, PageSame DEF Stays
<1>3. CASE SendTx
  <2>1. Stays
    BY <1>3, NothingMoves DEF SendTx, mirrorVars, registrarVars, enforcerVars
  <2>2. form.at = "signing" /\ form' = [form EXCEPT !.at = "mining"] /\ UNCHANGED <<checks, page>>
    BY <1>3 DEF SendTx
  <2>3. /\ DOMAIN form' = FormFields /\ form'.label = form.label /\ form'.wallet = form.wallet
        /\ form'.due = form.due /\ form'.at = "mining" /\ form'.job = form.job /\ form'.said = form.said /\ form'.erased = form.erased
    BY <1>a, <2>2 DEF FormFields
  <2> QED
    BY <1>1, <2>1, <2>2, <2>3
<1>4. CASE RefuseTx \/ GiveUp
  <2>1. Stays
    BY <1>4, NothingMoves DEF RefuseTx, GiveUp, registrarVars, enforcerVars
  <2>2. form' = Say(form, "failed") /\ UNCHANGED <<checks, page>>
    BY <1>4 DEF RefuseTx, GiveUp
  <2>3. /\ DOMAIN form' = FormFields /\ form'.label = form.label /\ form'.wallet = form.wallet
        /\ form'.due = form.due /\ form'.at = "idle" /\ form'.said.kind = "failed"
    BY <1>a, <2>2 DEF FormFields, Say
  <2> QED
    BY <1>1, <2>1, <2>2, <2>3
<1>5. CASE Mine
  <2>1. /\ UNCHANGED <<specs, rows, reported, checks, page>>
        /\ posts' = Noted(members', specs) \/ UNCHANGED <<members, posts>>
        /\ form' = [form EXCEPT !.at = IF @ = "mining" THEN "mined" ELSE @]
    BY <1>5 DEF Mine, Minted, enforcerVars
  <2>2. Stays
    BY <2>1, NotedOK, NothingMoves, OriginsKnown DEF Stays, RowsOK
  <2>3. /\ DOMAIN form' = FormFields /\ form'.label = form.label /\ form'.wallet = form.wallet
        /\ form'.due = form.due /\ form'.at = (IF form.at = "mining" THEN "mined" ELSE form.at)
        /\ form'.job = form.job /\ form'.said = form.said /\ form'.erased = form.erased
    BY <1>a, <2>1 DEF FormFields
  <2> QED
    BY <1>1, <2>1, <2>2, <2>3
<1> QED
  BY <1>2, <1>3, <1>4, <1>5

LEMMA AnswerStep ==
  ASSUME DeskInv, PostMember \/ FormAnswered
  PROVE  DeskInv'
<1> USE DEF DeskInv
<1>a. /\ DOMAIN form = FormFields /\ form.label \in Labels \union {None}
      /\ form.wallet \in Wallets \union {None} /\ (form.due => form.label \in Labels)
      /\ \A c \in checks : c.label \in Labels
      /\ form.at # "idle" => form.job.label \in Labels /\ form.job.wallet \in Wallets
      /\ form.said.kind = "live" =>
           form.said.label \in Labels /\ (rows[form.said.label] # None \/ form.erased)
  BY DEF FormOK
<1>b. "form" \in Origins
  BY OriginsKnown
<1>1. CASE PostMember
  <2>1. /\ form.at = "mined" /\ form' = [form EXCEPT !.at = "mirroring"]
        /\ Posted("form", "member", form.job.label, form.job.wallet, None, TRUE)
        /\ UNCHANGED <<members, specs, rows, reported, checks, page>>
    BY <1>1 DEF PostMember, registrarVars, enforcerVars
  <2>2. PostsOK' /\ RowsOK' /\ posts'["form"].kind = "member" /\ posts'["form"].label = form.job.label
    BY <1>a, <1>b, <2>1, PostedOK
  <2>3. /\ DOMAIN form' = FormFields /\ form'.label = form.label /\ form'.wallet = form.wallet
        /\ form'.due = form.due /\ form'.at = "mirroring" /\ form'.job = form.job /\ form'.said = form.said /\ form'.erased = form.erased
    BY <1>a, <2>1 DEF FormFields
  <2>4. FormOK'
    BY <1>a, <2>1, <2>2, <2>3 DEF FormOK
  <2> QED
    BY <2>1, <2>2, <2>4, PageSame
<1>2. CASE FormAnswered
  <2> DEFINE x == posts["form"]
  <2>1. /\ form.at = "mirroring" /\ x.at = "done" /\ At("form", Idle)
        /\ form' = [Say(form, Outcome(x.answer))
                EXCEPT !.label = None, !.wallet = None, !.due = FALSE, !.erased = x.gone]
        /\ page' = UsersRead(page)
        /\ UNCHANGED <<members, specs, rows, reported, checks>>
    BY <1>2 DEF FormAnswered, At, registrarVars, enforcerVars
  <2>2. x.kind = "member" /\ x.label = form.job.label /\ PostOK(x, members, specs, rows)
    BY <1>b, <2>1 DEF FormOK, PostsOK
  <2> HIDE DEF x
  <2>3. x.answer = "mirrored" => rows[form.job.label] # None \/ x.gone
    BY <2>1, <2>2 DEF PostOK, RowOK
  <2>4. PostsOK' /\ RowsOK'
    BY <1>b, <2>1, IdleOK
  <2>5. /\ DOMAIN form' = FormFields /\ form'.label = None /\ form'.wallet = None /\ form'.due = FALSE
        /\ form'.at = "idle" /\ form'.erased = x.gone
        /\ form'.said = [kind |-> Outcome(x.answer), label |-> form.job.label, wallet |-> form.job.wallet]
    BY <1>a, <2>1 DEF FormFields, Say
  <2>6. form'.said.kind = "live" => x.answer = "mirrored"
    BY <2>5 DEF Outcome
  <2>7. FormOK'
    BY <1>a, <2>1, <2>3, <2>5, <2>6 DEF FormOK
  <2>8. PageOK'
    BY <2>1, PageKept, PageRecalls
  <2> QED
    BY <2>4, <2>7, <2>8
<1> QED
  BY <1>1, <1>2

----------------------------------------------------------------------------
(* The steps of the page *)

LEMMA ReadStep ==
  ASSUME DeskInv, ReadUsers \/ ReadMemberships \/ RetryAnswered
  PROVE  DeskInv'
<1> USE DEF DeskInv
<1>a. DOMAIN page = PageFields /\ \A l \in Labels : page.list[l] \in Wallets \union {None}
  BY DEF PageOK
<1>1. CASE ReadUsers
  <2>1. Stays
    BY <1>1, NothingMoves DEF ReadUsers, registrarVars, enforcerVars
  <2>2. UNCHANGED <<form, checks>> /\ (page' = UsersRead(page) \/ page' = [page EXCEPT !.usersError = TRUE])
    BY <1>1 DEF ReadUsers
  <2>3. PageOK'
    BY <2>2, PageKept, PageRecalls, PageSame
  <2> QED
    BY <2>1, <2>2, <2>3, FormSame DEF Stays
<1>2. CASE RetryAnswered
  <2>1. /\ At("people", Idle) /\ UNCHANGED <<members, specs, rows, reported, form, checks>>
        /\ page' = UsersRead(page) \/ page' = page
    BY <1>2 DEF RetryAnswered, At, registrarVars, enforcerVars
  <2>2. Stays
    BY <2>1, IdleOK, OriginsKnown DEF Stays
  <2>3. PageOK'
    BY <2>1, PageKept, PageRecalls, PageSame
  <2> QED
    BY <2>1, <2>2, <2>3, FormSame DEF Stays
<1>3. CASE ReadMemberships
  <2> DEFINE candidates == recorded \intersect Members(members)
             verified == index.behind /\ candidates # {}
             indexed == Owners(index.of, Labels)
             direct == Owners(members, candidates)
             merged == [l \in Labels |-> IF direct[l] # None THEN direct[l] ELSE indexed[l]]
             list == IF verified THEN merged ELSE indexed
             source == IF verified THEN "chain" ELSE "indexer"
             sure == CASE verified -> candidates
                       [] index.behind /\ ~verified -> Members(members)
                       [] OTHER -> Settled(members)
  <2>1. Stays
    BY <1>3, NothingMoves DEF ReadMemberships, registrarVars, enforcerVars
  <2>2. ASSUME NEW ms, NEW of, NEW l \in Labels PROVE Owners(ms, of)[l] \in Wallets \union {None}
    BY DEF Owners
  <2>3. \A l \in Labels : indexed[l] \in Wallets \union {None} /\ direct[l] \in Wallets \union {None}
    BY <2>2
  <2>4. \A l \in Labels : list[l] \in Wallets \union {None}
    <3> HIDE DEF indexed, direct, verified
    <3> QED
      BY <2>3
  <2>5. None \notin Wallets
    BY MirrorAssumption
  <2>6. verified => \A l \in candidates : l \in Labels /\ list[l] # None
    <3>1. \A l \in candidates : l \in Labels /\ direct[l] # None
      BY <2>5 DEF Members, LabelTaken, Owners
    <3> HIDE DEF candidates, verified, direct, indexed
    <3> QED
      BY <3>1
  <2>7. ~verified => \A l \in Settled(members) : l \in Labels /\ list[l] # None
    <3>1. \A l \in Settled(members) : l \in Labels /\ \E w \in Wallets : Holds(index.of, w, l)
      BY DEF Settled, Holds
    <3>2. \A l \in Labels : (\E w \in Wallets : Holds(index.of, w, l)) => indexed[l] # None
      BY <2>5 DEF Owners
    <3> HIDE DEF verified, indexed, merged
    <3> QED
      BY <3>1, <3>2
  <2>8. sure \subseteq Labels /\ (verified \/ ~index.behind => \A l \in sure : list[l] # None)
    <3>1. candidates \subseteq Labels /\ Members(members) \subseteq Labels
      BY DEF Members
    <3>2. verified => index.behind
      OBVIOUS
    <3> HIDE DEF candidates, verified, list
    <3>3. CASE verified
      BY <2>6, <3>1, <3>3
    <3>4. CASE index.behind /\ ~verified
      BY <3>1, <3>4
    <3>5. CASE ~index.behind
      BY <2>7, <3>2, <3>5
    <3> QED
      BY <3>3, <3>4, <3>5
  <2>9. \/ page' = [page EXCEPT !.error = TRUE]
        \/ page' = [page EXCEPT !.list = list, !.source = source,
                     !.stale = index.behind, !.error = FALSE, !.sure = sure]
    BY <1>3 DEF ReadMemberships
  <2>10. PageOK'
    <3>1. CASE page' = [page EXCEPT !.error = TRUE]
      BY <3>1, PageKept, PageRecalls
    <3>2. CASE page' = [page EXCEPT !.list = list, !.source = source,
                          !.stale = index.behind, !.error = FALSE, !.sure = sure]
      <4>1. source = IF verified THEN "chain" ELSE "indexer"
        OBVIOUS
      <4> HIDE DEF list, source, sure, verified
      <4>2. /\ DOMAIN page' = PageFields /\ page'.list = list /\ page'.source = source
            /\ page'.stale = index.behind /\ page'.sure = sure
        BY <1>a, <3>2 DEF PageFields
      <4> QED
        BY <2>4, <2>8, <4>1, <4>2 DEF PageOK, Believed
    <3> QED
      BY <2>9, <3>1, <3>2
  <2>11. UNCHANGED <<form, checks>>
    BY <1>3 DEF ReadMemberships
  <2> QED
    BY <2>1, <2>10, <2>11, FormSame DEF Stays
<1> QED
  BY <1>1, <1>2, <1>3

LEMMA RowStep ==
  ASSUME DeskInv,
         \/ \E l \in Labels : RetryMirror(l) \/ Disable(l) \/ ToggleUser(l) \/ DeleteUser(l)
         \/ \E l \in Labels, g \in GroupNames : MoveUser(l, g) \/ AddUser(l, g)
  PROVE  DeskInv'
<1> USE DEF DeskInv
<1>a. DOMAIN page = PageFields /\ \A l \in Labels : page.list[l] \in Wallets \union {None}
  BY DEF PageOK
<1>b. rows \in [Labels -> Row \union {None}] /\ None \notin Row /\ "form" \in Origins
  BY DeskAssumption DEF RowsOK, Row
<1>1. ASSUME NEW l, NEW on \in {{}, {l}}, RowsMove(rows', on),
             posts' = IF on = {l} THEN Enabled(l, posts) ELSE posts,
             reported' = reported \ on,
             UNCHANGED <<members, specs, form, checks>>, PageOK'
      PROVE  DeskInv'
  <2>1. /\ PostsOK' /\ RowsOK'
        /\ \A q \in Origins : posts'[q].kind = posts[q].kind /\ posts'[q].label = posts[q].label
    BY <1>1, RowsMoved
  <2>2. Stays
    BY <1>1, <1>b, <2>1 DEF Stays, RowsMove
  <2> QED
    BY <1>1, <2>1, <2>2, FormSame
<1>2. ASSUME NEW l \in Labels, RetryMirror(l) PROVE DeskInv'
  <2>1. page.list[l] \in Wallets
    BY <1>a, <1>2 DEF RetryMirror, OffersRetry, Standing
  <2>2. /\ Posted("people", "member", l, page.list[l], None, TRUE)
        /\ UNCHANGED <<members, specs, rows, reported, form, checks, page>>
    BY <1>2 DEF RetryMirror, registrarVars, enforcerVars, deskVars
  <2>3. PostsOK' /\ RowsOK' /\ \A q \in Origins \ {"people"} : posts'[q] = posts[q]
    BY <2>1, <2>2, PostedOK, OriginsKnown
  <2>4. Stays
    BY <1>b, <2>2, <2>3 DEF Stays
  <2> QED
    BY <2>2, <2>4, FormSame, PageSame DEF Stays
<1>3. ASSUME NEW l \in Labels, Disable(l) PROVE DeskInv'
  <2>1. /\ rows' = TurnedOff(l) /\ page' = [page EXCEPT !.users[l] = "off"]
        /\ UNCHANGED <<members, specs, reported, posts, form, checks>>
    BY <1>3 DEF Disable, registrarVars
  <2>2. RowsMove(rows', {})
    BY <2>1, RowsWritten
  <2>3. PageOK'
    BY <2>1, PageKept, PageRecalls
  <2> QED
    BY <1>1, <2>1, <2>2, <2>3
<1>4. ASSUME NEW l \in Labels, ToggleUser(l) PROVE DeskInv'
  <2> DEFINE off == page.users[l] = "on"
             to == IF off THEN "off" ELSE "on"
  <2>1. /\ rows[l] # None /\ rows' = [rows EXCEPT ![l].off = off]
        /\ reported' = IF off THEN reported ELSE reported \ {l}
        /\ posts' = IF off THEN posts ELSE Enabled(l, posts)
        /\ page' = [page EXCEPT !.users[l] = to]
        /\ UNCHANGED <<members, specs, form, checks>>
    BY <1>4 DEF ToggleUser, Selectable, registrarVars
  <2>2. PageOK'
    <3> HIDE DEF to
    <3> QED
      BY <2>1, PageKept, PageRecalls
  <2> HIDE DEF to
  <2>3. CASE off
    <3>1. rows' = TurnedOff(l)
      BY <1>b, <2>1, <2>3 DEF TurnedOff
    <3>2. RowsMove(rows', {})
      BY <3>1, RowsWritten
    <3>3. posts' = posts /\ reported' = reported
      BY <2>1, <2>3
    <3> QED
      BY <1>1, <2>1, <2>2, <3>2, <3>3
  <2>4. CASE ~off
    <3>1. [rows[l] EXCEPT !.off = FALSE] \in Row
      BY <1>b, <2>1 DEF Row
    <3>2. rows' = [rows EXCEPT ![l] = [rows[l] EXCEPT !.off = FALSE]]
      BY <2>1, <2>4
    <3>3. RowsMove(rows', {l})
      BY <3>1, <3>2, RowsWritten
    <3>4. posts' = Enabled(l, posts) /\ reported' = reported \ {l}
      BY <2>1, <2>4
    <3> QED
      BY <1>1, <2>1, <2>2, <3>3, <3>4
  <2> QED
    BY <2>3, <2>4
<1>5. ASSUME NEW l \in Labels, NEW g \in GroupNames, MoveUser(l, g) PROVE DeskInv'
  <2>1. /\ rows[l] # None /\ rows' = [rows EXCEPT ![l].group = g]
        /\ UNCHANGED <<members, specs, reported, posts, form, checks, page>>
    BY <1>5 DEF MoveUser, Selectable, registrarVars, deskVars
  <2>2. [rows[l] EXCEPT !.group = g] \in Row /\ [rows[l] EXCEPT !.group = g].off = rows[l].off
    BY <1>b, <2>1 DEF Row
  <2>3. RowsMove(rows', {})
    BY <1>b, <2>1, <2>2 DEF RowsMove, Off
  <2> QED
    BY <1>1, <2>1, <2>3, PageSame
<1>6. ASSUME NEW l \in Labels, NEW g \in GroupNames, AddUser(l, g) PROVE DeskInv'
  <2>1. /\ rows' = [rows EXCEPT ![l] = [group |-> g, off |-> FALSE]]
        /\ posts' = Enabled(l, posts) /\ reported' = reported \ {l}
        /\ UNCHANGED <<members, specs, form, checks, page>>
    BY <1>6 DEF AddUser, registrarVars, deskVars
  <2>2. [group |-> g, off |-> FALSE] \in Row
    BY DEF Row
  <2>3. RowsMove(rows', {l})
    BY <2>1, <2>2, RowsWritten
  <2> QED
    BY <1>1, <2>1, <2>3, PageSame
<1>7. ASSUME NEW l \in Labels, DeleteUser(l) PROVE DeskInv'
  <2>1. /\ rows' = [rows EXCEPT ![l] = None] /\ posts' = Lost(l, posts)
        /\ page' = [page EXCEPT !.users[l] = None]
        /\ form' = [form EXCEPT !.erased = @ \/ form.said.label = l]
        /\ UNCHANGED <<members, specs, reported, checks>>
    BY <1>7 DEF DeleteUser, registrarVars
  <2>2. /\ PostsOK' /\ RowsOK'
        /\ posts'["form"].kind = posts["form"].kind /\ posts'["form"].label = posts["form"].label
    BY <1>b, <2>1, RowsLost
  <2>3. PageOK'
    BY <2>1, PageKept, PageRecalls
  <2>4. /\ DOMAIN form' = FormFields /\ form'.label = form.label /\ form'.wallet = form.wallet
        /\ form'.due = form.due /\ form'.at = form.at /\ form'.job = form.job
        /\ form'.said = form.said /\ form'.erased = (form.erased \/ form.said.label = l)
    BY <2>1 DEF FormOK, FormFields
  <2>5. \A k \in Labels \ {l} : rows'[k] = rows[k]
    BY <1>b, <2>1
  <2>6. FormOK'
    BY <2>1, <2>2, <2>4, <2>5 DEF FormOK
  <2> QED
    BY <2>2, <2>3, <2>6
<1> QED
  BY <1>2, <1>3, <1>4, <1>5, <1>6, <1>7

----------------------------------------------------------------------------
(* The theorems *)

LEMMA NextInv == DeskInv /\ [Next]_vars => DeskInv'
<1> SUFFICES ASSUME DeskInv, [Next]_vars PROVE DeskInv'
  OBVIOUS
<1>1. CASE Outside
  <2>1. Stays
    BY <1>1, MirrorStays DEF Outside
  <2>2. UNCHANGED <<form, checks>> /\ page' = [page EXCEPT !.sure = @ \intersect Members(members')]
    BY <1>1 DEF Outside
  <2>3. PageOK'
    BY <2>2, PageKept, PageRecalls
  <2> QED
    BY <2>1, <2>2, <2>3, FormSame DEF DeskInv, Stays
<1>2. CASE FormStep
  BY <1>2, FieldsStep, SyncStep, TxStep, AnswerStep DEF FormStep
<1>3. CASE PageStep
  BY <1>3, ReadStep, RowStep DEF PageStep
<1>4. CASE IndexBlock \/ IndexStalls
  <2>1. UNCHANGED <<staticVars, form, checks, page>>
    BY <1>4 DEF IndexBlock, IndexStalls
  <2> QED
    BY <2>1, StaticStays, FormSame, PageSame DEF DeskInv, Stays
<1>5. CASE UNCHANGED vars
  <2>1. UNCHANGED <<members, specs, rows, reported, posts, form, checks, page>>
    BY <1>5 DEF vars, mirrorVars, registrarVars, enforcerVars, deskVars
  <2> QED
    BY <2>1, NothingMoves, FormSame, PageSame DEF DeskInv, Stays
<1> QED
  BY <1>1, <1>2, <1>3, <1>4, <1>5 DEF Next

LEMMA DeskInvariant == Spec => []DeskInv
<1>1. Init => DeskInv
  BY InitInv
<1>2. DeskInv /\ [Next]_vars => DeskInv'
  BY NextInv
<1> QED
  BY <1>1, <1>2, PTL DEF Spec

\* No member and no group is taken on trust: a request that is about to write a
\* member's row or a group names what has been so on the chain at some moment since it
\* was sent, whatever was revoked, retired or redefined (mirror/route.ts).  It says
\* nothing of revocations, of which the like is false.
THEOREM OnlyFacts == Spec => []NothingOnTrust
<1>1. DeskInv => NothingOnTrust
  <2> SUFFICES ASSUME DeskInv, NEW p \in Origins, posts[p].at \in {"write", "create"}
               PROVE  posts[p].fact
    BY DEF NothingOnTrust
  <2>1. StageOK(posts[p]) /\ FactOK(posts[p], members, specs)
    BY DEF DeskInv, PostsOK, PostOK
  <2> QED
    BY <2>1 DEF StageOK, FactOK
<1> QED
  BY <1>1, DeskInvariant, PTL

\* A revocation that was reported mirrored stays mirrored until somebody enables the
\* row, whichever other requests were under way (mirrorRevoke in enforcer/mirror.ts).
THEOREM RevokedIsOff == Spec => []ReportedIsOff
<1>1. DeskInv => ReportedIsOff
  BY DEF DeskInv, RowsOK, Off, ReportedIsOff
<1> QED
  BY <1>1, DeskInvariant, PTL

\* A name the form calls live has a row at the enforcer, until somebody deletes it by
\* hand, be it before the form has its answer (OnboardForm.tsx, UserDetailPanel.tsx).
THEOREM LiveHasRow == Spec => []LiveIsMirrored
<1>1. DeskInv => LiveIsMirrored
  BY DEF DeskInv, FormOK, LiveIsMirrored
<1> QED
  BY <1>1, DeskInvariant, PTL

\* A member the list in hand cannot have missed is not offered for disabling, whichever
\* reads failed and however far behind the index is (reconcile of people/page.tsx).
THEOREM SureMembersSpared == Spec => []SureMemberSpared
<1>1. DeskInv => SureMemberSpared
  <2> SUFFICES ASSUME DeskInv, NEW l \in page.sure PROVE ~OffersDisable(l)
    BY DEF SureMemberSpared
  <2>1. CASE Believed(page)
    <3>1. page.list[l] # None
      BY <2>1 DEF DeskInv, PageOK
    <3> QED
      BY <3>1 DEF OffersDisable, Standing
  <2>2. CASE ~Believed(page)
    <3>1. ~ChainAnswered
      BY <2>2 DEF DeskInv, PageOK, Believed, ChainAnswered
    <3> QED
      BY <3>1 DEF OffersDisable, Standing
  <2> QED
    BY <2>1, <2>2
<1> QED
  BY <1>1, DeskInvariant, PTL
=============================================================================
