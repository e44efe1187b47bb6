------------------------------- MODULE Reader -------------------------------
(***************************************************************************)
(* What the console and the portal learn from the chain: the reads of      *)
(* web/lib/ens/read.ts, org.ts and indexer.ts behind the routes            *)
(* api/ens/resolve, memberships, branches, and api/portal/badge and        *)
(* verify.  A request is a sequence of awaited reads; transactions, the    *)
(* indexer and the expiry of caches come between any two of them, and each *)
(* may fail.  One organization; one request at a time, since requests      *)
(* share only the caches.                                                  *)
(***************************************************************************)
EXTENDS Naturals, FiniteSets, Sequences, Functions, SequencesExt

CONSTANTS
  Order,         \* the labels of perimeters, sorted
  Superseded,    \* perimeters of a registry the organization no longer points at
  Labels,        \* badge ids
  Wallets,
  None,
  MaxMoves,      \* bound: transactions, blocks indexed, caches expired
  MaxMishaps     \* bound: reads that fail

Branches == ToSet(Order)
Names == Branches \X Labels

ASSUME ReaderAssumption ==
  /\ IsInjective(Order)
  /\ Branches \intersect Superseded = {}
  /\ None \notin Branches \union Superseded \union Labels \union Wallets \union Names
  /\ None \notin {"none", "chain"}
  /\ MaxMoves \in Nat /\ MaxMishaps \in Nat

VARIABLES
  setUp,         \* the organization exists: organizationFor answers with its contracts
  open,          \* perimeters: allBranchLabels, with registry and registrar published
  held,          \* name -> its owner in the perimeter's registry, None: not REGISTERED
  pointer,       \* membershipOf and labelOf: perimeter, wallet -> badge id
  index,         \* the indexer: what it has seen, and whether it is far behind
  recorded,      \* enforcer: the names worth asking about
  orgCache,      \* resolveOrg: "empty", "absent" or "present"
  branchCache,   \* chainBranches, None: empty
  req,           \* the request
  moves, mishaps

chain == <<setUp, open, held, pointer>>
caches == <<orgCache, branchCache>>
bounds == <<moves, mishaps>>
vars == <<chain, index, recorded, caches, req, bounds>>

Move == moves < MaxMoves /\ moves' = moves + 1
Mishap == mishaps < MaxMishaps /\ mishaps' = mishaps + 1

\* The membership of a wallet, by the book p and the registries h.
Live(p, h, w, b) == p[<<b, w>>] # None /\ h[<<b, p[<<b, w>>]>>] = w

\* A lookup of one name: found with its owner, denied, or on the way there.
NoTask == [at |-> "off", owner |-> None]
Task(at) == [at |-> at, owner |-> None]

\* seen: <<name, owner>> pairs there were at some moment of the request; lacked:
\* perimeters where the wallet was no member at some moment of it; since:
\* perimeters open when the list in hand was read.
Blank == [kind |-> "idle", name |-> None, wallet |-> None, scope |-> None, at |-> "idle",
          list |-> {}, indexed |-> {}, asked |-> None,
          tasks |-> [n \in Names |-> NoTask], rows |-> {}, source |-> None, stale |-> FALSE,
          answer |-> None, seen |-> {}, lacked |-> {}, since |-> {}]

Noted(x, p, h) == [x EXCEPT
  !.seen = @ \union {<<n, h[n]>> : n \in Names},
  !.lacked = @ \union {b \in Branches : x.wallet = None \/ ~Live(p, h, x.wallet, b)}]

\* Any organization whose memberships came from its registrars, and an indexer
\* that has either caught up or never started.
Init ==
  /\ setUp \in BOOLEAN /\ open \in SUBSET (IF setUp THEN Branches ELSE {})
  /\ held \in [Names -> Wallets \union {None}]
  /\ \A n \in Names : held[n] # None => n[1] \in open
  /\ pointer \in [Branches \X Wallets -> Labels \union {None}]
  /\ \A b \in Branches, w \in Wallets, l \in Labels : held[<<b, l>>] = w <=> pointer[<<b, w>>] = l
  /\ index \in {[held |-> [n \in Names |-> None], open |-> Superseded, behind |-> TRUE],
               [held |-> held, open |-> open, behind |-> FALSE]}
  /\ recorded \in SUBSET Names
  /\ orgCache = "empty" /\ branchCache = None
  /\ req = Blank
  /\ moves = 0 /\ mishaps = 0

----------------------------------------------------------------------------
(* The chain, the indexer and the clock *)

Transaction == /\ Move
               /\ req' = IF req.at \in {"idle", "done"} THEN req ELSE Noted(req, pointer', held')
               /\ UNCHANGED <<index, recorded, caches, mishaps>>

SetUp == ~setUp /\ setUp' = TRUE /\ UNCHANGED <<open, held, pointer>> /\ Transaction

OpenBranch(b) == /\ setUp /\ b \notin open /\ open' = open \union {b}
                 /\ UNCHANGED <<setUp, held, pointer>> /\ Transaction

Onboard(n, w) ==
  /\ n[1] \in open /\ held[n] = None /\ ~Live(pointer, held, w, n[1])
  /\ held' = [held EXCEPT ![n] = w]
  /\ pointer' = [pointer EXCEPT ![<<n[1], w>>] = n[2]]
  /\ UNCHANGED <<setUp, open>> /\ Transaction

Revoke(n) ==
  /\ held[n] # None
  /\ held' = [held EXCEPT ![n] = None]
  /\ pointer' = [pointer EXCEPT ![<<n[1], held[n]>>] = None]
  /\ UNCHANGED <<setUp, open>> /\ Transaction

\* A root holder of the registry, without the registrar: its book keeps the member.
Unregister(n) == /\ held[n] # None /\ held' = [held EXCEPT ![n] = None]
                 /\ UNCHANGED <<setUp, open, pointer>> /\ Transaction

IndexAdvances == /\ index' = [held |-> held, open |-> open, behind |-> FALSE]
                 /\ index' # index /\ Move
                 /\ UNCHANGED <<chain, recorded, caches, req, mishaps>>

IndexStops == /\ ~index.behind /\ index' = [index EXCEPT !.behind = TRUE] /\ Move
              /\ UNCHANGED <<chain, recorded, caches, req, mishaps>>

\* Each entry expires on its own: the list after thirty seconds, the other after sixty.
CachesExpire == /\ \/ orgCache # "empty" /\ orgCache' = "empty" /\ UNCHANGED branchCache
                   \/ branchCache # None /\ branchCache' = None /\ UNCHANGED orgCache
                /\ Move
                /\ UNCHANGED <<chain, index, recorded, req, mishaps>>

----------------------------------------------------------------------------
(* Asking *)

Ready == req.at \in {"idle", "done"}

Asked(x) == req' = [Noted(x, pointer, held) EXCEPT !.at = "org"]
Same == UNCHANGED <<chain, index, recorded, caches, bounds>>

\* api/ens/resolve, and api/portal/verify of a name that was typed.
AskName(n) == Ready /\ Asked([Blank EXCEPT !.kind = "name", !.name = n]) /\ Same
\* api/portal/verify of a wallet.
AskWallet(w) == Ready /\ Asked([Blank EXCEPT !.kind = "wallet", !.wallet = w]) /\ Same
\* api/portal/badge: the name's perimeter is what is looked for.
AskBadge(l) == Ready /\ Asked([Blank EXCEPT !.kind = "badge", !.asked = l]) /\ Same
\* api/ens/memberships, of one perimeter or of all.
AskList(b) == Ready /\ Asked([Blank EXCEPT !.kind = "list", !.scope = b]) /\ Same
\* api/ens/branches.
AskBranches == Ready /\ Asked([Blank EXCEPT !.kind = "branches"]) /\ Same

Answer(x, answer) == [x EXCEPT !.at = "done", !.answer = answer]

\* 502: the chain did not answer, which is no denial.
Unanswered == Mishap /\ req' = Answer(req, "failed")

----------------------------------------------------------------------------
(* resolveOrg *)

ResolveOrg(found) ==
  \/ orgCache # "empty" /\ found = (orgCache = "present") /\ UNCHANGED orgCache
  \/ orgCache = "empty" /\ found = setUp /\ orgCache' = IF setUp THEN "present" ELSE "absent"

AfterOrg(x) == CASE x.kind = "name" -> [x EXCEPT !.at = "tasks", !.tasks[x.name] = Task("registry")]
                 [] x.kind \in {"wallet", "badge"} -> [x EXCEPT !.at = "branches"]
                 [] x.kind = "list" -> [x EXCEPT !.at = "index"]
                 [] x.kind = "branches" -> [x EXCEPT !.at = "branches"]

\* Without an organization a name is no membership; the other routes refuse to answer.
ReadOrg ==
  /\ req.at = "org"
  /\ \/ \E found \in BOOLEAN :
          /\ ResolveOrg(found)
          /\ req' = IF found THEN AfterOrg(req)
                    ELSE Answer(req, IF req.kind = "name" THEN "none" ELSE "refused")
          /\ UNCHANGED mishaps
     \/ orgCache = "empty" /\ Unanswered /\ UNCHANGED orgCache
  /\ UNCHANGED <<chain, index, recorded, branchCache, moves>>

----------------------------------------------------------------------------
(* chainBranches *)

\* A mistake: perimeters whose registrar could not be read are left out.
ReadableBranches(list) ==
  /\ branchCache = None /\ list \in SUBSET open /\ branchCache' = list
  /\ IF list = open THEN UNCHANGED mishaps ELSE Mishap
\* allBranchLabels, then registry and registrar of each; kept for thirty seconds.
BranchesFromChain(list) == /\ branchCache = None /\ list = open /\ branchCache' = list
                           /\ UNCHANGED mishaps

ChainBranches(list, since) ==
  \/ branchCache # None /\ list = branchCache /\ since = list /\ UNCHANGED <<branchCache, mishaps>>
  \/ BranchesFromChain(list) /\ since = open

Started(x, names, at) == [x EXCEPT !.at = "tasks",
  !.tasks = [n \in Names |-> IF n \in names THEN Task(at) ELSE NoTask]]

\* The perimeter asked about, or all of them.
InScope(x, ns) == {n \in ns : x.scope \in {None, n[1]}}

Candidates(x) == InScope(x, recorded)

AfterBranches(x) ==
  CASE x.kind = "wallet" -> IF x.list = {} THEN Answer(x, "failed") ELSE [x EXCEPT !.at = "pointer"]
    [] x.kind = "badge" -> IF x.list = {} THEN Answer(x, "failed")
                           ELSE Started(x, x.list \X {x.asked}, "registry")
    [] x.kind = "list" -> Started(x, {n \in Candidates(x) : n[1] \in x.list}, "status")
    [] x.kind = "branches" -> [x EXCEPT !.at = "enrich", !.source = "chain"]

ReadBranches ==
  /\ req.at = "branches"
  /\ \/ \E list \in SUBSET Branches, since \in SUBSET Branches :
          /\ ChainBranches(list, since)
          /\ req' = AfterBranches([req EXCEPT !.list = list, !.since = since])
     \/ /\ branchCache = None /\ Mishap /\ UNCHANGED branchCache
        /\ req' = IF req.kind = "branches" THEN [req EXCEPT !.at = "enrich"]
                  ELSE Answer(req, "failed")
  /\ UNCHANGED <<chain, index, recorded, orgCache, moves>>

----------------------------------------------------------------------------
(* resolveByWallet: the first perimeter whose registrar has the wallet decides *)

\* Of the perimeters in hand, the one to be read next.
First(list) == {b \in list : \A i, j \in DOMAIN Order : Order[i] = b /\ Order[j] \in list => i <= j}

ReadPointer ==
  /\ req.at = "pointer"
  /\ \/ req.list = {} /\ req' = Answer(req, "none") /\ UNCHANGED mishaps
     \/ \E b \in First(req.list) :
          LET l == pointer[<<b, req.wallet>>]
          IN  /\ req' = IF l = None THEN [req EXCEPT !.list = @ \ {b}]
                        ELSE [req EXCEPT !.at = "label", !.asked = l, !.scope = b]
              /\ UNCHANGED mishaps
     \/ req.list # {} /\ Unanswered
  /\ UNCHANGED <<chain, index, recorded, caches, moves>>

\* labelOf forgets a membership that was revoked.  One that was revoked and minted
\* again under the same label between the two reads counts as the same.
ReadLabel ==
  /\ req.at = "label"
  /\ \/ /\ req' = IF pointer[<<req.scope, req.wallet>>] = req.asked
                  THEN Started(req, {<<req.scope, req.asked>>}, "registry")
                  ELSE [req EXCEPT !.at = "pointer", !.list = @ \ {req.scope}]
        /\ UNCHANGED mishaps
     \/ Unanswered
  /\ UNCHANGED <<chain, index, recorded, caches, moves>>

----------------------------------------------------------------------------
(* One name: resolveIdentity, and a candidate in fromCandidates *)

Denied(t) == [t EXCEPT !.at = "denied"]

\* A candidate that lost its owner meanwhile is dropped; resolveIdentity does not look.
AfterOwner(x, n) == LET t == [x.tasks[n] EXCEPT !.owner = held[n]]
                    IN  IF x.kind = "list" /\ t.owner = None THEN Denied(t)
                        ELSE [t EXCEPT !.at = "rest"]

\* The registrar's record and the name's records, its resource and its role.
Read(x, n) == LET t == x.tasks[n] IN
  CASE t.at = "registry" -> IF n[1] \in open THEN Task("status") ELSE Denied(t)
    [] t.at = "status" -> IF held[n] = None THEN Denied(t) ELSE Task("owner")
    [] t.at = "owner" -> AfterOwner(x, n)
    [] t.at = "rest" -> [t EXCEPT !.at = "found"]

Busy(x) == {n \in Names : x.tasks[n].at \in {"registry", "status", "owner", "rest"}}
Found(x) == {n \in Names : x.tasks[n].at = "found"}

\* A mistake: a name that could not be read is no member.
FailedReadDenies(n) == Mishap /\ req' = [req EXCEPT !.tasks[n] = Denied(@)]
\* One read that fails fails the whole request.
ReadFails(n) == n \in Busy(req) /\ Unanswered

ReadName(n) ==
  /\ req.at = "tasks" /\ n \in Busy(req)
  /\ \/ req' = [req EXCEPT !.tasks[n] = Read(req, n)] /\ UNCHANGED mishaps
     \/ ReadFails(n)
  /\ UNCHANGED <<chain, index, recorded, caches, moves>>

----------------------------------------------------------------------------
(* getMemberships *)

\* Names with an owner, two levels below the organization, under an indexed perimeter.
IndexedRows(x) ==
  LET owned == {n \in Names : n[1] \in index.open /\ index.held[n] # None}
  IN  {<<n, index.held[n]>> : n \in InScope(x, owned)}

\* A failure here fails the request.
ReadIndex ==
  /\ req.at = "index"
  /\ \/ /\ req' = [req EXCEPT !.at = "lag", !.indexed = IndexedRows(req)]
        /\ UNCHANGED mishaps
     \/ Unanswered
  /\ UNCHANGED <<chain, index, recorded, caches, moves>>

\* The block of the index and the head of the chain: unknown counts as behind.
Behind(stale) == \/ stale = index.behind /\ UNCHANGED mishaps
                 \/ stale = TRUE /\ Mishap

ReadLag ==
  /\ req.at = "lag"
  /\ \E stale \in BOOLEAN :
       /\ Behind(stale)
       /\ req' = IF req.indexed # {} /\ ~stale
                 THEN [req EXCEPT !.at = "again", !.rows = req.indexed, !.source = "indexer"]
                 ELSE [req EXCEPT !.at = "candidates"]
  /\ UNCHANGED <<chain, index, recorded, caches, moves>>

\* Without the organization or without candidates nothing is verified.
IndexAlone(x) == [x EXCEPT !.at = "again", !.rows = x.indexed, !.source = "indexer"]

ListCandidates ==
  /\ req.at = "candidates"
  /\ \/ \E found \in BOOLEAN :
          /\ ResolveOrg(found)
          /\ req' = IF found /\ Candidates(req) # {} THEN [req EXCEPT !.at = "branches"]
                    ELSE IndexAlone(req)
          /\ UNCHANGED mishaps
     \/ Mishap /\ req' = IndexAlone(req) /\ UNCHANGED orgCache
  /\ UNCHANGED <<chain, index, recorded, branchCache, moves>>

Verified(x) == {<<n, x.tasks[n].owner>> : n \in Found(x)}

\* A mistake: what the index has of a name is kept, and the chain adds the names it lacks.
IndexFirst(x) == x.indexed \union {r \in Verified(x) : \A s \in x.indexed : s[1] # r[1]}
\* Indexed rows of other names are kept.
Merged(x) == Verified(x) \union {r \in x.indexed : r[1] \notin Found(x)}

\* The route dates the index for itself once the rows are there.
DateList ==
  /\ req.at = "again"
  /\ \E stale \in BOOLEAN :
       Behind(stale) /\ req' = [Answer(req, "listed") EXCEPT !.stale = stale]
  /\ UNCHANGED <<chain, index, recorded, caches, moves>>

\* Every lookup has ended.
Conclude ==
  /\ req.at = "tasks" /\ Busy(req) = {}
  /\ req' = CASE req.kind # "list" -> Answer(req, IF Found(req) = {} THEN "none" ELSE "identity")
              [] req.kind = "list" /\ Found(req) = {} -> IndexAlone(req)
              [] OTHER -> [req EXCEPT !.at = "again", !.rows = Merged(req), !.source = "chain"]
  /\ Same

----------------------------------------------------------------------------
(* api/ens/branches: the chain decides, the index stands in for it *)

IndexedBranches == index.open

Listing(x) == IF x.source = "chain" THEN x.list ELSE IndexedBranches

EnrichBranches ==
  /\ req.at = "enrich"
  /\ \/ /\ req' = [Answer(req, "listed") EXCEPT !.rows = Listing(req)]
        /\ UNCHANGED mishaps
     \/ /\ Mishap
        /\ req' = IF req.source = "chain" THEN [Answer(req, "listed") EXCEPT !.rows = Listing(req)]
                  ELSE Answer(req, "failed")
  /\ UNCHANGED <<chain, index, recorded, caches, moves>>

----------------------------------------------------------------------------

Ask ==
  \/ \E n \in Names : AskName(n)
  \/ \E w \in Wallets : AskWallet(w)
  \/ \E l \in Labels : AskBadge(l)
  \/ \E b \in Branches \union {None} : AskList(b)
  \/ AskBranches

Serve ==
  \/ ReadOrg \/ ReadBranches \/ ReadPointer \/ ReadLabel
  \/ \E n \in Names : ReadName(n)
  \/ ReadIndex \/ ReadLag \/ ListCandidates \/ DateList \/ Conclude \/ EnrichBranches

World ==
  \/ SetUp \/ \E b \in Branches : OpenBranch(b)
  \/ \E n \in Names, w \in Wallets : Onboard(n, w)
  \/ \E n \in Names : Revoke(n) \/ Unregister(n)
  \/ IndexAdvances \/ IndexStops \/ CachesExpire

Next == Ask \/ Serve \/ World

Spec == Init /\ [][Next]_vars

----------------------------------------------------------------------------
(* Properties *)

\* A denial rests on the chain and never on a read that failed.  A name that is
\* denied was unregistered at some moment of the request, unless a minute ago
\* there was no organization; so was the badge's name in every perimeter that
\* was open when the list in hand was read.  A wallet that is denied was, at
\* some moment of the request, no member of each of those perimeters, or no
\* longer of the first one whose registrar has it in its book (resolveIdentity,
\* resolveByWallet, resolveByLabel of read.ts).
DenialIsDefinite ==
  req.answer = "none" =>
    CASE req.kind = "name" -> \/ <<req.name, None>> \in req.seen
                           \/ req.tasks[req.name].at = "off"
      [] req.kind = "badge" -> \A b \in req.since : <<<<b, req.asked>>, None>> \in req.seen
      [] req.kind = "wallet" -> \/ req.since \subseteq req.lacked
                                \/ <<<<req.scope, req.asked>>, None>> \in req.seen

FromChain == req.answer = "listed" /\ req.source = "chain" /\ req.kind = "list"

\* A list that says it was read from the chain shows each member with an owner the name
\* had at some moment of the request, or keeps the row from the index; and it keeps the
\* row of a recorded name, of a perimeter that was open when the list of perimeters in
\* hand was read, only when that name had no owner at some moment of the request.  So
\* an index that missed a change of hands does not prevail over the chain (read.ts:201).
ListedOwnersHeld ==
  FromChain =>
    \A r \in req.rows :
      \/ r \in req.seen
      \/ /\ r \in req.indexed
         /\ r[1] \in Candidates(req) /\ r[1][1] \in req.since => <<r[1], None>> \in req.seen

\* Not so: "each was read back off the registry in this request"
\* (memberships/route.ts:23).  A row kept from the index was not.
EveryRowIsRead == FromChain => \A r \in req.rows : r \in req.seen

\* A list that says it was read from the chain leaves out no recorded name that had an
\* owner throughout the request, of the perimeters that were open when the list of
\* perimeters in hand was read, up to thirty seconds ago (read.ts:620).
RecordedIsListed ==
  FromChain =>
    \A n \in Candidates(req) :
      n[1] \in req.since /\ <<n, None>> \notin req.seen => \E r \in req.rows : r[1] = n

\* What read.ts says of its merge: a name the chain has just answered for wins
\* over the index, so a name it denied is not in the list.
AnsweredNameWins ==
  FromChain =>
    \A r \in req.rows : req.tasks[r[1]].at # "denied"
=============================================================================
