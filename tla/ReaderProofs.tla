---------------------------- MODULE ReaderProofs ----------------------------
(***************************************************************************)
(* Theorems about Reader, for any perimeters, badge ids, wallets and       *)
(* bounds.                                                                 *)
(***************************************************************************)
EXTENDS Reader, TLAPS

----------------------------------------------------------------------------
(* The invariant *)

ReqFields == {"kind", "name", "wallet", "scope", "at", "list", "indexed", "asked", "tasks", "rows",
              "source", "stale", "answer", "seen", "lacked", "since"}
Stages == {"off", "registry", "status", "owner", "rest", "found", "denied"}

ChainOK ==
  /\ open \subseteq Branches /\ DOMAIN held = Names /\ recorded \subseteq Names
  /\ \A n \in Names : held[n] # None => n[1] \in open
  /\ pointer \in [Branches \X Wallets -> Labels \union {None}]
  /\ branchCache # None => branchCache \subseteq Branches

Shape(x) ==
  /\ DOMAIN x = ReqFields /\ DOMAIN x.tasks = Names
  /\ \A n \in Names : DOMAIN x.tasks[n] = {"at", "owner"} /\ x.tasks[n].at \in Stages

Asks(x) ==
  /\ x.kind \in {"idle", "name", "wallet", "badge", "list", "branches"}
  /\ x.kind = "idle" => x.at = "idle"
  /\ x.kind = "name" => x.name \in Names
  /\ x.kind = "badge" => x.asked \in Labels
  /\ x.kind = "wallet" => x.wallet \in Wallets
  /\ x.list \subseteq Branches /\ x.since \subseteq Branches

Active(x) == x.at \notin {"idle", "done"}

\* What is so while the request is served has been noted.
Current(x, p, h) ==
  Active(x) => /\ \A n \in Names : <<n, h[n]>> \in x.seen
               /\ \A b \in Branches : ~Live(p, h, x.wallet, b) => b \in x.lacked

\* What a lookup says of its name was so.
TasksOK(x) ==
  \A n \in Names : /\ x.tasks[n].at \in {"rest", "found"} => <<n, x.tasks[n].owner>> \in x.seen
                   /\ x.tasks[n].at = "denied" => <<n, None>> \in x.seen

\* What is looked up; which perimeters are behind the wallet.
Begun(x, p, rs) ==
  /\ x.at = "org" => \A n \in Names : x.tasks[n].at = "off"
  /\ x.kind = "badge" /\ x.at = "tasks" => \A b \in x.since : x.tasks[<<b, x.asked>>].at # "off"
  /\ x.kind = "wallet" /\ x.at \in {"pointer", "label"} => x.since \subseteq x.lacked \union x.list
  /\ x.kind = "wallet" /\ x.at \in {"label", "tasks"} => x.scope \in Branches /\ x.asked \in Labels
  /\ x.kind = "wallet" /\ x.at = "label" => x.scope \in x.lacked \/ p[<<x.scope, x.wallet>>] = x.asked
  /\ x.kind = "wallet" /\ x.at = "tasks" => x.tasks[<<x.scope, x.asked>>].at # "off"
  /\ x.kind = "list" /\ x.at = "tasks" => \A n \in InScope(x, rs) : n[1] \in x.since => x.tasks[n].at # "off"
  /\ x.at \in {"pointer", "label"} => x.kind = "wallet"
  /\ x.at \in {"index", "lag", "candidates", "again"} => x.kind = "list"
  /\ x.at = "branches" => x.kind # "name"
  /\ x.at = "enrich" => x.kind = "branches"
  /\ x.at = "tasks" => x.kind \in {"name", "badge", "wallet", "list"}

DenialOK(x) ==
  /\ x.kind = "name" => <<x.name, None>> \in x.seen \/ x.tasks[x.name].at = "off"
  /\ x.kind = "badge" => \A b \in x.since : <<<<b, x.asked>>, None>> \in x.seen
  /\ x.kind = "wallet" => \/ x.since \subseteq x.lacked
                          \/ <<<<x.scope, x.asked>>, None>> \in x.seen

\* A row of the index that the chain has not answered for.
Kept(r, x, rs) ==
  /\ r \in x.indexed
  /\ r[1] \in InScope(x, rs) /\ r[1][1] \in x.since => <<r[1], None>> \in x.seen

Ended(x, rs) ==
  /\ x.answer = "none" => x.at = "done" /\ x.kind \in {"name", "badge", "wallet"} /\ DenialOK(x)
  /\ x.kind = "list" /\ x.source = "chain" => x.at \in {"again", "done"} /\
       /\ \A n \in InScope(x, rs) : n[1] \in x.since /\ <<n, None>> \notin x.seen => \E r \in x.rows : r[1] = n
       /\ \A r \in x.rows : r \in x.seen \/ Kept(r, x, rs)

InOrder(x, p, h, rs) == Shape(x) /\ Asks(x) /\ Current(x, p, h) /\ TasksOK(x) /\ Begun(x, p, rs) /\ Ended(x, rs)

ReaderInv == ChainOK /\ InOrder(req, pointer, held, recorded)

LEMMA BlankOK ==
  /\ DOMAIN Blank = ReqFields /\ Blank.kind = "idle" /\ Blank.at = "idle" /\ Blank.source = None
  /\ Blank.answer = None /\ Blank.list = {} /\ Blank.since = {} /\ Blank.tasks = [n \in Names |-> NoTask]
  /\ Shape(Blank) /\ TasksOK(Blank) /\ \A p, h, rs : InOrder(Blank, p, h, rs)
<1>1. /\ DOMAIN Blank = ReqFields /\ Blank.kind = "idle" /\ Blank.at = "idle" /\ Blank.source = None
      /\ Blank.answer = None /\ Blank.list = {} /\ Blank.since = {} /\ Blank.tasks = [n \in Names |-> NoTask]
  BY DEF Blank, ReqFields
<1>2. None # "none" /\ None # "chain"
  BY ReaderAssumption
<1> QED
  BY <1>1, <1>2 DEF Shape, TasksOK, InOrder, Asks, Current, Active, Begun, Ended, NoTask, Stages

LEMMA InitInv == Init => ReaderInv
<1> SUFFICES ASSUME Init PROVE ReaderInv
  OBVIOUS
<1>1. ChainOK
  BY DEF Init, ChainOK
<1> QED
  BY <1>1, BlankOK DEF Init, ReaderInv

----------------------------------------------------------------------------
(* Parts of steps *)

\* Between two reads only seen and lacked grow: what changes on the chain is noted.
LEMMA NotedOK ==
  ASSUME NEW x, NEW p, NEW h, NEW p2, NEW h2, NEW rs, InOrder(x, p, h, rs),
         x.kind = "wallet" /\ x.at = "label" /\ p2[<<x.scope, x.wallet>>] # x.asked =>
           \/ p[<<x.scope, x.wallet>>] # x.asked
           \/ ~Live(p, h, x.wallet, x.scope) \/ ~Live(p2, h2, x.wallet, x.scope)
  PROVE  InOrder(Noted(x, p2, h2), p2, h2, rs)
<1> DEFINE y == Noted(x, p2, h2)
<1>1. /\ DOMAIN y = ReqFields /\ y.kind = x.kind /\ y.name = x.name /\ y.wallet = x.wallet
      /\ y.scope = x.scope /\ y.at = x.at /\ y.list = x.list /\ y.asked = x.asked /\ y.tasks = x.tasks
      /\ y.rows = x.rows /\ y.source = x.source /\ y.answer = x.answer /\ y.since = x.since
      /\ y.indexed = x.indexed /\ y.seen = x.seen \union {<<n, h2[n]>> : n \in Names}
      /\ y.lacked = x.lacked \union {b \in Branches : x.wallet = None \/ ~Live(p2, h2, x.wallet, b)}
  BY DEF InOrder, Shape, ReqFields, Noted
<1> HIDE DEF y
<1>2. x.seen \subseteq y.seen /\ x.lacked \subseteq y.lacked
  BY <1>1
<1>3. Shape(y) /\ Asks(y)
  BY <1>1 DEF InOrder, Shape, Asks
<1>4. Current(y, p2, h2)
  BY <1>1 DEF Current
<1>5. TasksOK(y)
  BY <1>1, <1>2 DEF InOrder, TasksOK
<1>6. InScope(y, rs) = InScope(x, rs)
  BY <1>1 DEF InScope
<1>7. x.kind = "wallet" /\ x.at = "label" => y.scope \in y.lacked \/ p2[<<y.scope, y.wallet>>] = y.asked
  BY <1>1, <1>2 DEF InOrder, Begun, Current, Active
<1>8. Begun(y, p2, rs)
  BY <1>1, <1>2, <1>6, <1>7 DEF InOrder, Begun
<1>9. Ended(y, rs)
  BY <1>1, <1>2, <1>6 DEF InOrder, Ended, Kept, DenialOK
<1> QED
  BY <1>3, <1>4, <1>5, <1>8, <1>9 DEF InOrder, y

\* An answer that is no denial is always in order.
LEMMA AnswerOK ==
  ASSUME NEW x, NEW p, NEW h, NEW rs, InOrder(x, p, h, rs), Active(x), NEW answer,
         answer = "none" => x.kind \in {"name", "badge", "wallet"} /\ DenialOK(x)
  PROVE  InOrder(Answer(x, answer), p, h, rs)
<1> DEFINE y == Answer(x, answer)
<1>1. /\ DOMAIN y = ReqFields /\ y.kind = x.kind /\ y.name = x.name /\ y.wallet = x.wallet
      /\ y.scope = x.scope /\ y.at = "done" /\ y.list = x.list /\ y.asked = x.asked /\ y.tasks = x.tasks
      /\ y.rows = x.rows /\ y.source = x.source /\ y.answer = answer /\ y.since = x.since
      /\ y.indexed = x.indexed /\ y.seen = x.seen /\ y.lacked = x.lacked
  BY DEF InOrder, Shape, ReqFields, Answer
<1> HIDE DEF y
<1>2. Shape(y) /\ Asks(y) /\ TasksOK(y)
  BY <1>1 DEF InOrder, Shape, Asks, TasksOK, Active
<1>3. Current(y, p, h) /\ Begun(y, p, rs)
  BY <1>1 DEF InOrder, Begun, Current, Active
<1>4. InScope(y, rs) = InScope(x, rs)
  BY <1>1 DEF InScope
<1>5. Ended(y, rs)
  BY <1>1, <1>4 DEF InOrder, Ended, Kept, DenialOK
<1> QED
  BY <1>2, <1>3, <1>5 DEF InOrder, y

\* A request that goes on: what it was asked, and what was noted, stays.
SameRequest(x, y) ==
  /\ DOMAIN y = ReqFields /\ y.kind = x.kind /\ y.name = x.name /\ y.wallet = x.wallet
  /\ y.seen = x.seen /\ y.lacked = x.lacked /\ y.answer = x.answer
  /\ y.list \subseteq Branches /\ y.since \subseteq Branches

LEMMA GoesOn ==
  ASSUME NEW x, NEW p, NEW h, NEW rs, InOrder(x, p, h, rs), Active(x), x.at # "again", NEW y, SameRequest(x, y),
         y.tasks = x.tasks, y.asked = x.asked, y.scope = x.scope, y.source = x.source, y.rows = x.rows,
         Begun(y, p, rs)
  PROVE  InOrder(y, p, h, rs)
<1>1. Shape(y) /\ Asks(y) /\ TasksOK(y) /\ Current(y, p, h)
  BY DEF InOrder, Shape, Asks, TasksOK, SameRequest, Current, Active
<1>2. Ended(y, rs)
  BY DEF InOrder, Ended, Active, SameRequest
<1> QED
  BY <1>1, <1>2 DEF InOrder

\* Lookups of the names begin.
LEMMA StartedOK ==
  ASSUME NEW x, NEW p, NEW h, NEW rs \in SUBSET Names, InOrder(x, p, h, rs), Active(x), x.at # "again",
         NEW names, NEW at \in {"registry", "status"}, x.kind \in {"badge", "wallet", "list"},
         x.kind = "badge" => \A b \in x.since : <<b, x.asked>> \in names,
         x.kind = "wallet" => x.scope \in Branches /\ x.asked \in Labels /\ <<x.scope, x.asked>> \in names,
         x.kind = "list" => \A n \in InScope(x, rs) : n[1] \in x.since => n \in names
  PROVE  InOrder(Started(x, names, at), p, h, rs)
<1> DEFINE y == Started(x, names, at)
<1>1. /\ DOMAIN y = ReqFields /\ y.kind = x.kind /\ y.name = x.name /\ y.wallet = x.wallet
      /\ y.scope = x.scope /\ y.at = "tasks" /\ y.list = x.list /\ y.asked = x.asked
      /\ y.rows = x.rows /\ y.source = x.source /\ y.answer = x.answer /\ y.since = x.since
      /\ y.seen = x.seen /\ y.lacked = x.lacked
      /\ y.tasks = [n \in Names |-> IF n \in names THEN Task(at) ELSE NoTask]
  BY DEF InOrder, Shape, ReqFields, Started
<1> HIDE DEF y
<1>2. /\ \A n \in Names : /\ DOMAIN y.tasks[n] = {"at", "owner"} /\ y.tasks[n].owner = None
                          /\ y.tasks[n].at \in {"off", "registry", "status"}
                          /\ n \in names => y.tasks[n].at # "off"
  BY <1>1 DEF Task, NoTask
<1>3. Shape(y) /\ Asks(y) /\ TasksOK(y) /\ Current(y, p, h)
  BY <1>1, <1>2 DEF InOrder, Shape, Stages, Asks, TasksOK, Current, Active
<1>4. InScope(y, rs) = InScope(x, rs)
  BY <1>1 DEF InScope
<1>5. x.kind = "badge" => \A b \in x.since : <<b, x.asked>> \in Names
  BY DEF InOrder, Asks, Names
<1>6. x.kind = "wallet" => <<x.scope, x.asked>> \in Names
  BY DEF Names
<1>7. Begun(y, p, rs)
  <2>1. InScope(y, rs) \subseteq Names
    BY DEF InScope
  <2> QED
    BY <1>1, <1>2, <1>4, <1>5, <1>6, <2>1 DEF Begun
<1>8. Ended(y, rs)
  BY <1>1 DEF InOrder, Ended, Active
<1> QED
  BY <1>3, <1>7, <1>8 DEF InOrder, y

----------------------------------------------------------------------------
(* The chain and the caches move *)

LEMMA ChainMoves ==
  ASSUME ReaderInv,
         \/ SetUp \/ \E b \in Branches : OpenBranch(b)
         \/ \E n \in Names, w \in Wallets : Onboard(n, w)
         \/ \E n \in Names : Revoke(n) \/ Unregister(n)
  PROVE  ReaderInv'
<1> USE DEF ReaderInv
<1>1. /\ Transaction /\ recorded' = recorded /\ branchCache' = branchCache
  BY DEF SetUp, OpenBranch, Onboard, Revoke, Unregister, Transaction, caches
<1>2. ChainOK'
  <2>1. CASE SetUp
    BY <1>1, <2>1 DEF SetUp, ChainOK
  <2>2. ASSUME NEW b \in Branches, OpenBranch(b) PROVE ChainOK'
    BY <1>1, <2>2 DEF OpenBranch, ChainOK
  <2>3. ASSUME NEW n \in Names, NEW w \in Wallets, Onboard(n, w) PROVE ChainOK'
    <3>1. n[2] \in Labels
      BY DEF Names
    <3>2. open' = open /\ held' = [held EXCEPT ![n] = w] /\ n[1] \in open
          /\ pointer' = [pointer EXCEPT ![<<n[1], w>>] = n[2]]
      BY <2>3 DEF Onboard
    <3> QED
      BY <1>1, <3>1, <3>2 DEF ChainOK
  <2>4. ASSUME NEW n \in Names, Revoke(n) PROVE ChainOK'
    BY <1>1, <2>4 DEF Revoke, ChainOK
  <2>5. ASSUME NEW n \in Names, Unregister(n) PROVE ChainOK'
    BY <1>1, <2>5 DEF Unregister, ChainOK
  <2> QED
    BY <2>1, <2>2, <2>3, <2>4, <2>5
<1>3. ASSUME NEW b \in Branches, NEW w \in Wallets, pointer'[<<b, w>>] # pointer[<<b, w>>]
      PROVE  ~Live(pointer, held, w, b) \/ ~Live(pointer', held', w, b)
  <2>1. CASE SetUp \/ \E c \in Branches : OpenBranch(c)
    BY <1>3, <2>1 DEF SetUp, OpenBranch
  <2>2. ASSUME NEW n \in Names, NEW v \in Wallets, Onboard(n, v)
        PROVE  ~Live(pointer, held, w, b)
    <3>1. pointer' = [pointer EXCEPT ![<<n[1], v>>] = n[2]] /\ ~Live(pointer, held, v, n[1])
      BY <2>2 DEF Onboard
    <3>2. <<n[1], v>> = <<b, w>>
      BY <1>3, <3>1 DEF ChainOK
    <3> QED
      BY <3>1, <3>2
  <2>3. ASSUME NEW n \in Names, Revoke(n) PROVE ~Live(pointer', held', w, b)
    <3>1. pointer' = [pointer EXCEPT ![<<n[1], held[n]>>] = None]
      BY <2>3 DEF Revoke
    <3>2. pointer'[<<b, w>>] = None
      BY <1>3, <3>1 DEF ChainOK
    <3> QED
      BY <3>2 DEF Live
  <2>4. ASSUME NEW n \in Names, Unregister(n) PROVE FALSE
    BY <1>3, <2>4 DEF Unregister
  <2> QED
    BY <2>1, <2>2, <2>3, <2>4
<1>4. CASE req.at \in {"idle", "done"}
  <2>1. req' = req
    BY <1>1, <1>4 DEF Transaction
  <2>2. Current(req, pointer', held') /\ Begun(req, pointer', recorded)
    BY <1>4 DEF InOrder, Begun, Current, Active
  <2> QED
    BY <1>1, <1>2, <2>1, <2>2 DEF InOrder
<1>5. CASE req.at \notin {"idle", "done"}
  <2>1. req' = Noted(req, pointer', held')
    BY <1>1, <1>5 DEF Transaction
  <2>2. req.kind = "wallet" /\ req.at = "label" => req.scope \in Branches /\ req.wallet \in Wallets
    BY DEF InOrder, Begun, Asks
  <2>3. InOrder(Noted(req, pointer', held'), pointer', held', recorded)
    BY <1>3, <2>2, NotedOK
  <2> QED
    BY <1>1, <1>2, <2>1, <2>3
<1> QED
  BY <1>4, <1>5

----------------------------------------------------------------------------
(* The request moves *)

LEMMA RequestMoves ==
  ASSUME ReaderInv, NEW y, req' = y, InOrder(y, pointer, held, recorded),
         UNCHANGED <<chain, recorded>>, branchCache' # None => branchCache' \subseteq Branches
  PROVE  ReaderInv'
<1>1. ChainOK'
  BY DEF ReaderInv, ChainOK, chain
<1> QED
  BY <1>1 DEF ReaderInv, chain

LEMMA Answered ==
  ASSUME ReaderInv, Active(req), NEW answer, req' = Answer(req, answer),
         answer = "none" => req.kind \in {"name", "badge", "wallet"} /\ DenialOK(req),
         UNCHANGED <<chain, recorded>>, branchCache' # None => branchCache' \subseteq Branches
  PROVE  ReaderInv'
<1>1. InOrder(Answer(req, answer), pointer, held, recorded)
  BY AnswerOK DEF ReaderInv
<1> QED
  BY <1>1, RequestMoves

\* A request begins with what is so.
LEMMA AskStep ==
  ASSUME ReaderInv, Ask
  PROVE  ReaderInv'
<1>1. UNCHANGED <<chain, recorded, branchCache>> /\ (branchCache # None => branchCache \subseteq Branches)
  BY DEF Ask, AskName, AskWallet, AskBadge, AskList, AskBranches, Same, caches, ReaderInv, ChainOK
<1>2. ASSUME NEW x, Asked(x), DOMAIN x = ReqFields, x.tasks = Blank.tasks, Asks(x), x.kind # "idle",
             x.answer = None, x.source = None
      PROVE  ReaderInv'
  <2> DEFINE y == [Noted(x, pointer, held) EXCEPT !.at = "org"]
  <2>1. /\ DOMAIN y = ReqFields /\ y.kind = x.kind /\ y.name = x.name /\ y.wallet = x.wallet
        /\ y.at = "org" /\ y.list = x.list /\ y.asked = x.asked /\ y.tasks = x.tasks
        /\ y.source = x.source /\ y.answer = x.answer /\ y.since = x.since
        /\ y.seen = x.seen \union {<<n, held[n]>> : n \in Names}
        /\ y.lacked = x.lacked \union {b \in Branches : x.wallet = None \/ ~Live(pointer, held, x.wallet, b)}
    BY <1>2 DEF ReqFields, Noted
  <2>2. req' = y
    BY <1>2 DEF Asked
  <2> HIDE DEF y
  <2>3. \A n \in Names : y.tasks[n] = NoTask
    BY <1>2, <2>1, BlankOK
  <2>4. Shape(y) /\ Asks(y) /\ TasksOK(y)
    BY <1>2, <2>1, <2>3, BlankOK DEF Shape, Asks, TasksOK, NoTask, Stages
  <2>5. Current(y, pointer, held)
    BY <2>1 DEF Current
  <2>6. Begun(y, pointer, recorded) /\ Ended(y, recorded)
    BY <1>2, <2>1, <2>3, ReaderAssumption DEF Begun, Ended, NoTask
  <2> QED
    BY <1>1, <2>2, <2>4, <2>5, <2>6, RequestMoves DEF InOrder
<1>3. ASSUME NEW n \in Names, AskName(n) PROVE ReaderInv'
  <2> DEFINE x == [Blank EXCEPT !.kind = "name", !.name = n]
  <2>1. /\ DOMAIN x = ReqFields /\ x.tasks = Blank.tasks /\ Asks(x) /\ x.kind # "idle" /\ x.answer = None /\ x.source = None
    BY BlankOK DEF ReqFields, Asks
  <2> QED
    BY <1>2, <1>3, <2>1 DEF AskName
<1>4. ASSUME NEW w \in Wallets, AskWallet(w) PROVE ReaderInv'
  <2> DEFINE x == [Blank EXCEPT !.kind = "wallet", !.wallet = w]
  <2>1. /\ DOMAIN x = ReqFields /\ x.tasks = Blank.tasks /\ Asks(x) /\ x.kind # "idle" /\ x.answer = None /\ x.source = None
    BY BlankOK DEF ReqFields, Asks
  <2> QED
    BY <1>2, <1>4, <2>1 DEF AskWallet
<1>5. ASSUME NEW l \in Labels, AskBadge(l) PROVE ReaderInv'
  <2> DEFINE x == [Blank EXCEPT !.kind = "badge", !.asked = l]
  <2>1. /\ DOMAIN x = ReqFields /\ x.tasks = Blank.tasks /\ Asks(x) /\ x.kind # "idle" /\ x.answer = None /\ x.source = None
    BY BlankOK DEF ReqFields, Asks
  <2> QED
    BY <1>2, <1>5, <2>1 DEF AskBadge
<1>6. ASSUME NEW b, AskList(b) PROVE ReaderInv'
  <2> DEFINE x == [Blank EXCEPT !.kind = "list", !.scope = b]
  <2>1. /\ DOMAIN x = ReqFields /\ x.tasks = Blank.tasks /\ Asks(x) /\ x.kind # "idle" /\ x.answer = None /\ x.source = None
    BY BlankOK DEF ReqFields, Asks
  <2> QED
    BY <1>2, <1>6, <2>1 DEF AskList
<1>7. CASE AskBranches
  <2> DEFINE x == [Blank EXCEPT !.kind = "branches"]
  <2>1. /\ DOMAIN x = ReqFields /\ x.tasks = Blank.tasks /\ Asks(x) /\ x.kind # "idle" /\ x.answer = None /\ x.source = None
    BY BlankOK DEF ReqFields, Asks
  <2> QED
    BY <1>2, <1>7, <2>1 DEF AskBranches
<1> QED
  BY <1>3, <1>4, <1>5, <1>6, <1>7 DEF Ask

\* A request goes on to another read, without beginning any lookup.
LEMMA OnwardOK ==
  ASSUME ReaderInv, Active(req), req.at # "again", NEW y, req' = y, SameRequest(req, y),
         y.tasks = req.tasks, y.asked = req.asked, y.scope = req.scope,
         y.source = req.source, y.rows = req.rows, Begun(y, pointer, recorded),
         UNCHANGED <<chain, recorded>>, branchCache' # None => branchCache' \subseteq Branches
  PROVE  ReaderInv'
<1>1. InOrder(y, pointer, held, recorded)
  BY GoesOn DEF ReaderInv
<1> QED
  BY <1>1, RequestMoves

LEMMA ReadOrgStep ==
  ASSUME ReaderInv, ReadOrg
  PROVE  ReaderInv'
<1> USE DEF ReaderInv
<1>1. /\ UNCHANGED <<chain, recorded, branchCache>> /\ req.at = "org"
      /\ branchCache # None => branchCache \subseteq Branches
  BY DEF ReadOrg, ChainOK
<1>2. /\ DOMAIN req = ReqFields /\ DOMAIN req.tasks = Names /\ Shape(req) /\ Asks(req) /\ TasksOK(req)
      /\ Current(req, pointer, held) /\ Ended(req, recorded) /\ Begun(req, pointer, recorded)
  BY DEF InOrder, Shape
<1>3. req.kind = "name" => DenialOK(req)
  BY <1>1, <1>2 DEF Begun, DenialOK, Asks
<1>4. CASE \/ req' = Answer(req, "failed") \/ req' = Answer(req, "refused")
           \/ req.kind = "name" /\ req' = Answer(req, "none")
  BY <1>1, <1>3, <1>4, Answered DEF Active
<1>5. CASE req.kind = "name" /\ req' = [req EXCEPT !.at = "tasks", !.tasks[req.name] = Task("registry")]
  <2> DEFINE y == [req EXCEPT !.at = "tasks", !.tasks[req.name] = Task("registry")]
  <2>1. /\ DOMAIN y = ReqFields /\ y.kind = "name" /\ y.name = req.name /\ y.wallet = req.wallet
        /\ y.at = "tasks" /\ y.list = req.list /\ y.since = req.since /\ y.seen = req.seen
        /\ y.lacked = req.lacked /\ y.answer = req.answer
        /\ y.tasks = [req.tasks EXCEPT ![req.name] = Task("registry")]
    BY <1>2, <1>5 DEF ReqFields
  <2> HIDE DEF y
  <2>2. \A n \in Names : y.tasks[n] = req.tasks[n] \/ y.tasks[n] = Task("registry")
    BY <1>2, <2>1
  <2>3. Shape(y) /\ TasksOK(y)
    BY <1>2, <2>1, <2>2 DEF Shape, TasksOK, Task, Stages
  <2>4. Asks(y) /\ Current(y, pointer, held) /\ Begun(y, pointer, recorded) /\ Ended(y, recorded)
    BY <1>1, <1>2, <1>5, <2>1 DEF Asks, Current, Active, Begun, Ended
  <2> QED
    BY <1>1, <1>5, <2>3, <2>4, RequestMoves DEF InOrder, y
<1>6. ASSUME NEW at, req' = [req EXCEPT !.at = at],
             \/ at = "branches" /\ req.kind # "name"
             \/ at = "index" /\ req.kind = "list"
      PROVE  ReaderInv'
  <2> DEFINE y == [req EXCEPT !.at = at]
  <2>1. /\ SameRequest(req, y) /\ y.tasks = req.tasks /\ y.asked = req.asked /\ y.scope = req.scope
        /\ y.source = req.source /\ y.rows = req.rows /\ y.at = at
    BY <1>2 DEF ReqFields, SameRequest, Asks
  <2>2. req' = y
    BY <1>6
  <2> HIDE DEF y
  <2>3. Begun(y, pointer, recorded)
    BY <1>6, <2>1 DEF Begun, SameRequest
  <2> QED
    BY <1>1, <2>1, <2>2, <2>3, OnwardOK DEF Active
<1>7. \/ req' = AfterOrg(req)
      \/ req' = Answer(req, "failed") \/ req' = Answer(req, "refused")
      \/ req.kind = "name" /\ req' = Answer(req, "none")
  BY DEF ReadOrg, Unanswered
<1>8. req.kind # "idle"
  BY <1>1, <1>2 DEF Asks
<1> QED
  BY <1>2, <1>4, <1>5, <1>6, <1>7, <1>8 DEF AfterOrg, Asks

LEMMA ReadBranchesStep ==
  ASSUME ReaderInv, ReadBranches
  PROVE  ReaderInv'
<1> USE DEF ReaderInv
<1>1. UNCHANGED <<chain, recorded>> /\ req.at = "branches" /\ Active(req)
  BY DEF ReadBranches, Active
<1>2. /\ DOMAIN req = ReqFields /\ Shape(req) /\ Asks(req) /\ TasksOK(req)
      /\ Current(req, pointer, held) /\ Ended(req, recorded) /\ Begun(req, pointer, recorded)
  BY DEF InOrder, Shape
<1>3. req.kind \in {"wallet", "badge", "list", "branches"}
  BY <1>1, <1>2 DEF Asks, Begun
<1>4. recorded \in SUBSET Names
  BY DEF ChainOK
<1>5. ASSUME NEW list \in SUBSET Branches, branchCache' \subseteq Branches,
             req' = AfterBranches([req EXCEPT !.list = list, !.since = list])
      PROVE  ReaderInv'
  <2> DEFINE x == [req EXCEPT !.list = list, !.since = list]
  <2>1. /\ SameRequest(req, x) /\ x.tasks = req.tasks /\ x.asked = req.asked /\ x.scope = req.scope
        /\ x.source = req.source /\ x.rows = req.rows /\ x.at = "branches" /\ x.list = list /\ x.since = list
    BY <1>1, <1>2 DEF ReqFields, SameRequest
  <2>2. req' = AfterBranches(x)
    BY <1>5
  <2> HIDE DEF x
  <2>3. Begun(x, pointer, recorded)
    BY <1>1, <1>2, <2>1 DEF Begun, SameRequest
  <2>4. InOrder(x, pointer, held, recorded) /\ Active(x)
    BY <1>1, <2>1, <2>3, GoesOn DEF Active
  <2>5. CASE req' = Answer(x, "failed")
    <3>1. InOrder(Answer(x, "failed"), pointer, held, recorded)
      BY <2>4, AnswerOK
    <3> QED
      BY <1>1, <1>5, <2>5, <3>1, RequestMoves
  <2>6. CASE x.kind = "wallet" /\ req' = [x EXCEPT !.at = "pointer"]
    <3> DEFINE y == [x EXCEPT !.at = "pointer"]
    <3>1. /\ SameRequest(x, y) /\ y.tasks = x.tasks /\ y.asked = x.asked /\ y.scope = x.scope
          /\ y.source = x.source /\ y.rows = x.rows /\ y.at = "pointer" /\ y.list = list /\ y.since = list
      BY <2>1 DEF ReqFields, SameRequest
    <3>2. req' = y
      BY <2>6
    <3> HIDE DEF y
    <3>3. Begun(y, pointer, recorded)
      BY <2>6, <3>1 DEF Begun, SameRequest
    <3>4. InOrder(y, pointer, held, recorded)
      BY <2>1, <2>4, <3>1, <3>3, GoesOn
    <3> QED
      BY <1>1, <1>5, <3>2, <3>4, RequestMoves
  <2>7. CASE x.kind = "badge" /\ req' = Started(x, x.list \X {x.asked}, "registry")
    <3>1. \A b \in x.since : <<b, x.asked>> \in x.list \X {x.asked}
      BY <2>1
    <3>2. InOrder(Started(x, x.list \X {x.asked}, "registry"), pointer, held, recorded)
      BY <1>4, <2>1, <2>4, <2>7, <3>1, StartedOK
    <3> QED
      BY <1>1, <1>5, <2>7, <3>2, RequestMoves
  <2>8. CASE x.kind = "list" /\ req' = Started(x, {n \in Candidates(x) : n[1] \in x.list}, "status")
    <3> DEFINE names == {n \in Candidates(x) : n[1] \in x.list}
    <3>1. \A n \in InScope(x, recorded) : n[1] \in x.since => n \in names
      BY <2>1 DEF Candidates
    <3>2. req' = Started(x, names, "status")
      BY <2>8
    <3> HIDE DEF names
    <3>3. InOrder(Started(x, names, "status"), pointer, held, recorded)
      BY <1>4, <2>1, <2>4, <2>8, <3>1, StartedOK
    <3> QED
      BY <1>1, <1>5, <3>2, <3>3, RequestMoves
  <2>9. CASE x.kind = "branches" /\ req' = [x EXCEPT !.at = "enrich", !.source = "chain"]
    <3> DEFINE y == [x EXCEPT !.at = "enrich", !.source = "chain"]
    <3>1. /\ SameRequest(x, y) /\ y.tasks = x.tasks /\ y.at = "enrich" /\ y.kind = "branches"
          /\ y.answer = x.answer
      BY <2>1, <2>9 DEF ReqFields, SameRequest
    <3>2. req' = y
      BY <2>9
    <3> HIDE DEF y
    <3>3. Shape(y) /\ Asks(y) /\ TasksOK(y) /\ Current(y, pointer, held)
      BY <2>4, <3>1 DEF InOrder, Shape, Asks, TasksOK, SameRequest, Current, Active
    <3>4. Begun(y, pointer, recorded) /\ Ended(y, recorded)
      BY <2>4, <3>1 DEF InOrder, Begun, Ended, Active
    <3> QED
      BY <1>1, <1>5, <3>2, <3>3, <3>4, RequestMoves DEF InOrder
  <2> QED
    BY <1>3, <2>1, <2>2, <2>5, <2>6, <2>7, <2>8, <2>9 DEF AfterBranches, SameRequest
<1>6. CASE req.kind = "branches" /\ req' = [req EXCEPT !.at = "enrich"] /\ branchCache' = branchCache
  <2> DEFINE y == [req EXCEPT !.at = "enrich"]
  <2>1. /\ SameRequest(req, y) /\ y.tasks = req.tasks /\ y.asked = req.asked /\ y.scope = req.scope
        /\ y.source = req.source /\ y.rows = req.rows /\ y.at = "enrich"
    BY <1>2 DEF ReqFields, SameRequest, Asks
  <2>2. req' = y
    BY <1>6
  <2> HIDE DEF y
  <2>3. Begun(y, pointer, recorded)
    BY <1>6, <2>1 DEF Begun, SameRequest
  <2> QED
    BY <1>1, <1>6, <2>1, <2>2, <2>3, OnwardOK DEF ChainOK
<1>7. CASE req' = Answer(req, "failed") /\ branchCache' = branchCache
  BY <1>1, <1>7, Answered DEF ChainOK
<1>8. \/ \E list \in SUBSET Branches, since \in SUBSET Branches :
           ChainBranches(list, since) /\ req' = AfterBranches([req EXCEPT !.list = list, !.since = since])
      \/ /\ branchCache' = branchCache
         /\ req' = IF req.kind = "branches" THEN [req EXCEPT !.at = "enrich"] ELSE Answer(req, "failed")
  BY DEF ReadBranches
<1>9. ASSUME NEW list \in SUBSET Branches, NEW since, ChainBranches(list, since)
      PROVE  since = list /\ branchCache' = list
  BY <1>9 DEF ChainBranches, BranchesFromChain
<1> QED
  BY <1>5, <1>6, <1>7, <1>8, <1>9

LEMMA ReadPointerStep ==
  ASSUME ReaderInv, ReadPointer
  PROVE  ReaderInv'
<1> USE DEF ReaderInv
<1>1. /\ UNCHANGED <<chain, recorded, branchCache>> /\ req.at = "pointer" /\ Active(req)
      /\ branchCache # None => branchCache \subseteq Branches
  BY DEF ReadPointer, Active, ChainOK, caches
<1>2. /\ DOMAIN req = ReqFields /\ Shape(req) /\ Asks(req) /\ Begun(req, pointer, recorded)
      /\ Current(req, pointer, held)
  BY DEF InOrder, Shape
<1>3. req.kind = "wallet" /\ req.wallet \in Wallets /\ req.since \subseteq req.lacked \union req.list
  BY <1>1, <1>2 DEF Begun, Asks
<1>4. CASE req.list = {} /\ req' = Answer(req, "none")
  <2>1. DenialOK(req)
    BY <1>3, <1>4 DEF DenialOK
  <2> QED
    BY <1>1, <1>3, <1>4, <2>1, Answered
<1>5. CASE req' = Answer(req, "failed")
  BY <1>1, <1>5, Answered
<1>6. ASSUME NEW b \in req.list, pointer[<<b, req.wallet>>] = None, req' = [req EXCEPT !.list = @ \ {b}]
      PROVE  ReaderInv'
  <2> DEFINE y == [req EXCEPT !.list = @ \ {b}]
  <2>1. /\ SameRequest(req, y) /\ y.tasks = req.tasks /\ y.asked = req.asked /\ y.scope = req.scope
        /\ y.source = req.source /\ y.rows = req.rows /\ y.at = "pointer" /\ y.since = req.since
        /\ y.list = req.list \ {b}
    BY <1>1, <1>2 DEF ReqFields, SameRequest, Asks
  <2>2. req' = y
    BY <1>6
  <2> HIDE DEF y
  <2>3. b \in req.lacked
    BY <1>1, <1>2, <1>6 DEF Asks, Current, Live
  <2>4. Begun(y, pointer, recorded)
    BY <1>3, <2>1, <2>3 DEF Begun, SameRequest
  <2> QED
    BY <1>1, <2>1, <2>2, <2>4, OnwardOK
<1>7. ASSUME NEW b \in req.list, NEW l, l = pointer[<<b, req.wallet>>], l # None,
             req' = [req EXCEPT !.at = "label", !.asked = l, !.scope = b]
      PROVE  ReaderInv'
  <2> DEFINE y == [req EXCEPT !.at = "label", !.asked = l, !.scope = b]
  <2>1. /\ SameRequest(req, y) /\ y.tasks = req.tasks /\ y.asked = l /\ y.scope = b
        /\ y.source = req.source /\ y.rows = req.rows /\ y.at = "label" /\ y.since = req.since
        /\ y.list = req.list
    BY <1>1, <1>2 DEF ReqFields, SameRequest, Asks
  <2>2. req' = y
    BY <1>7
  <2> HIDE DEF y
  <2>3. b \in Branches /\ l \in Labels
    BY <1>2, <1>3, <1>7 DEF Asks, ChainOK
  <2>4. Begun(y, pointer, recorded)
    BY <1>3, <1>7, <2>1, <2>3 DEF Begun, SameRequest
  <2>5. Shape(y) /\ Asks(y) /\ TasksOK(y) /\ Current(y, pointer, held) /\ Ended(y, recorded)
    BY <1>1, <1>3, <2>1 DEF InOrder, Shape, Asks, TasksOK, SameRequest, Current, Active, Ended
  <2> QED
    BY <1>1, <2>2, <2>4, <2>5, RequestMoves DEF InOrder
<1> QED
  BY <1>4, <1>5, <1>6, <1>7 DEF ReadPointer, First, Unanswered

LEMMA ReadLabelStep ==
  ASSUME ReaderInv, ReadLabel
  PROVE  ReaderInv'
<1> USE DEF ReaderInv
<1>1. /\ UNCHANGED <<chain, recorded, branchCache>> /\ req.at = "label" /\ Active(req)
      /\ branchCache # None => branchCache \subseteq Branches
  BY DEF ReadLabel, Active, ChainOK, caches
<1>2. /\ DOMAIN req = ReqFields /\ Shape(req) /\ Asks(req) /\ Begun(req, pointer, recorded)
      /\ Current(req, pointer, held)
  BY DEF InOrder, Shape
<1>3. /\ req.kind = "wallet" /\ req.since \subseteq req.lacked \union req.list
      /\ req.scope \in Branches /\ req.asked \in Labels
      /\ req.scope \in req.lacked \/ pointer[<<req.scope, req.wallet>>] = req.asked
  BY <1>1, <1>2 DEF Begun
<1>4. CASE req' = Answer(req, "failed")
  BY <1>1, <1>4, Answered
<1>5. CASE req' = Started(req, {<<req.scope, req.asked>>}, "registry")
  <2>1. recorded \in SUBSET Names
    BY DEF ChainOK
  <2>2. InOrder(Started(req, {<<req.scope, req.asked>>}, "registry"), pointer, held, recorded)
    BY <1>1, <1>3, <2>1, StartedOK
  <2> QED
    BY <1>1, <1>5, <2>2, RequestMoves
<1>6. CASE /\ pointer[<<req.scope, req.wallet>>] # req.asked
           /\ req' = [req EXCEPT !.at = "pointer", !.list = @ \ {req.scope}]
  <2> DEFINE y == [req EXCEPT !.at = "pointer", !.list = @ \ {req.scope}]
  <2>1. /\ SameRequest(req, y) /\ y.tasks = req.tasks /\ y.asked = req.asked /\ y.scope = req.scope
        /\ y.source = req.source /\ y.rows = req.rows /\ y.at = "pointer" /\ y.since = req.since
        /\ y.list = req.list \ {req.scope}
    BY <1>1, <1>2 DEF ReqFields, SameRequest, Asks
  <2>2. req' = y
    BY <1>6
  <2> HIDE DEF y
  <2>3. Begun(y, pointer, recorded)
    BY <1>3, <1>6, <2>1 DEF Begun, SameRequest
  <2> QED
    BY <1>1, <2>1, <2>2, <2>3, OnwardOK
<1> QED
  BY <1>4, <1>5, <1>6 DEF ReadLabel, Unanswered

\* One read of one name.
LEMMA ReadNameStep ==
  ASSUME ReaderInv, NEW n \in Names, ReadName(n)
  PROVE  ReaderInv'
<1> USE DEF ReaderInv
<1>1. /\ UNCHANGED <<chain, recorded, branchCache>> /\ req.at = "tasks" /\ Active(req) /\ n \in Busy(req)
      /\ branchCache # None => branchCache \subseteq Branches
  BY DEF ReadName, Active, ChainOK, caches
<1>2. /\ DOMAIN req = ReqFields /\ Shape(req) /\ Asks(req) /\ TasksOK(req) /\ Begun(req, pointer, recorded)
      /\ Current(req, pointer, held) /\ Ended(req, recorded)
  BY DEF InOrder, Shape
<1>3. CASE req' = Answer(req, "failed")
  BY <1>1, <1>3, Answered
<1>4. CASE req' = [req EXCEPT !.tasks[n] = Read(req, n)]
  <2> DEFINE t == req.tasks[n]
             z == Read(req, n)
             y == [req EXCEPT !.tasks[n] = z]
  <2>1. /\ DOMAIN t = {"at", "owner"} /\ t.at \in {"registry", "status", "owner", "rest"}
        /\ t.at = "rest" => <<n, t.owner>> \in req.seen
        /\ <<n, held[n]>> \in req.seen
    BY <1>1, <1>2 DEF Busy, Shape, TasksOK, Current
  <2>2. n[1] \notin open => held[n] = None
    BY DEF ChainOK
  <2>3. /\ DOMAIN z = {"at", "owner"} /\ z.at \in Stages \ {"off"}
        /\ z.at \in {"rest", "found"} => <<n, z.owner>> \in req.seen
        /\ z.at = "denied" => <<n, None>> \in req.seen
    <3>1. CASE t.at = "registry"
      BY <2>1, <2>2, <3>1 DEF Read, Task, Denied, Stages
    <3>2. CASE t.at = "status"
      BY <2>1, <3>2 DEF Read, Task, Denied, Stages
    <3>3. CASE t.at = "owner"
      <4>1. z = AfterOwner(req, n)
        BY <3>3 DEF Read
      <4> QED
        BY <2>1, <4>1 DEF AfterOwner, Denied, Stages
    <3>4. CASE t.at = "rest"
      BY <2>1, <3>4 DEF Read, Stages
    <3> QED
      BY <2>1, <3>1, <3>2, <3>3, <3>4
  <2> HIDE DEF t, z
  <2>4. /\ SameRequest(req, y) /\ y.asked = req.asked /\ y.scope = req.scope /\ y.at = "tasks"
        /\ y.source = req.source /\ y.rows = req.rows /\ y.since = req.since /\ y.list = req.list
        /\ y.tasks = [req.tasks EXCEPT ![n] = z]
    BY <1>1, <1>2 DEF ReqFields, SameRequest, Asks
  <2>5. req' = y
    BY <1>4 DEF z
  <2> HIDE DEF y
  <2>6. \A m \in Names : y.tasks[m] = IF m = n THEN z ELSE req.tasks[m]
    BY <1>2, <2>4 DEF Shape
  <2>7. Shape(y) /\ TasksOK(y)
    BY <1>2, <2>3, <2>4, <2>6 DEF Shape, TasksOK, SameRequest
  <2>8. Asks(y) /\ Current(y, pointer, held) /\ Ended(y, recorded)
    BY <1>1, <1>2, <2>4 DEF Asks, Current, Ended, Active, SameRequest
  <2>9. \A m \in Names : req.tasks[m].at # "off" => y.tasks[m].at # "off"
    BY <2>3, <2>6
  <2>10. InScope(y, recorded) = InScope(req, recorded) /\ InScope(req, recorded) \subseteq Names
    BY <2>4 DEF InScope, ChainOK
  <2>11. Begun(y, pointer, recorded)
    <3>1. \A b \in Branches : req.kind = "badge" => <<b, req.asked>> \in Names
      BY <1>2 DEF Asks, Names
    <3>2. req.kind = "wallet" => <<req.scope, req.asked>> \in Names
      BY <1>1, <1>2 DEF Begun, Names
    <3> QED
      BY <1>1, <1>2, <2>4, <2>9, <2>10, <3>1, <3>2 DEF Begun, SameRequest
  <2> QED
    BY <1>1, <2>5, <2>7, <2>8, <2>11, RequestMoves DEF InOrder
<1> QED
  BY <1>3, <1>4 DEF ReadName, ReadFails, Unanswered

\* The index answers: no lookup, and nothing that is said to be from the chain.
LEMMA IndexOK ==
  ASSUME ReaderInv, Active(req), req.kind = "list", NEW y, req' = y, DOMAIN y = ReqFields,
         y.kind = req.kind, y.name = req.name, y.wallet = req.wallet, y.list = req.list, y.since = req.since,
         y.tasks = req.tasks, y.seen = req.seen, y.lacked = req.lacked, y.answer = req.answer,
         y.at \in {"lag", "candidates", "branches", "again"}, y.source # "chain",
         UNCHANGED <<chain, recorded, branchCache>>
  PROVE  ReaderInv'
<1>1. /\ Shape(req) /\ Asks(req) /\ TasksOK(req) /\ Current(req, pointer, held) /\ Ended(req, recorded)
      /\ branchCache # None => branchCache \subseteq Branches
  BY DEF ReaderInv, InOrder, ChainOK
<1>2. Shape(y) /\ Asks(y) /\ TasksOK(y) /\ Current(y, pointer, held)
  BY <1>1 DEF Shape, Asks, TasksOK, Current, Active
<1>3. Begun(y, pointer, recorded) /\ Ended(y, recorded)
  BY <1>1 DEF Begun, Ended, Active
<1> QED
  BY <1>1, <1>2, <1>3, RequestMoves DEF InOrder

LEMMA ListStep ==
  ASSUME ReaderInv, ReadIndex \/ ReadLag \/ ListCandidates
  PROVE  ReaderInv'
<1> USE DEF ReaderInv
<1>1. /\ UNCHANGED <<chain, recorded, branchCache>> /\ req.at \in {"index", "lag", "candidates"} /\ Active(req)
      /\ branchCache # None => branchCache \subseteq Branches
  BY DEF ReadIndex, ReadLag, ListCandidates, Active, ChainOK, caches
<1>2. DOMAIN req = ReqFields /\ req.kind = "list" /\ req.source # "chain"
  BY <1>1 DEF InOrder, Shape, Begun, Ended
<1>3. CASE req' = Answer(req, "failed")
  BY <1>1, <1>3, Answered
<1>4. CASE req' = [req EXCEPT !.at = "lag", !.indexed = IndexedRows(req)]
  <2> DEFINE rows == IndexedRows(req)
             y == [req EXCEPT !.at = "lag", !.indexed = rows]
  <2>1. req' = y
    BY <1>4
  <2> HIDE DEF rows
  <2>2. /\ DOMAIN y = ReqFields /\ y.kind = req.kind /\ y.name = req.name /\ y.wallet = req.wallet
        /\ y.list = req.list /\ y.since = req.since /\ y.tasks = req.tasks /\ y.seen = req.seen
        /\ y.lacked = req.lacked /\ y.answer = req.answer /\ y.at = "lag" /\ y.source = req.source
    BY <1>2 DEF ReqFields
  <2> HIDE DEF y
  <2> QED
    BY <1>1, <1>2, <2>1, <2>2, IndexOK
<1>5. ASSUME NEW at \in {"candidates", "branches"}, req' = [req EXCEPT !.at = at]
      PROVE  ReaderInv'
  <2> DEFINE y == [req EXCEPT !.at = at]
  <2>1. /\ DOMAIN y = ReqFields /\ y.kind = req.kind /\ y.name = req.name /\ y.wallet = req.wallet
        /\ y.list = req.list /\ y.since = req.since /\ y.tasks = req.tasks /\ y.seen = req.seen
        /\ y.lacked = req.lacked /\ y.answer = req.answer /\ y.at = at /\ y.source = req.source
    BY <1>2 DEF ReqFields
  <2>2. req' = y
    BY <1>5
  <2> HIDE DEF y
  <2> QED
    BY <1>1, <1>2, <2>1, <2>2, IndexOK
<1>6. CASE req' = IndexAlone(req)
  <2> DEFINE y == IndexAlone(req)
  <2>1. /\ DOMAIN y = ReqFields /\ y.kind = req.kind /\ y.name = req.name /\ y.wallet = req.wallet
        /\ y.list = req.list /\ y.since = req.since /\ y.tasks = req.tasks /\ y.seen = req.seen
        /\ y.lacked = req.lacked /\ y.answer = req.answer /\ y.at = "again" /\ y.source = "indexer"
    BY <1>2 DEF ReqFields, IndexAlone
  <2>2. req' = y
    BY <1>6
  <2> HIDE DEF y
  <2> QED
    BY <1>1, <1>2, <2>1, <2>2, IndexOK
<1>7. CASE ReadIndex
  BY <1>3, <1>4, <1>7 DEF ReadIndex, Unanswered
<1>8. CASE ReadLag
  <2>1. \/ req' = [req EXCEPT !.at = "again", !.rows = req.indexed, !.source = "indexer"]
        \/ req' = [req EXCEPT !.at = "candidates"]
    BY <1>8 DEF ReadLag
  <2> QED
    BY <1>5, <1>6, <2>1 DEF IndexAlone
<1>9. CASE ListCandidates
  BY <1>5, <1>6, <1>9 DEF ListCandidates
<1> QED
  BY <1>7, <1>8, <1>9

\* The rows of an answer and its date are added to it.
LEMMA DateStep ==
  ASSUME ReaderInv, DateList \/ EnrichBranches
  PROVE  ReaderInv'
<1> USE DEF ReaderInv
<1>1. /\ UNCHANGED <<chain, recorded, branchCache>> /\ req.at \in {"again", "enrich"} /\ Active(req)
      /\ branchCache # None => branchCache \subseteq Branches
  BY DEF DateList, EnrichBranches, Active, ChainOK, caches
<1>2. CASE req' = Answer(req, "failed")
  BY <1>1, <1>2, Answered
<1>3. ASSUME NEW y, req' = y, DOMAIN y = ReqFields, y.at = "done",
             y.kind = req.kind, y.name = req.name, y.wallet = req.wallet, y.scope = req.scope,
             y.list = req.list, y.asked = req.asked, y.since = req.since, y.tasks = req.tasks,
             y.seen = req.seen, y.lacked = req.lacked, y.source = req.source, y.answer = "listed",
             y.kind = "list" => y.rows = req.rows /\ y.indexed = req.indexed
      PROVE  ReaderInv'
  <2>1. Shape(y) /\ Asks(y) /\ TasksOK(y) /\ Current(y, pointer, held) /\ Begun(y, pointer, recorded)
    BY <1>1, <1>3 DEF InOrder, Shape, Asks, TasksOK, Current, Active, Begun
  <2>2. InScope(y, recorded) = InScope(req, recorded)
    BY <1>3 DEF InScope
  <2>3. Ended(y, recorded)
    BY <1>3, <2>2 DEF InOrder, Ended, Kept
  <2> QED
    BY <1>1, <1>3, <2>1, <2>3, RequestMoves DEF InOrder
<1>4. DOMAIN req = ReqFields
  BY DEF InOrder, Shape
<1>5. CASE DateList
  <2>1. PICK stale \in BOOLEAN : req' = [Answer(req, "listed") EXCEPT !.stale = stale]
    BY <1>5 DEF DateList
  <2> DEFINE y == [Answer(req, "listed") EXCEPT !.stale = stale]
  <2>2. /\ DOMAIN y = ReqFields /\ y.at = "done" /\ y.kind = req.kind /\ y.name = req.name
        /\ y.wallet = req.wallet /\ y.scope = req.scope /\ y.list = req.list /\ y.asked = req.asked
        /\ y.since = req.since /\ y.tasks = req.tasks /\ y.seen = req.seen /\ y.lacked = req.lacked
        /\ y.source = req.source /\ y.answer = "listed" /\ y.rows = req.rows /\ y.indexed = req.indexed
    BY <1>4 DEF ReqFields, Answer
  <2>3. req' = y
    BY <2>1
  <2> HIDE DEF y
  <2> QED
    BY <1>3, <2>2, <2>3
<1>6. CASE EnrichBranches /\ req' = [Answer(req, "listed") EXCEPT !.rows = Listing(req)]
  <2> DEFINE rows == Listing(req)
             y == [Answer(req, "listed") EXCEPT !.rows = rows]
  <2>1. req' = y
    BY <1>6
  <2> HIDE DEF rows
  <2>2. /\ DOMAIN y = ReqFields /\ y.at = "done" /\ y.kind = req.kind /\ y.name = req.name
        /\ y.wallet = req.wallet /\ y.scope = req.scope /\ y.list = req.list /\ y.asked = req.asked
        /\ y.since = req.since /\ y.tasks = req.tasks /\ y.seen = req.seen /\ y.lacked = req.lacked
        /\ y.source = req.source /\ y.answer = "listed"
    BY <1>4 DEF ReqFields, Answer
  <2> HIDE DEF y
  <2>3. req.kind = "branches"
    BY <1>6 DEF EnrichBranches, InOrder, Begun
  <2> QED
    BY <1>3, <2>1, <2>2, <2>3
<1> QED
  BY <1>2, <1>5, <1>6 DEF EnrichBranches

\* All lookups have ended: what none of them found has been denied.
LEMMA ConcludeStep ==
  ASSUME ReaderInv, Conclude
  PROVE  ReaderInv'
<1> USE DEF ReaderInv
<1>1. /\ UNCHANGED <<chain, recorded, branchCache>> /\ req.at = "tasks" /\ Active(req) /\ Busy(req) = {}
      /\ branchCache # None => branchCache \subseteq Branches
  BY DEF Conclude, Same, Active, ChainOK, caches
<1>2. /\ DOMAIN req = ReqFields /\ Shape(req) /\ Asks(req) /\ TasksOK(req) /\ Begun(req, pointer, recorded)
      /\ Current(req, pointer, held) /\ Ended(req, recorded)
  BY DEF InOrder, Shape
<1>3. ASSUME NEW n \in Names, n \notin Found(req), req.tasks[n].at # "off" PROVE <<n, None>> \in req.seen
  <2>1. req.tasks[n].at = "denied"
    BY <1>1, <1>2, <1>3 DEF Busy, Found, Shape, Stages
  <2> QED
    BY <1>2, <2>1 DEF TasksOK
<1>4. CASE req.kind # "list"
  <2>1. req' = Answer(req, IF Found(req) = {} THEN "none" ELSE "identity")
    BY <1>4 DEF Conclude
  <2>2. req.kind \in {"name", "badge", "wallet"}
    BY <1>1, <1>2, <1>4 DEF Begun
  <2>3. ASSUME Found(req) = {} PROVE DenialOK(req)
    <3>1. req.kind = "name" => <<req.name, None>> \in req.seen \/ req.tasks[req.name].at = "off"
      BY <1>2, <1>3, <2>3 DEF Asks
    <3>2. req.kind = "badge" => \A b \in req.since : <<<<b, req.asked>>, None>> \in req.seen
      <4> SUFFICES ASSUME req.kind = "badge", NEW b \in req.since PROVE <<<<b, req.asked>>, None>> \in req.seen
        OBVIOUS
      <4>1. <<b, req.asked>> \in Names /\ req.tasks[<<b, req.asked>>].at # "off"
        BY <1>1, <1>2 DEF Asks, Begun, Names
      <4> QED
        BY <1>3, <2>3, <4>1
    <3>3. req.kind = "wallet" => <<<<req.scope, req.asked>>, None>> \in req.seen
      <4> SUFFICES ASSUME req.kind = "wallet" PROVE <<<<req.scope, req.asked>>, None>> \in req.seen
        OBVIOUS
      <4>1. <<req.scope, req.asked>> \in Names /\ req.tasks[<<req.scope, req.asked>>].at # "off"
        BY <1>1, <1>2 DEF Begun, Names
      <4> QED
        BY <1>3, <2>3, <4>1
    <3> QED
      BY <3>1, <3>2, <3>3 DEF DenialOK
  <2>4. CASE Found(req) = {}
    BY <1>1, <2>1, <2>2, <2>3, <2>4, Answered
  <2>5. CASE Found(req) # {}
    BY <1>1, <2>1, <2>5, Answered
  <2> QED
    BY <2>4, <2>5
<1>5. CASE req.kind = "list" /\ Found(req) = {}
  <2> DEFINE y == IndexAlone(req)
  <2>1. /\ DOMAIN y = ReqFields /\ y.kind = req.kind /\ y.name = req.name /\ y.wallet = req.wallet
        /\ y.list = req.list /\ y.since = req.since /\ y.tasks = req.tasks /\ y.seen = req.seen
        /\ y.lacked = req.lacked /\ y.answer = req.answer /\ y.at = "again" /\ y.source = "indexer"
    BY <1>2 DEF ReqFields, IndexAlone
  <2>2. req' = y
    BY <1>5 DEF Conclude
  <2> HIDE DEF y
  <2> QED
    BY <1>1, <1>5, <2>1, <2>2, IndexOK
<1>6. CASE req.kind = "list" /\ Found(req) # {}
  <2> DEFINE rows == Merged(req)
             y == [req EXCEPT !.at = "again", !.rows = rows, !.source = "chain"]
  <2>1. req' = y
    BY <1>6 DEF Conclude
  <2> HIDE DEF rows
  <2>2. /\ DOMAIN y = ReqFields /\ y.kind = "list" /\ y.name = req.name /\ y.wallet = req.wallet
        /\ y.scope = req.scope /\ y.list = req.list /\ y.since = req.since /\ y.tasks = req.tasks
        /\ y.seen = req.seen /\ y.lacked = req.lacked /\ y.answer = req.answer /\ y.at = "again"
        /\ y.source = "chain" /\ y.rows = rows /\ y.indexed = req.indexed
    BY <1>2, <1>6 DEF ReqFields
  <2> HIDE DEF y
  <2>3. Shape(y) /\ Asks(y) /\ TasksOK(y) /\ Current(y, pointer, held) /\ Begun(y, pointer, recorded)
    BY <1>1, <1>2, <1>6, <2>2 DEF Shape, Asks, TasksOK, Current, Active, Begun
  <2>4. /\ \A n \in Found(req) : <<n, req.tasks[n].owner>> \in rows
        /\ \A r \in rows : \/ \E n \in Found(req) : r = <<n, req.tasks[n].owner>>
                           \/ r \in req.indexed /\ r[1] \notin Found(req)
    BY DEF rows, Merged, Verified
  <2>5. ASSUME NEW n \in InScope(y, recorded), n[1] \in req.since, <<n, None>> \notin req.seen
        PROVE  n \in Found(req)
    <3>1. n \in Names /\ n \in InScope(req, recorded)
      BY <2>2 DEF InScope, ChainOK
    <3>2. req.tasks[n].at # "off"
      BY <1>1, <1>2, <1>6, <2>5, <3>1 DEF Begun
    <3> QED
      BY <1>3, <2>5, <3>1, <3>2
  <2>6. ASSUME NEW n \in InScope(y, recorded), n[1] \in y.since, <<n, None>> \notin y.seen
        PROVE  \E r \in y.rows : r[1] = n
    <3>1. <<n, req.tasks[n].owner>> \in y.rows
      BY <2>2, <2>4, <2>5, <2>6
    <3> QED
      BY <3>1
  <2>8. ASSUME NEW r \in y.rows PROVE r \in y.seen \/ Kept(r, y, recorded)
    <3>1. CASE \E n \in Found(req) : r = <<n, req.tasks[n].owner>>
      BY <1>2, <2>2, <3>1 DEF Found, TasksOK
    <3>2. CASE r \in req.indexed /\ r[1] \notin Found(req)
      BY <2>2, <2>5, <3>2 DEF Kept
    <3> QED
      BY <2>2, <2>4, <3>1, <3>2
  <2>7. Ended(y, recorded)
    BY <1>1, <1>2, <2>2, <2>6, <2>8 DEF Ended
  <2> QED
    BY <1>1, <2>1, <2>3, <2>7, RequestMoves DEF InOrder
<1> QED
  BY <1>4, <1>5, <1>6

----------------------------------------------------------------------------
(* The theorems *)

LEMMA NextInv == ReaderInv /\ [Next]_vars => ReaderInv'
<1> SUFFICES ASSUME ReaderInv, [Next]_vars PROVE ReaderInv'
  OBVIOUS
<1>1. CASE Ask
  BY <1>1, AskStep
<1>2. CASE Serve
  BY <1>2, ReadOrgStep, ReadBranchesStep, ReadPointerStep, ReadLabelStep, ReadNameStep, ListStep,
     DateStep, ConcludeStep DEF Serve
<1>3. CASE World
  <2>1. CASE IndexAdvances \/ IndexStops \/ CachesExpire
    <3>1. /\ UNCHANGED <<chain, recorded, req>> /\ (branchCache' # None => branchCache' = branchCache)
      BY <2>1 DEF IndexAdvances, IndexStops, CachesExpire, caches
    <3>2. req' = req /\ InOrder(req, pointer, held, recorded) /\ (branchCache' # None => branchCache' \subseteq Branches)
      BY <3>1 DEF ReaderInv, ChainOK
    <3> QED
      BY <3>1, <3>2, RequestMoves
  <2> QED
    BY <1>3, <2>1, ChainMoves DEF World
<1>4. CASE UNCHANGED vars
  BY <1>4 DEF vars, chain, caches, ReaderInv, ChainOK, InOrder
<1> QED
  BY <1>1, <1>2, <1>3, <1>4 DEF Next

LEMMA ReaderInvariant == Spec => []ReaderInv
<1>1. Init => ReaderInv
  BY InitInv
<1>2. ReaderInv /\ [Next]_vars => ReaderInv'
  BY NextInv
<1> QED
  BY <1>1, <1>2, PTL DEF Spec

\* A denial is definite, however reads, transactions and the expiry of caches interleave
\* (resolveIdentity, resolveByWallet, resolveByLabel of read.ts).  A name that is denied
\* was unregistered at some moment of the request, unless the answer of a minute ago, that
\* there is no organization, was still cached; a badge's name was so in every perimeter
\* that was open when the list in hand was read, and a wallet was no member there, or no
\* longer of the first perimeter whose registrar has it in its book.  Perimeters opened
\* since, and memberships behind that first entry, are not asked about.
THEOREM DenialsDefinite == Spec => []DenialIsDefinite
<1>1. ReaderInv => DenialIsDefinite
  BY DEF ReaderInv, InOrder, Ended, DenialOK, DenialIsDefinite
<1> QED
  BY <1>1, ReaderInvariant, PTL

\* The rows of a list from the chain show owners the names had at some moment of the
\* request; a row of the index is kept only when its name is not recorded, is of a
\* perimeter not in the list in hand, or had no owner at such a moment (getMemberships in
\* read.ts).
THEOREM OwnersTrue == Spec => []ListedOwnersHeld
<1>1. ReaderInv => ListedOwnersHeld
  BY DEF ReaderInv, InOrder, Ended, Kept, ListedOwnersHeld, FromChain, Candidates
<1> QED
  BY <1>1, ReaderInvariant, PTL

\* A list from the chain has every recorded name that had an owner throughout the
\* request, of the perimeters that were open when the list of them in hand was read,
\* whatever the index says of it (fromCandidates in read.ts).
THEOREM RecordedListed == Spec => []RecordedIsListed
<1>1. ReaderInv => RecordedIsListed
  BY DEF ReaderInv, InOrder, Ended, RecordedIsListed, FromChain, Candidates
<1> QED
  BY <1>1, ReaderInvariant, PTL
=============================================================================
