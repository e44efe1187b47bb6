------------------------------- MODULE Wizard -------------------------------
(***************************************************************************)
(* Creating an organisation (web/components/create/Wizard.tsx and the      *)
(* hooks useOrgName, useOrgSetup and useEnsWrites): one browser page takes *)
(* a wallet through name, contracts, first branch and first groups.        *)
(*                                                                         *)
(* The page is one JavaScript thread, but reads of the chain are answered  *)
(* late and in any order, a transaction is mined some time after the       *)
(* wallet sent it, the wallet may refuse, the wait for a receipt may be    *)
(* given up, the owner may switch accounts or reload the page.             *)
(***************************************************************************)
EXTENDS Chain, FiniteSets

CONSTANTS
  Batching,      \* wallets that execute several calls as one transaction
  MaxMishaps,    \* bound: refusals, waits given up, reads that failed, changes
                 \* of account and reloads, together
  MaxReads,      \* bound: lookups of one kind in flight
  MaxPending     \* bound: transactions sent and not yet mined

ASSUME WizardAssumption ==
  /\ Batching \subseteq Wallets
  /\ {MaxMishaps, MaxReads, MaxPending} \subseteq Nat

VARIABLES
  chain, mempool,      \* external; mempool: transactions sent and not yet mined
  step, orgName, org, registrar,       \* Wizard
  wallet, onSepolia,                   \* useAccount
  query, status, lookups, roots,       \* NameStep
  setup, refreshes, batch,             \* SetupStep
  typed, free, asks,                   \* BranchStep
  drafts, editing, outcomes,           \* GroupsStep
  jobs,                \* what the page is sending: one loop of SetupStep, one of the others
  cut,                 \* history: names whose deployment failed half-way
  reverted,            \* history: <<registrar, group>> whose definition reverted
  mishaps

shell == <<step, orgName, org, registrar>>
account == <<wallet, onSepolia>>
naming == <<query, status, lookups, roots>>
setting == <<setup, refreshes, batch>>
opening == <<typed, free, asks>>
listing == <<drafts, editing, outcomes>>
history == <<cut, reverted>>
wizardVars == <<chain, mempool, shell, account, naming, setting, opening, listing, jobs, history, mishaps>>

Slots == {"setup", "page"}
\* todo: the transactions still to send, each a sequence of calls; at: the fate
\* of the one that was sent last; ran: the groups whose receipt came.
Idle == [kind |-> "idle", todo |-> <<>>, at |-> "unsent", ran |-> {}]
Job(kind, todo) == [Idle EXCEPT !.kind = kind, !.todo = todo]
Busy(k) == jobs[k].kind # "idle"
Mishap == mishaps < MaxMishaps /\ mishaps' = mishaps + 1

----------------------------------------------------------------------------
(* The steps' first states: a step that is left is unmounted. *)

NamingReset == /\ query' = None /\ status' = [state |-> "idle", label |-> None]
               /\ lookups' = {} /\ roots' = {}
SettingReset == setup' = "unknown" /\ refreshes' = {} /\ batch' = "none"
OpeningReset == typed' = None /\ free' = "unknown" /\ asks' = {}
ListingReset == drafts' = <<>> /\ editing' = 0 /\ outcomes' = [g \in Groups |-> "none"]

WizardInit ==
  /\ \E owner \in [Labels -> Wallets \union {None}] : chain = Genesis(owner)
  /\ mempool = <<>>
  /\ step = "connect" /\ orgName = None /\ org = None /\ registrar = None
  /\ wallet = None /\ onSepolia = FALSE
  /\ query = None /\ status = [state |-> "idle", label |-> None] /\ lookups = {} /\ roots = {}
  /\ setup = "unknown" /\ refreshes = {} /\ batch = "none"
  /\ typed = None /\ free = "unknown" /\ asks = {}
  /\ drafts = <<>> /\ editing = 0 /\ outcomes = [g \in Groups |-> "none"]
  /\ jobs = [k \in Slots |-> Idle]
  /\ cut = {} /\ reverted = {}
  /\ mishaps = 0

----------------------------------------------------------------------------
(* The wallet *)

Connect(w, right) ==
  /\ step = "connect" /\ wallet = None
  /\ wallet' = w /\ onSepolia' = right
  /\ UNCHANGED <<chain, mempool, shell, naming, setting, opening, listing, jobs, history, mishaps>>

Disconnect ==
  /\ step = "connect" /\ wallet # None
  /\ wallet' = None /\ onSepolia' = FALSE
  /\ UNCHANGED <<chain, mempool, shell, naming, setting, opening, listing, jobs, history, mishaps>>

SwitchChain ==
  /\ step = "connect" /\ wallet # None /\ ~onSepolia
  /\ onSepolia' = TRUE
  /\ UNCHANGED <<wallet, chain, mempool, shell, naming, setting, opening, listing, jobs, history,
                 mishaps>>

ConnectDone ==
  /\ step = "connect" /\ wallet # None /\ onSepolia
  /\ step' = "name"
  /\ UNCHANGED <<orgName, org, registrar, account, chain, mempool, naming, setting, opening,
                 listing, jobs, history, mishaps>>

----------------------------------------------------------------------------
(* NameStep, useOrgName, useOwnedNames *)

Lookup(l, w) == [label |-> l, by |-> w, got |-> "asked"]

\* check(): the wallet is the one connected when the lookup starts.
Check(l, w) == /\ Cardinality(lookups) < MaxReads
               /\ status' = [state |-> "checking", label |-> None]
               /\ lookups' = lookups \union {Lookup(l, w)}

TypeName(l) ==
  /\ step = "name" /\ l # query
  /\ query' = l /\ Check(l, wallet)
  /\ UNCHANGED <<roots, chain, mempool, shell, account, setting, opening, listing, jobs, history,
                 mishaps>>

Unregistered(l) == chain.owner[l] = None

NameAnswer(x) == CASE Unregistered(x.label) -> "available"
                   [] chain.owner[x.label] = x.by -> "yours"
                   [] OTHER -> "taken"

AnswerLookup(x) ==
  /\ x \in lookups /\ x.got = "asked"
  /\ lookups' = (lookups \ {x}) \union {[x EXCEPT !.got = NameAnswer(x)]}
  /\ UNCHANGED <<query, status, roots, chain, mempool, shell, account, setting, opening, listing,
                 jobs, history, mishaps>>

LandLookup(x) ==
  /\ x \in lookups
  /\ lookups' = lookups \ {x}
  /\ \/ /\ x.got # "asked"
        /\ status' = [state |-> x.got, label |-> x.label]
        /\ UNCHANGED mishaps
     \/ /\ Mishap
        /\ status' = [state |-> "invalid", label |-> None]
  /\ UNCHANGED <<query, roots, chain, mempool, shell, account, setting, opening, listing, jobs,
                 history>>

\* The names of a wallet, by an index which may lag.
OwnedBy(w) == SUBSET {l \in Labels : chain.owner[l] = w}

LoadOwned ==
  /\ step = "name"
  /\ roots' \in OwnedBy(wallet)
  /\ UNCHANGED <<query, status, lookups, chain, mempool, shell, account, setting, opening, listing,
                 jobs, history, mishaps>>

\* External: somebody registers the name in the ENS app.
RegisterName(l, w) ==
  /\ step = "name" /\ Unregistered(l)
  /\ chain' = [chain EXCEPT !.owner[l] = w]
  /\ UNCHANGED <<mempool, shell, account, naming, setting, opening, listing, jobs, history, mishaps>>

Recheck ==
  /\ step = "name" /\ status.state = "available"
  /\ Check(query, wallet)
  /\ UNCHANGED <<query, roots, chain, mempool, shell, account, setting, opening, listing, jobs,
                 history, mishaps>>

\* The names with a button: those listed, and the one found to be the wallet's.
OffersName(l) == step = "name" /\ (l \in roots \/ status = [state |-> "yours", label |-> l])

UseName(l) ==
  /\ OffersName(l)
  /\ step' = "setup" /\ orgName' = l
  /\ refreshes' = {[at |-> "asked", last |-> FALSE]}
  /\ NamingReset
  /\ UNCHANGED <<org, registrar, setup, batch, chain, mempool, account, opening, listing, jobs,
                 history, mishaps>>

\* The account changes under the page; the name is looked up again for it.
SwitchAccount(w) ==
  /\ wallet \notin {None, w} /\ step # "connect" /\ Mishap
  /\ wallet' = w
  /\ IF step = "name" /\ query # None THEN Check(query, w) ELSE UNCHANGED <<status, lookups>>
  /\ UNCHANGED <<onSepolia, query, roots, chain, mempool, shell, setting, opening, listing, jobs,
                 history>>

----------------------------------------------------------------------------
(* SetupStep, useOrgSetup: what exists already *)

Refresh(at, last) == [at |-> at, last |-> last]

\* A mistake: the contracts exist, so the name is taken to point at them.
PointedOnceDeployed(l) == chain.creator[l] # None

\* Of the two pointers, the registry alone is looked at.
Pointed(l) == chain.sub[l] = l

\* refresh() reads the factory first, and the pointer only if there are
\* contracts.
ReadSetup(x) ==
  /\ x \in refreshes
  /\ LET l == orgName
         next == CASE x.at = "asked" -> IF chain.creator[l] = None THEN "none" ELSE "found"
                   [] x.at = "found" -> IF Pointed(l) THEN "pointed" ELSE "unpointed"
     IN  /\ x.at \in {"asked", "found"}
         /\ refreshes' = (refreshes \ {x}) \union {Refresh(next, x.last)}
  /\ UNCHANGED <<setup, batch, chain, mempool, shell, account, naming, opening, listing, jobs,
                 history, mishaps>>

\* The answer, or an error that leaves what was known; the job that waits for
\* its last refresh is over either way.
LandSetup(x) ==
  /\ x \in refreshes
  /\ refreshes' = refreshes \ {x}
  /\ \/ x.at \in {"none", "pointed", "unpointed"} /\ setup' = x.at /\ UNCHANGED mishaps
     \/ Mishap /\ UNCHANGED setup
  /\ jobs' = IF x.last THEN [jobs EXCEPT !["setup"] = Idle] ELSE jobs
  /\ UNCHANGED <<batch, chain, mempool, shell, account, naming, opening, listing, history>>

Batched == [create |-> "createBatch", define |-> "defineBatch"]

\* One batch where the wallet takes it, else a transaction for each call.
Sending(kind, calls) ==
  IF wallet \in Batching THEN Job(Batched[kind], <<calls>>)
  ELSE Job(kind, [i \in DOMAIN calls |-> <<calls[i]>>])

\* A mistake: nobody takes the permission back.
DeployCallsUnrevoked(l) == <<Call("grant", l, None), Call("create", l, None)>>

DeployCalls(l) == <<Call("grant", l, None), Call("create", l, None), Call("revoke", l, None)>>

\* Deploy is offered until the name points at its contracts, so also when
\* there are contracts already.
OffersDeploy == step = "setup" /\ setup # "pointed" /\ ~Busy("setup")
OffersPoint == step = "setup" /\ setup = "unpointed" /\ ~Busy("setup")

\* create(): one batch, or the same three one at a time.
Deploy ==
  /\ OffersDeploy
  /\ jobs' = [jobs EXCEPT !["setup"] = Sending("create", DeployCalls(orgName))]
  /\ UNCHANGED <<chain, mempool, shell, account, naming, setting, opening, listing, history, mishaps>>

PointCalls(l) == << <<Call("setSub", l, l)>>, <<Call("setRes", l, l)>> >>

PointName ==
  /\ OffersPoint
  /\ jobs' = [jobs EXCEPT !["setup"] = Job("point", PointCalls(orgName))]
  /\ UNCHANGED <<chain, mempool, shell, account, naming, setting, opening, listing, history, mishaps>>

\* The batch landed: the hook refreshes.  A batch that failed is not reported.
BatchLanded ==
  /\ batch = "ok" /\ step = "setup"
  /\ batch' = "none"
  /\ refreshes' = refreshes \union {Refresh("asked", FALSE)}
  /\ UNCHANGED <<setup, chain, mempool, shell, account, naming, opening, listing, jobs, history,
                 mishaps>>

\* Continue does not ask whether the deployment is still being sent.
SetupDone ==
  /\ step = "setup" /\ setup = "pointed"
  /\ org' = orgName /\ step' = "branch"
  /\ SettingReset
  /\ jobs' = [jobs EXCEPT !["setup"] = IF @.todo = <<>> THEN Idle ELSE @]
  /\ UNCHANGED <<orgName, registrar, chain, mempool, account, naming, opening, listing, history,
                 mishaps>>

----------------------------------------------------------------------------
(* BranchStep *)

TypeBranch(b) ==
  /\ step = "branch" /\ b # typed /\ Cardinality(asks) < MaxReads
  /\ typed' = b /\ free' = "unknown"
  /\ asks' = asks \union {[label |-> b, got |-> "asked"]}
  /\ UNCHANGED <<chain, mempool, shell, account, naming, setting, listing, jobs, history, mishaps>>

BranchFree(o, b) == chain.branch[<<o, b>>] = None

AnswerAsk(x) ==
  /\ x \in asks /\ x.got = "asked"
  /\ asks' = (asks \ {x}) \union {[x EXCEPT !.got = IF BranchFree(org, x.label) THEN "yes" ELSE "no"]}
  /\ UNCHANGED <<typed, free, chain, mempool, shell, account, naming, setting, listing, jobs,
                 history, mishaps>>

\* The answer is shown for whatever is typed by now.
LandAsk(x) ==
  /\ x \in asks
  /\ asks' = asks \ {x}
  /\ \/ x.got # "asked" /\ free' = x.got /\ UNCHANGED mishaps
     \/ Mishap /\ free' = "failed"
  /\ UNCHANGED <<typed, chain, mempool, shell, account, naming, setting, listing, jobs, history>>

\* A check that failed does not stop anybody: the registry decides.
OffersOpen == step = "branch" /\ typed # None /\ free # "no" /\ org # None /\ ~Busy("page")

OpenBranch ==
  /\ OffersOpen
  /\ jobs' = [jobs EXCEPT !["page"] = Job("branch", << <<Call("branch", org, typed)>> >>)]
  /\ UNCHANGED <<chain, mempool, shell, account, naming, setting, opening, listing, history, mishaps>>

\* Skip is offered while a branch is being opened, too.
SkipBranch ==
  /\ step = "branch"
  /\ step' = "groups"
  /\ OpeningReset
  /\ UNCHANGED <<orgName, org, registrar, chain, mempool, account, naming, setting, listing, jobs,
                 history, mishaps>>

----------------------------------------------------------------------------
(* GroupsStep: the list *)

Duplicate(g) == \E i \in DOMAIN drafts : drafts[i].name = g /\ drafts[i].id # editing
IsDefined(d) == outcomes[d.name] = "defined"

\* The groups still to define, in the order of the list, among its first n.
PendingOf[n \in 0..Len(drafts)] ==
  IF n = 0 THEN <<>>
  ELSE IF IsDefined(drafts[n]) THEN PendingOf[n - 1] ELSE Append(PendingOf[n - 1], drafts[n])

Pending == PendingOf[Len(drafts)]
SomeDefined == \E i \in DOMAIN drafts : IsDefined(drafts[i])
FreshId == CHOOSE id \in 1..(Len(drafts) + 1) : \A i \in DOMAIN drafts : drafts[i].id # id

\* The form below the list.
OffersCommit(g) == step = "groups" /\ ~Duplicate(g)

CommitDraft(g) ==
  /\ OffersCommit(g)
  /\ drafts' = IF editing = 0 THEN Append(drafts, [id |-> FreshId, name |-> g])
               ELSE [i \in DOMAIN drafts |->
                       IF drafts[i].id = editing THEN [drafts[i] EXCEPT !.name = g] ELSE drafts[i]]
  /\ editing' = 0
  /\ UNCHANGED <<outcomes, chain, mempool, shell, account, naming, setting, opening, jobs, history,
                 mishaps>>

\* A row of the list can be edited or removed until its group is defined, also
\* while it is being sent.
OffersChange(i) == ~IsDefined(drafts[i])

\* Opening the editor, or emptying it (Cancel, blank, a preset).
EditDraft(id) ==
  /\ step = "groups" /\ id # editing
  /\ id = 0 \/ \E i \in DOMAIN drafts : drafts[i].id = id /\ OffersChange(i)
  /\ editing' = id
  /\ UNCHANGED <<drafts, outcomes, chain, mempool, shell, account, naming, setting, opening, jobs,
                 history, mishaps>>

RemoveDraft(i) ==
  /\ step = "groups" /\ i \in DOMAIN drafts /\ OffersChange(i)
  /\ drafts' = RemoveAt(drafts, i)
  /\ editing' = IF editing = drafts[i].id THEN 0 ELSE editing
  /\ UNCHANGED <<outcomes, chain, mempool, shell, account, naming, setting, opening, jobs, history,
                 mishaps>>

\* defineGroups: what is pending, as one batch or one after the other.
OffersDefine == step = "groups" /\ registrar # None /\ Pending # <<>> /\ ~Busy("page")

DefineGroups ==
  /\ OffersDefine
  /\ LET calls == [i \in DOMAIN Pending |-> Call("define", registrar, Pending[i].name)]
     IN  jobs' = [jobs EXCEPT !["page"] = Sending("define", calls)]
  /\ UNCHANGED <<chain, mempool, shell, account, naming, setting, opening, listing, history, mishaps>>

GroupsDone ==
  /\ step = "groups" /\ SomeDefined
  /\ step' = "done"
  /\ ListingReset
  /\ UNCHANGED <<orgName, org, registrar, chain, mempool, account, naming, setting, opening, jobs,
                 history, mishaps>>

----------------------------------------------------------------------------
(* Sending: the loops of useOrgSetup and useEnsWrites *)

Defining(k) == jobs[k].kind \in {"define", "defineBatch"}

\* The wallet signs the next transaction.  A batched deployment is not waited
\* for by its loop: its fate comes through useWaitForCallsStatus.
Send(k) ==
  /\ Busy(k) /\ jobs[k].at = "unsent" /\ jobs[k].todo # <<>> /\ wallet # None
  /\ Len(mempool) < MaxPending
  /\ LET entry(to) == [calls |-> Head(jobs[k].todo), by |-> wallet, to |-> to]
     IN  IF jobs[k].kind = "createBatch"
         THEN /\ mempool' = Append(mempool, entry("batch"))
              /\ batch' = "pending"
              /\ jobs' = [jobs EXCEPT ![k] = Idle]
         ELSE /\ mempool' = Append(mempool, entry(k))
              /\ jobs' = [jobs EXCEPT ![k].at = "sent"]
              /\ UNCHANGED batch
  /\ UNCHANGED <<chain, shell, account, naming, setup, refreshes, opening, listing, history, mishaps>>

NamesIn(calls) == {calls[i].arg : i \in DOMAIN calls}

\* A mistake: a group is noted as defined when it is sent.
OutcomeNotedEarly(k, g) ==
  LET todo == jobs[k].todo
  IN  CASE g \in jobs[k].ran \union NamesIn(Head(todo)) -> "defined"
        [] \E i \in 2..Len(todo) : g \in NamesIn(todo[i]) -> "skipped"
        [] OTHER -> outcomes[g]

\* What a loop that stops at its first failure reports of a group.
OutcomeOf(k, g) ==
  LET todo == jobs[k].todo
  IN  CASE g \in jobs[k].ran -> "defined"
        [] g \in NamesIn(Head(todo)) -> "failed"
        [] \E i \in 2..Len(todo) : g \in NamesIn(todo[i]) -> "skipped"
        [] OTHER -> outcomes[g]

Stopped(k) ==
  /\ jobs' = [jobs EXCEPT ![k] = Idle]
  /\ outcomes' = IF Defining(k) /\ step = "groups"
                 THEN [g \in Groups |-> OutcomeOf(k, g)]
                 ELSE outcomes
  /\ cut' = IF jobs[k].kind = "create" THEN cut \union {orgName} ELSE cut

\* Refused by the user or by the wallet's estimate.
Refuse(k) ==
  /\ Busy(k) /\ jobs[k].at = "unsent" /\ jobs[k].todo # <<>>
  /\ Mishap /\ Stopped(k)
  /\ UNCHANGED <<chain, mempool, shell, account, naming, setting, opening,
                 drafts, editing, reverted>>

Unwatched(k) == [i \in DOMAIN mempool |->
                   IF mempool[i].to = k THEN [mempool[i] EXCEPT !.to = "nobody"] ELSE mempool[i]]

\* The wait for the receipt times out or its RPC fails; the transaction stays.
GiveUp(k) ==
  /\ Busy(k) /\ jobs[k].at = "sent"
  /\ Mishap /\ Stopped(k)
  /\ mempool' = Unwatched(k)
  /\ UNCHANGED <<chain, shell, account, naming, setting, opening, drafts,
                 editing, reverted>>

\* External: the oldest transaction is mined, and takes effect or reverts.
Mine ==
  /\ mempool # <<>>
  /\ LET t == Head(mempool)
         done == Transact(chain, t.calls, t.by)
         fate == IF done.ok THEN "ok" ELSE "reverted"
     IN  /\ chain' = done.chain
         /\ jobs' = IF t.to \in Slots THEN [jobs EXCEPT ![t.to].at = fate] ELSE jobs
         /\ batch' = IF t.to = "batch" THEN fate ELSE batch
         /\ cut' = IF t.to = "setup" /\ ~done.ok THEN cut \union {t.calls[1].label} ELSE cut
         /\ reverted' = IF t.calls[1].op = "define" /\ ~done.ok
                        THEN reverted \union {<<t.calls[i].label, t.calls[i].arg>> : i \in DOMAIN t.calls}
                        ELSE reverted
  /\ mempool' = Tail(mempool)
  /\ UNCHANGED <<shell, account, naming, setup, refreshes, opening, listing, mishaps>>

\* A loop that waits for a receipt does not look at its status: a reverted
\* transaction counts as one that went through.
Receipt(k) ==
  /\ Busy(k) /\ jobs[k].at \in {"ok", "reverted"} /\ jobs[k].kind # "branch"
  /\ ~(jobs[k].kind = "defineBatch" /\ jobs[k].at = "reverted")
  /\ LET ran == IF Defining(k) THEN jobs[k].ran \union NamesIn(Head(jobs[k].todo)) ELSE {}
         rest == Tail(jobs[k].todo)
         more == [jobs EXCEPT ![k] = [@ EXCEPT !.todo = rest, !.at = "unsent", !.ran = ran]]
         over == [jobs EXCEPT ![k] = Idle]
     IN  CASE rest # <<>> -> jobs' = more /\ UNCHANGED <<outcomes, refreshes>>
           [] rest = <<>> /\ Defining(k) ->
                /\ jobs' = over
                /\ outcomes' = IF step # "groups" THEN outcomes
                               ELSE [g \in Groups |-> IF g \in ran THEN "defined" ELSE outcomes[g]]
                /\ UNCHANGED refreshes
           [] rest = <<>> /\ ~Defining(k) /\ step = "setup" ->
                /\ jobs' = more
                /\ refreshes' = refreshes \union {Refresh("asked", TRUE)}
                /\ UNCHANGED outcomes
           [] OTHER -> jobs' = over /\ UNCHANGED <<outcomes, refreshes>>
  /\ UNCHANGED <<chain, mempool, shell, account, naming, setup, batch, opening, drafts, editing,
                 history, mishaps>>

\* waitForCallsStatus does look: the batch of groups failed as a whole.
BatchFailed(k) ==
  /\ jobs[k].kind = "defineBatch" /\ jobs[k].at = "reverted"
  /\ Stopped(k)
  /\ UNCHANGED <<chain, mempool, shell, account, naming, setting, opening, drafts, editing,
                 reverted, mishaps>>

\* createBranch finds the registrar in the receipt's BranchCreated; without it
\* it throws.  The page goes on to the groups, whatever it shows by now.
BranchReceipt ==
  /\ jobs["page"].kind = "branch"
  /\ \/ /\ jobs["page"].at = "ok"
        /\ LET c == Head(jobs["page"].todo)[1] IN registrar' = <<c.label, c.arg>>
        /\ step' = "groups"
        /\ OpeningReset
     \/ jobs["page"].at = "reverted" /\ UNCHANGED <<step, registrar, opening>>
  /\ jobs' = [jobs EXCEPT !["page"] = Idle]
  /\ UNCHANGED <<orgName, org, chain, mempool, account, naming, setting, listing, history, mishaps>>

\* The page is loaded anew: what it had sent stays sent.
Reload ==
  /\ step # "connect" /\ Mishap
  /\ step' = "connect" /\ orgName' = None /\ org' = None /\ registrar' = None
  /\ wallet' = None /\ onSepolia' = FALSE
  /\ NamingReset /\ SettingReset /\ OpeningReset /\ ListingReset
  /\ jobs' = [k \in Slots |-> Idle]
  /\ mempool' = [i \in DOMAIN mempool |-> [mempool[i] EXCEPT !.to = "nobody"]]
  /\ cut' = IF jobs["setup"].kind = "create" THEN cut \union {orgName} ELSE cut
  /\ UNCHANGED <<chain, reverted>>

----------------------------------------------------------------------------

WalletStep == \/ \E w \in Wallets, right \in BOOLEAN : Connect(w, right)
              \/ Disconnect \/ SwitchChain \/ ConnectDone
              \/ \E w \in Wallets : SwitchAccount(w)
NameStep == \/ \E l \in Labels : TypeName(l) \/ UseName(l)
            \/ \E x \in lookups : AnswerLookup(x) \/ LandLookup(x)
            \/ LoadOwned \/ Recheck
            \/ \E l \in Labels, w \in Wallets : RegisterName(l, w)
SetupStep == \/ \E x \in refreshes : ReadSetup(x) \/ LandSetup(x)
             \/ Deploy \/ PointName \/ BatchLanded \/ SetupDone
BranchStep == \/ \E b \in BranchLabels : TypeBranch(b)
              \/ \E x \in asks : AnswerAsk(x) \/ LandAsk(x)
              \/ OpenBranch \/ SkipBranch \/ BranchReceipt
GroupsStep == \/ \E g \in Groups : CommitDraft(g)
              \/ \E id \in 0..Len(drafts) : EditDraft(id) \/ RemoveDraft(id)
              \/ DefineGroups \/ GroupsDone
Transactions == \/ \E k \in Slots : Send(k) \/ Refuse(k) \/ GiveUp(k) \/ Receipt(k) \/ BatchFailed(k)
                \/ Mine

WizardNext == WalletStep \/ NameStep \/ SetupStep \/ BranchStep \/ GroupsStep \/ Transactions \/ Reload

WizardSpec == WizardInit /\ [][WizardNext]_wizardVars

----------------------------------------------------------------------------
(* Properties *)

\* The factory may point a name only while its deployment is being sent, or
\* when one was cut short (useOrgSetup.ts:175): no other path of the wizard
\* leaves the permission behind, and none gives it in a batch.
GrantAccounted ==
  \A l \in chain.delegated : l \in cut \/ (l = orgName /\ jobs["setup"].kind = "create")

\* What useOrgSetup.ts:175 says of the sequence: a failure does not leave the
\* grant outstanding.
GrantReturned ==
  \A l \in chain.delegated : l = orgName /\ jobs["setup"].kind = "create"

\* The wizard says "The organization is open" when the chosen name points at
\* its own registry and the branch of its own organisation is open, whatever
\* was refused, given up, reloaded, mined late or answered late before.
DoneIsOpen ==
  step = "done" => /\ org = orgName /\ chain.sub[orgName] = orgName
                   /\ registrar # None /\ registrar[1] = orgName
                   /\ chain.branch[registrar] # None

\* A group is shown as defined only if the branch has it, except when its
\* transaction was mined and reverted (Wizard.tsx:773, useEnsWrites.ts:244).
DefinedIsPublished ==
  step = "groups" => \A g \in Groups : outcomes[g] = "defined" =>
    g \in chain.roles[registrar] \/ <<registrar, g>> \in reverted
=============================================================================
