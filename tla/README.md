# Radius, specified

Radius turns ENS names into network access.  An organisation keeps its branches and members as
ENS subnames on chain; a branch runs a *gateway*: a captive portal that opens the firewall for a
device, and an enforcer that knows groups, users and sessions, relays API requests and counts
quotas.  A console (Next.js) signs people in with their wallet and lets organisers write the chain.

This directory holds TLA+ models of the parts where order, concurrency and failure decide
whether the system is right, the TLC instances that check them, and TLAPS proofs.

## The system

| part | state | operations | talks to |
|---|---|---|---|
| Captive portal, `portal/app.py` | `AUTHED_IPS`, `SESSION_IDS`, `ENS_NAMES`, `_GROUP_CACHE`; iptables FORWARD, mangle, nat; the reaper's `last_seen` | `/login`, `/internal/admit`, `/logout`, `/internal/revoke-ip`, the reaper, startup | enforcer (HTTP, loopback), kernel |
| Enforcer, `proxy/proxy.py`, `db.py` | SQLite: groups, users, sessions, resources, limits, usage, audit | internal API for the portal, admin API, `/proxy/<slug>` | portal (`revoke-ip`), console (`/api/ens/resolve`), upstream APIs |
| Daily quotas, `proxy/rate_limit.py` | three counter tables, limits, adjustments | `check_and_increment`, admin endpoints | enforcer |
| Console sign-in, `web/lib/portal`, `web/app/api/portal` | the `outstanding` map of nonces | `challenge`, `verify`, `admit` | chain (reads), portal (`/internal/admit`) |
| Console mirror, `web/lib/enforcer/mirror.ts`, `web/app/api/ens/mirror` | none of its own | copies groups, members and revocations into the enforcer after reading them from the chain | chain, enforcer admin API |
| Membership reader, `web/lib/ens/read.ts`, `org.ts`, `indexer.ts` | caches | `resolveIdentity`, `resolveByWallet`, `getMemberships`, `getBranches` | chain, index, enforcer's ENS-name inventory |
| Branch registrars, `contracts/src/BranchRegistrarV2.sol` (and V1) | the catalogue of roles, memberships, the keys each was granted | `defineRole`, `retireRole`, `onboard`, `revoke`, `releaseMembership`, `syncMemberKeys`, `setRecord` | ENS registry and resolver, organisation registrar |
| Organisation registrar, `OrgRegistrar.sol` | Member names, organisation-wide roles | `ensureMember`, `setOrgRole` | ENS registry |
| Factories, `OrgFactory.sol`, `BranchFactory.sol` | branches, implementations | `createBranch`, `createOrganization` | ENS registry, registrars |
| Organisation wizard, `components/create/Wizard.tsx`, `useOrgName.ts`, `useOrgSetup.ts`, `useEnsWrites.ts` | the page's step, lookups and drafts; transactions under way | name, deploy, point, open a branch, define groups; resume after a reload | wallet, factories, registrars |
| Console entrance, `ConsoleGate.tsx`, `console-session.ts`, `api/console/session` | two cookies, local storage, what each tab read | choose an organisation and a perimeter, prove ownership, sign out | wallet, chain, index |
| People page, `console/people`, `OnboardForm.tsx` | the form, two lists | onboard a badge, retry the mirror, disable a user | chain, index, mirror route, enforcer |
| Access and resources pages, `console/access`, `console/resources`, `api/admin` relay | what was read, open dialogs, requests | grant, revoke, create, stage, activate, discard, delete | enforcer admin API |
| Other pages, wallet provider (`mitm/`), scraper, deployment | – | – | – |

What is hard, and which property is about it, is the list `hazards` in `PROJECT.json`.  In short:

* the portal is a threaded Flask process; its grant and revoke sections run under `_state_lock`,
  the test for a re-login and the write of `ENS_NAMES` in front of them do not;
* isolation between guests depends on the order of iptables rules that are inserted and deleted
  one by one, first match, over any history of sign-ins, re-logins, revocations and restarts;
* portal and enforcer each keep a table of sessions and tell each other by calls that may time
  out and arrive later, be lost, or cross;
* `check_and_increment` checks three caps and then counts, with nothing locked in between;
* the console consumes a nonce before four awaits during which everything else moves;
* the wizard, the people page and the settings pages act on answers that were read before: lookups
  return late and out of order, transactions are mined after a page gave up on them, wallets are
  switched, several tabs share cookies, a request that timed out is still carried out;
* on chain, memberships, roles and entitlements are changed by long sequences of legal calls.

What makes each part correct: the portal – devices of different people never exchange packets,
every opening belongs to an admission, a revocation removes all of it; the enforcer – its active
sessions are the portal's admissions, nothing points at a deleted row, a request is billed to the
person who is online; quotas – a bounded overrun and counters that agree; sign-in – an admission
rests on one fresh challenge, a signature and ownership, and answers are true; the mirror – it
writes what the chain said during the request; the reader – a denial, an owner and a list were
true of some moment of the request; the wizard – no permission is left behind and what it says is
on the chain is there; the console – only a proved owner operates; the settings – a save changes
what was edited; registrars – a revoked or recycled name carries nothing of its past.

## The plan

1. *(done)* `Portal`, `Enforcer`, their composition `Gateway`; `RateLimit`; `Challenge` and
   `SignIn`, which implements it; `OrgRegistrar` and `Registrar`, which implements `Standing`;
   proofs about `Portal`, `SignIn` and `Registrar`.
2. *(done)* The console: `Wizard` over `Chain`; `Desk` over `Mirror`; `Reader`; `Console`;
   `Settings`; proofs about `Desk`, `Reader`, `Console` and `Settings`.
3. *(done)* Proofs that isolation and the ACCEPT count hold for any number of devices, references and
   agreement in `Gateway`, the overrun bound for any number of threads and the sums of the counters,
   evictions and answers in `SignIn`, saves and empty cells in `Settings`.
4. *(done)* What the wizard says of the chain, as theorems: a batch is the recursive function `Trace`
   of its calls, which can be reasoned about.
5. `Registrar` with onboarding split at the registry's callback and a run for the records the
   branch itself leaves on a name; the groups and perimeter settings pages.

## Modules

| module | models |
|---|---|
| `Portal` | `portal/app.py`: tables, chains, handler threads, reaper, restart |
| `Enforcer` | groups, users, sessions and the handlers of `proxy/proxy.py` that change them |
| `Gateway` | `Portal` and `Enforcer` with the calls between them, lost and late ones included |
| `GatewayProofs` | theorems about `Portal`, then about `Gateway` |
| `RateLimit` | `proxy/rate_limit.py` and the endpoints that change limits, adjustments and counters |
| `RateLimitProofs` | theorems about `RateLimit` |
| `Challenge` | what the console promises about a challenge |
| `SignIn` | nonce map, `/verify` between its awaits, `admit` |
| `Parties` | the wallets, and the absence of one: what `SignIn` and `Wizard` have in common |
| `OrgRegistrar` | Member names and organisation-wide roles (`OrgRegistrar.sol`) |
| `Standing` | what a branch promises about memberships |
| `Registrar` | `BranchRegistrarV2.sol` over the registry and the resolver |
| `RegistrarProofs` | theorems about `Registrar` |
| `Chain` | what the wizard's transactions do to the chain: the factories, the name's pointers, branches, groups |
| `Wizard` | creating an organisation: the page, its hooks, the wallet and the mempool |
| `WalletProofs` | theorems about `SignIn`, then about `Wizard` and `Chain`: what a page makes a wallet sign |
| `Mirror` | the mirror route between chain and enforcer, one await at a time |
| `Desk` | people page, onboarding form and user panel over `Mirror` |
| `DeskProofs` | theorems about `Desk` and `Mirror` |
| `Reader` | what the console and the portal learn from the chain |
| `ReaderProofs` | theorems about `Reader` |
| `Console` | entrance of the console: wallet, organisation, perimeter, sign-in, session cookie |
| `ConsoleProofs` | theorems about `Console` |
| `Settings` | access and resources pages, the relay, the enforcer's grants and upstream keys |
| `SettingsProofs` | theorems about `Settings` |
| `MC...` | instances for TLC, one per module with a run |

### Portal

A step is the code between two points at which somebody else can look.  A request is
`check` (the re-login test) – `revoke`, `forget`, `ended` (revoke_access) – `name` (the write of
`ENS_NAMES`) – `grant`, `rules`, `record`, `created` (grant_access).  `lock` is `_state_lock`;
`rules`, `record`, `created`, `forget` and `ended` are inside it.  The ACCEPT and the DROPs are
separate steps, so the forwarding that is possible between them is visible.  `forward` is the
portal's part of FORWARD as a sequence of rules; `Verdict` is first match with the `DROP` of
`99-ensca` as the default.  An iptables call fails in one of two ways.  One of `_run` raises: a
failed grant (`GrantFail`) is any prefix of those insertions followed by the `except` clause.
One of `_run_ok`, which makes the DROPs and every deletion, is logged and the handler goes on: `Isolate`, `Unisolate`
and `Retract` take the set of rules whose call failed, the session is recorded or forgotten all
the same, and any number of calls of one step fails as one trouble.  Two history variables
remember it: `leaked` counts the deletions of an ACCEPT that failed, `spoilt` has the
directions between two devices for whose DROP a call failed, until the sender leaves.
`StrangersIsolated` and `AcceptsAccounted` say that the damage goes no further than these; without them
neither holds (`EveryUserIsolated` below).  The notifications are records in `calls`: sent with the lock held, the
sender waits until the call is processed or gives up, and the call may be processed later still.
`Restart` is the process dying at any point and `_flush_portal_rules`.

Left to the data: a tier stands for its fwmark, a `tc` rate is no state of the portal, addresses
are well-formed, time is counted in sweeps of the reaper (`TtlSweeps`: 20 s over `sleep(10)`).
The DROPs of one grant are inserted in the order in which TLC enumerates a set; they are all DROPs
and lie above every ACCEPT, so their order decides nothing.

`OneSignInPerIp` is an assumption about guests: a device does not start a sign-in while another
one for its address is in flight.  The properties hold under it; run `portal_race` shows what
happens without it.

### Enforcer and Gateway

Every handler is one SQLite transaction, hence one step; `posts` holds the `revoke-ip` calls that
follow a commit.  A user is named by its username, which the console also writes as `ens_name`.
`logged_in_at` is a stamp of its own (`Stamps`), any of a few values at every grant: the portal
sends `int(time.time())` (`app.py:164`), so two sessions may be stamped alike and the clock may be
set back, and `Billed` is the set of sessions `ORDER BY logged_in_at DESC LIMIT 1` may pick
(`proxy.py:1061`).  `published` is what `/api/ens/resolve` answers for a name; `Reachable` says
whether the console answers.  `Gateway` joins a portal step with the handler that answers it: the
lookup of a sign-in, `group-by-tier` when the cache is empty, the notifications, `revoke-ip`.
Mishaps (a timeout, a lost call, a failed grant, a restart) share the bound `MaxMishaps`.  `astray`
is a history variable: the sessions about which one process has not been told.  It is what the
agreement properties exclude, and it is as narrow as the code allows: a lost or late notification, a
tier without a group, a group deleted under the portal's cache, a user deleted with its sessions, a
restart of the portal.

### RateLimit

One resource.  A thread reads date and limits once (`Begin`), checks a scope per step, and counts
in one transaction (`Bump`).  Adjustments are kept as their sums.  `lowered` and `resets` are
history variables: a bound on use says nothing after an administrator took a cap below the use,
nor the agreement of counters after one of them was deleted.  The bound is said of a device or a name
whose sessions are in one group: one that sits in two has two caps and one counter.

### SignIn and Challenge

The console is one JavaScript process, so a step runs from one await to the next.  Nonces are
numbered in the order of issue, which is the insertion order of the Map.  A request body is any
combination of an issued nonce, a device, a wallet, the wallet that signed, and a name.  `owner` is
the chain: a membership may be transferred or revoked at any time.  The portal answers an admit call
before or after the console's five seconds, and it answers one of `Verdicts`: the handler is in
`app.py:541-574`, where a name that is no member and a lookup that the enforcer did not answer are
the same 403 and a grant that raised is a 500.  The console words each of them as a refusal
(`Reported`), and `ReplyIsTrue` says of a refusal no more than that the portal answered and did not
admit.  Requests without an address, and a console without a portal, never send an admit call and
are left out.  `Challenge` is the abstract promise: challenges are issued to a device, accepted
once, from that device, and may lapse.

### Registrar, OrgRegistrar and Standing

A transaction is a step: `onboard` checks the role, the caller's authority and the label, makes the
Member name (`EnsureMember`), registers, books the membership, writes the role's records and hands
out the record rights.  `membership` is `roleOf`, `memberOf` and `_grantedKeys` by resource;
`membershipOf` the pointer back.  A resource is a label and the number of its registration, which
is what `getResource` tells apart; records and rights (`text`, `may`) sit on the label alone, because
a namehash does not know the number.  That difference is what the properties are about.  Of a record
the model keeps who wrote it: the branch (an entitlement, or `setRecord` by staff) or an account.
`closed` is the clock past `BRANCH_EXPIRY`, when every name of the branch is available and nothing
can be registered.

Registry and resolver are external.  They also move without the registrar: a member writes a record
(`WriteOwn`, whoever has the right may), and a root holder of the registry unregisters or registers
a label (`UnregisterOutside`, `RegisterOutside`; `meddled` remembers the labels).  Likewise the
organization's own registry: `_handOver` leaves its owner all rights there (`OrgFactory.sol:237`),
so the owner registers names and unregisters them, a Member's too (`OrgChanges`).  `labelOf` stays
while `getStatus` (`OrgRegistrar.sol:68`) finds the name free, and the next Member may be given it;
`struck` remembers the names.  Other branches appear as `EnrolElsewhere`.  Who holds which verb at
`ROOT_RESOURCE` is a constant (`Root`), a grant for one role another (`Delegates`); the authority to
mint that follows from a membership is `Derived`, as in `_getRoles`.

`CarefulSync` is an assumption about callers: `syncMemberKeys` names every key that it withdraws.
The function deletes `_grantedKeys` first, so a key it is not told of stays writable for the former
holder of the label for ever; `GrantsAgree` fails in the same instance with
`CarefulSync = FALSE`.  `withdrawn` remembers the keys that were taken away: the function does not
clear what was written under them.  What the branch itself wrote is not cleared either when
`defineRole` drops the entitlement before the membership ends, or when staff set it under a key the
role does not list; a test (`RecordPermissions.t.sol:251`) says of a burned name that it does not
hand its profile on, and tries it with an unchanged role.

`Standing` is the abstract book: a person stands at the branch under one label and role or not at
all, a standing begins and ends whole and is never altered, a Member keeps their name for ever, and
no two are given the same one unless the organization struck it from its registry.

### Chain and Wizard

The page is one JavaScript thread, so a step runs from one await to the next.  What it waits for is
explicit: lookups of names (`lookups`), of branch labels (`asks`) and of the set-up (`refreshes`)
that are answered late and in any order, jobs (`jobs`) that send transactions one by one or as a
batch, transactions that the wallet has sent and the chain has not mined (`mempool`).  A chain is a
record, a call takes it to another one (`Executed`) if the contract permits it (`Permits`), a batch
is executed whole or not at all (`Transact`, the end of the `Trace` of its calls).  The wallet
refuses, a wait for a receipt is given up while the transaction is still mined later, a read fails,
the owner switches accounts or reloads the page: these share `MaxMishaps`.  Two reads made with the
contracts of one organisation are one refresh, which is answered at one moment.

`cut` is a history variable: the names whose deployment stopped between the grant of the
permission and its revocation.  A wallet that does not batch leaves the factory's permission behind
then, against the comment at `useOrgSetup.ts:175` (`GrantReturned` does not hold);
`GrantAccounted` says that nothing else does.

### Mirror and Desk

A request to `api/ens/mirror` reads membership, label, role and catalogue and then writes group,
name and user, an await at a time; `posts` has one request per origin (the form, its retry, the
people page, anybody else).  The chain moves in between (`OnboardElsewhere`, `Revoke`, and
`ChangeRole`, which defines or retires a role), the cached catalogue of roles expires, any read or
call fails, an operator deletes a row (`DeleteUser`).  `fact` is a history variable of a request:
what it names was so on the chain at some moment of it; of a revocation, that nobody held the
label.  `NothingOnTrust` is about members and groups: a revocation names a label and a wallet, and
the route asks only whether the wallet has a membership.  A deleted row answers 404 to a request
that has its id (`gone`); `erased` remembers that the row of the name the form calls live was
deleted.  `Desk` adds the onboarding form (the scan, the delayed and uncancelled check of the label,
the transaction and its receipt, the sync and its retry, changes of badge in the middle of all of
these) and the people page with its two lists, each of which may come from a lagging index, be kept
from before or have failed.  `sure` are the members no list that claims to be complete can have
missed.  One perimeter, two wallets, and at most two memberships minted.

### Reader

One request at a time with its awaited reads: name, badge or wallet to a person, the list of
memberships, the list of perimeters.  Requests share only the caches of the organisation (kept for a
minute when there was none) and of its perimeters, which are state of the model and expire.
`seen` collects which owners each name had during the request, `lacked` the perimeters where
the wallet was not a member, `since` the perimeters that were open when the list in hand
was read.  The index (`index`) sees the chain's past and may be far behind; `STALE_AFTER_BLOCKS` is the Boolean of
being so.  Candidates are the recorded names and the indexed ones.
What the properties say is about the perimeters in `since`: a list of perimeters is cached for thirty seconds
(`read.ts:620`), and a member of one opened in the meantime is denied or left out.  Rows that the
chain was not asked about keep the owner of the index, under a list that is marked as read
from the chain (`read.ts:201-206`): `ListedOwnersHeld` says which rows these may be.

### Console

Tabs of one browser share wallet, cookies and local storage and each keep a URL and the session they
read last.  A sign-in is asked, posted and answered; every answer of the session route replaces or
deletes the nonce, whosever it was.  `Gate` is the first question without an answer. `held`,
`signed` and `entitled` are history variables: who has owned a name, who signed for it, and who did
both in an order that entitles.  Left to the data: the age test of a challenge and a forged one are
the outcome `late`; what was cached less than a minute ago about an organisation that was not set up
is in the set `U` of what could not be read; the index names any former owner. When the index does
not answer, the offer is the names recorded with the wallet (`Recorded`).  A page that finds an
organization pointed records it with whichever wallet is connected (`RecordOrg`,
`useOrgSetup.ts:112`); nobody compares that wallet with the owner, so `OfferedIsTheirs` says of an
offer that it was the wallet's or recorded with it.  Bounds on behaviour: one sign-in per tab at a
time, no reload while one is in flight, and a navigation does not revalidate what was read.

### Settings

A page reads the lists of groups and resources and, on the access page, the details of the resources
listed; the reads land and fail one by one.  A dialog keeps the caps it was opened with, also when
it is turned to another cell: the cells behind it can be reached by keyboard and the dialog has no
key (`access/page.tsx:126`, `165-176`; `Retarget`, which shares the bound of the mishaps).  `of` is
the cell it was opened for.  A request is carried out by one transaction, except that `commit_key`
and `discard_pending_key` look first and update later (`FindKey`, `CommitKey`, `DiscardKey`); it is
refused, answered, or given up by the relay after ten seconds while the enforcer still works on it.
`writes` counts the writes of a row, so that `UntouchedKept` can tell a dialog with what the row
still says from one that was overtaken; `discarded` are the keys that a discard took away.  A tab
stays on its page, waits for one answer at a time, and does not edit while it saves.

The dialog's promise is only what it read: when the row was written since, a save overwrites the
other owner's caps.  An answer closes whichever dialog is open by then (`access/page.tsx:171`).
The caps it shows are those of the row, the per-name cap included: `GET /admin/resources/<id>` returns it
(`proxy.py:801`), although two comments of the pages say that it cannot be read back (`useEnforcer.ts:166-167`,
`access/page.tsx:233-234`).  A resource that was ever used cannot be deleted: the log of requests and the
adjustments refer to it (`db.py:119`, `162`), the DELETE raises, and `HandleDelete` has it as an answer that says no.

A definition introduced with "A mistake" (`SignInSwapped`, `EvictAll`, `MatchesWallet`) is used by no
specification: it stands in front of the definition it gets wrong, and `mutants` in `PROJECT.json` names
the property that TLC finds violated when the one takes the other's place.

## Runs

| run | question | instance | result |
|---|---|---|---|
| `portal` | Are strangers isolated, is every ACCEPT accounted for, do sessions and names stay with their device? | 2 devices, 2 members of 2 tiers, 2 threads and the reaper, 3 sessions; 1 restart, failing iptables call (raised or logged), wait for the enforcer given up, or absent device | holds, 3.08 M states |
| `portal_race` | ... without `OneSignInPerIp` | as above, nothing fails | violated: the finding |
| `gateway` | Do portal and enforcer agree on who is online, as whom, and who pays? | 1 device, 2 names, 2 groups of one tier, 2 sessions, 2 stamps, 1 admin change, 1 mishap | holds, 1.02 M states |
| `gateway_live` | Does a session revoked by an administrator lose the network, are absent devices put out, do requests end? | 1 device that comes and goes, 1 member, 1 thread and the reaper, 2 sessions, 1 failed grant, 1 timeout, 1 admin change, 1 mishap | holds, 79 k states |
| `ratelimit` | How far can a cap be overrun, do counters agree? | 3 threads, 3 devices (one without a name), 1 group, caps 1 and 2, 4 requests, 2 days, 1 admin change | holds, 313 k states |
| `signin` | What does an admission rest on, are answers true, does the map keep the promise? | 2 requests, 2 devices, 2 wallets, 3 nonces, map of 2, 1 tick, 1 restart, 1 transfer, 4 answers of the portal | holds, 640 k states |
| `registrar` | What does a name, its records and its rights carry from one holder to the next, who may mint, does the book keep its promise? | an organizer and a member, 2 labels registered up to twice, 2 keys, 1 role with 2 definitions, 3 changes of the catalogue, 1 of the branch's or the organization's registry | holds, 557 k states |
| `wizard` | Does the wizard leave a permission behind, does it say more than the chain has? | 1 name, 1 branch label, 2 groups, a batching and a plain wallet, 2 mishaps, 1 lookup of a kind and 2 transactions in flight | holds, 1.09 M states |
| `desk` | Do the enforcer's rows rest on the chain, whom does the page offer for disabling, is a name called live known? | 2 wallets, 2 badge ids (1 a perimeter's label), 1 role that may be retired, 4 posters, 3 moves, 1 mishap | holds, 2.18 M states |
| `reader` | Were a denial, the owners in a list, a list true during the request? | 2 perimeters and a superseded one, 2 wallets, 1 badge id, 2 moves, 1 failed read | holds, 1.28 M states |
| `console` | Who may operate, and what is offered to whom? | 2 tabs, 2 wallets, 2 organisations, 3 moves, 1 mishap | holds, 267 k states |
| `settings` | What does a save replace, what does an empty cell mean, does a discarded key come back? | 2 tabs, 2 groups, 1 resource, 2 caps, 3 requests or mishaps | holds, 2.60 M states |

Deadlock is not checked: the bounded systems come to rest when sessions, requests or nonces are
used up, an idle gateway is a legitimate state, a closed branch has nothing left to do, and people stop clicking.

*Why the bounds are enough.*  Isolation is a relation between two devices and rules mention at most
two, so two devices show every pair of rules; two threads and the reaper show every pair of racing
handlers with the reaper on top; three sessions allow sign-in, revocation and re-login of one device
beside a sign-in of the other.  One thing goes wrong in `portal`, at any moment; what the proofs say
of sessions and names holds for any number of troubles.  In `gateway` one device suffices because
the tables are per address, two sessions because each property relates a session to its successor,
two stamps because a clock stands still, goes on or goes back, two groups because confusions need
two.  The quota bound for `n` threads is `n - 1`, which three threads distinguish from a bound of
one; caps of one and two are overrun with four requests.  In `signin` a map of two is full and
evicts with the third nonce; two requests race for one nonce. In `registrar` a label changes hands
with two registrations; two people suffice because every property relates one holder to the next;
one role with two definitions shows every way in which what a role lists and what a membership was
granted differ (a key can be entitled, editable or neither on each side); three changes allow a
definition, a redefinition and a sync or a promotion; the second role matters only to who may mint
whom. In the console's runs moves are what people and the chain do between the awaits of a request:
two let a fact end and another begin during it (`reader`), three allow a transfer, a switch of
wallet and a return (`console`), or an onboarding, a revocation and an expiry of the catalogue
(`desk`); one mishap shows a failed step, two a failure and its failed repair (`wizard`).  Two
groups show a batch that stops in the middle.  Two wallets let a request name one person's label and
another's wallet (`desk`). Two tabs and three requests let one tab stage, a second discard and the
first activate, and two groups are two cells, one behind the dialog of the other (`settings`).
Symmetry: threads, and members with their tiers (`portal`); devices only where no sequence depends
on the enumeration order of sets (`signin`); labels (`registrar`); wallets (`reader`); tabs
(`console`), and the groups and caps, which the pages treat alike (`settings`).  The liveness run
uses no symmetry.

*Fairness* (`GatewayFairness` in `Gateway`).  Weak fairness of a thread's handler: the operating system runs a
thread that can run, and a free `_state_lock` is eventually obtained (a `threading.Lock` promises
no more; with one worker and the reaper the lock is not contended for ever because sessions are
bounded).  Weak fairness of the reaper: it loops with a sleep and no way out.  Weak fairness of
`Receives`: a loopback call is processed or counted as lost.  Strong fairness of `TakePosts`:
Flask starts a thread for every request, and the model's thread may be busy in between.  Nothing
is assumed of guests, administrators, the link or restarts.

## What the runs found

**Names are written outside the lock** (`app.py:378-382`, `569-573`), run `portal_race`.  With two
sign-ins of one address in flight the second name replaces the first after the rules were built for
the first; `grant_access` then returns early, and the device is isolated as the wrong person.

### Statements that do not hold

The modules also define statements that a comment or a document makes and the code does not keep.
No run checks them; each fails in the instance named, with the statement in place of its properties.

| statement | what it says, and where | what happens |
|---|---|---|
| `AdmittedHasName` (`portal`, `OneSignInPerIp = FALSE`) | `app.py:90`: a name entered at login per address | a revocation pops the name (275) that a sign-in has just written (380); the device is admitted without one and cut off from its owner's other devices |
| `UnadmittedIsBlocked` (`portal`) | `app.py:671`: startup removes all portal-inserted rules | the ACCEPT rules in FORWARD stay; so does one whose deletion failed, at a revocation or a failed grant |
| `EveryUserIsolated` (`portal`) | `docs/superpowers/specs/2026-09-26-ens-identity-vlan-design.md:45`: every user isolated from every other | a DROP that iptables refuses is logged (120), and the device is admitted without it |
| `MostRecentWins` (`gateway`) | `proxy/auth.py:46`: the most recent session wins | of two sessions stamped in one second either may, and after the clock was set back the older one, if the enforcer was not told of its end |
| `RefusedMeansNo` (`signin`) | `admit.ts:20`, `verify/route.ts:132`: a refusal is the enforcer's "no" | the portal answers 403 for a lookup that was not answered (563-567), and 500 for a grant that raised |
| `SessionInPublishedGroup` (`gateway`) | `proxy.py:1488`: ENS is the authority on the group | the group is looked up by tier (1443) |
| `SessionOfItsMember` (`gateway`) | `proxy.py:1543`: the ENS name is preferred | once `portal-anon` has a row, a session without a user id is filed under it |
| `GrantReturned` (`wizard`) | `useOrgSetup.ts:175`: a failure does not leave the grant outstanding | it does, when a later call is refused, reverts or is given up |
| `MintedIsTrue` (`desk`) | `useEnsWrites.ts:287`: a receipt means the name was minted | a transaction that reverted has a receipt, too |
| `RevocationHappened` (`desk`) | `mirror/route.ts:26-28`: nobody can mirror a revocation that never happened | the label and the wallet of the request are not compared (167-185): a member's label with a wallet that has no membership disables the member's row |
| `NotDisowned` (`desk`) | `people/page.tsx:26-30`: a name is called "not on chain" on evidence only | the onboarding refreshes the users but not the memberships (232), and the new member is shown as not on chain |
| `AnsweredNameWins` (`reader`) | `read.ts:201-203`: a name the chain has just answered for wins over the index | only an answer with an owner does; a denied name stays in the list as the index has it |
| `EveryRowIsRead` (`reader`) | `memberships/route.ts:22-23`: each row was read off the registry in this request | rows the chain was not asked about are the index's (`read.ts:201-206`) |
| `OfferedWasHeld` (`console`) | `ens-names.ts:31`: organizations this wallet has registered; `orgs/route.ts:21`: verified on chain | what is verified is that the organization is set up; the wallet recorded with it is the one connected at a refresh |
| `OperatorHoldsName` (`console`) | `ConsoleGate.tsx:470`: the wallet that holds the name operates | a session outlives a transfer by up to twelve hours |
| `SavedWhereRead` (`settings`) | `access/page.tsx:269`: a modal dialog | a cell behind it turns the dialog to another row, and a save writes the caps of the first there |
| `KeyPresent` (`settings`) | `proxy.py:759`: a resource has a key | an activation that found a staged key which another tab then discarded stores NULL (869) |

Seen while reading, and stated by no module: an owner that cannot be read is a 502 for the session
route (`session/route.ts:125`), but `orgStatus` (`org.ts:111-119`) has already turned the failed
read into "no owner", and the sign-in is refused; the per-resource caps of the groups page are read
from `groups/<id>/limits/<id>`, which the enforcer only takes PUT and DELETE for, so "Save caps"
stays disabled (`groups/page.tsx:443`); the network-speed tab defines a role again with no editable
keys (`groups/page.tsx:302`); the mirror post of `GroupForm.tsx:69` lacks the organisation and is
always refused; a resource whose DELETE is refused with a 409 is said to be deletable once its
limits are gone (`proxy.py:837`), but not if it was ever used.

## Proofs

TLAPS checks every leaf with SMT, Zenon and LS4; nothing is assumed but the modules' named
assumptions (`PortalAssumption`, `GatewayAssumption`, `RateLimitAssumption`, `PartiesAssumption`,
`SignInAssumption`, `ChainAssumption`, `WizardAssumption`, `RegistrarAssumption`,
`MirrorAssumption`, `DeskAssumption`, `ReaderAssumption`, `ConsoleAssumption`, `SettingsAssumption`:
kinds of the constants, `None` is none of the values; there are finitely many addresses, of which
"any destination" is none, and finitely many threads).  There is no bound on devices, threads,
names, sessions, nonces, requests, people, labels, keys, roles, groups, caps, posters, perimeters,
tabs, wallets, resources, mishaps or transactions under way.

*Portal* (part one of `GatewayProofs`).  The invariant is `PortalInv`: the types (`TablesOK`), the
threads (`ThreadsOK`: whoever stands at a label inside a locked section owns the lock and
conversely; what a request carries at each label; that the address a section works for is authed or
not as the section needs) and the sessions (`SessionsOK`: ids were issued, a device has one exactly
while authed, no two alike). `SessionPerDevice` alone is not inductive: recording a grant is
harmless only because the address is still not authed, which is known from the check at the start of
the locked section and from nobody else being inside one.  Every action has a lemma; `NextInv`
collects them; `Exclusive` and `SessionsDistinct` follow.  `NamesFixed` adds that the one sign-in in
flight for an address that reaches the write of the name has found the device not admitted, or
admitted under the same name; it needs `OneSignInPerIp`, and run `portal_race` shows that it must.

The chain of rules is reasoned about by counting.  `Keep` picks positions of a chain by their rank;
from what ranks are (`RankCounts`, `KeepRanks`) follows how often a rule is in a chain with the
first of each of some rules deleted (`DeleteCount`), in one put on top of another (`ConcatCount`),
and how often it is there ahead of the first rule of another kind (`DeleteAhead`, `TopAhead`).
`Accounted` is the first of these counts (`AcceptsOK`): an address that is admitted, or whose ACCEPT
has just been inserted, has one, and each restart may have orphaned one and each failed deletion
(`leaked`); `Typed` follows from the same invariant (`ChainInv`), the chain being one of rules.
`Isolated` is the second: the *wall* between two devices is the DROP rules ahead of the first ACCEPT
of the sender, and `WallsOK` says that there is exactly one when both are in under different names,
and none otherwise.  Exactly one, because a deletion takes one rule away: a wall of two would
survive a revocation and part the next holder of the address from their own devices.  A direction in
`spoilt` is excepted: there a wall may be missing, or left standing until its sender comes in anew.
The inductive invariant is `WallsInv`: `WallsOK` with the counts and with `NamesInv`, since a name
that changes under its rules makes the wall one between the wrong people; hence the premise
`OneSignInPerIp` again.

*Gateway* (part two).  `PortalKept`: a step of the gateway is a step of the portal or none, the
enforcer's answers being among the inputs the portal allows for (`AnswersFit`).  So all of part one
holds beside an enforcer.  `References` is inductive with the types of the tables (`EnforcerInv`).
The agreement of the two processes rests on `GatewayInv`, in two parts.  `Ground` is what each side
knows by itself, and that sessions do not run out while sign-ins wait.  `Joint` is what a row, a
call on the wire and the portal's tables say of each other: a report names an address and a name
that its session has had and shows no other (`ReportsFit`); a session is reported open once, before
it has a row (`ReportedOnce`); a row is of a session opened in its name at its address, and one
signed out is of a session that is gone (`RowsFit`); a session being reported open lasts
(`OpenWhileReported`); one that lasts has its row, which if revoked is being put out
(`RowPerSession`). `GatewayInv` contains `NamesInv`, so the three theorems named next have the
premise `OneSignInPerIp`. `NoGhosts` is the last conjunct, `ActiveIsCurrent` itself; `NoneUnknown`
and `BilledRight` follow from the others: any other active row of the address is one whose end did
not arrive, and it is billed only with a stamp that is no older.  Each handler has a lemma about
what it does to `Joint`; the hard ones are the record of a grant and its report, between which
everything else may happen.

*RateLimit.*  `OverrunBounded` is not inductive: it does not see the threads that have passed a
check and have not counted yet.  `QuotaInv` counts them in: what is counted in a scope and those on
their way to be (`PastDevice`, `PastGroup`, `PastEns`) are together at most the cap plus one less
than there are threads (`Room`).  A thread that passes a check found the counter below the cap
(`RoomEnter`), counting turns one on its way into one counted (`RoomCount`), and whoever gives up, a
wider cap or a reset only makes more room (`RoomLeave`).  The cap is the one a thread has read,
which is no wider than today's unless somebody lowered it (`CapsOK`).  `Agree` follows a count
through the three tables: the sum of a table is the number of what it counts (`Counted`), and `Bump`
adds one to the device's, one to the group's and at most one to the name's, all of the same day.

*SignIn* (part one of `WalletProofs`).  `KeepsPromise` is the refinement: the initial state maps to
Challenge's, every step to a step or a stutter (issuing to `Issue` with what the sweep and the
eviction drop, a consumed nonce to `Accept`, a sweep or restart to `Expire`).  It rests on
`StoreOK`: a nonce in the map was issued to the device its entry names, and no nonce has two
entries.  `AdmissionsProved` adds what a request in flight has already established (`FlightOK`) and
that a spent nonce belongs to one request (`SpentOK`).  `OldestFirst` rests on `EvictNewest`: of a
finite map in which no nonce has two entries, an eviction keeps the newest, one less than the limit
if it drops any.  The bound in `Typed` follows from the same lemma.  `RepliesTrue` is inductive with
the types of the calls: what a page is told is either the portal's verdict on its own request or
claims nothing of it (`AnswerTrue`).

*Wizard* (part two).  First, what a batch does to the chain, for a batch of any length. `Trace` is a
recursive function, about which the prover knows nothing but that it is some function that satisfies
its equation if any does.  One does (`Recursion`: the set of lengths for which there is a solution
has 0 and with each number the next, hence all, `AllNaturals`), so the equation holds
(`TraceSteps`); and what every call keeps, the trace keeps by the same argument: a pointer that is
right, an open branch and a group are never taken away (`TraceGrows`), without a grant there is no
new permission (`TraceGrantsNothing`), each group of a batch of definitions is there in the end
(`TraceDefines`).  `PendingType` is reasoned about likewise.

`WizardInv` says that the page's knowledge fits the chain.  `StepsOK`: past the contracts the name
points at them, and a refresh that has found a pointer is not mistaken when it lands, because
nothing unsets a pointer. `SetupJobOK` and `PageJobOK`: what is left to send is a suffix of what the
loop began with, for the name and the registrar of now, and the loops run on beside the page that
has left their step.  `WatchOK`: a transaction somebody waits for is the one its loop sent last and
nobody waits for another; without it a receipt could be taken for that of a later call.  `LastOK`:
the last refresh of the setup loop belongs to a loop with nothing left to send. `GrantAccounted` is
not inductive: it sees neither a grant that is signed and not mined, nor that the loop still has the
revocation ahead of it.  `PermissionsOK` has both: whoever was given the permission is on record as
cut or is *owed* its revocation (`Owing`), and a grant in the mempool is one the loop waits for or
of a name already on record; a batch with a grant hands it back itself (`TransactDeployment`).
`DefinedIsPublished` needs the same of groups: those whose receipt came are in the branch or
reverted (`DefineJobOK`), as `Mine` decided and not as the loop believes, which does not look.
`GrantIsAccounted`, `DoneMeansOpen` and `DefinedMeansPublished` follow from `WizardInvariant`.

*Registrar.*  `RegistrarInv` is the types, `PointersAgree`, and that a booked resource has been
registered: without the last, an onboarding could overwrite a membership that is already in the
book, because the resource it books carries the next number of its label.  Revocation and release
are one case (`Ends`), the calls that leave the book alone another (`Quiet`); `BookKept` follows.
`RightsExact` needs that nobody has two memberships, so that handing back what one was granted takes
nothing that another gives, and `CarefulSync`, which is a premise of the theorem. `RecordsEnd` needs
no such premise: a right that no membership accounts for is a right to a withdrawn key
(`RightsKnown`), so whoever wrote a record under another key had a membership under that name which
was granted the key (`OwnUnderGrant`), and the teardown clears what was granted.  `RegistryFollowed`
uses that a live membership has the current number of its label.  `AuthorityLive` uses that a label
nobody touched directly is held by the member booked under it; of one unregistered directly it says
nothing, since the contract goes on to honour it.  `Implements` maps the book to `Standing`, with
`NamesKept` (a Member's name is registered or was struck): an onboarding is `Begin`, `revoke` and
`releaseMembership` are `End`, an enrolment elsewhere is `Enrol`, a name the organization
unregisters is `Strike`, all others stutter.

*Desk.*  `DeskInv` has a part for each of `posts`, `rows`, the form and the page.  A request is in
order (`PostOK`) when it stands at an await of its kind, names what that kind names, has noted what
was so of the chain while it was served (`FactOK`), and the row is what its answer says, or was
deleted since (`RowOK`).  Two of these are the argument: past the last look at the chain the fact
has been so, because the label is compared for the very id that `membershipOf` returned; and a
revocation at its last call has found the row, and the row is off unless somebody enabled or deleted
it since (`undone`, `gone`).  Any step of one request leaves all others in order since rows are
removed only by hand, which is noted in every request (`RowsLost`), and are enabled only by steps
that undo revocations (`RowMoves`, `OtherMoved`). For a call to the enforcer `GoesOn` is what the
next await may be, whether the call was carried out, failed or timed out, and `CallStep` is its
effect; the form and the page need no more of the route than `Stays`. `SureMembersSpared` rests on
`PageOK`: a list that may deny somebody's membership (`Believed`) has an owner for each sure member.

*Reader.*  `ReaderInv`: what is so while a request is served has been noted (`Current`); what a lookup says
of its name has been noted (`TasksOK`); the lookups that were begun are those the denial or the list will be judged by
(`Begun`); an answer is in order (`Ended`).  The argument for a denied wallet is
that every perimeter of the list in hand is still to be read or was once seen without the member, and that
between `membershipOf` and `labelOf` the pointer changes only through a moment without membership (`ChainMoves`).
A list rests on the reads of the enforcer's inventory being the lookups that were begun; a row that was kept from the
index is in order (`Kept`) because the lookup of its name, if it was begun, has been denied.

*Console.*  `ConsoleInv` is the types, and that what is shown and granted has a reason at every stage it passes
through: a posted sign-in has a signature on record, a grant on its way, the cookie and every tab's
copy of the session are for somebody entitled (`FlowsOK`, `ViewsOK`), and whoever owns a name and has
signed for it is entitled (`OwnersOK`).  `ProvedOnly` is not inductive: it says nothing of the tabs that
show another question now and may show the shell after a change of wallet or URL, nor of a
cookie signed with an older secret.  Navigation is one lemma (`Moved`), so is every step of the browser
alone (`Steady`); what the server decides is `JudgeInv`.  `OperatorsProved` and `OffersTheirs` follow; the second
rests on `OffersOK`, that what a tab has read for a wallet was that wallet's or recorded with it (`Known`).

*Settings.*  `SettingsInv` says where a key can be: on its way it is new and on its way once (`ComingOK`); staged, it
is staged for one resource and in use nowhere; and no stored key was discarded (`StoredOK`).  The
uniqueness is what discarding needs, since otherwise the key taken away could be in use
for another resource.  An activation that found a key puts in use whatever is staged when it writes, so
`CommitInv` needs nothing of what was found; `DiscardIsFinal` follows.
`NoAccessRead` and `UntouchedStay` are about rows.  `GrantsInv` says of everything that was read from a row that it
was so as of some write of it, and is so still if that was the last one (`AsOfWrite`); the fact travels from
the read to the page, from the page to the dialog it opens and from the dialog to the request, and the request writes
the row it says (`PagesOK`, `DialogsOK`, `SavesOK`), as long as the dialog is for the cell it was opened for.

*Only model-checked.*  Liveness, which needs fairness and `ENABLED`: `RevokedIsPutOut`,
`GoneIsRevoked`, `RequestsEnd`. That the statements of `portal_race` and of the table above fail,
which a counterexample shows. The agreement of the models with the code.

## Not modelled

Forwarding to upstreams, tokens, audit, usage and bandwidth reports; the fields of a resource
besides its keys; the first version of the branch registrar, which the factories do not deploy; the
groups and the perimeter settings pages (forms over one request or transaction each); callbacks in
the middle of an onboarding, label syntax and registry role bitmaps; the camera, the pitch deck,
charts and demo pages, the wallet provider, the scraper and the deployment scripts, which are I/O or
presentation.  Durations are abstracted: that the portal waits three seconds for a lookup in which
the enforcer may wait four (`app.py:144`, `proxy.py:1452`) is listed as a hazard and not decided by
a run.
