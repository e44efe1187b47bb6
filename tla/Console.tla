------------------------------ MODULE Console ------------------------------
(***************************************************************************)
(* The entrance of the console: the wallet, the organization, the          *)
(* perimeter and the proof of ownership (components/console/ConsoleGate,   *)
(* OrgPicker; lib/hooks/useConsoleSession, useOrg, usePerimeter;           *)
(* lib/ens/recentOrgs), and behind it the session route                    *)
(* (app/api/console/session), the session cookie (lib/console-session) and *)
(* the routes that list and read organizations (app/api/ens/orgs, org).    *)
(*                                                                         *)
(* One browser with several tabs.  The tabs share the wallet, the cookies  *)
(* and the local storage; each has its own URL and its own copy of the     *)
(* session, which it reads when it loads and after its own sign-in or      *)
(* sign-out, and never when another tab changes the cookie.                *)
(***************************************************************************)
EXTENDS Integers, FiniteSets

CONSTANTS
  Tabs, Wallets, Orgs, None, NotRead,
  FirstOwner,    \* org -> the wallet that registered it through the console
  FirstSetUp,    \* the organizations set up before
  Sites,         \* org -> the perimeters its registry has
  MaxMoves,      \* bound: changes of wallet, URL, ownership, set-up
  MaxMishaps     \* bound: failed reads, lost requests, lapses, restarts

ASSUME ConsoleAssumption ==
  /\ FirstOwner \in [Orgs -> Wallets] /\ FirstSetUp \subseteq Orgs
  /\ None \notin Wallets \union Orgs \union UNION {Sites[o] : o \in Orgs}
  /\ None \notin [address : Wallets, org : Orgs]
  /\ IsFiniteSet(Tabs) /\ MaxMoves \in Nat /\ MaxMishaps \in Nat

VARIABLES
  owner,         \* the .eth registry: org -> wallet
  setUp,         \* the organizations the factory knows
  recorded,      \* ens_names of the enforcer: org -> the wallet it is recorded with
  secret,        \* which secret the server signs sessions with
  cookies,       \* of the browser: the session and the nonce
  account,       \* the connected wallet
  remembered,    \* local storage: organizations this browser has been in
  tab,           \* tab -> URL, the session it read last, the organizations it offers
  flow,          \* tab -> its sign-in
  held,          \* history: <<w, o>> such that w has owned o
  noted,         \* history: <<w, o>> such that o was recorded with w
  signed,        \* history: <<w, o>> such that w signed a challenge for o
  entitled,      \* history: <<w, o>> such that w owned o when it signed, or later
  moves, mishaps

chainVars == <<owner, setUp, held>>
nameVars == <<recorded, noted>>
browserVars == <<cookies, account, remembered>>
proofVars == <<signed, entitled>>
bounds == <<moves, mishaps>>
vars == <<chainVars, nameVars, secret, browserVars, tab, flow, proofVars, bounds>>

Pages == {"console", "branches"}
Move == moves < MaxMoves /\ moves' = moves + 1 /\ UNCHANGED mishaps
Mishap(bad) == mishaps' = mishaps + (IF bad THEN 1 ELSE 0) /\ mishaps' <= MaxMishaps /\ UNCHANGED moves

Proof(w, o) == [address |-> w, org |-> o]

NoOffer == [of |-> None, listed |-> {}, recalled |-> {}, failed |-> FALSE]
Idle == [phase |-> "idle", address |-> None, org |-> None, nonce |-> None,
         by |-> None, ours |-> FALSE, grant |-> None]

Loaded(o, s, p) == [org |-> o, site |-> s, page |-> p, view |-> NotRead, offer |-> NoOffer]

Init ==
  /\ owner = FirstOwner
  /\ setUp = FirstSetUp
  /\ secret = 0
  /\ cookies = [session |-> None, nonce |-> None]
  /\ account = None /\ remembered = {}
  /\ tab = [t \in Tabs |-> Loaded(None, None, "console")]
  /\ flow = [t \in Tabs |-> Idle]
  /\ held = {<<FirstOwner[o], o>> : o \in Orgs}
  /\ recorded = [o \in Orgs |-> None] /\ noted = {}
  /\ signed = {} /\ entitled = {}
  /\ moves = 0 /\ mishaps = 0

----------------------------------------------------------------------------
(* What a tab shows *)

\* A session for another name or another wallet is not a proof of this one.
Proved(t) == tab[t].view = Proof(account, tab[t].org)

\* ConsoleGate: the first question that is not answered yet.
Gate(t) ==
  CASE account = None -> "wallet"
    [] account # None /\ tab[t].org = None -> "organization"
    [] account # None /\ tab[t].org # None /\ tab[t].site = None /\ tab[t].page # "branches" -> "perimeter"
    [] OTHER -> IF tab[t].view = NotRead THEN "settling" ELSE IF Proved(t) THEN "shell" ELSE "ownership"

\* A mistake: whatever the tab read last is offered.
OfferedToAnybody(t) ==
  IF tab[t].offer.failed THEN {} ELSE tab[t].offer.listed \union tab[t].offer.recalled

\* The list is shown for the wallet it was read for.
Offered(t) ==
  IF tab[t].offer.of = account /\ ~tab[t].offer.failed
  THEN tab[t].offer.listed \union tab[t].offer.recalled
  ELSE {}

\* A new URL in the same page; what was read stays.  useOrg remembers the organization.
Goes(t, o, s, p) ==
  /\ tab' = [tab EXCEPT ![t].org = o, ![t].site = s, ![t].page = p]
  /\ remembered' = IF o = None THEN remembered ELSE remembered \union {o}

----------------------------------------------------------------------------
(* The wallet and the URL *)

Connect(w) ==
  /\ w # account
  /\ account' = w
  /\ Move
  /\ UNCHANGED <<chainVars, nameVars, secret, cookies, remembered, tab, flow, proofVars>>

Disconnect ==
  /\ account # None
  /\ account' = None
  /\ Move
  /\ UNCHANGED <<chainVars, nameVars, secret, cookies, remembered, tab, flow, proofVars>>

\* A bookmark, a reload: a new page.
Load(t, o, s, p) ==
  /\ flow[t] = Idle
  /\ tab' = [tab EXCEPT ![t] = Loaded(o, s, p)]
  /\ remembered' = IF o = None THEN remembered ELSE remembered \union {o}
  /\ Move
  /\ UNCHANGED <<chainVars, nameVars, secret, cookies, account, flow, proofVars>>

\* "Choose a different organization", "Switch organization".
LeaveOrg(t) ==
  /\ Gate(t) \in {"perimeter", "ownership", "shell"}
  /\ Goes(t, None, None, "console")
  /\ Move
  /\ UNCHANGED <<chainVars, nameVars, secret, cookies, account, flow, proofVars>>

\* ChoosePerimeter, or the rail of the shell; a single perimeter is opened without a click.
OpenSite(t, s) ==
  /\ Gate(t) \in {"perimeter", "shell"} /\ s \in Sites[tab[t].org]
  /\ Goes(t, tab[t].org, s, tab[t].page)
  /\ UNCHANGED <<chainVars, nameVars, secret, cookies, account, flow, proofVars, bounds>>

\* "Open the first perimeter", and the links of the perimeters page, which drop the perimeter.
OpenPage(t, p) ==
  /\ \/ Gate(t) = "perimeter" /\ Sites[tab[t].org] = {} /\ p = "branches"
     \/ Gate(t) = "shell" /\ p # tab[t].page
  /\ \E s \in {tab[t].site, None} : Goes(t, tab[t].org, s, p)
  /\ Move
  /\ UNCHANGED <<chainVars, nameVars, secret, cookies, account, flow, proofVars>>

----------------------------------------------------------------------------
(* The organizations of a wallet *)

\* orgStatus.  U is what could not be read this time, or was read less than a minute
\* ago when it was not set up yet; a failed read of either half is that half missing.
IsOrg(o, U) == o \in setUp \ U
OwnerRead(o, U) == IF o \in U THEN None ELSE owner[o]

\* The rows a tab holds for the account, emptied of another's.
OfferFor(t) == IF tab[t].offer.of = account THEN tab[t].offer ELSE [NoOffer EXCEPT !.of = account]

\* GET /api/ens/orgs asks the indexer for the names of the wallet, by now another's perhaps;
\* without it, those the enforcer has recorded with the wallet.
Indexed(labels) == labels \subseteq {o \in Orgs : <<account, o>> \in held}
Recorded(labels) == labels = {o \in Orgs : recorded[o] = account}

\* Each is looked up in the factory; whose it is, is not asked again.
List(t, labels, U) ==
  /\ Gate(t) = "organization" /\ U \subseteq labels
  /\ Indexed(labels) \/ Recorded(labels)
  /\ tab' = [tab EXCEPT ![t].offer = [OfferFor(t) EXCEPT !.listed = {o \in labels : IsOrg(o, U)},
                                                         !.failed = FALSE]]
  /\ Mishap(U # {})
  /\ UNCHANGED <<chainVars, nameVars, secret, browserVars, flow, proofVars>>

ListFails(t) ==
  /\ Gate(t) = "organization"
  /\ tab' = [tab EXCEPT ![t].offer = [OfferFor(t) EXCEPT !.failed = TRUE]]
  /\ Mishap(TRUE)
  /\ UNCHANGED <<chainVars, nameVars, secret, browserVars, flow, proofVars>>

\* useOwnedOrgs checks what the browser remembers, label by label.
Theirs(o, U) == IsOrg(o, U) /\ OwnerRead(o, U) = account

Recall(t, U) ==
  /\ Gate(t) = "organization" /\ U \subseteq remembered
  /\ tab' = [tab EXCEPT ![t].offer = [OfferFor(t) EXCEPT !.recalled = {o \in remembered : Theirs(o, U)}]]
  /\ Mishap(U # {})
  /\ UNCHANGED <<chainVars, nameVars, secret, browserVars, flow, proofVars>>

OpenOffered(t, o) ==
  /\ Gate(t) = "organization" /\ o \in Offered(t)
  /\ Goes(t, o, None, "console")
  /\ Move
  /\ UNCHANGED <<chainVars, nameVars, secret, cookies, account, flow, proofVars>>

\* OpenByNameField; a name that is no organization, or could not be read, opens nothing.
OpenByName(t, o) ==
  /\ Gate(t) = "organization" /\ IsOrg(o, {})
  /\ Goes(t, o, None, "console")
  /\ Move
  /\ UNCHANGED <<chainVars, nameVars, secret, cookies, account, flow, proofVars>>

----------------------------------------------------------------------------
(* The session *)

Nonces == 0 .. Cardinality(Tabs) + 1

\* Nonces are random; one nobody holds any more stands for a new one.
Fresh == CHOOSE n \in Nonces : n # cookies.nonce /\ \A t \in Tabs : flow[t].nonce # n

\* A session is signed with the secret; a server that was started again has another.
Issue(w, o) == [address |-> w, org |-> o, key |-> secret]
Live == cookies.session # None /\ cookies.session.key = secret
Read == IF Live THEN Proof(cookies.session.address, cookies.session.org) ELSE None

\* GET: every answer, also one that was only asked for the session, carries a new nonce.
ReadSession(t) ==
  /\ IF tab[t].view = NotRead \/ flow[t].phase = "reading" THEN UNCHANGED bounds ELSE Move
  /\ tab' = [tab EXCEPT ![t].view = Read]
  /\ cookies' = [cookies EXCEPT !.nonce = Fresh]
  /\ flow' = IF flow[t].phase = "reading" THEN [flow EXCEPT ![t] = Idle] ELSE flow
  /\ UNCHANGED <<chainVars, nameVars, secret, account, remembered, proofVars>>

\* A failed read keeps what there was.
ReadFails(t) ==
  /\ tab[t].view = NotRead \/ flow[t].phase = "reading"
  /\ tab' = [tab EXCEPT ![t].view = IF @ = NotRead THEN None ELSE @]
  /\ flow' = IF flow[t].phase = "reading" THEN [flow EXCEPT ![t] = Idle] ELSE flow
  /\ Mishap(TRUE)
  /\ UNCHANGED <<chainVars, nameVars, secret, browserVars, proofVars>>

\* signIn: the challenge names the wallet and the organization of the moment.
Prove(t) ==
  /\ Gate(t) = "ownership" /\ flow[t].phase = "idle"
  /\ flow' = [flow EXCEPT ![t] = [Idle EXCEPT !.phase = "asked", !.address = account,
                                              !.org = tab[t].org, !.nonce = Fresh]]
  /\ cookies' = [cookies EXCEPT !.nonce = Fresh]
  /\ UNCHANGED <<chainVars, nameVars, secret, account, remembered, tab, proofVars, bounds>>

\* The wallet connected by now signs, and the answer is posted with the cookies of now.
Sign(t) ==
  /\ flow[t].phase = "asked" /\ account # None
  /\ flow' = [flow EXCEPT ![t].phase = "posted", ![t].by = account, ![t].nonce = None,
                          ![t].ours = (cookies.nonce = flow[t].nonce)]
  /\ signed' = signed \union {<<account, flow[t].org>>}
  /\ entitled' = entitled \union {p \in {<<account, flow[t].org>>} : owner[p[2]] = p[1]}
  /\ UNCHANGED <<chainVars, nameVars, secret, browserVars, tab, bounds>>

\* The signature is declined, or a request of the sign-in is lost.
GiveUp(t) ==
  /\ flow[t].phase \in {"asked", "posted", "answered"}
  /\ flow' = [flow EXCEPT ![t] = Idle]
  /\ Mishap(TRUE)
  /\ UNCHANGED <<chainVars, nameVars, secret, browserVars, tab, proofVars>>

\* A mistake: an owner that could not be read is taken for the right one.
AcceptsUnread(f, late, U) ==
  /\ f.ours /\ ~late
  /\ f.by = f.address
  /\ OwnerRead(f.org, U) \in {None, f.address}

\* POST: whether the challenge is ours and recent, the signature the wallet's, the name owned.
Accepts(f, late, U) ==
  /\ f.ours /\ ~late
  /\ f.by = f.address
  /\ OwnerRead(f.org, U) = f.address

Judge(t, late, U) ==
  /\ flow[t].phase = "posted" /\ U \subseteq {flow[t].org}
  /\ flow' = [flow EXCEPT ![t].phase = "answered",
                ![t].grant = IF Accepts(flow[t], late, U) THEN Issue(flow[t].address, flow[t].org) ELSE None]
  /\ Mishap(late \/ U # {})
  /\ UNCHANGED <<chainVars, nameVars, secret, browserVars, tab, proofVars>>

\* Every answer to a POST deletes the nonce, whosever it is by now.
Land(t) ==
  /\ flow[t].phase = "answered"
  /\ cookies' = [nonce |-> None,
                 session |-> IF flow[t].grant = None THEN cookies.session ELSE flow[t].grant]
  /\ flow' = [flow EXCEPT ![t] = IF flow[t].grant = None THEN Idle ELSE [Idle EXCEPT !.phase = "reading"]]
  /\ UNCHANGED <<chainVars, nameVars, secret, account, remembered, tab, proofVars, bounds>>

SignOut(t) ==
  /\ Gate(t) \in {"ownership", "shell"} /\ tab[t].view # None /\ flow[t] = Idle
  /\ cookies' = [cookies EXCEPT !.session = None]
  /\ flow' = [flow EXCEPT ![t].phase = "reading"]
  /\ Move
  /\ UNCHANGED <<chainVars, nameVars, secret, account, remembered, tab, proofVars>>

\* Five minutes, twelve hours.
NonceLapses ==
  /\ cookies.nonce # None
  /\ cookies' = [cookies EXCEPT !.nonce = None]
  /\ Mishap(TRUE)
  /\ UNCHANGED <<chainVars, nameVars, secret, account, remembered, tab, flow, proofVars>>

SessionLapses ==
  /\ cookies.session # None
  /\ cookies' = [cookies EXCEPT !.session = None]
  /\ Mishap(TRUE)
  /\ UNCHANGED <<chainVars, nameVars, secret, account, remembered, tab, flow, proofVars>>

----------------------------------------------------------------------------
(* The server and the world around *)

Restart ==
  /\ secret' = secret + 1
  /\ Mishap(TRUE)
  /\ UNCHANGED <<chainVars, nameVars, browserVars, tab, flow, proofVars>>

Transfer(o, w) ==
  /\ w # owner[o]
  /\ owner' = [owner EXCEPT ![o] = w]
  /\ held' = held \union {<<w, o>>}
  /\ entitled' = entitled \union ({<<w, o>>} \intersect signed)
  /\ Move
  /\ UNCHANGED <<setUp, nameVars, secret, browserVars, tab, flow, signed>>

SetUp(o) ==
  /\ o \notin setUp
  /\ setUp' = setUp \union {o}
  /\ Move
  /\ UNCHANGED <<owner, held, nameVars, secret, browserVars, tab, flow, proofVars>>

\* The setup page of this browser or another one reads an organization and has it recorded
\* with the wallet connected there, the owner or not.
RecordOrg(o, w) ==
  /\ o \in setUp /\ recorded[o] # w
  /\ recorded' = [recorded EXCEPT ![o] = w]
  /\ noted' = noted \union {<<w, o>>}
  /\ Move
  /\ UNCHANGED <<chainVars, secret, browserVars, tab, flow, proofVars>>

----------------------------------------------------------------------------
TabStep(t) ==
  \/ \E o \in Orgs : \E s \in Sites[o] \union {None}, p \in Pages : Load(t, o, s, p)
  \/ Load(t, None, None, "console")
  \/ LeaveOrg(t)
  \/ \E s \in UNION {Sites[o] : o \in Orgs} : OpenSite(t, s)
  \/ \E p \in Pages : OpenPage(t, p)
  \/ \E labels, U \in SUBSET Orgs : List(t, labels, U)
  \/ ListFails(t)
  \/ \E U \in SUBSET Orgs : Recall(t, U)
  \/ \E o \in Orgs : OpenOffered(t, o)
  \/ \E o \in Orgs : OpenByName(t, o)
  \/ ReadSession(t) \/ ReadFails(t)
  \/ Prove(t) \/ Sign(t) \/ GiveUp(t)
  \/ \E late \in BOOLEAN, U \in SUBSET Orgs : Judge(t, late, U)
  \/ Land(t) \/ SignOut(t)

Next ==
  \/ \E t \in Tabs : TabStep(t)
  \/ \E w \in Wallets : Connect(w)
  \/ Disconnect
  \/ \E o \in Orgs : SetUp(o) \/ \E w \in Wallets : Transfer(o, w) \/ RecordOrg(o, w)
  \/ NonceLapses \/ SessionLapses \/ Restart

Spec == Init /\ [][Next]_vars

----------------------------------------------------------------------------
(* Properties *)

\* Who may operate the enforcer: a session the server would accept, and a shell that is
\* drawn for an organization, rest on a signature of that wallet for that organization,
\* and the wallet owned the name when it signed or later; whatever the tabs, switches of
\* the wallet, transfers and failed reads did in between.
ProvedOnly ==
  /\ Live => <<cookies.session.address, cookies.session.org>> \in entitled
  /\ \A t \in Tabs : Gate(t) = "shell" => <<account, tab[t].org>> \in entitled

\* An organization the console offers to the connected wallet is set up, and it has been
\* this wallet's or was once recorded with it: not one that was read for the wallet
\* connected before, nor one the browser merely remembers.
OfferedIsTheirs ==
  \A t \in Tabs : \A o \in Offered(t) : o \in setUp /\ <<account, o>> \in held \union noted

\* "Organizations this wallet has registered through the console" (ens-names.ts:31), and
\* "verified on chain before it is shown" (orgs/route.ts:21): each has been the wallet's.
OfferedWasHeld == \A t \in Tabs : \A o \in Offered(t) : <<account, o>> \in held

\* "Operating the enforcer is allowed to exactly the wallet that holds" the name
\* (ConsoleGate.tsx:470).
OperatorHoldsName == Live => owner[cookies.session.org] = cookies.session.address
=============================================================================
