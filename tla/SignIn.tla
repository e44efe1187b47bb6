------------------------------- MODULE SignIn -------------------------------
(***************************************************************************)
(* Sign-in at the console (web/lib/portal, web/app/api/portal): a device   *)
(* asks for a nonce, its wallet signs it, /verify consumes the nonce,      *)
(* checks the signature, reads the membership from the chain and asks the  *)
(* portal of the branch to admit the device.                               *)
(*                                                                         *)
(* The console is one JavaScript process: a request runs alone up to its   *)
(* next await, and other requests, the chain and the portal move at every  *)
(* await.  A step of this module is the code between two awaits.           *)
(***************************************************************************)
EXTENDS Naturals, FiniteSets, Sequences, Parties

CONSTANTS
  Ips, Names,
  Requests,         \* /verify requests
  TTL,              \* TTL_MS, in ticks of the clock
  MAX_OUTSTANDING,
  MaxNonces,        \* bound: challenges issued
  MaxNow,           \* bound: the clock
  MaxRestarts,      \* bound: restarts of the console
  MaxTransfers      \* bound: memberships that change hands

\* What /internal/admit answers.  A lookup of the name that failed is the 403 of a
\* name that is not a member ("a known wart"); a grant that raised is a 500.
Denials == {"not_a_member", "no_lookup", "failed"}
Verdicts == {"admitted"} \union Denials

ASSUME SignInAssumption ==
  /\ TTL \in Nat /\ MAX_OUTSTANDING \in Nat \ {0}
  /\ {MaxNonces, MaxNow, MaxRestarts, MaxTransfers} \subseteq Nat
  /\ None \notin Ips \union Names \union {"online", "refused"} \union Verdicts

VARIABLES
  outstanding,    \* the entries of the Map: [nonce, ip, expires]
  now,            \* Date.now()
  issued,         \* nonces issued so far: they never repeat, and their
                  \* numbers are the insertion order of the Map
  issuedTo,       \* history: nonce -> device
  takers,         \* history: nonce -> devices consumeNonce said yes to
  owner,          \* external: name -> owning wallet, None when no membership
  owned,          \* history: <<name, wallet>> that was so at some time
  pc, req,        \* per request: where it waits, and its locals
  reply,          \* per request: what the page is told
  admits,         \* admit calls sent to the portal, with what each rests on
  verdict,        \* request -> what the portal made of its admit call
  restarts, transfers

store == <<outstanding, issued, issuedTo, takers>>
requests == <<pc, req, reply>>
chainVars == <<owner, owned>>
portal == <<admits, verdict>>
vars == <<store, now, requests, chainVars, portal, restarts, transfers>>

Nonces == 1..MaxNonces
\* by is the wallet whose signature of the nonce the body carries, want the name
\* it gives, if any.
NoRequest == [nonce |-> 0, ip |-> None, wallet |-> None, by |-> None, want |-> None]

----------------------------------------------------------------------------
(* nonces.ts *)

Alive(entry) == entry.expires > now
Swept == {e \in outstanding : Alive(e)}

\* A mistake: the map grows.
EvictNothing(S) == S
\* A mistake: a full map is cleared.
EvictAll(S) == IF Cardinality(S) >= MAX_OUTSTANDING THEN {} ELSE S
\* The oldest entries make room; the map is never cleared.
Evict(S) == {e \in S : Cardinality({k \in S : k.nonce > e.nonce}) < MAX_OUTSTANDING - 1}

\* POST /challenge
IssueNonce(ip) ==
  /\ issued < MaxNonces
  /\ issued' = issued + 1
  /\ outstanding' = Evict(Swept) \union {[nonce |-> issued', ip |-> ip, expires |-> now + TTL]}
  /\ issuedTo' = [issuedTo EXCEPT ![issued'] = ip]
  /\ UNCHANGED <<takers, now, requests, chainVars, portal, restarts, transfers>>

\* consumeNonce: the entry goes, whoever asks; yes only to its device.
Without(S, c) == {e \in S : e.nonce # c}

\* A mistake: a nonce is accepted from any device.
ConsumesFromAny(c, ip) == \E e \in Swept : e.nonce = c
Consumes(c, ip) == \E e \in Swept : e.nonce = c /\ e.ip = ip

----------------------------------------------------------------------------
(* POST /verify *)

\* 401 and 403 are a deny, 502 is an outage; a 200 says online, refused or
\* unreachable.
Answer(r, a) ==
  /\ pc' = [pc EXCEPT ![r] = "done"]
  /\ req' = [req EXCEPT ![r] = NoRequest]
  /\ reply' = [reply EXCEPT ![r] = a]

Goto(r, l) == pc' = [pc EXCEPT ![r] = l] /\ UNCHANGED <<req, reply>>

\* Up to the await of verifyMessage.
Verify(r, q) ==
  /\ pc[r] = "new"
  /\ outstanding' = Without(Swept, q.nonce)
  /\ IF Consumes(q.nonce, q.ip)
       THEN /\ takers' = [takers EXCEPT ![q.nonce] = Append(@, q.ip)]
            /\ pc' = [pc EXCEPT ![r] = "signature"]
            /\ req' = [req EXCEPT ![r] = q]
            /\ reply' = reply
       ELSE takers' = takers /\ Answer(r, "denied")
  /\ UNCHANGED <<issued, issuedTo, now, chainVars, portal, restarts, transfers>>

SignatureUnchecked(r) == TRUE
SignatureValid(r) == req[r].by = req[r].wallet

CheckSignature(r) ==
  /\ pc[r] = "signature"
  /\ IF SignatureValid(r) THEN Goto(r, "resolve") ELSE Answer(r, "denied")
  /\ UNCHANGED <<store, now, chainVars, portal, restarts, transfers>>

\* resolveIdentity of the given name, or resolveByWallet: which may find any of
\* the wallet's names, and answers null when there is none.
Candidates(r) ==
  IF req[r].want # None
    THEN {n \in {req[r].want} : owner[n] # None}
    ELSE {n \in Names : owner[n] = req[r].wallet}

\* A mistake: ownership is not checked.
TheirsUnchecked(r, n) == TRUE
Theirs(r, n) == owner[n] = req[r].wallet

\* The chain answers, and the membership is theirs: admit() is called.
Resolve(r) ==
  /\ pc[r] = "resolve"
  /\ \/ Candidates(r) = {} /\ Answer(r, "denied") /\ UNCHANGED admits
     \/ \E n \in Candidates(r) :
          IF Theirs(r, n)
            THEN /\ Goto(r, "admit")
                 /\ admits' = admits \union {[req |-> r, ip |-> req[r].ip, name |-> n,
                                nonce |-> req[r].nonce, by |-> req[r].by]}
            ELSE Answer(r, "denied") /\ UNCHANGED admits
  /\ UNCHANGED <<store, now, chainVars, verdict, restarts, transfers>>

\* The chain does not answer: an outage, not a deny.
ResolveFails(r) ==
  /\ pc[r] = "resolve"
  /\ Answer(r, "outage")
  /\ UNCHANGED <<store, now, chainVars, portal, restarts, transfers>>

\* "if (res.ok)": a response of any other status is a refusal.
Reported(v) == IF v = "admitted" THEN "online" ELSE "refused"

\* The portal's answer arrives.
AdmitReturns(r) ==
  /\ pc[r] = "admit" /\ verdict[r] # None
  /\ Answer(r, Reported(verdict[r]))
  /\ UNCHANGED <<store, now, chainVars, portal, restarts, transfers>>

\* A mistake: no answer is reported as a refusal.
SilenceAsRefusal == "refused"
Silence == "unreachable"

\* AbortSignal.timeout(5_000), or no connection.  The call may still arrive.
AdmitFails(r) ==
  /\ pc[r] = "admit"
  /\ Answer(r, Silence)
  /\ UNCHANGED <<store, now, chainVars, portal, restarts, transfers>>

----------------------------------------------------------------------------
(* The portal, the chain, the clock, the process *)

\* /internal/admit: _lookup_ens finds the name, does not, or fails, and the grant
\* is made or raises.
PortalAnswers(a, v) ==
  /\ a \in admits /\ verdict[a.req] = None
  /\ verdict' = [verdict EXCEPT ![a.req] = v]
  /\ UNCHANGED <<store, now, requests, chainVars, admits, restarts, transfers>>

\* External: a membership is revoked, or issued to another wallet.
Transfer(n, w) ==
  /\ transfers < MaxTransfers /\ owner[n] # w
  /\ transfers' = transfers + 1
  /\ owner' = [owner EXCEPT ![n] = w]
  /\ owned' = owned \union {<<n, w>>}
  /\ UNCHANGED <<store, now, requests, portal, restarts>>

Tick ==
  /\ now < MaxNow
  /\ now' = now + 1
  /\ UNCHANGED <<store, requests, chainVars, portal, restarts, transfers>>

\* Outstanding challenges and requests are gone; what was sent is not.
Restart ==
  /\ restarts < MaxRestarts
  /\ restarts' = restarts + 1
  /\ outstanding' = {}
  /\ pc' = [r \in Requests |-> IF pc[r] = "new" THEN "new" ELSE "done"]
  /\ req' = [r \in Requests |-> NoRequest]
  /\ UNCHANGED <<issued, issuedTo, takers, now, reply, chainVars, portal, transfers>>

Init ==
  /\ outstanding = {}
  /\ now = 0
  /\ issued = 0
  /\ issuedTo = [c \in Nonces |-> None]
  /\ takers = [c \in Nonces |-> <<>>]
  /\ owner \in [Names -> Wallets]
  /\ owned = {<<n, owner[n]>> : n \in Names}
  /\ pc = [r \in Requests |-> "new"]
  /\ req = [r \in Requests |-> NoRequest]
  /\ reply = [r \in Requests |-> None]
  /\ admits = {}
  /\ verdict = [r \in Requests |-> None]
  /\ restarts = 0
  /\ transfers = 0

Handle(r) ==
  \/ CheckSignature(r) \/ Resolve(r) \/ ResolveFails(r)
  \/ AdmitReturns(r) \/ AdmitFails(r)

Bodies == [nonce : 1..issued, ip : Ips, wallet : Wallets, by : Wallets,
           want : Names \union {None}]

Environment ==
  \/ \E a \in admits, v \in Verdicts : PortalAnswers(a, v)
  \/ \E n \in Names, w \in Wallets \union {None} : Transfer(n, w)
  \/ Tick

Next ==
  \/ \E ip \in Ips : IssueNonce(ip)
  \/ \E r \in Requests, q \in Bodies : Verify(r, q)
  \/ \E r \in Requests : Handle(r)
  \/ Environment
  \/ Restart

Spec == Init /\ [][Next]_vars

----------------------------------------------------------------------------

Locals == [nonce : 0..MaxNonces, ip : Ips \union {None}, wallet : Wallets \union {None},
           by : Wallets \union {None}, want : Names \union {None}]

TypeOK ==
  /\ outstanding \subseteq [nonce : Nonces, ip : Ips, expires : Nat]
  /\ Cardinality(outstanding) <= MAX_OUTSTANDING
  /\ now \in 0..MaxNow
  /\ issued \in 0..MaxNonces
  /\ issuedTo \in [Nonces -> Ips \union {None}]
  /\ takers \in [Nonces -> Seq(Ips)]
  /\ owner \in [Names -> Wallets \union {None}]
  /\ pc \in [Requests -> {"new", "signature", "resolve", "admit", "done"}]
  /\ req \in [Requests -> Locals]
  /\ admits \subseteq [req : Requests, ip : Ips, name : Names, nonce : Nonces, by : Wallets]
  /\ verdict \in [Requests -> Verdicts \union {None}]

\* consumeNonce, with its Map, its sweeps, its evictions and restarts, keeps the
\* promise of Challenge: accepted once, from its own device, and never revived.
Promise == INSTANCE Challenge WITH
  holder <- issuedTo, good <- {e.nonce : e \in outstanding}
SingleUse == Promise!Spec

\* No device is put forward for admission except on a challenge of its own that
\* no other admission used, signed by a wallet that has owned the name: across
\* every interleaving of requests, transfers and restarts ("four things must all
\* hold", verify/route.ts:16).
AdmissionProved ==
  \A a \in admits :
    /\ issuedTo[a.nonce] = a.ip
    /\ <<a.name, a.by>> \in owned
    /\ \A b \in admits : b # a => b.nonce # a.nonce

\* "the page never claims a device is online when it is not" (verify/route.ts:126):
\* the portal admitted the device of every page that says so, and a page that says
\* refused has an answer of the portal that did not admit: a timeout, a lost call or a
\* restart is neither.  Why the portal did not admit is another matter: see
\* RefusedMeansNo.
ReplyIsTrue ==
  \A r \in Requests :
    /\ reply[r] = "online" => verdict[r] = "admitted"
    /\ reply[r] = "refused" => verdict[r] \in Denials

\* Not so: "`refused` is the enforcer answering "no"" (admit.ts:20), "An enforcer that
\* did not answer is not an enforcer that said no" (verify/route.ts:132).  The portal
\* answers 403 not_a_member for a lookup its enforcer did not answer, and 500 for a
\* grant that raised, and both are worded as refusals.
RefusedMeansNo ==
  \A r \in Requests : reply[r] = "refused" => verdict[r] = "not_a_member"

\* "Bounded by eviction, never by clearing": a flood of challenges costs the
\* oldest ones first.  What issuing a challenge drops had expired or is older
\* than everything it keeps, and a full map is kept full.
OldestGoFirst ==
  [][issued' # issued =>
       \A e \in outstanding \ outstanding' :
         Alive(e) => /\ Cardinality(outstanding') = MAX_OUTSTANDING
                     /\ \A k \in outstanding' : k.nonce > e.nonce]_vars
=============================================================================
