------------------------------- MODULE Portal -------------------------------
(***************************************************************************)
(* The captive portal of one branch gateway (portal/app.py): who is        *)
(* admitted, which iptables rules say so, and the handler threads and the  *)
(* reaper that change both.                                                *)
(*                                                                         *)
(* The portal is a threaded Flask process.  grant_access and revoke_access *)
(* run under _state_lock; the test for a re-login and the write of         *)
(* ENS_NAMES in /login and /internal/admit do not.  A step of this module  *)
(* is the code between two points at which another thread, the kernel or   *)
(* the enforcer can observe or change something.                           *)
(***************************************************************************)
EXTENDS Naturals, FiniteSets, SequencesExt

CONSTANTS
  Ips,              \* addresses of guest devices
  Names,            \* ENS names of members
  Tiers,            \* network tiers; a tier stands for its fwmark
  Idents,           \* what a lookup can answer: a name, its tier, its user id
  Groups,           \* group ids of the enforcer
  Workers,          \* Flask handler threads
  Reaper,           \* the reaper thread
  None,             \* absent: Python's None, an empty table entry, a free lock
  Leavers,          \* devices that may drop off the link
  OneSignInPerIp,   \* TRUE: a device waits for its sign-in before it retries
  Stamps,           \* what the clock may read when a session opens
  MaxSessions,      \* bound: session ids ever issued
  MaxRestarts,      \* bound: restarts of the portal process
  MaxFailures,      \* bound: handlers in which iptables fails
  MaxTimeouts,      \* bound: notifications given up on while on their way
  MaxTroubles       \* bound: all three, and devices off the link, together

Procs == Workers \union {Reaper}

\* The destination of a rule that names none.
AnyDst == "any"

ASSUME PortalAssumption ==
  /\ Reaper \notin Workers
  /\ None \notin Procs \union Ips \union Names \union Tiers \union Groups
  /\ IsFiniteSet(Ips) /\ AnyDst \notin Ips
  /\ Leavers \subseteq Ips
  /\ OneSignInPerIp \in BOOLEAN
  /\ Idents \subseteq [name : Names, tier : Tiers, user : Names \union {None}]
  /\ Stamps \subseteq Nat
  /\ {MaxSessions, MaxRestarts, MaxFailures, MaxTimeouts, MaxTroubles} \subseteq Nat

\* _stale_ips revokes what was last seen more than ttl=20 s ago; sleep(10) takes
\* at least 10 s, so that is two sweeps of the reaper.
TtlSweeps == 2

VARIABLES
  authed,       \* AUTHED_IPS: ip -> tier
  sessionId,    \* SESSION_IDS: ip -> uuid, here the number of the session
  ensName,      \* ENS_NAMES: ip -> name
  groupCache,   \* _GROUP_CACHE: tier -> group id
  forward,      \* the portal's rules of the FORWARD chain, first rule first
  marks,        \* mangle FORWARD: per ip, the marks set, first rule first
  bypass,       \* nat PREROUTING: per ip, how many DNS/:80 exemptions
  lock,         \* owner of _state_lock
  pc, req,      \* per thread: where it is, and the request it works for
  lastSeen,     \* the reaper's last_seen, in sweeps since the sighting
  doomed,       \* what is left of the reaper's list of stale addresses
  neigh,        \* addresses the kernel's neighbour table holds alive
  calls,        \* notifications sent to the enforcer and not yet processed
  issued,       \* session ids issued so far: uuid4 never repeats
  restarts, failures, timeouts,
  leaked,       \* history: per ip, the deletions of its ACCEPT that failed
  spoilt        \* history: <<a, b>> when a call on the DROP from a to b has
                \* failed since a came in

tables == <<authed, sessionId, ensName, groupCache>>
netfilter == <<forward, marks, bypass>>
threads == <<lock, pc, req>>
reaping == <<lastSeen, doomed, neigh>>
slips == <<leaked, spoilt>>
counters == <<issued, restarts, failures, timeouts, slips>>
vars == <<tables, netfilter, threads, reaping, calls, counters>>

----------------------------------------------------------------------------
(* iptables *)

Accept(ip) == [src |-> ip, dst |-> AnyDst, target |-> "ACCEPT"]
Drop(a, b) == [src |-> a, dst |-> b, target |-> "DROP"]

Rules == {Accept(ip) : ip \in Ips} \union {Drop(a, b) : a, b \in Ips}

\* First match decides; 99-ensca appends a DROP for everything from the AP side.
Verdict(a, b) ==
  LET hits == {i \in DOMAIN forward : /\ forward[i].src = a
                                      /\ forward[i].dst \in {AnyDst, b}}
  IN  IF hits = {} THEN "DROP" ELSE forward[Min(hits)].target

RuleCount(rule) == Cardinality({i \in DOMAIN forward : forward[i] = rule})

\* _apply_ens_isolation: the authed devices that ip must not talk to.
Strangers(ip) ==
  {o \in Ips \ {ip} : /\ authed[o] # None
                      /\ ~(ensName[o] = ensName[ip] /\ ensName[ip] # None)}

\* Both directions, for every stranger; the order among them is set order.
DropsFor(ip) == {Drop(ip, o) : o \in Strangers(ip)} \union {Drop(o, ip) : o \in Strangers(ip)}
\* A mistake: DROPs below the ACCEPTs instead of above.
IsolateAppended(chain, ip, F) == chain \o SetToSeq(DropsFor(ip) \ F)
\* F are the rules for which the call fails.
Isolate(chain, ip, F) == SetToSeq(DropsFor(ip) \ F) \o chain

\* The rules at positions K, in their order.
Keep(chain, K) ==
  [n \in 1..Cardinality(K) |->
     chain[CHOOSE i \in K : Cardinality({j \in K : j <= i}) = n]]

\* One "-D" for each of these rules: it takes the first such rule only.
FirstOf(chain, S) ==
  {i \in DOMAIN chain : chain[i] \in S /\ \A j \in 1..(i - 1) : chain[j] # chain[i]}
Delete(chain, S) == Keep(chain, DOMAIN chain \ FirstOf(chain, S))

Unisolate(chain, ip, F) == Delete(chain, DropsFor(ip) \ F)

\* A mistake: the ACCEPT stays.
RetractNothing(chain, ip, F) == chain
Retract(chain, ip, F) == Delete(chain, {Accept(ip)} \ F)

----------------------------------------------------------------------------
(* Requests *)

\* sid is the session a notification is about.
NoRequest == [ip |-> None, name |-> None, tier |-> None, user |-> None, sid |-> 0]
\* A mistake: name and tier exchanged.
SignInSwapped(ip, ident) == [NoRequest EXCEPT !.ip = ip, !.name = ident.tier, !.tier = ident.name]
SignIn(ip, ident) ==
  [NoRequest EXCEPT !.ip = ip, !.name = ident.name, !.tier = ident.tier, !.user = ident.user]

\* A thread's locals end with its request.
Goto(p, l) ==
  /\ pc' = [pc EXCEPT ![p] = l]
  /\ req' = IF l = "idle" THEN [req EXCEPT ![p] = NoRequest] ELSE req

\* A mistake: the lock is kept.
ReleaseForgotten == lock' = lock
\* The end of a "with _state_lock" block, by its last line or by an exception.
Release == lock' = None

Serve(p, l, r) ==
  /\ pc[p] = "idle"
  /\ pc' = [pc EXCEPT ![p] = l]
  /\ req' = [req EXCEPT ![p] = r]

\* In flight between the lookup of an identity and the end of the grant.
SigningIn(p, ip) == req[p].ip = ip /\ req[p].name # None
SignIns == {p \in Workers : req[p].name # None}

\* /login and /internal/admit, up to the answer of _lookup_ens: ident is what
\* the enforcer says of the name.  A name it does not know ends the request.
StartAdmit(p, ip, ident) ==
  /\ issued + Cardinality(SignIns) < MaxSessions
  /\ OneSignInPerIp => \A w \in Workers : ~SigningIn(w, ip)
  /\ Serve(p, "check", SignIn(ip, ident))
  /\ UNCHANGED <<tables, netfilter, lock, reaping, calls, counters>>

\* /logout, and /internal/revoke-ip for the DHCP hook and the enforcer.
StartRevoke(p, ip) ==
  /\ Serve(p, "revoke", [NoRequest EXCEPT !.ip = ip])
  /\ UNCHANGED <<tables, netfilter, lock, reaping, calls, counters>>

\* A mistake: a re-login under another name goes unnoticed.
OtherNameIgnored(p) == FALSE
\* "if ip in AUTHED_IPS and ENS_NAMES.get(ip) != ident[...]", without the lock.
OtherName(p) == authed[req[p].ip] # None /\ ensName[req[p].ip] # req[p].name

Check(p) ==
  /\ pc[p] = "check"
  /\ Goto(p, IF OtherName(p) THEN "revoke" ELSE "name")
  /\ UNCHANGED <<tables, netfilter, lock, reaping, calls, counters>>

\* "ENS_NAMES[ip] = ident[...]", without the lock.
SetName(p) ==
  /\ pc[p] = "name"
  /\ ensName' = [ensName EXCEPT ![req[p].ip] = req[p].name]
  /\ Goto(p, "grant")
  /\ UNCHANGED <<authed, sessionId, groupCache, netfilter, lock, reaping, calls, counters>>

----------------------------------------------------------------------------
(* grant_access *)

\* The lock, the early return for an authed address, and the ACCEPT on top.
GrantAccept(p) ==
  /\ pc[p] = "grant"
  /\ lock = None
  /\ LET ip == req[p].ip IN
       IF authed[ip] # None
         THEN Goto(p, "idle") /\ UNCHANGED <<lock, forward>>
         ELSE /\ Goto(p, "rules")
              /\ lock' = p
              /\ forward' = <<Accept(ip)>> \o forward
  /\ UNCHANGED <<tables, marks, bypass, reaping, calls, counters>>

\* Bound: what may go wrong in one behaviour, a device off the link included.
Trouble == restarts + failures + timeouts + Cardinality(Ips \ neigh) < MaxTroubles

Fails == failures < MaxFailures /\ Trouble /\ failures' = failures + 1

\* _run_ok logs that iptables failed, and the handler goes on.
RunOk(allDone) == IF allDone THEN failures' = failures ELSE Fails

\* The pairs whose DROPs are among the rules F.
PairsOf(F) == {d \in Ips \X Ips : Drop(d[1], d[2]) \in F}

\* TIER_MARK has no such tier, or the ACCEPT itself raises: nothing is undone,
\* the name written before the call stays.
GrantRefused(p) ==
  /\ pc[p] = "grant"
  /\ lock = None
  /\ authed[req[p].ip] = None
  /\ Fails
  /\ Goto(p, "idle")
  /\ UNCHANGED <<tables, netfilter, lock, reaping, calls, issued, restarts, timeouts, slips>>

\* Marks, exemptions, and the isolation drops above the ACCEPT.  The first two
\* are inserted by _run, each DROP by _run_ok: a device whose DROPs fail is
\* admitted without them.
GrantRules(p) ==
  /\ pc[p] = "rules"
  /\ LET ip == req[p].ip IN
       /\ marks' = [marks EXCEPT ![ip] = <<req[p].tier>> \o @]
       /\ bypass' = [bypass EXCEPT ![ip] = @ + 1]
       /\ \E F \in SUBSET DropsFor(ip) :
            /\ RunOk(F = {})
            /\ forward' = Isolate(forward, ip, F)
            /\ spoilt' = spoilt \union PairsOf(F)
  /\ Goto(p, "record")
  /\ UNCHANGED <<tables, lock, reaping, calls, issued, restarts, timeouts, leaked>>

\* A deletion of the ACCEPT that failed leaves an opening.
Leaks(ip, F) ==
  leaked' = IF Accept(ip) \in F THEN [leaked EXCEPT ![ip] = @ + 1] ELSE leaked

\* An iptables call of _run raises: the ACCEPT is taken back by _run_ok, and
\* what was already inserted of the marks and exemptions stays.
GrantFail(p, marked, exempted) ==
  /\ pc[p] = "rules"
  /\ Fails
  /\ exempted => marked
  /\ LET ip == req[p].ip IN
       /\ marks' = [marks EXCEPT ![ip] = IF marked THEN <<req[p].tier>> \o @ ELSE @]
       /\ bypass' = [bypass EXCEPT ![ip] = IF exempted THEN @ + 1 ELSE @]
       /\ \E F \in SUBSET {Accept(ip)} :
            forward' = Retract(forward, ip, F) /\ Leaks(ip, F)
  /\ Release
  /\ Goto(p, "idle")
  /\ UNCHANGED <<tables, reaping, calls, issued, restarts, timeouts, spoilt>>

\* A mistake: one session id for all.
NewSessionReused == 1
NewSession == issued + 1

\* The tables, a fresh session id, and session-created, sent with the lock
\* held.  answer is what /internal/group-by-tier says to an empty cache; without
\* a group the enforcer is not told.  at is int(time.time()): two sessions of one
\* second are stamped alike, and the clock may be set back.
GrantRecord(p, answer, at) ==
  /\ pc[p] = "record"
  /\ LET ip == req[p].ip
         tier == req[p].tier
         sid == NewSession
         gid == IF groupCache[tier] # None THEN groupCache[tier] ELSE answer
     IN  /\ authed' = [authed EXCEPT ![ip] = tier]
         /\ sessionId' = [sessionId EXCEPT ![ip] = sid]
         /\ groupCache' = [groupCache EXCEPT ![tier] = gid]
         /\ IF gid = None
              THEN Goto(p, "idle") /\ Release /\ calls' = calls
              ELSE /\ pc' = [pc EXCEPT ![p] = "created"]
                   /\ req' = [req EXCEPT ![p].sid = sid]
                   /\ lock' = lock
                   /\ calls' = calls \union
                        {[call |-> "created", sid |-> sid, ip |-> ip, name |-> req[p].name,
                          user |-> req[p].user, tier |-> tier, group |-> gid, at |-> at]}
  /\ issued' = issued + 1
  /\ UNCHANGED <<ensName, netfilter, reaping, restarts, failures, timeouts, slips>>

----------------------------------------------------------------------------
(* revoke_access *)

AfterRevoke(p) == IF req[p].name = None THEN "idle" ELSE "name"

\* revoke_access of an address that is not authed returns at once.
RevokeNothing(p) ==
  /\ pc[p] = "revoke"
  /\ lock = None
  /\ authed[req[p].ip] = None
  /\ Goto(p, AfterRevoke(p))
  /\ UNCHANGED <<tables, netfilter, lock, reaping, calls, counters>>

\* The lock, and one deletion (of the first match) per rule.  Every deletion is
\* by _run_ok: F are the rules that stay, and the mark and the exemptions may.
RevokeRules(p) ==
  /\ pc[p] = "revoke"
  /\ lock = None
  /\ authed[req[p].ip] # None
  /\ lock' = p
  /\ LET ip == req[p].ip IN
       \E F \in SUBSET ({Accept(ip)} \union DropsFor(ip)), unmarked, unexempted \in BOOLEAN :
         /\ RunOk(F = {} /\ unmarked /\ unexempted)
         /\ forward' = Unisolate(Retract(forward, ip, F), ip, F)
         /\ marks' = IF unmarked THEN [marks EXCEPT ![ip] = RemoveFirst(@, authed[ip])] ELSE marks
         /\ bypass' = IF unexempted THEN [bypass EXCEPT ![ip] = IF @ > 0 THEN @ - 1 ELSE 0]
                                    ELSE bypass
         /\ Leaks(ip, F)
         /\ spoilt' = {d \in spoilt \union PairsOf(F) : d[1] # ip}
  /\ Goto(p, "forget")
  /\ UNCHANGED <<tables, reaping, calls, issued, restarts, timeouts>>

\* The tables, and session-ended, sent with the lock held.
RevokeForget(p) ==
  /\ pc[p] = "forget"
  /\ LET ip == req[p].ip IN
       /\ authed' = [authed EXCEPT ![ip] = None]
       /\ ensName' = [ensName EXCEPT ![ip] = None]
       /\ sessionId' = [sessionId EXCEPT ![ip] = 0]
       /\ req' = [req EXCEPT ![p].sid = sessionId[ip]]
       /\ calls' = calls \union {[call |-> "ended", sid |-> sessionId[ip]]}
  /\ pc' = [pc EXCEPT ![p] = "ended"]
  /\ UNCHANGED <<groupCache, netfilter, lock, reaping, counters>>

\* A notification returns, answered or refused, and the lock is released.
Pending(p) == \E c \in calls : c.call = pc[p] /\ c.sid = req[p].sid

NotifyEnd(p) ==
  /\ pc[p] \in {"created", "ended"}
  /\ Goto(p, IF pc[p] = "ended" THEN AfterRevoke(p) ELSE "idle")
  /\ Release
  /\ UNCHANGED <<tables, netfilter, reaping, calls, issued, restarts, failures, slips>>

NotifyReturn(p) == ~Pending(p) /\ NotifyEnd(p) /\ UNCHANGED timeouts

\* timeout=2 passes while the notification is still on its way; it may yet arrive.
NotifyTimeout(p) ==
  /\ Pending(p)
  /\ timeouts < MaxTimeouts /\ Trouble
  /\ timeouts' = timeouts + 1
  /\ NotifyEnd(p)

\* The enforcer takes a notification off the wire, or it is lost.
Deliver(c) ==
  /\ calls' = calls \ {c}
  /\ UNCHANGED <<tables, netfilter, threads, reaping, counters>>

----------------------------------------------------------------------------
(* The reaper, the neighbour table, and a restart of the process *)

\* A mistake: every sweep over an authed address counts as a sighting.
SightingRenewed(ip) == IF ip \in neigh \/ authed[ip] # None THEN 0 ELSE None
\* A live entry is a sighting; the first sweep over an authed address counts
\* as one, so that grace applies.
Sighting(ip) ==
  CASE ip \in neigh -> 0
    [] ip \notin neigh /\ lastSeen[ip] # None -> Min({lastSeen[ip] + 1, TtlSweeps})
    [] ip \notin neigh /\ lastSeen[ip] = None -> IF authed[ip] # None THEN 0 ELSE None

\* _reaper_loop up to the list of stale addresses; AUTHED_IPS is read under the lock.
Sweep ==
  /\ pc[Reaper] = "idle"
  /\ lock = None
  /\ doomed = {}
  /\ lastSeen' = [ip \in Ips |-> Sighting(ip)]
  /\ doomed' = {ip \in Ips : authed[ip] # None /\ Sighting(ip) = TtlSweeps}
  /\ UNCHANGED <<tables, netfilter, threads, neigh, calls, counters>>

\* The next stale address: revoke_access, and last_seen.pop.
Reap(ip) ==
  /\ ip \in doomed
  /\ Serve(Reaper, "revoke", [NoRequest EXCEPT !.ip = ip])
  /\ doomed' = doomed \ {ip}
  /\ lastSeen' = [lastSeen EXCEPT ![ip] = None]
  /\ UNCHANGED <<tables, netfilter, lock, neigh, calls, counters>>

\* A device appears on the link, or its neighbour entry goes.
Appear(ip) ==
  /\ ip \notin neigh
  /\ neigh' = neigh \union {ip}
  /\ UNCHANGED <<tables, netfilter, threads, lastSeen, doomed, calls, counters>>

Vanish(ip) ==
  /\ ip \in neigh \intersect Leavers /\ Trouble
  /\ neigh' = neigh \ {ip}
  /\ UNCHANGED <<tables, netfilter, threads, lastSeen, doomed, calls, counters>>

\* The process dies, systemd starts it again: _flush_portal_rules empties the
\* mangle and nat chains and the tables, and leaves FORWARD as it is.
Restart ==
  /\ restarts < MaxRestarts /\ Trouble
  /\ restarts' = restarts + 1
  /\ authed' = [ip \in Ips |-> None]
  /\ sessionId' = [ip \in Ips |-> 0]
  /\ ensName' = [ip \in Ips |-> None]
  /\ groupCache' = [t \in Tiers |-> None]
  /\ marks' = [ip \in Ips |-> <<>>]
  /\ bypass' = [ip \in Ips |-> 0]
  /\ lock' = None
  /\ pc' = [p \in Procs |-> "idle"]
  /\ req' = [p \in Procs |-> NoRequest]
  /\ lastSeen' = [ip \in Ips |-> None]
  /\ doomed' = {}
  /\ spoilt' = {}
  /\ UNCHANGED <<forward, neigh, calls, issued, failures, timeouts, leaked>>

----------------------------------------------------------------------------

Init ==
  /\ authed = [ip \in Ips |-> None]
  /\ sessionId = [ip \in Ips |-> 0]
  /\ ensName = [ip \in Ips |-> None]
  /\ groupCache = [t \in Tiers |-> None]
  /\ forward = <<>>
  /\ marks = [ip \in Ips |-> <<>>]
  /\ bypass = [ip \in Ips |-> 0]
  /\ lock = None
  /\ pc = [p \in Procs |-> "idle"]
  /\ req = [p \in Procs |-> NoRequest]
  /\ lastSeen = [ip \in Ips |-> None]
  /\ doomed = {}
  /\ neigh = Ips
  /\ calls = {}
  /\ issued = 0
  /\ restarts = 0
  /\ failures = 0
  /\ timeouts = 0
  /\ leaked = [ip \in Ips |-> 0]
  /\ spoilt = {}

Handle(p) ==
  \/ Check(p) \/ SetName(p)
  \/ GrantAccept(p) \/ GrantRefused(p) \/ GrantRules(p)
  \/ \E marked, exempted \in BOOLEAN : GrantFail(p, marked, exempted)
  \/ \E answer \in Groups \union {None}, at \in Stamps : GrantRecord(p, answer, at)
  \/ RevokeNothing(p) \/ RevokeRules(p) \/ RevokeForget(p)
  \/ NotifyReturn(p) \/ NotifyTimeout(p)

Request(p) ==
  \E ip \in Ips : StartRevoke(p, ip) \/ \E ident \in Idents : StartAdmit(p, ip, ident)

ReaperStep == Sweep \/ \E ip \in Ips : Reap(ip)
Link == \E ip \in Ips : Appear(ip) \/ Vanish(ip)

Next ==
  \/ \E p \in Procs : Handle(p)
  \/ \E w \in Workers : Request(w)
  \/ ReaperStep
  \/ Link
  \/ \E c \in calls : Deliver(c)
  \/ Restart

Spec == Init /\ [][Next]_vars

----------------------------------------------------------------------------
(* What the gateway owes its guests *)

Labels == {"idle", "check", "name", "grant", "rules", "record", "created",
           "revoke", "forget", "ended"}

Created == [call : {"created"}, sid : Nat, ip : Ips, name : Names, user : Names \union {None},
            tier : Tiers, group : Groups, at : Stamps]
Ended == [call : {"ended"}, sid : Nat]
Locals == [ip : Ips \union {None}, name : Names \union {None}, tier : Tiers \union {None},
           user : Names \union {None}, sid : Nat]

TablesOK ==
  /\ authed \in [Ips -> Tiers \union {None}]
  /\ sessionId \in [Ips -> Nat]
  /\ ensName \in [Ips -> Names \union {None}]
  /\ groupCache \in [Tiers -> Groups \union {None}]
  /\ marks \in [Ips -> Seq(Tiers)]
  /\ bypass \in [Ips -> Nat]
  /\ lock \in Procs \union {None}
  /\ pc \in [Procs -> Labels]
  /\ req \in [Procs -> Locals]
  /\ lastSeen \in [Ips -> 0..TtlSweeps \union {None}]
  /\ doomed \subseteq Ips
  /\ neigh \subseteq Ips
  /\ calls \subseteq Created \union Ended
  /\ issued \in Nat /\ restarts \in Nat /\ failures \in Nat /\ timeouts \in Nat

SlipsOK == leaked \in [Ips -> Nat] /\ spoilt \subseteq Ips \X Ips

TypeOK == TablesOK /\ SlipsOK /\ forward \in Seq(Rules)

\* An address whose rules are being set up or taken down by the lock's owner.
At(ip, labels) == \E p \in Procs : pc[p] \in labels /\ req[p].ip = ip
Admitted(ip) == authed[ip] # None /\ ~At(ip, {"forget"})
Holds(ip) == IF Admitted(ip) \/ At(ip, {"rules", "record"}) THEN 1 ELSE 0

\* Two admitted devices exchange packets exactly when they belong to one ENS
\* name: the first matching rule between strangers is a DROP in both
\* directions, and between the devices of one person an ACCEPT
\* (_apply_ens_isolation), whatever joined, left or restarted before.  A call
\* that fails and is only logged (_run_ok) spoils no more than the direction its
\* DROP is about, and that only until the sender leaves.
StrangersIsolated ==
  \A a, b \in Ips :
    a # b /\ Admitted(a) /\ Admitted(b) /\ <<a, b>> \notin spoilt =>
      Verdict(a, b) = IF ensName[a] = ensName[b] /\ ensName[a] # None THEN "ACCEPT" ELSE "DROP"

\* The chain holds one ACCEPT per device that is admitted or being admitted and
\* not one more, except what a restart has orphaned and one for every deletion
\* that failed: no interleaving of grants, failed grants, re-logins and
\* revocations leaks an opening otherwise.
AcceptsAccounted ==
  \A ip \in Ips :
    RuleCount(Accept(ip)) \in Holds(ip)..(Holds(ip) + restarts + leaked[ip])

\* An address has a session id exactly while it is authed, and no two share one:
\* session-ended always names the session that grant opened for the device.
SessionPerDevice ==
  /\ \A ip \in Ips : sessionId[ip] = 0 <=> authed[ip] = None
  /\ \A a, b \in Ips : a # b /\ sessionId[a] # 0 => sessionId[a] # sessionId[b]

\* The person behind an admitted address never changes in place: a sign-in
\* under another name goes through a revocation first (test_relogin.py).
NameFixedWhileAdmitted ==
  [][\A ip \in Ips : Admitted(ip) /\ authed'[ip] # None => ensName'[ip] = ensName[ip]]_vars

\* A device that stays away is put out: once its neighbour entry is gone for
\* good, some later sweep revokes it (_reaper_loop).
GoneIsRevoked ==
  \A ip \in Ips : <>[](ip \notin neigh) => <>[](authed[ip] = None)

\* Every request is answered, and every revocation of the reaper ends: nobody
\* keeps _state_lock across a failed grant, a lost notification or a timeout.
RequestsEnd == \A p \in Procs : pc[p] # "idle" ~> pc[p] = "idle"

\* "ENS_NAMES: ip -> ENS name entered at portal login" (app.py:90): a device is
\* admitted under a name.
AdmittedHasName == \A ip \in Ips : Admitted(ip) => ensName[ip] # None

\* "every ENS user isolated from every other" (2026-09-26-ens-identity-vlan-design.md:45).
EveryUserIsolated ==
  \A a, b \in Ips :
    Admitted(a) /\ Admitted(b) /\ ensName[a] # ensName[b] => Verdict(a, b) = "DROP"

\* A device that is not admitted, and is not being admitted, is forwarded nothing.
UnadmittedIsBlocked ==
  \A ip \in Ips : Holds(ip) = 0 => Accept(ip) \notin ToSet(forward)
=============================================================================
