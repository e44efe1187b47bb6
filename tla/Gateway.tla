------------------------------- MODULE Gateway -------------------------------
(***************************************************************************)
(* A branch gateway: the portal (Portal) and the enforcer (Enforcer), two  *)
(* processes on one host that speak HTTP over the loopback.  The portal    *)
(* asks who a name is and which group a tier means, and reports sessions;  *)
(* the enforcer asks it to put addresses out.  A call may be lost, or      *)
(* processed after its caller has stopped waiting.                         *)
(***************************************************************************)
EXTENDS Portal

CONSTANTS
  Anon, Denied, NoGroup, SeedGroups, SeedUsers, SeedPublished, MaxAdmin,
  Reachable,      \* what a lookup may find of the console: TRUE, FALSE or both
  MaxMishaps      \* bound: restarts, timeouts, failed grants and lost calls together

VARIABLES
  groupTier, users, session, posts, published, admin,
  astray,         \* history: sessions one process was not told about
  lost            \* calls lost so far

Sids == 1..MaxSessions

Enf == INSTANCE Enforcer

\* The databases a gateway starts with, and what a lookup may answer.
ASSUME GatewayAssumption ==
  /\ IsFiniteSet(Workers)
  /\ [name : Names, tier : Tiers, user : Names \union {None}] \subseteq Idents
  /\ None \notin Enf!UserRows \union Enf!SessionRows
  /\ SeedGroups \in [Groups -> Tiers \union {None}]
  /\ SeedUsers \in [Enf!Users -> Enf!UserRows \union {None}]
  /\ \A u \in Enf!Users :
       SeedUsers[u] # None /\ SeedUsers[u].group # None => SeedGroups[SeedUsers[u].group] # None
  /\ SeedPublished \in [Names -> Groups \union {Denied, NoGroup}]
  /\ MaxAdmin \in Nat

enforcer == <<groupTier, users, session, posts, published, admin>>
gatewayVars == <<vars, enforcer, astray, lost>>

----------------------------------------------------------------------------
(* The portal's steps that involve the enforcer *)

Mishap == restarts + timeouts + failures + lost < MaxMishaps

\* A sign-in, with the enforcer's answer of that moment.
SignInAs(p, ip, n) ==
  /\ \E reachable \in Reachable : \E ident \in Enf!EnsLookup(n, reachable) :
       StartAdmit(p, ip, ident)
  /\ UNCHANGED <<enforcer, astray, lost>>

\* Without a group the enforcer never learns of the session.
Record(p) ==
  /\ \E answer \in Enf!GroupByTier(req[p].tier), at \in Stamps : GrantRecord(p, answer, at)
  /\ astray' = IF calls' = calls THEN astray \union {issued'} ELSE astray
  /\ UNCHANGED <<enforcer, lost>>

\* The steps of a handler the enforcer takes no part in.
Alone(p) ==
  /\ \/ Check(p) \/ SetName(p) \/ GrantAccept(p) \/ GrantRefused(p) \/ GrantRules(p)
     \/ \E marked, exempted \in BOOLEAN : GrantFail(p, marked, exempted)
     \/ RevokeNothing(p) \/ RevokeRules(p) \/ RevokeForget(p) \/ NotifyReturn(p)
  /\ failures' # failures => Mishap
  /\ UNCHANGED <<enforcer, astray, lost>>

GiveUp(p) ==
  /\ Mishap
  /\ NotifyTimeout(p)
  /\ astray' = astray \union {req[p].sid}
  /\ UNCHANGED <<enforcer, lost>>

\* The enforcer processes a notification.
Receive(c) ==
  /\ Deliver(c)
  /\ IF c.call = "created" THEN Enf!SessionCreated(c) ELSE Enf!SessionEnded(c.sid)
  /\ astray' = IF c.call = "created" /\ session'[c.sid] = None
                 THEN astray \union {c.sid} ELSE astray
  /\ UNCHANGED lost

Lose == Mishap /\ lost' = lost + 1

LoseCall(c) ==
  /\ Lose
  /\ Deliver(c)
  /\ astray' = astray \union {c.sid}
  /\ UNCHANGED enforcer

\* A free thread of the portal takes a revoke-ip of the enforcer.
TakePost(p, m) ==
  /\ StartRevoke(p, m.ip)
  /\ posts' = posts \ {m}
  /\ UNCHANGED <<groupTier, users, session, published, admin, astray, lost>>

LosePost(m) ==
  /\ Lose
  /\ posts' = posts \ {m}
  /\ astray' = astray \union {m.sid}
  /\ UNCHANGED <<vars, groupTier, users, session, published, admin>>

\* The portal forgets its sessions; the enforcer is not told.
Crash ==
  /\ Mishap
  /\ Restart
  /\ astray' = astray \union {sessionId[ip] : ip \in {i \in Ips : authed[i] # None}}
                      \union {req[p].sid : p \in {q \in Procs : req[q].sid # 0}}
  /\ UNCHANGED <<enforcer, lost>>

Leave(w, ip) == StartRevoke(w, ip) /\ UNCHANGED <<enforcer, astray, lost>>

Background == (ReaperStep \/ Link) /\ UNCHANGED <<enforcer, astray, lost>>

Admin == Enf!Manage /\ UNCHANGED <<vars, astray, lost>>

Dismiss(u) ==
  /\ Enf!DeleteUser(u)
  /\ astray' = astray \union Enf!SessionsOf(u)
               \union {c.sid : c \in {d \in calls : d.call = "created"}}
  /\ UNCHANGED <<vars, lost>>

----------------------------------------------------------------------------

GatewayInit == Init /\ Enf!Init /\ astray = {} /\ lost = 0

HandleG(p) == Alone(p) \/ Record(p) \/ GiveUp(p)
Receives == \E c \in calls : Receive(c)
TakePosts == \E w \in Workers, m \in posts : TakePost(w, m)

GatewayNext ==
  \/ \E p \in Procs : HandleG(p)
  \/ \E w \in Workers, ip \in Ips : Leave(w, ip) \/ \E n \in Names : SignInAs(w, ip, n)
  \/ Receives \/ TakePosts
  \/ \E c \in calls : LoseCall(c)
  \/ \E m \in posts : LosePost(m)
  \/ Background \/ Crash \/ Admin
  \/ \E u \in Enf!Users : Dismiss(u)

GatewaySpec == GatewayInit /\ [][GatewayNext]_gatewayVars

\* A thread that can run does, the reaper wakes after every sleep, a call on the loopback
\* is answered; a revoke-ip waits for a thread, and there is one again and again.
\* Requests, the link, administrators and restarts owe nothing.
GatewayFairness ==
  /\ \A p \in Procs : WF_gatewayVars(HandleG(p))
  /\ WF_gatewayVars(ReaperStep /\ UNCHANGED <<enforcer, astray, lost>>)
  /\ WF_gatewayVars(Receives)
  /\ SF_gatewayVars(TakePosts)

FairGateway == GatewaySpec /\ GatewayFairness

----------------------------------------------------------------------------
(* What the two processes owe each other *)

GatewayTypeOK ==
  /\ TypeOK
  /\ Enf!TypeOK
  /\ astray \subseteq Sids
  /\ lost \in 0..MaxMishaps

EnforcerReferences == Enf!References

Ending(s) == \E c \in calls : c.call = "ended" /\ c.sid = s
Opening(s) == \E c \in calls : c.call = "created" /\ c.sid = s
BeingPutOut(ip) == (\E m \in posts : m.ip = ip) \/ At(ip, {"revoke"})

\* The portal holds _state_lock while it reports, so reports arrive in the order
\* in which sessions open and end: an active row is the portal's current session
\* of its address, or its end is on the wire.
ActiveIsCurrent ==
  \A s \in Sids \ astray :
    Enf!Active(s) => sessionId[session[s].ip] = s \/ Ending(s)

\* Conversely an admitted device has an active row in the name the portal shows
\* (when it shows one: AdmittedHasName), unless the report of it is on the wire or
\* a revocation is on its way to the portal.
CurrentIsActive ==
  \A ip \in Ips :
    LET s == sessionId[ip] IN
      Admitted(ip) /\ s \notin astray /\ ~Opening(s) =>
        /\ session[s] # None
        /\ ensName[ip] \in {None, session[s].name}
        /\ Enf!Active(s) \/ BeingPutOut(ip)

\* Whatever was lost, late or forgotten before, and whatever the clock does: the
\* requests of a device whose current session the enforcer knows are billed to
\* that session, in the name the portal shows; or else to one whose end the
\* enforcer has not been told, and only if the clock did not move on from it.
BilledAsAdmitted ==
  \A ip \in Ips :
    LET s == sessionId[ip] IN
      Admitted(ip) /\ Enf!Active(s) =>
        \A r \in Enf!Billed(ip) :
          \/ r = s /\ ensName[ip] \in {None, session[s].name}
          \/ session[r].at >= session[s].at /\ (r \in astray \/ Ending(r))

\* A revoked session ends at the portal too, when its revoke-ip is not lost; what
\* that leaves of its rules when iptables fails is AcceptsAccounted's matter.
RevokedIsPutOut ==
  \A s \in Sids :
    session[s] # None /\ session[s].revoked ~> \A ip \in Ips : sessionId[ip] # s \/ s \in astray

\* "for NAT/shared IPs, most recent session wins" (auth.py:46): requests are billed to
\* the session the device opened last.
MostRecentWins ==
  \A ip \in Ips : Admitted(ip) /\ Enf!Active(sessionId[ip]) => Enf!Billed(ip) = {sessionId[ip]}

\* "ENS is the authority on which group a name belongs to" (proxy.py:1488).
SessionInPublishedGroup ==
  \A s \in Sids :
    session[s] # None /\ published[session[s].name] \in Groups =>
      session[s].group = published[session[s].name]

\* "Resolve user_id: prefer ENS lookup, then wallet lookup, then sentinel"
\* (proxy.py:1543): a session is its member's when the member has a row.
SessionOfItsMember ==
  [][\A s \in Sids :
       session[s] = None /\ session'[s] # None /\ users[session'[s].name] # None =>
         session'[s].user = session'[s].name]_gatewayVars
=============================================================================
