---------------------------- MODULE GatewayProofs ----------------------------
(***************************************************************************)
(* Theorems about Gateway and about Portal, which it extends, for any      *)
(* devices, threads, members, groups and bounds.  Part one looks at the    *)
(* portal alone: Spec is its specification.  Part two sets the enforcer    *)
(* beside it: GatewaySpec.  Every step of a gateway is a step of the       *)
(* portal, or none to it, so that what part one proves holds in part two.  *)
(***************************************************************************)
EXTENDS Gateway, SequenceTheorems, FiniteSetTheorems, WellFoundedInduction, TLAPS

----------------------------------------------------------------------------
(* PART ONE: the portal *)

LEMMA MinNat ==
  ASSUME NEW S, S \subseteq Nat, S # {}
  PROVE  Min(S) \in S /\ \A y \in S : Min(S) =< y
<1>1. PICK x \in S : \A y \in S : ~ (<<y, x>> \in OpToRel(<, Nat))
  BY WFMin, NatLessThanWellFounded
<1>2. \A y, z \in Nat : y < z => <<y, z>> \in OpToRel(<, Nat)
  BY Zenon DEF OpToRel
<1>3. \A y \in S : ~ (y < x)
  BY <1>1, <1>2, Zenon
<1>4. \A y \in S : x =< y
  BY <1>3
<1> QED
  BY <1>4 DEF Min

LEMMA RemoveAtType ==
  ASSUME NEW S, NEW s \in Seq(S), NEW i \in 1..Len(s)
  PROVE  RemoveAt(s, i) \in Seq(S)
<1>1. SubSeq(s, 1, i - 1) \in Seq(S)
  BY SubSeqProperties, ElementOfSeq
<1>2. SubSeq(s, i + 1, Len(s)) \in Seq(S)
  BY SubSeqProperties, ElementOfSeq
<1> QED
  BY <1>1, <1>2, ConcatProperties DEF RemoveAt

LEMMA RemoveFirstType ==
  ASSUME NEW S, NEW s \in Seq(S), NEW e
  PROVE  RemoveFirst(s, e) \in Seq(S)
<1>1. CASE \E i \in 1..Len(s) : s[i] = e
  <2> DEFINE I == {i \in 1..Len(s) : s[i] = e}
  <2>1. I \subseteq Nat /\ I # {}
    BY <1>1
  <2>2. Min(I) \in I
    BY <2>1, MinNat
  <2>3. RemoveFirst(s, e) = RemoveAt(s, Min(I))
    BY <1>1 DEF RemoveFirst, SelectInSeq
  <2> QED
    BY <2>2, <2>3, RemoveAtType
<1>2. CASE ~ \E i \in 1..Len(s) : s[i] = e
  BY <1>2 DEF RemoveFirst
<1> QED
  BY <1>1, <1>2

----------------------------------------------------------------------------
(* The inductive invariant *)

Owning == {"rules", "record", "created", "forget", "ended"}
SignsIn == {"check", "name", "grant", "rules", "record", "created"}

\* _state_lock belongs to the thread that is inside a critical section.
LockOK == \A p \in Procs : pc[p] \in Owning <=> lock = p

\* A request has an address for as long as it lasts, and a grant has its identity.
Fits(l, r) ==
  /\ l # "idle" => r.ip \in Ips
  /\ r.name # None => r.tier \in Tiers
  /\ l \in SignsIn => r.name # None

RequestsOK == \A p \in Procs : Fits(pc[p], req[p])

\* What was read of AUTHED_IPS under the lock still holds under the lock.
AuthFits(tier, l, r) ==
  /\ l \in {"rules", "record"} => tier[r.ip] = None
  /\ l = "forget" => tier[r.ip] # None

AuthOK == \A p \in Procs : AuthFits(authed, pc[p], req[p])

\* Session ids in use have been issued, so the next one is not in use.
IssuedOK == \A ip \in Ips : sessionId[ip] <= issued

ThreadTypes ==
  pc \in [Procs -> Labels] /\ req \in [Procs -> Locals] /\ lock \in Procs \union {None}

ThreadsOK == LockOK /\ RequestsOK /\ AuthOK
SessionsOK == IssuedOK /\ SessionPerDevice
PortalInv == TablesOK /\ ThreadsOK /\ SessionsOK

LEMMA InitInv == Init => PortalInv
<1> SUFFICES ASSUME Init PROVE PortalInv
  OBVIOUS
<1> USE PortalAssumption DEF Init
<1>1. TablesOK
  BY EmptySeq DEF TablesOK, Locals, Labels, NoRequest, Procs
<1>2. ThreadsOK
  BY DEF ThreadsOK, LockOK, RequestsOK, AuthOK, Fits, AuthFits, Owning, SignsIn, NoRequest, Procs
<1>3. SessionsOK
  BY DEF SessionsOK, IssuedOK, SessionPerDevice
<1> QED
  BY <1>1, <1>2, <1>3 DEF PortalInv

----------------------------------------------------------------------------
(* What a step does to the thread that takes it *)

Moves(p, l, r) == pc' = [pc EXCEPT ![p] = l] /\ req' = [req EXCEPT ![p] = r]

\* The thread stays outside; or the lock follows the label, and was free or its own.
Holding(p, l) ==
  \/ l \notin Owning /\ lock # p /\ lock' = lock
  \/ lock \in {None, p} /\ lock' = IF l \in Owning THEN p ELSE None

LEMMA GotoMoves ==
  ASSUME TablesOK, NEW p \in Procs, NEW l, Goto(p, l)
  PROVE  Moves(p, l, IF l = "idle" THEN NoRequest ELSE req[p])
BY DEF TablesOK, Goto, Moves

LEMMA NoRequestFits == NoRequest \in Locals /\ NoRequest.name = None /\ Fits("idle", NoRequest)
BY DEF NoRequest, Locals, Fits, SignsIn

LEMMA MovesType ==
  ASSUME TablesOK, NEW p \in Procs, NEW l \in Labels, NEW r \in Locals, Moves(p, l, r)
  PROVE  pc' \in [Procs -> Labels] /\ req' \in [Procs -> Locals]
BY DEF TablesOK, Moves

LEMMA MovesRequests ==
  ASSUME TablesOK, RequestsOK, NEW p \in Procs, NEW l, NEW r, Moves(p, l, r), Fits(l, r)
  PROVE  RequestsOK'
<1> SUFFICES ASSUME NEW q \in Procs PROVE Fits(pc[q], req[q])'
  BY DEF RequestsOK
<1>1. CASE q = p
  BY <1>1 DEF Moves, TablesOK, Fits
<1>2. CASE q # p
  BY <1>2 DEF Moves, TablesOK, Fits, RequestsOK
<1> QED
  BY <1>1, <1>2

LEMMA MovesLock ==
  ASSUME TablesOK, LockOK, NEW p \in Procs, NEW l, NEW r, Moves(p, l, r), Holding(p, l)
  PROVE  LockOK'
<1> SUFFICES ASSUME NEW q \in Procs PROVE (pc[q] \in Owning <=> lock = q)'
  BY DEF LockOK
<1>0. None \notin Procs
  BY PortalAssumption
<1>1. CASE q = p
  BY <1>0, <1>1 DEF Moves, TablesOK, Holding
<1>2. CASE q # p
  BY <1>0, <1>2 DEF Moves, TablesOK, Holding, LockOK
<1> QED
  BY <1>1, <1>2

LEMMA MovesAuth ==
  ASSUME TablesOK, LockOK, AuthOK, NEW p \in Procs, NEW l, NEW r, Moves(p, l, r),
         AuthFits(authed', l, r),
         authed' = authed \/ lock = p
  PROVE  AuthOK'
<1> SUFFICES ASSUME NEW q \in Procs PROVE AuthFits(authed, pc[q], req[q])'
  BY DEF AuthOK
<1>1. CASE q = p
  BY <1>1 DEF Moves, TablesOK, AuthFits
<1>2. CASE q # p
  BY <1>2 DEF Moves, TablesOK, AuthFits, AuthOK, LockOK, Owning
<1> QED
  BY <1>1, <1>2

LEMMA MovesThreads ==
  ASSUME TablesOK, ThreadsOK, NEW p \in Procs, NEW l \in Labels, NEW r \in Locals,
         Moves(p, l, r), Fits(l, r), Holding(p, l), AuthFits(authed', l, r),
         authed' = authed \/ lock = p
  PROVE  ThreadsOK' /\ ThreadTypes'
<1>1. ThreadsOK'
  BY MovesRequests, MovesLock, MovesAuth DEF ThreadsOK
<1>2. lock' \in Procs \union {None}
  BY DEF Holding, TablesOK
<1> QED
  BY <1>1, <1>2, MovesType DEF ThreadTypes

\* A step that leaves the tables of sessions alone.
LEMMA SameSessions ==
  ASSUME SessionsOK, UNCHANGED <<sessionId, authed, issued>>
  PROVE  SessionsOK'
BY DEF SessionsOK, IssuedOK, SessionPerDevice

----------------------------------------------------------------------------
(* The steps of a request *)

LEMMA StartAdmitInv ==
  ASSUME PortalInv, NEW p \in Workers, NEW ip \in Ips, NEW ident \in Idents, StartAdmit(p, ip, ident)
  PROVE  PortalInv'
<1> DEFINE r == SignIn(ip, ident)
<1> USE DEF PortalInv
<1>1. ident \in [name : Names, tier : Tiers, user : Names \union {None}] /\ None \notin Names
  BY PortalAssumption
<1>2. r \in Locals /\ Fits("check", r)
  BY <1>1 DEF SignIn, NoRequest, Locals, Fits
<1>3. /\ p \in Procs /\ pc[p] = "idle" /\ Moves(p, "check", r)
      /\ UNCHANGED <<authed, sessionId, ensName, groupCache, marks, bypass, lock, lastSeen,
                     doomed, neigh, calls, issued, restarts, failures, timeouts>>
  BY DEF StartAdmit, Serve, Moves, Procs, tables, netfilter, reaping, counters
<1>4. Holding(p, "check") /\ AuthFits(authed', "check", r)
  BY <1>3 DEF Holding, AuthFits, ThreadsOK, LockOK, Owning
<1>5. ThreadsOK' /\ ThreadTypes'
  BY <1>2, <1>3, <1>4, MovesThreads DEF Labels
<1>6. TablesOK'
  BY <1>3, <1>5 DEF TablesOK, ThreadTypes
<1>7. SessionsOK'
  BY <1>3, SameSessions
<1> QED
  BY <1>5, <1>6, <1>7

LEMMA StartRevokeInv ==
  ASSUME PortalInv, NEW p \in Workers, NEW ip \in Ips, StartRevoke(p, ip)
  PROVE  PortalInv'
<1> DEFINE r == [NoRequest EXCEPT !.ip = ip]
<1> USE DEF PortalInv
<1>1. r \in Locals /\ Fits("revoke", r)
  BY DEF NoRequest, Locals, Fits, SignsIn
<1>2. /\ p \in Procs /\ pc[p] = "idle" /\ Moves(p, "revoke", r)
      /\ UNCHANGED <<authed, sessionId, ensName, groupCache, marks, bypass, lock, lastSeen,
                     doomed, neigh, calls, issued, restarts, failures, timeouts>>
  BY DEF StartRevoke, Serve, Moves, Procs, tables, netfilter, reaping, counters
<1>3. Holding(p, "revoke") /\ AuthFits(authed', "revoke", r)
  BY <1>2 DEF Holding, AuthFits, ThreadsOK, LockOK, Owning
<1>4. ThreadsOK' /\ ThreadTypes'
  BY <1>1, <1>2, <1>3, MovesThreads DEF Labels
<1>5. TablesOK'
  BY <1>2, <1>4 DEF TablesOK, ThreadTypes
<1>6. SessionsOK'
  BY <1>2, SameSessions
<1> QED
  BY <1>4, <1>5, <1>6

LEMMA CheckInv ==
  ASSUME PortalInv, NEW p \in Procs, Check(p)
  PROVE  PortalInv'
<1> DEFINE l == IF OtherName(p) THEN "revoke" ELSE "name"
<1> USE DEF PortalInv
<1>1. /\ pc[p] = "check" /\ Moves(p, l, req[p])
      /\ UNCHANGED <<authed, sessionId, ensName, groupCache, marks, bypass, lock, lastSeen,
                     doomed, neigh, calls, issued, restarts, failures, timeouts>>
  BY GotoMoves DEF Check, tables, netfilter, reaping, counters
<1>2. l \in Labels /\ req[p] \in Locals /\ Fits(l, req[p])
  BY <1>1 DEF Labels, TablesOK, ThreadsOK, RequestsOK, Fits, SignsIn
<1>3. Holding(p, l) /\ AuthFits(authed', l, req[p])
  BY <1>1 DEF Holding, AuthFits, ThreadsOK, LockOK, Owning
<1> HIDE DEF l
<1>4. ThreadsOK' /\ ThreadTypes'
  BY <1>1, <1>2, <1>3, MovesThreads
<1>5. TablesOK'
  BY <1>1, <1>4 DEF TablesOK, ThreadTypes
<1>6. SessionsOK'
  BY <1>1, SameSessions
<1> QED
  BY <1>4, <1>5, <1>6

LEMMA SetNameInv ==
  ASSUME PortalInv, NEW p \in Procs, SetName(p)
  PROVE  PortalInv'
<1> USE DEF PortalInv
<1>1. /\ pc[p] = "name" /\ Moves(p, "grant", req[p])
      /\ ensName' = [ensName EXCEPT ![req[p].ip] = req[p].name]
      /\ UNCHANGED <<authed, sessionId, groupCache, marks, bypass, lock, lastSeen,
                     doomed, neigh, calls, issued, restarts, failures, timeouts>>
  BY GotoMoves DEF SetName, netfilter, reaping, counters
<1>2. req[p] \in Locals /\ Fits("grant", req[p])
  BY <1>1 DEF TablesOK, ThreadsOK, RequestsOK, Fits, SignsIn
<1>3. Holding(p, "grant") /\ AuthFits(authed', "grant", req[p])
  BY <1>1 DEF Holding, AuthFits, ThreadsOK, LockOK, Owning
<1>4. ThreadsOK' /\ ThreadTypes'
  BY <1>1, <1>2, <1>3, MovesThreads DEF Labels
<1>5. ensName' \in [Ips -> Names \union {None}]
  BY <1>1, <1>2 DEF TablesOK, Fits, Locals
<1>6. TablesOK'
  BY <1>1, <1>4, <1>5 DEF TablesOK, ThreadTypes
<1>7. SessionsOK'
  BY <1>1, SameSessions
<1> QED
  BY <1>4, <1>6, <1>7

LEMMA GrantAcceptInv ==
  ASSUME PortalInv, NEW p \in Procs, GrantAccept(p)
  PROVE  PortalInv'
<1> DEFINE l == IF authed[req[p].ip] # None THEN "idle" ELSE "rules"
           r == IF authed[req[p].ip] # None THEN NoRequest ELSE req[p]
<1> USE DEF PortalInv
<1>1. /\ pc[p] = "grant" /\ lock = None /\ Moves(p, l, r)
      /\ lock' = IF l \in Owning THEN p ELSE None
      /\ UNCHANGED <<authed, sessionId, ensName, groupCache, marks, bypass, lastSeen,
                     doomed, neigh, calls, issued, restarts, failures, timeouts>>
  <2>1. CASE authed[req[p].ip] # None
    BY <2>1, GotoMoves DEF GrantAccept, tables, reaping, counters, Owning
  <2>2. CASE authed[req[p].ip] = None
    BY <2>2, GotoMoves DEF GrantAccept, tables, reaping, counters, Owning
  <2> QED
    BY <2>1, <2>2
<1>2. l \in Labels /\ r \in Locals /\ Fits(l, r)
  BY <1>1, NoRequestFits DEF Labels, TablesOK, ThreadsOK, RequestsOK, Fits, SignsIn
<1>3. Holding(p, l) /\ AuthFits(authed', l, r)
  BY <1>1 DEF Holding, AuthFits
<1> HIDE DEF l, r
<1>4. ThreadsOK' /\ ThreadTypes'
  BY <1>1, <1>2, <1>3, MovesThreads
<1>5. TablesOK'
  BY <1>1, <1>4 DEF TablesOK, ThreadTypes
<1>6. SessionsOK'
  BY <1>1, SameSessions
<1> QED
  BY <1>4, <1>5, <1>6

LEMMA GrantRefusedInv ==
  ASSUME PortalInv, NEW p \in Procs, GrantRefused(p)
  PROVE  PortalInv'
<1> USE DEF PortalInv
<1>1. /\ pc[p] = "grant" /\ lock = None /\ Moves(p, "idle", NoRequest)
      /\ failures' = failures + 1
      /\ UNCHANGED <<authed, sessionId, ensName, groupCache, marks, bypass, lock, lastSeen,
                     doomed, neigh, calls, issued, restarts, timeouts>>
  BY GotoMoves DEF GrantRefused, Fails, tables, netfilter, reaping
<1>2. Holding(p, "idle") /\ AuthFits(authed', "idle", NoRequest)
  BY <1>1 DEF Holding, AuthFits, Owning
<1>3. ThreadsOK' /\ ThreadTypes'
  BY <1>1, <1>2, NoRequestFits, MovesThreads DEF Labels
<1>4. TablesOK'
  BY <1>1, <1>3 DEF TablesOK, ThreadTypes
<1>5. SessionsOK'
  BY <1>1, SameSessions
<1> QED
  BY <1>3, <1>4, <1>5

\* However many of the calls of a handler fail, that is one failure or none.
LEMMA RunOkNat ==
  ASSUME PortalInv, NEW allDone, RunOk(allDone)
  PROVE  failures' \in Nat
BY DEF PortalInv, TablesOK, RunOk, Fails

\* A thread that is inside has the lock, and a grant in progress its identity.
LEMMA Inside ==
  ASSUME PortalInv, NEW p \in Procs, pc[p] \in Owning
  PROVE  /\ lock = p /\ req[p] \in Locals /\ req[p].ip \in Ips
         /\ pc[p] \in {"rules", "record"} =>
              /\ req[p].name \in Names /\ req[p].tier \in Tiers
              /\ authed[req[p].ip] = None
         /\ pc[p] = "forget" => authed[req[p].ip] # None
BY DEF PortalInv, TablesOK, ThreadsOK, LockOK, RequestsOK, AuthOK, Fits, AuthFits, Owning, SignsIn, Locals

LEMMA GrantRulesInv ==
  ASSUME PortalInv, NEW p \in Procs, GrantRules(p)
  PROVE  PortalInv'
<1> USE DEF PortalInv
<1>1. /\ pc[p] = "rules" /\ Moves(p, "record", req[p])
      /\ marks' = [marks EXCEPT ![req[p].ip] = <<req[p].tier>> \o @]
      /\ bypass' = [bypass EXCEPT ![req[p].ip] = @ + 1]
      /\ UNCHANGED <<authed, sessionId, ensName, groupCache, lock, lastSeen,
                     doomed, neigh, calls, issued, restarts, timeouts>>
      /\ failures' \in Nat
  BY GotoMoves, RunOkNat DEF GrantRules, tables, reaping
<1>2. /\ lock = p /\ req[p] \in Locals /\ req[p].ip \in Ips
      /\ req[p].name \in Names /\ req[p].tier \in Tiers /\ authed[req[p].ip] = None
  BY <1>1, Inside DEF Owning
<1>3. Fits("record", req[p]) /\ Holding(p, "record") /\ AuthFits(authed', "record", req[p])
  BY <1>1, <1>2, PortalAssumption DEF Fits, Holding, AuthFits, Owning
<1>4. ThreadsOK' /\ ThreadTypes'
  BY <1>1, <1>2, <1>3, MovesThreads DEF Labels
<1>5. marks' \in [Ips -> Seq(Tiers)] /\ bypass' \in [Ips -> Nat]
  <2>1. /\ marks \in [Ips -> Seq(Tiers)]
        /\ marks[req[p].ip] \in Seq(Tiers) /\ <<req[p].tier>> \in Seq(Tiers)
    BY <1>2 DEF TablesOK
  <2>2. <<req[p].tier>> \o marks[req[p].ip] \in Seq(Tiers)
    BY <2>1, ConcatProperties
  <2>3. marks' \in [Ips -> Seq(Tiers)]
    BY <1>1, <2>1, <2>2
  <2>4. bypass \in [Ips -> Nat] /\ bypass' = [bypass EXCEPT ![req[p].ip] = @ + 1]
    BY <1>1 DEF TablesOK
  <2>5. bypass' \in [Ips -> Nat]
    BY <1>2, <2>4
  <2> QED
    BY <2>3, <2>5
<1>6. TablesOK'
  BY <1>1, <1>4, <1>5 DEF TablesOK, ThreadTypes
<1>7. SessionsOK'
  BY <1>1, SameSessions
<1> QED
  BY <1>4, <1>6, <1>7

LEMMA GrantFailInv ==
  ASSUME PortalInv, NEW p \in Procs, NEW marked \in BOOLEAN, NEW exempted \in BOOLEAN,
         GrantFail(p, marked, exempted)
  PROVE  PortalInv'
<1> DEFINE ip == req[p].ip
<1> USE DEF PortalInv
<1>1. /\ pc[p] = "rules" /\ Moves(p, "idle", NoRequest) /\ lock' = None
      /\ marks' = [marks EXCEPT ![ip] = IF marked THEN <<req[p].tier>> \o @ ELSE @]
      /\ bypass' = [bypass EXCEPT ![ip] = IF exempted THEN @ + 1 ELSE @]
      /\ failures' = failures + 1
      /\ UNCHANGED <<authed, sessionId, ensName, groupCache, lastSeen,
                     doomed, neigh, calls, issued, restarts, timeouts>>
  BY GotoMoves DEF GrantFail, Fails, Release, tables, reaping
<1>2. lock = p /\ ip \in Ips /\ req[p].tier \in Tiers
  BY <1>1, Inside DEF Owning
<1>3. Holding(p, "idle") /\ AuthFits(authed', "idle", NoRequest)
  BY <1>1, <1>2 DEF Holding, AuthFits, Owning
<1>4. ThreadsOK' /\ ThreadTypes'
  BY <1>1, <1>3, NoRequestFits, MovesThreads DEF Labels
<1>5. marks' \in [Ips -> Seq(Tiers)] /\ bypass' \in [Ips -> Nat]
  <2>1. /\ marks \in [Ips -> Seq(Tiers)]
        /\ marks[ip] \in Seq(Tiers) /\ <<req[p].tier>> \in Seq(Tiers)
    BY <1>2 DEF TablesOK
  <2>2. <<req[p].tier>> \o marks[ip] \in Seq(Tiers)
    BY <2>1, ConcatProperties
  <2>3. marks' \in [Ips -> Seq(Tiers)]
    BY <1>1, <2>1, <2>2
  <2>4. bypass \in [Ips -> Nat] /\ bypass' = [bypass EXCEPT ![ip] = IF exempted THEN @ + 1 ELSE @]
    BY <1>1 DEF TablesOK
  <2>5. bypass' \in [Ips -> Nat]
    BY <1>2, <2>4
  <2> QED
    BY <2>3, <2>5
<1>6. TablesOK'
  BY <1>1, <1>4, <1>5 DEF TablesOK, ThreadTypes
<1>7. SessionsOK'
  BY <1>1, SameSessions
<1> QED
  BY <1>4, <1>6, <1>7

LEMMA GrantRecordInv ==
  ASSUME PortalInv, NEW p \in Procs, NEW answer \in Groups \union {None}, NEW at \in Stamps,
         GrantRecord(p, answer, at)
  PROVE  PortalInv'
<1> DEFINE ip == req[p].ip
           tier == req[p].tier
           gid == IF groupCache[tier] # None THEN groupCache[tier] ELSE answer
           l == IF gid = None THEN "idle" ELSE "created"
           r == IF gid = None THEN NoRequest ELSE [req[p] EXCEPT !.sid = issued + 1]
           call == [call |-> "created", sid |-> issued + 1, ip |-> ip, name |-> req[p].name,
                    user |-> req[p].user, tier |-> tier, group |-> gid, at |-> at]
<1> USE DEF PortalInv
<1>1. pc[p] = "record"
  BY DEF GrantRecord
<1>2. /\ lock = p /\ req[p] \in Locals /\ ip \in Ips /\ tier \in Tiers /\ tier # None
      /\ req[p].name \in Names /\ req[p].name # None /\ authed[ip] = None
      /\ req[p].user \in Names \union {None} /\ issued \in Nat
  BY <1>1, Inside, PortalAssumption DEF Owning, TablesOK, Locals
<1>3. gid \in Groups \union {None}
  BY <1>2 DEF TablesOK
<1>4. /\ authed' = [authed EXCEPT ![ip] = tier]
      /\ sessionId' = [sessionId EXCEPT ![ip] = issued + 1]
      /\ groupCache' = [groupCache EXCEPT ![tier] = gid]
      /\ issued' = issued + 1
      /\ UNCHANGED <<ensName, marks, bypass, lastSeen, doomed, neigh, restarts, failures, timeouts>>
  BY DEF GrantRecord, NewSession, netfilter, reaping
<1>5. /\ Moves(p, l, r)
      /\ lock' = IF l \in Owning THEN p ELSE None
      /\ calls' = IF gid = None THEN calls ELSE calls \union {call}
  <2>1. CASE gid = None
    <3>1. Goto(p, "idle") /\ Release /\ calls' = calls
      BY <2>1 DEF GrantRecord
    <3> QED
      BY <2>1, <3>1, GotoMoves DEF Release, Owning
  <2>2. CASE gid # None
    BY <1>2, <2>2 DEF GrantRecord, NewSession, Moves, Owning, TablesOK
  <2> QED
    BY <2>1, <2>2
<1>6. l \in Labels /\ r \in Locals /\ Fits(l, r)
  BY <1>2, NoRequestFits DEF Labels, Locals, Fits, SignsIn
<1>7. Holding(p, l) /\ AuthFits(authed', l, r)
  BY <1>2, <1>5 DEF Holding, AuthFits
<1>8. calls' \subseteq Created \union Ended
  <2>1. gid # None => call \in Created
    BY <1>2, <1>3 DEF Created
  <2> QED
    BY <1>5, <2>1 DEF TablesOK
<1> HIDE DEF l, r, gid
<1>9. ThreadsOK' /\ ThreadTypes'
  BY <1>2, <1>5, <1>6, <1>7, MovesThreads
<1>10. TablesOK'
  <2>1. authed' \in [Ips -> Tiers \union {None}] /\ groupCache' \in [Tiers -> Groups \union {None}]
    BY <1>2, <1>3, <1>4 DEF TablesOK
  <2>2. sessionId' \in [Ips -> Nat] /\ issued' \in Nat
    BY <1>2, <1>4 DEF TablesOK
  <2> QED
    BY <1>4, <1>8, <1>9, <2>1, <2>2 DEF TablesOK, ThreadTypes
<1>11. IssuedOK'
  BY <1>2, <1>4 DEF TablesOK, SessionsOK, IssuedOK
<1>12. SessionPerDevice'
  \* The new id is larger than every id in use.
  <2>1. \A i \in Ips : sessionId[i] # issued + 1
    BY <1>2 DEF TablesOK, SessionsOK, IssuedOK
  <2>2. \A i \in Ips : (sessionId[i] = 0 <=> authed[i] = None)'
    BY <1>2, <1>4 DEF TablesOK, SessionsOK, SessionPerDevice
  <2>3. \A i, j \in Ips : (i # j /\ sessionId[i] # 0 => sessionId[i] # sessionId[j])'
    BY <1>2, <1>4, <2>1 DEF TablesOK, SessionsOK, SessionPerDevice
  <2> QED
    BY <2>2, <2>3 DEF SessionPerDevice
<1> QED
  BY <1>9, <1>10, <1>11, <1>12 DEF SessionsOK

LEMMA RevokeNothingInv ==
  ASSUME PortalInv, NEW p \in Procs, RevokeNothing(p)
  PROVE  PortalInv'
<1> DEFINE l == AfterRevoke(p)
           r == IF l = "idle" THEN NoRequest ELSE req[p]
<1> USE DEF PortalInv
<1>1. /\ pc[p] = "revoke" /\ lock = None /\ req[p].ip \in Ips /\ req[p] \in Locals
      /\ Moves(p, l, r)
      /\ UNCHANGED <<authed, sessionId, ensName, groupCache, marks, bypass, lock, lastSeen,
                     doomed, neigh, calls, issued, restarts, failures, timeouts>>
  BY GotoMoves DEF RevokeNothing, TablesOK, ThreadsOK, RequestsOK, Fits, tables, netfilter,
                   reaping, counters
<1>2. l \in Labels /\ r \in Locals /\ Fits(l, r)
  BY <1>1, NoRequestFits DEF Labels, ThreadsOK, RequestsOK, Fits, SignsIn, AfterRevoke
<1>3. Holding(p, l) /\ AuthFits(authed', l, r)
  BY <1>1, PortalAssumption DEF Holding, AuthFits, AfterRevoke, Owning
<1> HIDE DEF l, r
<1>4. ThreadsOK' /\ ThreadTypes'
  BY <1>1, <1>2, <1>3, MovesThreads
<1>5. TablesOK'
  BY <1>1, <1>4 DEF TablesOK, ThreadTypes
<1>6. SessionsOK'
  BY <1>1, SameSessions
<1> QED
  BY <1>4, <1>5, <1>6

LEMMA RevokeRulesInv ==
  ASSUME PortalInv, NEW p \in Procs, RevokeRules(p)
  PROVE  PortalInv'
<1> DEFINE ip == req[p].ip
<1> USE DEF PortalInv
<1>1. /\ pc[p] = "revoke" /\ lock = None /\ lock' = p /\ Moves(p, "forget", req[p])
      /\ ip \in Ips /\ req[p] \in Locals /\ authed[ip] # None
      /\ UNCHANGED <<authed, sessionId, ensName, groupCache, lastSeen, doomed, neigh, calls,
                     issued, restarts, timeouts>>
  BY GotoMoves DEF RevokeRules, TablesOK, ThreadsOK, RequestsOK, Fits, tables, reaping
<1>2. marks' \in [Ips -> Seq(Tiers)] /\ bypass' \in [Ips -> Nat] /\ failures' \in Nat
  <2>1. PICK F \in SUBSET ({Accept(ip)} \union DropsFor(ip)), unmarked \in BOOLEAN,
             unexempted \in BOOLEAN :
          /\ RunOk(F = {} /\ unmarked /\ unexempted)
          /\ marks' = IF unmarked THEN [marks EXCEPT ![ip] = RemoveFirst(marks[ip], authed[ip])]
                                  ELSE marks
          /\ bypass' = IF unexempted
                         THEN [bypass EXCEPT ![ip] = IF bypass[ip] > 0 THEN bypass[ip] - 1 ELSE 0]
                         ELSE bypass
    BY DEF RevokeRules
  <2>2. marks \in [Ips -> Seq(Tiers)] /\ RemoveFirst(marks[ip], authed[ip]) \in Seq(Tiers)
    BY <1>1, RemoveFirstType DEF TablesOK
  <2>3. marks' \in [Ips -> Seq(Tiers)]
    BY <1>1, <2>1, <2>2
  <2>4. bypass \in [Ips -> Nat] /\ (IF bypass[ip] > 0 THEN bypass[ip] - 1 ELSE 0) \in Nat
    BY <1>1 DEF TablesOK
  <2>5. bypass' \in [Ips -> Nat]
    BY <1>1, <2>1, <2>4
  <2> QED
    BY <2>1, <2>3, <2>5, RunOkNat
<1>3. Fits("forget", req[p]) /\ Holding(p, "forget") /\ AuthFits(authed', "forget", req[p])
  BY <1>1 DEF ThreadsOK, RequestsOK, Fits, SignsIn, Holding, AuthFits, Owning
<1>4. ThreadsOK' /\ ThreadTypes'
  BY <1>1, <1>3, MovesThreads DEF Labels
<1>5. TablesOK'
  BY <1>1, <1>2, <1>4 DEF TablesOK, ThreadTypes
<1>6. SessionsOK'
  BY <1>1, SameSessions
<1> QED
  BY <1>4, <1>5, <1>6

LEMMA RevokeForgetInv ==
  ASSUME PortalInv, NEW p \in Procs, RevokeForget(p)
  PROVE  PortalInv'
<1> DEFINE ip == req[p].ip
           r == [req[p] EXCEPT !.sid = sessionId[ip]]
           call == [call |-> "ended", sid |-> sessionId[ip]]
<1> USE DEF PortalInv
<1>1. pc[p] = "forget"
  BY DEF RevokeForget
<1>2. lock = p /\ ip \in Ips /\ req[p] \in Locals /\ sessionId[ip] \in Nat
  BY <1>1, Inside DEF Owning, TablesOK
<1>3. /\ authed' = [authed EXCEPT ![ip] = None]
      /\ ensName' = [ensName EXCEPT ![ip] = None]
      /\ sessionId' = [sessionId EXCEPT ![ip] = 0]
      /\ calls' = calls \union {call}
      /\ UNCHANGED <<groupCache, marks, bypass, lock, lastSeen, doomed, neigh,
                     issued, restarts, failures, timeouts>>
  BY DEF RevokeForget, netfilter, reaping, counters
<1>4. Moves(p, "ended", r)
  BY <1>2 DEF RevokeForget, Moves, TablesOK
<1>5. r \in Locals /\ Fits("ended", r)
  BY <1>1, <1>2 DEF Locals, Fits, SignsIn, ThreadsOK, RequestsOK
<1>6. Holding(p, "ended") /\ AuthFits(authed', "ended", r)
  BY <1>2, <1>3 DEF Holding, AuthFits, Owning
<1> HIDE DEF r
<1>7. ThreadsOK' /\ ThreadTypes'
  BY <1>2, <1>4, <1>5, <1>6, MovesThreads DEF Labels
<1>8. TablesOK'
  <2>1. call \in Ended
    BY <1>2 DEF Ended
  <2>2. calls' \subseteq Created \union Ended
    BY <1>3, <2>1 DEF TablesOK
  <2>3. /\ authed' \in [Ips -> Tiers \union {None}] /\ ensName' \in [Ips -> Names \union {None}]
        /\ sessionId' \in [Ips -> Nat]
    BY <1>3 DEF TablesOK
  <2> QED
    BY <1>3, <1>7, <2>2, <2>3 DEF TablesOK, ThreadTypes
<1>9. SessionsOK'
  BY <1>2, <1>3 DEF TablesOK, SessionsOK, IssuedOK, SessionPerDevice
<1> QED
  BY <1>7, <1>8, <1>9

LEMMA NotifyEndInv ==
  ASSUME PortalInv, NEW p \in Procs, NotifyEnd(p), timeouts' \in Nat
  PROVE  PortalInv'
<1> DEFINE l == IF pc[p] = "ended" THEN AfterRevoke(p) ELSE "idle"
           r == IF l = "idle" THEN NoRequest ELSE req[p]
<1> USE DEF PortalInv
<1>1. pc[p] \in {"created", "ended"} /\ lock = p /\ req[p] \in Locals
  BY Inside DEF NotifyEnd, Owning
<1>2. /\ Moves(p, l, r) /\ lock' = None
      /\ UNCHANGED <<authed, sessionId, ensName, groupCache, marks, bypass, lastSeen, doomed,
                     neigh, calls, issued, restarts, failures>>
  BY GotoMoves DEF NotifyEnd, Release, tables, netfilter, reaping
<1>3. l \in Labels /\ r \in Locals /\ Fits(l, r)
  BY <1>1, NoRequestFits DEF Labels, ThreadsOK, RequestsOK, Fits, SignsIn, AfterRevoke
<1>4. Holding(p, l) /\ AuthFits(authed', l, r)
  BY <1>1, <1>2 DEF Holding, AuthFits, Owning, AfterRevoke
<1> HIDE DEF l, r
<1>5. ThreadsOK' /\ ThreadTypes'
  BY <1>2, <1>3, <1>4, MovesThreads
<1>6. TablesOK'
  BY <1>2, <1>5 DEF TablesOK, ThreadTypes
<1>7. SessionsOK'
  BY <1>2, SameSessions
<1> QED
  BY <1>5, <1>6, <1>7

LEMMA HandleInv ==
  ASSUME PortalInv, NEW p \in Procs, Handle(p)
  PROVE  PortalInv'
<1>1. CASE NotifyReturn(p) \/ NotifyTimeout(p)
  <2>1. NotifyEnd(p) /\ timeouts' \in Nat
    BY <1>1 DEF NotifyReturn, NotifyTimeout, PortalInv, TablesOK
  <2> QED
    BY <2>1, NotifyEndInv
<1>2. CASE \E marked, exempted \in BOOLEAN : GrantFail(p, marked, exempted)
  BY <1>2, GrantFailInv
<1>3. CASE \E answer \in Groups \union {None}, at \in Stamps : GrantRecord(p, answer, at)
  BY <1>3, GrantRecordInv
<1> QED
  BY <1>1, <1>2, <1>3, CheckInv, SetNameInv, GrantAcceptInv, GrantRefusedInv, GrantRulesInv,
     RevokeNothingInv, RevokeRulesInv, RevokeForgetInv DEF Handle

----------------------------------------------------------------------------
(* The other steps *)

\* What depends on the threads and on the tables of sessions only.
LEMMA SameThreads ==
  ASSUME ThreadsOK, UNCHANGED <<lock, pc, req, authed>>
  PROVE  ThreadsOK'
BY DEF ThreadsOK, LockOK, RequestsOK, AuthOK, Fits, AuthFits

LEMMA SweepInv ==
  ASSUME PortalInv, Sweep
  PROVE  PortalInv'
<1> USE DEF PortalInv, Sweep, tables, netfilter, threads, counters
<1>1. \A ip \in Ips : Sighting(ip) \in 0..TtlSweeps \union {None}
  <2> SUFFICES ASSUME NEW ip \in Ips PROVE Sighting(ip) \in 0..TtlSweeps \union {None}
    OBVIOUS
  <2>1. CASE ip \in neigh
    BY <2>1 DEF Sighting, TtlSweeps
  <2>2. CASE ip \notin neigh /\ lastSeen[ip] # None
    <3>1. lastSeen[ip] \in 0..TtlSweeps
      BY <2>2 DEF TablesOK
    <3>2. Sighting(ip) = Min({lastSeen[ip] + 1, TtlSweeps})
      BY <2>2 DEF Sighting
    <3>3. Min({lastSeen[ip] + 1, TtlSweeps}) \in {lastSeen[ip] + 1, TtlSweeps}
      BY <3>1, MinNat DEF TtlSweeps
    <3>4. \A y \in {lastSeen[ip] + 1, TtlSweeps} : Min({lastSeen[ip] + 1, TtlSweeps}) =< y
      BY <3>1, MinNat DEF TtlSweeps
    <3> QED
      BY <3>1, <3>2, <3>3, <3>4 DEF TtlSweeps
  <2>3. CASE ip \notin neigh /\ lastSeen[ip] = None
    BY <2>3 DEF Sighting, TtlSweeps
  <2> QED
    BY <2>1, <2>2, <2>3
<1>2. lastSeen' \in [Ips -> 0..TtlSweeps \union {None}] /\ doomed' \subseteq Ips
  BY <1>1
<1>3. UNCHANGED <<authed, sessionId, ensName, groupCache, marks, bypass, lock, pc, req, neigh,
                  calls, issued, restarts, failures, timeouts>>
  OBVIOUS
<1>4. TablesOK'
  BY <1>2, <1>3 DEF TablesOK
<1> QED
  BY <1>3, <1>4, SameThreads, SameSessions

LEMMA ReapInv ==
  ASSUME PortalInv, NEW ip \in Ips, Reap(ip)
  PROVE  PortalInv'
<1> DEFINE r == [NoRequest EXCEPT !.ip = ip]
<1> USE DEF PortalInv
<1>1. r \in Locals /\ Fits("revoke", r)
  BY DEF NoRequest, Locals, Fits, SignsIn
<1>2. /\ Reaper \in Procs /\ pc[Reaper] = "idle" /\ Moves(Reaper, "revoke", r)
      /\ doomed' = doomed \ {ip}
      /\ lastSeen' = [lastSeen EXCEPT ![ip] = None]
      /\ UNCHANGED <<authed, sessionId, ensName, groupCache, marks, bypass, lock,
                     neigh, calls, issued, restarts, failures, timeouts>>
  BY DEF Reap, Serve, Moves, Procs, tables, netfilter, counters
<1>3. Holding(Reaper, "revoke") /\ AuthFits(authed', "revoke", r)
  BY <1>2 DEF Holding, AuthFits, ThreadsOK, LockOK, Owning
<1>4. ThreadsOK' /\ ThreadTypes'
  BY <1>1, <1>2, <1>3, MovesThreads DEF Labels
<1>5. lastSeen' \in [Ips -> 0..TtlSweeps \union {None}]
  BY <1>2 DEF TablesOK
<1>6. TablesOK'
  BY <1>2, <1>4, <1>5 DEF TablesOK, ThreadTypes
<1>7. SessionsOK'
  BY <1>2, SameSessions
<1> QED
  BY <1>4, <1>6, <1>7

LEMMA OutsideInv ==
  ASSUME PortalInv, Link \/ \E c \in calls : Deliver(c)
  PROVE  PortalInv'
<1> USE DEF PortalInv
<1>1. /\ UNCHANGED <<authed, sessionId, ensName, groupCache, marks, bypass, lock, pc, req,
                     lastSeen, doomed, issued, restarts, failures, timeouts>>
      /\ neigh' \subseteq Ips /\ calls' \subseteq calls
  BY DEF TablesOK, Link, Appear, Vanish, Deliver, tables, netfilter, threads, reaping, counters
<1>2. TablesOK'
  BY <1>1 DEF TablesOK
<1> QED
  BY <1>1, <1>2, SameThreads, SameSessions

LEMMA RestartInv ==
  ASSUME PortalInv, Restart
  PROVE  PortalInv'
<1> USE PortalAssumption DEF PortalInv, Restart
<1>1. TablesOK'
  BY EmptySeq DEF TablesOK, Locals, Labels, NoRequest, Procs
<1>2. ThreadsOK'
  BY DEF ThreadsOK, LockOK, RequestsOK, AuthOK, Fits, AuthFits, Owning, SignsIn, NoRequest, Procs
<1>3. SessionsOK'
  BY DEF SessionsOK, IssuedOK, SessionPerDevice, TablesOK
<1> QED
  BY <1>1, <1>2, <1>3

LEMMA NextInv == PortalInv /\ [Next]_vars => PortalInv'
<1> SUFFICES ASSUME PortalInv, [Next]_vars PROVE PortalInv'
  OBVIOUS
<1>1. CASE \E p \in Procs : Handle(p)
  BY <1>1, HandleInv
<1>2. CASE \E w \in Workers : Request(w)
  BY <1>2, StartAdmitInv, StartRevokeInv DEF Request
<1>3. CASE ReaperStep
  BY <1>3, SweepInv, ReapInv DEF ReaperStep
<1>4. CASE Link \/ \E c \in calls : Deliver(c)
  BY <1>4, OutsideInv
<1>5. CASE Restart
  BY <1>5, RestartInv
<1>6. CASE UNCHANGED vars
  <2>1. UNCHANGED <<authed, sessionId, ensName, groupCache, marks, bypass, lock, pc, req,
                    lastSeen, doomed, neigh, calls, issued, restarts, failures, timeouts>>
    BY <1>6 DEF vars, tables, netfilter, threads, reaping, counters
  <2>2. TablesOK'
    BY <2>1 DEF PortalInv, TablesOK
  <2> QED
    BY <2>1, <2>2, SameThreads, SameSessions DEF PortalInv
<1> QED
  BY <1>1, <1>2, <1>3, <1>4, <1>5, <1>6 DEF Next

----------------------------------------------------------------------------

\* No two threads are inside grant_access and revoke_access at a time, and a
\* thread leaves _state_lock behind on every path out of them: a grant that
\* fails, a notification that times out, a restart.
MutualExclusion ==
  \A p, q \in Procs : pc[p] \in Owning /\ pc[q] \in Owning => p = q

THEOREM Exclusive == Spec => [](MutualExclusion /\ LockOK)
<1>1. PortalInv => MutualExclusion /\ LockOK
  BY DEF PortalInv, ThreadsOK, LockOK, MutualExclusion
<1> QED
  BY <1>1, InitInv, NextInv, PTL DEF Spec

\* A device has a session id exactly while it is authed, and no two devices share
\* one, whatever sign-ins, logouts, sweeps and restarts interleave.
THEOREM SessionsDistinct == Spec => []SessionPerDevice
<1>1. PortalInv => SessionPerDevice
  BY DEF PortalInv, SessionsOK
<1> QED
  BY <1>1, InitInv, NextInv, PTL DEF Spec

----------------------------------------------------------------------------
(* The person behind an address, when a device waits for its sign-in *)

\* Two threads never sign the same address in, and the reaper signs nobody in.
OneSignIn ==
  /\ req[Reaper].name = None
  /\ \A p, q \in Procs :
       p # q /\ req[p].name # None /\ req[q].name # None => req[p].ip # req[q].ip

\* A thread about to write the name writes the one that is there already, or the
\* address is not authed; a re-login that has revoked finds the address free.
NameFits(tier, name, l, r) ==
  /\ l = "name" => tier[r.ip] = None \/ name[r.ip] = r.name
  /\ l = "ended" /\ r.name # None => tier[r.ip] = None

NamesOK == \A p \in Procs : NameFits(authed, ensName, pc[p], req[p])

NamesInv == PortalInv /\ OneSignIn /\ NamesOK

\* A step of a handler keeps its request or ends it; only a sign-in, at its own
\* address, names an address or lets it in.
Modest(p) ==
  /\ \A q \in Procs \ {p} : pc'[q] = pc[q] /\ req'[q] = req[q]
  /\ \/ req'[p].name = None
     \/ req'[p].name = req[p].name /\ req'[p].ip = req[p].ip
  /\ \A ip \in Ips : \/ authed'[ip] = authed[ip] /\ ensName'[ip] = ensName[ip]
                     \/ authed'[ip] = None
                     \/ ip = req[p].ip /\ req[p].name # None

LEMMA HandleModest ==
  ASSUME PortalInv, NEW p \in Procs, Handle(p)
  PROVE  Modest(p)
<1> USE DEF PortalInv
<1>1. CASE Check(p) \/ GrantAccept(p) \/ GrantRefused(p) \/ GrantRules(p)
           \/ RevokeNothing(p) \/ RevokeRules(p) \/ NotifyReturn(p) \/ NotifyTimeout(p)
           \/ \E marked, exempted \in BOOLEAN : GrantFail(p, marked, exempted)
  <2>1. PICK l : Goto(p, l)
    BY <1>1 DEF Check, GrantAccept, GrantRefused, GrantRules, RevokeNothing, RevokeRules,
                NotifyReturn, NotifyTimeout, NotifyEnd, GrantFail
  <2>2. UNCHANGED <<authed, ensName>>
    BY <1>1 DEF Check, GrantAccept, GrantRefused, GrantRules, RevokeNothing, RevokeRules,
                NotifyReturn, NotifyTimeout, NotifyEnd, GrantFail, tables
  <2> QED
    BY <2>1, <2>2 DEF Goto, Modest, TablesOK, NoRequest
<1>2. CASE SetName(p)
  BY <1>2 DEF SetName, Goto, Modest, TablesOK, ThreadsOK, RequestsOK, Fits, SignsIn
<1>3. CASE \E answer \in Groups \union {None}, at \in Stamps : GrantRecord(p, answer, at)
  <2>1. pc[p] = "record" /\ req[p].name # None /\ UNCHANGED ensName
    BY <1>3 DEF GrantRecord, ThreadsOK, RequestsOK, Fits, SignsIn
  <2>2. authed' = [authed EXCEPT ![req[p].ip] = req[p].tier]
    BY <1>3 DEF GrantRecord
  <2>3. \/ Goto(p, "idle")
        \/ pc' = [pc EXCEPT ![p] = "created"] /\ req' = [req EXCEPT ![p].sid = NewSession]
    BY <1>3 DEF GrantRecord
  <2> QED
    BY <2>1, <2>2, <2>3 DEF Goto, Modest, TablesOK, NoRequest, Locals
<1>4. CASE RevokeForget(p)
  BY <1>4 DEF RevokeForget, Modest, TablesOK, Locals
<1> QED
  BY <1>1, <1>2, <1>3, <1>4 DEF Handle

LEMMA HandleOneSignIn ==
  ASSUME PortalInv, OneSignIn, NEW p \in Procs, Modest(p)
  PROVE  OneSignIn'
BY DEF OneSignIn, Modest, Procs

LEMMA HandleNameFits ==
  ASSUME PortalInv, NamesOK, NEW p \in Procs, Handle(p)
  PROVE  NameFits(authed', ensName', pc'[p], req'[p])
<1> USE DEF PortalInv
<1>1. CASE Check(p)
  BY <1>1 DEF Check, Goto, OtherName, NameFits, TablesOK, tables
<1>2. CASE RevokeNothing(p) \/ RevokeRules(p)
  BY <1>2 DEF RevokeNothing, RevokeRules, Goto, AfterRevoke, NameFits, TablesOK, tables
<1>3. CASE NotifyReturn(p) \/ NotifyTimeout(p)
  <2>1. NotifyEnd(p)
    BY <1>3 DEF NotifyReturn, NotifyTimeout
  <2>2. pc[p] = "ended" /\ req[p].name # None => authed[req[p].ip] = None
    BY DEF NamesOK, NameFits
  <2> QED
    BY <2>1, <2>2 DEF NotifyEnd, Goto, AfterRevoke, NameFits, TablesOK, tables
<1>4. CASE RevokeForget(p)
  <2>1. req[p].ip \in Ips
    BY <1>4 DEF RevokeForget, ThreadsOK, RequestsOK, Fits
  <2> QED
    BY <1>4, <2>1 DEF RevokeForget, NameFits, TablesOK, Locals
<1>5. CASE SetName(p) \/ GrantAccept(p) \/ GrantRefused(p) \/ GrantRules(p)
           \/ (\E marked, exempted \in BOOLEAN : GrantFail(p, marked, exempted))
           \/ (\E answer \in Groups \union {None}, at \in Stamps : GrantRecord(p, answer, at))
  <2>1. pc'[p] \in {"grant", "idle", "rules", "record", "created"}
    BY <1>5 DEF SetName, GrantAccept, GrantRefused, GrantRules, GrantFail, GrantRecord, Goto, TablesOK
  <2> QED
    BY <2>1 DEF NameFits
<1> QED
  BY <1>1, <1>2, <1>3, <1>4, <1>5 DEF Handle

LEMMA HandleNames ==
  ASSUME NamesInv, NEW p \in Procs, Handle(p)
  PROVE  NamesInv'
<1> USE DEF NamesInv
<1>1. Modest(p)
  BY HandleModest
<1>2. NamesOK'
  <2> SUFFICES ASSUME NEW q \in Procs PROVE NameFits(authed', ensName', pc'[q], req'[q])
    BY DEF NamesOK, NameFits
  <2>1. CASE q = p
    BY <2>1, HandleNameFits
  <2>2. CASE q # p
    <3>1. pc'[q] = pc[q] /\ req'[q] = req[q] /\ NameFits(authed, ensName, pc[q], req[q])
      BY <1>1, <2>2 DEF Modest, NamesOK
    <3>2. CASE req[q].name = None
      BY <3>1, <3>2 DEF NameFits, PortalInv, ThreadsOK, RequestsOK, Fits, SignsIn
    <3>3. CASE req[q].name # None /\ pc[q] \in {"name", "ended"}
      <4>1. req[q].ip \in Ips
        BY <3>3 DEF PortalInv, ThreadsOK, RequestsOK, Fits
      <4>2. ~ (req[q].ip = req[p].ip /\ req[p].name # None)
        BY <2>2, <3>3 DEF OneSignIn
      <4>3. \/ authed'[req[q].ip] = authed[req[q].ip] /\ ensName'[req[q].ip] = ensName[req[q].ip]
            \/ authed'[req[q].ip] = None
        BY <1>1, <4>1, <4>2 DEF Modest
      <4> QED
        BY <3>1, <4>3 DEF NameFits
    <3>4. CASE pc[q] \notin {"name", "ended"}
      BY <3>1, <3>4 DEF NameFits
    <3> QED
      BY <3>2, <3>3, <3>4
  <2> QED
    BY <2>1, <2>2
<1> QED
  BY <1>1, <1>2, HandleInv, HandleOneSignIn

LEMMA StartNames ==
  ASSUME NamesInv, OneSignInPerIp, NEW p \in Workers, Request(p)
  PROVE  OneSignIn' /\ NamesOK'
<1> USE PortalAssumption DEF NamesInv, PortalInv
<1>1. /\ p \in Procs /\ p # Reaper
      /\ UNCHANGED <<authed, ensName>>
      /\ \A q \in Procs \ {p} : pc'[q] = pc[q] /\ req'[q] = req[q]
      /\ pc'[p] \in {"check", "revoke"}
  BY DEF Request, StartAdmit, StartRevoke, Serve, TablesOK, Procs, tables
<1>2. \A q \in Procs \ {p} :
        req'[p].name # None /\ req[q].name # None => req'[p].ip # req[q].ip
  <2> SUFFICES ASSUME NEW q \in Procs, q # p, req'[p].name # None, req[q].name # None
               PROVE  req'[p].ip # req[q].ip
    OBVIOUS
  <2>1. q \in Workers
    BY DEF OneSignIn, Procs
  <2>2. PICK ip \in Ips, ident \in Idents : StartAdmit(p, ip, ident)
    BY <1>1 DEF Request, StartRevoke, Serve, NoRequest, TablesOK
  <2>3. req'[p].ip = ip
    BY <1>1, <2>2 DEF StartAdmit, Serve, SignIn, NoRequest, TablesOK
  <2> QED
    BY <2>1, <2>2, <2>3 DEF StartAdmit, SigningIn
<1>3. OneSignIn'
  BY <1>1, <1>2 DEF OneSignIn, Procs
<1>4. NamesOK'
  BY <1>1 DEF NamesOK, NameFits
<1> QED
  BY <1>3, <1>4

LEMMA NamesNext ==
  ASSUME OneSignInPerIp
  PROVE  NamesInv /\ [Next]_vars => NamesInv'
<1> SUFFICES ASSUME NamesInv, [Next]_vars PROVE NamesInv'
  OBVIOUS
<1>0. PortalInv'
  BY NextInv DEF NamesInv
<1>1. CASE \E p \in Procs : Handle(p)
  BY <1>1, HandleNames
<1>2. CASE \E w \in Workers : Request(w)
  BY <1>0, <1>2, StartNames DEF NamesInv
<1>3. CASE ReaperStep
  <2>1. /\ UNCHANGED <<authed, ensName>>
        /\ \/ UNCHANGED <<pc, req>>
           \/ /\ \A q \in Workers : pc'[q] = pc[q] /\ req'[q] = req[q]
              /\ pc'[Reaper] = "revoke" /\ req'[Reaper].name = None
    BY <1>3, PortalAssumption DEF ReaperStep, Sweep, Reap, Serve, NoRequest, NamesInv, PortalInv,
       TablesOK, Procs, tables, threads
  <2>2. OneSignIn' /\ NamesOK'
    BY <2>1 DEF NamesInv, OneSignIn, NamesOK, NameFits, Procs
  <2> QED
    BY <1>0, <2>2 DEF NamesInv
<1>4. CASE Link \/ (\E c \in calls : Deliver(c)) \/ UNCHANGED vars
  <2>1. UNCHANGED <<authed, ensName, pc, req>>
    BY <1>4 DEF Link, Appear, Vanish, Deliver, vars, tables, threads
  <2> QED
    BY <1>0, <2>1 DEF NamesInv, OneSignIn, NamesOK, NameFits
<1>5. CASE Restart
  <2>1. OneSignIn' /\ NamesOK'
    BY <1>5 DEF Restart, NoRequest, OneSignIn, NamesOK, NameFits, Procs
  <2> QED
    BY <1>0, <2>1 DEF NamesInv
<1> QED
  BY <1>1, <1>2, <1>3, <1>4, <1>5 DEF Next

LEMMA NamesInit == Init => NamesInv
BY InitInv DEF Init, NamesInv, OneSignIn, NamesOK, NameFits, NoRequest, Procs

\* Only a sign-in, a revocation and a restart write the names.
LEMMA NameStays ==
  ASSUME [Next]_vars, ~ (\E p \in Procs : SetName(p) \/ RevokeForget(p)), ~ Restart
  PROVE  ensName' = ensName
<1>1. ASSUME NEW p \in Procs, Handle(p) PROVE ensName' = ensName
  <2>1. CASE Check(p) \/ GrantAccept(p) \/ GrantRefused(p) \/ RevokeNothing(p)
    BY <2>1 DEF Check, GrantAccept, GrantRefused, RevokeNothing, tables
  <2>2. CASE GrantRules(p)
    BY <2>2 DEF GrantRules, tables
  <2>3. CASE \E marked, exempted \in BOOLEAN : GrantFail(p, marked, exempted)
    BY <2>3 DEF GrantFail, tables
  <2>4. CASE \E answer \in Groups \union {None}, at \in Stamps : GrantRecord(p, answer, at)
    BY <2>4 DEF GrantRecord
  <2>5. CASE RevokeRules(p)
    BY <2>5 DEF RevokeRules, tables
  <2>6. CASE NotifyReturn(p) \/ NotifyTimeout(p)
    BY <2>6 DEF NotifyReturn, NotifyTimeout, NotifyEnd, tables
  <2>7. ~ SetName(p) /\ ~ RevokeForget(p)
    OBVIOUS
  <2> HIDE DEF Procs
  <2> QED
    BY <1>1, <2>1, <2>2, <2>3, <2>4, <2>5, <2>6, <2>7 DEF Handle
<1>2. ASSUME NEW w \in Workers, Request(w) PROVE ensName' = ensName
  BY <1>2 DEF Request, StartAdmit, StartRevoke, tables
<1>3. CASE ReaperStep \/ Link
  BY <1>3 DEF ReaperStep, Sweep, Reap, Link, Appear, Vanish, tables
<1>4. CASE (\E c \in calls : Deliver(c)) \/ UNCHANGED vars
  BY <1>4 DEF Deliver, vars, tables
<1> QED
  BY <1>1, <1>2, <1>3, <1>4 DEF Next

LEMMA NameKept ==
  ASSUME NamesInv, [Next]_vars, NEW ip \in Ips, authed[ip] # None, authed'[ip] # None
  PROVE  ensName'[ip] = ensName[ip]
<1> USE DEF NamesInv, PortalInv
<1>1. CASE \E p \in Procs : SetName(p)
  <2>1. PICK p \in Procs : SetName(p)
    BY <1>1
  <2>2. NameFits(authed, ensName, "name", req[p])
    BY <2>1 DEF SetName, NamesOK
  <2> QED
    BY <2>1, <2>2 DEF SetName, NameFits, TablesOK
<1>2. CASE \E p \in Procs : RevokeForget(p)
  BY <1>2 DEF RevokeForget, TablesOK
<1>3. CASE Restart
  BY <1>3 DEF Restart
<1>4. CASE ~ (\E p \in Procs : SetName(p) \/ RevokeForget(p)) /\ ~ Restart
  BY <1>4, NameStays
<1> QED
  BY <1>1, <1>2, <1>3, <1>4

\* The person behind an admitted address never changes in place, for any number
\* of devices, threads and members, as long as a device waits for the answer to
\* its sign-in; without that, the unlocked write of ENS_NAMES breaks it.
THEOREM NamesFixed ==
  ASSUME OneSignInPerIp
  PROVE  Spec => NameFixedWhileAdmitted
<1>1. NamesInv /\ [Next]_vars =>
        [\A ip \in Ips : Admitted(ip) /\ authed'[ip] # None => ensName'[ip] = ensName[ip]]_vars
  BY NameKept DEF Admitted
<1>2. NamesInv /\ [Next]_vars => NamesInv'
  BY NamesNext
<1> QED
  BY <1>1, <1>2, NamesInit, PTL DEF Spec, NameFixedWhileAdmitted

----------------------------------------------------------------------------
(* What is kept of a chain, and what a deletion takes *)

\* The place of position i among the positions kept.
Rank(K, i) == Cardinality({j \in K : j <= i})

\* The rank of a position counts up from 1 to the number of positions.
LEMMA RankCounts ==
  ASSUME NEW n \in Nat, NEW K, K \subseteq 1..n
  PROVE  /\ IsFiniteSet(K) /\ Cardinality(K) \in Nat
         /\ \A i \in K : Rank(K, i) \in 1..Cardinality(K)
         /\ \A i, j \in K : i < j => Rank(K, i) < Rank(K, j)
         /\ \A i, j \in K : Rank(K, i) = Rank(K, j) => i = j
         /\ \A m \in 1..Cardinality(K) : \E i \in K : Rank(K, i) = m
<1> DEFINE upto(i) == {k \in K : k <= i}
<1>1. IsFiniteSet(K) /\ Cardinality(K) \in Nat
  <2>1. IsFiniteSet(1..n) /\ K \in SUBSET (1..n)
    BY FS_Interval
  <2>2. IsFiniteSet(K)
    BY <2>1, FS_Subset
  <2> QED
    BY <2>2, FS_CardinalityType
<1>2. \A i \in K : IsFiniteSet(upto(i)) /\ Cardinality(upto(i)) \in 1..Cardinality(K)
  <2> TAKE i \in K
  <2>1. upto(i) \subseteq K /\ i \in upto(i)
    OBVIOUS
  <2>2. IsFiniteSet(upto(i)) /\ Cardinality(upto(i)) <= Cardinality(K)
    <3>1. upto(i) \in SUBSET K
      BY <2>1
    <3> HIDE DEF upto
    <3> QED
      BY <1>1, <3>1, FS_Subset
  <2>3. Cardinality(upto(i)) \in Nat /\ Cardinality(upto(i)) # 0
    BY <2>1, <2>2, FS_CardinalityType, FS_EmptySet
  <2> HIDE DEF upto
  <2> QED
    BY <1>1, <2>2, <2>3
<1>3. \A i, j \in K : i < j => Cardinality(upto(i)) < Cardinality(upto(j))
  <2> SUFFICES ASSUME NEW i \in K, NEW j \in K, i < j
               PROVE  Cardinality(upto(i)) < Cardinality(upto(j))
    OBVIOUS
  <2>0. K \subseteq Int
    OBVIOUS
  <2>1. upto(i) \subseteq upto(j) /\ j \in upto(j) /\ j \notin upto(i)
    <3>1. \A k \in K : k <= i => k <= j
      BY <2>0
    <3>2. j <= j /\ ~ (j <= i)
      BY <2>0
    <3> QED
      BY <3>1, <3>2
  <2>2. /\ Cardinality(upto(i)) <= Cardinality(upto(j))
        /\ Cardinality(upto(i)) # Cardinality(upto(j))
    <3> HIDE DEF upto
    <3>1. IsFiniteSet(upto(j)) /\ upto(i) \in SUBSET upto(j) /\ upto(i) # upto(j)
      BY <1>2, <2>1
    <3> QED
      BY <3>1, FS_Subset
  <2>3. Cardinality(upto(i)) \in Int /\ Cardinality(upto(j)) \in Int
    BY <1>2
  <2> HIDE DEF upto
  <2> QED
    BY <2>2, <2>3
<1>4. \A i, j \in K : Cardinality(upto(i)) = Cardinality(upto(j)) => i = j
  <2> SUFFICES ASSUME NEW i \in K, NEW j \in K, i # j
               PROVE  Cardinality(upto(i)) # Cardinality(upto(j))
    OBVIOUS
  <2>1. i < j \/ j < i
    OBVIOUS
  <2>2. Cardinality(upto(i)) \in Int /\ Cardinality(upto(j)) \in Int
    BY <1>2
  <2>3. Cardinality(upto(i)) < Cardinality(upto(j)) \/ Cardinality(upto(j)) < Cardinality(upto(i))
    BY <1>3, <2>1
  <2> HIDE DEF upto
  <2> QED
    BY <2>2, <2>3
<1>5. \A m \in 1..Cardinality(K) : \E i \in K : Cardinality(upto(i)) = m
  <2> DEFINE r == [i \in K |-> Cardinality(upto(i))]
             T == 1..Cardinality(K)
  <2>1. r \in Injection(K, T)
    <3>1. r \in [K -> T]
      BY <1>2
    <3>2. \A i, j \in DOMAIN r : r[i] = r[j] => i = j
      BY <1>4
    <3> QED
      BY <3>1, <3>2 DEF Injection, IsInjective
  <2>2. IsFiniteSet(T) /\ Cardinality(T) = Cardinality(K)
    BY <1>1, FS_Interval
  <2> HIDE DEF r, T
  <2>3. r \in Surjection(K, T)
    BY <1>1, <2>1, <2>2, FS_Injection
  <2> QED
    BY <2>3 DEF Surjection, r, T
<1> HIDE DEF upto
<1>6. \A i : Rank(K, i) = Cardinality(upto(i))
  BY DEF Rank, upto
<1> QED
  BY <1>1, <1>2, <1>3, <1>4, <1>5, <1>6

\* What is kept stands in its order.
LEMMA KeepRanks ==
  ASSUME NEW S, NEW c \in Seq(S), NEW K, K \subseteq DOMAIN c
  PROVE  /\ Keep(c, K) \in Seq(S)
         /\ Len(Keep(c, K)) = Cardinality(K) /\ DOMAIN Keep(c, K) = 1..Cardinality(K)
         /\ \A i \in K : Keep(c, K)[Rank(K, i)] = c[i]
<1>1. Len(c) \in Nat /\ K \subseteq 1..Len(c)
  OBVIOUS
<1>2. /\ Cardinality(K) \in Nat
      /\ \A i \in K : Rank(K, i) \in 1..Cardinality(K)
      /\ \A i, j \in K : Rank(K, i) = Rank(K, j) => i = j
      /\ \A m \in 1..Cardinality(K) : \E i \in K : Rank(K, i) = m
  BY <1>1, RankCounts
<1>3. Keep(c, K) = [n \in 1..Cardinality(K) |-> c[CHOOSE i \in K : Rank(K, i) = n]]
  BY DEF Keep, Rank
<1>4. \A n \in 1..Cardinality(K) : c[CHOOSE i \in K : Rank(K, i) = n] \in S
  <2> TAKE n \in 1..Cardinality(K)
  <2>1. (CHOOSE i \in K : Rank(K, i) = n) \in K
    BY <1>2
  <2> QED
    BY <2>1
<1>5. \A i \in K : (CHOOSE j \in K : Rank(K, j) = Rank(K, i)) = i
  BY <1>2
<1>6. Keep(c, K) \in [1..Cardinality(K) -> S]
  BY <1>3, <1>4
<1>7. Keep(c, K) \in Seq(S) /\ Len(Keep(c, K)) = Cardinality(K)
  BY <1>2, <1>6
<1> QED
  BY <1>2, <1>3, <1>5, <1>6, <1>7

\* Where a rule stands in a chain, and how often.
Places(c, r) == {i \in DOMAIN c : c[i] = r}
Count(c, r) == Cardinality(Places(c, r))

LEMMA PlacesFinite ==
  ASSUME NEW S, NEW c \in Seq(S), NEW r
  PROVE  IsFiniteSet(Places(c, r)) /\ Count(c, r) \in Nat
<1>1. DOMAIN c = 1..Len(c) /\ Len(c) \in Nat /\ Places(c, r) \in SUBSET DOMAIN c
  BY DEF Places
<1>2. IsFiniteSet(1..Len(c))
  BY <1>1, FS_Interval
<1>3. IsFiniteSet(Places(c, r))
  BY <1>1, <1>2, FS_Subset
<1> QED
  BY <1>3, FS_CardinalityType DEF Count

\* Two finite sets of positions that f pairs off.
LEMMA PairedOff ==
  ASSUME NEW A, NEW B, IsFiniteSet(A), NEW f, f \in [A -> B],
         \A i, j \in A : f[i] = f[j] => i = j,
         \A k \in B : \E i \in A : f[i] = k
  PROVE  IsFiniteSet(B) /\ Cardinality(B) = Cardinality(A)
<1>1. f \in Injection(A, B)
  BY DEF Injection, IsInjective
<1>2. f \in Surjection(A, B)
  BY DEF Surjection
<1>3. f \in Bijection(A, B)
  BY <1>1, <1>2 DEF Bijection
<1> QED
  BY <1>3, FS_Bijection DEF ExistsBijection

\* Positions moved down by what was put on top.
LEMMA Shifted ==
  ASSUME NEW m \in Nat, NEW P, P \subseteq Nat, IsFiniteSet(P)
  PROVE  IsFiniteSet({m + i : i \in P}) /\ Cardinality({m + i : i \in P}) = Cardinality(P)
<1> DEFINE Q == {m + i : i \in P}
           f == [i \in P |-> m + i]
<1>1. f \in [P -> Q]
  OBVIOUS
<1>2. \A i, j \in P : f[i] = f[j] => i = j
  OBVIOUS
<1>3. \A k \in Q : \E i \in P : f[i] = k
  OBVIOUS
<1> HIDE DEF Q, f
<1>4. IsFiniteSet(Q) /\ Cardinality(Q) = Cardinality(P)
  BY <1>1, <1>2, <1>3, PairedOff
<1> QED
  BY <1>4 DEF Q

LEMMA KeepCount ==
  ASSUME NEW S, NEW c \in Seq(S), NEW K, K \subseteq DOMAIN c, NEW r
  PROVE  Count(Keep(c, K), r) = Cardinality(Places(c, r) \intersect K)
<1> DEFINE A == Places(c, r) \intersect K
           B == Places(Keep(c, K), r)
           f == [i \in A |-> Rank(K, i)]
<1>1. Len(c) \in Nat /\ K \subseteq 1..Len(c)
  OBVIOUS
<1>2. /\ \A i \in K : Rank(K, i) \in 1..Cardinality(K)
      /\ \A i, j \in K : Rank(K, i) = Rank(K, j) => i = j
      /\ \A m \in 1..Cardinality(K) : \E i \in K : Rank(K, i) = m
  BY <1>1, RankCounts
<1>3. DOMAIN Keep(c, K) = 1..Cardinality(K) /\ \A i \in K : Keep(c, K)[Rank(K, i)] = c[i]
  BY KeepRanks
<1>4. IsFiniteSet(A)
  BY PlacesFinite, FS_Intersection
<1>5. \A i \in A : i \in K /\ c[i] = r
  BY DEF Places
<1>6. \A i \in K : c[i] = r => i \in A
  BY DEF Places
<1>7. f \in [A -> B]
  BY <1>2, <1>3, <1>5 DEF Places
<1>8. \A i, j \in A : f[i] = f[j] => i = j
  BY <1>2, <1>5
<1>9. \A k \in B : \E i \in A : f[i] = k
  BY <1>2, <1>3, <1>6 DEF Places
<1> HIDE DEF A, B, f
<1>10. Cardinality(B) = Cardinality(A)
  BY <1>4, <1>7, <1>8, <1>9, PairedOff
<1> QED
  BY <1>10 DEF A, B, Count

LEMMA DeleteType ==
  ASSUME NEW S, NEW c \in Seq(S), NEW D
  PROVE  Delete(c, D) \in Seq(S)
BY KeepRanks DEF Delete

\* Of every rule to delete one goes, if there is one.
LEMMA DeleteCount ==
  ASSUME NEW S, NEW c \in Seq(S), NEW D, NEW r
  PROVE  Count(Delete(c, D), r) = IF r \in D /\ Count(c, r) > 0 THEN Count(c, r) - 1 ELSE Count(c, r)
<1> DEFINE K == DOMAIN c \ FirstOf(c, D)
<1>0. /\ DOMAIN c = 1..Len(c) /\ Len(c) \in Nat
      /\ IsFiniteSet(Places(c, r)) /\ Count(c, r) \in Nat
  BY PlacesFinite
<1>1. Count(Delete(c, D), r) = Cardinality(Places(c, r) \intersect K)
  BY KeepCount DEF Delete
<1>2. CASE r \in D /\ Places(c, r) # {}
  <2> DEFINE m == Min(Places(c, r))
  <2>1. m \in Places(c, r) /\ \A i \in Places(c, r) : m <= i
    <3>1. Places(c, r) \subseteq Nat
      BY <1>0 DEF Places
    <3> QED
      BY <1>2, <3>1, MinNat
  <2> HIDE DEF m
  <2>2. Places(c, r) \intersect K = Places(c, r) \ {m}
    <3>1. m \in FirstOf(c, D)
      BY <1>0, <1>2, <2>1 DEF Places, FirstOf
    <3>2. \A i \in Places(c, r) \ {m} : i \notin FirstOf(c, D)
      <4> SUFFICES ASSUME NEW i \in Places(c, r) \ {m} PROVE i \notin FirstOf(c, D)
        OBVIOUS
      <4>1. m \in 1..(i - 1) /\ c[m] = c[i]
        BY <1>0, <2>1 DEF Places
      <4> QED
        BY <4>1 DEF FirstOf
    <3> QED
      BY <3>1, <3>2 DEF Places
  <2>3. Cardinality(Places(c, r) \ {m}) = Cardinality(Places(c, r)) - 1
    BY <1>0, <2>1, FS_RemoveElement
  <2>4. Count(c, r) > 0
    BY <1>0, <1>2, FS_EmptySet DEF Count
  <2> QED
    BY <1>1, <1>2, <2>2, <2>3, <2>4 DEF Count
<1>3. CASE r \notin D \/ Places(c, r) = {}
  <2>1. Places(c, r) \intersect K = Places(c, r)
    BY <1>3 DEF Places, FirstOf
  <2>2. Places(c, r) = {} => Count(c, r) = 0
    BY FS_EmptySet DEF Count
  <2>3. Count(Delete(c, D), r) = Count(c, r)
    BY <1>1, <2>1, Zenon DEF Count
  <2>4. r \notin D \/ Count(c, r) = 0
    BY <1>3, <2>2, Zenon
  <2> QED
    BY <2>3, <2>4
<1> QED
  BY <1>2, <1>3, Zenon

LEMMA ConcatCount ==
  ASSUME NEW S, NEW s \in Seq(S), NEW t \in Seq(S), NEW r
  PROVE  s \o t \in Seq(S) /\ Count(s \o t, r) = Count(s, r) + Count(t, r)
<1> DEFINE m == Len(s)
           shifted == {m + i : i \in Places(t, r)}
<1>1. /\ s \o t \in Seq(S) /\ Len(s) \in Nat /\ Len(t) \in Nat
      /\ DOMAIN s = 1..Len(s) /\ DOMAIN t = 1..Len(t)
      /\ DOMAIN (s \o t) = 1..(Len(s) + Len(t))
      /\ \A i \in 1..Len(s) : (s \o t)[i] = s[i]
      /\ \A i \in 1..Len(t) : (s \o t)[Len(s) + i] = t[i]
  OBVIOUS
<1>2. /\ IsFiniteSet(Places(s, r)) /\ Count(s, r) \in Nat
      /\ IsFiniteSet(Places(t, r)) /\ Count(t, r) \in Nat
  BY PlacesFinite
<1>3. IsFiniteSet(shifted) /\ Cardinality(shifted) = Count(t, r)
  <2>1. Places(t, r) \subseteq Nat
    BY <1>1 DEF Places
  <2> QED
    BY <1>1, <1>2, <2>1, Shifted DEF Count
<1>4. Places(s \o t, r) = Places(s, r) \union shifted
  <2>1. ASSUME NEW k \in Places(s \o t, r) PROVE k \in Places(s, r) \union shifted
    <3>1. CASE k <= m
      BY <1>1, <2>1, <3>1 DEF Places
    <3>2. CASE k > m
      <4>1. k - m \in 1..Len(t) /\ k = m + (k - m)
        BY <1>1, <2>1, <3>2 DEF Places
      <4>2. k - m \in Places(t, r)
        BY <1>1, <2>1, <4>1 DEF Places
      <4> QED
        BY <4>1, <4>2
    <3> QED
      BY <1>1, <2>1, <3>1, <3>2 DEF Places
  <2>2. Places(s, r) \subseteq Places(s \o t, r)
    BY <1>1 DEF Places
  <2>3. ASSUME NEW i \in Places(t, r) PROVE m + i \in Places(s \o t, r)
    <3>1. i \in 1..Len(t) /\ t[i] = r
      BY <1>1 DEF Places
    <3>2. m + i \in 1..(Len(s) + Len(t)) /\ (s \o t)[m + i] = r
      BY <1>1, <3>1
    <3> QED
      BY <1>1, <3>2 DEF Places
  <2> QED
    BY <2>1, <2>2, <2>3
<1>5. Places(s, r) \intersect shifted = {}
  BY <1>1 DEF Places
<1> HIDE DEF shifted
<1>6. Cardinality(Places(s \o t, r)) = Cardinality(Places(s, r)) + Cardinality(shifted) - Cardinality({})
  BY <1>2, <1>3, <1>4, <1>5, FS_Union
<1> QED
  BY <1>1, <1>2, <1>3, <1>6, FS_EmptySet DEF Count

\* The rules r that stand in front of the first rule s.
Ahead(c, r, s) == {i \in Places(c, r) : \A j \in 1..(i - 1) : c[j] # s}

LEMMA AheadFinite ==
  ASSUME NEW S, NEW c \in Seq(S), NEW r, NEW s
  PROVE  IsFiniteSet(Ahead(c, r, s)) /\ Cardinality(Ahead(c, r, s)) \in Nat
<1>1. Ahead(c, r, s) \in SUBSET Places(c, r)
  BY DEF Ahead
<1>2. IsFiniteSet(Places(c, r))
  BY PlacesFinite
<1>3. IsFiniteSet(Ahead(c, r, s))
  BY <1>1, <1>2, FS_Subset
<1> QED
  BY <1>3, FS_CardinalityType

\* Rules put on top, none of them s.
LEMMA ConcatAhead ==
  ASSUME NEW S, NEW t \in Seq(S), NEW c \in Seq(S), NEW r, NEW s, Places(t, s) = {}
  PROVE  Cardinality(Ahead(t \o c, r, s)) = Count(t, r) + Cardinality(Ahead(c, r, s))
<1> DEFINE m == Len(t)
           shifted == {m + i : i \in Ahead(c, r, s)}
<1>1. /\ Len(t) \in Nat /\ Len(c) \in Nat
      /\ DOMAIN t = 1..Len(t) /\ DOMAIN c = 1..Len(c)
      /\ DOMAIN (t \o c) = 1..(Len(t) + Len(c))
      /\ \A i \in 1..Len(t) : (t \o c)[i] = t[i]
      /\ \A i \in 1..Len(c) : (t \o c)[Len(t) + i] = c[i]
  OBVIOUS
<1>2. /\ IsFiniteSet(Places(t, r)) /\ Count(t, r) \in Nat
      /\ IsFiniteSet(Ahead(c, r, s)) /\ Cardinality(Ahead(c, r, s)) \in Nat
  BY PlacesFinite, AheadFinite
<1>3. \A i \in 1..Len(t) : t[i] # s
  BY <1>1 DEF Places
<1>4. \A i \in Ahead(c, r, s) : i \in 1..Len(c) /\ c[i] = r /\ \A j \in 1..(i - 1) : c[j] # s
  BY <1>1 DEF Ahead, Places
<1>5. IsFiniteSet(shifted) /\ Cardinality(shifted) = Cardinality(Ahead(c, r, s))
  <2>1. Ahead(c, r, s) \subseteq Nat
    BY <1>1, <1>4
  <2> QED
    BY <1>1, <1>2, <2>1, Shifted
<1>6. Ahead(t \o c, r, s) = Places(t, r) \union shifted
  <2>1. ASSUME NEW k \in Ahead(t \o c, r, s) PROVE k \in Places(t, r) \union shifted
    <3>0. /\ k \in 1..(Len(t) + Len(c)) /\ (t \o c)[k] = r
          /\ \A j \in 1..(k - 1) : (t \o c)[j] # s
      BY <1>1, <2>1 DEF Ahead, Places
    <3>1. CASE k <= m
      BY <1>1, <3>0, <3>1 DEF Places
    <3>2. CASE k > m
      <4>1. k - m \in 1..Len(c) /\ k = m + (k - m)
        BY <1>1, <3>0, <3>2
      <4>2. c[k - m] = r
        BY <1>1, <3>0, <4>1
      <4>3. ASSUME NEW j \in 1..((k - m) - 1) PROVE c[j] # s
        <5>1. j \in 1..Len(c) /\ m + j \in 1..(k - 1)
          BY <1>1, <3>0, <4>1
        <5> QED
          BY <1>1, <3>0, <5>1
      <4>4. k - m \in Ahead(c, r, s)
        BY <1>1, <4>1, <4>2, <4>3 DEF Ahead, Places
      <4> QED
        BY <4>1, <4>4
    <3> QED
      BY <1>1, <3>0, <3>1, <3>2
  <2>2. ASSUME NEW k \in Places(t, r) PROVE k \in Ahead(t \o c, r, s)
    <3>1. k \in 1..Len(t) /\ t[k] = r
      BY <1>1 DEF Places
    <3>2. \A j \in 1..(k - 1) : j \in 1..Len(t)
      BY <1>1, <3>1
    <3>3. k \in 1..(Len(t) + Len(c)) /\ (t \o c)[k] = r /\ \A j \in 1..(k - 1) : (t \o c)[j] # s
      BY <1>1, <1>3, <3>1, <3>2
    <3> QED
      BY <1>1, <3>3 DEF Ahead, Places
  <2>3. ASSUME NEW i \in Ahead(c, r, s) PROVE m + i \in Ahead(t \o c, r, s)
    <3>1. m + i \in 1..(Len(t) + Len(c)) /\ (t \o c)[m + i] = r
      BY <1>1, <1>4
    <3>2. ASSUME NEW j \in 1..((m + i) - 1) PROVE (t \o c)[j] # s
      <4>1. CASE j <= m
        BY <1>1, <1>3, <3>2, <4>1
      <4>2. CASE j > m
        <5>1. j - m \in 1..(i - 1) /\ j - m \in 1..Len(c) /\ j = m + (j - m)
          BY <1>1, <1>4, <3>2, <4>2
        <5> QED
          BY <1>1, <1>4, <5>1
      <4> QED
        BY <1>1, <1>4, <4>1, <4>2
    <3> QED
      BY <1>1, <3>1, <3>2 DEF Ahead, Places
  <2> QED
    BY <2>1, <2>2, <2>3
<1>7. Places(t, r) \intersect shifted = {}
  <2>1. ASSUME NEW i \in Ahead(c, r, s) PROVE m + i \notin Places(t, r)
    BY <1>1, <1>4 DEF Places
  <2> QED
    BY <2>1
<1> HIDE DEF shifted
<1>8. Cardinality(Ahead(t \o c, r, s)) = Cardinality(Places(t, r)) + Cardinality(shifted) - Cardinality({})
  BY <1>2, <1>5, <1>6, <1>7, FS_Union
<1> QED
  BY <1>2, <1>5, <1>8, FS_EmptySet DEF Count

\* A rule s on top leaves nothing ahead of it.
LEMMA TopAhead ==
  ASSUME NEW S, NEW c \in Seq(S), NEW r, NEW s \in S, r # s
  PROVE  Ahead(<<s>> \o c, r, s) = {}
<1>1. (<<s>> \o c)[1] = s /\ DOMAIN (<<s>> \o c) = 1..(1 + Len(c)) /\ Len(c) \in Nat
  OBVIOUS
<1> SUFFICES ASSUME NEW i \in Ahead(<<s>> \o c, r, s) PROVE FALSE
  OBVIOUS
<1>2. i \in 1..(1 + Len(c)) /\ (<<s>> \o c)[i] = r /\ \A j \in 1..(i - 1) : (<<s>> \o c)[j] # s
  BY <1>1 DEF Ahead, Places
<1>3. i # 1
  BY <1>1, <1>2
<1>4. 1 \in 1..(i - 1)
  BY <1>1, <1>2, <1>3
<1> QED
  BY <1>1, <1>2, <1>4

\* Of what stands ahead of the first s that stays, what is kept.
LEMMA KeepAhead ==
  ASSUME NEW S, NEW c \in Seq(S), NEW K, K \subseteq DOMAIN c, NEW r, NEW s, Places(c, s) \subseteq K
  PROVE  Cardinality(Ahead(Keep(c, K), r, s)) = Cardinality(Ahead(c, r, s) \intersect K)
<1> DEFINE k == Keep(c, K)
           A == Ahead(c, r, s) \intersect K
           B == Ahead(k, r, s)
           f == [i \in A |-> Rank(K, i)]
<1>0. Len(c) \in Nat /\ DOMAIN c = 1..Len(c) /\ K \subseteq 1..Len(c) /\ K \subseteq Int
  OBVIOUS
<1>1. /\ Cardinality(K) \in Nat
      /\ \A i \in K : Rank(K, i) \in 1..Cardinality(K)
      /\ \A i, j \in K : i < j => Rank(K, i) < Rank(K, j)
      /\ \A i, j \in K : Rank(K, i) = Rank(K, j) => i = j
      /\ \A m \in 1..Cardinality(K) : \E i \in K : Rank(K, i) = m
  BY <1>0, RankCounts
<1>2. DOMAIN k = 1..Cardinality(K) /\ \A i \in K : k[Rank(K, i)] = c[i]
  BY KeepRanks
<1>3. IsFiniteSet(A)
  BY AheadFinite, FS_Intersection
<1> HIDE DEF k
<1>4. ASSUME NEW i \in K
      PROVE  i \in Ahead(c, r, s) <=> Rank(K, i) \in B
  <2>1. i \in Places(c, r) <=> Rank(K, i) \in Places(k, r)
    BY <1>0, <1>1, <1>2 DEF Places
  <2>2. ASSUME NEW j \in 1..(i - 1), c[j] = s
        PROVE  \E m \in 1..(Rank(K, i) - 1) : k[m] = s
    <3>1. j \in K /\ j < i
      BY <1>0, <2>2 DEF Places
    <3>2. Rank(K, j) \in 1..(Rank(K, i) - 1) /\ k[Rank(K, j)] = s
      BY <1>1, <1>2, <2>2, <3>1
    <3> QED
      BY <3>2
  <2>3. ASSUME NEW m \in 1..(Rank(K, i) - 1), k[m] = s
        PROVE  \E j \in 1..(i - 1) : c[j] = s
    <3>1. m \in 1..Cardinality(K) /\ Rank(K, i) \in Int /\ m < Rank(K, i)
      BY <1>1, <2>3
    <3>2. PICK j \in K : Rank(K, j) = m
      BY <1>1, <3>1
    <3>3. c[j] = s
      BY <1>2, <2>3, <3>2
    <3>4. ~ (i < j) /\ i # j
      BY <1>1, <3>1, <3>2
    <3>5. j \in 1..(i - 1)
      BY <1>0, <3>4
    <3> QED
      BY <3>3, <3>5
  <2> QED
    BY <2>1, <2>2, <2>3 DEF Ahead
<1>5. \A i \in A : i \in K /\ i \in Ahead(c, r, s)
  OBVIOUS
<1>6. \A i \in K : i \in Ahead(c, r, s) => i \in A
  OBVIOUS
<1>7. B \subseteq 1..Cardinality(K)
  BY <1>2 DEF Ahead, Places
<1> HIDE DEF A, B
<1>8. f \in [A -> B]
  BY <1>4, <1>5
<1>9. \A i, j \in A : f[i] = f[j] => i = j
  BY <1>1, <1>5
<1>10. \A n \in B : \E i \in A : f[i] = n
  BY <1>1, <1>4, <1>6, <1>7
<1> HIDE DEF f
<1>11. Cardinality(B) = Cardinality(A)
  BY <1>3, <1>8, <1>9, <1>10, PairedOff
<1> QED
  BY <1>11 DEF A, B, k

\* A deletion that spares s takes one of the rules r ahead of it, if there is one.
LEMMA DeleteAhead ==
  ASSUME NEW S, NEW c \in Seq(S), NEW D, NEW r, NEW s, s \notin D
  PROVE  Cardinality(Ahead(Delete(c, D), r, s)) =
           IF r \in D /\ Ahead(c, r, s) # {} THEN Cardinality(Ahead(c, r, s)) - 1
           ELSE Cardinality(Ahead(c, r, s))
<1> DEFINE K == DOMAIN c \ FirstOf(c, D)
<1>0. /\ DOMAIN c = 1..Len(c) /\ Len(c) \in Nat
      /\ IsFiniteSet(Ahead(c, r, s))
  BY AheadFinite
<1>1. Places(c, s) \subseteq K
  BY DEF Places, FirstOf
<1>2. Cardinality(Ahead(Delete(c, D), r, s)) = Cardinality(Ahead(c, r, s) \intersect K)
  BY <1>1, KeepAhead DEF Delete
<1>3. CASE r \in D /\ Ahead(c, r, s) # {}
  <2> DEFINE m == Min(Places(c, r))
  <2>1. m \in Places(c, r) /\ \A i \in Places(c, r) : m <= i
    <3>1. Places(c, r) \subseteq Nat /\ Places(c, r) # {}
      BY <1>0, <1>3 DEF Places, Ahead
    <3> QED
      BY <3>1, MinNat
  <2> HIDE DEF m
  <2>2. m \in Ahead(c, r, s)
    <3>1. PICK i \in Ahead(c, r, s) : TRUE
      BY <1>3
    <3>2. i \in Places(c, r) /\ m <= i /\ \A j \in 1..(i - 1) : c[j] # s
      BY <2>1 DEF Ahead
    <3>3. \A j \in 1..(m - 1) : j \in 1..(i - 1)
      BY <1>0, <2>1, <3>2 DEF Places
    <3> QED
      BY <2>1, <3>2, <3>3 DEF Ahead
  <2>3. Ahead(c, r, s) \intersect K = Ahead(c, r, s) \ {m}
    <3>1. m \in FirstOf(c, D)
      BY <1>0, <1>3, <2>1 DEF Places, FirstOf
    <3>2. \A i \in Ahead(c, r, s) \ {m} : i \notin FirstOf(c, D)
      <4> SUFFICES ASSUME NEW i \in Ahead(c, r, s) \ {m} PROVE i \notin FirstOf(c, D)
        OBVIOUS
      <4>1. m \in 1..(i - 1) /\ c[m] = c[i]
        BY <1>0, <2>1 DEF Ahead, Places
      <4> QED
        BY <4>1 DEF FirstOf
    <3> QED
      BY <3>1, <3>2 DEF Places, Ahead
  <2>4. Cardinality(Ahead(c, r, s) \ {m}) = Cardinality(Ahead(c, r, s)) - 1
    BY <1>0, <2>2, FS_RemoveElement
  <2> QED
    BY <1>2, <1>3, <2>3, <2>4, Zenon
<1>4. CASE ~ (r \in D /\ Ahead(c, r, s) # {})
  <2>1. Ahead(c, r, s) \intersect K = Ahead(c, r, s)
    BY <1>4 DEF Ahead, Places, FirstOf
  <2> QED
    BY <1>2, <1>4, <2>1, Zenon
<1> QED
  BY <1>3, <1>4, Zenon

\* The rules of a finite set, one after the other.
LEMMA SetToSeqCounts ==
  ASSUME NEW S, NEW D, D \subseteq S, IsFiniteSet(D)
  PROVE  /\ SetToSeq(D) \in Seq(S)
         /\ \A r \in D : Count(SetToSeq(D), r) = 1
         /\ \A r : r \notin D => Places(SetToSeq(D), r) = {} /\ Count(SetToSeq(D), r) = 0
<1> DEFINE n == Cardinality(D)
           q == SetToSeq(D)
<1>1. n \in Nat /\ ExistsBijection(1..n, D)
  BY FS_CardinalityType
<1>2. \E f \in [1..n -> D] : IsInjective(f)
  BY <1>1 DEF ExistsBijection, Bijection, Injection
<1>3. q \in [1..n -> D] /\ IsInjective(q)
  BY <1>2 DEF SetToSeq
<1>4. IsFiniteSet(1..n) /\ Cardinality(1..n) = n
  BY <1>1, FS_Interval
<1> HIDE DEF q, n
<1>5. q \in Surjection(1..n, D)
  <2>1. q \in Injection(1..n, D)
    BY <1>3 DEF Injection
  <2> QED
    BY <1>4, <2>1, FS_Injection DEF n
<1>6. q \in Seq(S)
  BY <1>1, <1>3
<1>7. ASSUME NEW r \in D PROVE Count(q, r) = 1
  <2>1. PICK i \in 1..n : q[i] = r
    BY <1>5 DEF Surjection
  <2>2. Places(q, r) = {i}
    BY <1>3, <2>1 DEF Places, IsInjective
  <2> QED
    BY <2>2, FS_Singleton DEF Count
<1>8. ASSUME NEW r, r \notin D PROVE Places(q, r) = {} /\ Count(q, r) = 0
  <2>1. Places(q, r) = {}
    BY <1>3, <1>8 DEF Places
  <2> QED
    BY <2>1, FS_EmptySet DEF Count
<1> QED
  BY <1>6, <1>7, <1>8 DEF q

\* The two kinds of rules, told apart.
LEMMA RuleKinds ==
  /\ \A a, b : Accept(a) = Accept(b) => a = b
  /\ \A a, b, c, d : Drop(a, b) = Drop(c, d) => a = c /\ b = d
  /\ \A a, b, c : Accept(a) # Drop(b, c)
<1>1. \A a : Accept(a).src = a /\ Accept(a).target = "ACCEPT"
  BY DEF Accept
<1>2. \A a, b : Drop(a, b).src = a /\ Drop(a, b).dst = b /\ Drop(a, b).target = "DROP"
  BY DEF Drop
<1> QED
  BY <1>1, <1>2

LEMMA DropsForType ==
  ASSUME NEW ip \in Ips
  PROVE  /\ DropsFor(ip) \subseteq Rules /\ IsFiniteSet(DropsFor(ip))
         /\ \A a : Accept(a) \notin DropsFor(ip)
         /\ \A a, b : Drop(a, b) \in DropsFor(ip) <=>
              \/ a = ip /\ b \in Strangers(ip)
              \/ b = ip /\ a \in Strangers(ip)
<1> DEFINE D == Strangers(ip)
           E == {Drop(ip, o) : o \in D}
           F == {Drop(o, ip) : o \in D}
           e == [o \in D |-> Drop(ip, o)]
           f == [o \in D |-> Drop(o, ip)]
<1>1. DropsFor(ip) = E \union F /\ D \subseteq Ips
  BY DEF DropsFor, Strangers
<1>2. IsFiniteSet(D)
  <2>1. D \in SUBSET Ips /\ IsFiniteSet(Ips)
    BY <1>1, PortalAssumption
  <2> HIDE DEF D
  <2> QED
    BY <2>1, FS_Subset
<1>3. e \in Surjection(D, E) /\ f \in Surjection(D, F)
  BY DEF Surjection
<1>4. IsFiniteSet(E) /\ IsFiniteSet(F)
  <2> HIDE DEF D, E, F, e, f
  <2> QED
    BY <1>2, <1>3, FS_Surjection
<1>5. IsFiniteSet(E \union F)
  <2> HIDE DEF D, E, F, e, f
  <2> QED
    BY <1>4, FS_Union
<1>6. DropsFor(ip) \subseteq Rules
  BY <1>1 DEF Rules
<1>7. \A a : Accept(a) \notin DropsFor(ip)
  BY <1>1, RuleKinds
<1>8. \A a, b : Drop(a, b) \in DropsFor(ip) <=> (a = ip /\ b \in D) \/ (b = ip /\ a \in D)
  BY <1>1, RuleKinds
<1> QED
  BY <1>1, <1>5, <1>6, <1>7, <1>8

LEMMA OneRule ==
  ASSUME NEW s
  PROVE  /\ Count(<<s>>, s) = 1
         /\ \A r : r # s => Places(<<s>>, r) = {} /\ Count(<<s>>, r) = 0
<1>1. Places(<<s>>, s) = {1}
  BY DEF Places
<1>2. \A r : r # s => Places(<<s>>, r) = {}
  BY DEF Places
<1> QED
  BY <1>1, <1>2, FS_Singleton, FS_EmptySet DEF Count

\* What the first match says to a device that has an ACCEPT.
LEMMA VerdictIs ==
  ASSUME forward \in Seq(Rules), NEW a \in Ips, NEW b \in Ips, Places(forward, Accept(a)) # {}
  PROVE  Verdict(a, b) = IF Ahead(forward, Drop(a, b), Accept(a)) # {} THEN "DROP" ELSE "ACCEPT"
<1> DEFINE hits == {i \in DOMAIN forward : forward[i].src = a /\ forward[i].dst \in {AnyDst, b}}
           m == Min(hits)
<1>0. DOMAIN forward = 1..Len(forward) /\ Len(forward) \in Nat
  OBVIOUS
<1>1. \A i \in DOMAIN forward : i \in hits <=> forward[i] \in {Accept(a), Drop(a, b)}
  <2> TAKE i \in DOMAIN forward
  <2>1. forward[i] \in Rules
    BY <1>0
  <2>2. CASE \E ip \in Ips : forward[i] = Accept(ip)
    <3>1. PICK ip \in Ips : forward[i] = Accept(ip)
      BY <2>2
    <3>2. forward[i].src = ip /\ forward[i].dst = AnyDst
      BY <3>1 DEF Accept
    <3> QED
      BY <3>1, <3>2, RuleKinds
  <2>3. CASE \E c, d \in Ips : forward[i] = Drop(c, d)
    <3>1. PICK c \in Ips, d \in Ips : forward[i] = Drop(c, d)
      BY <2>3
    <3>2. forward[i].src = c /\ forward[i].dst = d /\ d # AnyDst
      BY <3>1, PortalAssumption DEF Drop
    <3> QED
      BY <3>1, <3>2, RuleKinds
  <2> QED
    BY <2>1, <2>2, <2>3 DEF Rules
<1>2. hits \subseteq Nat /\ hits # {}
  BY <1>0, <1>1 DEF Places
<1>3. m \in hits /\ \A i \in hits : m <= i
  BY <1>2, MinNat
<1>4. Verdict(a, b) = forward[m].target
  BY <1>2 DEF Verdict
<1>5. hits \subseteq DOMAIN forward
  OBVIOUS
<1> HIDE DEF hits, m
<1>6. m \in 1..Len(forward) /\ forward[m] \in {Accept(a), Drop(a, b)}
  BY <1>0, <1>1, <1>3, <1>5
<1>7. CASE forward[m] = Accept(a)
  <2>1. ASSUME NEW i \in Ahead(forward, Drop(a, b), Accept(a)) PROVE FALSE
    <3>1. i \in DOMAIN forward /\ forward[i] = Drop(a, b) /\ \A j \in 1..(i - 1) : forward[j] # Accept(a)
      BY DEF Ahead, Places
    <3>2. m <= i /\ m # i
      BY <1>1, <1>3, <1>7, <3>1, RuleKinds
    <3>3. m \in 1..(i - 1)
      BY <1>0, <1>6, <3>1, <3>2
    <3> QED
      BY <1>7, <3>1, <3>3
  <2> QED
    BY <1>4, <1>7, <2>1 DEF Accept
<1>8. CASE forward[m] = Drop(a, b)
  <2>1. \A j \in 1..(m - 1) : forward[j] # Accept(a)
    <3> SUFFICES ASSUME NEW j \in 1..(m - 1), forward[j] = Accept(a) PROVE FALSE
      OBVIOUS
    <3>1. j \in DOMAIN forward /\ ~ (m <= j)
      BY <1>0, <1>6
    <3> QED
      BY <1>1, <1>3, <3>1
  <2>2. m \in Ahead(forward, Drop(a, b), Accept(a))
    BY <1>0, <1>6, <1>8, <2>1 DEF Ahead, Places
  <2> QED
    BY <1>4, <1>8, <2>2 DEF Drop
<1> QED
  BY <1>6, <1>7, <1>8

----------------------------------------------------------------------------
(* Which devices the chain is about *)

\* Admitted or being admitted; and those of them whose DROPs are in place.
Held(ip) == Admitted(ip) \/ At(ip, {"rules", "record"})
Parted(ip) == Admitted(ip) \/ At(ip, {"record"})

\* A thread that takes, keeps or gives back the lock is alone inside.
LEMMA AtMoves ==
  ASSUME TablesOK, LockOK, NEW p \in Procs, NEW l, NEW r, Moves(p, l, r), lock \in {None, p},
         NEW L \in SUBSET Owning, NEW ip
  PROVE  /\ At(ip, L) <=> pc[p] \in L /\ req[p].ip = ip
         /\ At(ip, L)' <=> l \in L /\ r.ip = ip
<1>1. \A q \in Procs \ {p} : pc[q] \notin L
  BY PortalAssumption DEF LockOK
<1>2. /\ pc'[p] = l /\ req'[p] = r
      /\ \A q \in Procs \ {p} : pc'[q] = pc[q]
  BY DEF Moves, TablesOK
<1>3. At(ip, L) <=> pc[p] \in L /\ req[p].ip = ip
  BY <1>1 DEF At
<1>4. At(ip, L)' <=> l \in L /\ r.ip = ip
  BY <1>1, <1>2 DEF At
<1> QED
  BY <1>3, <1>4

\* A thread that is outside and stays there.
LEMMA AtStays ==
  ASSUME TablesOK, NEW p \in Procs, NEW l, NEW r, Moves(p, l, r), pc[p] \notin Owning, l \notin Owning,
         NEW L \in SUBSET Owning, NEW ip
  PROVE  At(ip, L)' <=> At(ip, L)
<1>1. /\ pc'[p] = l
      /\ \A q \in Procs \ {p} : pc'[q] = pc[q] /\ req'[q] = req[q]
  BY DEF Moves, TablesOK
<1> QED
  BY <1>1 DEF At

LEMMA Inner == {"rules"} \in SUBSET Owning /\ {"record"} \in SUBSET Owning
               /\ {"forget"} \in SUBSET Owning /\ {"rules", "record"} \in SUBSET Owning
BY DEF Owning

\* A step that changes neither the chain nor the devices it is about.
Quiet ==
  /\ UNCHANGED <<forward, restarts, leaked, spoilt>>
  /\ \A ip \in Ips : (Held(ip)' <=> Held(ip)) /\ (Parted(ip)' <=> Parted(ip))

LEMMA OutsideQuiet ==
  ASSUME TablesOK, NEW p \in Procs, NEW l, NEW r, Moves(p, l, r), pc[p] \notin Owning, l \notin Owning,
         UNCHANGED <<authed, forward, restarts, leaked, spoilt>>
  PROVE  Quiet
<1>1. \A ip \in Ips, L \in SUBSET Owning : At(ip, L)' <=> At(ip, L)
  BY AtStays
<1> QED
  BY <1>1, Inner DEF Quiet, Held, Parted, Admitted

\* All but five kinds of step are quiet.
LEMMA QuietSteps ==
  ASSUME PortalInv, [Next]_vars
  PROVE  \/ Quiet
         \/ Restart
         \/ \E p \in Procs : \/ GrantAccept(p) /\ authed[req[p].ip] = None
                             \/ GrantRules(p)
                             \/ \E marked, exempted \in BOOLEAN : GrantFail(p, marked, exempted)
                             \/ RevokeRules(p)
<1> USE DEF PortalInv, ThreadsOK
<1>1. ASSUME NEW p \in Procs, Check(p) PROVE Quiet
  <2>1. pc[p] = "check" /\ UNCHANGED <<authed, forward, restarts, leaked, spoilt>>
    BY <1>1 DEF Check, tables, netfilter, counters, slips
  <2>2. PICK l \in {"revoke", "name"} : Goto(p, l)
    BY <1>1 DEF Check
  <2> QED
    BY <2>1, <2>2, GotoMoves, OutsideQuiet DEF Owning
<1>2. ASSUME NEW p \in Procs, SetName(p) PROVE Quiet
  <2>1. pc[p] = "name" /\ UNCHANGED <<authed, forward, restarts, leaked, spoilt>> /\ Goto(p, "grant")
    BY <1>2 DEF SetName, netfilter, counters, slips
  <2> QED
    BY <2>1, GotoMoves, OutsideQuiet DEF Owning
<1>3. ASSUME NEW p \in Procs, GrantAccept(p), authed[req[p].ip] # None PROVE Quiet
  <2>1. pc[p] = "grant" /\ UNCHANGED <<authed, forward, restarts, leaked, spoilt>> /\ Goto(p, "idle")
    BY <1>3 DEF GrantAccept, tables, counters, slips
  <2> QED
    BY <2>1, GotoMoves, OutsideQuiet DEF Owning
<1>4. ASSUME NEW p \in Procs, GrantRefused(p) PROVE Quiet
  <2>1. pc[p] = "grant" /\ UNCHANGED <<authed, forward, restarts, leaked, spoilt>> /\ Goto(p, "idle")
    BY <1>4 DEF GrantRefused, tables, netfilter, slips
  <2> QED
    BY <2>1, GotoMoves, OutsideQuiet DEF Owning
<1>5. ASSUME NEW p \in Procs, NEW answer \in Groups \union {None}, NEW at \in Stamps,
             GrantRecord(p, answer, at)
      PROVE  Quiet
  <2>1. /\ pc[p] = "record" /\ UNCHANGED <<forward, restarts, leaked, spoilt>>
        /\ authed' = [authed EXCEPT ![req[p].ip] = req[p].tier]
    BY <1>5 DEF GrantRecord, netfilter, slips
  <2>2. /\ lock = p /\ req[p].ip \in Ips /\ req[p].tier # None /\ authed[req[p].ip] = None
    BY <2>1, Inside, PortalAssumption DEF Owning
  <2>3. PICK l \in {"idle", "created"} : \E r : Moves(p, l, r)
    <3>1. \/ Goto(p, "idle")
          \/ pc' = [pc EXCEPT ![p] = "created"] /\ req' = [req EXCEPT ![p].sid = NewSession]
      BY <1>5 DEF GrantRecord
    <3>2. CASE Goto(p, "idle")
      BY <3>2, GotoMoves
    <3>3. CASE pc' = [pc EXCEPT ![p] = "created"] /\ req' = [req EXCEPT ![p].sid = NewSession]
      BY <3>3 DEF Moves, TablesOK
    <3> QED
      BY <3>1, <3>2, <3>3
  <2>4. PICK r : Moves(p, l, r)
    BY <2>3
  <2>5. \A ip \in Ips, L \in SUBSET Owning :
          /\ At(ip, L) <=> "record" \in L /\ req[p].ip = ip
          /\ At(ip, L)' <=> l \in L /\ r.ip = ip
    BY <2>1, <2>2, <2>4, AtMoves
  <2>6. \A ip \in Ips : /\ ~ At(ip, {"forget"}) /\ ~ At(ip, {"forget"})'
                        /\ ~ At(ip, {"record"})' /\ ~ At(ip, {"rules", "record"})'
                        /\ At(ip, {"record"}) <=> req[p].ip = ip
                        /\ At(ip, {"rules", "record"}) <=> req[p].ip = ip
    BY <2>5, Inner
  <2> QED
    BY <2>1, <2>2, <2>6 DEF Quiet, Held, Parted, Admitted, TablesOK
<1>6. ASSUME NEW p \in Procs, RevokeNothing(p) PROVE Quiet
  <2>1. /\ pc[p] = "revoke" /\ UNCHANGED <<authed, forward, restarts, leaked, spoilt>> /\ Goto(p, AfterRevoke(p))
    BY <1>6 DEF RevokeNothing, tables, netfilter, counters, slips
  <2> QED
    BY <2>1, GotoMoves, OutsideQuiet DEF Owning, AfterRevoke
<1>7. ASSUME NEW p \in Procs, RevokeForget(p) PROVE Quiet
  <2>1. /\ pc[p] = "forget" /\ UNCHANGED <<forward, restarts, leaked, spoilt>>
        /\ authed' = [authed EXCEPT ![req[p].ip] = None]
    BY <1>7 DEF RevokeForget, netfilter, counters, slips
  <2>2. lock = p /\ req[p].ip \in Ips
    BY <2>1, Inside DEF Owning
  <2>3. PICK r : Moves(p, "ended", r)
    BY <1>7 DEF RevokeForget, Moves, TablesOK
  <2>4. \A ip \in Ips, L \in SUBSET Owning :
          /\ At(ip, L) <=> "forget" \in L /\ req[p].ip = ip
          /\ At(ip, L)' <=> "ended" \in L /\ r.ip = ip
    BY <2>1, <2>2, <2>3, AtMoves
  <2>5. \A ip \in Ips : /\ At(ip, {"forget"}) <=> req[p].ip = ip
                        /\ ~ At(ip, {"record"}) /\ ~ At(ip, {"rules", "record"})
                        /\ ~ At(ip, {"record"})' /\ ~ At(ip, {"rules", "record"})'
                        /\ ~ At(ip, {"forget"})'
    BY <2>4, Inner
  <2> QED
    BY <2>1, <2>2, <2>5 DEF Quiet, Held, Parted, Admitted, TablesOK
<1>8. ASSUME NEW p \in Procs, NotifyReturn(p) \/ NotifyTimeout(p) PROVE Quiet
  <2>1. pc[p] \in {"created", "ended"} /\ UNCHANGED <<authed, forward, restarts, leaked, spoilt>>
    BY <1>8 DEF NotifyReturn, NotifyTimeout, NotifyEnd, tables, netfilter, slips
  <2>2. lock = p
    BY <2>1, Inside DEF Owning
  <2>3. PICK l \in {"idle", "name"} : \E r : Moves(p, l, r)
    <3>1. PICK l \in {"idle", "name"} : Goto(p, l)
      BY <1>8 DEF NotifyReturn, NotifyTimeout, NotifyEnd, AfterRevoke
    <3> QED
      BY <3>1, GotoMoves
  <2>4. PICK r : Moves(p, l, r)
    BY <2>3
  <2>5. \A ip \in Ips, L \in SUBSET Owning :
          /\ At(ip, L) <=> pc[p] \in L /\ req[p].ip = ip
          /\ At(ip, L)' <=> l \in L /\ r.ip = ip
    BY <2>2, <2>4, AtMoves
  <2>6. \A ip \in Ips : /\ ~ At(ip, {"forget"}) /\ ~ At(ip, {"forget"})'
                        /\ ~ At(ip, {"record"}) /\ ~ At(ip, {"rules", "record"})
                        /\ ~ At(ip, {"record"})' /\ ~ At(ip, {"rules", "record"})'
    BY <2>1, <2>5, Inner
  <2> QED
    BY <2>1, <2>6 DEF Quiet, Held, Parted, Admitted
<1>9. ASSUME NEW w \in Workers, Request(w) PROVE Quiet
  <2>1. /\ w \in Procs /\ pc[w] = "idle" /\ UNCHANGED <<authed, forward, restarts, leaked, spoilt>>
        /\ \E l \in {"check", "revoke"} : \E r : Moves(w, l, r)
    BY <1>9 DEF Request, StartAdmit, StartRevoke, Serve, Moves, Procs, tables, netfilter, counters, slips
  <2> QED
    BY <2>1, OutsideQuiet DEF Owning
<1>10. ASSUME NEW ip \in Ips, Reap(ip) PROVE Quiet
  <2>1. /\ Reaper \in Procs /\ pc[Reaper] = "idle" /\ UNCHANGED <<authed, forward, restarts, leaked, spoilt>>
        /\ \E r : Moves(Reaper, "revoke", r)
    BY <1>10 DEF Reap, Serve, Moves, Procs, tables, netfilter, counters, slips
  <2> QED
    BY <2>1, OutsideQuiet DEF Owning
<1>11. ASSUME Sweep \/ Link \/ (\E c \in calls : Deliver(c)) \/ UNCHANGED vars PROVE Quiet
  <2>1. UNCHANGED <<authed, forward, restarts, leaked, spoilt, pc, req>>
    BY <1>11 DEF Sweep, Link, Appear, Vanish, Deliver, vars, tables, netfilter, threads, counters, slips
  <2> QED
    BY <2>1 DEF Quiet, Held, Parted, Admitted, At
<1>12. ASSUME NEW p \in Procs, Handle(p)
       PROVE  \/ Quiet
              \/ GrantAccept(p) /\ authed[req[p].ip] = None
              \/ GrantRules(p)
              \/ \E marked, exempted \in BOOLEAN : GrantFail(p, marked, exempted)
              \/ RevokeRules(p)
  BY <1>12, <1>1, <1>2, <1>3, <1>4, <1>5, <1>6, <1>7, <1>8 DEF Handle
<1> QED
  BY <1>9, <1>10, <1>11, <1>12 DEF Next, ReaperStep

----------------------------------------------------------------------------
(* What the four steps that rewrite the chain do *)

LEMMA GrantAcceptStep ==
  ASSUME PortalInv, NEW p \in Procs, GrantAccept(p), authed[req[p].ip] = None
  PROVE  /\ req[p].ip \in Ips /\ ~ Held(req[p].ip)
         /\ forward' = <<Accept(req[p].ip)>> \o forward
         /\ UNCHANGED <<authed, ensName, restarts, leaked, spoilt>>
         /\ \A x \in Ips : /\ Held(x)' <=> Held(x) \/ x = req[p].ip
                           /\ Parted(x) <=> authed[x] # None
                           /\ Parted(x)' <=> Parted(x)
<1> DEFINE ip == req[p].ip
<1> USE DEF PortalInv, ThreadsOK
<1>1. /\ pc[p] = "grant" /\ lock = None /\ Goto(p, "rules")
      /\ forward' = <<Accept(ip)>> \o forward
      /\ UNCHANGED <<authed, ensName, restarts, leaked, spoilt>>
  BY DEF GrantAccept, tables, counters, slips
<1>2. ip \in Ips
  BY <1>1 DEF RequestsOK, Fits
<1>3. Moves(p, "rules", req[p])
  BY <1>1, GotoMoves
<1>4. \A x \in Ips, L \in SUBSET Owning :
        /\ At(x, L) <=> "grant" \in L /\ ip = x
        /\ At(x, L)' <=> "rules" \in L /\ ip = x
  <2>1. pc[p] = "grant" /\ TablesOK /\ LockOK /\ lock = None
    BY <1>1
  <2>2. ASSUME NEW x \in Ips, NEW L \in SUBSET Owning
        PROVE  /\ At(x, L) <=> pc[p] \in L /\ ip = x
               /\ At(x, L)' <=> "rules" \in L /\ ip = x
    BY <1>3, <2>1, AtMoves
  <2> QED
    BY <2>1, <2>2
<1>5. \A x \in Ips : /\ ~ At(x, {"forget"}) /\ ~ At(x, {"forget"})'
                     /\ ~ At(x, {"record"}) /\ ~ At(x, {"record"})'
                     /\ ~ At(x, {"rules", "record"})
                     /\ At(x, {"rules", "record"})' <=> ip = x
  BY <1>4, Inner
<1> QED
  BY <1>1, <1>2, <1>5 DEF Held, Parted, Admitted

LEMMA GrantRulesStep ==
  ASSUME PortalInv, NEW p \in Procs, GrantRules(p)
  PROVE  /\ req[p].ip \in Ips /\ ~ Parted(req[p].ip)
         /\ \E F \in SUBSET DropsFor(req[p].ip) :
              /\ forward' = SetToSeq(DropsFor(req[p].ip) \ F) \o forward
              /\ spoilt' = spoilt \union PairsOf(F)
         /\ UNCHANGED <<authed, ensName, restarts, leaked>>
         /\ \A x \in Ips : /\ Held(x)' <=> Held(x)
                           /\ Parted(x) <=> authed[x] # None
                           /\ Parted(x)' <=> Parted(x) \/ x = req[p].ip
<1> DEFINE ip == req[p].ip
<1> USE DEF PortalInv, ThreadsOK
<1>1. /\ pc[p] = "rules" /\ Goto(p, "record")
      /\ \E F \in SUBSET DropsFor(ip) :
           forward' = SetToSeq(DropsFor(ip) \ F) \o forward /\ spoilt' = spoilt \union PairsOf(F)
      /\ UNCHANGED <<authed, ensName, restarts, leaked>>
  BY DEF GrantRules, Isolate, tables
<1>2. ip \in Ips /\ lock = p /\ authed[ip] = None
  BY <1>1, Inside DEF Owning
<1>3. Moves(p, "record", req[p])
  BY <1>1, GotoMoves
<1>4. \A x \in Ips, L \in SUBSET Owning :
        /\ At(x, L) <=> "rules" \in L /\ ip = x
        /\ At(x, L)' <=> "record" \in L /\ ip = x
  <2>1. pc[p] = "rules" /\ TablesOK /\ LockOK /\ lock \in {None, p}
    BY <1>1, <1>2
  <2>2. ASSUME NEW x \in Ips, NEW L \in SUBSET Owning
        PROVE  /\ At(x, L) <=> pc[p] \in L /\ ip = x
               /\ At(x, L)' <=> "record" \in L /\ ip = x
    BY <1>3, <2>1, AtMoves
  <2> QED
    BY <2>1, <2>2
<1>5. \A x \in Ips : /\ ~ At(x, {"forget"}) /\ ~ At(x, {"forget"})'
                     /\ ~ At(x, {"record"})
                     /\ At(x, {"record"})' <=> ip = x
                     /\ At(x, {"rules", "record"}) <=> ip = x
                     /\ At(x, {"rules", "record"})' <=> ip = x
  BY <1>4, Inner
<1> QED
  BY <1>1, <1>2, <1>5 DEF Held, Parted, Admitted

LEMMA GrantFailStep ==
  ASSUME PortalInv, NEW p \in Procs, NEW marked \in BOOLEAN, NEW exempted \in BOOLEAN,
         GrantFail(p, marked, exempted)
  PROVE  /\ req[p].ip \in Ips /\ Held(req[p].ip)
         /\ \E F \in SUBSET {Accept(req[p].ip)} :
              forward' = Delete(forward, {Accept(req[p].ip)} \ F) /\ Leaks(req[p].ip, F)
         /\ UNCHANGED <<authed, ensName, restarts, spoilt>>
         /\ \A x \in Ips : /\ Held(x)' <=> Held(x) /\ x # req[p].ip
                           /\ Parted(x) <=> authed[x] # None
                           /\ Parted(x)' <=> Parted(x)
<1> DEFINE ip == req[p].ip
<1> USE DEF PortalInv, ThreadsOK
<1>1. /\ pc[p] = "rules" /\ Goto(p, "idle")
      /\ \E F \in SUBSET {Accept(ip)} :
           forward' = Delete(forward, {Accept(ip)} \ F) /\ Leaks(ip, F)
      /\ UNCHANGED <<authed, ensName, restarts, spoilt>>
  BY DEF GrantFail, Retract, tables
<1>2. ip \in Ips /\ lock = p /\ authed[ip] = None
  BY <1>1, Inside DEF Owning
<1>3. Moves(p, "idle", NoRequest)
  BY <1>1, GotoMoves
<1>4. \A x \in Ips, L \in SUBSET Owning :
        /\ At(x, L) <=> "rules" \in L /\ ip = x
        /\ At(x, L)' <=> "idle" \in L /\ NoRequest.ip = x
  BY <1>1, <1>2, <1>3, AtMoves
<1>5. \A x \in Ips : /\ ~ At(x, {"forget"}) /\ ~ At(x, {"forget"})'
                     /\ ~ At(x, {"record"}) /\ ~ At(x, {"record"})'
                     /\ At(x, {"rules", "record"}) <=> ip = x
                     /\ ~ At(x, {"rules", "record"})'
  BY <1>4, Inner DEF Owning
<1> QED
  BY <1>1, <1>2, <1>5 DEF Held, Parted, Admitted

LEMMA RevokeRulesStep ==
  ASSUME PortalInv, NEW p \in Procs, RevokeRules(p)
  PROVE  /\ req[p].ip \in Ips /\ Held(req[p].ip)
         /\ \E F \in SUBSET ({Accept(req[p].ip)} \union DropsFor(req[p].ip)) :
              /\ forward' = Delete(Delete(forward, {Accept(req[p].ip)} \ F), DropsFor(req[p].ip) \ F)
              /\ spoilt' = {d \in spoilt \union PairsOf(F) : d[1] # req[p].ip}
              /\ Leaks(req[p].ip, F)
         /\ UNCHANGED <<authed, ensName, restarts>>
         /\ \A x \in Ips : /\ Held(x) <=> authed[x] # None
                           /\ Parted(x) <=> authed[x] # None
                           /\ Held(x)' <=> Held(x) /\ x # req[p].ip
                           /\ Parted(x)' <=> Parted(x) /\ x # req[p].ip
<1> DEFINE ip == req[p].ip
<1> USE DEF PortalInv, ThreadsOK
<1>1. /\ pc[p] = "revoke" /\ lock = None /\ authed[ip] # None /\ Goto(p, "forget")
      /\ \E F \in SUBSET ({Accept(ip)} \union DropsFor(ip)) :
           /\ forward' = Delete(Delete(forward, {Accept(ip)} \ F), DropsFor(ip) \ F)
           /\ spoilt' = {d \in spoilt \union PairsOf(F) : d[1] # ip}
           /\ Leaks(ip, F)
      /\ UNCHANGED <<authed, ensName, restarts>>
  BY DEF RevokeRules, Retract, Unisolate, tables
<1>2. ip \in Ips
  BY <1>1 DEF RequestsOK, Fits
<1>3. Moves(p, "forget", req[p])
  BY <1>1, GotoMoves
<1>4. \A x \in Ips, L \in SUBSET Owning :
        /\ At(x, L) <=> "revoke" \in L /\ ip = x
        /\ At(x, L)' <=> "forget" \in L /\ ip = x
  BY <1>1, <1>3, AtMoves
<1>5. \A x \in Ips : /\ ~ At(x, {"forget"})
                     /\ At(x, {"forget"})' <=> ip = x
                     /\ ~ At(x, {"record"}) /\ ~ At(x, {"record"})'
                     /\ ~ At(x, {"rules", "record"}) /\ ~ At(x, {"rules", "record"})'
  BY <1>4, Inner DEF Owning
<1> QED
  BY <1>1, <1>2, <1>5 DEF Held, Parted, Admitted

----------------------------------------------------------------------------
(* The openings are accounted for *)

\* A device that is held has one ACCEPT, and n more may be orphans.
HoldsIs(h, ip, c, n) == Count(c, Accept(ip)) \in (IF h THEN 1 ELSE 0)..((IF h THEN 1 ELSE 0) + n)

AcceptsOK == \A ip \in Ips : HoldsIs(Held(ip), ip, forward, restarts + leaked[ip])

ChainInv == PortalInv /\ SlipsOK /\ forward \in Seq(Rules) /\ AcceptsOK

LEMMA AcceptsAre == SlipsOK /\ restarts \in Nat => (AcceptsOK <=> AcceptsAccounted)
<1>1. \A ip \in Ips : Holds(ip) = IF Held(ip) THEN 1 ELSE 0
  BY DEF Holds, Held
<1>2. \A ip \in Ips : RuleCount(Accept(ip)) = Count(forward, Accept(ip))
  BY DEF RuleCount, Count, Places
<1> QED
  BY <1>1, <1>2 DEF AcceptsOK, AcceptsAccounted, HoldsIs, SlipsOK

LEMMA ChainInit == Init => ChainInv
<1> SUFFICES ASSUME Init PROVE ChainInv
  OBVIOUS
<1>1. /\ PortalInv /\ SlipsOK /\ forward = <<>> /\ restarts = 0
      /\ \A ip \in Ips : leaked[ip] = 0
  BY InitInv DEF Init, SlipsOK
<1>2. \A ip \in Ips : ~ Held(ip)
  BY DEF Init, Held, Admitted, At
<1>3. \A r : Count(forward, r) = 0
  <2>1. \A r : Places(forward, r) = {}
    BY <1>1 DEF Places
  <2> QED
    BY <2>1, FS_EmptySet DEF Count
<1>4. AcceptsOK
  BY <1>1, <1>2, <1>3 DEF AcceptsOK, HoldsIs
<1> QED
  BY <1>1, <1>4 DEF ChainInv

LEMMA ChainNext ==
  ASSUME ChainInv, [Next]_vars
  PROVE  ChainInv'
<1> USE DEF ChainInv
<1>0. PortalInv'
  BY NextInv
<1>f. forward \in Seq(Rules)
  OBVIOUS
<1>s. leaked \in [Ips -> Nat] /\ spoilt \subseteq Ips \X Ips
  BY DEF SlipsOK
<1>a. \A x \in Ips : HoldsIs(Held(x), x, forward, restarts + leaked[x])
  BY DEF AcceptsOK
<1>r. restarts \in Nat /\ \A x \in Ips : leaked[x] \in Nat
  BY <1>s DEF PortalInv, TablesOK
<1>t. \A x \in Ips : Accept(x) \in Rules
  BY DEF Rules
<1>n. \A x \in Ips : Count(forward, Accept(x)) \in Nat
  BY PlacesFinite
<1>p. \A F : PairsOf(F) \subseteq Ips \X Ips
  BY DEF PairsOf
<1> DEFINE Good == /\ forward' \in Seq(Rules) /\ SlipsOK'
                   /\ \A x \in Ips : HoldsIs(Held(x)', x, forward', restarts' + leaked'[x])
<1> SUFFICES Good
  BY <1>0 DEF AcceptsOK, HoldsIs
<1> HIDE DEF ChainInv
<1>1. CASE Quiet
  BY <1>f, <1>s, <1>a, <1>1 DEF Quiet, HoldsIs, SlipsOK
<1>2. CASE Restart
  <2>1. forward' = forward /\ restarts' = restarts + 1 /\ leaked' = leaked /\ spoilt' = {}
    BY <1>2 DEF Restart
  <2>2. \A x \in Ips : ~ Held(x)'
    BY <1>2 DEF Restart, Held, Admitted, At
  <2>3. ASSUME NEW x \in Ips PROVE HoldsIs(Held(x)', x, forward', restarts' + leaked'[x])
    <3>1. Count(forward, Accept(x)) <= 1 + restarts + leaked[x] /\ Count(forward, Accept(x)) \in Nat
      BY <1>a, <1>r, <1>n DEF HoldsIs
    <3>2. Count(forward', Accept(x)) \in 0..(restarts' + leaked'[x])
      BY <1>r, <2>1, <3>1
    <3> QED
      BY <1>r, <2>1, <2>2, <3>2 DEF HoldsIs
  <2>4. SlipsOK'
    BY <1>s, <2>1 DEF SlipsOK
  <2> QED
    BY <1>f, <2>1, <2>3, <2>4
<1>3. ASSUME NEW p \in Procs, GrantAccept(p), authed[req[p].ip] = None PROVE Good
  <2> DEFINE ip == req[p].ip
  <2>1. /\ ip \in Ips /\ ~ Held(ip)
        /\ forward' = <<Accept(ip)>> \o forward /\ UNCHANGED <<restarts, leaked, spoilt>>
        /\ \A x \in Ips : Held(x)' <=> Held(x) \/ x = ip
    BY <1>3, GrantAcceptStep DEF ChainInv
  <2> HIDE DEF ip
  <2>2. <<Accept(ip)>> \in Seq(Rules)
    BY <1>t, <2>1
  <2>3. /\ <<Accept(ip)>> \o forward \in Seq(Rules)
        /\ \A r : Count(<<Accept(ip)>> \o forward, r) = Count(<<Accept(ip)>>, r) + Count(forward, r)
    <3> DEFINE t == <<Accept(ip)>>
    <3>1. t \in Seq(Rules)
      BY <2>2
    <3> HIDE DEF t
    <3>2. t \o forward \in Seq(Rules) /\ \A r : Count(t \o forward, r) = Count(t, r) + Count(forward, r)
      BY <1>f, <3>1, ConcatCount
    <3> QED
      BY <3>2 DEF t
  <2>4. \A x \in Ips : Count(<<Accept(ip)>>, Accept(x)) = IF x = ip THEN 1 ELSE 0
    BY OneRule, RuleKinds
  <2>5. ASSUME NEW x \in Ips PROVE HoldsIs(Held(x)', x, forward', restarts' + leaked'[x])
    BY <1>a, <1>r, <1>n, <2>1, <2>3, <2>4 DEF HoldsIs
  <2>6. SlipsOK'
    BY <1>s, <2>1 DEF SlipsOK
  <2> QED
    BY <2>1, <2>3, <2>5, <2>6
<1>4. ASSUME NEW p \in Procs, GrantRules(p) PROVE Good
  <2>1. PICK F \in SUBSET DropsFor(req[p].ip) :
          /\ forward' = SetToSeq(DropsFor(req[p].ip) \ F) \o forward
          /\ spoilt' = spoilt \union PairsOf(F)
    BY <1>4, GrantRulesStep DEF ChainInv
  <2> DEFINE D == DropsFor(req[p].ip) \ F
  <2>2. /\ req[p].ip \in Ips /\ UNCHANGED <<restarts, leaked>>
        /\ \A x \in Ips : Held(x)' <=> Held(x)
    BY <1>4, GrantRulesStep DEF ChainInv
  <2>3. /\ D \subseteq Rules /\ IsFiniteSet(D)
        /\ \A x \in Ips : Accept(x) \notin D
    BY <2>2, DropsForType, FS_Difference
  <2>4. forward' = SetToSeq(D) \o forward
    BY <2>1
  <2> HIDE DEF D
  <2>5. SetToSeq(D) \in Seq(Rules) /\ \A x \in Ips : Count(SetToSeq(D), Accept(x)) = 0
    BY <2>3, SetToSeqCounts
  <2>6. /\ forward' \in Seq(Rules)
        /\ \A x \in Ips : Count(forward', Accept(x)) = Count(SetToSeq(D), Accept(x)) + Count(forward, Accept(x))
    BY <1>f, <2>4, <2>5, ConcatCount
  <2>7. ASSUME NEW x \in Ips PROVE HoldsIs(Held(x)', x, forward', restarts' + leaked'[x])
    BY <1>a, <1>n, <2>2, <2>5, <2>6 DEF HoldsIs
  <2>8. SlipsOK'
    BY <1>s, <1>p, <2>1, <2>2 DEF SlipsOK
  <2> QED
    BY <2>6, <2>7, <2>8
\* What one deletion of the ACCEPT leaves, whether it failed or not.
<1>d. ASSUME NEW ip \in Ips, Held(ip), NEW F, Leaks(ip, F), restarts' = restarts,
             \A x \in Ips : Held(x)' <=> Held(x) /\ x # ip,
             \A x \in Ips : Count(forward', Accept(x)) =
               IF x = ip /\ Accept(ip) \notin F /\ Count(forward, Accept(x)) > 0
               THEN Count(forward, Accept(x)) - 1 ELSE Count(forward, Accept(x))
      PROVE  /\ leaked' \in [Ips -> Nat]
             /\ \A x \in Ips : HoldsIs(Held(x)', x, forward', restarts' + leaked'[x])
  <2>1. /\ leaked' \in [Ips -> Nat]
        /\ \A x \in Ips : leaked'[x] = IF x = ip /\ Accept(ip) \in F THEN leaked[x] + 1 ELSE leaked[x]
    BY <1>s, <1>d DEF Leaks
  <2>2. ASSUME NEW x \in Ips PROVE HoldsIs(Held(x)', x, forward', restarts' + leaked'[x])
    <3>1. CASE x = ip
      <4>1. Count(forward, Accept(x)) \in 1..(1 + restarts + leaked[x]) /\ ~ Held(x)'
        BY <1>a, <1>r, <1>d, <3>1 DEF HoldsIs
      <4>2. CASE Accept(ip) \in F
        BY <1>r, <1>n, <1>d, <2>1, <3>1, <4>1, <4>2 DEF HoldsIs
      <4>3. CASE Accept(ip) \notin F
        BY <1>r, <1>n, <1>d, <2>1, <3>1, <4>1, <4>3 DEF HoldsIs
      <4> QED
        BY <4>2, <4>3
    <3>2. CASE x # ip
      BY <1>a, <1>r, <1>n, <1>d, <2>1, <3>2 DEF HoldsIs
    <3> QED
      BY <3>1, <3>2
  <2> QED
    BY <2>1, <2>2
<1>5. ASSUME NEW p \in Procs, NEW marked \in BOOLEAN, NEW exempted \in BOOLEAN,
             GrantFail(p, marked, exempted)
      PROVE  Good
  <2> DEFINE ip == req[p].ip
  <2>1. PICK F \in SUBSET {Accept(ip)} :
          forward' = Delete(forward, {Accept(ip)} \ F) /\ Leaks(ip, F)
    BY <1>5, GrantFailStep DEF ChainInv
  <2>2. /\ ip \in Ips /\ Held(ip) /\ UNCHANGED <<restarts, spoilt>>
        /\ \A x \in Ips : Held(x)' <=> Held(x) /\ x # ip
    BY <1>5, GrantFailStep DEF ChainInv
  <2> HIDE DEF ip
  <2>3. \A x \in Ips : Accept(x) \in {Accept(ip)} \ F <=> x = ip /\ Accept(ip) \notin F
    BY RuleKinds
  <2>4. /\ forward' \in Seq(Rules)
        /\ \A x \in Ips : Count(forward', Accept(x)) =
             IF x = ip /\ Accept(ip) \notin F /\ Count(forward, Accept(x)) > 0
             THEN Count(forward, Accept(x)) - 1 ELSE Count(forward, Accept(x))
    <3> DEFINE D == {Accept(ip)} \ F
    <3>1. forward' = Delete(forward, D) /\ \A x \in Ips : Accept(x) \in D <=> x = ip /\ Accept(ip) \notin F
      BY <2>1, <2>3
    <3> HIDE DEF D
    <3> QED
      BY <1>f, <3>1, DeleteType, DeleteCount
  <2>5. /\ leaked' \in [Ips -> Nat]
        /\ \A x \in Ips : HoldsIs(Held(x)', x, forward', restarts' + leaked'[x])
    BY <1>d, <2>1, <2>2, <2>4
  <2>6. SlipsOK'
    BY <1>s, <2>2, <2>5 DEF SlipsOK
  <2> QED
    BY <2>4, <2>5, <2>6
<1>6. ASSUME NEW p \in Procs, RevokeRules(p) PROVE Good
  <2> DEFINE ip == req[p].ip
  <2>1. PICK F \in SUBSET ({Accept(ip)} \union DropsFor(ip)) :
          /\ forward' = Delete(Delete(forward, {Accept(ip)} \ F), DropsFor(ip) \ F)
          /\ spoilt' = {d \in spoilt \union PairsOf(F) : d[1] # ip}
          /\ Leaks(ip, F)
    BY <1>6, RevokeRulesStep DEF ChainInv
  <2>2. /\ ip \in Ips /\ Held(ip) /\ UNCHANGED restarts
        /\ \A x \in Ips : Held(x)' <=> Held(x) /\ x # ip
    BY <1>6, RevokeRulesStep DEF ChainInv
  <2> HIDE DEF ip
  <2> DEFINE C == {Accept(ip)} \ F
             D == DropsFor(ip) \ F
             c == Delete(forward, C)
  <2>3. /\ \A x \in Ips : Accept(x) \in C <=> x = ip /\ Accept(ip) \notin F
        /\ \A x \in Ips : Accept(x) \notin D
        /\ forward' = Delete(c, D)
    BY <2>1, <2>2, RuleKinds, DropsForType
  <2> HIDE DEF C, D
  <2>4. /\ c \in Seq(Rules)
        /\ \A x \in Ips : Count(c, Accept(x)) =
             IF x = ip /\ Accept(ip) \notin F /\ Count(forward, Accept(x)) > 0
             THEN Count(forward, Accept(x)) - 1 ELSE Count(forward, Accept(x))
    BY <1>f, <2>3, DeleteType, DeleteCount
  <2> HIDE DEF c
  <2>5. /\ forward' \in Seq(Rules)
        /\ \A x \in Ips : Count(forward', Accept(x)) = Count(c, Accept(x))
    BY <2>3, <2>4, DeleteType, DeleteCount
  <2>c. \A x \in Ips : Count(forward', Accept(x)) =
          IF x = ip /\ Accept(ip) \notin F /\ Count(forward, Accept(x)) > 0
          THEN Count(forward, Accept(x)) - 1 ELSE Count(forward, Accept(x))
    BY <2>4, <2>5
  <2>l. Leaks(ip, F) /\ restarts' = restarts
    BY <2>1, <2>2
  <2>6. /\ leaked' \in [Ips -> Nat]
        /\ \A x \in Ips : HoldsIs(Held(x)', x, forward', restarts' + leaked'[x])
    BY <1>d, <2>2, <2>c, <2>l
  <2>7. SlipsOK'
    BY <1>s, <1>p, <2>1, <2>6 DEF SlipsOK
  <2> QED
    BY <2>5, <2>6, <2>7
<1> HIDE DEF Good
<1> QED
  BY <1>1, <1>2, <1>3, <1>4, <1>5, <1>6, QuietSteps DEF ChainInv

\* Every variable of the portal keeps its type, the chain of rules included.
THEOREM Typed == Spec => []TypeOK
<1>1. ChainInv => TypeOK
  BY DEF ChainInv, PortalInv, TypeOK
<1>2. ChainInv /\ [Next]_vars => ChainInv'
  BY ChainNext
<1> QED
  BY <1>1, <1>2, ChainInit, PTL DEF Spec

\* No interleaving of grants, failed grants, re-logins, revocations and sweeps
\* leaks an opening, whatever the number of devices and threads: beyond one ACCEPT
\* for a device that is in, there are at most as many as there were restarts and
\* deletions of its ACCEPT that failed.
THEOREM Accounted == Spec => []AcceptsAccounted
<1>1. ChainInv => AcceptsAccounted
  BY AcceptsAre DEF ChainInv, PortalInv, TablesOK
<1>2. ChainInv /\ [Next]_vars => ChainInv'
  BY ChainNext
<1> QED
  BY <1>1, <1>2, ChainInit, PTL DEF Spec

----------------------------------------------------------------------------
(* The walls between strangers *)

\* Two people, or nobody the portal knows.
Apart(name, a, b) == ~ (name[a] = name[b] /\ name[a] # None)

\* The rules Drop(a, b) ahead of the first Accept(a): the wall that b is behind.
Wall(c, a, b) == Cardinality(Ahead(c, Drop(a, b), Accept(a)))

WallIs(c, a, b, up) == Wall(c, a, b) = IF up THEN 1 ELSE 0

\* One wall in either direction between the devices of two people, none between
\* those of one: one rule, so that the deletion of one rule takes it down; unless
\* a call that is only logged has failed.
WallsOK ==
  \A a, b \in Ips : a # b /\ Held(a) /\ <<a, b>> \notin spoilt =>
    WallIs(forward, a, b, Parted(a) /\ Parted(b) /\ Apart(ensName, a, b))

WallsInv == NamesInv /\ ChainInv /\ WallsOK

\* The name of a device that the walls are about is not written.
LEMMA PartedNames ==
  ASSUME NamesInv, [Next]_vars, NEW x \in Ips, Parted(x), Parted(x)'
  PROVE  ensName'[x] = ensName[x]
<1> USE DEF NamesInv, PortalInv, ThreadsOK
<1>1. CASE \E p \in Procs : SetName(p)
  <2>1. PICK p \in Procs : SetName(p)
    BY <1>1
  <2>2. pc[p] = "name" /\ ensName' = [ensName EXCEPT ![req[p].ip] = req[p].name]
    BY <2>1 DEF SetName
  <2>3. CASE req[p].ip = x
    <3>1. authed[x] = None \/ ensName[x] = req[p].name
      BY <2>2, <2>3 DEF NamesOK, NameFits
    <3>2. CASE ensName[x] = req[p].name
      BY <2>2, <2>3, <3>2 DEF TablesOK
    <3>3. CASE authed[x] = None
      <4>1. PICK q \in Procs : pc[q] = "record" /\ req[q].ip = x
        BY <3>3 DEF Parted, Admitted, At
      <4>2. p # q /\ req[p].name # None /\ req[q].name # None
        BY <2>2, <4>1 DEF RequestsOK, Fits, SignsIn
      <4> QED
        BY <2>3, <4>1, <4>2 DEF OneSignIn
    <3> QED
      BY <3>1, <3>2, <3>3
  <2>4. CASE req[p].ip # x
    BY <2>2, <2>4 DEF TablesOK
  <2> QED
    BY <2>3, <2>4
<1>2. CASE \E p \in Procs : RevokeForget(p)
  <2>1. PICK p \in Procs : RevokeForget(p)
    BY <1>2
  <2>2. /\ pc[p] = "forget"
        /\ authed' = [authed EXCEPT ![req[p].ip] = None]
        /\ ensName' = [ensName EXCEPT ![req[p].ip] = None]
    BY <2>1 DEF RevokeForget
  <2>3. lock = p
    BY <2>2, Inside DEF Owning
  <2>4. req[p].ip # x
    <3> SUFFICES ASSUME req[p].ip = x PROVE FALSE
      OBVIOUS
    <3>1. At(x, {"forget"})
      BY <2>2 DEF At
    <3>2. PICK q \in Procs : pc[q] = "record"
      BY <3>1 DEF Parted, Admitted, At
    <3>3. lock = q
      BY <3>2, Inside DEF Owning
    <3> QED
      BY <2>2, <2>3, <3>2, <3>3
  <2> QED
    BY <2>2, <2>4 DEF TablesOK
<1>3. CASE Restart
  BY <1>3 DEF Restart, Parted, Admitted, At
<1>4. CASE ~ (\E p \in Procs : SetName(p) \/ RevokeForget(p)) /\ ~ Restart
  BY <1>4, NameStays
<1> QED
  BY <1>1, <1>2, <1>3, <1>4

LEMMA StrangersAre ==
  ASSUME NEW ip \in Ips, NEW o \in Ips, o # ip
  PROVE  /\ o \in Strangers(ip) <=> authed[o] # None /\ Apart(ensName, ip, o)
         /\ Apart(ensName, ip, o) <=> Apart(ensName, o, ip)
BY DEF Strangers, Apart

LEMMA WallType ==
  ASSUME forward \in Seq(Rules), NEW a, NEW b
  PROVE  /\ Wall(forward, a, b) \in Nat
         /\ Wall(forward, a, b) = 0 <=> Ahead(forward, Drop(a, b), Accept(a)) = {}
<1>1. IsFiniteSet(Ahead(forward, Drop(a, b), Accept(a)))
  BY AheadFinite
<1> QED
  BY <1>1, FS_CardinalityType, FS_EmptySet DEF Wall

LEMMA WallDelete ==
  ASSUME NEW c \in Seq(Rules), NEW D, NEW a, NEW b, Accept(a) \notin D
  PROVE  Wall(Delete(c, D), a, b) =
           IF Drop(a, b) \in D /\ Wall(c, a, b) # 0 THEN Wall(c, a, b) - 1 ELSE Wall(c, a, b)
<1>1. IsFiniteSet(Ahead(c, Drop(a, b), Accept(a)))
  BY AheadFinite
<1>2. Wall(c, a, b) = 0 <=> Ahead(c, Drop(a, b), Accept(a)) = {}
  BY <1>1, FS_EmptySet DEF Wall
<1>3. Wall(Delete(c, D), a, b) =
        IF Drop(a, b) \in D /\ Ahead(c, Drop(a, b), Accept(a)) # {}
        THEN Wall(c, a, b) - 1 ELSE Wall(c, a, b)
  BY DeleteAhead DEF Wall
<1> QED
  BY <1>2, <1>3, Zenon

LEMMA WallAccept ==
  ASSUME forward \in Seq(Rules), NEW ip \in Ips, NEW a \in Ips, NEW b \in Ips
  PROVE  Wall(<<Accept(ip)>> \o forward, a, b) = IF a = ip THEN 0 ELSE Wall(forward, a, b)
<1> DEFINE t == <<Accept(ip)>>
<1>1. Accept(ip) \in Rules /\ t \in Seq(Rules) /\ Accept(a) \in Rules
  BY DEF Rules
<1>2. CASE a = ip
  <2>1. Ahead(<<Accept(a)>> \o forward, Drop(a, b), Accept(a)) = {}
    BY <1>1, RuleKinds, TopAhead
  <2> QED
    BY <1>2, <2>1, FS_EmptySet DEF Wall
<1>3. CASE a # ip
  <2>1. Places(t, Accept(a)) = {} /\ Count(t, Drop(a, b)) = 0
    BY <1>3, OneRule, RuleKinds
  <2> HIDE DEF t
  <2>2. Wall(t \o forward, a, b) = Count(t, Drop(a, b)) + Wall(forward, a, b)
    BY <1>1, <2>1, ConcatAhead DEF Wall
  <2> QED
    BY <1>3, <2>1, <2>2, WallType DEF t
<1> QED
  BY <1>2, <1>3

LEMMA WallDrops ==
  ASSUME forward \in Seq(Rules), NEW D, D \subseteq Rules, IsFiniteSet(D),
         NEW a \in Ips, NEW b \in Ips, Accept(a) \notin D
  PROVE  Wall(SetToSeq(D) \o forward, a, b) =
           (IF Drop(a, b) \in D THEN 1 ELSE 0) + Wall(forward, a, b)
<1> DEFINE t == SetToSeq(D)
<1>2. /\ t \in Seq(Rules) /\ Places(t, Accept(a)) = {}
      /\ Count(t, Drop(a, b)) = IF Drop(a, b) \in D THEN 1 ELSE 0
  BY SetToSeqCounts
<1> HIDE DEF t
<1>3. Wall(t \o forward, a, b) = Count(t, Drop(a, b)) + Wall(forward, a, b)
  BY <1>2, ConcatAhead DEF Wall
<1> QED
  BY <1>2, <1>3 DEF t

LEMMA WallsNext ==
  ASSUME WallsInv, [Next]_vars
  PROVE  WallsOK'
<1>f. PortalInv /\ forward \in Seq(Rules)
  BY DEF WallsInv, ChainInv
<1>w. \A a, b \in Ips : a # b /\ Held(a) /\ <<a, b>> \notin spoilt =>
        WallIs(forward, a, b, Parted(a) /\ Parted(b) /\ Apart(ensName, a, b))
  BY DEF WallsInv, WallsOK
<1>h. \A x \in Ips : Parted(x) => Held(x)
  BY DEF Parted, Held, At
<1> SUFFICES ASSUME NEW a \in Ips, NEW b \in Ips, a # b, Held(a)', <<a, b>> \notin spoilt'
             PROVE  WallIs(forward', a, b, Parted(a)' /\ Parted(b)' /\ Apart(ensName', a, b))
  BY DEF WallsOK, WallIs, Wall, Apart
<1> DEFINE Good == WallIs(forward', a, b, Parted(a)' /\ Parted(b)' /\ Apart(ensName', a, b))
<1>t. Wall(forward, a, b) \in Nat
  BY <1>f, WallType
<1>p. \A F : <<a, b>> \in PairsOf(F) <=> Drop(a, b) \in F
  BY DEF PairsOf
<1>1. CASE Quiet
  <2>1. /\ Held(a) /\ forward' = forward /\ spoilt' = spoilt
        /\ Parted(a)' <=> Parted(a)
        /\ Parted(b)' <=> Parted(b)
    BY <1>1 DEF Quiet
  <2>2. Parted(a) /\ Parted(b) => (Apart(ensName', a, b) <=> Apart(ensName, a, b))
    BY <2>1, PartedNames DEF WallsInv, Apart
  <2> QED
    BY <1>w, <2>1, <2>2 DEF WallIs
<1>2. CASE Restart
  BY <1>2 DEF Restart, Held, Admitted, At
<1>3. ASSUME NEW p \in Procs, GrantAccept(p), authed[req[p].ip] = None PROVE Good
  <2> DEFINE ip == req[p].ip
  <2>1. /\ ip \in Ips /\ ~ Held(ip) /\ spoilt' = spoilt
        /\ forward' = <<Accept(ip)>> \o forward /\ ensName' = ensName
        /\ Held(a)' <=> Held(a) \/ a = ip
        /\ Parted(a)' <=> Parted(a)
        /\ Parted(b)' <=> Parted(b)
    BY <1>f, <1>3, GrantAcceptStep
  <2> HIDE DEF ip
  <2>2. Wall(forward', a, b) = IF a = ip THEN 0 ELSE Wall(forward, a, b)
    BY <1>f, <2>1, WallAccept
  <2> QED
    BY <1>h, <1>w, <2>1, <2>2 DEF WallIs
<1>4. ASSUME NEW p \in Procs, GrantRules(p) PROVE Good
  <2> DEFINE ip == req[p].ip
  <2>0. PICK F \in SUBSET DropsFor(ip) :
          /\ forward' = SetToSeq(DropsFor(ip) \ F) \o forward
          /\ spoilt' = spoilt \union PairsOf(F)
    BY <1>f, <1>4, GrantRulesStep
  <2>1. /\ ip \in Ips /\ ~ Parted(ip) /\ ensName' = ensName
        /\ Held(a)' <=> Held(a)
        /\ \A x \in Ips : /\ Parted(x) <=> authed[x] # None
                          /\ Parted(x)' <=> Parted(x) \/ x = ip
    BY <1>f, <1>4, GrantRulesStep
  <2> HIDE DEF ip
  <2> DEFINE D == DropsFor(ip) \ F
  <2>2. Wall(forward', a, b) = (IF Drop(a, b) \in D THEN 1 ELSE 0) + Wall(forward, a, b)
    <3>1. D \subseteq Rules /\ IsFiniteSet(D) /\ Accept(a) \notin D /\ forward' = SetToSeq(D) \o forward
      BY <2>0, <2>1, DropsForType, FS_Difference
    <3> HIDE DEF D
    <3> QED
      BY <1>f, <3>1, WallDrops
  <2>3. Drop(a, b) \in DropsFor(ip) <=>
          \/ a = ip /\ Parted(b) /\ Apart(ensName, a, b)
          \/ b = ip /\ Parted(a) /\ Apart(ensName, a, b)
    BY <2>1, DropsForType, StrangersAre
  <2>4. /\ Drop(a, b) \notin F
        /\ WallIs(forward, a, b, Parted(a) /\ Parted(b) /\ Apart(ensName, a, b))
    BY <1>p, <1>w, <2>0, <2>1
  <2> QED
    BY <1>t, <2>1, <2>2, <2>3, <2>4 DEF WallIs
<1>5. ASSUME NEW p \in Procs, NEW marked \in BOOLEAN, NEW exempted \in BOOLEAN,
             GrantFail(p, marked, exempted)
      PROVE  Good
  <2> DEFINE ip == req[p].ip
  <2>0. PICK F \in SUBSET {Accept(ip)} : forward' = Delete(forward, {Accept(ip)} \ F)
    BY <1>f, <1>5, GrantFailStep
  <2>1. /\ ensName' = ensName /\ spoilt' = spoilt
        /\ Held(a)' <=> Held(a) /\ a # ip
        /\ Parted(a)' <=> Parted(a)
        /\ Parted(b)' <=> Parted(b)
    BY <1>f, <1>5, GrantFailStep
  <2> HIDE DEF ip
  <2>2. Wall(forward', a, b) = Wall(forward, a, b)
    <3> DEFINE D == {Accept(ip)} \ F
    <3>1. forward' = Delete(forward, D) /\ Accept(a) \notin D /\ Drop(a, b) \notin D
      BY <2>0, <2>1, RuleKinds
    <3> HIDE DEF D
    <3> QED
      BY <1>f, <3>1, WallDelete
  <2> QED
    BY <1>w, <2>1, <2>2 DEF WallIs
<1>6. ASSUME NEW p \in Procs, RevokeRules(p) PROVE Good
  <2> DEFINE ip == req[p].ip
  <2>0. PICK F \in SUBSET ({Accept(ip)} \union DropsFor(ip)) :
          /\ forward' = Delete(Delete(forward, {Accept(ip)} \ F), DropsFor(ip) \ F)
          /\ spoilt' = {d \in spoilt \union PairsOf(F) : d[1] # ip}
    BY <1>f, <1>6, RevokeRulesStep
  <2>1. /\ ip \in Ips /\ ensName' = ensName
        /\ Held(a)' <=> Held(a) /\ a # ip
        /\ \A x \in Ips : /\ Parted(x) <=> authed[x] # None
                          /\ Parted(x)' <=> Parted(x) /\ x # ip
    BY <1>f, <1>6, RevokeRulesStep
  <2> HIDE DEF ip
  <2> DEFINE C == {Accept(ip)} \ F
             D == DropsFor(ip) \ F
             c == Delete(forward, C)
  <2>2. /\ Accept(a) \notin C /\ Drop(a, b) \notin C
        /\ Accept(a) \notin D /\ (Drop(a, b) \in D <=> Drop(a, b) \in DropsFor(ip) /\ Drop(a, b) \notin F)
        /\ forward' = Delete(c, D)
    BY <2>0, <2>1, RuleKinds, DropsForType
  <2> HIDE DEF C, D
  <2>3. c \in Seq(Rules) /\ Wall(c, a, b) = Wall(forward, a, b)
    BY <1>f, <2>2, DeleteType, WallDelete
  <2> HIDE DEF c
  <2>4. Wall(forward', a, b) =
          IF Drop(a, b) \in D /\ Wall(c, a, b) # 0 THEN Wall(c, a, b) - 1 ELSE Wall(c, a, b)
    BY <2>2, <2>3, WallDelete
  <2>5. Drop(a, b) \in DropsFor(ip) <=> b = ip /\ Parted(a) /\ Apart(ensName, a, b)
    BY <2>1, DropsForType, StrangersAre
  <2>6. <<a, b>> \notin spoilt /\ Drop(a, b) \notin F
    <3>1. <<a, b>>[1] # ip
      BY <2>1
    <3> QED
      BY <1>p, <2>0, <3>1
  <2>7. WallIs(forward, a, b, Parted(a) /\ Parted(b) /\ Apart(ensName, a, b))
    BY <1>w, <2>1, <2>6
  <2> QED
    BY <1>t, <2>1, <2>2, <2>3, <2>4, <2>5, <2>6, <2>7 DEF WallIs
<1> HIDE DEF Good
<1>7. Good
  BY <1>f, <1>1, <1>2, <1>3, <1>4, <1>5, <1>6, QuietSteps DEF Good
<1> QED
  BY <1>7 DEF Good

LEMMA WallsIsolate ==
  ASSUME WallsInv
  PROVE  StrangersIsolated
<1> SUFFICES ASSUME NEW a \in Ips, NEW b \in Ips, a # b, Admitted(a), Admitted(b),
                    <<a, b>> \notin spoilt
             PROVE  Verdict(a, b) = IF ensName[a] = ensName[b] /\ ensName[a] # None THEN "ACCEPT" ELSE "DROP"
  BY DEF StrangersIsolated
<1>1. forward \in Seq(Rules) /\ Held(a) /\ Parted(a) /\ Parted(b)
  BY DEF WallsInv, ChainInv, Held, Parted
<1>2. Places(forward, Accept(a)) # {}
  <2>1. Count(forward, Accept(a)) # 0
    BY <1>1 DEF WallsInv, ChainInv, AcceptsOK, HoldsIs, SlipsOK, PortalInv, TablesOK
  <2> QED
    BY <2>1, FS_EmptySet DEF Count
<1>3. Wall(forward, a, b) = IF Apart(ensName, a, b) THEN 1 ELSE 0
  BY <1>1 DEF WallsInv, WallsOK, WallIs
<1>4. Ahead(forward, Drop(a, b), Accept(a)) # {} <=> Apart(ensName, a, b)
  BY <1>1, <1>3, WallType
<1> QED
  BY <1>1, <1>2, <1>4, VerdictIs DEF Apart

LEMMA WallsInit == Init => WallsInv
<1>1. Init => WallsOK
  BY DEF Init, WallsOK, Held, Admitted, At
<1> QED
  BY <1>1, NamesInit, ChainInit DEF WallsInv

\* Two admitted devices exchange packets exactly when they belong to one name, for
\* any number of devices, threads, members and restarts, as long as a device waits
\* for the answer to its sign-in and no call on the DROP between them has failed
\* since the sender came in.  The rules that restarts have orphaned do not
\* matter: they are below the ACCEPT of a device that is in.
THEOREM Isolated ==
  ASSUME OneSignInPerIp
  PROVE  Spec => []StrangersIsolated
<1>1. WallsInv => StrangersIsolated
  BY WallsIsolate
<1>2. WallsInv /\ [Next]_vars => WallsInv'
  BY ChainNext, NamesNext, WallsNext DEF WallsInv
<1> QED
  BY <1>1, <1>2, WallsInit, PTL DEF Spec

----------------------------------------------------------------------------
(* PART TWO: the gateway *)

----------------------------------------------------------------------------
(* The tables of the enforcer *)

EnforcerInv == Enf!TypeOK /\ Enf!References

\* A lookup answers with a name, a tier and a user of the right kinds.
LEMMA AnswersFit ==
  ASSUME EnforcerInv, NEW n \in Names, NEW reachable, NEW ident \in Enf!EnsLookup(n, reachable)
  PROVE  ident \in Idents
<1>1. ASSUME NEW g \in Groups, Enf!Exists(g), NEW u \in Names \union {None}
      PROVE  Enf!Ident(n, g, u) \in Idents
  <2>1. groupTier[g] \in Tiers
    BY <1>1 DEF EnforcerInv, Enf!TypeOK, Enf!Exists
  <2>2. Enf!Ident(n, g, u) \in [name : Names, tier : Tiers, user : Names \union {None}]
    BY <2>1 DEF Enf!Ident
  <2> QED
    BY <2>2, GatewayAssumption
<1>2. Enf!EnabledUser(n) \in Names \union {None}
  BY DEF Enf!EnabledUser
<1>3. ASSUME NEW i \in Enf!LocalIdent(n) PROVE i \in Idents
  <2>1. users[n] # None /\ users[n].group # None /\ i = Enf!Ident(n, users[n].group, n)
    BY <1>3 DEF Enf!LocalIdent, Enf!EnabledUser
  <2>2. n \in Enf!Users /\ users[n] \in Enf!UserRows
    BY <2>1 DEF EnforcerInv, Enf!TypeOK, Enf!Users
  <2>3. users[n].group \in Groups /\ Enf!Exists(users[n].group)
    BY <2>1, <2>2 DEF EnforcerInv, Enf!References, Enf!UserRows
  <2> QED
    BY <1>1, <2>1, <2>3
<1>4. published[n] \in Groups \union {Denied, NoGroup}
  BY DEF EnforcerInv, Enf!TypeOK
<1>5. \/ ident \in {}
      \/ ident \in Enf!LocalIdent(n)
      \/ /\ published[n] \in Groups /\ Enf!Exists(published[n])
         /\ ident = Enf!Ident(n, published[n], Enf!EnabledUser(n))
  BY <1>4 DEF Enf!EnsLookup
<1> QED
  BY <1>1, <1>2, <1>3, <1>5

LEMMA TierAnswer ==
  ASSUME NEW t, NEW answer \in Enf!GroupByTier(t)
  PROVE  answer \in Groups \union {None}
BY DEF Enf!GroupByTier

----------------------------------------------------------------------------
(* Every row refers to rows *)

LEMMA EnforcerInit == GatewayInit => EnforcerInv
BY GatewayAssumption DEF GatewayInit, Enf!Init, EnforcerInv, Enf!TypeOK, Enf!References, Enf!Exists

LEMMA CreatedInv ==
  ASSUME EnforcerInv, NEW c \in Created, Enf!SessionCreated(c)
  PROVE  EnforcerInv'
<1> DEFINE u == Enf!SessionUser(c)
           row == Enf!SessionRow(c)
           anon == [group |-> c.group,
                    disabled |-> IF users[Anon] = None THEN FALSE ELSE users[Anon].disabled]
<1> USE DEF EnforcerInv
<1>1. /\ c.sid \in Nat /\ c.ip \in Ips /\ c.name \in Names /\ c.group \in Groups
      /\ c.user \in Names \union {None} /\ c.at \in Stamps
  BY DEF Created
<1>2. u \in Enf!Users
  BY <1>1 DEF Enf!SessionUser, Enf!Users
<1>3. row \in Enf!SessionRows /\ row.user = u /\ row.group = c.group
  BY <1>1, <1>2 DEF Enf!SessionRow, Enf!SessionRows
<1>4. anon \in Enf!UserRows /\ anon.group = c.group /\ Anon \in Enf!Users
  BY <1>1 DEF Enf!TypeOK, Enf!UserRows, Enf!Users
<1>5. None \notin Enf!UserRows /\ None \notin Enf!SessionRows
  BY GatewayAssumption
<1>6. UNCHANGED <<groupTier, posts, published, admin>>
  BY DEF Enf!SessionCreated
<1>7. CASE ~ Enf!Exists(c.group)
  BY <1>7 DEF Enf!SessionCreated, Enf!TypeOK, Enf!References, Enf!Exists
<1>8. CASE Enf!Exists(c.group)
  <2>1. /\ session' = [session EXCEPT ![c.sid] = row]
        /\ users' = IF Enf!Upserts(c) THEN [users EXCEPT ![Anon] = anon] ELSE users
    BY <1>8 DEF Enf!SessionCreated
  <2>2. users'[u] # None
    <3>1. CASE Enf!Upserts(c)
      BY <1>4, <1>5, <2>1, <3>1 DEF Enf!Upserts, Enf!TypeOK
    <3>2. CASE ~ Enf!Upserts(c)
      BY <1>1, <2>1, <3>2 DEF Enf!Upserts, Enf!SessionUser
    <3> QED
      BY <3>1, <3>2
  <2> HIDE DEF row, anon, u
  <2>3. Enf!TypeOK'
    BY <1>3, <1>4, <1>6, <2>1 DEF Enf!TypeOK
  <2>4. \A v \in Enf!Users : /\ users[v] # None => users'[v] # None
                             /\ users'[v] # None /\ users'[v].group # None =>
                                  groupTier[users'[v].group] # None
    BY <1>4, <1>5, <1>8, <2>1 DEF Enf!TypeOK, Enf!References, Enf!Exists
  <2>5. \A s \in Sids : session'[s] = session[s] \/ session'[s] = row
    BY <2>1 DEF Enf!TypeOK
  <2>6. ASSUME NEW s \in Sids, session'[s] # None
        PROVE  users'[session'[s].user] # None /\ groupTier[session'[s].group] # None
    <3>1. CASE session'[s] = row
      BY <1>3, <1>8, <2>2, <3>1 DEF Enf!Exists
    <3>2. CASE session'[s] = session[s]
      <4>1. session[s].user \in Enf!Users /\ users[session[s].user] # None
            /\ groupTier[session[s].group] # None
        BY <2>6, <3>2 DEF Enf!TypeOK, Enf!References, Enf!SessionRows, Enf!Exists
      <4> QED
        BY <2>4, <3>2, <4>1
    <3> QED
      BY <2>5, <3>1, <3>2
  <2> QED
    BY <1>6, <2>3, <2>4, <2>6 DEF Enf!References, Enf!Exists
<1> QED
  BY <1>7, <1>8

LEMMA EndedInv ==
  ASSUME EnforcerInv, NEW sid \in Nat, Enf!SessionEnded(sid)
  PROVE  EnforcerInv'
<1> USE DEF EnforcerInv
<1>1. UNCHANGED <<groupTier, users, posts, published, admin>>
  BY DEF Enf!SessionEnded
<1>2. session' = session \/ session' = [session EXCEPT ![sid].out = TRUE]
  BY DEF Enf!SessionEnded
<1>3. \A s \in Sids : \/ session'[s] = session[s]
                      \/ /\ session[s] # None
                         /\ session'[s] = [session[s] EXCEPT !.out = TRUE]
  BY DEF Enf!SessionEnded, Enf!TypeOK
<1>4. \A s \in Sids : session[s] # None => session[s] \in Enf!SessionRows
  BY DEF Enf!TypeOK
<1>5. \A s \in Sids : session'[s] # None =>
        /\ session[s] # None /\ session'[s] \in Enf!SessionRows
        /\ session'[s].user = session[s].user /\ session'[s].group = session[s].group
  BY <1>3, <1>4 DEF Enf!SessionRows
<1>6. session' \in [Sids -> Enf!SessionRows \union {None}]
  BY <1>2, <1>5 DEF Enf!TypeOK
<1> QED
  BY <1>1, <1>5, <1>6 DEF Enf!TypeOK, Enf!References, Enf!Exists

----------------------------------------------------------------------------
(* What administrators do *)

LEMMA RevokeInv ==
  ASSUME EnforcerInv, NEW s \in Sids, Enf!Active(s), Enf!Revoke(s)
  PROVE  /\ session' \in [Sids -> Enf!SessionRows \union {None}]
         /\ posts' \subseteq [sid : Sids, ip : Ips]
         /\ Enf!References'
<1> USE DEF EnforcerInv
<1>1. /\ session' = [session EXCEPT ![s].revoked = TRUE]
      /\ posts' = posts \union {[sid |-> s, ip |-> session[s].ip]}
      /\ UNCHANGED <<groupTier, users, published>>
  BY DEF Enf!Revoke
<1>2. session[s] # None /\ session[s] \in Enf!SessionRows
  BY DEF Enf!Active, Enf!TypeOK
<1>3. \A r \in Sids : session'[r] # None =>
        /\ session[r] # None /\ session'[r] \in Enf!SessionRows
        /\ session'[r].user = session[r].user /\ session'[r].group = session[r].group
  BY <1>1, <1>2 DEF Enf!TypeOK, Enf!SessionRows
<1>4. session' \in [Sids -> Enf!SessionRows \union {None}]
  BY <1>1, <1>3 DEF Enf!TypeOK
<1>5. posts' \subseteq [sid : Sids, ip : Ips]
  BY <1>1, <1>2 DEF Enf!TypeOK, Enf!SessionRows
<1> QED
  BY <1>1, <1>3, <1>4, <1>5 DEF Enf!References, Enf!Exists

\* The rows of sessions and the calls on their way to the portal are left alone.
LEMMA TablesInv ==
  ASSUME EnforcerInv, UNCHANGED <<session, posts>>,
         groupTier' \in [Groups -> Tiers \union {None}],
         users' \in [Enf!Users -> Enf!UserRows \union {None}],
         published' \in [Names -> Groups \union {Denied, NoGroup}],
         admin' \in 0..MaxAdmin,
         \A u \in Enf!Users : users'[u] # None /\ users'[u].group # None => groupTier'[users'[u].group] # None,
         \A s \in Sids : session[s] # None =>
           users'[session[s].user] # None /\ groupTier'[session[s].group] # None
  PROVE  EnforcerInv'
BY DEF EnforcerInv, Enf!TypeOK, Enf!References, Enf!Exists

LEMMA AdministerOK ==
  ASSUME EnforcerInv, Enf!Administer
  PROVE  admin' \in 0..MaxAdmin
BY GatewayAssumption DEF EnforcerInv, Enf!TypeOK, Enf!Administer

LEMMA SessionRefers ==
  ASSUME EnforcerInv, NEW s \in Sids, session[s] # None
  PROVE  /\ session[s].user \in Enf!Users /\ users[session[s].user] # None
         /\ session[s].group \in Groups /\ groupTier[session[s].group] # None
BY DEF EnforcerInv, Enf!TypeOK, Enf!References, Enf!SessionRows, Enf!Exists

LEMMA GroupsInv ==
  ASSUME EnforcerInv, Enf!ManageGroups
  PROVE  EnforcerInv'
<1> USE DEF EnforcerInv
<1>0. None \notin Tiers
  BY PortalAssumption
<1>1. PICK g \in Groups : Enf!DeleteGroup(g) \/ \E t \in Tiers : Enf!CreateGroup(g, t) \/ Enf!UpdateGroup(g, t)
  BY DEF Enf!ManageGroups
<1>2. admin' \in 0..MaxAdmin
  BY <1>1, AdministerOK DEF Enf!DeleteGroup, Enf!CreateGroup, Enf!UpdateGroup
<1>3. UNCHANGED <<users, session, posts, published>>
  BY <1>1 DEF Enf!DeleteGroup, Enf!CreateGroup, Enf!UpdateGroup
<1>4. groupTier' \in [Groups -> Tiers \union {None}]
  BY <1>1 DEF Enf!DeleteGroup, Enf!CreateGroup, Enf!UpdateGroup, Enf!TypeOK
<1>5. CASE Enf!DeleteGroup(g)
  <2>1. /\ groupTier' = [groupTier EXCEPT ![g] = None]
        /\ \A u \in Enf!Users : users[u] # None => users[u].group # g
        /\ \A s \in Sids : session[s] # None => session[s].group # g
    BY <1>5 DEF Enf!DeleteGroup
  <2>2. \A u \in Enf!Users : users[u] # None => users[u] \in Enf!UserRows
    BY DEF Enf!TypeOK
  <2>3. ASSUME NEW u \in Enf!Users, users[u] # None, users[u].group # None
        PROVE  groupTier'[users[u].group] # None
    BY <2>1, <2>2, <2>3 DEF Enf!References, Enf!Exists, Enf!UserRows, Enf!TypeOK
  <2>4. ASSUME NEW s \in Sids, session[s] # None
        PROVE  users[session[s].user] # None /\ groupTier'[session[s].group] # None
    BY <2>1, <2>4, SessionRefers DEF Enf!TypeOK
  <2> QED
    BY <1>2, <1>3, <1>4, <2>3, <2>4, TablesInv DEF Enf!TypeOK
<1>6. CASE \E t \in Tiers : Enf!CreateGroup(g, t) \/ Enf!UpdateGroup(g, t)
  <2>1. PICK t \in Tiers : groupTier' = [groupTier EXCEPT ![g] = t]
    BY <1>6 DEF Enf!CreateGroup, Enf!UpdateGroup
  <2>2. \A h \in Groups : groupTier[h] # None => groupTier'[h] # None
    BY <1>0, <2>1 DEF Enf!TypeOK
  <2>3. ASSUME NEW u \in Enf!Users, users[u] # None, users[u].group # None
        PROVE  groupTier'[users[u].group] # None
    <3>1. users[u] \in Enf!UserRows
      BY <2>3 DEF Enf!TypeOK
    <3> QED
      BY <2>2, <2>3, <3>1 DEF Enf!References, Enf!Exists, Enf!UserRows
  <2>4. ASSUME NEW s \in Sids, session[s] # None
        PROVE  users[session[s].user] # None /\ groupTier'[session[s].group] # None
    BY <2>2, <2>4, SessionRefers
  <2> QED
    BY <1>2, <1>3, <1>4, <2>3, <2>4, TablesInv DEF Enf!TypeOK
<1> QED
  BY <1>1, <1>5, <1>6

\* A row of users is written.
LEMMA UserInv ==
  ASSUME EnforcerInv, Enf!Administer, NEW u \in Enf!Users, NEW row \in Enf!UserRows,
         users' = [users EXCEPT ![u] = row],
         row.group = None \/ Enf!Exists(row.group),
         UNCHANGED <<groupTier, session, posts, published>>
  PROVE  EnforcerInv'
<1> USE DEF EnforcerInv
<1>0. row # None
  BY GatewayAssumption
<1>1. users' \in [Enf!Users -> Enf!UserRows \union {None}]
  BY DEF Enf!TypeOK
<1>2. \A v \in Enf!Users : users[v] # None => users'[v] # None
  BY <1>0 DEF Enf!TypeOK
<1>3. ASSUME NEW v \in Enf!Users, users'[v] # None, users'[v].group # None
      PROVE  groupTier'[users'[v].group] # None
  BY <1>3 DEF Enf!TypeOK, Enf!References, Enf!Exists
<1>4. ASSUME NEW s \in Sids, session[s] # None
      PROVE  users'[session[s].user] # None /\ groupTier'[session[s].group] # None
  BY <1>2, <1>4, SessionRefers
<1> QED
  BY <1>1, <1>3, <1>4, AdministerOK, TablesInv DEF Enf!TypeOK

LEMMA UsersInv ==
  ASSUME EnforcerInv, Enf!ManageUsers
  PROVE  EnforcerInv'
<1> USE DEF EnforcerInv
<1>1. PICK u \in Enf!Users :
        \/ Enf!RemoveMember(u) \/ Enf!RevokeUser(u)
        \/ \E g \in Groups \union {None}, d \in BOOLEAN : Enf!UpdateUser(u, g, d)
        \/ \E g \in Groups : u # Anon /\ Enf!CreateUser(u, g)
  BY DEF Enf!ManageUsers
<1>2. CASE Enf!RemoveMember(u)
  <2> DEFINE row == [users[u] EXCEPT !.group = None]
  <2>1. /\ Enf!Administer /\ users[u] \in Enf!UserRows
        /\ users' = [users EXCEPT ![u].group = None]
        /\ UNCHANGED <<groupTier, session, posts, published>>
    BY <1>2 DEF Enf!RemoveMember, Enf!TypeOK
  <2>2. row \in Enf!UserRows /\ row.group = None /\ users' = [users EXCEPT ![u] = row]
    BY <2>1 DEF Enf!UserRows, Enf!TypeOK
  <2> HIDE DEF row
  <2> QED
    BY <2>1, <2>2, UserInv
<1>3. CASE Enf!RevokeUser(u)
  <2>1. PICK s \in Enf!Newest({r \in Sids : Enf!Active(r) /\ session[r].user = u}) : Enf!Revoke(s)
    BY <1>3 DEF Enf!RevokeUser
  <2>2. Enf!Administer /\ s \in Sids /\ Enf!Active(s)
    BY <1>3, <2>1 DEF Enf!RevokeUser, Enf!Newest
  <2>3. UNCHANGED <<groupTier, users, published>>
    BY <2>1 DEF Enf!Revoke
  <2> QED
    BY <2>1, <2>2, <2>3, RevokeInv, AdministerOK DEF Enf!TypeOK
<1>4. ASSUME NEW g \in Groups \union {None}, NEW d \in BOOLEAN, Enf!UpdateUser(u, g, d)
      PROVE  EnforcerInv'
  <2> DEFINE row == [group |-> g, disabled |-> d]
  <2>1. /\ Enf!Administer /\ users[u] # None
        /\ g \in {users[u].group} \union {h \in Groups : Enf!Exists(h)}
        /\ users' = [users EXCEPT ![u] = row]
        /\ UNCHANGED <<groupTier, session, posts, published>>
    BY <1>4 DEF Enf!UpdateUser
  <2>2. row \in Enf!UserRows /\ row.group = g
    BY DEF Enf!UserRows
  <2>3. g = None \/ Enf!Exists(g)
    BY <2>1 DEF Enf!References
  <2> HIDE DEF row
  <2> QED
    BY <2>1, <2>2, <2>3, UserInv
<1>5. ASSUME NEW g \in Groups, Enf!CreateUser(u, g)
      PROVE  EnforcerInv'
  <2> DEFINE row == [group |-> g, disabled |-> FALSE]
  <2>1. /\ Enf!Administer /\ Enf!Exists(g)
        /\ users' = [users EXCEPT ![u] = row]
        /\ UNCHANGED <<groupTier, session, posts, published>>
    BY <1>5 DEF Enf!CreateUser
  <2>2. row \in Enf!UserRows /\ row.group = g
    BY DEF Enf!UserRows
  <2> HIDE DEF row
  <2> QED
    BY <2>1, <2>2, UserInv
<1> QED
  BY <1>1, <1>2, <1>3, <1>4, <1>5

LEMMA ManageInv ==
  ASSUME EnforcerInv, Enf!Manage
  PROVE  EnforcerInv'
<1>1. ASSUME NEW s \in Sids, Enf!RevokeSession(s) PROVE EnforcerInv'
  <2>1. Enf!Administer /\ Enf!Active(s) /\ Enf!Revoke(s)
    BY <1>1 DEF Enf!RevokeSession
  <2>2. UNCHANGED <<groupTier, users, published>>
    BY <2>1 DEF Enf!Revoke
  <2> QED
    BY <2>1, <2>2, RevokeInv, AdministerOK DEF EnforcerInv, Enf!TypeOK
<1>2. ASSUME NEW n \in Names, NEW x \in Groups \union {Denied, NoGroup}, Enf!Publish(n, x)
      PROVE  EnforcerInv'
  <2>1. /\ Enf!Administer /\ UNCHANGED <<groupTier, users, session, posts>>
        /\ published' = [published EXCEPT ![n] = x]
    BY <1>2 DEF Enf!Publish
  <2> QED
    BY <2>1, AdministerOK DEF EnforcerInv, Enf!TypeOK, Enf!References, Enf!Exists
<1> QED
  BY <1>1, <1>2, GroupsInv, UsersInv DEF Enf!Manage

LEMMA DeleteInv ==
  ASSUME EnforcerInv, NEW u \in Enf!Users, Enf!DeleteUser(u)
  PROVE  EnforcerInv'
<1> USE DEF EnforcerInv
<1>1. /\ Enf!Administer
      /\ users' = [users EXCEPT ![u] = None]
      /\ session' = [s \in Sids |-> IF s \in Enf!SessionsOf(u) THEN None ELSE session[s]]
      /\ UNCHANGED <<groupTier, posts, published>>
  BY DEF Enf!DeleteUser
<1>2. users' \in [Enf!Users -> Enf!UserRows \union {None}]
      /\ session' \in [Sids -> Enf!SessionRows \union {None}]
  BY <1>1 DEF Enf!TypeOK
<1>3. \A v \in Enf!Users : users'[v] # None => users'[v] = users[v]
  BY <1>1 DEF Enf!TypeOK
<1>4. ASSUME NEW s \in Sids, session'[s] # None
      PROVE  users'[session'[s].user] # None /\ groupTier[session'[s].group] # None
  <2>1. session'[s] = session[s] /\ session[s].user # u
    BY <1>1, <1>4 DEF Enf!SessionsOf
  <2> QED
    BY <1>1, <1>4, <2>1, SessionRefers DEF Enf!TypeOK
<1> QED
  BY <1>1, <1>2, <1>3, <1>4, AdministerOK DEF Enf!TypeOK, Enf!References, Enf!Exists

----------------------------------------------------------------------------
(* The portal beside the enforcer is the portal *)

LEMMA HandlesG ==
  ASSUME NEW p \in Procs, HandleG(p)
  PROVE  Handle(p)
<1>1. CASE Alone(p)
  BY <1>1 DEF Alone, Handle
<1>2. CASE Record(p)
  <2>1. PICK answer \in Enf!GroupByTier(req[p].tier), at \in Stamps : GrantRecord(p, answer, at)
    BY <1>2 DEF Record
  <2>2. answer \in Groups \union {None}
    BY TierAnswer
  <2> QED
    BY <2>1, <2>2 DEF Handle
<1>3. CASE GiveUp(p)
  BY <1>3 DEF GiveUp, Handle
<1> QED
  BY <1>1, <1>2, <1>3 DEF HandleG

\* Whatever the enforcer answers or asks is something the portal reckons with.
LEMMA PortalStep ==
  ASSUME EnforcerInv, GatewayNext
  PROVE  Next \/ UNCHANGED vars
<1>1. ASSUME NEW p \in Procs, HandleG(p) PROVE Next
  BY <1>1, HandlesG DEF Next
<1>2. ASSUME NEW w \in Workers, NEW ip \in Ips, Leave(w, ip) PROVE Next
  BY <1>2 DEF Leave, Next, Request
<1>3. ASSUME NEW w \in Workers, NEW ip \in Ips, NEW n \in Names, SignInAs(w, ip, n) PROVE Next
  <2>1. PICK reachable \in Reachable :
          \E ident \in Enf!EnsLookup(n, reachable) : StartAdmit(w, ip, ident)
    BY <1>3 DEF SignInAs
  <2>2. PICK ident \in Enf!EnsLookup(n, reachable) : StartAdmit(w, ip, ident)
    BY <2>1
  <2>3. ident \in Idents
    BY AnswersFit
  <2> QED
    BY <2>2, <2>3 DEF Next, Request
<1>4. ASSUME NEW c \in calls, Receive(c) \/ LoseCall(c) PROVE Next
  BY <1>4 DEF Receive, LoseCall, Next
<1>5. ASSUME NEW w \in Workers, NEW m \in posts, TakePost(w, m) PROVE Next
  <2>1. m.ip \in Ips
    BY DEF EnforcerInv, Enf!TypeOK
  <2> QED
    BY <1>5, <2>1 DEF TakePost, Next, Request
<1>6. ASSUME NEW m \in posts, LosePost(m) PROVE UNCHANGED vars
  BY <1>6 DEF LosePost
<1>7. CASE Background
  BY <1>7 DEF Background, Next
<1>8. CASE Crash
  BY <1>8 DEF Crash, Next
<1>9. CASE Admin
  BY <1>9 DEF Admin
<1>10. ASSUME NEW u \in Enf!Users, Dismiss(u) PROVE UNCHANGED vars
  BY <1>10 DEF Dismiss
<1> QED
  BY <1>1, <1>2, <1>3, <1>4, <1>5, <1>6, <1>7, <1>8, <1>9, <1>10
     DEF GatewayNext, Receives, TakePosts

LEMMA EnforcerStep ==
  ASSUME PortalInv, EnforcerInv, GatewayNext
  PROVE  EnforcerInv'
<1>1. ASSUME UNCHANGED enforcer PROVE EnforcerInv'
  BY <1>1 DEF EnforcerInv, enforcer, Enf!TypeOK, Enf!References, Enf!Exists
<1>2. ASSUME NEW q, posts' = posts \ {q}, UNCHANGED <<groupTier, users, session, published, admin>>
      PROVE  EnforcerInv'
  BY <1>2 DEF EnforcerInv, Enf!TypeOK, Enf!References, Enf!Exists
<1>3. ASSUME NEW p \in Procs, HandleG(p) PROVE EnforcerInv'
  BY <1>1, <1>3 DEF HandleG, Alone, Record, GiveUp
<1>4. ASSUME NEW w \in Workers, NEW ip \in Ips,
             Leave(w, ip) \/ \E n \in Names : SignInAs(w, ip, n)
      PROVE  EnforcerInv'
  BY <1>1, <1>4 DEF Leave, SignInAs
<1>5. ASSUME NEW c \in calls, Receive(c) PROVE EnforcerInv'
  <2>1. c \in Created \union Ended
    BY DEF PortalInv, TablesOK
  <2>2. CASE c.call = "created"
    <3>1. c \in Created
      BY <2>1, <2>2 DEF Created, Ended
    <3>2. Enf!SessionCreated(c)
      BY <1>5, <2>2 DEF Receive
    <3> QED
      BY <3>1, <3>2, CreatedInv
  <2>3. CASE c.call # "created"
    <3>1. c.sid \in Nat
      BY <2>1 DEF Created, Ended
    <3>2. Enf!SessionEnded(c.sid)
      BY <1>5, <2>3 DEF Receive
    <3> QED
      BY <3>1, <3>2, EndedInv
  <2> QED
    BY <2>2, <2>3
<1>6. ASSUME NEW c \in calls, LoseCall(c) PROVE EnforcerInv'
  BY <1>1, <1>6 DEF LoseCall
<1>7. ASSUME NEW w \in Workers, NEW m \in posts, TakePost(w, m) PROVE EnforcerInv'
  BY <1>2, <1>7 DEF TakePost
<1>8. ASSUME NEW m \in posts, LosePost(m) PROVE EnforcerInv'
  BY <1>2, <1>8 DEF LosePost
<1>9. CASE Background \/ Crash
  BY <1>1, <1>9 DEF Background, Crash
<1>10. CASE Admin
  BY <1>10, ManageInv DEF Admin
<1>11. ASSUME NEW u \in Enf!Users, Dismiss(u) PROVE EnforcerInv'
  BY <1>11, DeleteInv DEF Dismiss
<1> QED
  BY <1>3, <1>4, <1>5, <1>6, <1>7, <1>8, <1>9, <1>10, <1>11
     DEF GatewayNext, Receives, TakePosts

BothInv == PortalInv /\ EnforcerInv

LEMMA BothNext == BothInv /\ [GatewayNext]_gatewayVars => BothInv' /\ [Next]_vars
<1> SUFFICES ASSUME BothInv, [GatewayNext]_gatewayVars
             PROVE  BothInv' /\ [Next]_vars
  OBVIOUS
<1>1. CASE GatewayNext
  BY <1>1, PortalStep, EnforcerStep, NextInv DEF BothInv
<1>2. CASE UNCHANGED gatewayVars
  <2>1. UNCHANGED vars /\ UNCHANGED enforcer
    BY <1>2 DEF gatewayVars
  <2>2. EnforcerInv'
    BY <2>1 DEF BothInv, EnforcerInv, enforcer, Enf!TypeOK, Enf!References, Enf!Exists
  <2> QED
    BY <2>1, <2>2, NextInv DEF BothInv
<1> QED
  BY <1>1, <1>2

LEMMA BothInit == GatewayInit => BothInv
BY EnforcerInit, InitInv DEF GatewayInit, BothInv

\* Beside the enforcer the portal behaves as Portal says: every theorem about
\* Portal, which lets a lookup answer anything and a notification be taken or lost
\* at any time, holds on a gateway.
THEOREM PortalKept == GatewaySpec => Spec
<1>1. GatewayInit => Init
  BY DEF GatewayInit
<1> QED
  BY <1>1, BothInit, BothNext, PTL DEF GatewaySpec, Spec

\* No delete of an administrator, in whatever order with sign-ins, leaves a user
\* or a session that refers to a row that is gone (proxy.py, delete_group,
\* delete_user, session_created).
THEOREM References == GatewaySpec => []EnforcerReferences
<1>1. BothInv => EnforcerReferences
  BY DEF BothInv, EnforcerInv, EnforcerReferences
<1> QED
  BY <1>1, BothInit, BothNext, PTL DEF GatewaySpec

----------------------------------------------------------------------------
(* What a step of the portal does to the sessions of the devices *)

\* A session ends, or one opens under the next number.
LEMMA IdsMove ==
  ASSUME PortalInv, [Next]_vars
  PROVE  /\ issued' \in {issued, issued + 1}
         /\ \A ip \in Ips : sessionId'[ip] \in {sessionId[ip], 0, issued + 1}
<1> USE DEF PortalInv
<1>1. CASE \E p \in Procs, answer \in Groups \union {None}, at \in Stamps : GrantRecord(p, answer, at)
  BY <1>1 DEF GrantRecord, NewSession, TablesOK
<1>2. CASE \E p \in Procs : RevokeForget(p)
  BY <1>2 DEF RevokeForget, counters, TablesOK
<1>3. CASE Restart
  BY <1>3 DEF Restart
<1>4. CASE /\ ~ \E p \in Procs, answer \in Groups \union {None}, at \in Stamps :
                  GrantRecord(p, answer, at)
           /\ ~ \E p \in Procs : RevokeForget(p)
           /\ ~ Restart
  <2>1. UNCHANGED <<sessionId, issued>>
    BY <1>4 DEF Next, Handle, Request, StartAdmit, StartRevoke, Check, SetName, GrantAccept,
       GrantRefused, GrantRules, GrantFail, RevokeNothing, RevokeRules, NotifyReturn,
       NotifyTimeout, NotifyEnd, ReaperStep, Sweep, Reap, Link, Appear, Vanish, Deliver, vars,
       tables, counters
  <2> QED
    BY <2>1
<1> QED
  BY <1>1, <1>2, <1>3, <1>4

\* s was opened at the address at for name: no other address has it, its address
\* shows no other name while it lasts, and has no older session after it.
Stands(id, nm, s, at, name) ==
  \A ip \in Ips :
    /\ id[ip] = s => ip = at /\ nm[ip] \in {None, name}
    /\ ip = at /\ id[ip] # 0 => s <= id[ip]

Gone(id, s) == \A ip \in Ips : id[ip] # s

\* What a report on the wire, and a row of the enforcer, say of the portal's tables.
CallFits(id, nm, n, c) ==
  /\ c.sid \in 1..n
  /\ c.call = "created" => Stands(id, nm, c.sid, c.ip, c.name)
  /\ c.call = "ended" => Gone(id, c.sid)

RowFits(id, nm, n, s, row) ==
  /\ s <= n
  /\ Stands(id, nm, s, row.ip, row.name)
  /\ row.out => Gone(id, s)

LEMMA StandsKept ==
  ASSUME OneSignInPerIp, NamesInv, [Next]_vars, NEW s \in 1..issued
  PROVE  /\ s \in 1..issued'
         /\ \A at, name : Stands(sessionId, ensName, s, at, name) =>
                            Stands(sessionId', ensName', s, at, name)
         /\ Gone(sessionId, s) => Gone(sessionId', s)
<1>1. /\ issued \in Nat /\ issued' \in {issued, issued + 1}
      /\ \A ip \in Ips : sessionId[ip] \in Nat /\ sessionId'[ip] \in {sessionId[ip], 0, issued + 1}
  BY IdsMove DEF NamesInv, PortalInv, TablesOK
<1>2. PortalInv /\ PortalInv'
  BY NextInv DEF NamesInv
<1>3. ASSUME NEW ip \in Ips, sessionId'[ip] = s
      PROVE  sessionId[ip] = s /\ ensName'[ip] = ensName[ip]
  <2>1. sessionId[ip] = s
    BY <1>1, <1>3
  <2>2. authed[ip] # None /\ authed'[ip] # None
    BY <1>2, <1>3, <2>1 DEF PortalInv, SessionsOK, SessionPerDevice
  <2> QED
    BY <2>1, <2>2, NameKept
<1>4. ASSUME NEW ip \in Ips, sessionId'[ip] # 0, sessionId[ip] # 0 => s <= sessionId[ip]
      PROVE  s <= sessionId'[ip]
  BY <1>1, <1>4
<1>5. s \in 1..issued'
  BY <1>1
<1>6. ASSUME NEW at, NEW name, Stands(sessionId, ensName, s, at, name)
      PROVE  Stands(sessionId', ensName', s, at, name)
  BY <1>3, <1>4, <1>6 DEF Stands
<1>7. Gone(sessionId, s) => Gone(sessionId', s)
  BY <1>3 DEF Gone
<1> QED
  BY <1>5, <1>6, <1>7

LEMMA FitsKept ==
  ASSUME OneSignInPerIp, NamesInv, [Next]_vars
  PROVE  /\ \A c : CallFits(sessionId, ensName, issued, c) =>
                     CallFits(sessionId', ensName', issued', c)
         /\ \A row : \A s \in Sids : RowFits(sessionId, ensName, issued, s, row) =>
                                   RowFits(sessionId', ensName', issued', s, row)
<1>1. ASSUME NEW c, CallFits(sessionId, ensName, issued, c)
      PROVE  CallFits(sessionId', ensName', issued', c)
  <2>1. c.sid \in 1..issued
    BY <1>1 DEF CallFits
  <2> QED
    BY <1>1, <2>1, StandsKept DEF CallFits
<1>2. ASSUME NEW s \in Sids, NEW row, RowFits(sessionId, ensName, issued, s, row)
      PROVE  RowFits(sessionId', ensName', issued', s, row)
  <2>1. issued \in Nat /\ issued' \in Nat
    BY NextInv DEF NamesInv, PortalInv, TablesOK
  <2>2. s \in 1..issued
    BY <1>2, <2>1, PortalAssumption DEF RowFits, Sids
  <2>3. s <= issued'
    BY <2>1, <2>2, StandsKept
  <2> QED
    BY <1>2, <2>2, <2>3, StandsKept DEF RowFits
<1> QED
  BY <1>1, <1>2

----------------------------------------------------------------------------
(* The name a grant finds, and the sessions still to be issued *)

Granting == {"grant", "rules", "record"}

\* A thread that grants finds the name it wrote, unless its address was revoked.
NamesKnown ==
  \A p \in Procs : pc[p] \in Granting => ensName[req[p].ip] \in {None, req[p].name}

\* The sign-ins that may yet take a session id.
Waiting == {p \in SignIns : pc[p] # "created"}
Bounded == issued + Cardinality(Waiting) <= MaxSessions

LEMMA HandleNamesKnown ==
  ASSUME NamesInv, NamesKnown, NEW p \in Procs, Handle(p)
  PROVE  NamesKnown'
<1> USE DEF NamesInv
<1>1. Modest(p)
  BY HandleModest
<1>2. \/ UNCHANGED ensName
      \/ ensName' = [ensName EXCEPT ![req[p].ip] = req[p].name] /\ req[p].name # None
      \/ ensName' = [ensName EXCEPT ![req[p].ip] = None]
  <2>1. CASE SetName(p)
    BY <2>1 DEF SetName, PortalInv, ThreadsOK, RequestsOK, Fits, SignsIn
  <2>2. CASE RevokeForget(p)
    BY <2>2 DEF RevokeForget
  <2>3. CASE ~ SetName(p) /\ ~ RevokeForget(p)
    <3>1. UNCHANGED ensName
      BY <2>3 DEF Handle, Check, GrantAccept, GrantRefused, GrantRules, GrantFail, GrantRecord,
         RevokeNothing, RevokeRules, NotifyReturn, NotifyTimeout, NotifyEnd, tables
    <3> QED
      BY <3>1
  <2> QED
    BY <2>1, <2>2, <2>3
<1>3. ASSUME NEW q \in Procs, q # p, pc'[q] \in Granting
      PROVE  ensName'[req'[q].ip] \in {None, req'[q].name}
  <2>1. pc'[q] = pc[q] /\ req'[q] = req[q]
    BY <1>1, <1>3 DEF Modest
  <2>2. req[q].ip \in Ips /\ req[q].name # None
    BY <1>3, <2>1 DEF PortalInv, ThreadsOK, RequestsOK, Fits, Granting, SignsIn
  <2>3. req[p].name # None => req[p].ip # req[q].ip
    BY <1>3, <2>2 DEF OneSignIn
  <2>4. ensName[req[q].ip] \in {None, req[q].name}
    BY <1>3, <2>1 DEF NamesKnown
  <2>5. ensName'[req[q].ip] \in {ensName[req[q].ip], None}
    BY <1>2, <2>2, <2>3 DEF PortalInv, TablesOK
  <2> QED
    BY <2>1, <2>4, <2>5
<1>4. ASSUME pc'[p] \in Granting
      PROVE  ensName'[req'[p].ip] \in {None, req'[p].name}
  <2>1. CASE SetName(p)
    <3>1. req[p].ip \in Ips /\ req' = req /\ ensName' = [ensName EXCEPT ![req[p].ip] = req[p].name]
      BY <2>1 DEF SetName, Goto, PortalInv, ThreadsOK, RequestsOK, Fits
    <3> QED
      BY <3>1 DEF PortalInv, TablesOK
  <2>2. CASE GrantAccept(p) \/ GrantRules(p)
    <3>1. pc[p] \in Granting /\ UNCHANGED ensName
      BY <2>2 DEF GrantAccept, GrantRules, Granting, tables
    <3>2. req'[p] = req[p]
      BY <1>4, <2>2 DEF GrantAccept, GrantRules, Goto, Granting, PortalInv, TablesOK
    <3> QED
      BY <3>1, <3>2 DEF NamesKnown
  <2>3. CASE ~ SetName(p) /\ ~ GrantAccept(p) /\ ~ GrantRules(p)
    <3>1. pc'[p] \in {"idle", "revoke", "name", "created", "forget", "ended"}
      BY <2>3 DEF Handle, Check, GrantRefused, GrantFail, GrantRecord, RevokeNothing, RevokeRules,
         RevokeForget, AfterRevoke, NotifyReturn, NotifyTimeout, NotifyEnd, Goto, PortalInv, TablesOK
    <3> QED
      BY <1>4, <3>1 DEF Granting
  <2> QED
    BY <2>1, <2>2, <2>3
<1> QED
  BY <1>3, <1>4 DEF NamesKnown

LEMMA NamesKnownNext ==
  ASSUME NamesInv, NamesKnown, [Next]_vars
  PROVE  NamesKnown'
<1>1. CASE \E p \in Procs : Handle(p)
  BY <1>1, HandleNamesKnown
<1>2. CASE Restart
  BY <1>2 DEF Restart, NamesKnown, Granting
<1>3. CASE ~ (\E p \in Procs : Handle(p)) /\ ~ Restart
  <2>1. UNCHANGED ensName
    BY <1>3 DEF Next, Request, StartAdmit, StartRevoke, ReaperStep, Sweep, Reap, Link, Appear, Vanish,
       Deliver, vars, tables
  <2>2. \A q \in Procs : (pc'[q] = pc[q] /\ req'[q] = req[q]) \/ pc'[q] \in {"check", "revoke"}
    BY <1>3 DEF Next, Request, StartAdmit, StartRevoke, Serve, ReaperStep, Sweep, Reap, Link, Appear,
       Vanish, Deliver, vars, threads, NamesInv, PortalInv, TablesOK
  <2> QED
    BY <2>1, <2>2 DEF NamesKnown, Granting
<1> QED
  BY <1>1, <1>2, <1>3

\* A set of threads is finite, so its size is a number that shrinks with it.
LEMMA ThreadSets ==
  ASSUME NEW T, T \subseteq Workers
  PROVE  /\ Cardinality(T) \in Nat
         /\ \A U \in SUBSET T : Cardinality(U) <= Cardinality(T)
         /\ \A p : Cardinality(T \union {p}) <= Cardinality(T) + 1
         /\ \A p \in T : Cardinality(T \ {p}) = Cardinality(T) - 1
<1>1. IsFiniteSet(T)
  BY GatewayAssumption, FS_Subset
<1>2. Cardinality(T) \in Nat
  BY <1>1, FS_CardinalityType
<1>3. \A p : Cardinality(T \union {p}) <= Cardinality(T) + 1
  BY <1>1, <1>2, FS_AddElement
<1>4. \A p \in T : Cardinality(T \ {p}) = Cardinality(T) - 1
  BY <1>1, FS_RemoveElement
<1>5. \A U \in SUBSET T : Cardinality(U) <= Cardinality(T)
  BY <1>1, FS_Subset
<1> QED
  BY <1>2, <1>3, <1>4, <1>5

LEMMA BoundedNext ==
  ASSUME NamesInv, Bounded, [Next]_vars
  PROVE  Bounded' /\ issued <= MaxSessions
<1> USE DEF NamesInv
<1>1. /\ issued \in Nat /\ MaxSessions \in Nat
      /\ Waiting \subseteq SignIns /\ SignIns \subseteq Workers
      /\ Waiting' \subseteq Workers /\ Workers \subseteq Procs
  BY PortalAssumption DEF PortalInv, TablesOK, Waiting, SignIns, Procs
<1>2. Cardinality(Waiting) \in Nat /\ Cardinality(SignIns) \in Nat /\ Cardinality(Waiting') \in Nat
  BY <1>1, ThreadSets
<1>3. ASSUME Waiting' \subseteq Waiting, issued' = issued PROVE Bounded'
  <2>1. Cardinality(Waiting') <= Cardinality(Waiting)
    BY <1>1, <1>3, ThreadSets
  <2> QED
    BY <1>1, <1>2, <1>3, <2>1 DEF Bounded
<1>4. ASSUME NEW p \in Procs, Handle(p) PROVE Bounded'
  <2>1. Modest(p)
    BY <1>4, HandleModest
  <2>2. CASE \E answer \in Groups \union {None}, at \in Stamps : GrantRecord(p, answer, at)
    <3>1. pc[p] = "record" /\ req[p].name # None /\ issued' = issued + 1
      BY <2>2 DEF GrantRecord, PortalInv, ThreadsOK, RequestsOK, Fits, SignsIn
    <3>2. p \in Waiting
      BY <3>1 DEF OneSignIn, Procs, Waiting, SignIns
    <3>3. pc'[p] = "created" \/ req'[p].name = None
      BY <2>2 DEF GrantRecord, Goto, NoRequest, PortalInv, TablesOK
    <3>4. Waiting' \subseteq Waiting \ {p}
      BY <1>1, <2>1, <3>3 DEF Waiting, SignIns, Modest
    <3>5. Cardinality(Waiting') <= Cardinality(Waiting \ {p})
      BY <1>1, <3>4, ThreadSets
    <3>6. Cardinality(Waiting \ {p}) = Cardinality(Waiting) - 1
      BY <1>1, <3>2, ThreadSets
    <3> QED
      BY <1>1, <1>2, <3>1, <3>5, <3>6 DEF Bounded
  <2>3. CASE ~ \E answer \in Groups \union {None}, at \in Stamps : GrantRecord(p, answer, at)
    <3>1. issued' = issued
      BY <1>4, <2>3 DEF Handle, Check, SetName, GrantAccept, GrantRefused, GrantRules, GrantFail,
         RevokeNothing, RevokeRules, RevokeForget, NotifyReturn, NotifyTimeout, NotifyEnd, counters
    <3>2. pc[p] = "created" => req'[p].name = None
      BY <1>4, <2>3 DEF Handle, Check, SetName, GrantAccept, GrantRefused, GrantRules, GrantFail,
         RevokeNothing, RevokeRules, RevokeForget, NotifyReturn, NotifyTimeout, NotifyEnd, Goto,
         NoRequest, PortalInv, TablesOK
    <3>3. Waiting' \subseteq Waiting
      BY <1>1, <2>1, <3>2 DEF Waiting, SignIns, Modest
    <3> QED
      BY <1>3, <3>1, <3>3
  <2> QED
    BY <2>2, <2>3
<1>5. ASSUME NEW w \in Workers, NEW ip \in Ips, NEW ident \in Idents, StartAdmit(w, ip, ident)
      PROVE  Bounded'
  <2>1. issued + Cardinality(SignIns) < MaxSessions /\ issued' = issued
    BY <1>5 DEF StartAdmit, counters
  <2>2. \A q \in Procs \ {w} : pc'[q] = pc[q] /\ req'[q] = req[q]
    BY <1>5 DEF StartAdmit, Serve, PortalInv, TablesOK
  <2>3. Waiting' \subseteq SignIns \union {w}
    BY <1>1, <2>2 DEF Waiting, SignIns
  <2>4. Cardinality(Waiting') <= Cardinality(SignIns \union {w})
    BY <1>1, <2>3, ThreadSets
  <2>5. Cardinality(SignIns \union {w}) <= Cardinality(SignIns) + 1
    BY <1>1, ThreadSets
  <2>6. Cardinality(SignIns \union {w}) \in Nat
    BY <1>1, ThreadSets
  <2> QED
    BY <1>1, <1>2, <2>1, <2>4, <2>5, <2>6 DEF Bounded
<1>6. ASSUME Restart PROVE Bounded'
  <2>1. Waiting' = {} /\ issued' = issued
    BY <1>6 DEF Restart, Waiting, SignIns, NoRequest, Procs
  <2> QED
    BY <1>3, <2>1
<1>7. ASSUME ~ (\E p \in Procs : Handle(p)), ~ Restart,
             ~ \E w \in Workers, ip \in Ips, ident \in Idents : StartAdmit(w, ip, ident)
      PROVE  Bounded'
  <2>1. issued' = issued
    BY <1>7 DEF Next, Request, StartRevoke, ReaperStep, Sweep, Reap, Link, Appear, Vanish, Deliver,
       vars, counters
  <2>2. \A q \in Workers : (pc'[q] = pc[q] /\ req'[q] = req[q]) \/ req'[q].name = None
    BY <1>7, <1>1 DEF Next, Request, StartRevoke, Serve, NoRequest, ReaperStep, Sweep, Reap, Link,
       Appear, Vanish, Deliver, vars, threads, PortalInv, TablesOK
  <2>3. Waiting' \subseteq Waiting
    BY <2>2 DEF Waiting, SignIns
  <2> QED
    BY <1>3, <2>1, <2>3
<1>8. issued <= MaxSessions
  BY <1>1, <1>2 DEF Bounded
<1> QED
  BY <1>4, <1>5, <1>6, <1>7, <1>8

----------------------------------------------------------------------------
(* What the tables of the two processes have to do with each other *)

Opens(cs, s) == \E c \in cs : c.call = "created" /\ c.sid = s

\* The enforcer has asked for s to be put out at ip, or the portal is at it.
PuttingOut(ps, at, r, ip, s) ==
  \/ \E m \in ps : m.ip = ip /\ m.sid = s
  \/ \E p \in Procs : at[p] \in {"revoke", "forget"} /\ r[p].ip = ip

\* A thread of the portal waits for the answer to the report that s is open.
Reporting(at, r, s) == \E p \in Procs : at[p] = "created" /\ r[p].sid = s

\* Reports on the wire are true of the portal, or were before the report behind them.
ReportsFit == \A c \in calls : CallFits(sessionId, ensName, issued, c)

\* A session is reported open once, and has no row before.
ReportedOnce ==
  \A c \in calls : c.call = "created" =>
    session[c.sid] = None /\ \A d \in calls : d.call = "created" /\ d.sid = c.sid => d = c

\* A row is of a session that was opened for its name at its address.
RowsFit ==
  \A s \in Sids : session[s] # None => RowFits(sessionId, ensName, issued, s, session[s])

\* While a session is being reported open it lasts: the reporting thread has the lock.
OpenWhileReported ==
  \A c \in calls : c.call = "created" /\ c.sid \notin astray =>
    sessionId[c.ip] = c.sid /\ Reporting(pc, req, c.sid)

\* The enforcer has a row of every session that lasts, and has told when it revoked it.
RowPerSession ==
  \A ip \in Ips :
    sessionId[ip] # 0 /\ sessionId[ip] \notin astray /\ ~ Opens(calls, sessionId[ip]) =>
      /\ session[sessionId[ip]] # None
      /\ session[sessionId[ip]].revoked => PuttingOut(posts, pc, req, ip, sessionId[ip])

Ground == NamesInv /\ EnforcerInv /\ NamesKnown /\ Bounded
Joint ==
  ReportsFit /\ ReportedOnce /\ RowsFit /\ OpenWhileReported /\ RowPerSession /\ ActiveIsCurrent

LEMMA FewerReports ==
  ASSUME OneSignInPerIp, Ground, Joint, [Next]_vars, calls' \subseteq calls,
         \A s \in Sids : session[s] = None => session'[s] = None \/ ~ Opens(calls', s)
  PROVE  ReportsFit' /\ ReportedOnce'
<1>1. ReportsFit'
  BY FitsKept DEF Ground, Joint, ReportsFit
<1>2. ASSUME NEW c \in calls', c.call = "created" PROVE session'[c.sid] = None
  <2>1. c \in calls /\ c.sid \in 1..issued /\ issued \in Nat /\ issued <= MaxSessions /\ MaxSessions \in Nat
    BY BoundedNext, PortalAssumption
       DEF Joint, ReportsFit, CallFits, Ground, NamesInv, PortalInv, TablesOK
  <2>2. c.sid \in Sids /\ session[c.sid] = None
    BY <1>2, <2>1 DEF Joint, ReportedOnce, Sids
  <2> QED
    BY <1>2, <2>2 DEF Opens
<1> QED
  BY <1>1, <1>2 DEF Joint, ReportedOnce

LEMMA RowsKept ==
  ASSUME OneSignInPerIp, Ground, Joint, [Next]_vars,
         \A s \in Sids : session'[s] # None =>
           /\ session[s] # None
           /\ session'[s].ip = session[s].ip /\ session'[s].name = session[s].name
           /\ session'[s].out => session[s].out
  PROVE  RowsFit'
<1> SUFFICES ASSUME NEW s \in Sids, session'[s] # None
             PROVE  RowFits(sessionId', ensName', issued', s, session'[s])
  BY DEF RowsFit
<1>1. RowFits(sessionId', ensName', issued', s, session[s])
  BY FitsKept DEF Ground, Joint, RowsFit
<1> QED
  BY <1>1 DEF RowFits

\* Nothing opens, ends or is reported.
LEMMA QuietStep ==
  ASSUME OneSignInPerIp, Ground, Joint, [Next]_vars,
         UNCHANGED <<sessionId, issued, session, calls>>, astray \subseteq astray',
         \A c \in calls : c.call = "created" /\ c.sid \notin astray' /\ Reporting(pc, req, c.sid) =>
           Reporting(pc', req', c.sid),
         \A ip \in Ips : LET s == sessionId[ip] IN
           s # 0 /\ s \notin astray' /\ PuttingOut(posts, pc, req, ip, s) =>
             PuttingOut(posts', pc', req', ip, s)
  PROVE  Joint'
<1>1. ReportsFit' /\ ReportedOnce'
  BY FewerReports
<1>2. RowsFit'
  BY RowsKept
<1>3. OpenWhileReported'
  BY DEF Joint, OpenWhileReported
<1>4. RowPerSession'
  BY DEF Joint, RowPerSession
<1>5. ActiveIsCurrent'
  BY DEF Joint, ActiveIsCurrent, Enf!Active, Ending
<1> QED
  BY <1>1, <1>2, <1>3, <1>4, <1>5 DEF Joint

----------------------------------------------------------------------------
(* Steps of the portal the enforcer takes no part in *)

\* A thread that starts on a request was idle, and the others do not move.
LEMMA ServeKeeps ==
  ASSUME PortalInv, NEW p \in Procs, NEW l, NEW r, Serve(p, l, r), NEW ps, NEW qs, ps \subseteq qs
  PROVE  /\ \A s : Reporting(pc, req, s) => Reporting(pc', req', s)
         /\ \A ip, s : PuttingOut(ps, pc, req, ip, s) => PuttingOut(qs, pc', req', ip, s)
<1>1. pc[p] = "idle" /\ \A q \in Procs \ {p} : pc'[q] = pc[q] /\ req'[q] = req[q]
  BY DEF Serve, PortalInv, TablesOK
<1>2. ASSUME NEW s, Reporting(pc, req, s) PROVE Reporting(pc', req', s)
  <2>1. PICK q \in Procs : pc[q] = "created" /\ req[q].sid = s
    BY <1>2 DEF Reporting
  <2>2. q # p
    BY <1>1, <2>1
  <2>3. pc'[q] = "created" /\ req'[q].sid = s
    BY <1>1, <2>1, <2>2
  <2> QED
    BY <2>3 DEF Reporting
<1>3. ASSUME NEW ip, NEW s, NEW q \in Procs, pc[q] \in {"revoke", "forget"}, req[q].ip = ip
      PROVE  PuttingOut(qs, pc', req', ip, s)
  <2>1. q # p
    BY <1>1, <1>3
  <2>2. pc'[q] \in {"revoke", "forget"} /\ req'[q].ip = ip
    BY <1>1, <1>3, <2>1
  <2> QED
    BY <2>2 DEF PuttingOut
<1>4. ASSUME NEW ip, NEW s, PuttingOut(ps, pc, req, ip, s) PROVE PuttingOut(qs, pc', req', ip, s)
  BY <1>3, <1>4 DEF PuttingOut
<1> QED
  BY <1>2, <1>4

\* A handler leaves a report before the enforcer has answered only by giving up, and a
\* revocation only when it has removed the session.
LEMMA HandleKeeps ==
  ASSUME PortalInv, NEW p \in Procs, Handle(p), ~ RevokeForget(p)
  PROVE  /\ \A c \in calls : /\ c.call = "created" /\ Reporting(pc, req, c.sid)
                             /\ NotifyTimeout(p) => c.sid # req[p].sid
                             => Reporting(pc', req', c.sid)
         /\ \A s : \A ip \in Ips : sessionId[ip] # 0 /\ PuttingOut(posts, pc, req, ip, s) =>
              PuttingOut(posts, pc', req', ip, s)
<1>1. \A q \in Procs \ {p} : pc'[q] = pc[q] /\ req'[q] = req[q]
  BY HandleModest DEF Modest
<1>2. ASSUME NEW c \in calls, c.call = "created", Reporting(pc, req, c.sid),
             NotifyTimeout(p) => c.sid # req[p].sid
      PROVE  Reporting(pc', req', c.sid)
  <2>1. PICK q \in Procs : pc[q] = "created" /\ req[q].sid = c.sid
    BY <1>2 DEF Reporting
  <2>2. q # p
    <3> SUFFICES ASSUME q = p PROVE FALSE
      OBVIOUS
    <3>1. Pending(p)
      BY <1>2, <2>1 DEF Pending
    <3>2. NotifyReturn(p) \/ NotifyTimeout(p)
      BY <2>1 DEF Handle, Check, SetName, GrantAccept, GrantRefused, GrantRules, GrantFail, GrantRecord,
         RevokeNothing, RevokeRules, RevokeForget
    <3> QED
      BY <1>2, <2>1, <3>1, <3>2 DEF NotifyReturn
  <2>3. pc'[q] = "created" /\ req'[q].sid = c.sid
    BY <1>1, <2>1, <2>2
  <2> QED
    BY <2>3 DEF Reporting
<1>3. ASSUME NEW ip \in Ips, NEW s, sessionId[ip] # 0, NEW q \in Procs,
             pc[q] \in {"revoke", "forget"}, req[q].ip = ip
      PROVE  PuttingOut(posts, pc', req', ip, s)
  <2>1. CASE q # p
    <3>1. pc'[q] \in {"revoke", "forget"} /\ req'[q].ip = ip
      BY <1>1, <1>3, <2>1
    <3> QED
      BY <3>1 DEF PuttingOut
  <2>2. CASE q = p
    <3>1. authed[ip] # None
      BY <1>3 DEF PortalInv, SessionsOK, SessionPerDevice
    <3>2. RevokeRules(p)
      BY <1>3, <2>2, <3>1 DEF Handle, Check, SetName, GrantAccept, GrantRefused, GrantRules,
         GrantFail, GrantRecord, RevokeNothing, RevokeForget, NotifyReturn, NotifyTimeout, NotifyEnd
    <3>3. pc'[p] = "forget" /\ req'[p] = req[p]
      BY <3>2 DEF RevokeRules, Goto, PortalInv, TablesOK
    <3> QED
      BY <1>3, <2>2, <3>3 DEF PuttingOut
  <2> QED
    BY <2>1, <2>2
<1>4. ASSUME NEW ip \in Ips, NEW s, sessionId[ip] # 0, PuttingOut(posts, pc, req, ip, s)
      PROVE  PuttingOut(posts, pc', req', ip, s)
  BY <1>3, <1>4 DEF PuttingOut
<1> QED
  BY <1>2, <1>4

LEMMA AloneJoint ==
  ASSUME OneSignInPerIp, Ground, Joint, NEW p \in Procs, Alone(p), ~ RevokeForget(p)
  PROVE  Joint'
<1>1. Handle(p) /\ [Next]_vars
  BY HandlesG DEF HandleG, Next
<1>2. UNCHANGED <<session, posts, astray>>
  BY DEF Alone, enforcer
<1>3. UNCHANGED <<sessionId, issued, calls>>
  BY DEF Alone, Check, SetName, GrantAccept, GrantRefused, GrantRules, GrantFail, RevokeNothing,
         RevokeRules, NotifyReturn, NotifyEnd, tables, counters
<1>4. CASE ~ NotifyTimeout(p)
  BY <1>1, <1>2, <1>3, <1>4, HandleKeeps, QuietStep DEF Ground, NamesInv
<1>5. CASE NotifyTimeout(p)
  <2>1. pc[p] \in {"created", "ended"} /\ timeouts' = timeouts + 1 /\ timeouts \in Nat
    BY <1>5 DEF NotifyTimeout, NotifyEnd, Ground, NamesInv, PortalInv, TablesOK
  <2> QED
    BY <2>1 DEF Alone, Check, SetName, GrantAccept, GrantRefused, GrantRules, GrantFail,
         RevokeNothing, RevokeRules, NotifyReturn, RevokeForget, counters
<1> QED
  BY <1>4, <1>5

LEMMA GiveUpJoint ==
  ASSUME OneSignInPerIp, Ground, Joint, NEW p \in Procs, GiveUp(p)
  PROVE  Joint'
<1>1. Handle(p) /\ [Next]_vars
  BY HandlesG DEF HandleG, Next
<1>2. UNCHANGED <<session, posts>> /\ astray' = astray \union {req[p].sid}
  BY DEF GiveUp, enforcer
<1>3. UNCHANGED <<sessionId, issued, calls>> /\ pc[p] \in {"created", "ended"}
  BY DEF GiveUp, NotifyTimeout, NotifyEnd, tables
<1>4. ~ RevokeForget(p)
  BY <1>3 DEF RevokeForget
<1> QED
  BY <1>1, <1>2, <1>3, <1>4, HandleKeeps, QuietStep DEF Ground, NamesInv

LEMMA StartsJoint ==
  ASSUME OneSignInPerIp, Ground, Joint, [Next]_vars,
         \/ \E w \in Workers, ip \in Ips : Leave(w, ip) \/ \E n \in Names : SignInAs(w, ip, n)
         \/ Background
  PROVE  Joint'
<1>1. UNCHANGED <<session, posts, astray, sessionId, issued, calls>>
  BY DEF Leave, SignInAs, StartRevoke, StartAdmit, Background, ReaperStep, Sweep, Reap, Link, Appear,
         Vanish, enforcer, tables, counters
<1>2. (\E l, r : \E p \in Procs : Serve(p, l, r)) \/ UNCHANGED <<pc, req>>
  BY DEF Leave, SignInAs, StartRevoke, StartAdmit, Background, ReaperStep, Sweep, Reap, Link, Appear,
         Vanish, threads, Procs
<1>3. CASE \E l, r : \E p \in Procs : Serve(p, l, r)
  BY <1>1, <1>3, ServeKeeps, QuietStep DEF Ground, NamesInv
<1>4. CASE UNCHANGED <<pc, req>>
  BY <1>1, <1>4, QuietStep
<1> QED
  BY <1>2, <1>3, <1>4

----------------------------------------------------------------------------
(* What travels between the processes is taken, or lost *)

\* The enforcer's request becomes a revocation in the portal.
LEMMA TakePostJoint ==
  ASSUME OneSignInPerIp, Ground, Joint, [Next]_vars, NEW w \in Workers, NEW m \in posts, TakePost(w, m)
  PROVE  Joint'
<1>1. UNCHANGED <<session, astray, sessionId, issued, calls>> /\ posts' = posts \ {m} /\ w \in Procs
  BY DEF TakePost, StartRevoke, tables, counters, Procs
<1>2. Serve(w, "revoke", [NoRequest EXCEPT !.ip = m.ip])
  BY DEF TakePost, StartRevoke
<1>3. /\ \A s : Reporting(pc, req, s) => Reporting(pc', req', s)
      /\ \A ip, s : PuttingOut(posts', pc, req, ip, s) => PuttingOut(posts', pc', req', ip, s)
  BY <1>1, <1>2, ServeKeeps DEF Ground, NamesInv
<1>4. pc'[w] = "revoke" /\ req'[w].ip = m.ip
  BY <1>1, <1>2 DEF Serve, NoRequest, Ground, NamesInv, PortalInv, TablesOK
<1>5. ASSUME NEW ip, NEW s, PuttingOut(posts, pc, req, ip, s) PROVE PuttingOut(posts', pc', req', ip, s)
  <2>1. CASE m.ip = ip
    BY <1>1, <1>4, <2>1 DEF PuttingOut
  <2>2. CASE m.ip # ip
    <3>1. PuttingOut(posts', pc, req, ip, s)
      BY <1>1, <1>5, <2>2 DEF PuttingOut
    <3> QED
      BY <1>3, <3>1
  <2> QED
    BY <2>1, <2>2
<1> QED
  BY <1>1, <1>3, <1>5, QuietStep

LEMMA LosePostJoint ==
  ASSUME OneSignInPerIp, Ground, Joint, [Next]_vars, NEW m \in posts, LosePost(m)
  PROVE  Joint'
<1>1. /\ UNCHANGED <<session, sessionId, issued, calls, pc, req>>
      /\ posts' = posts \ {m} /\ astray' = astray \union {m.sid}
  BY DEF LosePost, vars, tables, counters, threads
<1>2. ASSUME NEW ip, NEW s, s \notin astray', PuttingOut(posts, pc, req, ip, s)
      PROVE  PuttingOut(posts', pc', req', ip, s)
  BY <1>1, <1>2 DEF PuttingOut
<1> QED
  BY <1>1, <1>2, QuietStep

LEMMA LoseCallJoint ==
  ASSUME OneSignInPerIp, Ground, Joint, [Next]_vars, NEW c \in calls, LoseCall(c)
  PROVE  Joint'
<1>1. /\ UNCHANGED <<session, posts, sessionId, issued, pc, req>>
      /\ calls' = calls \ {c} /\ astray' = astray \union {c.sid}
  BY DEF LoseCall, Deliver, enforcer, tables, counters, threads
<1>2. ReportsFit' /\ ReportedOnce'
  BY <1>1, FewerReports
<1>3. RowsFit'
  BY <1>1, RowsKept
<1>4. OpenWhileReported'
  BY <1>1 DEF Joint, OpenWhileReported
<1>5. \A s : s \notin astray' => (Opens(calls', s) <=> Opens(calls, s))
  BY <1>1 DEF Opens
<1>6. RowPerSession'
  BY <1>1, <1>5 DEF Joint, RowPerSession
<1>7. \A s : s \notin astray' => (Ending(s) => Ending(s)')
  BY <1>1 DEF Ending
<1>8. ActiveIsCurrent'
  BY <1>1, <1>7 DEF Joint, ActiveIsCurrent, Enf!Active
<1> QED
  BY <1>2, <1>3, <1>4, <1>6, <1>8 DEF Joint

\* Every session that lasts is one the enforcer is not told the end of.
LEMMA CrashJoint ==
  ASSUME OneSignInPerIp, Ground, Joint, [Next]_vars, Crash
  PROVE  Joint'
<1>1. /\ UNCHANGED <<session, posts, calls>>
      /\ \A ip \in Ips : sessionId'[ip] = 0
      /\ astray \subseteq astray'
      /\ \A ip \in Ips : authed[ip] # None => sessionId[ip] \in astray'
  BY DEF Crash, Restart, enforcer
<1>2. \A ip \in Ips : sessionId[ip] # 0 => sessionId[ip] \in astray'
  BY <1>1 DEF Ground, NamesInv, PortalInv, SessionsOK, SessionPerDevice
<1>3. ReportsFit' /\ ReportedOnce'
  BY <1>1, FewerReports
<1>4. RowsFit'
  BY <1>1, RowsKept
<1>5. OpenWhileReported'
  <2> SUFFICES ASSUME NEW c \in calls, c.call = "created", c.sid \notin astray' PROVE FALSE
    BY <1>1 DEF OpenWhileReported
  <2>1. sessionId[c.ip] = c.sid
    BY <1>1 DEF Joint, OpenWhileReported
  <2>2. c.ip \in Ips
    BY DEF Ground, NamesInv, PortalInv, TablesOK, Created, Ended
  <2>3. c.sid # 0
    BY DEF Joint, ReportsFit, CallFits
  <2> QED
    BY <1>2, <2>1, <2>2, <2>3
<1>6. RowPerSession'
  BY <1>1 DEF RowPerSession
<1>7. ActiveIsCurrent'
  <2> SUFFICES ASSUME NEW s \in Sids \ astray', Enf!Active(s) PROVE Ending(s)
    BY <1>1 DEF ActiveIsCurrent, Enf!Active, Ending
  <2>1. sessionId[session[s].ip] = s \/ Ending(s)
    BY <1>1 DEF Joint, ActiveIsCurrent
  <2>2. session[s].ip \in Ips
    BY DEF Enf!Active, Ground, EnforcerInv, Enf!TypeOK, Enf!SessionRows
  <2>3. s # 0
    BY DEF Sids
  <2> QED
    BY <1>2, <2>1, <2>2, <2>3
<1> QED
  BY <1>3, <1>4, <1>5, <1>6, <1>7 DEF Joint

----------------------------------------------------------------------------
(* A session opens, and ends *)

LEMMA ForgetJoint ==
  ASSUME OneSignInPerIp, Ground, Joint, [Next]_vars, NEW p \in Procs, RevokeForget(p),
         UNCHANGED <<enforcer, astray>>
  PROVE  Joint'
<1> DEFINE at == req[p].ip
           sid == sessionId[at]
<1>0. PortalInv /\ PortalInv'
  BY NextInv DEF Ground, NamesInv
<1>1. /\ pc[p] = "forget" /\ at \in Ips /\ authed[at] # None /\ lock = p
  BY <1>0, Inside DEF RevokeForget, Owning
<1>2. /\ sessionId' = [sessionId EXCEPT ![at] = 0]
      /\ calls' = calls \union {[call |-> "ended", sid |-> sid]}
      /\ UNCHANGED <<session, posts, astray, issued>>
      /\ \A q \in Procs \ {p} : pc'[q] = pc[q] /\ req'[q] = req[q]
  BY <1>0 DEF RevokeForget, PortalInv, TablesOK, enforcer, counters
<1>3. /\ sid # 0 /\ sid \in 1..issued /\ issued' = issued /\ issued \in Nat
      /\ sessionId \in [Ips -> Nat]
  BY <1>0, <1>1, <1>2 DEF PortalInv, SessionsOK, SessionPerDevice, IssuedOK, TablesOK
<1>4. \A ip \in Ips : ip # at => sessionId[ip] # sid
  BY <1>0, <1>1, <1>3 DEF PortalInv, SessionsOK, SessionPerDevice
<1> HIDE DEF sid, at
<1>5. ReportsFit'
  <2> SUFFICES ASSUME NEW c \in calls' PROVE CallFits(sessionId', ensName', issued', c)
    BY DEF ReportsFit
  <2>1. CASE c \in calls
    BY <2>1, FitsKept DEF Ground, Joint, ReportsFit
  <2>2. CASE c = [call |-> "ended", sid |-> sid]
    <3>1. c.call = "ended" /\ c.sid = sid
      BY <2>2
    <3>2. Gone(sessionId', sid)
      BY <1>1, <1>2, <1>3, <1>4 DEF Gone
    <3> QED
      BY <1>3, <3>1, <3>2 DEF CallFits
  <2> QED
    BY <1>2, <2>1, <2>2
<1>6. \A c : c.call = "created" => (c \in calls' <=> c \in calls)
  BY <1>2
<1>7. ReportedOnce'
  BY <1>2, <1>6 DEF Joint, ReportedOnce
<1>8. RowsFit'
  BY <1>2, RowsKept
<1>9. OpenWhileReported'
  <2> SUFFICES ASSUME NEW c \in calls, c.call = "created", c.sid \notin astray PROVE FALSE
    BY <1>2, <1>6 DEF OpenWhileReported
  <2>1. PICK q \in Procs : pc[q] = "created"
    BY DEF Joint, OpenWhileReported, Reporting
  <2> QED
    BY <1>0, <1>1, <2>1 DEF PortalInv, ThreadsOK, LockOK, Owning
<1>10. RowPerSession'
  <2> SUFFICES ASSUME NEW ip \in Ips, sessionId'[ip] # 0, sessionId'[ip] \notin astray,
                      ~ Opens(calls', sessionId'[ip])
               PROVE  /\ session[sessionId'[ip]] # None
                      /\ session[sessionId'[ip]].revoked =>
                           PuttingOut(posts', pc', req', ip, sessionId'[ip])
    BY <1>2 DEF RowPerSession
  <2>1. ip # at /\ sessionId'[ip] = sessionId[ip]
    BY <1>1, <1>2, <1>3
  <2>2. ~ Opens(calls, sessionId[ip])
    BY <1>6, <2>1 DEF Opens
  <2>3. /\ session[sessionId[ip]] # None
        /\ session[sessionId[ip]].revoked => PuttingOut(posts, pc, req, ip, sessionId[ip])
    BY <2>1, <2>2 DEF Joint, RowPerSession
  <2>4. \A q \in Procs : req[q].ip = ip => q # p
    BY <2>1 DEF at
  <2>5. PuttingOut(posts, pc, req, ip, sessionId[ip]) => PuttingOut(posts', pc', req', ip, sessionId[ip])
    BY <1>2, <2>4 DEF PuttingOut
  <2> QED
    BY <1>2, <2>1, <2>3, <2>5
<1>11. ActiveIsCurrent'
  <2> SUFFICES ASSUME NEW s \in Sids \ astray, Enf!Active(s)
               PROVE  sessionId'[session[s].ip] = s \/ \E c \in calls' : c.call = "ended" /\ c.sid = s
    BY <1>2 DEF ActiveIsCurrent, Enf!Active, Ending
  <2>1. session[s].ip \in Ips
    BY DEF Enf!Active, Ground, EnforcerInv, Enf!TypeOK, Enf!SessionRows
  <2>2. CASE \E c \in calls : c.call = "ended" /\ c.sid = s
    BY <1>2, <2>2
  <2>3. CASE sessionId[session[s].ip] = s /\ session[s].ip # at
    BY <1>2, <1>3, <2>1, <2>3
  <2>4. CASE sessionId[session[s].ip] = s /\ session[s].ip = at
    <3> DEFINE last == [call |-> "ended", sid |-> sid]
    <3>1. s = sid
      BY <2>4 DEF sid
    <3>2. last \in calls' /\ last.call = "ended" /\ last.sid = s
      BY <1>2, <3>1
    <3> HIDE DEF last
    <3> QED
      BY <3>2
  <2> QED
    BY <2>2, <2>3, <2>4 DEF Joint, ActiveIsCurrent, Ending
<1> QED
  BY <1>5, <1>7, <1>8, <1>9, <1>10, <1>11 DEF Joint

\* A session takes the next number, and is reported or goes astray.
LEMMA RecordShape ==
  ASSUME PortalInv, NEW p \in Procs, Record(p)
  PROVE  LET at == req[p].ip  n == issued + 1 IN
         /\ pc[p] = "record" /\ at \in Ips /\ lock = p
         /\ sessionId' = [sessionId EXCEPT ![at] = n]
         /\ UNCHANGED <<session, posts, ensName>> /\ issued' = n
         /\ \A q \in Procs \ {p} : pc'[q] = pc[q] /\ req'[q] = req[q]
         /\ \/ calls' = calls /\ astray' = astray \union {n}
            \/ /\ pc'[p] = "created" /\ req'[p].sid = n
               /\ astray' = IF calls' = calls THEN astray \union {n} ELSE astray
               /\ \E c \in Created : /\ c.sid = n /\ c.ip = at /\ c.name = req[p].name
                                     /\ calls' = calls \union {c}
<1> DEFINE at == req[p].ip
           tier == req[p].tier
           n == issued + 1
<1>1. PICK answer \in Enf!GroupByTier(tier), stamp \in Stamps : GrantRecord(p, answer, stamp)
  BY DEF Record
<1> DEFINE gid == IF groupCache[tier] # None THEN groupCache[tier] ELSE answer
           c == [call |-> "created", sid |-> n, ip |-> at, name |-> req[p].name,
                 user |-> req[p].user, tier |-> tier, group |-> gid, at |-> stamp]
<1>2. pc[p] = "record"
  BY <1>1 DEF GrantRecord
<1>3. /\ lock = p /\ req[p] \in Locals /\ at \in Ips /\ req[p].name \in Names /\ tier \in Tiers
  BY <1>2, Inside DEF Owning
<1>4. answer \in Groups \union {None}
  BY TierAnswer
<1>5. /\ sessionId' = [sessionId EXCEPT ![at] = n]
      /\ UNCHANGED <<session, posts, ensName>> /\ issued' = n
      /\ astray' = IF calls' = calls THEN astray \union {n} ELSE astray
  BY <1>1 DEF GrantRecord, NewSession, Record, enforcer
<1>6. \A q \in Procs \ {p} : pc'[q] = pc[q] /\ req'[q] = req[q]
  BY <1>1, <1>4, HandleModest DEF Handle, Modest
<1>7. gid \in Groups \union {None}
  BY <1>3, <1>4 DEF PortalInv, TablesOK
<1>8. CASE gid = None
  <2>1. calls' = calls
    BY <1>1, <1>8 DEF GrantRecord
  <2> QED
    BY <1>2, <1>3, <1>5, <1>6, <2>1
<1>9. CASE gid # None
  <2>1. /\ pc' = [pc EXCEPT ![p] = "created"]
        /\ req' = [req EXCEPT ![p].sid = n]
        /\ calls' = calls \union {c}
    BY <1>1, <1>9 DEF GrantRecord, NewSession
  <2>2. pc'[p] = "created" /\ req'[p].sid = n
    BY <1>3, <2>1 DEF PortalInv, TablesOK, Locals
  <2>3. n \in Nat
    BY DEF PortalInv, TablesOK
  <2>4. c \in Created
    BY <1>3, <1>7, <1>9, <2>3 DEF Created, Locals
  <2>5. c.sid = n /\ c.ip = at /\ c.name = req[p].name
    OBVIOUS
  <2> HIDE DEF c, gid
  <2> QED
    BY <1>2, <1>3, <1>5, <1>6, <2>1, <2>2, <2>4, <2>5
<1> QED
  BY <1>8, <1>9

LEMMA RecordJoint ==
  ASSUME OneSignInPerIp, Ground, Joint, [Next]_vars, NEW p \in Procs, Record(p)
  PROVE  Joint'
<1> DEFINE at == req[p].ip
           n == issued + 1
<1>0. PortalInv /\ PortalInv'
  BY NextInv DEF Ground, NamesInv
<1>1. /\ pc[p] = "record" /\ at \in Ips /\ lock = p
      /\ sessionId' = [sessionId EXCEPT ![at] = n]
      /\ UNCHANGED <<session, posts, ensName>> /\ issued' = n
      /\ \A q \in Procs \ {p} : pc'[q] = pc[q] /\ req'[q] = req[q]
  BY <1>0, RecordShape
<1>2. \/ calls' = calls /\ astray' = astray \union {n}
      \/ /\ pc'[p] = "created" /\ req'[p].sid = n
         /\ astray' = IF calls' = calls THEN astray \union {n} ELSE astray
         /\ \E c \in Created : c.sid = n /\ c.ip = at /\ c.name = req[p].name /\ calls' = calls \union {c}
  BY <1>0, RecordShape
<1>3. /\ sessionId \in [Ips -> Nat] /\ issued \in Nat /\ n \in Nat
      /\ \A ip \in Ips : sessionId[ip] <= issued
      /\ authed[at] = None /\ sessionId[at] = 0
  <2>1. authed[at] = None
    BY <1>0, <1>1 DEF PortalInv, ThreadsOK, AuthOK, AuthFits
  <2> QED
    BY <1>0, <1>1, <2>1 DEF PortalInv, TablesOK, SessionsOK, SessionPerDevice, IssuedOK
<1>4. ensName[at] \in {None, req[p].name}
  BY <1>1 DEF Ground, NamesKnown, Granting
<1>5. n \in Sids /\ session[n] = None
  <2>1. Bounded' /\ issued' \in Nat /\ NamesInv'
    BY <1>0, BoundedNext, NamesNext DEF Ground, PortalInv, TablesOK
  <2>2. Waiting' \subseteq Workers
    BY DEF Waiting, SignIns
  <2>3. Cardinality(Waiting') \in Nat
    BY <2>2, ThreadSets
  <2>4. n \in Sids
    BY <1>1, <1>3, <2>1, <2>3, PortalAssumption DEF Bounded, Sids
  <2>5. session[n] # None => n <= issued
    BY <2>4 DEF Joint, RowsFit, RowFits
  <2> QED
    BY <1>3, <2>4, <2>5
<1> HIDE DEF at, n
<1>6. \A c \in calls : c.sid \in 1..issued /\ c.sid # n
  BY <1>3 DEF n, Joint, ReportsFit, CallFits
<1>7. /\ astray \subseteq astray' /\ astray' \subseteq astray \union {n}
      /\ n \in astray' \/ Opens(calls', n)
  <2>1. CASE calls' = calls /\ astray' = astray \union {n}
    BY <2>1
  <2>2. CASE \E c \in Created : c.sid = n /\ calls' = calls \union {c}
    <3>1. PICK c \in Created : c.sid = n /\ calls' = calls \union {c}
      BY <2>2
    <3>2. c.call = "created" /\ c \in calls'
      BY <3>1 DEF Created
    <3> QED
      BY <1>2, <3>1, <3>2 DEF Opens
  <2> QED
    BY <1>2, <2>1, <2>2
<1>8. \A c \in calls' : c \in calls \/ /\ c \in Created /\ c.sid = n /\ c.ip = at /\ c.name = req[p].name
                                       /\ pc'[p] = "created" /\ req'[p].sid = n
  BY <1>2
<1>9. calls \subseteq calls'
  BY <1>2
<1>10. Stands(sessionId', ensName', n, at, req[p].name)
  <2> SUFFICES ASSUME NEW ip \in Ips
               PROVE  /\ sessionId'[ip] = n => ip = at /\ ensName[ip] \in {None, req[p].name}
                      /\ ip = at /\ sessionId'[ip] # 0 => n <= sessionId'[ip]
    BY <1>1 DEF Stands
  <2>1. CASE ip = at
    BY <1>1, <1>3, <1>4, <2>1
  <2>2. CASE ip # at
    <3>1. sessionId'[ip] = sessionId[ip] /\ sessionId[ip] \in Nat /\ sessionId[ip] <= issued
      BY <1>1, <1>3, <2>2
    <3>2. sessionId[ip] # n
      BY <1>3, <3>1 DEF n
    <3> QED
      BY <2>2, <3>1, <3>2
  <2> QED
    BY <2>1, <2>2
<1>11. ReportsFit'
  <2> SUFFICES ASSUME NEW c \in calls' PROVE CallFits(sessionId', ensName', issued', c)
    BY DEF ReportsFit
  <2>1. CASE c \in calls
    BY <2>1, FitsKept DEF Ground, Joint, ReportsFit
  <2>2. CASE c \in Created /\ c.sid = n /\ c.ip = at /\ c.name = req[p].name
    <3>1. c.call = "created" /\ c.sid \in 1..issued'
      BY <1>1, <1>3, <2>2 DEF Created, n
    <3> QED
      BY <1>10, <2>2, <3>1 DEF CallFits
  <2> QED
    BY <1>8, <2>1, <2>2
<1>12. ReportedOnce'
  <2> SUFFICES ASSUME NEW c \in calls', c.call = "created"
               PROVE  /\ session[c.sid] = None
                      /\ \A d \in calls' : d.call = "created" /\ d.sid = c.sid => d = c
    BY <1>1 DEF ReportedOnce
  <2>1. CASE c \in calls
    <3>1. /\ session[c.sid] = None /\ c.sid # n
          /\ \A d \in calls : d.call = "created" /\ d.sid = c.sid => d = c
      BY <1>6, <2>1 DEF Joint, ReportedOnce
    <3> QED
      BY <1>8, <3>1
  <2>2. CASE c \notin calls
    <3>1. c.sid = n /\ session[c.sid] = None
      BY <1>5, <1>8, <2>2
    <3>2. \A d \in calls' : d.sid = n => d = c
      BY <1>2, <1>6, <2>2
    <3> QED
      BY <3>1, <3>2
  <2> QED
    BY <2>1, <2>2
<1>13. RowsFit'
  BY <1>1, RowsKept
<1>14. OpenWhileReported'
  <2> SUFFICES ASSUME NEW c \in calls', c.call = "created", c.sid \notin astray'
               PROVE  sessionId'[c.ip] = c.sid /\ Reporting(pc', req', c.sid)
    BY DEF OpenWhileReported
  <2>1. CASE c \in calls
    <3>1. PICK q \in Procs : pc[q] = "created"
      BY <1>7, <2>1 DEF Joint, OpenWhileReported, Reporting
    <3> QED
      BY <1>0, <1>1, <3>1 DEF PortalInv, ThreadsOK, LockOK, Owning
  <2>2. CASE c.sid = n /\ c.ip = at /\ pc'[p] = "created" /\ req'[p].sid = n
    BY <1>1, <1>3, <2>2 DEF Reporting
  <2> QED
    BY <1>8, <2>1, <2>2
<1>15. RowPerSession'
  <2> SUFFICES ASSUME NEW ip \in Ips, sessionId'[ip] # 0, sessionId'[ip] \notin astray',
                      ~ Opens(calls', sessionId'[ip])
               PROVE  /\ session[sessionId'[ip]] # None
                      /\ session[sessionId'[ip]].revoked =>
                           PuttingOut(posts', pc', req', ip, sessionId'[ip])
    BY <1>1 DEF RowPerSession
  <2>1. ip # at
    BY <1>1, <1>3, <1>7
  <2>2. sessionId'[ip] = sessionId[ip]
    BY <1>1, <2>1
  <2>3. ~ Opens(calls, sessionId[ip]) /\ sessionId[ip] \notin astray
    BY <1>7, <1>9, <2>2 DEF Opens
  <2>4. /\ session[sessionId[ip]] # None
        /\ session[sessionId[ip]].revoked => PuttingOut(posts, pc, req, ip, sessionId[ip])
    BY <2>2, <2>3 DEF Joint, RowPerSession
  <2>5. PuttingOut(posts, pc, req, ip, sessionId[ip]) => PuttingOut(posts', pc', req', ip, sessionId[ip])
    BY <1>1 DEF PuttingOut
  <2> QED
    BY <1>1, <2>2, <2>4, <2>5
<1>16. ActiveIsCurrent'
  <2> SUFFICES ASSUME NEW s \in Sids \ astray', Enf!Active(s)
               PROVE  sessionId'[session[s].ip] = s \/ \E c \in calls' : c.call = "ended" /\ c.sid = s
    BY <1>1 DEF ActiveIsCurrent, Enf!Active, Ending
  <2>1. session[s].ip \in Ips /\ s # 0
    BY DEF Enf!Active, Ground, EnforcerInv, Enf!TypeOK, Enf!SessionRows, Sids
  <2>2. CASE \E c \in calls : c.call = "ended" /\ c.sid = s
    BY <1>9, <2>2
  <2>3. CASE sessionId[session[s].ip] = s
    BY <1>1, <1>3, <2>1, <2>3
  <2>4. s \notin astray
    BY <1>7
  <2> QED
    BY <2>2, <2>3, <2>4 DEF Joint, ActiveIsCurrent, Ending
<1> QED
  BY <1>11, <1>12, <1>13, <1>14, <1>15, <1>16 DEF Joint

----------------------------------------------------------------------------
(* What the enforcer does to its rows *)

\* A session the portal has is in the range of the enforcer's table.
LEMMA IdsBounded ==
  ASSUME Ground, NEW ip \in Ips, sessionId[ip] # 0
  PROVE  sessionId[ip] \in Sids
<1>1. Waiting \subseteq Workers
  BY DEF Waiting, SignIns
<1>2. Cardinality(Waiting) \in Nat
  BY <1>1, ThreadSets
<1>3. /\ sessionId[ip] \in Nat /\ sessionId[ip] <= issued /\ issued \in Nat /\ MaxSessions \in Nat
      /\ issued + Cardinality(Waiting) <= MaxSessions
  BY PortalAssumption
     DEF Ground, Bounded, NamesInv, PortalInv, TablesOK, SessionsOK, IssuedOK
<1> QED
  BY <1>2, <1>3 DEF Sids

\* session-created writes the row of the session, or fails and the session goes astray.
LEMMA OpenedJoint ==
  ASSUME OneSignInPerIp, Ground, Joint, [Next]_vars, NEW c \in calls, Receive(c), c.call = "created"
  PROVE  Joint'
<1> DEFINE row == Enf!SessionRow(c)
<1>1. /\ UNCHANGED <<posts, sessionId, ensName, issued, pc, req>> /\ calls' = calls \ {c}
      /\ Enf!SessionCreated(c)
      /\ astray' = IF session'[c.sid] = None THEN astray \union {c.sid} ELSE astray
  BY DEF Receive, Deliver, Enf!SessionCreated, tables, counters, threads
<1>2. session' = [session EXCEPT ![c.sid] = row] \/ session' = session
  BY <1>1 DEF Enf!SessionCreated
<1>3. c \in Created /\ row.ip = c.ip /\ row.name = c.name /\ ~ row.out /\ ~ row.revoked
  BY DEF Ground, NamesInv, PortalInv, TablesOK, Created, Ended, Enf!SessionRow
<1>4. c.sid \in Sids /\ c.sid \in 1..issued /\ session \in [Sids -> Enf!SessionRows \union {None}]
      /\ issued \in Nat
  <2>1. c.sid \in 1..issued /\ issued \in Nat /\ issued <= MaxSessions /\ MaxSessions \in Nat
    BY BoundedNext, PortalAssumption
       DEF Joint, ReportsFit, CallFits, Ground, NamesInv, PortalInv, TablesOK
  <2> QED
    BY <2>1 DEF Sids, Ground, EnforcerInv, Enf!TypeOK
<1>5. /\ session[c.sid] = None
      /\ Stands(sessionId, ensName, c.sid, c.ip, c.name)
      /\ \A d \in calls' : d.call = "created" => d.sid # c.sid
  BY <1>1 DEF Joint, ReportedOnce, ReportsFit, CallFits
<1> HIDE DEF row
<1>6. \A s \in Sids : s # c.sid => session'[s] = session[s]
  BY <1>2, <1>4
<1>7. session'[c.sid] = row \/ (session'[c.sid] = None /\ c.sid \in astray')
  <2>1. CASE session' = [session EXCEPT ![c.sid] = row]
    BY <1>4, <2>1
  <2>2. CASE session' = session
    <3>1. session'[c.sid] = None
      BY <1>5, <2>2
    <3>2. astray' = astray \union {c.sid}
      BY <1>1, <3>1
    <3> QED
      BY <3>1, <3>2
  <2> QED
    BY <1>2, <2>1, <2>2
<1>8. astray \subseteq astray' /\ calls' \subseteq calls
  BY <1>1
<1>9. ReportsFit' /\ ReportedOnce'
  <2>1. \A s \in Sids : session[s] = None => session'[s] = None \/ ~ Opens(calls', s)
    BY <1>5, <1>6 DEF Opens
  <2> QED
    BY <1>8, <2>1, FewerReports
<1>10. RowsFit'
  <2> SUFFICES ASSUME NEW s \in Sids, session'[s] # None
               PROVE  RowFits(sessionId, ensName, issued, s, session'[s])
    BY <1>1 DEF RowsFit
  <2>1. CASE s # c.sid
    BY <1>6, <2>1 DEF Joint, RowsFit
  <2>2. CASE s = c.sid
    BY <1>3, <1>4, <1>5, <1>7, <2>2 DEF RowFits
  <2> QED
    BY <2>1, <2>2
<1>11. OpenWhileReported'
  BY <1>1, <1>8 DEF Joint, OpenWhileReported
<1>12. RowPerSession'
  <2> SUFFICES ASSUME NEW ip \in Ips, NEW s, s = sessionId[ip], s # 0, s \notin astray',
                      ~ Opens(calls', s)
               PROVE  session'[s] # None /\ (session'[s].revoked => PuttingOut(posts, pc, req, ip, s))
    BY <1>1 DEF RowPerSession
  <2>1. CASE s = c.sid
    <3>1. session'[s] = row /\ row # None
      BY <1>1, <1>7, <2>1
    <3> QED
      BY <1>3, <3>1
  <2>2. CASE s # c.sid
    <3>1. ~ Opens(calls, s)
      BY <1>1, <2>2 DEF Opens
    <3>2. s \notin astray
      BY <1>8
    <3>3. session[s] # None /\ (session[s].revoked => PuttingOut(posts, pc, req, ip, s))
      BY <3>1, <3>2 DEF Joint, RowPerSession
    <3>4. s \in Sids
      BY IdsBounded
    <3> QED
      BY <1>6, <2>2, <3>3, <3>4
  <2> QED
    BY <2>1, <2>2
<1>13. ActiveIsCurrent'
  <2> SUFFICES ASSUME NEW s \in Sids \ astray', session'[s] # None, ~ session'[s].out, ~ session'[s].revoked
               PROVE  sessionId[session'[s].ip] = s \/ \E d \in calls' : d.call = "ended" /\ d.sid = s
    BY <1>1 DEF ActiveIsCurrent, Enf!Active, Ending
  <2>1. CASE s = c.sid
    <3>1. s \notin astray /\ sessionId[c.ip] = s
      BY <1>8, <2>1 DEF Joint, OpenWhileReported
    <3> QED
      BY <1>3, <1>7, <2>1, <3>1
  <2>2. CASE s # c.sid
    BY <1>1, <1>6, <1>8, <2>2 DEF Joint, ActiveIsCurrent, Enf!Active, Ending
  <2> QED
    BY <2>1, <2>2
<1> QED
  BY <1>9, <1>10, <1>11, <1>12, <1>13 DEF Joint

LEMMA EndedJoint ==
  ASSUME OneSignInPerIp, Ground, Joint, [Next]_vars, NEW c \in calls, Receive(c), c.call # "created"
  PROVE  Joint'
<1>1. /\ UNCHANGED <<posts, sessionId, ensName, issued, pc, req>> /\ calls' = calls \ {c}
      /\ session' = IF session[c.sid] # None THEN [session EXCEPT ![c.sid].out = TRUE] ELSE session
  BY DEF Receive, Deliver, Enf!SessionEnded, tables, counters, threads
<1>2. astray' = astray
  BY DEF Receive
<1>3. c.call = "ended" /\ Gone(sessionId, c.sid)
  BY DEF Ground, NamesInv, PortalInv, TablesOK, Created, Ended, Joint, ReportsFit, CallFits
<1>4. session \in [Sids -> Enf!SessionRows \union {None}]
  BY DEF Ground, EnforcerInv, Enf!TypeOK
<1>5. \A s \in Sids : s # c.sid => session'[s] = session[s]
  BY <1>1, <1>4
<1>6. \A s \in Sids :
        /\ session'[s] = None <=> session[s] = None
        /\ session[s] # None => /\ session'[s].ip = session[s].ip /\ session'[s].name = session[s].name
                                /\ s # c.sid \/ session'[s].out
  <2>1. \A s \in Sids : session[s] # None => session[s] \in Enf!SessionRows
    BY <1>4
  <2>2. ASSUME NEW s \in Sids, s = c.sid, session[s] # None
        PROVE  session'[s] = [session[s] EXCEPT !.out = TRUE]
    BY <1>1, <1>4, <2>2
  <2>3. ASSUME NEW s \in Sids, s = c.sid, session[s] # None
        PROVE  /\ session'[s] \in Enf!SessionRows /\ session'[s].out
               /\ session'[s].ip = session[s].ip /\ session'[s].name = session[s].name
    BY <2>1, <2>2, <2>3 DEF Enf!SessionRows
  <2>4. None \notin Enf!SessionRows
    BY GatewayAssumption
  <2>5. ASSUME session[c.sid] = None PROVE session' = session
    BY <1>1, <2>5
  <2> QED
    BY <1>5, <2>3, <2>4, <2>5
<1>7. ReportsFit' /\ ReportedOnce'
  <2>1. calls' \subseteq calls
    BY <1>1
  <2> QED
    BY <1>6, <2>1, FewerReports
<1>8. RowsFit'
  <2> SUFFICES ASSUME NEW s \in Sids, session'[s] # None
               PROVE  RowFits(sessionId, ensName, issued, s, session'[s])
    BY <1>1 DEF RowsFit
  <2>1. RowFits(sessionId, ensName, issued, s, session[s])
    BY <1>6 DEF Joint, RowsFit
  <2>2. CASE s = c.sid
    BY <1>3, <1>6, <2>1, <2>2 DEF RowFits
  <2>3. CASE s # c.sid
    BY <1>5, <2>1, <2>3
  <2> QED
    BY <2>2, <2>3
<1>9. OpenWhileReported'
  BY <1>1, <1>2 DEF Joint, OpenWhileReported
<1>10. \A s : Opens(calls', s) <=> Opens(calls, s)
  BY <1>1, <1>3 DEF Opens
<1>11. RowPerSession'
  <2> SUFFICES ASSUME NEW ip \in Ips, NEW s, s = sessionId[ip], s # 0, s \notin astray,
                      ~ Opens(calls, s)
               PROVE  session'[s] # None /\ (session'[s].revoked => PuttingOut(posts, pc, req, ip, s))
    BY <1>1, <1>2, <1>10 DEF RowPerSession
  <2>1. s \in Sids /\ s # c.sid
    BY <1>3, IdsBounded DEF Gone
  <2> QED
    BY <1>5, <2>1 DEF Joint, RowPerSession
<1>12. ActiveIsCurrent'
  <2> SUFFICES ASSUME NEW s \in Sids \ astray, session'[s] # None, ~ session'[s].out, ~ session'[s].revoked
               PROVE  sessionId[session'[s].ip] = s \/ \E d \in calls' : d.call = "ended" /\ d.sid = s
    BY <1>1, <1>2 DEF ActiveIsCurrent, Enf!Active, Ending
  <2>1. s # c.sid
    BY <1>6
  <2> QED
    BY <1>1, <1>5, <2>1 DEF Joint, ActiveIsCurrent, Enf!Active, Ending
<1> QED
  BY <1>7, <1>8, <1>9, <1>11, <1>12 DEF Joint

\* Of the changes administrators make, a revocation is the one to a session that runs.
LEMMA ManageRows ==
  ASSUME EnforcerInv, Enf!Manage
  PROVE  \/ UNCHANGED <<session, posts>>
         \/ \E s \in Sids : Enf!Active(s) /\ Enf!Revoke(s)
<1>1. CASE Enf!ManageGroups
  BY <1>1 DEF Enf!ManageGroups, Enf!DeleteGroup, Enf!CreateGroup, Enf!UpdateGroup
<1>2. CASE Enf!ManageUsers
  <2>1. PICK u \in Enf!Users : \/ Enf!RemoveMember(u) \/ Enf!RevokeUser(u)
                               \/ \E g \in Groups \union {None}, d \in BOOLEAN : Enf!UpdateUser(u, g, d)
                               \/ \E g \in Groups : u # Anon /\ Enf!CreateUser(u, g)
    BY <1>2 DEF Enf!ManageUsers
  <2>2. CASE Enf!RevokeUser(u)
    BY <2>2 DEF Enf!RevokeUser, Enf!Newest
  <2>3. CASE ~ Enf!RevokeUser(u)
    BY <2>1, <2>3 DEF Enf!RemoveMember, Enf!UpdateUser, Enf!CreateUser
  <2> QED
    BY <2>2, <2>3
<1>3. CASE \E s \in Sids : Enf!RevokeSession(s)
  BY <1>3 DEF Enf!RevokeSession
<1>4. CASE \E n \in Names, x \in Groups \union {Denied, NoGroup} : Enf!Publish(n, x)
  BY <1>4 DEF Enf!Publish
<1> QED
  BY <1>1, <1>2, <1>3, <1>4 DEF Enf!Manage

LEMMA AdminJoint ==
  ASSUME OneSignInPerIp, Ground, Joint, [Next]_vars, Admin
  PROVE  Joint'
<1>1. UNCHANGED <<calls, sessionId, ensName, issued, pc, req, astray>>
  BY DEF Admin, vars, tables, counters, threads
<1>2. CASE UNCHANGED <<session, posts>>
  BY <1>1, <1>2, QuietStep
<1>3. CASE \E s \in Sids : Enf!Active(s) /\ Enf!Revoke(s)
  <2>1. PICK s \in Sids : Enf!Active(s) /\ Enf!Revoke(s)
    BY <1>3
  <2>2. /\ session' = [session EXCEPT ![s].revoked = TRUE]
        /\ posts' = posts \union {[sid |-> s, ip |-> session[s].ip]}
        /\ session \in [Sids -> Enf!SessionRows \union {None}]
        /\ session[s] # None
    BY <2>1 DEF Enf!Revoke, Enf!Active, Ground, EnforcerInv, Enf!TypeOK
  <2>3. \A t \in Sids : t # s => session'[t] = session[t]
    BY <2>2
  <2>4. session'[s] = [session[s] EXCEPT !.revoked = TRUE] /\ session[s] \in Enf!SessionRows
    BY <2>2
  <2>5. session'[s] \in Enf!SessionRows /\ session'[s].ip = session[s].ip
        /\ session'[s].name = session[s].name /\ session'[s].out = session[s].out
        /\ session'[s].revoked
    BY <2>4 DEF Enf!SessionRows
  <2>6. session'[s] # None
    BY <2>5, GatewayAssumption
  <2>7. ReportsFit' /\ ReportedOnce'
    BY <1>1, <2>2, <2>3, FewerReports
  <2>8. RowsFit'
    BY <2>2, <2>3, <2>5, RowsKept
  <2>9. OpenWhileReported'
    BY <1>1 DEF Joint, OpenWhileReported
  <2>10. RowPerSession'
    <3> SUFFICES ASSUME NEW ip \in Ips, NEW t, t = sessionId[ip], t # 0, t \notin astray, ~ Opens(calls, t)
                 PROVE  session'[t] # None /\ (session'[t].revoked => PuttingOut(posts', pc, req, ip, t))
      BY <1>1 DEF RowPerSession
    <3>1. CASE t = s
      <4> DEFINE m == [sid |-> s, ip |-> session[s].ip]
      <4>1. Stands(sessionId, ensName, s, session[s].ip, session[s].name)
        BY <2>2 DEF Joint, RowsFit, RowFits
      <4>2. ip = session[s].ip
        BY <3>1, <4>1 DEF Stands
      <4>3. m \in posts' /\ m.ip = ip /\ m.sid = t
        BY <2>2, <3>1, <4>2
      <4> HIDE DEF m
      <4> QED
        BY <2>6, <3>1, <4>3 DEF PuttingOut
    <3>2. CASE t # s
      <4>1. t \in Sids
        BY IdsBounded
      <4>2. session[t] # None /\ (session[t].revoked => PuttingOut(posts, pc, req, ip, t))
        BY DEF Joint, RowPerSession
      <4>3. PuttingOut(posts, pc, req, ip, t) => PuttingOut(posts', pc, req, ip, t)
        BY <2>2 DEF PuttingOut
      <4> QED
        BY <2>3, <3>2, <4>1, <4>2, <4>3
    <3> QED
      BY <3>1, <3>2
  <2>11. ActiveIsCurrent'
    <3>1. \A t \in Sids : session'[t] # None /\ ~ session'[t].revoked => t # s
      BY <2>5
    <3> QED
      BY <1>1, <2>3, <3>1 DEF Joint, ActiveIsCurrent, Enf!Active, Ending
  <2> QED
    BY <2>7, <2>8, <2>9, <2>10, <2>11 DEF Joint
<1> QED
  BY <1>2, <1>3, ManageRows DEF Admin, Ground

\* The sessions of a deleted user go with it, and the portal is not told.
LEMMA DismissJoint ==
  ASSUME OneSignInPerIp, Ground, Joint, [Next]_vars, NEW u \in Enf!Users, Dismiss(u)
  PROVE  Joint'
<1>1. /\ UNCHANGED <<posts, calls, sessionId, ensName, issued, pc, req>>
      /\ session' = [s \in Sids |-> IF s \in Enf!SessionsOf(u) THEN None ELSE session[s]]
      /\ astray \subseteq astray' /\ Enf!SessionsOf(u) \subseteq astray'
  BY DEF Dismiss, Enf!DeleteUser, vars, tables, counters, threads
<1>2. \A s \in Sids : session'[s] = session[s] \/ (session'[s] = None /\ s \in astray')
  BY <1>1
<1>3. ReportsFit' /\ ReportedOnce'
  BY <1>1, <1>2, FewerReports
<1>4. RowsFit'
  BY <1>2, RowsKept
<1>5. OpenWhileReported'
  BY <1>1 DEF Joint, OpenWhileReported
<1>6. RowPerSession'
  <2> SUFFICES ASSUME NEW ip \in Ips, NEW t, t = sessionId[ip], t # 0, t \notin astray', ~ Opens(calls, t)
               PROVE  session'[t] # None /\ (session'[t].revoked => PuttingOut(posts, pc, req, ip, t))
    BY <1>1 DEF RowPerSession
  <2>1. t \in Sids
    BY IdsBounded
  <2>2. session'[t] = session[t] /\ t \notin astray
    BY <1>1, <1>2, <2>1
  <2> QED
    BY <2>2 DEF Joint, RowPerSession
<1>7. ActiveIsCurrent'
  BY <1>1, <1>2 DEF Joint, ActiveIsCurrent, Enf!Active, Ending
<1> QED
  BY <1>3, <1>4, <1>5, <1>6, <1>7 DEF Joint

----------------------------------------------------------------------------
(* What the two processes owe each other *)

GatewayInv == Ground /\ Joint

LEMMA GatewayInvInit == GatewayInit => GatewayInv
<1> SUFFICES ASSUME GatewayInit PROVE GatewayInv
  OBVIOUS
<1>1. NamesInv /\ EnforcerInv
  BY NamesInit, EnforcerInit DEF GatewayInit
<1>2. /\ \A p \in Procs : pc[p] = "idle" /\ req[p] = NoRequest
      /\ calls = {} /\ issued = 0 /\ session = [s \in Sids |-> None]
      /\ \A ip \in Ips : sessionId[ip] = 0
  BY DEF GatewayInit, Init, Enf!Init
<1>3. NamesKnown
  BY <1>2 DEF NamesKnown, Granting
<1>4. Waiting = {}
  BY <1>2 DEF Waiting, SignIns, NoRequest, Procs
<1>5. Bounded
  BY <1>2, <1>4, FS_EmptySet, PortalAssumption DEF Bounded
<1>6. Joint
  BY <1>2 DEF Joint, ReportsFit, ReportedOnce, RowsFit, OpenWhileReported, RowPerSession,
              ActiveIsCurrent, Enf!Active
<1> QED
  BY <1>1, <1>3, <1>5, <1>6 DEF GatewayInv, Ground

LEMMA JointNext ==
  ASSUME OneSignInPerIp, Ground, Joint, [Next]_vars, GatewayNext
  PROVE  Joint'
<1>1. ASSUME NEW p \in Procs, HandleG(p) PROVE Joint'
  <2>1. CASE Alone(p) /\ ~ RevokeForget(p)
    BY <2>1, AloneJoint
  <2>2. CASE Alone(p) /\ RevokeForget(p)
    BY <2>2, ForgetJoint DEF Alone
  <2> QED
    BY <1>1, <2>1, <2>2, RecordJoint, GiveUpJoint DEF HandleG
<1>2. ASSUME NEW c \in calls, Receive(c) PROVE Joint'
  BY <1>2, OpenedJoint, EndedJoint
<1>3. ASSUME NEW w \in Workers, NEW m \in posts, TakePost(w, m) PROVE Joint'
  BY <1>3, TakePostJoint
<1> QED
  BY <1>1, <1>2, <1>3, StartsJoint, LoseCallJoint, LosePostJoint, CrashJoint, AdminJoint, DismissJoint
     DEF GatewayNext, Receives, TakePosts

LEMMA GatewayInvNext ==
  ASSUME OneSignInPerIp
  PROVE  GatewayInv /\ [GatewayNext]_gatewayVars => GatewayInv'
<1> SUFFICES ASSUME GatewayInv, [GatewayNext]_gatewayVars PROVE GatewayInv'
  OBVIOUS
<1>1. [Next]_vars /\ EnforcerInv'
  BY BothNext DEF GatewayInv, Ground, NamesInv, BothInv
<1>2. Ground'
  BY <1>1, NamesNext, NamesKnownNext, BoundedNext DEF GatewayInv, Ground
<1>3. CASE GatewayNext
  BY <1>1, <1>2, <1>3, JointNext DEF GatewayInv
<1>4. CASE UNCHANGED gatewayVars
  <2>1. UNCHANGED <<sessionId, issued, session, calls, posts, pc, req, astray>>
    BY <1>4 DEF gatewayVars, vars, tables, counters, threads, enforcer
  <2>2. Joint'
    BY <1>1, <2>1, QuietStep DEF GatewayInv
  <2> QED
    BY <1>2, <2>2 DEF GatewayInv
<1> QED
  BY <1>3, <1>4

LEMMA CurrentRows == GatewayInv => CurrentIsActive
<1> SUFFICES ASSUME GatewayInv, NEW ip \in Ips, NEW s, s = sessionId[ip],
                    Admitted(ip), s \notin astray, ~ Opening(s)
             PROVE  /\ session[s] # None /\ ensName[ip] \in {None, session[s].name}
                    /\ Enf!Active(s) \/ BeingPutOut(ip)
  BY DEF CurrentIsActive
<1> USE DEF GatewayInv
<1>1. s # 0
  BY DEF Admitted, Ground, NamesInv, PortalInv, SessionsOK, SessionPerDevice
<1>2. s \in Sids
  BY <1>1, IdsBounded
<1>3. session[s] # None /\ (session[s].revoked => PuttingOut(posts, pc, req, ip, s))
  BY <1>1 DEF Joint, RowPerSession, Opens, Opening
<1>4. RowFits(sessionId, ensName, issued, s, session[s])
  BY <1>2, <1>3 DEF Joint, RowsFit
<1>5. ensName[ip] \in {None, session[s].name} /\ ~ session[s].out
  BY <1>4 DEF RowFits, Stands, Gone
<1>6. PuttingOut(posts, pc, req, ip, s) => BeingPutOut(ip)
  BY DEF PuttingOut, BeingPutOut, At, Admitted
<1> QED
  BY <1>3, <1>5, <1>6 DEF Enf!Active

LEMMA BilledRows == GatewayInv => BilledAsAdmitted
<1> SUFFICES ASSUME GatewayInv, NEW ip \in Ips, NEW s, s = sessionId[ip], Admitted(ip), Enf!Active(s),
                    NEW r \in Enf!Billed(ip)
             PROVE  \/ r = s /\ ensName[ip] \in {None, session[s].name}
                    \/ session[r].at >= session[s].at /\ (r \in astray \/ Ending(r))
  BY DEF BilledAsAdmitted
<1> USE DEF GatewayInv
<1>1. s # 0
  BY DEF Admitted, Ground, NamesInv, PortalInv, SessionsOK, SessionPerDevice
<1>2. s \in Sids
  BY <1>1, IdsBounded
<1>3. Stands(sessionId, ensName, s, session[s].ip, session[s].name)
  BY <1>2 DEF Joint, RowsFit, RowFits, Enf!Active
<1>4. ip = session[s].ip /\ ensName[ip] \in {None, session[s].name}
  BY <1>3 DEF Stands
<1>5. /\ r \in Sids /\ Enf!Active(r) /\ session[r].ip = ip
      /\ session[s].at <= session[r].at
  BY <1>2, <1>4 DEF Enf!Billed, Enf!Newest
<1>6. session[s].at \in Nat /\ session[r].at \in Nat
  BY <1>2, <1>5, PortalAssumption DEF Enf!Active, Ground, EnforcerInv, Enf!TypeOK, Enf!SessionRows
<1>7. r \in astray \/ Ending(r) \/ r = s
  BY <1>5 DEF Joint, ActiveIsCurrent
<1> QED
  BY <1>4, <1>5, <1>6, <1>7

LEMMA GatewayAlways ==
  ASSUME OneSignInPerIp
  PROVE  GatewaySpec => []GatewayInv
BY GatewayInvInit, GatewayInvNext, PTL DEF GatewaySpec

\* An active row of the enforcer is the current session of its address, or its end is on
\* the wire: for any number of devices, threads, members and groups, every session that
\* neither a crash, a timeout nor a lost call has taken from one of the two.
THEOREM NoGhosts ==
  ASSUME OneSignInPerIp
  PROVE  GatewaySpec => []ActiveIsCurrent
<1>1. GatewayInv => ActiveIsCurrent
  BY DEF GatewayInv, Joint
<1> QED
  BY <1>1, GatewayAlways, PTL

\* A device that is in has an active row in the name the portal shows, unless it is being
\* reported or put out.
THEOREM NoneUnknown ==
  ASSUME OneSignInPerIp
  PROVE  GatewaySpec => []CurrentIsActive
BY CurrentRows, GatewayAlways, PTL

\* The requests of a device are billed to its current session when the enforcer has an
\* active row of it, whatever was lost, late or forgotten before; or to one the enforcer
\* has not been told the end of, when the clock has not moved on from it.
THEOREM BilledRight ==
  ASSUME OneSignInPerIp
  PROVE  GatewaySpec => []BilledAsAdmitted
BY BilledRows, GatewayAlways, PTL
=============================================================================
