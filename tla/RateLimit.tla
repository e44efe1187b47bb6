----------------------------- MODULE RateLimit -----------------------------
(***************************************************************************)
(* The daily quotas of one API resource (proxy/rate_limit.py): a request   *)
(* is checked against the cap of its device, of its group and of its ENS   *)
(* name, one SELECT after the other, and then counted in all three in one  *)
(* transaction.  The enforcer serves every request in a thread of its own  *)
(* and nothing is locked between the checks and the count.                 *)
(***************************************************************************)
EXTENDS Integers, FiniteSets

CONSTANTS
  Ips, Groups, Names,
  Sessions,     \* what proxy() finds for a request: [ip, group, name]
  Rows,         \* limit rows an administrator may set: [device, group, ens]
  SeedLimits,   \* group -> its row of group_resource_limits, or None
  Amounts,      \* amounts of a quota adjustment
  Threads, None,
  Days,         \* bound: days 1..Days
  MaxRequests,  \* bound: requests
  MaxAdmin      \* bound: administrative changes

ASSUME RateLimitAssumption ==
  /\ Sessions \subseteq [ip : Ips, group : Groups, name : Names \union {None}]
  /\ Rows \subseteq [{"device", "group", "ens"} -> Nat \union {None}]
  /\ SeedLimits \in [Groups -> Rows \union {None}]
  /\ IsFiniteSet(Threads) /\ Threads # {}
  /\ Amounts \subseteq Int
  /\ Days \in Nat \ {0} /\ {MaxRequests, MaxAdmin} \subseteq Nat
  /\ None \notin Rows \union Names \union Nat

VARIABLES
  today,                        \* _today()
  limits,                       \* group_resource_limits of the resource
  deviceUsed, groupUsed, ensUsed,  \* the three counter tables, per date
  adjDevice, adjGroup,          \* sums of quota_adjustments, per date
  pc, req,                      \* per thread: where it is, what it works for
  requests, admin,
  lowered,                      \* history: scopes in which a cap was lowered
  resets                        \* history: dates of which a counter was reset

counters == <<deviceUsed, groupUsed, ensUsed>>
threads == <<pc, req>>
history == <<lowered, resets>>
vars == <<today, limits, counters, adjDevice, adjGroup, threads, requests, admin, history>>

Dates == 1..Days
NoRequest == [ip |-> None, group |-> None, name |-> None, date |-> 0, row |-> None]

\* _get_adjustment: a negative total takes nothing away.
Topup(total) == IF total > 0 THEN total ELSE 0

\* A mistake: one too many.
UnderOffByOne(cap, topup, used) == cap = None \/ used <= cap + topup
\* Whether a configured cap still admits one more.
Under(cap, topup, used) == cap = None \/ used < cap + topup

\* A thread's locals end with its request.
Goto(t, l) ==
  /\ pc' = [pc EXCEPT ![t] = l]
  /\ req' = IF l = "idle" THEN [req EXCEPT ![t] = NoRequest] ELSE req

Step(t, here, ok, next) ==
  /\ pc[t] = here
  /\ Goto(t, IF ok THEN next ELSE "idle")
  /\ UNCHANGED <<today, limits, counters, adjDevice, adjGroup, requests, admin, history>>

\* "a configured per-ENS cap must always apply": no name, no grant.
Identified(row, name) == row.ens = None \/ name # None

\* proxy() finds the session, the date and the limits are read, once.
Begin(t, s) ==
  /\ pc[t] = "idle"
  /\ requests < MaxRequests
  /\ requests' = requests + 1
  /\ IF limits[s.group] # None /\ Identified(limits[s.group], s.name)
       THEN /\ pc' = [pc EXCEPT ![t] = "device"]
            /\ req' = [req EXCEPT ![t] = [ip |-> s.ip, group |-> s.group, name |-> s.name,
                                          date |-> today, row |-> limits[s.group]]]
       ELSE UNCHANGED threads
  /\ UNCHANGED <<today, limits, counters, adjDevice, adjGroup, admin, history>>

\* A mistake: the device is counted before the other caps are checked.
CheckDeviceCounting(t) ==
  LET r == req[t] IN
    /\ pc[t] = "device"
    /\ Under(r.row.device, Topup(adjDevice[r.date][r.ip]), deviceUsed[r.date][r.ip])
    /\ Goto(t, "group")
    /\ deviceUsed' = [deviceUsed EXCEPT ![r.date][r.ip] = @ + 1]
    /\ UNCHANGED <<today, limits, groupUsed, ensUsed, adjDevice, adjGroup, requests, admin, history>>

CheckDevice(t) ==
  LET r == req[t] IN
    Step(t, "device",
         Under(r.row.device, Topup(adjDevice[r.date][r.ip]), deviceUsed[r.date][r.ip]), "group")

CheckGroup(t) ==
  LET r == req[t] IN
    Step(t, "group",
         Under(r.row.group, Topup(adjGroup[r.date][r.group]), groupUsed[r.date][r.group]), "ens")

CheckEns(t) ==
  LET r == req[t] IN
    Step(t, "ens", r.row.ens = None \/ Under(r.row.ens, 0, ensUsed[r.date][r.name]), "bump")

\* The three upserts of the allowed request, one transaction.
Bump(t) ==
  /\ pc[t] = "bump"
  /\ LET r == req[t] IN
       /\ deviceUsed' = [deviceUsed EXCEPT ![r.date][r.ip] = @ + 1]
       /\ groupUsed' = [groupUsed EXCEPT ![r.date][r.group] = @ + 1]
       /\ ensUsed' = IF r.name # None THEN [ensUsed EXCEPT ![r.date][r.name] = @ + 1] ELSE ensUsed
  /\ Goto(t, "idle")
  /\ UNCHANGED <<today, limits, adjDevice, adjGroup, requests, admin, history>>

----------------------------------------------------------------------------
(* Administrators, and midnight *)

Administer == admin < MaxAdmin /\ admin' = admin + 1

LowerCap(old, new) == new # None /\ (old = None \/ new < old)

\* PUT and DELETE .../limits/<rid>.
SetLimit(g, row) ==
  /\ Administer
  /\ limits[g] # row
  /\ limits' = [limits EXCEPT ![g] = row]
  /\ lowered' = IF row = None THEN lowered ELSE
                IF limits[g] = None THEN lowered \union {"device", "group", "ens"} ELSE
                lowered \union {k \in {"device", "group", "ens"} : LowerCap(limits[g][k], row[k])}
  /\ UNCHANGED <<today, counters, adjDevice, adjGroup, threads, requests, resets>>

\* POST /admin/quota/adjust, for today or the date it names; deleting an
\* adjustment is one of the opposite amount.
AdjustDevice(d, ip, amount) ==
  /\ Administer
  /\ adjDevice' = [adjDevice EXCEPT ![d][ip] = @ + amount]
  /\ lowered' = IF amount < 0 THEN lowered \union {"device"} ELSE lowered
  /\ UNCHANGED <<today, limits, counters, adjGroup, threads, requests, resets>>

AdjustGroup(d, g, amount) ==
  /\ Administer
  /\ adjGroup' = [adjGroup EXCEPT ![d][g] = @ + amount]
  /\ lowered' = IF amount < 0 THEN lowered \union {"group"} ELSE lowered
  /\ UNCHANGED <<today, limits, counters, adjDevice, threads, requests, resets>>

\* POST /admin/quota/reset deletes the counters of one scope and date.
ResetDevice(d, ip) ==
  /\ Administer
  /\ deviceUsed[d][ip] > 0
  /\ deviceUsed' = [deviceUsed EXCEPT ![d][ip] = 0]
  /\ resets' = resets \union {d}
  /\ UNCHANGED <<today, limits, groupUsed, ensUsed, adjDevice, adjGroup, threads, requests, lowered>>

ResetGroup(d, g) ==
  /\ Administer
  /\ groupUsed[d][g] > 0
  /\ groupUsed' = [groupUsed EXCEPT ![d][g] = 0]
  /\ resets' = resets \union {d}
  /\ UNCHANGED <<today, limits, deviceUsed, ensUsed, adjDevice, adjGroup, threads, requests, lowered>>

Midnight ==
  /\ today < Days
  /\ today' = today + 1
  /\ UNCHANGED <<limits, counters, adjDevice, adjGroup, threads, requests, admin, history>>

Init ==
  /\ today = 1
  /\ limits = SeedLimits
  /\ deviceUsed = [d \in Dates |-> [ip \in Ips |-> 0]]
  /\ groupUsed = [d \in Dates |-> [g \in Groups |-> 0]]
  /\ ensUsed = [d \in Dates |-> [n \in Names |-> 0]]
  /\ adjDevice = [d \in Dates |-> [ip \in Ips |-> 0]]
  /\ adjGroup = [d \in Dates |-> [g \in Groups |-> 0]]
  /\ pc = [t \in Threads |-> "idle"]
  /\ req = [t \in Threads |-> NoRequest]
  /\ requests = 0
  /\ admin = 0
  /\ lowered = {}
  /\ resets = {}

Check(t) == CheckDevice(t) \/ CheckGroup(t) \/ CheckEns(t)

Next ==
  \/ \E t \in Threads : Check(t) \/ Bump(t) \/ \E s \in Sessions : Begin(t, s)
  \/ \E g \in Groups, row \in Rows \union {None} : SetLimit(g, row)
  \/ \E d \in Dates, g \in Groups :
       ResetGroup(d, g) \/ \E a \in Amounts : AdjustGroup(d, g, a)
  \/ \E d \in Dates, ip \in Ips :
       ResetDevice(d, ip) \/ \E a \in Amounts : AdjustDevice(d, ip, a)
  \/ Midnight

Spec == Init /\ [][Next]_vars

----------------------------------------------------------------------------

TypeOK ==
  /\ today \in Dates
  /\ limits \in [Groups -> Rows \union {None}]
  /\ deviceUsed \in [Dates -> [Ips -> Nat]]
  /\ groupUsed \in [Dates -> [Groups -> Nat]]
  /\ ensUsed \in [Dates -> [Names -> Nat]]
  /\ adjDevice \in [Dates -> [Ips -> Int]]
  /\ adjGroup \in [Dates -> [Groups -> Int]]
  /\ pc \in [Threads -> {"idle", "device", "group", "ens", "bump"}]
  /\ req \in [Threads -> [ip : Ips \union {None}, group : Groups \union {None},
                          name : Names \union {None}, date : 0..Days, row : Rows \union {None}]]
  /\ \A t \in Threads : pc[t] = "idle" <=> req[t] = NoRequest

\* The checks and the count are not one step: with n threads a cap can be
\* overrun, by n - 1 at the most, for as long as nobody lowers it; and the count
\* of a request begun before midnight is bounded in the day it was checked for.
Within(cap, topup, used) == cap = None \/ used <= cap + topup + Cardinality(Threads) - 1

\* The devices and the names that have their sessions in this group alone.
DevicesOf(g) == {ip \in Ips : {s.group : s \in {z \in Sessions : z.ip = ip}} = {g}}
NamesOf(g) == {n \in Names : {s.group : s \in {z \in Sessions : z.name = n}} = {g}}

OverrunBounded ==
  \A g \in Groups, d \in Dates :
    limits[g] # None =>
      /\ "group" \notin lowered => Within(limits[g].group, Topup(adjGroup[d][g]), groupUsed[d][g])
      /\ "device" \notin lowered =>
           \A ip \in DevicesOf(g) : Within(limits[g].device, Topup(adjDevice[d][ip]), deviceUsed[d][ip])
      /\ "ens" \notin lowered =>
           \A n \in NamesOf(g) : Within(limits[g].ens, 0, ensUsed[d][n])

\* What a counter table counts, and its sum.
Counted(f) == UNION {{x} \X (1..f[x]) : x \in DOMAIN f}
Total(f) == Cardinality(Counted(f))

\* "no scope's counter advances on a request another scope blocks": a request is
\* counted in its device, its group and its name, or nowhere.
CountsAgree ==
  \A d \in Dates \ resets :
    /\ Total(deviceUsed[d]) = Total(groupUsed[d])
    /\ Total(ensUsed[d]) <= Total(groupUsed[d])
=============================================================================
