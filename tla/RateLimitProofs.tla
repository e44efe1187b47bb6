-------------------------- MODULE RateLimitProofs --------------------------
(* Theorems about RateLimit, for any devices, groups, names, threads, rows and bounds. *)
EXTENDS RateLimit, FiniteSetTheorems, TLAPS

----------------------------------------------------------------------------
(* The invariant *)

\* A request works for a session and with a row of limits that lets it in.
ServedOK ==
  \A t \in Threads : pc[t] # "idle" =>
    /\ [ip |-> req[t].ip, group |-> req[t].group, name |-> req[t].name] \in Sessions
    /\ req[t].row \in Rows /\ Identified(req[t].row, req[t].name)
    /\ req[t].date \in Dates

\* A cap, and one that is at least as narrow.
Covers(cap, old) == cap = None \/ (old # None /\ old <= cap)

\* Unless a cap was lowered, a request in flight has read one that is no wider than today's.
CapsOK ==
  \A t \in Threads : pc[t] # "idle" /\ limits[req[t].group] # None =>
    LET now == limits[req[t].group]  old == req[t].row IN
      /\ "device" \notin lowered => Covers(now.device, old.device)
      /\ "group" \notin lowered => Covers(now.group, old.group)
      /\ "ens" \notin lowered => Covers(now.ens, old.ens)

\* The requests that have passed the check of a scope and are not counted in it yet.
PastDevice(ip, d) ==
  {t \in Threads : pc[t] \in {"group", "ens", "bump"} /\ req[t].ip = ip /\ req[t].date = d}
PastGroup(g, d) ==
  {t \in Threads : pc[t] \in {"ens", "bump"} /\ req[t].group = g /\ req[t].date = d}
PastEns(n, d) == {t \in Threads : pc[t] = "bump" /\ req[t].name = n /\ req[t].date = d}

\* What is counted and what is about to be stays below the cap and one per thread.
Room(cap, topup, used, past) ==
  cap = None \/ used + Cardinality(past) <= cap + topup + Cardinality(Threads) - 1

DeviceRoom ==
  \A g \in Groups, d \in Dates, ip \in Ips :
    limits[g] # None /\ "device" \notin lowered /\ ip \in DevicesOf(g) =>
      Room(limits[g].device, Topup(adjDevice[d][ip]), deviceUsed[d][ip], PastDevice(ip, d))
GroupRoom ==
  \A g \in Groups, d \in Dates :
    limits[g] # None /\ "group" \notin lowered =>
      Room(limits[g].group, Topup(adjGroup[d][g]), groupUsed[d][g], PastGroup(g, d))
EnsRoom ==
  \A g \in Groups, d \in Dates, n \in Names :
    limits[g] # None /\ "ens" \notin lowered /\ n \in NamesOf(g) =>
      Room(limits[g].ens, 0, ensUsed[d][n], PastEns(n, d))

QuotaInv == TypeOK /\ ServedOK /\ CapsOK /\ DeviceRoom /\ GroupRoom /\ EnsRoom

----------------------------------------------------------------------------
(* Room under a cap *)

Caps == Nat \union {None}

LEMMA PastFinite ==
  ASSUME NEW past \in SUBSET Threads
  PROVE  /\ IsFiniteSet(past) /\ Cardinality(past) \in Nat
         /\ Cardinality(past) <= Cardinality(Threads) /\ Cardinality(Threads) \in Nat
BY RateLimitAssumption, FS_Subset, FS_CardinalityType

\* Whoever passes the check of a scope finds one under the cap, or under a wider one than it read.
LEMMA RoomEnter ==
  ASSUME NEW cap \in Caps, NEW old \in Caps, NEW topup \in Nat, NEW used \in Nat,
         Covers(cap, old), Under(old, topup, used), NEW past \in SUBSET Threads
  PROVE  Room(cap, topup, used, past)
BY PastFinite, RateLimitAssumption DEF Caps, Covers, Under, Room

LEMMA RoomLeave ==
  ASSUME NEW cap \in Caps, NEW topup \in Nat, NEW used \in Nat, NEW past \in SUBSET Threads,
         Room(cap, topup, used, past),
         NEW wide \in Caps, NEW more \in Nat, NEW fewer \in Nat, NEW less \in SUBSET past,
         Covers(wide, cap), topup <= more, fewer <= used
  PROVE  Room(wide, more, fewer, less)
<1>1. Cardinality(less) <= Cardinality(past) /\ Cardinality(less) \in Nat /\ Cardinality(past) \in Nat
  BY PastFinite, FS_Subset
<1>2. Cardinality(Threads) \in Nat
  BY PastFinite
<1> QED
  BY <1>1, <1>2, RateLimitAssumption DEF Caps, Covers, Room

\* Counting makes what was about to be counted counted.
LEMMA RoomCount ==
  ASSUME NEW cap \in Caps, NEW topup \in Nat, NEW used \in Nat, NEW past \in SUBSET Threads,
         NEW t \in past, Room(cap, topup, used, past)
  PROVE  Room(cap, topup, used + 1, past \ {t})
<1>1. Cardinality(past \ {t}) = Cardinality(past) - 1 /\ Cardinality(past) \in Nat
  BY PastFinite, FS_RemoveElement
<1>2. Cardinality(Threads) \in Nat
  BY PastFinite
<1> QED
  BY <1>1, <1>2, RateLimitAssumption DEF Caps, Room

\* Nothing is counted and nobody is in flight at first, and there is a thread.
LEMMA RoomAtFirst ==
  ASSUME NEW cap \in Caps, NEW topup \in Nat
  PROVE  Room(cap, topup, 0, {})
<1>1. Cardinality(Threads) \in Nat \ {0}
  BY PastFinite, RateLimitAssumption, FS_EmptySet
<1>2. Cardinality({}) = 0
  BY FS_EmptySet
<1> QED
  BY <1>1, <1>2, RateLimitAssumption DEF Caps, Room

----------------------------------------------------------------------------
(* What a step may do to a scope *)

\* Caps are as wide as before, or the scope is marked.
CapsStay ==
  /\ lowered \subseteq lowered'
  /\ \A g \in Groups : limits'[g] # None =>
       \/ {"device", "group", "ens"} \subseteq lowered'
       \/ /\ limits[g] # None
          /\ "device" \notin lowered' => Covers(limits'[g].device, limits[g].device)
          /\ "group" \notin lowered' => Covers(limits'[g].group, limits[g].group)
          /\ "ens" \notin lowered' => Covers(limits'[g].ens, limits[g].ens)

\* No thread gets there but from there, and on the same request.
Stays(labels) ==
  \A t \in Threads : pc'[t] \in labels => pc[t] \in labels /\ req'[t] = req[t]

DevicesStay ==
  \A d \in Dates, ip \in Ips :
    /\ "device" \notin lowered' => Topup(adjDevice[d][ip]) <= Topup(adjDevice'[d][ip])
    /\ deviceUsed'[d][ip] <= deviceUsed[d][ip]
GroupsStay ==
  \A d \in Dates, g \in Groups :
    /\ "group" \notin lowered' => Topup(adjGroup[d][g]) <= Topup(adjGroup'[d][g])
    /\ groupUsed'[d][g] <= groupUsed[d][g]
EnsStay == \A d \in Dates, n \in Names : ensUsed'[d][n] <= ensUsed[d][n]

LEMMA CapTypes ==
  ASSUME NEW row \in Rows
  PROVE  row.device \in Caps /\ row.group \in Caps /\ row.ens \in Caps
BY RateLimitAssumption DEF Caps

LEMMA TopupType == ASSUME NEW i \in Int PROVE Topup(i) \in Nat
BY DEF Topup

LEMMA DeviceKept ==
  ASSUME TypeOK, TypeOK', DeviceRoom, CapsStay, DevicesStay, Stays({"group", "ens", "bump"})
  PROVE  DeviceRoom'
<1> SUFFICES ASSUME NEW g \in Groups, NEW d \in Dates, NEW ip \in Ips,
                    limits'[g] # None, "device" \notin lowered', ip \in DevicesOf(g)
             PROVE  Room(limits'[g].device, Topup(adjDevice'[d][ip]), deviceUsed'[d][ip], PastDevice(ip, d)')
  BY DEF DeviceRoom, DevicesOf
<1>1. /\ limits[g] # None /\ "device" \notin lowered
      /\ Covers(limits'[g].device, limits[g].device)
  BY DEF CapsStay
<1>2. limits[g] \in Rows /\ limits'[g] \in Rows
  BY <1>1 DEF TypeOK
<1>3. limits[g].device \in Caps /\ limits'[g].device \in Caps
  BY <1>2, CapTypes
<1>4. /\ Topup(adjDevice[d][ip]) \in Nat /\ Topup(adjDevice'[d][ip]) \in Nat
      /\ deviceUsed[d][ip] \in Nat /\ deviceUsed'[d][ip] \in Nat
  BY TopupType DEF TypeOK
<1>5. PastDevice(ip, d)' \subseteq PastDevice(ip, d) /\ PastDevice(ip, d) \subseteq Threads
  BY DEF Stays, PastDevice
<1>6. Room(limits[g].device, Topup(adjDevice[d][ip]), deviceUsed[d][ip], PastDevice(ip, d))
  BY <1>1 DEF DeviceRoom
<1>7. Topup(adjDevice[d][ip]) <= Topup(adjDevice'[d][ip]) /\ deviceUsed'[d][ip] <= deviceUsed[d][ip]
  BY DEF DevicesStay
<1> HIDE DEF PastDevice
<1> QED
  BY <1>1, <1>3, <1>4, <1>5, <1>6, <1>7, RoomLeave

LEMMA GroupKept ==
  ASSUME TypeOK, TypeOK', GroupRoom, CapsStay, GroupsStay, Stays({"ens", "bump"})
  PROVE  GroupRoom'
<1> SUFFICES ASSUME NEW g \in Groups, NEW d \in Dates, limits'[g] # None, "group" \notin lowered'
             PROVE  Room(limits'[g].group, Topup(adjGroup'[d][g]), groupUsed'[d][g], PastGroup(g, d)')
  BY DEF GroupRoom
<1>1. /\ limits[g] # None /\ "group" \notin lowered
      /\ Covers(limits'[g].group, limits[g].group)
  BY DEF CapsStay
<1>2. limits[g] \in Rows /\ limits'[g] \in Rows
  BY <1>1 DEF TypeOK
<1>3. limits[g].group \in Caps /\ limits'[g].group \in Caps
  BY <1>2, CapTypes
<1>4. /\ Topup(adjGroup[d][g]) \in Nat /\ Topup(adjGroup'[d][g]) \in Nat
      /\ groupUsed[d][g] \in Nat /\ groupUsed'[d][g] \in Nat
  BY TopupType DEF TypeOK
<1>5. PastGroup(g, d)' \subseteq PastGroup(g, d) /\ PastGroup(g, d) \subseteq Threads
  BY DEF Stays, PastGroup
<1>6. Room(limits[g].group, Topup(adjGroup[d][g]), groupUsed[d][g], PastGroup(g, d))
  BY <1>1 DEF GroupRoom
<1>7. Topup(adjGroup[d][g]) <= Topup(adjGroup'[d][g]) /\ groupUsed'[d][g] <= groupUsed[d][g]
  BY DEF GroupsStay
<1> QED
  BY <1>1, <1>3, <1>4, <1>5, <1>6, <1>7, RoomLeave

LEMMA EnsKept ==
  ASSUME TypeOK, TypeOK', EnsRoom, CapsStay, EnsStay, Stays({"bump"})
  PROVE  EnsRoom'
<1> SUFFICES ASSUME NEW g \in Groups, NEW d \in Dates, NEW n \in Names,
                    limits'[g] # None, "ens" \notin lowered', n \in NamesOf(g)
             PROVE  Room(limits'[g].ens, 0, ensUsed'[d][n], PastEns(n, d)')
  BY DEF EnsRoom, NamesOf
<1>1. /\ limits[g] # None /\ "ens" \notin lowered
      /\ Covers(limits'[g].ens, limits[g].ens)
  BY DEF CapsStay
<1>2. limits[g] \in Rows /\ limits'[g] \in Rows
  BY <1>1 DEF TypeOK
<1>3. limits[g].ens \in Caps /\ limits'[g].ens \in Caps
  BY <1>2, CapTypes
<1>4. ensUsed[d][n] \in Nat /\ ensUsed'[d][n] \in Nat
  BY DEF TypeOK
<1>5. PastEns(n, d)' \subseteq PastEns(n, d) /\ PastEns(n, d) \subseteq Threads
  BY DEF Stays, PastEns
<1>6. Room(limits[g].ens, 0, ensUsed[d][n], PastEns(n, d))
  BY <1>1 DEF EnsRoom
<1>7. ensUsed'[d][n] <= ensUsed[d][n]
  BY DEF EnsStay
<1> QED
  BY <1>1, <1>3, <1>4, <1>5, <1>6, <1>7, RoomLeave

----------------------------------------------------------------------------
(* The steps of a request *)

LEMMA QuotaInit == Init => QuotaInv
<1> SUFFICES ASSUME Init PROVE QuotaInv
  OBVIOUS
<1>1. TypeOK
  BY RateLimitAssumption DEF Init, TypeOK, Dates, NoRequest
<1>2. ServedOK /\ CapsOK
  BY DEF Init, ServedOK, CapsOK
<1>3. Topup(0) = 0
  BY DEF Topup
<1>4. ASSUME NEW g \in Groups, limits[g] # None
      PROVE  limits[g].device \in Caps /\ limits[g].group \in Caps /\ limits[g].ens \in Caps
  BY <1>1, <1>4, CapTypes DEF TypeOK
<1>5. ASSUME NEW g, NEW d, NEW ip, NEW n
      PROVE  PastDevice(ip, d) = {} /\ PastGroup(g, d) = {} /\ PastEns(n, d) = {}
  BY DEF Init, PastDevice, PastGroup, PastEns
<1>6. DeviceRoom
  BY <1>3, <1>4, <1>5, RoomAtFirst DEF DeviceRoom, Init
<1>7. GroupRoom
  BY <1>3, <1>4, <1>5, RoomAtFirst DEF GroupRoom, Init
<1>8. EnsRoom
  BY <1>4, <1>5, RoomAtFirst DEF EnsRoom, Init
<1> QED
  BY <1>1, <1>2, <1>6, <1>7, <1>8 DEF QuotaInv

Labels == {"idle", "device", "group", "ens", "bump"}

\* A thread goes on, or is done with its request.
LEMMA GoesOn ==
  ASSUME QuotaInv, NEW t \in Threads, pc[t] # "idle", NEW l \in Labels, Goto(t, l),
         UNCHANGED <<limits, lowered>>,
         today' \in Dates, limits' \in [Groups -> Rows \union {None}],
         deviceUsed' \in [Dates -> [Ips -> Nat]], groupUsed' \in [Dates -> [Groups -> Nat]],
         ensUsed' \in [Dates -> [Names -> Nat]], UNCHANGED <<adjDevice, adjGroup>>
  PROVE  /\ TypeOK' /\ ServedOK' /\ CapsOK' /\ CapsStay
         /\ pc'[t] = l /\ (l # "idle" => req'[t] = req[t])
         /\ \A s \in Threads \ {t} : pc'[s] = pc[s] /\ req'[s] = req[s]
<1> USE DEF QuotaInv
<1>1. pc \in [Threads -> Labels] /\ DOMAIN req = Threads
  BY DEF TypeOK, Labels
<1>2. pc' \in [Threads -> Labels] /\ pc'[t] = l /\ \A s \in Threads \ {t} : pc'[s] = pc[s]
  BY <1>1 DEF Goto
<1>3. /\ l # "idle" => req'[t] = req[t]
      /\ l = "idle" => req'[t] = NoRequest
      /\ \A s \in Threads \ {t} : req'[s] = req[s]
  BY <1>1 DEF Goto
<1>4. req' \in [Threads -> [ip : Ips \union {None}, group : Groups \union {None},
                            name : Names \union {None}, date : 0..Days, row : Rows \union {None}]]
  <2>1. NoRequest \in [ip : Ips \union {None}, group : Groups \union {None},
                       name : Names \union {None}, date : 0..Days, row : Rows \union {None}]
    BY RateLimitAssumption DEF NoRequest
  <2> QED
    BY <2>1 DEF Goto, TypeOK
<1>5. TypeOK'
  BY <1>2, <1>3, <1>4 DEF TypeOK, Labels
<1>6. ServedOK'
  BY <1>2, <1>3 DEF ServedOK
<1>7. CapsOK'
  BY <1>2, <1>3 DEF CapsOK
<1>8. CapsStay
  <2>1. ASSUME NEW g \in Groups, limits[g] # None
        PROVE  /\ Covers(limits[g].device, limits[g].device) /\ Covers(limits[g].group, limits[g].group)
               /\ Covers(limits[g].ens, limits[g].ens)
    BY <2>1, CapTypes DEF TypeOK, Covers, Caps
  <2> QED
    BY <2>1 DEF CapsStay
<1> QED
  BY <1>2, <1>3, <1>5, <1>6, <1>7, <1>8

\* A request in flight knows of nothing but its session's; what it read is a cap.
LEMMA InFlight ==
  ASSUME QuotaInv, NEW t \in Threads, pc[t] # "idle"
  PROVE  /\ req[t].ip \in Ips /\ req[t].group \in Groups /\ req[t].name \in Names \union {None}
         /\ req[t].date \in Dates
         /\ \A g \in Groups : req[t].ip \in DevicesOf(g) => req[t].group = g
         /\ \A g \in Groups : req[t].name \in NamesOf(g) => req[t].group = g
         /\ req[t].row.device \in Caps /\ req[t].row.group \in Caps /\ req[t].row.ens \in Caps
         /\ req[t].row.ens # None => req[t].name # None
<1> DEFINE s == [ip |-> req[t].ip, group |-> req[t].group, name |-> req[t].name]
<1>1. s \in Sessions /\ req[t].row \in Rows /\ Identified(req[t].row, req[t].name) /\ req[t].date \in Dates
  BY DEF QuotaInv, ServedOK
<1>2. s \in [ip : Ips, group : Groups, name : Names \union {None}]
  BY <1>1, RateLimitAssumption
<1>3. s.ip = req[t].ip /\ s.group = req[t].group /\ s.name = req[t].name
  OBVIOUS
<1> HIDE DEF s
<1>4. s.ip \in Ips /\ s.group \in Groups /\ s.name \in Names \union {None}
  BY <1>2
<1>5. ASSUME NEW g \in Groups PROVE /\ s.ip \in DevicesOf(g) => s.group = g
                                    /\ s.name \in NamesOf(g) => s.group = g
  BY <1>1 DEF DevicesOf, NamesOf
<1> QED
  BY <1>1, <1>3, <1>4, <1>5, CapTypes DEF Identified

LEMMA UsedStays ==
  ASSUME TypeOK, UNCHANGED <<counters, adjDevice, adjGroup>>
  PROVE  DevicesStay /\ GroupsStay /\ EnsStay
<1>1. ASSUME NEW d \in Dates, NEW ip \in Ips
      PROVE  Topup(adjDevice[d][ip]) \in Nat /\ deviceUsed[d][ip] \in Nat
  BY TopupType DEF TypeOK
<1>2. ASSUME NEW d \in Dates, NEW g \in Groups
      PROVE  Topup(adjGroup[d][g]) \in Nat /\ groupUsed[d][g] \in Nat
  BY TopupType DEF TypeOK
<1>3. ASSUME NEW d \in Dates, NEW n \in Names PROVE ensUsed[d][n] \in Nat
  BY DEF TypeOK
<1> QED
  BY <1>1, <1>2, <1>3 DEF DevicesStay, GroupsStay, EnsStay, counters

LEMMA CheckDeviceInv ==
  ASSUME QuotaInv, NEW t \in Threads, CheckDevice(t)
  PROVE  QuotaInv'
<1> DEFINE r == req[t]
           ok == Under(r.row.device, Topup(adjDevice[r.date][r.ip]), deviceUsed[r.date][r.ip])
           l == IF ok THEN "group" ELSE "idle"
<1>1. /\ pc[t] = "device" /\ Goto(t, l) /\ l \in Labels
      /\ UNCHANGED <<today, limits, counters, adjDevice, adjGroup, requests, admin, history>>
  BY DEF CheckDevice, Step, Labels
<1>2. /\ TypeOK' /\ ServedOK' /\ CapsOK' /\ CapsStay
      /\ pc'[t] = l /\ (l # "idle" => req'[t] = req[t])
      /\ \A s \in Threads \ {t} : pc'[s] = pc[s] /\ req'[s] = req[s]
  <2>1. UNCHANGED <<limits, lowered, deviceUsed, groupUsed, ensUsed, adjDevice, adjGroup, today>>
    BY <1>1 DEF counters, history
  <2> HIDE DEF l
  <2> QED
    BY <1>1, <2>1, GoesOn DEF QuotaInv, TypeOK
<1>3. DevicesStay /\ GroupsStay /\ EnsStay
  BY <1>1, UsedStays DEF QuotaInv
<1>4. GroupRoom'
  BY <1>1, <1>2, <1>3, GroupKept DEF QuotaInv, Stays
<1>5. EnsRoom'
  BY <1>1, <1>2, <1>3, EnsKept DEF QuotaInv, Stays
<1>6. DeviceRoom'
  <2>1. CASE ~ok
    BY <1>1, <1>2, <1>3, <2>1, DeviceKept DEF QuotaInv, Stays
  <2>2. CASE ok
    <3> SUFFICES ASSUME NEW g \in Groups, NEW d \in Dates, NEW ip \in Ips,
                        limits[g] # None, "device" \notin lowered, ip \in DevicesOf(g)
                 PROVE  Room(limits[g].device, Topup(adjDevice[d][ip]), deviceUsed[d][ip], PastDevice(ip, d)')
      BY <1>1 DEF DeviceRoom, DevicesOf, counters, history
    <3>1. limits[g].device \in Caps /\ Topup(adjDevice[d][ip]) \in Nat /\ deviceUsed[d][ip] \in Nat
      BY CapTypes, TopupType DEF QuotaInv, TypeOK
    <3>2. PastDevice(ip, d)' \subseteq Threads /\ PastDevice(ip, d) \subseteq Threads
      BY DEF PastDevice
    <3>3. CASE r.ip = ip /\ r.date = d
      <4>1. r.group = g /\ r.row.device \in Caps
        BY <1>1, <3>3, InFlight
      <4>2. Covers(limits[g].device, r.row.device)
        BY <1>1, <4>1 DEF QuotaInv, CapsOK
      <4> QED
        BY <2>2, <3>1, <3>2, <3>3, <4>1, <4>2, RoomEnter
    <3>4. CASE ~(r.ip = ip /\ r.date = d)
      <4>1. PastDevice(ip, d)' \subseteq PastDevice(ip, d)
        BY <1>2, <2>2, <3>4 DEF PastDevice
      <4>2. Room(limits[g].device, Topup(adjDevice[d][ip]), deviceUsed[d][ip], PastDevice(ip, d))
        BY DEF QuotaInv, DeviceRoom
      <4>3. Covers(limits[g].device, limits[g].device)
        BY <3>1 DEF Covers, Caps
      <4> HIDE DEF PastDevice
      <4> QED
        BY <3>1, <3>2, <4>1, <4>2, <4>3, RoomLeave
    <3> QED
      BY <3>3, <3>4
  <2> QED
    BY <2>1, <2>2
<1> QED
  BY <1>2, <1>4, <1>5, <1>6 DEF QuotaInv

LEMMA CheckGroupInv ==
  ASSUME QuotaInv, NEW t \in Threads, CheckGroup(t)
  PROVE  QuotaInv'
<1> DEFINE r == req[t]
           ok == Under(r.row.group, Topup(adjGroup[r.date][r.group]), groupUsed[r.date][r.group])
           l == IF ok THEN "ens" ELSE "idle"
<1>1. /\ pc[t] = "group" /\ Goto(t, l) /\ l \in Labels
      /\ UNCHANGED <<today, limits, counters, adjDevice, adjGroup, requests, admin, history>>
  BY DEF CheckGroup, Step, Labels
<1>2. /\ TypeOK' /\ ServedOK' /\ CapsOK' /\ CapsStay
      /\ pc'[t] = l /\ (l # "idle" => req'[t] = req[t])
      /\ \A s \in Threads \ {t} : pc'[s] = pc[s] /\ req'[s] = req[s]
  <2>1. UNCHANGED <<limits, lowered, deviceUsed, groupUsed, ensUsed, adjDevice, adjGroup, today>>
    BY <1>1 DEF counters, history
  <2> HIDE DEF l
  <2> QED
    BY <1>1, <2>1, GoesOn DEF QuotaInv, TypeOK
<1>3. DevicesStay /\ GroupsStay /\ EnsStay
  BY <1>1, UsedStays DEF QuotaInv
<1>4. DeviceRoom'
  BY <1>1, <1>2, <1>3, DeviceKept DEF QuotaInv, Stays
<1>5. EnsRoom'
  BY <1>1, <1>2, <1>3, EnsKept DEF QuotaInv, Stays
<1>6. GroupRoom'
  <2>1. CASE ~ok
    BY <1>1, <1>2, <1>3, <2>1, GroupKept DEF QuotaInv, Stays
  <2>2. CASE ok
    <3> SUFFICES ASSUME NEW g \in Groups, NEW d \in Dates, limits[g] # None, "group" \notin lowered
                 PROVE  Room(limits[g].group, Topup(adjGroup[d][g]), groupUsed[d][g], PastGroup(g, d)')
      BY <1>1 DEF GroupRoom, counters, history
    <3>1. limits[g].group \in Caps /\ Topup(adjGroup[d][g]) \in Nat /\ groupUsed[d][g] \in Nat
      BY CapTypes, TopupType DEF QuotaInv, TypeOK
    <3>2. PastGroup(g, d)' \subseteq Threads /\ PastGroup(g, d) \subseteq Threads
      BY DEF PastGroup
    <3>3. CASE r.group = g /\ r.date = d
      <4>1. r.row.group \in Caps
        BY <1>1, InFlight
      <4>2. Covers(limits[g].group, r.row.group)
        BY <1>1, <3>3 DEF QuotaInv, CapsOK
      <4> QED
        BY <2>2, <3>1, <3>2, <3>3, <4>1, <4>2, RoomEnter
    <3>4. CASE ~(r.group = g /\ r.date = d)
      <4>1. PastGroup(g, d)' \subseteq PastGroup(g, d)
        BY <1>2, <2>2, <3>4 DEF PastGroup
      <4>2. Room(limits[g].group, Topup(adjGroup[d][g]), groupUsed[d][g], PastGroup(g, d))
        BY DEF QuotaInv, GroupRoom
      <4>3. Covers(limits[g].group, limits[g].group)
        BY <3>1 DEF Covers, Caps
      <4> HIDE DEF PastGroup
      <4> QED
        BY <3>1, <3>2, <4>1, <4>2, <4>3, RoomLeave
    <3> QED
      BY <3>3, <3>4
  <2> QED
    BY <2>1, <2>2
<1> QED
  BY <1>2, <1>4, <1>5, <1>6 DEF QuotaInv

LEMMA CheckEnsInv ==
  ASSUME QuotaInv, NEW t \in Threads, CheckEns(t)
  PROVE  QuotaInv'
<1> DEFINE r == req[t]
           ok == r.row.ens = None \/ Under(r.row.ens, 0, ensUsed[r.date][r.name])
           l == IF ok THEN "bump" ELSE "idle"
<1>1. /\ pc[t] = "ens" /\ Goto(t, l) /\ l \in Labels
      /\ UNCHANGED <<today, limits, counters, adjDevice, adjGroup, requests, admin, history>>
  BY DEF CheckEns, Step, Labels
<1>2. /\ TypeOK' /\ ServedOK' /\ CapsOK' /\ CapsStay
      /\ pc'[t] = l /\ (l # "idle" => req'[t] = req[t])
      /\ \A s \in Threads \ {t} : pc'[s] = pc[s] /\ req'[s] = req[s]
  <2>1. UNCHANGED <<limits, lowered, deviceUsed, groupUsed, ensUsed, adjDevice, adjGroup, today>>
    BY <1>1 DEF counters, history
  <2> HIDE DEF l
  <2> QED
    BY <1>1, <2>1, GoesOn DEF QuotaInv, TypeOK
<1>3. DevicesStay /\ GroupsStay /\ EnsStay
  BY <1>1, UsedStays DEF QuotaInv
<1>4. DeviceRoom'
  BY <1>1, <1>2, <1>3, DeviceKept DEF QuotaInv, Stays
<1>5. GroupRoom'
  BY <1>1, <1>2, <1>3, GroupKept DEF QuotaInv, Stays
<1>6. EnsRoom'
  <2>1. CASE ~ok
    BY <1>1, <1>2, <1>3, <2>1, EnsKept DEF QuotaInv, Stays
  <2>2. CASE ok
    <3> SUFFICES ASSUME NEW g \in Groups, NEW d \in Dates, NEW n \in Names,
                        limits[g] # None, "ens" \notin lowered, n \in NamesOf(g)
                 PROVE  Room(limits[g].ens, 0, ensUsed[d][n], PastEns(n, d)')
      BY <1>1 DEF EnsRoom, NamesOf, counters, history
    <3>1. limits[g].ens \in Caps /\ ensUsed[d][n] \in Nat
      BY CapTypes DEF QuotaInv, TypeOK
    <3>2. PastEns(n, d)' \subseteq Threads /\ PastEns(n, d) \subseteq Threads
      BY DEF PastEns
    <3>3. CASE r.name = n /\ r.date = d
      <4>1. r.group = g /\ r.row.ens \in Caps
        BY <1>1, <3>3, InFlight
      <4>2. Covers(limits[g].ens, r.row.ens)
        BY <1>1, <4>1 DEF QuotaInv, CapsOK
      <4>3. Under(r.row.ens, 0, ensUsed[d][n])
        BY <2>2, <3>3 DEF Under
      <4> QED
        BY <3>1, <3>2, <4>1, <4>2, <4>3, RoomEnter
    <3>4. CASE ~(r.name = n /\ r.date = d)
      <4>1. PastEns(n, d)' \subseteq PastEns(n, d)
        BY <1>2, <2>2, <3>4 DEF PastEns
      <4>2. Room(limits[g].ens, 0, ensUsed[d][n], PastEns(n, d))
        BY DEF QuotaInv, EnsRoom
      <4>3. Covers(limits[g].ens, limits[g].ens)
        BY <3>1 DEF Covers, Caps
      <4> HIDE DEF PastEns
      <4> QED
        BY <3>1, <3>2, <4>1, <4>2, <4>3, RoomLeave
    <3> QED
      BY <3>3, <3>4
  <2> QED
    BY <2>1, <2>2
<1> QED
  BY <1>2, <1>4, <1>5, <1>6 DEF QuotaInv

\* A request that is counted leaves each scope as one that was about to be.
LEMMA BumpInv ==
  ASSUME QuotaInv, NEW t \in Threads, Bump(t)
  PROVE  QuotaInv'
<1> DEFINE r == req[t]
<1>1. /\ pc[t] = "bump" /\ Goto(t, "idle") /\ UNCHANGED <<today, limits, adjDevice, adjGroup, lowered>>
  BY DEF Bump, history
<1>2. /\ r.ip \in Ips /\ r.group \in Groups /\ r.name \in Names \union {None} /\ r.date \in Dates
  BY <1>1, InFlight
<1>3. /\ deviceUsed \in [Dates -> [Ips -> Nat]] /\ groupUsed \in [Dates -> [Groups -> Nat]]
      /\ ensUsed \in [Dates -> [Names -> Nat]]
      /\ deviceUsed' = [deviceUsed EXCEPT ![r.date][r.ip] = @ + 1]
      /\ groupUsed' = [groupUsed EXCEPT ![r.date][r.group] = @ + 1]
      /\ ensUsed' = IF r.name # None THEN [ensUsed EXCEPT ![r.date][r.name] = @ + 1] ELSE ensUsed
  BY DEF QuotaInv, TypeOK, Bump
<1> HIDE DEF r
<1>4. /\ deviceUsed' \in [Dates -> [Ips -> Nat]]
      /\ \A d \in Dates, ip \in Ips :
           deviceUsed'[d][ip] = IF r.ip = ip /\ r.date = d THEN deviceUsed[d][ip] + 1 ELSE deviceUsed[d][ip]
  BY <1>2, <1>3
<1>5. /\ groupUsed' \in [Dates -> [Groups -> Nat]]
      /\ \A d \in Dates, g \in Groups :
           groupUsed'[d][g] = IF r.group = g /\ r.date = d THEN groupUsed[d][g] + 1 ELSE groupUsed[d][g]
  BY <1>2, <1>3
<1>6. /\ ensUsed' \in [Dates -> [Names -> Nat]]
      /\ \A d \in Dates, n \in Names :
           ensUsed'[d][n] = IF r.name = n /\ r.date = d THEN ensUsed[d][n] + 1 ELSE ensUsed[d][n]
  BY <1>2, <1>3, RateLimitAssumption
<1>7. /\ TypeOK' /\ ServedOK' /\ CapsOK' /\ CapsStay /\ pc'[t] = "idle"
      /\ \A s \in Threads \ {t} : pc'[s] = pc[s] /\ req'[s] = req[s]
  BY <1>1, <1>4, <1>5, <1>6, GoesOn DEF QuotaInv, TypeOK, Labels
<1>8. ASSUME NEW g \in Groups, limits[g] # None
      PROVE  limits[g].device \in Caps /\ limits[g].group \in Caps /\ limits[g].ens \in Caps
  BY <1>8, CapTypes DEF QuotaInv, TypeOK
<1>9. DeviceRoom'
  <2> SUFFICES ASSUME NEW g \in Groups, NEW d \in Dates, NEW ip \in Ips,
                      limits[g] # None, "device" \notin lowered, ip \in DevicesOf(g)
               PROVE  Room(limits[g].device, Topup(adjDevice[d][ip]), deviceUsed'[d][ip], PastDevice(ip, d)')
    BY <1>1 DEF DeviceRoom, DevicesOf
  <2> DEFINE past == PastDevice(ip, d)
  <2>1. /\ past \subseteq Threads /\ PastDevice(ip, d)' = past \ {t}
        /\ t \in past <=> r.ip = ip /\ r.date = d
    BY <1>1, <1>7 DEF PastDevice, r
  <2>2. Room(limits[g].device, Topup(adjDevice[d][ip]), deviceUsed[d][ip], past)
    BY DEF QuotaInv, DeviceRoom
  <2>3. Topup(adjDevice[d][ip]) \in Nat /\ deviceUsed[d][ip] \in Nat
    BY TopupType DEF QuotaInv, TypeOK
  <2> HIDE DEF past
  <2>4. CASE t \in past
    <3>1. limits[g].device \in Caps /\ past \in SUBSET Threads
      BY <1>8, <2>1
    <3>2. Room(limits[g].device, Topup(adjDevice[d][ip]), deviceUsed[d][ip] + 1, past \ {t})
      BY <2>2, <2>3, <2>4, <3>1, RoomCount
    <3>3. deviceUsed'[d][ip] = deviceUsed[d][ip] + 1
      BY <1>4, <2>1, <2>4
    <3> QED
      BY <2>1, <3>2, <3>3
  <2>5. CASE t \notin past
    <3>1. past \ {t} = past
      BY <2>5
    <3> QED
      BY <1>4, <2>1, <2>2, <2>5, <3>1
  <2> QED
    BY <2>4, <2>5
<1>10. GroupRoom'
  <2> SUFFICES ASSUME NEW g \in Groups, NEW d \in Dates, limits[g] # None, "group" \notin lowered
               PROVE  Room(limits[g].group, Topup(adjGroup[d][g]), groupUsed'[d][g], PastGroup(g, d)')
    BY <1>1 DEF GroupRoom
  <2> DEFINE past == PastGroup(g, d)
  <2>1. /\ past \subseteq Threads /\ PastGroup(g, d)' = past \ {t}
        /\ t \in past <=> r.group = g /\ r.date = d
    BY <1>1, <1>7 DEF PastGroup, r
  <2>2. Room(limits[g].group, Topup(adjGroup[d][g]), groupUsed[d][g], past)
    BY DEF QuotaInv, GroupRoom
  <2>3. Topup(adjGroup[d][g]) \in Nat /\ groupUsed[d][g] \in Nat
    BY TopupType DEF QuotaInv, TypeOK
  <2> HIDE DEF past
  <2>4. CASE t \in past
    <3>1. limits[g].group \in Caps /\ past \in SUBSET Threads
      BY <1>8, <2>1
    <3>2. Room(limits[g].group, Topup(adjGroup[d][g]), groupUsed[d][g] + 1, past \ {t})
      BY <2>2, <2>3, <2>4, <3>1, RoomCount
    <3>3. groupUsed'[d][g] = groupUsed[d][g] + 1
      BY <1>5, <2>1, <2>4
    <3> QED
      BY <2>1, <3>2, <3>3
  <2>5. CASE t \notin past
    <3>1. past \ {t} = past
      BY <2>5
    <3> QED
      BY <1>5, <2>1, <2>2, <2>5, <3>1
  <2> QED
    BY <2>4, <2>5
<1>11. EnsRoom'
  <2> SUFFICES ASSUME NEW g \in Groups, NEW d \in Dates, NEW n \in Names,
                      limits[g] # None, "ens" \notin lowered, n \in NamesOf(g)
               PROVE  Room(limits[g].ens, 0, ensUsed'[d][n], PastEns(n, d)')
    BY <1>1 DEF EnsRoom, NamesOf
  <2> DEFINE past == PastEns(n, d)
  <2>1. /\ past \subseteq Threads /\ PastEns(n, d)' = past \ {t}
        /\ t \in past <=> r.name = n /\ r.date = d
    BY <1>1, <1>7 DEF PastEns, r
  <2>2. Room(limits[g].ens, 0, ensUsed[d][n], past)
    BY DEF QuotaInv, EnsRoom
  <2>3. ensUsed[d][n] \in Nat
    BY DEF QuotaInv, TypeOK
  <2> HIDE DEF past
  <2>4. CASE t \in past
    <3>1. limits[g].ens \in Caps /\ past \in SUBSET Threads
      BY <1>8, <2>1
    <3>2. Room(limits[g].ens, 0, ensUsed[d][n] + 1, past \ {t})
      BY <2>2, <2>3, <2>4, <3>1, RoomCount
    <3>3. ensUsed'[d][n] = ensUsed[d][n] + 1
      BY <1>6, <2>1, <2>4
    <3> QED
      BY <2>1, <3>2, <3>3
  <2>5. CASE t \notin past
    <3>1. past \ {t} = past
      BY <2>5
    <3> QED
      BY <1>6, <2>1, <2>2, <2>5, <3>1
  <2> QED
    BY <2>4, <2>5
<1> QED
  BY <1>7, <1>9, <1>10, <1>11 DEF QuotaInv

----------------------------------------------------------------------------
(* The other steps *)

\* Nobody passes a check.
LEMMA QuietInv ==
  ASSUME QuotaInv, TypeOK', CapsStay, DevicesStay, GroupsStay, EnsStay, UNCHANGED threads
  PROVE  QuotaInv'
<1>1. ServedOK'
  BY DEF QuotaInv, ServedOK, threads
<1>2. CapsOK'
  <2> SUFFICES ASSUME NEW t \in Threads, pc[t] # "idle", limits'[req[t].group] # None
               PROVE  LET now == limits'[req[t].group]  old == req[t].row IN
                        /\ "device" \notin lowered' => Covers(now.device, old.device)
                        /\ "group" \notin lowered' => Covers(now.group, old.group)
                        /\ "ens" \notin lowered' => Covers(now.ens, old.ens)
    BY DEF CapsOK, threads
  <2> DEFINE g == req[t].group
             now == limits'[g]
             was == limits[g]
             old == req[t].row
  <2>1. g \in Groups /\ old.device \in Caps /\ old.group \in Caps /\ old.ens \in Caps
    BY InFlight
  <2>2. ~ ({"device", "group", "ens"} \subseteq lowered') => was # None
    BY <2>1 DEF CapsStay
  <2>3. /\ now.device \in Caps /\ now.group \in Caps /\ now.ens \in Caps
        /\ was # None => was.device \in Caps /\ was.group \in Caps /\ was.ens \in Caps
    BY <2>1, CapTypes DEF QuotaInv, TypeOK
  <2>4. ASSUME NEW a \in Caps, NEW b \in Caps, NEW c \in Caps, Covers(a, b), Covers(b, c) PROVE Covers(a, c)
    BY <2>4, RateLimitAssumption DEF Covers, Caps
  <2>5. was # None => /\ "device" \notin lowered => Covers(was.device, old.device)
                      /\ "group" \notin lowered => Covers(was.group, old.group)
                      /\ "ens" \notin lowered => Covers(was.ens, old.ens)
    BY DEF QuotaInv, CapsOK
  <2>6. \/ {"device", "group", "ens"} \subseteq lowered'
        \/ /\ "device" \notin lowered' => Covers(now.device, was.device)
           /\ "group" \notin lowered' => Covers(now.group, was.group)
           /\ "ens" \notin lowered' => Covers(now.ens, was.ens)
    BY <2>1 DEF CapsStay
  <2>7. lowered \subseteq lowered'
    BY DEF CapsStay
  <2> HIDE DEF g, now, was, old
  <2>8. CASE ~ ({"device", "group", "ens"} \subseteq lowered')
    BY <2>1, <2>2, <2>3, <2>4, <2>5, <2>6, <2>7, <2>8 DEF now, old, g
  <2> QED
    BY <2>8
<1>3. DeviceRoom' /\ GroupRoom' /\ EnsRoom'
  BY DeviceKept, GroupKept, EnsKept DEF QuotaInv, Stays, threads
<1> QED
  BY <1>1, <1>2, <1>3 DEF QuotaInv

LEMMA SameCaps == TypeOK /\ UNCHANGED <<limits, lowered>> => CapsStay
<1> SUFFICES ASSUME TypeOK, UNCHANGED <<limits, lowered>> PROVE CapsStay
  OBVIOUS
<1>1. ASSUME NEW g \in Groups, limits[g] # None
      PROVE  /\ Covers(limits[g].device, limits[g].device) /\ Covers(limits[g].group, limits[g].group)
             /\ Covers(limits[g].ens, limits[g].ens)
  BY <1>1, CapTypes DEF TypeOK, Covers, Caps
<1> QED
  BY <1>1 DEF CapsStay

\* A request that begins reads the caps of now.
LEMMA BeginInv ==
  ASSUME QuotaInv, NEW t \in Threads, NEW s \in Sessions, Begin(t, s)
  PROVE  QuotaInv'
<1>1. /\ pc[t] = "idle"
      /\ UNCHANGED <<today, limits, counters, adjDevice, adjGroup, lowered>>
  BY DEF Begin, history
<1>2. CapsStay /\ DevicesStay /\ GroupsStay /\ EnsStay
  BY <1>1, SameCaps, UsedStays DEF QuotaInv
<1>3. CASE UNCHANGED threads
  <2>1. TypeOK'
    BY <1>1, <1>3 DEF QuotaInv, TypeOK, counters, threads
  <2> QED
    BY <1>2, <1>3, <2>1, QuietInv
<1>4. CASE limits[s.group] # None /\ Identified(limits[s.group], s.name)
  <2> DEFINE new == [ip |-> s.ip, group |-> s.group, name |-> s.name, date |-> today, row |-> limits[s.group]]
  <2>1. /\ pc' = [pc EXCEPT ![t] = "device"] /\ req' = [req EXCEPT ![t] = new]
    BY <1>4 DEF Begin
  <2>2. s \in [ip : Ips, group : Groups, name : Names \union {None}]
    BY RateLimitAssumption
  <2>3. /\ s.ip \in Ips /\ s.group \in Groups /\ s.name \in Names \union {None}
        /\ [ip |-> s.ip, group |-> s.group, name |-> s.name] = s
    BY <2>2
  <2>4. limits[s.group] \in Rows /\ limits[s.group] # None /\ today \in Dates
    BY <1>4, <2>3 DEF QuotaInv, TypeOK
  <2>5. /\ new.ip = s.ip /\ new.group = s.group /\ new.name = s.name
        /\ new.date = today /\ new.row = limits[s.group]
    OBVIOUS
  <2>6. new \in [ip : Ips \union {None}, group : Groups \union {None},
                 name : Names \union {None}, date : 0..Days, row : Rows \union {None}]
    BY <2>3, <2>4 DEF Dates
  <2>7. new # NoRequest
    BY <2>4, <2>5 DEF NoRequest
  <2> HIDE DEF new
  <2>8. /\ pc'[t] = "device" /\ req'[t] = new
        /\ \A p \in Threads \ {t} : pc'[p] = pc[p] /\ req'[p] = req[p]
    BY <2>1 DEF QuotaInv, TypeOK
  <2>9. TypeOK'
    <3>1. /\ pc' \in [Threads -> {"idle", "device", "group", "ens", "bump"}]
          /\ req' \in [Threads -> [ip : Ips \union {None}, group : Groups \union {None},
                         name : Names \union {None}, date : 0..Days, row : Rows \union {None}]]
      BY <2>1, <2>6 DEF QuotaInv, TypeOK
    <3>2. \A p \in Threads : pc'[p] = "idle" <=> req'[p] = NoRequest
      BY <2>7, <2>8 DEF QuotaInv, TypeOK
    <3> QED
      BY <1>1, <3>1, <3>2 DEF QuotaInv, TypeOK, counters
  <2>10. ServedOK'
    <3>1. /\ [ip |-> new.ip, group |-> new.group, name |-> new.name] \in Sessions
          /\ new.row \in Rows /\ Identified(new.row, new.name) /\ new.date \in Dates
      BY <1>4, <2>3, <2>4, <2>5
    <3> QED
      BY <2>8, <3>1 DEF QuotaInv, ServedOK
  <2>11. CapsOK'
    <3>1. /\ Covers(limits[s.group].device, limits[s.group].device)
          /\ Covers(limits[s.group].group, limits[s.group].group)
          /\ Covers(limits[s.group].ens, limits[s.group].ens)
      BY <2>4, CapTypes DEF Covers, Caps
    <3> QED
      BY <1>1, <2>5, <2>8, <3>1 DEF QuotaInv, CapsOK
  <2>12. Stays({"group", "ens", "bump"}) /\ Stays({"ens", "bump"}) /\ Stays({"bump"})
    BY <2>8 DEF Stays
  <2>13. DeviceRoom' /\ GroupRoom' /\ EnsRoom'
    BY <1>2, <2>9, <2>12, DeviceKept, GroupKept, EnsKept DEF QuotaInv
  <2> QED
    BY <2>9, <2>10, <2>11, <2>13 DEF QuotaInv
<1> QED
  BY <1>3, <1>4 DEF Begin

LEMMA SetLimitInv ==
  ASSUME QuotaInv, NEW g \in Groups, NEW row \in Rows \union {None}, SetLimit(g, row)
  PROVE  QuotaInv'
<1>1. /\ limits' = [limits EXCEPT ![g] = row]
      /\ lowered' = IF row = None THEN lowered ELSE
                    IF limits[g] = None THEN lowered \union {"device", "group", "ens"} ELSE
                    lowered \union {k \in {"device", "group", "ens"} : LowerCap(limits[g][k], row[k])}
      /\ UNCHANGED <<today, counters, adjDevice, adjGroup, threads>>
  BY DEF SetLimit
<1>2. /\ limits' \in [Groups -> Rows \union {None}] /\ limits'[g] = row
      /\ \A h \in Groups \ {g} : limits'[h] = limits[h]
  BY <1>1 DEF QuotaInv, TypeOK
<1>3. TypeOK'
  BY <1>1, <1>2 DEF QuotaInv, TypeOK, counters, threads
<1>4. CapsStay
  <2>1. lowered \subseteq lowered'
    BY <1>1
  <2>2. ASSUME NEW h \in Groups, limits[h] # None
        PROVE  /\ Covers(limits[h].device, limits[h].device) /\ Covers(limits[h].group, limits[h].group)
               /\ Covers(limits[h].ens, limits[h].ens)
    BY <2>2, CapTypes DEF QuotaInv, TypeOK, Covers, Caps
  <2>3. ASSUME row # None, limits[g] # None
        PROVE  /\ "device" \notin lowered' => Covers(row.device, limits[g].device)
               /\ "group" \notin lowered' => Covers(row.group, limits[g].group)
               /\ "ens" \notin lowered' => Covers(row.ens, limits[g].ens)
    <3>1. row \in Rows /\ limits[g] \in Rows
      BY <2>3 DEF QuotaInv, TypeOK
    <3>2. /\ row.device \in Caps /\ row.group \in Caps /\ row.ens \in Caps
          /\ limits[g].device \in Caps /\ limits[g].group \in Caps /\ limits[g].ens \in Caps
      BY <3>1, CapTypes
    <3>3. ASSUME NEW new \in Caps, NEW old \in Caps, ~ LowerCap(old, new) PROVE Covers(new, old)
      BY <3>3, RateLimitAssumption DEF Caps, LowerCap, Covers
    <3>4. /\ "device" \notin lowered' => ~ LowerCap(limits[g].device, row.device)
          /\ "group" \notin lowered' => ~ LowerCap(limits[g].group, row.group)
          /\ "ens" \notin lowered' => ~ LowerCap(limits[g].ens, row.ens)
      BY <1>1, <2>3
    <3> QED
      BY <3>2, <3>3, <3>4
  <2>4. row # None /\ limits[g] = None => lowered' = lowered \union {"device", "group", "ens"}
    BY <1>1
  <2> QED
    BY <1>2, <2>1, <2>2, <2>3, <2>4 DEF CapsStay
<1>5. DevicesStay /\ GroupsStay /\ EnsStay
  BY <1>1, UsedStays DEF QuotaInv
<1> QED
  BY <1>1, <1>3, <1>4, <1>5, QuietInv

\* An adjustment narrows the room of its scope when it takes away, and the scope is marked then.
LEMMA TopupGrows ==
  ASSUME NEW total \in Int, NEW amount \in Int, ~ amount < 0
  PROVE  Topup(total) <= Topup(total + amount)
BY DEF Topup

LEMMA AdjustDeviceInv ==
  ASSUME QuotaInv, NEW d \in Dates, NEW ip \in Ips, NEW amount \in Amounts, AdjustDevice(d, ip, amount)
  PROVE  QuotaInv'
<1>1. /\ adjDevice' = [adjDevice EXCEPT ![d][ip] = @ + amount]
      /\ lowered' = IF amount < 0 THEN lowered \union {"device"} ELSE lowered
      /\ UNCHANGED <<today, limits, counters, adjGroup, threads>>
  BY DEF AdjustDevice
<1>2. amount \in Int /\ adjDevice \in [Dates -> [Ips -> Int]]
  BY RateLimitAssumption DEF QuotaInv, TypeOK
<1>3. /\ adjDevice' \in [Dates -> [Ips -> Int]]
      /\ \A e \in Dates, i \in Ips :
           adjDevice'[e][i] = IF e = d /\ i = ip THEN adjDevice[e][i] + amount ELSE adjDevice[e][i]
  BY <1>1, <1>2
<1>4. TypeOK'
  BY <1>1, <1>3 DEF QuotaInv, TypeOK, counters, threads
<1>5. CapsStay
  <2>1. ASSUME NEW g \in Groups, limits[g] # None
        PROVE  /\ Covers(limits[g].device, limits[g].device) /\ Covers(limits[g].group, limits[g].group)
               /\ Covers(limits[g].ens, limits[g].ens)
    BY <2>1, CapTypes DEF QuotaInv, TypeOK, Covers, Caps
  <2>2. lowered \subseteq lowered' /\ limits' = limits
    BY <1>1
  <2> QED
    BY <2>1, <2>2 DEF CapsStay
<1>6. DevicesStay
  <2>1. ASSUME NEW e \in Dates, NEW i \in Ips
        PROVE  /\ adjDevice[e][i] \in Int /\ Topup(adjDevice[e][i]) \in Nat
               /\ deviceUsed'[e][i] <= deviceUsed[e][i]
    BY <1>1, TopupType DEF QuotaInv, TypeOK, counters
  <2>2. "device" \notin lowered' => ~ amount < 0
    BY <1>1
  <2>3. ASSUME "device" \notin lowered', NEW e \in Dates, NEW i \in Ips
        PROVE  Topup(adjDevice[e][i]) <= Topup(adjDevice'[e][i])
    BY <1>2, <1>3, <2>1, <2>2, <2>3, TopupGrows
  <2> QED
    BY <2>1, <2>3 DEF DevicesStay
<1>7. GroupsStay /\ EnsStay
  <2>1. ASSUME NEW e \in Dates, NEW g \in Groups
        PROVE  Topup(adjGroup[e][g]) \in Nat /\ groupUsed[e][g] \in Nat
    BY TopupType DEF QuotaInv, TypeOK
  <2> QED
    BY <1>1, <2>1 DEF GroupsStay, EnsStay, QuotaInv, TypeOK, counters
<1> QED
  BY <1>1, <1>4, <1>5, <1>6, <1>7, QuietInv

LEMMA AdjustGroupInv ==
  ASSUME QuotaInv, NEW d \in Dates, NEW g \in Groups, NEW amount \in Amounts, AdjustGroup(d, g, amount)
  PROVE  QuotaInv'
<1>1. /\ adjGroup' = [adjGroup EXCEPT ![d][g] = @ + amount]
      /\ lowered' = IF amount < 0 THEN lowered \union {"group"} ELSE lowered
      /\ UNCHANGED <<today, limits, counters, adjDevice, threads>>
  BY DEF AdjustGroup
<1>2. amount \in Int /\ adjGroup \in [Dates -> [Groups -> Int]]
  BY RateLimitAssumption DEF QuotaInv, TypeOK
<1>3. /\ adjGroup' \in [Dates -> [Groups -> Int]]
      /\ \A e \in Dates, h \in Groups :
           adjGroup'[e][h] = IF e = d /\ h = g THEN adjGroup[e][h] + amount ELSE adjGroup[e][h]
  BY <1>1, <1>2
<1>4. TypeOK'
  BY <1>1, <1>3 DEF QuotaInv, TypeOK, counters, threads
<1>5. CapsStay
  <2>1. ASSUME NEW h \in Groups, limits[h] # None
        PROVE  /\ Covers(limits[h].device, limits[h].device) /\ Covers(limits[h].group, limits[h].group)
               /\ Covers(limits[h].ens, limits[h].ens)
    BY <2>1, CapTypes DEF QuotaInv, TypeOK, Covers, Caps
  <2>2. lowered \subseteq lowered' /\ limits' = limits
    BY <1>1
  <2> QED
    BY <2>1, <2>2 DEF CapsStay
<1>6. GroupsStay
  <2>1. ASSUME NEW e \in Dates, NEW h \in Groups
        PROVE  /\ adjGroup[e][h] \in Int /\ Topup(adjGroup[e][h]) \in Nat
               /\ groupUsed'[e][h] <= groupUsed[e][h]
    BY <1>1, TopupType DEF QuotaInv, TypeOK, counters
  <2>2. "group" \notin lowered' => ~ amount < 0
    BY <1>1
  <2>3. ASSUME "group" \notin lowered', NEW e \in Dates, NEW h \in Groups
        PROVE  Topup(adjGroup[e][h]) <= Topup(adjGroup'[e][h])
    BY <1>2, <1>3, <2>1, <2>2, <2>3, TopupGrows
  <2> QED
    BY <2>1, <2>3 DEF GroupsStay
<1>7. DevicesStay /\ EnsStay
  <2>1. ASSUME NEW e \in Dates, NEW ip \in Ips
        PROVE  Topup(adjDevice[e][ip]) \in Nat /\ deviceUsed[e][ip] \in Nat
    BY TopupType DEF QuotaInv, TypeOK
  <2> QED
    BY <1>1, <2>1 DEF DevicesStay, EnsStay, QuotaInv, TypeOK, counters
<1> QED
  BY <1>1, <1>4, <1>5, <1>6, <1>7, QuietInv

LEMMA ResetDeviceInv ==
  ASSUME QuotaInv, NEW d \in Dates, NEW ip \in Ips, ResetDevice(d, ip)
  PROVE  QuotaInv'
<1>1. /\ deviceUsed' = [deviceUsed EXCEPT ![d][ip] = 0]
      /\ UNCHANGED <<today, limits, groupUsed, ensUsed, adjDevice, adjGroup, threads, lowered>>
  BY DEF ResetDevice
<1>2. deviceUsed \in [Dates -> [Ips -> Nat]]
  BY DEF QuotaInv, TypeOK
<1>3. /\ deviceUsed' \in [Dates -> [Ips -> Nat]]
      /\ \A e \in Dates, i \in Ips :
           deviceUsed'[e][i] = IF e = d /\ i = ip THEN 0 ELSE deviceUsed[e][i]
  BY <1>1, <1>2
<1>4. TypeOK'
  BY <1>1, <1>3 DEF QuotaInv, TypeOK, threads
<1>5. ASSUME NEW e \in Dates, NEW i \in Ips
      PROVE  Topup(adjDevice[e][i]) \in Nat /\ deviceUsed[e][i] \in Nat
  BY TopupType DEF QuotaInv, TypeOK
<1>6. DevicesStay
  BY <1>1, <1>3, <1>5 DEF DevicesStay
<1>7. GroupsStay /\ EnsStay
  <2>1. ASSUME NEW e \in Dates, NEW g \in Groups
        PROVE  Topup(adjGroup[e][g]) \in Nat /\ groupUsed[e][g] \in Nat
    BY TopupType DEF QuotaInv, TypeOK
  <2> QED
    BY <1>1, <2>1 DEF GroupsStay, EnsStay, QuotaInv, TypeOK
<1>8. CapsStay
  BY <1>1, SameCaps DEF QuotaInv
<1> QED
  BY <1>1, <1>4, <1>6, <1>7, <1>8, QuietInv

LEMMA ResetGroupInv ==
  ASSUME QuotaInv, NEW d \in Dates, NEW g \in Groups, ResetGroup(d, g)
  PROVE  QuotaInv'
<1>1. /\ groupUsed' = [groupUsed EXCEPT ![d][g] = 0]
      /\ UNCHANGED <<today, limits, deviceUsed, ensUsed, adjDevice, adjGroup, threads, lowered>>
  BY DEF ResetGroup
<1>2. groupUsed \in [Dates -> [Groups -> Nat]]
  BY DEF QuotaInv, TypeOK
<1>3. /\ groupUsed' \in [Dates -> [Groups -> Nat]]
      /\ \A e \in Dates, h \in Groups :
           groupUsed'[e][h] = IF e = d /\ h = g THEN 0 ELSE groupUsed[e][h]
  BY <1>1, <1>2
<1>4. TypeOK'
  BY <1>1, <1>3 DEF QuotaInv, TypeOK, threads
<1>5. ASSUME NEW e \in Dates, NEW h \in Groups
      PROVE  Topup(adjGroup[e][h]) \in Nat /\ groupUsed[e][h] \in Nat
  BY TopupType DEF QuotaInv, TypeOK
<1>6. GroupsStay
  BY <1>1, <1>3, <1>5 DEF GroupsStay
<1>7. DevicesStay /\ EnsStay
  <2>1. ASSUME NEW e \in Dates, NEW ip \in Ips
        PROVE  Topup(adjDevice[e][ip]) \in Nat /\ deviceUsed[e][ip] \in Nat
    BY TopupType DEF QuotaInv, TypeOK
  <2> QED
    BY <1>1, <2>1 DEF DevicesStay, EnsStay, QuotaInv, TypeOK
<1>8. CapsStay
  BY <1>1, SameCaps DEF QuotaInv
<1> QED
  BY <1>1, <1>4, <1>6, <1>7, <1>8, QuietInv

LEMMA MidnightInv ==
  ASSUME QuotaInv, Midnight
  PROVE  QuotaInv'
<1>1. /\ today < Days /\ today' = today + 1
      /\ UNCHANGED <<limits, counters, adjDevice, adjGroup, threads, lowered>>
  BY DEF Midnight, history
<1>2. TypeOK'
  <2>1. today' \in Dates
    BY <1>1, RateLimitAssumption DEF QuotaInv, TypeOK, Dates
  <2> QED
    BY <1>1, <2>1 DEF QuotaInv, TypeOK, Dates, counters, threads
<1>3. CapsStay /\ DevicesStay /\ GroupsStay /\ EnsStay
  BY <1>1, SameCaps, UsedStays DEF QuotaInv
<1> QED
  BY <1>1, <1>2, <1>3, QuietInv

LEMMA QuotaNext == QuotaInv /\ [Next]_vars => QuotaInv'
<1> SUFFICES ASSUME QuotaInv, [Next]_vars PROVE QuotaInv'
  OBVIOUS
<1>1. ASSUME NEW t \in Threads, Check(t) PROVE QuotaInv'
  BY <1>1, CheckDeviceInv, CheckGroupInv, CheckEnsInv DEF Check
<1>2. ASSUME NEW t \in Threads, Bump(t) PROVE QuotaInv'
  BY <1>2, BumpInv
<1>3. ASSUME NEW t \in Threads, NEW s \in Sessions, Begin(t, s) PROVE QuotaInv'
  BY <1>3, BeginInv
<1>4. ASSUME NEW g \in Groups, NEW row \in Rows \union {None}, SetLimit(g, row) PROVE QuotaInv'
  BY <1>4, SetLimitInv
<1>5. ASSUME NEW d \in Dates, NEW g \in Groups, ResetGroup(d, g) \/ \E a \in Amounts : AdjustGroup(d, g, a)
      PROVE  QuotaInv'
  BY <1>5, ResetGroupInv, AdjustGroupInv
<1>6. ASSUME NEW d \in Dates, NEW ip \in Ips, ResetDevice(d, ip) \/ \E a \in Amounts : AdjustDevice(d, ip, a)
      PROVE  QuotaInv'
  BY <1>6, ResetDeviceInv, AdjustDeviceInv
<1>7. ASSUME UNCHANGED vars PROVE QuotaInv'
  <2>1. TypeOK'
    BY <1>7 DEF vars, counters, threads, QuotaInv, TypeOK
  <2>2. UNCHANGED <<limits, counters, adjDevice, adjGroup, threads, lowered>>
    BY <1>7 DEF vars, history
  <2>3. CapsStay /\ DevicesStay /\ GroupsStay /\ EnsStay
    BY <2>2, SameCaps, UsedStays DEF QuotaInv
  <2> QED
    BY <2>1, <2>2, <2>3, QuietInv
<1> QED
  BY <1>1, <1>2, <1>3, <1>4, <1>5, <1>6, <1>7, MidnightInv DEF Next

----------------------------------------------------------------------------
(* The theorems *)

\* The values the tables and the locals of the threads take (rate_limit.py).
THEOREM Typed == Spec => []TypeOK
<1>1. Init => QuotaInv
  BY QuotaInit
<1>2. QuotaInv /\ [Next]_vars => QuotaInv'
  BY QuotaNext
<1>3. QuotaInv => TypeOK
  BY DEF QuotaInv
<1> QED
  BY <1>1, <1>2, <1>3, PTL DEF Spec

\* However the checks and the counts of the threads interleave, a cap that nobody lowers is
\* overrun by one less than there are threads at the most (rate_limit.py checks, then counts).
THEOREM Bounded == Spec => []OverrunBounded
<1>1. Init => QuotaInv
  BY QuotaInit
<1>2. QuotaInv /\ [Next]_vars => QuotaInv'
  BY QuotaNext
<1>3. QuotaInv => OverrunBounded
  <2> SUFFICES ASSUME QuotaInv, NEW g \in Groups, NEW d \in Dates, limits[g] # None
               PROVE  /\ "group" \notin lowered => Within(limits[g].group, Topup(adjGroup[d][g]), groupUsed[d][g])
                      /\ "device" \notin lowered => \A ip \in DevicesOf(g) :
                           Within(limits[g].device, Topup(adjDevice[d][ip]), deviceUsed[d][ip])
                      /\ "ens" \notin lowered => \A n \in NamesOf(g) : Within(limits[g].ens, 0, ensUsed[d][n])
    BY DEF OverrunBounded
  <2>1. limits[g].device \in Caps /\ limits[g].group \in Caps /\ limits[g].ens \in Caps
    BY CapTypes DEF QuotaInv, TypeOK
  <2>2. ASSUME NEW cap \in Caps, NEW topup \in Nat, NEW used \in Nat, NEW past \in SUBSET Threads,
               Room(cap, topup, used, past)
        PROVE  Within(cap, topup, used)
    BY <2>2, PastFinite, RateLimitAssumption DEF Room, Within, Caps
  <2>3. "group" \notin lowered => Within(limits[g].group, Topup(adjGroup[d][g]), groupUsed[d][g])
    <3>1. Topup(adjGroup[d][g]) \in Nat /\ groupUsed[d][g] \in Nat /\ PastGroup(g, d) \in SUBSET Threads
      BY TopupType DEF QuotaInv, TypeOK, PastGroup
    <3> QED
      BY <2>1, <2>2, <3>1 DEF QuotaInv, GroupRoom
  <2>4. ASSUME "device" \notin lowered, NEW ip \in DevicesOf(g)
        PROVE  Within(limits[g].device, Topup(adjDevice[d][ip]), deviceUsed[d][ip])
    <3>1. ip \in Ips
      BY DEF DevicesOf
    <3>2. Topup(adjDevice[d][ip]) \in Nat /\ deviceUsed[d][ip] \in Nat /\ PastDevice(ip, d) \in SUBSET Threads
      BY <3>1, TopupType DEF QuotaInv, TypeOK, PastDevice
    <3> QED
      BY <2>1, <2>2, <2>4, <3>1, <3>2 DEF QuotaInv, DeviceRoom
  <2>5. ASSUME "ens" \notin lowered, NEW n \in NamesOf(g)
        PROVE  Within(limits[g].ens, 0, ensUsed[d][n])
    <3>1. n \in Names
      BY DEF NamesOf
    <3>2. 0 \in Nat /\ ensUsed[d][n] \in Nat /\ PastEns(n, d) \in SUBSET Threads
      BY <3>1 DEF QuotaInv, TypeOK, PastEns
    <3> QED
      BY <2>1, <2>2, <2>5, <3>1, <3>2 DEF QuotaInv, EnsRoom
  <2> QED
    BY <2>3, <2>4, <2>5
<1> QED
  BY <1>1, <1>2, <1>3, PTL DEF Spec

----------------------------------------------------------------------------
(* The sums of the counters *)

\* While no counter of a day was reset, the devices' and the groups' sum up to the same, the
\* names' to no more, and none to more than a number.
SumsOK ==
  \A d \in Dates \ resets :
    /\ IsFiniteSet(Counted(deviceUsed[d])) /\ IsFiniteSet(Counted(groupUsed[d]))
    /\ IsFiniteSet(Counted(ensUsed[d]))
    /\ Total(deviceUsed[d]) = Total(groupUsed[d])
    /\ Total(ensUsed[d]) <= Total(groupUsed[d])

LEMMA CountedNone ==
  ASSUME NEW S
  PROVE  Counted([x \in S |-> 0]) = {}
<1>1. 1..0 = {}
  OBVIOUS
<1> QED
  BY <1>1 DEF Counted

LEMMA CountedMore ==
  ASSUME NEW S, NEW f \in [S -> Nat], NEW g \in [S -> Nat], NEW x \in S,
         g[x] = f[x] + 1, \A y \in S \ {x} : g[y] = f[y], IsFiniteSet(Counted(f))
  PROVE  IsFiniteSet(Counted(g)) /\ Total(g) = Total(f) + 1
<1> DEFINE new == <<x, f[x] + 1>>
<1>1. \A y \in S : f[y] \in Nat
  OBVIOUS
<1>2. new \notin Counted(f)
  <2> SUFFICES ASSUME NEW y \in S, new \in {y} \X (1..f[y]) PROVE FALSE
    BY DEF Counted
  <2>1. y = x /\ f[x] + 1 \in 1..f[x]
    OBVIOUS
  <2> QED
    BY <1>1, <2>1
<1>3. Counted(g) = Counted(f) \union {new}
  <2>1. 1..g[x] = (1..f[x]) \union {f[x] + 1}
    BY <1>1
  <2>2. {x} \X (1..g[x]) = ({x} \X (1..f[x])) \union {new}
    BY <2>1
  <2>3. \A y \in S \ {x} : {y} \X (1..g[y]) = {y} \X (1..f[y])
    OBVIOUS
  <2>4. DOMAIN f = S /\ DOMAIN g = S
    OBVIOUS
  <2> HIDE DEF new
  <2> QED
    BY <2>2, <2>3, <2>4 DEF Counted
<1> HIDE DEF new
<1> QED
  BY <1>2, <1>3, FS_AddElement DEF Total

LEMMA TotalType ==
  ASSUME NEW f, IsFiniteSet(Counted(f))
  PROVE  Total(f) \in Nat
BY FS_CardinalityType DEF Total

LEMMA SumsInit == Init => SumsOK
<1> SUFFICES ASSUME Init, NEW d \in Dates
             PROVE  /\ Counted(deviceUsed[d]) = {} /\ Counted(groupUsed[d]) = {}
                    /\ Counted(ensUsed[d]) = {}
  BY FS_EmptySet DEF SumsOK, Total
<1>1. /\ deviceUsed[d] = [ip \in Ips |-> 0] /\ groupUsed[d] = [g \in Groups |-> 0]
      /\ ensUsed[d] = [n \in Names |-> 0]
  BY DEF Init
<1> QED
  BY <1>1, CountedNone

\* One more device, one more group, and one more name at the most, of the same day.
LEMMA SumsBump ==
  ASSUME QuotaInv, SumsOK, NEW t \in Threads, Bump(t)
  PROVE  SumsOK'
<1> DEFINE r == req[t]
<1>1. /\ r.ip \in Ips /\ r.group \in Groups /\ r.name \in Names \union {None} /\ r.date \in Dates
  BY InFlight DEF Bump
<1>2. /\ deviceUsed \in [Dates -> [Ips -> Nat]] /\ groupUsed \in [Dates -> [Groups -> Nat]]
      /\ ensUsed \in [Dates -> [Names -> Nat]]
      /\ deviceUsed' = [deviceUsed EXCEPT ![r.date][r.ip] = @ + 1]
      /\ groupUsed' = [groupUsed EXCEPT ![r.date][r.group] = @ + 1]
      /\ ensUsed' = IF r.name # None THEN [ensUsed EXCEPT ![r.date][r.name] = @ + 1] ELSE ensUsed
      /\ resets' = resets
  BY DEF QuotaInv, TypeOK, Bump, history
<1> HIDE DEF r
<1> SUFFICES ASSUME NEW d \in Dates \ resets
             PROVE  /\ IsFiniteSet(Counted(deviceUsed'[d])) /\ IsFiniteSet(Counted(groupUsed'[d]))
                    /\ IsFiniteSet(Counted(ensUsed'[d]))
                    /\ Total(deviceUsed'[d]) = Total(groupUsed'[d])
                    /\ Total(ensUsed'[d]) <= Total(groupUsed'[d])
  BY <1>2 DEF SumsOK
<1>3. /\ IsFiniteSet(Counted(deviceUsed[d])) /\ IsFiniteSet(Counted(groupUsed[d]))
      /\ IsFiniteSet(Counted(ensUsed[d]))
      /\ Total(deviceUsed[d]) = Total(groupUsed[d])
      /\ Total(ensUsed[d]) <= Total(groupUsed[d])
  BY DEF SumsOK
<1>4. Total(groupUsed[d]) \in Nat /\ Total(ensUsed[d]) \in Nat
  BY <1>3, TotalType
<1>5. CASE r.date # d
  <2>1. deviceUsed'[d] = deviceUsed[d] /\ groupUsed'[d] = groupUsed[d] /\ ensUsed'[d] = ensUsed[d]
    BY <1>2, <1>5
  <2> QED
    BY <1>3, <2>1
<1>6. CASE r.date = d
  <2>1. IsFiniteSet(Counted(deviceUsed'[d])) /\ Total(deviceUsed'[d]) = Total(deviceUsed[d]) + 1
    <3>1. /\ deviceUsed[d] \in [Ips -> Nat] /\ deviceUsed'[d] \in [Ips -> Nat]
          /\ deviceUsed'[d][r.ip] = deviceUsed[d][r.ip] + 1
          /\ \A ip \in Ips \ {r.ip} : deviceUsed'[d][ip] = deviceUsed[d][ip]
      BY <1>1, <1>2, <1>6
    <3> QED
      BY <1>1, <1>3, <3>1, CountedMore
  <2>2. IsFiniteSet(Counted(groupUsed'[d])) /\ Total(groupUsed'[d]) = Total(groupUsed[d]) + 1
    <3>1. /\ groupUsed[d] \in [Groups -> Nat] /\ groupUsed'[d] \in [Groups -> Nat]
          /\ groupUsed'[d][r.group] = groupUsed[d][r.group] + 1
          /\ \A g \in Groups \ {r.group} : groupUsed'[d][g] = groupUsed[d][g]
      BY <1>1, <1>2, <1>6
    <3> QED
      BY <1>1, <1>3, <3>1, CountedMore
  <2>3. /\ IsFiniteSet(Counted(ensUsed'[d]))
        /\ Total(ensUsed'[d]) \in {Total(ensUsed[d]), Total(ensUsed[d]) + 1}
    <3>1. CASE r.name # None
      <4>1. /\ ensUsed[d] \in [Names -> Nat] /\ ensUsed'[d] \in [Names -> Nat] /\ r.name \in Names
            /\ ensUsed'[d][r.name] = ensUsed[d][r.name] + 1
            /\ \A n \in Names \ {r.name} : ensUsed'[d][n] = ensUsed[d][n]
        BY <1>1, <1>2, <1>6, <3>1
      <4> QED
        BY <1>3, <4>1, CountedMore
    <3> QED
      BY <1>2, <1>3, <3>1
  <2> QED
    BY <1>3, <1>4, <2>1, <2>2, <2>3
<1> QED
  BY <1>5, <1>6

LEMMA SumsStay ==
  ASSUME SumsOK, resets \subseteq resets',
         \A d \in Dates \ resets' : /\ deviceUsed'[d] = deviceUsed[d] /\ groupUsed'[d] = groupUsed[d]
                                    /\ ensUsed'[d] = ensUsed[d]
  PROVE  SumsOK'
BY DEF SumsOK, Dates

LEMMA SumsNext == QuotaInv /\ SumsOK /\ [Next]_vars => SumsOK'
<1> SUFFICES ASSUME QuotaInv, SumsOK, [Next]_vars PROVE SumsOK'
  OBVIOUS
<1>1. ASSUME NEW t \in Threads, Bump(t) PROVE SumsOK'
  BY <1>1, SumsBump
<1>2. ASSUME UNCHANGED <<counters, resets>> PROVE SumsOK'
  BY <1>2, SumsStay DEF counters
<1>3. ASSUME NEW t \in Threads, Check(t) \/ \E s \in Sessions : Begin(t, s) PROVE SumsOK'
  BY <1>2, <1>3 DEF Check, CheckDevice, CheckGroup, CheckEns, Step, Begin, history
<1>4. ASSUME NEW g \in Groups, NEW row, SetLimit(g, row) PROVE SumsOK'
  BY <1>2, <1>4 DEF SetLimit
<1>5. ASSUME NEW d \in Dates, NEW g \in Groups, NEW a, AdjustGroup(d, g, a) PROVE SumsOK'
  BY <1>2, <1>5 DEF AdjustGroup
<1>6. ASSUME NEW d \in Dates, NEW ip \in Ips, NEW a, AdjustDevice(d, ip, a) PROVE SumsOK'
  BY <1>2, <1>6 DEF AdjustDevice
<1>7. ASSUME NEW d \in Dates, NEW g \in Groups, ResetGroup(d, g) PROVE SumsOK'
  <2>1. /\ groupUsed' = [groupUsed EXCEPT ![d][g] = 0] /\ resets' = resets \union {d}
        /\ UNCHANGED <<deviceUsed, ensUsed>> /\ groupUsed \in [Dates -> [Groups -> Nat]]
    BY <1>7 DEF ResetGroup, QuotaInv, TypeOK
  <2>2. \A e \in Dates \ resets' : groupUsed'[e] = groupUsed[e]
    BY <2>1
  <2> QED
    BY <2>1, <2>2, SumsStay
<1>8. ASSUME NEW d \in Dates, NEW ip \in Ips, ResetDevice(d, ip) PROVE SumsOK'
  <2>1. /\ deviceUsed' = [deviceUsed EXCEPT ![d][ip] = 0] /\ resets' = resets \union {d}
        /\ UNCHANGED <<groupUsed, ensUsed>> /\ deviceUsed \in [Dates -> [Ips -> Nat]]
    BY <1>8 DEF ResetDevice, QuotaInv, TypeOK
  <2>2. \A e \in Dates \ resets' : deviceUsed'[e] = deviceUsed[e]
    BY <2>1
  <2> QED
    BY <2>1, <2>2, SumsStay
<1>9. ASSUME Midnight \/ UNCHANGED vars PROVE SumsOK'
  BY <1>2, <1>9 DEF Midnight, vars, history
<1> QED
  BY <1>1, <1>3, <1>4, <1>5, <1>6, <1>7, <1>8, <1>9 DEF Next

\* A request is counted in its device, its group and its name, or nowhere (rate_limit.py: "no
\* scope's counter advances on a request another scope blocks").
THEOREM Agree == Spec => []CountsAgree
<1>1. Init => QuotaInv /\ SumsOK
  BY QuotaInit, SumsInit
<1>2. QuotaInv /\ SumsOK /\ [Next]_vars => QuotaInv' /\ SumsOK'
  BY QuotaNext, SumsNext
<1>3. SumsOK => CountsAgree
  BY DEF SumsOK, CountsAgree
<1> QED
  BY <1>1, <1>2, <1>3, PTL DEF Spec
=============================================================================
