--------------------------- MODULE ConsoleProofs ---------------------------
(* Theorems about Console, for any tabs, wallets, organizations and bounds. *)
EXTENDS Console, TLAPS

----------------------------------------------------------------------------
(* The invariant *)

AnySite == UNION {Sites[o] : o \in Orgs}
Proofs == [address : Wallets, org : Orgs]
Sessions == [address : Wallets, org : Orgs, key : Nat]
Offers == [of : Wallets \union {None}, listed : SUBSET Orgs, recalled : SUBSET Orgs, failed : BOOLEAN]
TabRows == [org : Orgs \union {None}, site : AnySite \union {None}, page : Pages,
            view : Proofs \union {None, NotRead}, offer : Offers]
Fields == {"phase", "address", "org", "nonce", "by", "ours", "grant"}

\* What a nonce is does not matter here.
TypesOK ==
  /\ owner \in [Orgs -> Wallets] /\ setUp \subseteq Orgs /\ secret \in Nat
  /\ recorded \in [Orgs -> Wallets \union {None}]
  /\ account \in Wallets \union {None}
  /\ cookies = [session |-> cookies.session, nonce |-> cookies.nonce]
  /\ cookies.session \in Sessions \union {None}
  /\ tab \in [Tabs -> TabRows]
  /\ DOMAIN flow = Tabs
  /\ \A t \in Tabs : DOMAIN flow[t] = Fields

Entitled(w, o) == <<w, o>> \in entitled

\* A sign-in under way is about an organization; once it is posted, the wallet that signed
\* is on record; a session that was granted is for somebody entitled.
FlowOK(f) ==
  /\ f.phase # "idle" /\ f.phase # "reading" => f.org \in Orgs /\ f.address \in Wallets
  /\ f.phase = "posted" => <<f.by, f.org>> \in signed
  /\ f.grant # None => f.grant \in Sessions /\ Entitled(f.grant.address, f.grant.org)

FlowsOK == \A t \in Tabs : FlowOK(flow[t])

\* The cookie and what the tabs read from it.
ProofOK(v) == v \notin {None, NotRead} => Entitled(v.address, v.org)

ViewsOK ==
  /\ cookies.session # None => Entitled(cookies.session.address, cookies.session.org)
  /\ \A t \in Tabs : ProofOK(tab[t].view)

\* The wallet has owned the organization, or it was recorded with the wallet.
Known(w, o) == <<w, o>> \in held \union noted

\* Whoever signed and owns the name now is entitled; whoever owns it has owned it, and
\* whoever it is recorded with has been noted.
OwnersOK ==
  \A o \in Orgs : /\ <<owner[o], o>> \in signed => Entitled(owner[o], o)
                  /\ <<owner[o], o>> \in held
                  /\ recorded[o] # None => <<recorded[o], o>> \in noted

\* What a tab has on offer for the wallet it was read for.
OffersOK ==
  \A t \in Tabs : \A o \in tab[t].offer.listed \union tab[t].offer.recalled :
    o \in setUp /\ Known(tab[t].offer.of, o)

ConsoleInv == TypesOK /\ FlowsOK /\ ViewsOK /\ OwnersOK /\ OffersOK

LEMMA InitInv == Init => ConsoleInv
<1> SUFFICES ASSUME Init PROVE ConsoleInv
  OBVIOUS
<1>1. TypesOK
  BY ConsoleAssumption DEF Init, TypesOK, TabRows, Loaded, NoOffer, Offers, Pages, Idle, Fields
<1>2. FlowsOK
  BY DEF Init, FlowsOK, FlowOK, Idle
<1>3. ViewsOK
  <2>1. \A t \in Tabs : tab[t].view = NotRead
    BY DEF Init, Loaded
  <2> QED
    BY <2>1 DEF Init, ViewsOK, ProofOK
<1>4. OwnersOK
  BY DEF Init, OwnersOK
<1>5. OffersOK
  BY DEF Init, OffersOK, Known, Loaded, NoOffer
<1> QED
  BY <1>1, <1>2, <1>3, <1>4, <1>5 DEF ConsoleInv

----------------------------------------------------------------------------
(* Steps *)

\* A tab goes somewhere: what it read, and what it offers, it keeps or forgets.
LEMMA Moved ==
  ASSUME ConsoleInv, NEW t \in Tabs, NEW row \in TabRows,
         tab' = [tab EXCEPT ![t] = row],
         row.view \in {tab[t].view, None, NotRead}, row.offer \in {tab[t].offer, NoOffer},
         UNCHANGED <<chainVars, nameVars, secret, cookies, account, flow, proofVars>>
  PROVE  ConsoleInv'
<1> USE DEF ConsoleInv
<1> tab' \in [Tabs -> TabRows] /\ \A s \in Tabs : tab'[s] = IF s = t THEN row ELSE tab[s]
  BY DEF TypesOK
<1>1. TypesOK'
  BY DEF TypesOK, chainVars, nameVars
<1>2. FlowsOK'
  BY DEF FlowsOK, FlowOK, proofVars, Entitled
<1>3. ViewsOK'
  BY DEF ViewsOK, ProofOK, proofVars, Entitled
<1>4. OwnersOK'
  BY DEF OwnersOK, chainVars, nameVars, proofVars, Entitled
<1>5. OffersOK'
  BY DEF OffersOK, Known, chainVars, nameVars, NoOffer
<1> QED
  BY <1>1, <1>2, <1>3, <1>4, <1>5

LEMMA GoesMoves ==
  ASSUME ConsoleInv, NEW t \in Tabs, NEW o \in Orgs \union {None}, NEW s \in AnySite \union {None},
         NEW p \in Pages, Goes(t, o, s, p),
         UNCHANGED <<chainVars, nameVars, secret, cookies, account, flow, proofVars>>
  PROVE  ConsoleInv'
<1> DEFINE row == [tab[t] EXCEPT !.org = o, !.site = s, !.page = p]
<1>1. tab[t] \in TabRows
  BY DEF ConsoleInv, TypesOK
<1>2. row \in TabRows /\ row.view = tab[t].view /\ row.offer = tab[t].offer
  BY <1>1 DEF TabRows
<1>3. tab' = [tab EXCEPT ![t] = row]
  BY DEF Goes
<1> HIDE DEF row
<1> QED
  BY <1>2, <1>3, Moved

LEMMA NavigationInv ==
  ASSUME ConsoleInv, NEW t \in Tabs,
         \/ \E o \in Orgs : \E s \in Sites[o] \union {None}, p \in Pages : Load(t, o, s, p)
         \/ Load(t, None, None, "console")
         \/ LeaveOrg(t)
         \/ \E s \in AnySite : OpenSite(t, s)
         \/ \E p \in Pages : OpenPage(t, p)
         \/ \E o \in Orgs : OpenOffered(t, o) \/ OpenByName(t, o)
  PROVE  ConsoleInv'
<1> USE DEF ConsoleInv
<1>1. "console" \in Pages /\ tab[t].site \in AnySite \union {None} /\ tab[t].org \in Orgs \union {None}
  BY DEF Pages, TypesOK, TabRows
<1>2. ASSUME NEW o \in Orgs \union {None}, NEW s \in AnySite \union {None}, NEW p \in Pages, Load(t, o, s, p)
      PROVE  ConsoleInv'
  <2> DEFINE row == Loaded(o, s, p)
  <2>1. row \in TabRows /\ row.view = NotRead /\ row.offer = NoOffer
    BY DEF Loaded, TabRows, NoOffer, Offers
  <2>2. tab' = [tab EXCEPT ![t] = row] /\ UNCHANGED <<chainVars, nameVars, secret, cookies, account, flow, proofVars>>
    BY <1>2 DEF Load
  <2> HIDE DEF row
  <2> QED
    BY <2>1, <2>2, Moved
<1>3. CASE \E o \in Orgs : \E s \in Sites[o] \union {None}, p \in Pages : Load(t, o, s, p)
  <2>1. PICK o \in Orgs : \E s \in Sites[o] \union {None}, p \in Pages : Load(t, o, s, p)
    BY <1>3
  <2>2. Sites[o] \subseteq AnySite
    BY DEF AnySite
  <2> QED
    BY <1>2, <2>1, <2>2
<1>4. CASE Load(t, None, None, "console")
  BY <1>1, <1>2, <1>4
<1>5. CASE LeaveOrg(t)
  BY <1>1, <1>5, GoesMoves DEF LeaveOrg
<1>6. CASE \E s \in AnySite : OpenSite(t, s)
  <2>1. PICK s \in AnySite : OpenSite(t, s)
    BY <1>6
  <2>2. tab[t].page \in Pages
    BY DEF TypesOK, TabRows
  <2> QED
    BY <1>1, <2>1, <2>2, GoesMoves DEF OpenSite
<1>7. CASE \E p \in Pages : OpenPage(t, p)
  <2>1. PICK p \in Pages : OpenPage(t, p)
    BY <1>7
  <2>2. PICK s \in {tab[t].site, None} : Goes(t, tab[t].org, s, p)
    BY <2>1 DEF OpenPage
  <2> QED
    BY <1>1, <2>1, <2>2, GoesMoves DEF OpenPage
<1>8. CASE \E o \in Orgs : OpenOffered(t, o) \/ OpenByName(t, o)
  BY <1>1, <1>8, GoesMoves DEF OpenOffered, OpenByName
<1> QED
  BY <1>3, <1>4, <1>5, <1>6, <1>7, <1>8

\* A tab gets other organizations on offer, all of them of the wallet they are for.
LEMMA OfferedAnew ==
  ASSUME ConsoleInv, NEW t \in Tabs, NEW f \in Offers,
         tab' = [tab EXCEPT ![t].offer = f],
         \A o \in f.listed \union f.recalled : o \in setUp /\ Known(f.of, o),
         UNCHANGED <<chainVars, nameVars, secret, cookies, account, flow, proofVars>>
  PROVE  ConsoleInv'
<1> USE DEF ConsoleInv
<1> DEFINE row == [tab[t] EXCEPT !.offer = f]
<1>1. tab[t] \in TabRows
  BY DEF TypesOK
<1>2. row \in TabRows /\ row.view = tab[t].view /\ row.offer = f
  BY <1>1 DEF TabRows
<1>3. tab' \in [Tabs -> TabRows] /\ \A s \in Tabs : tab'[s] = IF s = t THEN row ELSE tab[s]
  BY <1>2 DEF TypesOK
<1> HIDE DEF row
<1>4. TypesOK'
  BY <1>3 DEF TypesOK, chainVars, nameVars
<1>5. FlowsOK'
  BY DEF FlowsOK, FlowOK, proofVars, Entitled
<1>6. ViewsOK'
  BY <1>2, <1>3 DEF ViewsOK, ProofOK, proofVars, Entitled
<1>7. OwnersOK'
  BY DEF OwnersOK, chainVars, nameVars, proofVars, Entitled
<1>8. OffersOK'
  BY <1>2, <1>3 DEF OffersOK, Known, chainVars, nameVars
<1> QED
  BY <1>4, <1>5, <1>6, <1>7, <1>8

LEMMA OfferForOK ==
  ASSUME ConsoleInv, NEW t \in Tabs
  PROVE  /\ OfferFor(t) \in Offers /\ OfferFor(t).of = account
         /\ \A o \in OfferFor(t).listed \union OfferFor(t).recalled : o \in setUp /\ Known(account, o)
<1> USE DEF ConsoleInv
<1>1. tab[t].offer \in Offers /\ account \in Wallets \union {None}
  BY DEF TypesOK, TabRows
<1>2. CASE tab[t].offer.of = account
  BY <1>1, <1>2 DEF OfferFor, OffersOK, Known
<1>3. CASE tab[t].offer.of # account
  BY <1>1, <1>3 DEF OfferFor, NoOffer, Offers
<1> QED
  BY <1>2, <1>3

LEMMA OffersInv ==
  ASSUME ConsoleInv, NEW t \in Tabs,
         \/ \E labels, U \in SUBSET Orgs : List(t, labels, U)
         \/ ListFails(t)
         \/ \E U \in SUBSET Orgs : Recall(t, U)
  PROVE  ConsoleInv'
<1> USE DEF ConsoleInv
<1> DEFINE old == OfferFor(t)
<1>1. /\ old \in Offers /\ old.of = account
      /\ \A o \in old.listed \union old.recalled : o \in setUp /\ Known(account, o)
  BY OfferForOK
<1> HIDE DEF old
<1>2. CASE \E labels, U \in SUBSET Orgs : List(t, labels, U)
  <2>1. PICK labels \in SUBSET Orgs, U \in SUBSET Orgs : List(t, labels, U)
    BY <1>2
  <2> DEFINE rows == {o \in labels : IsOrg(o, U)}
             f == [old EXCEPT !.listed = rows, !.failed = FALSE]
  <2>2. rows \subseteq Orgs /\ \A o \in rows : o \in setUp /\ Known(account, o)
    <3>1. account # None
      BY <2>1 DEF List, Gate
    <3>2. \A o \in labels : Known(account, o)
      BY <2>1, <3>1 DEF List, Indexed, Recorded, OwnersOK, Known
    <3> QED
      BY <2>1, <3>2 DEF IsOrg
  <2>3. /\ tab' = [tab EXCEPT ![t].offer = f]
        /\ UNCHANGED <<chainVars, nameVars, secret, cookies, account, flow, proofVars>>
    BY <2>1 DEF List, browserVars, old
  <2> HIDE DEF rows
  <2>4. f \in Offers /\ f.of = account /\ f.listed = rows /\ f.recalled = old.recalled
    BY <1>1, <2>2 DEF Offers
  <2> HIDE DEF f
  <2>5. \A o \in f.listed \union f.recalled : o \in setUp /\ Known(f.of, o)
    BY <1>1, <2>2, <2>4
  <2> QED
    BY <2>3, <2>4, <2>5, OfferedAnew
<1>3. CASE ListFails(t)
  <2> DEFINE f == [old EXCEPT !.failed = TRUE]
  <2>1. /\ tab' = [tab EXCEPT ![t].offer = f]
        /\ UNCHANGED <<chainVars, nameVars, secret, cookies, account, flow, proofVars>>
    BY <1>3 DEF ListFails, browserVars, old
  <2>2. f \in Offers /\ f.of = account /\ f.listed = old.listed /\ f.recalled = old.recalled
    BY <1>1 DEF Offers
  <2> HIDE DEF f
  <2> QED
    BY <1>1, <2>1, <2>2, OfferedAnew
<1>4. CASE \E U \in SUBSET Orgs : Recall(t, U)
  <2>1. PICK U \in SUBSET Orgs : Recall(t, U)
    BY <1>4
  <2> DEFINE rows == {o \in remembered : Theirs(o, U)}
             f == [old EXCEPT !.recalled = rows]
  <2>2. rows \subseteq Orgs /\ \A o \in rows : o \in setUp /\ Known(account, o)
    <3>1. account # None
      BY <2>1 DEF Recall, Gate
    <3> SUFFICES ASSUME NEW o \in rows PROVE o \in Orgs /\ o \in setUp /\ Known(account, o)
      OBVIOUS
    <3>2. o \in setUp /\ o \in Orgs /\ owner[o] = account
      BY <3>1 DEF Theirs, IsOrg, OwnerRead, TypesOK
    <3> QED
      BY <3>2 DEF OwnersOK, Known
  <2>3. /\ tab' = [tab EXCEPT ![t].offer = f]
        /\ UNCHANGED <<chainVars, nameVars, secret, cookies, account, flow, proofVars>>
    BY <2>1 DEF Recall, browserVars, old
  <2> HIDE DEF rows
  <2>4. f \in Offers /\ f.of = account /\ f.listed = old.listed /\ f.recalled = rows
    BY <1>1, <2>2 DEF Offers
  <2> HIDE DEF f
  <2>5. \A o \in f.listed \union f.recalled : o \in setUp /\ Known(f.of, o)
    BY <1>1, <2>2, <2>4
  <2> QED
    BY <2>3, <2>4, <2>5, OfferedAnew
<1> QED
  BY <1>2, <1>3, <1>4

\* Reading the session gives a tab what the cookie proves.
LEMMA ReadOK ==
  ASSUME ConsoleInv
  PROVE  /\ Read \in Proofs \union {None}
         /\ Read # None => Entitled(Read.address, Read.org)
<1> USE DEF ConsoleInv
<1>1. CASE Live
  <2>1. cookies.session \in Sessions /\ Entitled(cookies.session.address, cookies.session.org)
    BY <1>1 DEF Live, TypesOK, ViewsOK
  <2>2. Read = Proof(cookies.session.address, cookies.session.org)
    BY <1>1 DEF Read
  <2> QED
    BY <2>1, <2>2 DEF Sessions, Proofs, Proof
<1>2. CASE ~Live
  BY <1>2 DEF Read
<1> QED
  BY <1>1, <1>2

\* A step of the browser alone: what it changes must be in order by itself.
LEMMA Steady ==
  ASSUME ConsoleInv, TypesOK',
         UNCHANGED <<chainVars, nameVars, proofVars>>,
         \A t \in Tabs : flow'[t] = flow[t] \/ FlowOK(flow'[t]),
         \A t \in Tabs : tab'[t].view = tab[t].view \/ ProofOK(tab'[t].view),
         \A t \in Tabs : tab'[t].offer = tab[t].offer,
         \/ cookies'.session \in {cookies.session, None}
         \/ Entitled(cookies'.session.address, cookies'.session.org)
  PROVE  ConsoleInv'
<1> USE DEF ConsoleInv
<1>1. FlowsOK'
  BY DEF FlowsOK, FlowOK, proofVars, Entitled
<1>2. ViewsOK'
  BY DEF ViewsOK, ProofOK, proofVars, Entitled
<1>3. OwnersOK'
  BY DEF OwnersOK, chainVars, nameVars, proofVars, Entitled
<1>4. OffersOK'
  BY DEF OffersOK, Known, chainVars, nameVars
<1> QED
  BY <1>1, <1>2, <1>3, <1>4

\* The tab in question reads a session.
LEMMA Reads ==
  ASSUME ConsoleInv, NEW t \in Tabs, NEW v \in Proofs \union {None, NotRead},
         tab' = [tab EXCEPT ![t].view = v]
  PROVE  /\ tab' \in [Tabs -> TabRows]
         /\ tab'[t].view = v /\ \A s \in Tabs \ {t} : tab'[s].view = tab[s].view
         /\ \A s \in Tabs : tab'[s].offer = tab[s].offer
<1> DEFINE row == [tab[t] EXCEPT !.view = v]
<1>1. tab[t] \in TabRows
  BY DEF ConsoleInv, TypesOK
<1>2. row \in TabRows /\ row.view = v /\ row.offer = tab[t].offer
  BY <1>1 DEF TabRows
<1>3. tab' \in [Tabs -> TabRows] /\ \A s \in Tabs : tab'[s] = IF s = t THEN row ELSE tab[s]
  BY <1>2 DEF ConsoleInv, TypesOK
<1> HIDE DEF row
<1> QED
  BY <1>2, <1>3

\* A sign-in that is idle, or over, is in order.
LEMMA Rests ==
  ASSUME ConsoleInv, NEW t \in Tabs, NEW f, DOMAIN f = Fields,
         f.phase \in {"idle", "reading"}, f.grant = None,
         flow' = [flow EXCEPT ![t] = f]
  PROVE  /\ DOMAIN flow' = Tabs /\ \A s \in Tabs : DOMAIN flow'[s] = Fields
         /\ \A s \in Tabs : flow'[s] = flow[s] \/ FlowOK(flow'[s])
<1>1. DOMAIN flow' = Tabs /\ \A s \in Tabs : flow'[s] = IF s = t THEN f ELSE flow[s]
  BY DEF ConsoleInv, TypesOK
<1>2. FlowOK(f)
  BY DEF FlowOK
<1> QED
  BY <1>1, <1>2 DEF ConsoleInv, TypesOK

LEMMA IdleRests == DOMAIN Idle = Fields /\ Idle.phase = "idle" /\ Idle.grant = None
BY DEF Idle, Fields

LEMMA ReadInv ==
  ASSUME ConsoleInv, NEW t \in Tabs, ReadSession(t) \/ ReadFails(t)
  PROVE  ConsoleInv'
<1> USE DEF ConsoleInv
<1>1. /\ DOMAIN flow' = Tabs /\ \A s \in Tabs : DOMAIN flow'[s] = Fields
      /\ \A s \in Tabs : flow'[s] = flow[s] \/ FlowOK(flow'[s])
  <2>1. flow' = flow \/ flow' = [flow EXCEPT ![t] = Idle]
    BY DEF ReadSession, ReadFails
  <2>2. CASE flow' = flow
    BY <2>2 DEF TypesOK
  <2>3. CASE flow' = [flow EXCEPT ![t] = Idle]
    BY <2>3, IdleRests, Rests
  <2> QED
    BY <2>1, <2>2, <2>3
<1>2. UNCHANGED <<chainVars, nameVars, secret, account, proofVars>> /\ cookies'.session = cookies.session
      /\ cookies' = [session |-> cookies'.session, nonce |-> cookies'.nonce]
  BY DEF ReadSession, ReadFails, browserVars, TypesOK
<1>3. PICK v \in Proofs \union {None, NotRead} : tab' = [tab EXCEPT ![t].view = v] /\ (v = tab[t].view \/ ProofOK(v))
  <2>1. tab[t].view \in Proofs \union {None, NotRead}
    BY DEF TypesOK, TabRows
  <2>2. CASE ReadSession(t)
    BY <2>2, ReadOK DEF ReadSession, ProofOK
  <2>3. CASE ReadFails(t)
    BY <2>1, <2>3 DEF ReadFails, ProofOK
  <2> QED
    BY <2>2, <2>3
<1>4. /\ tab' \in [Tabs -> TabRows]
      /\ tab'[t].view = v /\ \A s \in Tabs \ {t} : tab'[s].view = tab[s].view
      /\ \A s \in Tabs : tab'[s].offer = tab[s].offer
  BY <1>3, Reads
<1>5. TypesOK'
  BY <1>1, <1>2, <1>4 DEF TypesOK, chainVars, nameVars
<1> QED
  BY <1>1, <1>2, <1>3, <1>4, <1>5, Steady

\* The wallet changes, a cookie lapses, the server starts again.
LEMMA AroundInv ==
  ASSUME ConsoleInv,
         \/ \E w \in Wallets : Connect(w)
         \/ Disconnect \/ NonceLapses \/ SessionLapses \/ Restart
  PROVE  ConsoleInv'
<1> USE DEF ConsoleInv
<1>1. UNCHANGED <<chainVars, nameVars, tab, flow, proofVars>>
  BY DEF Connect, Disconnect, NonceLapses, SessionLapses, Restart, browserVars
<1>2. account' \in Wallets \union {None}
  BY DEF Connect, Disconnect, NonceLapses, SessionLapses, Restart, browserVars, TypesOK
<1>3. secret' \in Nat
  <2>1. secret' = secret \/ secret' = secret + 1
    BY DEF Connect, Disconnect, NonceLapses, SessionLapses, Restart
  <2> QED
    BY <2>1 DEF TypesOK
<1>4. /\ cookies'.session \in {cookies.session, None}
      /\ cookies' = [session |-> cookies'.session, nonce |-> cookies'.nonce]
  BY DEF Connect, Disconnect, NonceLapses, SessionLapses, Restart, browserVars, TypesOK
<1>5. TypesOK'
  BY <1>1, <1>2, <1>3, <1>4 DEF TypesOK, chainVars, nameVars
<1> QED
  BY <1>1, <1>4, <1>5, Steady

LEMMA ProveInv ==
  ASSUME ConsoleInv, NEW t \in Tabs, Prove(t)
  PROVE  ConsoleInv'
<1> USE DEF ConsoleInv
<1> DEFINE f == [Idle EXCEPT !.phase = "asked", !.address = account, !.org = tab[t].org, !.nonce = Fresh]
<1>1. account \in Wallets /\ tab[t].org \in Orgs
  BY DEF Prove, Gate, TypesOK, TabRows
<1>2. DOMAIN f = Fields /\ f.phase = "asked" /\ f.org = tab[t].org /\ f.address = account /\ f.grant = None
  BY DEF Idle, Fields
<1>3. flow' = [flow EXCEPT ![t] = f] /\ UNCHANGED <<chainVars, nameVars, secret, account, tab, proofVars>>
  BY DEF Prove
<1> HIDE DEF f
<1>4. FlowOK(f)
  BY <1>1, <1>2 DEF FlowOK
<1>5. /\ cookies'.session = cookies.session
      /\ cookies' = [session |-> cookies'.session, nonce |-> cookies'.nonce]
  BY DEF Prove, TypesOK
<1>6. TypesOK'
  BY <1>2, <1>3, <1>5 DEF TypesOK, chainVars, nameVars
<1> QED
  BY <1>3, <1>4, <1>5, <1>6, Steady DEF TypesOK

LEMMA GiveUpInv ==
  ASSUME ConsoleInv, NEW t \in Tabs, GiveUp(t)
  PROVE  ConsoleInv'
<1>1. flow' = [flow EXCEPT ![t] = Idle] /\ UNCHANGED <<chainVars, nameVars, secret, cookies, account, tab, proofVars>>
  BY DEF GiveUp, browserVars
<1>2. /\ DOMAIN flow' = Tabs /\ \A s \in Tabs : DOMAIN flow'[s] = Fields
      /\ \A s \in Tabs : flow'[s] = flow[s] \/ FlowOK(flow'[s])
  BY <1>1, IdleRests, Rests
<1>3. TypesOK'
  BY <1>1, <1>2 DEF ConsoleInv, TypesOK, chainVars, nameVars
<1> QED
  BY <1>1, <1>2, <1>3, Steady

\* What the server grants is for the wallet that signed and owns the name as it answers.
LEMMA JudgeInv ==
  ASSUME ConsoleInv, NEW t \in Tabs, NEW late \in BOOLEAN, NEW U \in SUBSET Orgs, Judge(t, late, U)
  PROVE  ConsoleInv'
<1> USE DEF ConsoleInv
<1> DEFINE f == flow[t]
           g == IF Accepts(f, late, U) THEN Issue(f.address, f.org) ELSE None
           new == [f EXCEPT !.phase = "answered", !.grant = g]
<1>1. f.org \in Orgs /\ f.address \in Wallets /\ <<f.by, f.org>> \in signed
  BY DEF Judge, FlowsOK, FlowOK
<1>2. g # None => g \in Sessions /\ Entitled(g.address, g.org)
  <2> SUFFICES ASSUME Accepts(f, late, U)
               PROVE  g \in Sessions /\ Entitled(g.address, g.org)
    OBVIOUS
  <2>1. f.by = f.address /\ owner[f.org] = f.address
    BY <1>1, ConsoleAssumption DEF Accepts, OwnerRead
  <2>2. Entitled(f.address, f.org)
    BY <1>1, <2>1 DEF OwnersOK
  <2> QED
    BY <1>1, <2>2 DEF Issue, Sessions, TypesOK
<1>3. flow' = [flow EXCEPT ![t] = new] /\ UNCHANGED <<chainVars, nameVars, secret, cookies, account, tab, proofVars>>
  BY DEF Judge, browserVars
<1> HIDE DEF g
<1>4. DOMAIN new = Fields /\ new.phase = "answered" /\ new.org = f.org /\ new.address = f.address /\ new.grant = g
  BY DEF TypesOK, Fields
<1> HIDE DEF new
<1>5. FlowOK(new)
  BY <1>1, <1>2, <1>4 DEF FlowOK
<1>6. TypesOK'
  BY <1>3, <1>4 DEF TypesOK, chainVars, nameVars
<1> QED
  BY <1>3, <1>5, <1>6, Steady DEF TypesOK

LEMMA LandInv ==
  ASSUME ConsoleInv, NEW t \in Tabs, Land(t) \/ SignOut(t)
  PROVE  ConsoleInv'
<1> USE DEF ConsoleInv
<1>1. UNCHANGED <<chainVars, nameVars, secret, account, tab, proofVars>>
  BY DEF Land, SignOut
<1>2. /\ DOMAIN flow' = Tabs /\ \A s \in Tabs : DOMAIN flow'[s] = Fields
      /\ \A s \in Tabs : flow'[s] = flow[s] \/ FlowOK(flow'[s])
  <2> DEFINE over == [Idle EXCEPT !.phase = "reading"]
  <2>1. DOMAIN over = Fields /\ over.phase = "reading" /\ over.grant = None
    BY DEF Idle, Fields
  <2>2. flow' = [flow EXCEPT ![t] = Idle] \/ flow' = [flow EXCEPT ![t] = over]
    <3>1. CASE Land(t)
      BY <3>1 DEF Land
    <3>2. CASE SignOut(t)
      BY <3>2 DEF SignOut, TypesOK
    <3> QED
      BY <3>1, <3>2
  <2> HIDE DEF over
  <2> QED
    BY <2>1, <2>2, IdleRests, Rests
<1>3. /\ cookies' = [session |-> cookies'.session, nonce |-> cookies'.nonce]
      /\ cookies'.session \in Sessions \union {None}
      /\ \/ cookies'.session \in {cookies.session, None}
         \/ Entitled(cookies'.session.address, cookies'.session.org)
  <2>1. CASE Land(t)
    <3>1. cookies' = [nonce |-> None,
                      session |-> IF flow[t].grant = None THEN cookies.session ELSE flow[t].grant]
      BY <2>1 DEF Land
    <3>2. flow[t].grant # None =>
            flow[t].grant \in Sessions /\ Entitled(flow[t].grant.address, flow[t].grant.org)
      BY DEF FlowsOK, FlowOK
    <3> QED
      BY <3>1, <3>2 DEF TypesOK
  <2>2. CASE SignOut(t)
    BY <2>2 DEF SignOut, TypesOK
  <2> QED
    BY <2>1, <2>2
<1>4. TypesOK'
  BY <1>1, <1>2, <1>3 DEF TypesOK, chainVars, nameVars
<1> QED
  BY <1>1, <1>2, <1>3, <1>4, Steady

\* A signature entitles the wallet that owns the name already.
LEMMA SignInv ==
  ASSUME ConsoleInv, NEW t \in Tabs, Sign(t)
  PROVE  ConsoleInv'
<1> USE DEF ConsoleInv
<1> DEFINE f == flow[t]
           pair == <<account, f.org>>
           new == flow'[t]
<1>1. f.phase = "asked" /\ f.org \in Orgs /\ f.address \in Wallets
  BY DEF Sign, FlowsOK, FlowOK
<1>2. /\ signed' = signed \union {pair} /\ entitled \subseteq entitled'
      /\ owner[f.org] = account => pair \in entitled'
  BY DEF Sign
<1>3. UNCHANGED <<chainVars, nameVars, secret, cookies, account, tab>>
  BY DEF Sign, browserVars
<1>4. /\ DOMAIN flow' = Tabs /\ \A s \in Tabs \ {t} : flow'[s] = flow[s]
      /\ DOMAIN new = Fields /\ new.phase = "posted" /\ new.by = account
      /\ new.org = f.org /\ new.address = f.address /\ new.grant = f.grant
  BY DEF Sign, TypesOK, Fields
<1> HIDE DEF new
<1>5. TypesOK'
  BY <1>3, <1>4 DEF TypesOK, chainVars, nameVars, new
<1>6. FlowsOK'
  <2>1. FlowOK(flow[t])'
    BY <1>1, <1>2, <1>4 DEF FlowsOK, FlowOK, Entitled, new
  <2> QED
    BY <1>2, <1>4, <2>1 DEF FlowsOK, FlowOK, Entitled, new
<1>7. ViewsOK'
  BY <1>2, <1>3 DEF ViewsOK, ProofOK, Entitled
<1>8. OwnersOK'
  BY <1>1, <1>2, <1>3 DEF OwnersOK, Entitled, chainVars, nameVars
<1>9. OffersOK'
  BY <1>3 DEF OffersOK, Known, chainVars, nameVars
<1> QED
  BY <1>5, <1>6, <1>7, <1>8, <1>9

\* A transfer entitles a new owner who has signed before, and takes nothing back.
LEMMA TransferInv ==
  ASSUME ConsoleInv, NEW o \in Orgs, NEW w \in Wallets, Transfer(o, w)
  PROVE  ConsoleInv'
<1> USE DEF ConsoleInv
<1>1. /\ owner' = [owner EXCEPT ![o] = w] /\ owner' \in [Orgs -> Wallets]
      /\ held' = held \union {<<w, o>>} /\ entitled \subseteq entitled'
      /\ <<w, o>> \in signed => <<w, o>> \in entitled'
      /\ UNCHANGED <<setUp, recorded, noted, secret, cookies, account, tab, flow, signed>>
  BY DEF Transfer, nameVars, TypesOK, browserVars
<1>2. TypesOK'
  BY <1>1 DEF TypesOK
<1>3. FlowsOK' /\ ViewsOK'
  BY <1>1 DEF FlowsOK, FlowOK, ViewsOK, ProofOK, Entitled
<1>4. OwnersOK'
  BY <1>1 DEF OwnersOK, Entitled, TypesOK
<1>5. OffersOK'
  BY <1>1 DEF OffersOK, Known
<1> QED
  BY <1>2, <1>3, <1>4, <1>5

LEMMA SetUpInv ==
  ASSUME ConsoleInv, NEW o \in Orgs, SetUp(o)
  PROVE  ConsoleInv'
<1> USE DEF ConsoleInv
<1>1. setUp' = setUp \union {o} /\ UNCHANGED <<owner, held, recorded, noted, secret, cookies, account, tab, flow, proofVars>>
  BY DEF SetUp, nameVars, browserVars
<1>2. TypesOK' /\ OwnersOK' /\ OffersOK'
  BY <1>1 DEF TypesOK, OwnersOK, OffersOK, Known, Entitled, proofVars
<1>3. FlowsOK' /\ ViewsOK'
  BY <1>1 DEF FlowsOK, FlowOK, ViewsOK, ProofOK, Entitled, proofVars
<1> QED
  BY <1>2, <1>3

LEMMA RecordInv ==
  ASSUME ConsoleInv, NEW o \in Orgs, NEW w \in Wallets, RecordOrg(o, w)
  PROVE  ConsoleInv'
<1> USE DEF ConsoleInv
<1>1. /\ recorded' = [recorded EXCEPT ![o] = w] /\ noted' = noted \union {<<w, o>>}
      /\ UNCHANGED <<owner, setUp, held, secret, cookies, account, tab, flow, proofVars>>
  BY DEF RecordOrg, chainVars, browserVars
<1>2. recorded' \in [Orgs -> Wallets \union {None}]
  BY <1>1 DEF TypesOK
<1>3. TypesOK' /\ OwnersOK' /\ OffersOK'
  BY <1>1, <1>2 DEF TypesOK, OwnersOK, OffersOK, Known, Entitled, proofVars
<1>4. FlowsOK' /\ ViewsOK'
  BY <1>1 DEF FlowsOK, FlowOK, ViewsOK, ProofOK, Entitled, proofVars
<1> QED
  BY <1>3, <1>4

LEMMA NextInv == ConsoleInv /\ [Next]_vars => ConsoleInv'
<1> SUFFICES ASSUME ConsoleInv, [Next]_vars PROVE ConsoleInv'
  OBVIOUS
<1>1. ASSUME NEW t \in Tabs, TabStep(t) PROVE ConsoleInv'
  <2>1. CASE \/ \E o \in Orgs : \E s \in Sites[o] \union {None}, p \in Pages : Load(t, o, s, p)
             \/ Load(t, None, None, "console")
             \/ LeaveOrg(t)
             \/ \E s \in AnySite : OpenSite(t, s)
             \/ \E p \in Pages : OpenPage(t, p)
             \/ \E o \in Orgs : OpenOffered(t, o) \/ OpenByName(t, o)
    BY <2>1, NavigationInv
  <2>2. CASE \/ \E labels, U \in SUBSET Orgs : List(t, labels, U)
             \/ ListFails(t)
             \/ \E U \in SUBSET Orgs : Recall(t, U)
    BY <2>2, OffersInv
  <2>3. CASE ReadSession(t) \/ ReadFails(t)
    BY <2>3, ReadInv
  <2>4. CASE Prove(t) \/ Sign(t) \/ GiveUp(t)
    BY <2>4, ProveInv, SignInv, GiveUpInv
  <2>5. CASE \/ \E late \in BOOLEAN, U \in SUBSET Orgs : Judge(t, late, U)
             \/ Land(t) \/ SignOut(t)
    BY <2>5, JudgeInv, LandInv
  <2> QED
    BY <1>1, <2>1, <2>2, <2>3, <2>4, <2>5 DEF TabStep, AnySite
<1>2. CASE (\E w \in Wallets : Connect(w)) \/ Disconnect \/ NonceLapses \/ SessionLapses \/ Restart
  BY <1>2, AroundInv
<1>3. CASE \E o \in Orgs : SetUp(o) \/ \E w \in Wallets : Transfer(o, w) \/ RecordOrg(o, w)
  BY <1>3, SetUpInv, TransferInv, RecordInv
<1>4. CASE UNCHANGED vars
  BY <1>4 DEF vars, chainVars, nameVars, browserVars, proofVars, ConsoleInv, TypesOK, FlowsOK, FlowOK,
              ViewsOK, ProofOK, OwnersOK, OffersOK, Known, Entitled
<1> QED
  BY <1>1, <1>2, <1>3, <1>4 DEF Next

----------------------------------------------------------------------------
(* Theorems *)

\* Whoever may operate the enforcer, by the cookie or by what a tab shows, signed for the
\* organization and owned its name then or later: the server grants to nobody else, and
\* a tab never believes a session it did not read from the server.
THEOREM OperatorsProved == Spec => []ProvedOnly
<1>1. ConsoleInv => ProvedOnly
  <2> SUFFICES ASSUME ConsoleInv PROVE ProvedOnly
    OBVIOUS
  <2> USE DEF ConsoleInv
  <2>1. Live => Entitled(cookies.session.address, cookies.session.org)
    BY DEF Live, ViewsOK
  <2>2. ASSUME NEW t \in Tabs, Gate(t) = "shell" PROVE Entitled(account, tab[t].org)
    <3>1. account # None /\ tab[t].org # None /\ tab[t].view = Proof(account, tab[t].org)
          /\ tab[t].view # NotRead
      BY <2>2 DEF Gate, Proved
    <3>2. account \in Wallets /\ tab[t].org \in Orgs
      BY <3>1 DEF TypesOK, TabRows
    <3>3. tab[t].view # None
      BY <3>1, <3>2, ConsoleAssumption DEF Proof
    <3> QED
      BY <3>1, <3>3 DEF ViewsOK, ProofOK, Proof
  <2> QED
    BY <2>1, <2>2 DEF ProvedOnly, Entitled
<1> QED
  BY InitInv, NextInv, <1>1, PTL DEF Spec

\* An organization a tab offers to the connected wallet is set up, and has been its own or
\* was once recorded with it: what was read for another wallet, or is only remembered by
\* the browser, is never offered.
THEOREM OffersTheirs == Spec => []OfferedIsTheirs
<1>1. ConsoleInv => OfferedIsTheirs
  <2> SUFFICES ASSUME ConsoleInv, NEW t \in Tabs, NEW o \in Offered(t)
               PROVE  o \in setUp /\ Known(account, o)
    BY DEF OfferedIsTheirs, Known
  <2>1. tab[t].offer.of = account /\ o \in tab[t].offer.listed \union tab[t].offer.recalled
    BY DEF Offered
  <2> QED
    BY <2>1 DEF ConsoleInv, OffersOK, Known
<1> QED
  BY InitInv, NextInv, <1>1, PTL DEF Spec
=============================================================================
