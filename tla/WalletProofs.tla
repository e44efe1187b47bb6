---------------------------- MODULE WalletProofs ----------------------------
(***************************************************************************)
(* Theorems about the two places where a page makes a wallet sign: SignIn, *)
(* the sign-in at the portal, for any devices, wallets, requests and       *)
(* bounds, and Wizard, the creation of an organisation, for any labels,    *)
(* branches, groups, wallets and bounds.                                   *)
(***************************************************************************)
EXTENDS SignIn, Wizard, SequenceTheorems, FiniteSetTheorems, WellFoundedInduction, TLAPS

----------------------------------------------------------------------------
(* The store keeps the promise of Challenge *)

\* A challenge belongs to the device it was issued to, and numbers are not reused.
StoreOK ==
  /\ issued \in 0..MaxNonces
  /\ issuedTo \in [Nonces -> Ips \union {None}]
  /\ \A e \in outstanding : e.nonce \in 1..issued /\ issuedTo[e.nonce] = e.ip
  /\ \A c \in Nonces : c > issued => issuedTo[c] = None

Good == {e.nonce : e \in outstanding}

LEMMA StoreInit == Init => StoreOK
BY SignInAssumption DEF Init, StoreOK, Nonces

LEMMA IssueStore ==
  ASSUME StoreOK, NEW ip \in Ips, IssueNonce(ip)
  PROVE  /\ StoreOK'
         /\ Promise!Next
<1> DEFINE c == issued + 1
           new == [nonce |-> c, ip |-> ip, expires |-> now + TTL]
           kept == Evict(Swept)
<1>1. /\ issued \in Nat /\ MaxNonces \in Nat
      /\ c \in Nonces /\ issuedTo[c] = None
      /\ issued' = c /\ takers' = takers
      /\ issuedTo' = [issuedTo EXCEPT ![c] = ip]
      /\ outstanding' = kept \union {new}
  BY SignInAssumption DEF IssueNonce, StoreOK, Nonces
<1>2. kept \subseteq outstanding /\ new.nonce = c /\ new.ip = ip
  BY DEF Evict, Swept
<1> HIDE DEF kept, new
<1>3. StoreOK'
  <2>1. issued' \in 0..MaxNonces /\ issuedTo' \in [Nonces -> Ips \union {None}]
    BY <1>1 DEF StoreOK, Nonces
  <2>2. \A e \in outstanding' : e.nonce \in 1..c /\ issuedTo'[e.nonce] = e.ip
    BY <1>1, <1>2 DEF StoreOK, Nonces
  <2>3. \A d \in Nonces : d > c => issuedTo'[d] = None
    BY <1>1 DEF StoreOK, Nonces
  <2> QED
    BY <1>1, <2>1, <2>2, <2>3 DEF StoreOK
<1>4. Promise!Next
  <2> DEFINE S == Good \ {e.nonce : e \in kept}
  <2>1. S \in SUBSET Nonces
    BY <1>1 DEF Good, StoreOK, Nonces
  <2>2. Good' = (Good \ S) \union {c}
    BY <1>1, <1>2 DEF Good
  <2>3. Promise!Issue(c, ip, S)
    BY <1>1, <2>2 DEF Promise!Issue, Good
  <2>4. c \in Nonces
    BY <1>1
  <2> HIDE DEF S, c
  <2> QED
    BY <2>1, <2>3, <2>4 DEF Promise!Next, Promise!Issue
<1> QED
  BY <1>3, <1>4

LEMMA VerifyStore ==
  ASSUME StoreOK, NEW r \in Requests, NEW q \in Bodies, Verify(r, q)
  PROVE  /\ StoreOK'
         /\ Promise!Next
<1> DEFINE c == q.nonce
           kept == Without(Swept, c)
           S == Good \ {e.nonce : e \in kept}
<1>1. /\ outstanding' = kept /\ UNCHANGED <<issued, issuedTo>>
      /\ kept \subseteq outstanding /\ \A e \in kept : e.nonce # c
  BY DEF Verify, Without, Swept
<1>2. StoreOK'
  BY <1>1 DEF StoreOK
<1>3. S \in SUBSET Nonces /\ Good' = Good \ S
  BY <1>1, SignInAssumption DEF Good, StoreOK, Nonces
<1>4. CASE Consumes(c, q.ip)
  <2>1. c \in Good /\ c \in Nonces /\ issuedTo[c] = q.ip
    BY <1>4, SignInAssumption DEF Consumes, Swept, Good, StoreOK, Nonces
  <2>2. Good' = Good \ (S \union {c})
    BY <1>1 DEF Good
  <2>3. takers' = [takers EXCEPT ![c] = Append(@, q.ip)]
    BY <1>4 DEF Verify
  <2>4. Promise!Accept(c, S)
    BY <1>1, <2>1, <2>2, <2>3 DEF Promise!Accept, Good
  <2> HIDE DEF S, c
  <2> QED
    BY <1>2, <1>3, <2>1, <2>4 DEF Promise!Next, Promise!Accept
<1>5. CASE ~ Consumes(c, q.ip)
  <2>1. takers' = takers
    BY <1>5 DEF Verify
  <2>2. Promise!Expire(S)
    BY <1>1, <1>3, <2>1 DEF Promise!Expire, Good
  <2> HIDE DEF S
  <2> QED
    BY <1>2, <1>3, <2>2 DEF Promise!Next, Promise!Expire
<1> QED
  BY <1>4, <1>5

LEMMA RestartStore ==
  ASSUME StoreOK, Restart
  PROVE  /\ StoreOK'
         /\ Promise!Next
<1>1. outstanding' = {} /\ UNCHANGED <<issued, issuedTo, takers>>
  BY DEF Restart
<1>2. Good \in SUBSET Nonces /\ Good' = Good \ Good
  BY <1>1, SignInAssumption DEF Good, StoreOK, Nonces
<1>3. Promise!Expire(Good)
  BY <1>1, <1>2 DEF Promise!Expire, Good
<1>4. Promise!Next
  BY <1>2, <1>3 DEF Promise!Next, Promise!Expire
<1> QED
  BY <1>1, <1>4 DEF StoreOK

promiseVars == <<issuedTo, Good, takers>>

LEMMA StoreNext == StoreOK /\ [Next]_vars => StoreOK' /\ [Promise!Next]_promiseVars
<1> SUFFICES ASSUME StoreOK, [Next]_vars PROVE StoreOK' /\ [Promise!Next]_promiseVars
  OBVIOUS
<1>1. CASE \E ip \in Ips : IssueNonce(ip)
  BY <1>1, IssueStore
<1>2. CASE \E r \in Requests, q \in Bodies : Verify(r, q)
  BY <1>2, VerifyStore
<1>3. CASE Restart
  BY <1>3, RestartStore
<1>4. CASE (\E r \in Requests : Handle(r)) \/ Environment \/ UNCHANGED vars
  <2>1. UNCHANGED <<outstanding, issued, issuedTo, takers>>
    BY <1>4 DEF Handle, CheckSignature, Resolve, ResolveFails, AdmitReturns, AdmitFails,
       Environment, PortalAnswers, Transfer, Tick, vars, store
  <2> QED
    BY <2>1 DEF StoreOK, promiseVars, Good
<1> QED
  BY <1>1, <1>2, <1>3, <1>4 DEF Next

\* web/lib/portal/nonces.ts keeps the promise: with its sweeps, its evictions and
\* its restarts, a challenge is accepted at most once, from its own device, and
\* one that is gone never comes back.
THEOREM KeepsPromise == Spec => SingleUse
<1>1. Init => Promise!Init
  BY DEF Init, Promise!Init
<1>2. StoreOK /\ [Next]_vars => StoreOK' /\ [Promise!Next]_<<issuedTo, {e.nonce : e \in outstanding}, takers>>
  BY StoreNext DEF promiseVars, Good
<1> QED
  BY <1>1, <1>2, StoreInit, PTL DEF Spec, SingleUse, Promise!Spec

----------------------------------------------------------------------------
(* What an admission rests on *)

InFlight(r) == pc[r] \in {"signature", "resolve"}

TypesOK ==
  /\ pc \in [Requests -> {"new", "signature", "resolve", "admit", "done"}]
  /\ req \in [Requests -> Locals]
  /\ owner \in [Names -> Wallets \union {None}]
  /\ \A n \in Names : <<n, owner[n]>> \in owned

\* A consumed challenge is its request's alone: it is out of the store, no other
\* request holds it, and no admission was built on it yet.
FlightOK ==
  \A r \in Requests : InFlight(r) =>
    /\ req[r].nonce \in 1..issued
    /\ issuedTo[req[r].nonce] = req[r].ip
    /\ req[r].nonce \notin Good
    /\ \A q \in Requests \ {r} : InFlight(q) => req[q].nonce # req[r].nonce
    /\ \A a \in admits : a.nonce # req[r].nonce
    /\ pc[r] = "resolve" => req[r].by = req[r].wallet

SpentOK == \A a \in admits : a.nonce \in 1..issued /\ a.nonce \notin Good

AdmitInv == StoreOK /\ TypesOK /\ FlightOK /\ SpentOK /\ AdmissionProved

\* A step that consumes nothing and asks for no admission.
Quiet ==
  /\ UNCHANGED <<issued, issuedTo, admits>>
  /\ Good' \subseteq Good
  /\ owned \subseteq owned'
  /\ \A r \in Requests : InFlight(r)' =>
       /\ InFlight(r) /\ req'[r] = req[r]
       /\ pc'[r] = "resolve" => pc[r] = "resolve" \/ SignatureValid(r)

LEMMA QuietInv ==
  ASSUME AdmitInv, Quiet
  PROVE  FlightOK' /\ SpentOK' /\ AdmissionProved'
<1> USE DEF AdmitInv, Quiet
<1>1. FlightOK'
  BY DEF FlightOK, InFlight, SignatureValid
<1>2. SpentOK'
  BY DEF SpentOK
<1>3. AdmissionProved'
  BY DEF AdmissionProved
<1> QED
  BY <1>1, <1>2, <1>3

LEMMA TypesNext ==
  ASSUME AdmitInv, Next
  PROVE  TypesOK'
<1> USE DEF AdmitInv
<1>0. NoRequest \in Locals
  BY SignInAssumption DEF NoRequest, Locals
<1>1. CASE \E r \in Requests, q \in Bodies : Verify(r, q)
  <2>1. PICK r \in Requests, q \in Bodies : Verify(r, q)
    BY <1>1
  <2>2. q \in Locals
    BY SignInAssumption DEF Bodies, Locals, StoreOK
  <2> QED
    BY <1>0, <2>1, <2>2 DEF Verify, Answer, TypesOK, chainVars
<1>2. CASE \E r \in Requests : Handle(r)
  <2>1. PICK r \in Requests : Handle(r)
    BY <1>2
  <2>2. /\ \/ \E l \in {"resolve", "admit"} : Goto(r, l)
           \/ \E a \in {"denied", "outage", "online", "refused", Silence} : Answer(r, a)
        /\ UNCHANGED <<owner, owned>>
    BY <2>1 DEF Handle, CheckSignature, Resolve, ResolveFails, AdmitReturns, AdmitFails, Reported,
       chainVars
  <2> QED
    BY <1>0, <2>2 DEF Goto, Answer, TypesOK
<1>3. CASE \E n \in Names, w \in Wallets \union {None} : Transfer(n, w)
  BY <1>3 DEF Transfer, TypesOK, requests
<1>4. CASE Restart
  BY <1>0, <1>4 DEF Restart, TypesOK, chainVars
<1>5. CASE (\E ip \in Ips : IssueNonce(ip)) \/ Tick
           \/ \E a \in admits, v \in Verdicts : PortalAnswers(a, v)
  BY <1>5 DEF IssueNonce, Tick, PortalAnswers, TypesOK, requests, chainVars
<1> QED
  BY <1>1, <1>2, <1>3, <1>4, <1>5 DEF Next, Environment

LEMMA IssueAdmit ==
  ASSUME AdmitInv, NEW ip \in Ips, IssueNonce(ip)
  PROVE  FlightOK' /\ SpentOK' /\ AdmissionProved'
<1> USE DEF AdmitInv
<1>1. /\ issued \in Nat /\ issued' = issued + 1
      /\ issuedTo' = [issuedTo EXCEPT ![issued + 1] = ip]
      /\ \A c \in 1..issued : c \in Nonces /\ issuedTo'[c] = issuedTo[c]
      /\ UNCHANGED <<pc, req, owned, admits>>
  BY SignInAssumption DEF IssueNonce, StoreOK, Nonces, requests, chainVars, portal
<1>2. Good' \subseteq Good \union {issued + 1}
  <2>1. outstanding' = Evict(Swept) \union {[nonce |-> issued + 1, ip |-> ip, expires |-> now + TTL]}
    BY <1>1 DEF IssueNonce
  <2>2. Evict(Swept) \subseteq outstanding
    BY DEF Evict, Swept
  <2> QED
    BY <2>1, <2>2 DEF Good
<1>3. FlightOK'
  BY <1>1, <1>2 DEF FlightOK, InFlight
<1>4. SpentOK'
  BY <1>1, <1>2 DEF SpentOK
<1>5. AdmissionProved'
  BY <1>1 DEF SpentOK, AdmissionProved
<1> QED
  BY <1>3, <1>4, <1>5

LEMMA VerifyAdmit ==
  ASSUME AdmitInv, NEW r \in Requests, NEW q \in Bodies, Verify(r, q)
  PROVE  FlightOK' /\ SpentOK' /\ AdmissionProved'
<1> USE DEF AdmitInv
<1>1. /\ UNCHANGED <<issued, issuedTo, owned, admits>>
      /\ Good' \subseteq Good /\ q.nonce \notin Good'
  BY DEF Verify, Good, Without, Swept, chainVars, portal
<1>2. CASE Consumes(q.nonce, q.ip)
  <2>1. /\ pc' = [pc EXCEPT ![r] = "signature"] /\ req' = [req EXCEPT ![r] = q]
        /\ pc[r] = "new"
    BY <1>2 DEF Verify
  <2>2. q.nonce \in Good /\ q.nonce \in 1..issued /\ issuedTo[q.nonce] = q.ip
    BY <1>2 DEF Consumes, Swept, Good, StoreOK
  <2>3. FlightOK'
    <3> SUFFICES ASSUME NEW t \in Requests, InFlight(t)'
                 PROVE  (/\ req[t].nonce \in 1..issued
                         /\ issuedTo[req[t].nonce] = req[t].ip
                         /\ req[t].nonce \notin Good
                         /\ \A u \in Requests \ {t} : InFlight(u) => req[u].nonce # req[t].nonce
                         /\ \A a \in admits : a.nonce # req[t].nonce
                         /\ pc[t] = "resolve" => req[t].by = req[t].wallet)'
      BY DEF FlightOK
    <3>1. CASE t = r
      BY <1>1, <2>1, <2>2, <3>1 DEF FlightOK, InFlight, TypesOK, SpentOK
    <3>2. CASE t # r
      BY <1>1, <2>1, <2>2, <3>2 DEF FlightOK, InFlight, TypesOK
    <3> QED
      BY <3>1, <3>2
  <2> QED
    BY <1>1, <2>3 DEF SpentOK, AdmissionProved
<1>3. CASE ~ Consumes(q.nonce, q.ip)
  <2>1. Quiet
    BY <1>1, <1>3 DEF Verify, Answer, Quiet, InFlight, TypesOK
  <2> QED
    BY <2>1, QuietInv
<1> QED
  BY <1>2, <1>3

LEMMA ResolveAdmit ==
  ASSUME AdmitInv, NEW r \in Requests, Resolve(r)
  PROVE  FlightOK' /\ SpentOK' /\ AdmissionProved'
<1> USE DEF AdmitInv
<1>1. /\ pc[r] = "resolve" /\ req[r] \in Locals
      /\ UNCHANGED <<outstanding, issued, issuedTo, owned>>
  BY DEF Resolve, TypesOK, store, chainVars
<1>2. CASE \E n \in Candidates(r) : Theirs(r, n) /\ Goto(r, "admit")
             /\ admits' = admits \union {[req |-> r, ip |-> req[r].ip, name |-> n,
                             nonce |-> req[r].nonce, by |-> req[r].by]}
  <2>1. PICK n \in Candidates(r) :
               /\ Theirs(r, n) /\ Goto(r, "admit")
               /\ admits' = admits \union {[req |-> r, ip |-> req[r].ip, name |-> n,
                              nonce |-> req[r].nonce, by |-> req[r].by]}
    BY <1>2
  <2> DEFINE new == [req |-> r, ip |-> req[r].ip, name |-> n,
                     nonce |-> req[r].nonce, by |-> req[r].by]
  <2>2. /\ new.nonce = req[r].nonce /\ new.ip = req[r].ip
        /\ new.name = n /\ new.by = req[r].wallet
        /\ admits' = admits \union {new}
    BY <1>1, <2>1 DEF FlightOK, InFlight
  <2>3. <<new.name, new.by>> \in owned
    <3>1. n \in Names
      BY <1>1 DEF Candidates, Locals
    <3> QED
      BY <2>1, <2>2, <3>1 DEF Theirs, TypesOK
  <2>4. /\ req[r].nonce \in 1..issued /\ issuedTo[req[r].nonce] = req[r].ip
        /\ req[r].nonce \notin Good /\ \A a \in admits : a.nonce # req[r].nonce
    BY <1>1 DEF FlightOK, InFlight
  <2>5. pc' = [pc EXCEPT ![r] = "admit"] /\ req' = req
    BY <2>1 DEF Goto
  <2> HIDE DEF new
  <2>6. SpentOK'
    BY <1>1, <2>2, <2>4 DEF SpentOK, Good
  <2>7. AdmissionProved'
    BY <1>1, <2>2, <2>3, <2>4 DEF AdmissionProved
  <2>8. FlightOK'
    BY <1>1, <2>2, <2>5 DEF FlightOK, InFlight, Good, TypesOK
  <2> QED
    BY <2>6, <2>7, <2>8
<1>3. CASE Answer(r, "denied") /\ UNCHANGED admits
  <2>1. Quiet
    BY <1>1, <1>3 DEF Answer, Quiet, InFlight, Good, TypesOK
  <2> QED
    BY <2>1, QuietInv
<1> QED
  BY <1>2, <1>3 DEF Resolve

LEMMA OtherAdmit ==
  ASSUME AdmitInv,
         \/ \E r \in Requests : CheckSignature(r) \/ ResolveFails(r) \/ AdmitReturns(r) \/ AdmitFails(r)
         \/ Environment
         \/ Restart
  PROVE  FlightOK' /\ SpentOK' /\ AdmissionProved'
<1> USE DEF AdmitInv
<1>1. CASE \E r \in Requests : CheckSignature(r) \/ ResolveFails(r) \/ AdmitReturns(r) \/ AdmitFails(r)
  <2>1. PICK r \in Requests : CheckSignature(r) \/ ResolveFails(r) \/ AdmitReturns(r) \/ AdmitFails(r)
    BY <1>1
  <2>2. UNCHANGED <<outstanding, issued, issuedTo, admits, owned>>
    BY <2>1 DEF CheckSignature, ResolveFails, AdmitReturns, AdmitFails, store, chainVars, portal
  <2>3. \/ \E a : Answer(r, a)
        \/ Goto(r, "resolve") /\ pc[r] = "signature" /\ SignatureValid(r)
    BY <2>1 DEF CheckSignature, ResolveFails, AdmitReturns, AdmitFails
  <2>4. Quiet
    BY <2>2, <2>3 DEF Answer, Goto, Quiet, InFlight, Good, TypesOK
  <2> QED
    BY <2>4, QuietInv
<1>2. CASE Environment
  <2>1. UNCHANGED <<outstanding, issued, issuedTo, admits, pc, req>> /\ owned \subseteq owned'
    BY <1>2 DEF Environment, PortalAnswers, Transfer, Tick, store, requests, portal, chainVars
  <2>2. Quiet
    BY <2>1 DEF Quiet, InFlight, Good
  <2> QED
    BY <2>2, QuietInv
<1>3. CASE Restart
  <2>1. Quiet
    BY <1>3 DEF Restart, Quiet, InFlight, Good, chainVars, portal
  <2> QED
    BY <2>1, QuietInv
<1> QED
  BY <1>1, <1>2, <1>3

LEMMA AdmitNext == AdmitInv /\ [Next]_vars => AdmitInv'
<1> SUFFICES ASSUME AdmitInv, [Next]_vars PROVE AdmitInv'
  OBVIOUS
<1>1. CASE UNCHANGED vars
  BY <1>1 DEF AdmitInv, StoreOK, TypesOK, FlightOK, SpentOK, AdmissionProved, InFlight, Good,
     vars, store, requests, chainVars, portal
<1>2. CASE Next
  <2>1. StoreOK' /\ TypesOK'
    BY <1>2, StoreNext, TypesNext DEF AdmitInv
  <2>2. FlightOK' /\ SpentOK' /\ AdmissionProved'
    BY <1>2, IssueAdmit, VerifyAdmit, ResolveAdmit, OtherAdmit DEF Next, Handle
  <2> QED
    BY <2>1, <2>2 DEF AdmitInv
<1> QED
  BY <1>1, <1>2

LEMMA AdmitInit == Init => AdmitInv
<1> SUFFICES ASSUME Init PROVE AdmitInv
  OBVIOUS
<1>1. NoRequest \in Locals
  BY SignInAssumption DEF NoRequest, Locals
<1>2. owner \in [Names -> Wallets \union {None}]
  BY DEF Init
<1>3. TypesOK
  BY <1>1, <1>2 DEF Init, TypesOK
<1> QED
  BY <1>3, StoreInit DEF Init, AdmitInv, FlightOK, SpentOK, AdmissionProved, InFlight

\* No device is put forward for admission but on a challenge that was issued to it,
\* that no other admission used, and that a wallet which has owned the name has
\* signed: for any number of requests, however they interleave with transfers on
\* chain, evictions and restarts of the console.
THEOREM AdmissionsProved == Spec => []AdmissionProved
<1>1. AdmitInv => AdmissionProved
  BY DEF AdmitInv
<1> QED
  BY <1>1, AdmitInit, AdmitNext, PTL DEF Spec

----------------------------------------------------------------------------
(* Eviction *)

LEMMA LeastNat ==
  ASSUME NEW N, N \subseteq Nat, N # {}
  PROVE  \E x \in N : \A y \in N : x <= y
<1>1. PICK x \in N : \A y \in N : ~ (<<y, x>> \in OpToRel(<, Nat))
  BY WFMin, NatLessThanWellFounded
<1>2. \A y, z \in Nat : y < z => <<y, z>> \in OpToRel(<, Nat)
  BY Zenon DEF OpToRel
<1>3. \A y \in N : ~ (y < x)
  BY <1>1, <1>2, Zenon
<1> QED
  BY <1>3

\* A finite set of entries in which a nonce occurs once.
Entries(S) ==
  /\ IsFiniteSet(S)
  /\ \A e \in S : e.nonce \in Nonces
  /\ \A e, k \in S : e.nonce = k.nonce => e = k

Newer(S, e) == {k \in S : k.nonce > e.nonce}

LEMMA EntriesEnds ==
  ASSUME NEW S, Entries(S), S # {}
  PROVE  /\ \E e \in S : \A k \in S : e.nonce <= k.nonce
         /\ \E e \in S : \A k \in S : k.nonce <= e.nonce
<1>1. MaxNonces \in Nat /\ \A e \in S : e.nonce \in 1..MaxNonces
  BY SignInAssumption DEF Entries, Nonces
<1>2. \E e \in S : \A k \in S : e.nonce <= k.nonce
  <2> DEFINE N == {e.nonce : e \in S}
  <2>1. N \subseteq Nat /\ N # {}
    BY <1>1
  <2>2. PICK x \in N : \A y \in N : x <= y
    BY <2>1, LeastNat
  <2> QED
    BY <2>2
<1>3. \E e \in S : \A k \in S : k.nonce <= e.nonce
  <2> DEFINE N == {MaxNonces - e.nonce : e \in S}
  <2>1. N \subseteq Nat /\ N # {}
    BY <1>1
  <2>2. PICK x \in N : \A y \in N : x <= y
    BY <2>1, LeastNat
  <2>3. PICK e \in S : x = MaxNonces - e.nonce
    BY <2>2
  <2>4. \A k \in S : MaxNonces - e.nonce <= MaxNonces - k.nonce
    BY <2>2, <2>3
  <2> QED
    BY <1>1, <2>4
<1> QED
  BY <1>2, <1>3

LEMMA Parts ==
  ASSUME NEW S, Entries(S), NEW T, T \subseteq S
  PROVE  /\ Entries(T) /\ Cardinality(T) \in Nat
         /\ \A U : U \subseteq T => Cardinality(U) <= Cardinality(T)
<1>1. IsFiniteSet(T) /\ IsFiniteSet(S)
  BY FS_Subset DEF Entries
<1>2. \A U : U \subseteq T => Cardinality(U) <= Cardinality(T)
  BY <1>1, FS_Subset
<1>3. Cardinality(T) \in Nat
  BY <1>1, FS_CardinalityType
<1> QED
  BY <1>1, <1>2, <1>3 DEF Entries

\* Eviction leaves room for one, keeps the newest, and drops nothing it has room for.
LEMMA EvictNewest ==
  ASSUME NEW S, Entries(S)
  PROVE  /\ Entries(Evict(S)) /\ Evict(S) \subseteq S
         /\ Cardinality(Evict(S)) \in Nat
         /\ Cardinality(Evict(S)) <= MAX_OUTSTANDING - 1
         /\ \A e \in S \ Evict(S) : /\ Cardinality(Evict(S)) = MAX_OUTSTANDING - 1
                                    /\ \A k \in Evict(S) : k.nonce > e.nonce
<1> DEFINE T == Evict(S)
           M == MAX_OUTSTANDING - 1
<1>0. M \in Nat /\ \A e \in S : e.nonce \in Nat
  BY SignInAssumption DEF Entries, Nonces
<1>1. T \subseteq S
  BY DEF Evict
<1>2. \A e \in S : e \in T <=> Cardinality(Newer(S, e)) < M
  BY DEF Evict, Newer
<1>3. \A e \in S : Newer(S, e) \subseteq S /\ Cardinality(Newer(S, e)) \in Nat
  BY Parts DEF Newer
<1> HIDE DEF T, M
<1>4. Entries(T) /\ Cardinality(T) \in Nat
  BY <1>1, Parts
<1>5. Cardinality(T) <= M
  <2>1. CASE T = {}
    BY <1>0, <2>1, FS_EmptySet
  <2>2. CASE T # {}
    <3>1. PICK e \in T : \A k \in T : e.nonce <= k.nonce
      BY <1>4, <2>2, EntriesEnds
    <3>2. \A k \in T : k # e => k.nonce # e.nonce
      BY <1>4 DEF Entries
    <3>3. T \ {e} \subseteq Newer(S, e)
      BY <1>0, <1>1, <3>1, <3>2 DEF Newer
    <3>4. Cardinality(T \ {e}) <= Cardinality(Newer(S, e))
      BY <1>1, <1>3, <3>3, Parts
    <3>5. Cardinality(T \ {e}) = Cardinality(T) - 1
      BY <1>4, FS_RemoveElement DEF Entries
    <3> QED
      BY <1>0, <1>1, <1>2, <1>3, <1>4, <3>4, <3>5
  <2> QED
    BY <2>1, <2>2
<1>6. ASSUME NEW e \in S \ T
      PROVE  Cardinality(T) = M /\ \A k \in T : k.nonce > e.nonce
  <2>1. S \ T # {} /\ Entries(S \ T)
    BY Parts
  <2>2. PICK u \in S \ T : \A k \in S \ T : k.nonce <= u.nonce
    BY <2>1, EntriesEnds
  <2>3. Newer(S, u) \subseteq T
    BY <1>0, <2>2 DEF Newer
  <2>4. Cardinality(Newer(S, u)) <= Cardinality(T)
    BY <1>1, <2>3, Parts
  <2>5. ~ (Cardinality(Newer(S, u)) < M)
    BY <1>2
  <2>6. Cardinality(T) = M
    BY <1>0, <1>3, <1>4, <1>5, <2>4, <2>5
  <2>7. ASSUME NEW k \in T, ~ (k.nonce > e.nonce)
        PROVE  FALSE
    <3>1. Newer(S, e) \subseteq Newer(S, k)
      BY <1>0, <1>1, <2>7 DEF Newer
    <3>2. Cardinality(Newer(S, e)) <= Cardinality(Newer(S, k))
      BY <1>1, <1>3, <3>1, Parts
    <3> QED
      BY <1>0, <1>1, <1>2, <1>3, <3>2
  <2> QED
    BY <2>6, <2>7
<1> QED
  BY <1>1, <1>4, <1>5, <1>6 DEF T, M

----------------------------------------------------------------------------
(* The Map stays small, and what it drops is old *)

StoreTypes ==
  /\ outstanding \subseteq [nonce : Nonces, ip : Ips, expires : Nat]
  /\ Entries(outstanding)
  /\ Cardinality(outstanding) <= MAX_OUTSTANDING
  /\ now \in 0..MaxNow
  /\ takers \in [Nonces -> Seq(Ips)]

LEMMA IssueShape ==
  ASSUME StoreOK, StoreTypes, NEW ip \in Ips, IssueNonce(ip)
  PROVE  LET new == [nonce |-> issued + 1, ip |-> ip, expires |-> now + TTL]
             kept == Evict(Swept)
         IN  /\ Entries(Swept) /\ kept \subseteq outstanding
             /\ outstanding' = kept \union {new} /\ issued + 1 \in Nonces
             /\ \A e \in outstanding : e.nonce < issued + 1
             /\ Entries(outstanding')
             /\ Cardinality(outstanding') = Cardinality(kept) + 1
<1> DEFINE new == [nonce |-> issued + 1, ip |-> ip, expires |-> now + TTL]
           kept == Evict(Swept)
<1>1. Entries(Swept) /\ Swept \subseteq outstanding
  BY Parts DEF StoreTypes, Swept
<1>2. Entries(kept) /\ kept \subseteq outstanding
  BY <1>1, EvictNewest
<1>3. /\ outstanding' = kept \union {new} /\ issued + 1 \in Nonces
      /\ \A e \in outstanding : e.nonce < issued + 1
  BY SignInAssumption DEF IssueNonce, StoreOK, Nonces
<1>4. new.nonce = issued + 1
  OBVIOUS
<1> HIDE DEF kept, new
<1>5. new \notin kept
  BY <1>2, <1>3, <1>4, SignInAssumption DEF Nonces
<1>6. IsFiniteSet(kept \union {new}) /\ Cardinality(kept \union {new}) = Cardinality(kept) + 1
  BY <1>2, <1>5, FS_AddElement DEF Entries
<1>7. Entries(kept \union {new})
  <2>1. \A e \in kept \union {new} : e.nonce \in Nonces
    BY <1>2, <1>3, <1>4 DEF Entries
  <2>2. \A e, k \in kept \union {new} : e.nonce = k.nonce => e = k
    <3>1. \A e \in kept : e.nonce < issued + 1 /\ e.nonce \in Nat /\ issued \in Nat
      BY <1>2, <1>3, SignInAssumption DEF Entries, Nonces, StoreOK
    <3>2. \A e, k \in kept : e.nonce = k.nonce => e = k
      BY <1>2 DEF Entries
    <3>3. \A e \in kept : e.nonce # new.nonce
      BY <1>4, <3>1
    <3> QED
      BY <3>2, <3>3
  <2> QED
    BY <1>6, <2>1, <2>2 DEF Entries
<1> QED
  BY <1>1, <1>2, <1>3, <1>6, <1>7 DEF kept, new

LEMMA StoreTypesNext ==
  ASSUME StoreOK, StoreTypes, [Next]_vars
  PROVE  StoreTypes'
<1>1. ASSUME NEW ip \in Ips, IssueNonce(ip) PROVE StoreTypes'
  <2> DEFINE new == [nonce |-> issued + 1, ip |-> ip, expires |-> now + TTL]
             kept == Evict(Swept)
  <2>1. /\ Entries(Swept) /\ kept \subseteq outstanding
        /\ outstanding' = kept \union {new} /\ issued + 1 \in Nonces
        /\ Entries(outstanding') /\ Cardinality(outstanding') = Cardinality(kept) + 1
    BY <1>1, IssueShape
  <2>2. new \in [nonce : Nonces, ip : Ips, expires : Nat]
    BY <2>1, SignInAssumption DEF StoreTypes
  <2>3. Cardinality(kept) \in Nat /\ Cardinality(kept) <= MAX_OUTSTANDING - 1
    BY <2>1, EvictNewest
  <2>4. UNCHANGED <<now, takers>>
    BY <1>1 DEF IssueNonce
  <2> HIDE DEF new, kept
  <2> QED
    BY <2>1, <2>2, <2>3, <2>4, SignInAssumption DEF StoreTypes
<1>2. ASSUME outstanding' \subseteq outstanding
      PROVE  /\ outstanding' \subseteq [nonce : Nonces, ip : Ips, expires : Nat]
             /\ Entries(outstanding') /\ Cardinality(outstanding') <= MAX_OUTSTANDING
  <2>1. Entries(outstanding') /\ Cardinality(outstanding') \in Nat /\ Cardinality(outstanding) \in Nat
        /\ Cardinality(outstanding') <= Cardinality(outstanding)
    BY <1>2, Parts DEF StoreTypes
  <2> QED
    BY <1>2, <2>1, SignInAssumption DEF StoreTypes
<1>3. ASSUME NEW r \in Requests, NEW q \in Bodies, Verify(r, q) PROVE StoreTypes'
  <2>1. outstanding' \subseteq outstanding /\ now' = now
    BY <1>3 DEF Verify, Without, Swept
  <2>2. takers' \in [Nonces -> Seq(Ips)]
    <3>1. q.ip \in Ips
      BY DEF Bodies
    <3>2. \/ takers' = takers
          \/ takers' = [takers EXCEPT ![q.nonce] = Append(@, q.ip)]
      BY <1>3 DEF Verify
    <3>3. \A c \in Nonces : takers[c] \in Seq(Ips) /\ Append(takers[c], q.ip) \in Seq(Ips)
      BY <3>1 DEF StoreTypes
    <3> QED
      BY <3>2, <3>3 DEF StoreTypes
  <2> QED
    BY <1>2, <2>1, <2>2 DEF StoreTypes
<1>4. CASE Restart
  BY <1>2, <1>4 DEF Restart, StoreTypes
<1>5. CASE Tick
  BY <1>2, <1>5, SignInAssumption DEF Tick, store, StoreTypes
<1>6. CASE \/ \E r \in Requests : Handle(r)
           \/ \E a \in admits, v \in Verdicts : PortalAnswers(a, v)
           \/ \E n \in Names, w \in Wallets \union {None} : Transfer(n, w)
           \/ UNCHANGED vars
  <2>1. UNCHANGED <<outstanding, now, takers>>
    BY <1>6 DEF Handle, CheckSignature, Resolve, ResolveFails, AdmitReturns, AdmitFails,
       PortalAnswers, Transfer, vars, store
  <2> QED
    BY <1>2, <2>1 DEF StoreTypes
<1> QED
  BY <1>1, <1>3, <1>4, <1>5, <1>6 DEF Next, Environment

LEMMA StoreTypesInit == Init => StoreTypes
<1> SUFFICES ASSUME Init PROVE StoreTypes
  OBVIOUS
<1>1. outstanding = {} /\ now = 0 /\ takers = [c \in Nonces |-> <<>>]
  BY DEF Init
<1> QED
  BY <1>1, FS_EmptySet, SignInAssumption DEF StoreTypes, Entries

LEMMA OldestDropped ==
  ASSUME StoreOK, StoreTypes, [Next]_vars, issued' # issued,
         NEW e \in outstanding \ outstanding', Alive(e)
  PROVE  /\ Cardinality(outstanding') = MAX_OUTSTANDING
         /\ \A k \in outstanding' : k.nonce > e.nonce
<1> DEFINE kept == Evict(Swept)
<1>1. PICK ip \in Ips : IssueNonce(ip)
  BY DEF Next, Verify, Handle, CheckSignature, Resolve, ResolveFails, AdmitReturns, AdmitFails,
     Environment, PortalAnswers, Transfer, Tick, Restart, vars, store
<1> DEFINE new == [nonce |-> issued + 1, ip |-> ip, expires |-> now + TTL]
<1>2. /\ Entries(Swept) /\ outstanding' = kept \union {new}
      /\ e.nonce < issued + 1 /\ e.nonce \in Nat /\ issued \in Nat
      /\ Cardinality(outstanding') = Cardinality(kept) + 1
  BY <1>1, IssueShape, SignInAssumption DEF StoreOK, Nonces, StoreTypes
<1>3. e \in Swept \ kept
  BY <1>2 DEF Swept
<1>4. Cardinality(kept) = MAX_OUTSTANDING - 1 /\ \A k \in kept : k.nonce > e.nonce
  BY <1>2, <1>3, EvictNewest
<1>5. new.nonce > e.nonce
  BY <1>2
<1> HIDE DEF kept, new
<1> QED
  BY <1>2, <1>4, <1>5, SignInAssumption

\* A flood of challenges costs the oldest ones first, however many a gateway has
\* outstanding: what issuing one drops had expired, or is older than all that is kept
\* of a full map (nonces.ts, "Bounded by eviction, never by clearing").
THEOREM OldestFirst == Spec => OldestGoFirst
<1>1. StoreOK /\ StoreTypes /\ [Next]_vars =>
        [issued' # issued =>
           \A e \in outstanding \ outstanding' :
             Alive(e) => /\ Cardinality(outstanding') = MAX_OUTSTANDING
                         /\ \A k \in outstanding' : k.nonce > e.nonce]_vars
  BY OldestDropped
<1>2. StoreOK /\ StoreTypes /\ [Next]_vars => StoreOK' /\ StoreTypes'
  BY StoreNext, StoreTypesNext
<1> QED
  BY <1>1, <1>2, StoreInit, StoreTypesInit, PTL DEF Spec, OldestGoFirst

----------------------------------------------------------------------------
(* What the page is told *)

\* A request in flight has what its body carried.
Body == [nonce : Nonces, ip : Ips, wallet : Wallets, by : Wallets, want : Names \union {None}]

CallTypes ==
  /\ \A r \in Requests : InFlight(r) => req[r] \in Body
  /\ admits \subseteq [req : Requests, ip : Ips, name : Names, nonce : Nonces, by : Wallets]
  /\ verdict \in [Requests -> Verdicts \union {None}]
  /\ reply \in [Requests -> {None, "denied", "outage", "online", "refused", Silence}]

SaysInv == AdmitInv /\ CallTypes /\ ReplyIsTrue

\* A reply other than the portal's own verdict claims nothing about it.
LEMMA AnswerTrue ==
  ASSUME TypesOK, CallTypes, ReplyIsTrue, NEW r \in Requests, NEW a, Answer(r, a), UNCHANGED verdict,
         a \in {"denied", "outage", "online", "refused", Silence},
         a = "online" => verdict[r] = "admitted",
         a = "refused" => verdict[r] \in Denials
  PROVE  /\ ReplyIsTrue'
         /\ reply' \in [Requests -> {None, "denied", "outage", "online", "refused", Silence}]
         /\ \A t \in Requests : InFlight(t)' => InFlight(t) /\ req'[t] = req[t]
<1>1. reply' = [reply EXCEPT ![r] = a]
  BY DEF Answer
<1>2. ReplyIsTrue'
  BY <1>1 DEF ReplyIsTrue, CallTypes
<1>3. \A t \in Requests : InFlight(t)' => InFlight(t) /\ req'[t] = req[t]
  BY DEF Answer, InFlight, TypesOK
<1> QED
  BY <1>1, <1>2, <1>3 DEF CallTypes

LEMMA SaysNext == SaysInv /\ [Next]_vars => SaysInv'
<1> SUFFICES ASSUME SaysInv, [Next]_vars PROVE SaysInv'
  OBVIOUS
<1> USE DEF SaysInv
<1>0. AdmitInv' /\ TypesOK /\ StoreOK /\ issued \in Nat
  BY AdmitNext, SignInAssumption DEF AdmitInv, StoreOK
<1>1. ASSUME NEW r \in Requests, NEW q \in Bodies, Verify(r, q)
      PROVE  CallTypes' /\ ReplyIsTrue'
  <2>1. UNCHANGED <<admits, verdict>> /\ pc[r] = "new"
    BY <1>1 DEF Verify, portal
  <2>2. CASE Consumes(q.nonce, q.ip)
    <3>1. q \in Body
      BY <1>0, SignInAssumption DEF Bodies, Body, StoreOK, Nonces
    <3>2. pc' = [pc EXCEPT ![r] = "signature"] /\ req' = [req EXCEPT ![r] = q] /\ reply' = reply
      BY <1>1, <2>2 DEF Verify
    <3> QED
      BY <1>0, <2>1, <3>1, <3>2 DEF CallTypes, ReplyIsTrue, InFlight, TypesOK
  <2>3. CASE ~ Consumes(q.nonce, q.ip)
    <3>1. Answer(r, "denied")
      BY <1>1, <2>3 DEF Verify
    <3> QED
      BY <1>0, <2>1, <3>1, AnswerTrue DEF CallTypes
  <2> QED
    BY <2>2, <2>3
<1>2. ASSUME NEW r \in Requests, CheckSignature(r) \/ ResolveFails(r) \/ AdmitReturns(r) \/ AdmitFails(r)
      PROVE  CallTypes' /\ ReplyIsTrue'
  <2>1. UNCHANGED <<admits, verdict>>
    BY <1>2 DEF CheckSignature, ResolveFails, AdmitReturns, AdmitFails, portal
  <2>2. CASE Goto(r, "resolve") /\ pc[r] = "signature"
    BY <1>0, <2>1, <2>2 DEF Goto, CallTypes, ReplyIsTrue, InFlight, TypesOK
  <2>3. CASE \E a \in {"denied", "outage", Silence} : Answer(r, a)
    BY <1>0, <2>1, <2>3, AnswerTrue DEF CallTypes, Silence
  <2>4. CASE verdict[r] # None /\ Answer(r, Reported(verdict[r]))
    <3>1. verdict[r] \in Verdicts
      BY <2>4 DEF CallTypes
    <3>2. /\ Reported(verdict[r]) \in {"online", "refused"}
          /\ Reported(verdict[r]) = "online" => verdict[r] = "admitted"
          /\ Reported(verdict[r]) = "refused" => verdict[r] \in Denials
      BY <3>1 DEF Reported, Verdicts
    <3> QED
      BY <1>0, <2>1, <2>4, <3>2, AnswerTrue DEF CallTypes
  <2> QED
    BY <1>2, <2>2, <2>3, <2>4 DEF CheckSignature, ResolveFails, AdmitReturns, AdmitFails
<1>3. ASSUME NEW r \in Requests, Resolve(r)
      PROVE  CallTypes' /\ ReplyIsTrue'
  <2>1. UNCHANGED verdict /\ pc[r] = "resolve" /\ req[r] \in Body
    BY <1>3 DEF Resolve, CallTypes, InFlight
  <2>2. CASE Answer(r, "denied") /\ UNCHANGED admits
    BY <1>0, <2>1, <2>2, AnswerTrue DEF CallTypes
  <2>3. CASE \E n \in Candidates(r) :
               /\ Goto(r, "admit")
               /\ admits' = admits \union {[req |-> r, ip |-> req[r].ip, name |-> n,
                               nonce |-> req[r].nonce, by |-> req[r].by]}
    <3>1. PICK n \in Candidates(r) :
                 /\ Goto(r, "admit")
                 /\ admits' = admits \union {[req |-> r, ip |-> req[r].ip, name |-> n,
                                 nonce |-> req[r].nonce, by |-> req[r].by]}
      BY <2>3
    <3>2. n \in Names
      BY <2>1 DEF Candidates, Body
    <3>3. admits' \subseteq [req : Requests, ip : Ips, name : Names, nonce : Nonces, by : Wallets]
      BY <2>1, <3>1, <3>2 DEF CallTypes, Body
    <3>4. pc' = [pc EXCEPT ![r] = "admit"] /\ UNCHANGED <<req, reply>>
      BY <3>1 DEF Goto
    <3> QED
      BY <1>0, <2>1, <3>3, <3>4 DEF CallTypes, ReplyIsTrue, InFlight, TypesOK
  <2> QED
    BY <1>3, <2>2, <2>3 DEF Resolve
<1>4. ASSUME NEW a \in admits, NEW v \in Verdicts, PortalAnswers(a, v)
      PROVE  CallTypes' /\ ReplyIsTrue'
  <2>1. a.req \in Requests /\ verdict[a.req] = None /\ verdict' = [verdict EXCEPT ![a.req] = v]
    BY <1>4 DEF PortalAnswers, CallTypes
  <2>2. UNCHANGED <<admits, pc, req, reply>>
    BY <1>4 DEF PortalAnswers, requests
  <2>3. verdict[a.req] # "admitted" /\ verdict[a.req] \notin Denials
    BY <2>1, SignInAssumption DEF Verdicts
  <2> QED
    BY <2>1, <2>2, <2>3 DEF CallTypes, ReplyIsTrue, InFlight
<1>5. CASE Restart
  BY <1>0, <1>5 DEF Restart, portal, CallTypes, ReplyIsTrue, InFlight
<1>6. CASE \/ \E ip \in Ips : IssueNonce(ip)
           \/ \E n \in Names, w \in Wallets \union {None} : Transfer(n, w)
           \/ Tick
           \/ UNCHANGED vars
  <2>1. UNCHANGED <<admits, verdict, pc, req, reply>>
    BY <1>6 DEF IssueNonce, Transfer, Tick, vars, requests, portal
  <2> QED
    BY <1>0, <2>1 DEF CallTypes, ReplyIsTrue, InFlight
<1> QED
  BY <1>0, <1>1, <1>2, <1>3, <1>4, <1>5, <1>6 DEF Next, Environment, Handle

LEMMA SaysInit == Init => SaysInv
<1> SUFFICES ASSUME Init PROVE SaysInv
  OBVIOUS
<1>1. /\ admits = {} /\ verdict = [r \in Requests |-> None] /\ reply = [r \in Requests |-> None]
      /\ \A r \in Requests : pc[r] = "new"
  BY DEF Init
<1>2. None \notin {"online", "refused"}
  BY SignInAssumption
<1> QED
  BY <1>1, <1>2, AdmitInit DEF SaysInv, CallTypes, ReplyIsTrue, InFlight

\* A page that says online was told so by the portal, and one that says refused has an
\* answer of the portal that did not admit: a timeout, a lost call or a restart is
\* never worded as an answer (verify/route.ts).
THEOREM RepliesTrue == Spec => []ReplyIsTrue
<1>1. SaysInv => ReplyIsTrue
  BY DEF SaysInv
<1> QED
  BY <1>1, SaysInit, SaysNext, PTL DEF Spec

\* Every table has its type, and the map of challenges its bound: no flood of requests
\* for a challenge makes it grow past MAX_OUTSTANDING.
THEOREM Typed == Spec => []TypeOK
<1>1. SaysInv /\ StoreTypes => TypeOK
  BY SignInAssumption DEF SaysInv, AdmitInv, StoreOK, TypesOK, StoreTypes, CallTypes, TypeOK
<1>2. SaysInv /\ StoreTypes /\ [Next]_vars => SaysInv' /\ StoreTypes'
  BY SaysNext, StoreTypesNext DEF SaysInv, AdmitInv
<1> QED
  BY <1>1, <1>2, SaysInit, StoreTypesInit, PTL DEF Spec

----------------------------------------------------------------------------
(* Wizard.  A transaction is the fold of its calls, a recursive function:  *)
(* it is what its equation says because a solution exists, and a property  *)
(* of all its values is a set that has 0 and with n also n + 1.            *)

\* A set that has 0 and with each number the next has all of them: its least stranger would
\* have a predecessor inside.
LEMMA AllNaturals ==
  ASSUME NEW S, 0 \in S, \A n \in Nat : n \in S => n + 1 \in S
  PROVE  Nat \subseteq S
<1>1. SUFFICES ASSUME Nat \ S # {} PROVE FALSE
  OBVIOUS
<1>2. PICK x \in Nat \ S : \A y \in Nat \ S : ~ (<<y, x>> \in OpToRel(<, Nat))
  <2>1. Nat \ S \subseteq Nat
    OBVIOUS
  <2> QED
    BY <1>1, <2>1, WFMin, NatLessThanWellFounded
<1>3. \A y, z \in Nat : y < z => <<y, z>> \in OpToRel(<, Nat)
  BY Zenon DEF OpToRel
<1>4. \A y \in Nat \ S : ~ (y < x)
  BY <1>2, <1>3, Zenon
<1>5. x # 0 /\ x - 1 \in Nat /\ x - 1 < x
  OBVIOUS
<1>6. x - 1 \in S
  BY <1>4, <1>5
<1>7. (x - 1) + 1 \in S
  BY <1>5, <1>6
<1> QED
  BY <1>7

\* A recursion over 0..N whose steps stay in V has a solution.
LEMMA Recursion ==
  ASSUME NEW V, NEW base \in V, NEW N \in Nat, NEW f \in [1..N -> [V -> V]]
  PROVE  \E r \in [0..N -> V] : r[0] = base /\ \A n \in 1..N : r[n] = f[n][r[n - 1]]
<1> DEFINE Solves(r, M) == r \in [0..M -> V] /\ r[0] = base /\ \A n \in 1..M : r[n] = f[n][r[n - 1]]
           S == {M \in Nat : M <= N => \E r : Solves(r, M)}
<1>1. 0 \in S
  <2> DEFINE g == [n \in 0..0 |-> base]
  <2>1. Solves(g, 0)
    OBVIOUS
  <2> QED
    BY <2>1
<1>2. ASSUME NEW M \in Nat, M \in S PROVE M + 1 \in S
  <2>1. SUFFICES ASSUME M + 1 <= N PROVE \E r : Solves(r, M + 1)
    OBVIOUS
  <2>2. PICK r : Solves(r, M)
    BY <1>2, <2>1
  <2> DEFINE g == [n \in 0..(M + 1) |-> IF n <= M THEN r[n] ELSE f[M + 1][r[M]]]
  <2>3. r[M] \in V /\ M + 1 \in 1..N
    BY <2>1, <2>2
  <2>4. f[M + 1][r[M]] \in V
    BY <2>3
  <2>5. g \in [0..(M + 1) -> V] /\ g[0] = base
    BY <2>2, <2>4
  <2>6. ASSUME NEW n \in 1..(M + 1) PROVE g[n] = f[n][g[n - 1]]
    <3>1. CASE n \in 1..M
      <4>1. n \in 0..M /\ n - 1 \in 0..M
        BY <3>1
      <4>2. g[n] = r[n] /\ g[n - 1] = r[n - 1]
        BY <4>1
      <4> QED
        BY <2>2, <3>1, <4>2
    <3>2. CASE n = M + 1
      <4>1. n - 1 = M /\ ~(n <= M) /\ n \in 0..(M + 1) /\ M \in 0..(M + 1)
        BY <3>2
      <4>2. g[n] = f[M + 1][r[M]] /\ g[M] = r[M]
        BY <4>1
      <4> QED
        BY <3>2, <4>1, <4>2
    <3> QED
      BY <3>1, <3>2
  <2> HIDE DEF g
  <2> QED
    BY <2>5, <2>6
<1>3. N \in S
  <2> HIDE DEF S
  <2> QED
    BY <1>1, <1>2, AllNaturals
<1> QED
  BY <1>3

----------------------------------------------------------------------------
(* Batches of calls *)

Calls == {Call(op, l, None) : op \in {"grant", "create", "revoke"}, l \in Labels}
  \union {Call(op, l, l) : op \in {"setSub", "setRes"}, l \in Labels}
  \union {Call("branch", l, b) : l \in Labels, b \in BranchLabels}
  \union {Call("define", r, g) : r \in Registrars, g \in Groups}

\* What no call takes away: a pointer that is right, an open branch, a group.
Grown(old, new) ==
  /\ \A l \in Labels : old.sub[l] = l => new.sub[l] = l
  /\ \A r \in Registrars : old.branch[r] # None => new.branch[r] # None
  /\ \A r \in Registrars : old.roles[r] \subseteq new.roles[r]

\* What each of the calls that the wizard sends is about.
LEMMA CallKinds ==
  ASSUME NEW c \in Calls
  PROVE  \/ c.op \in {"grant", "create", "revoke"} /\ c.label \in Labels
         \/ c.op \in {"setSub", "setRes"} /\ c.label \in Labels /\ c.arg = c.label
         \/ c.op = "branch" /\ c.label \in Labels /\ c.arg \in BranchLabels
         \/ c.op = "define" /\ c.label \in Registrars /\ c.arg \in Groups
BY DEF Calls, Call

\* A call leaves a chain, takes nothing away, and gives no permission unless it is a grant.
LEMMA ExecutedType ==
  ASSUME NEW ch \in Chains, NEW c \in Calls, NEW by \in Wallets
  PROVE  /\ Executed(ch, c, by) \in Chains
         /\ Grown(ch, Executed(ch, c, by))
         /\ c.op # "grant" => Executed(ch, c, by).delegated \subseteq ch.delegated
<1> DEFINE new == Executed(ch, c, by)
<1>1. CASE c.op = "grant"
  <2>1. new = [ch EXCEPT !.delegated = @ \union {c.label}] /\ c.label \in Labels
    BY <1>1, CallKinds DEF Executed
  <2> HIDE DEF new
  <2>2. new \in Chains /\ Grown(ch, new)
    BY <2>1 DEF Chains, Grown
  <2> QED
    BY <1>1, <2>2 DEF new
<1>2. CASE c.op = "revoke"
  <2>1. new = [ch EXCEPT !.delegated = @ \ {c.label}]
    BY <1>2 DEF Executed
  <2> HIDE DEF new
  <2>2. new \in Chains /\ Grown(ch, new)
    BY <2>1 DEF Chains, Grown
  <2>3. new.delegated \subseteq ch.delegated
    BY <2>1 DEF Chains
  <2> QED
    BY <2>3, <2>2 DEF new
<1>3. CASE c.op = "create"
  <2>1. new = Created(ch, c.label, by) /\ c.label \in Labels
    BY <1>3, CallKinds DEF Executed
  <2> HIDE DEF new
  <2>2. new \in Chains /\ new.delegated = ch.delegated
    BY <2>1 DEF Chains, Created
  <2>3. Grown(ch, new)
    BY <2>1 DEF Chains, Created, Grown
  <2> QED
    BY <2>2, <2>3 DEF new
<1>4. CASE c.op \in {"setSub", "setRes"}
  <2>1. c.label \in Labels /\ c.arg = c.label
    BY <1>4, CallKinds
  <2>2. new \in {[ch EXCEPT !.sub[c.label] = c.arg], [ch EXCEPT !.res[c.label] = c.arg]}
    BY <1>4 DEF Executed
  <2> HIDE DEF new
  <2>3. new \in Chains /\ new.delegated = ch.delegated
    BY <2>1, <2>2 DEF Chains
  <2>4. Grown(ch, new)
    BY <2>1, <2>2 DEF Chains, Grown
  <2> QED
    BY <2>3, <2>4 DEF new
<1>5. CASE c.op = "branch"
  <2>1. new = [ch EXCEPT !.branch[<<c.label, c.arg>>] = by] /\ <<c.label, c.arg>> \in Registrars
    BY <1>5, CallKinds DEF Executed, Registrars
  <2> HIDE DEF new
  <2>2. new \in Chains /\ new.delegated = ch.delegated
    BY <2>1 DEF Chains
  <2>3. Grown(ch, new)
    BY <2>1, PartiesAssumption DEF Chains, Grown
  <2> QED
    BY <2>2, <2>3 DEF new
<1>6. CASE c.op = "define"
  <2>1. new = [ch EXCEPT !.roles[c.label] = @ \union {c.arg}] /\ c.label \in Registrars /\ c.arg \in Groups
    BY <1>6, CallKinds DEF Executed
  <2> HIDE DEF new
  <2>2. new \in Chains /\ new.delegated = ch.delegated
    BY <2>1 DEF Chains
  <2>3. Grown(ch, new)
    BY <2>1 DEF Chains, Grown
  <2> QED
    BY <2>2, <2>3 DEF new
<1> QED
  BY <1>1, <1>2, <1>3, <1>4, <1>5, <1>6, CallKinds

Accs == [chain : Chains, ok : BOOLEAN]

\* The same of a call on top of those before it.
LEMMA AfterType ==
  ASSUME NEW acc \in Accs, NEW c \in Calls, NEW by \in Wallets
  PROVE  /\ After(by, acc, c) \in Accs
         /\ Grown(acc.chain, After(by, acc, c).chain)
         /\ c.op # "grant" => After(by, acc, c).chain.delegated \subseteq acc.chain.delegated
<1> DEFINE permits == Permits(acc.chain, c, by)
<1>1. acc.chain \in Chains /\ acc.ok \in BOOLEAN
  BY DEF Accs
<1>2. permits \in BOOLEAN
  <2>1. \/ permits = (acc.chain.owner[c.label] = by)
        \/ permits = (acc.chain.creator[c.label] = None /\ acc.chain.owner[c.label] = by)
        \/ permits = (acc.chain.creator[c.label] = by /\ acc.chain.branch[<<c.label, c.arg>>] = None)
        \/ permits = (acc.chain.branch[c.label] = by)
    BY CallKinds, Zenon DEF Permits
  <2> QED
    BY <2>1
<1> HIDE DEF permits
<1>3. After(by, acc, c) = [chain |-> Executed(acc.chain, c, by), ok |-> acc.ok /\ permits]
  BY DEF After, permits
<1> QED
  BY <1>1, <1>2, <1>3, ExecutedType DEF Accs

\* A recursion over the calls of a batch has a solution.
LEMMA AccRecursion ==
  ASSUME NEW b \in Accs, NEW N \in Nat, NEW f \in [1..N -> [Accs -> Accs]]
  PROVE  \E r \in [0..N -> Accs] : r[0] = b /\ \A n \in 1..N : r[n] = f[n][r[n - 1]]
BY Recursion

\* The equation of Trace: what its recursive definition says, and the type of each step.
LEMMA TraceSteps ==
  ASSUME NEW ch \in Chains, NEW calls \in Seq(Calls), NEW by \in Wallets
  PROVE  /\ Trace(ch, calls, by) \in [0..Len(calls) -> Accs]
         /\ Trace(ch, calls, by)[0] = [chain |-> ch, ok |-> TRUE]
         /\ \A n \in 1..Len(calls) :
              Trace(ch, calls, by)[n] = After(by, Trace(ch, calls, by)[n - 1], calls[n])
<1> DEFINE base == [chain |-> ch, ok |-> TRUE]
           N == Len(calls)
           F(r) == [n \in 0..N |-> IF n = 0 THEN base ELSE After(by, r[n - 1], calls[n])]
           f == [n \in 1..N |-> [acc \in Accs |-> After(by, acc, calls[n])]]
           T == Trace(ch, calls, by)
<1>1. N \in Nat /\ \A n \in 1..N : calls[n] \in Calls
  OBVIOUS
<1>2. base \in Accs
  BY DEF Accs
<1>3. f \in [1..N -> [Accs -> Accs]]
  BY <1>1, AfterType
<1>4. PICK r \in [0..N -> Accs] : r[0] = base /\ \A n \in 1..N : r[n] = f[n][r[n - 1]]
  <2>1. N \in Nat
    OBVIOUS
  <2> HIDE DEF base, N, f
  <2> QED
    BY <1>2, <1>3, <2>1, AccRecursion
<1>5. ASSUME NEW n \in 1..N PROVE r[n] = After(by, r[n - 1], calls[n])
  <2>1. n - 1 \in 0..N
    BY <1>1
  <2>2. f[n][r[n - 1]] = After(by, r[n - 1], calls[n])
    BY <2>1
  <2> QED
    BY <1>4, <2>2
<1> HIDE DEF base, N, f
<1>6. r = F(r)
  <2>1. \A n \in 0..N : n # 0 => n \in 1..N
    BY <1>1
  <2> QED
    BY <1>4, <1>5, <2>1
<1>7. T = F(T)
  <2>1. T = CHOOSE q : q = F(q)
    BY DEF Trace, base, N
  <2>2. \E q : q = F(q)
    BY <1>6
  <2> HIDE DEF F, T
  <2> QED
    BY <2>1, <2>2
<1> HIDE DEF T
<1>8. T[0] = base /\ \A n \in 1..N : T[n] = After(by, T[n - 1], calls[n])
  <2>1. \A n \in 1..N : n \in 0..N /\ n # 0
    BY <1>1
  <2> QED
    BY <1>1, <1>7, <2>1
<1>9. \A n \in 0..N : T[n] \in Accs
  <2> DEFINE S == {n \in Nat : n <= N => T[n] \in Accs}
  <2>1. 0 \in S
    BY <1>2, <1>8
  <2>2. ASSUME NEW n \in Nat, n \in S PROVE n + 1 \in S
    <3> SUFFICES ASSUME n + 1 <= N PROVE T[n + 1] \in Accs
      OBVIOUS
    <3>1. n + 1 \in 1..N /\ T[n] \in Accs
      BY <1>1, <2>2
    <3>2. T[n + 1] = After(by, T[(n + 1) - 1], calls[n + 1])
      BY <1>8, <3>1
    <3> QED
      BY <1>1, <3>1, <3>2, AfterType
  <2> HIDE DEF S
  <2>3. Nat \subseteq S
    BY <2>1, <2>2, AllNaturals
  <2> QED
    BY <1>1, <2>3 DEF S
<1>10. T \in [0..N -> Accs]
  BY <1>7, <1>9
<1> QED
  BY <1>8, <1>10 DEF T, N, base

\* No number of calls takes anything away.
LEMMA TraceGrows ==
  ASSUME NEW ch \in Chains, NEW calls \in Seq(Calls), NEW by \in Wallets
  PROVE  \A n \in 0..Len(calls) : Grown(ch, Trace(ch, calls, by)[n].chain)
<1> DEFINE T == Trace(ch, calls, by)
           N == Len(calls)
           S == {n \in Nat : n <= N => Grown(ch, T[n].chain)}
<1>1. N \in Nat /\ \A n \in 1..N : calls[n] \in Calls
  OBVIOUS
<1>2. /\ \A n \in 0..N : T[n] \in Accs
      /\ T[0] = [chain |-> ch, ok |-> TRUE]
      /\ \A n \in 1..N : T[n] = After(by, T[n - 1], calls[n])
  BY TraceSteps
<1> HIDE DEF T, N
<1>3. 0 \in S
  BY <1>2 DEF Grown
<1>4. ASSUME NEW n \in Nat, n \in S PROVE n + 1 \in S
  <2> SUFFICES ASSUME n + 1 <= N PROVE Grown(ch, T[n + 1].chain)
    OBVIOUS
  <2>1. n \in 0..N /\ n + 1 \in 1..N /\ (n + 1) - 1 = n
    BY <1>1
  <2>2. T[n + 1] = After(by, T[n], calls[n + 1]) /\ T[n] \in Accs /\ calls[n + 1] \in Calls
    BY <1>1, <1>2, <2>1
  <2>3. Grown(T[n].chain, T[n + 1].chain)
    BY <2>2, AfterType
  <2>4. Grown(ch, T[n].chain)
    BY <1>4, <2>1
  <2> QED
    BY <2>3, <2>4 DEF Grown
<1> HIDE DEF S
<1>5. Nat \subseteq S
  BY <1>3, <1>4, AllNaturals
<1> QED
  BY <1>1, <1>5 DEF S, T, N

NoGrant(calls) == \A i \in DOMAIN calls : calls[i].op # "grant"

\* Calls without a grant among them give no permission.
LEMMA TraceGrantsNothing ==
  ASSUME NEW ch \in Chains, NEW calls \in Seq(Calls), NEW by \in Wallets, NoGrant(calls)
  PROVE  \A n \in 0..Len(calls) : Trace(ch, calls, by)[n].chain.delegated \subseteq ch.delegated
<1> DEFINE T == Trace(ch, calls, by)
           N == Len(calls)
           S == {n \in Nat : n <= N => T[n].chain.delegated \subseteq ch.delegated}
<1>1. N \in Nat /\ \A n \in 1..N : calls[n] \in Calls /\ calls[n].op # "grant"
  BY DEF NoGrant
<1>2. /\ \A n \in 0..N : T[n] \in Accs
      /\ T[0] = [chain |-> ch, ok |-> TRUE]
      /\ \A n \in 1..N : T[n] = After(by, T[n - 1], calls[n])
  BY TraceSteps
<1> HIDE DEF T, N
<1>3. 0 \in S
  BY <1>2
<1>4. ASSUME NEW n \in Nat, n \in S PROVE n + 1 \in S
  <2> SUFFICES ASSUME n + 1 <= N PROVE T[n + 1].chain.delegated \subseteq ch.delegated
    OBVIOUS
  <2>1. n \in 0..N /\ n + 1 \in 1..N /\ (n + 1) - 1 = n
    BY <1>1
  <2>2. T[n + 1] = After(by, T[n], calls[n + 1]) /\ T[n] \in Accs
    BY <1>2, <2>1
  <2>3. T[n + 1].chain.delegated \subseteq T[n].chain.delegated
    BY <1>1, <2>1, <2>2, AfterType
  <2> QED
    BY <1>4, <2>1, <2>3
<1> HIDE DEF S
<1>5. Nat \subseteq S
  BY <1>3, <1>4, AllNaturals
<1> QED
  BY <1>1, <1>5 DEF S, T, N

DefinesOf(r) == {Call("define", r, g) : g \in Groups}

\* As long as every call was permitted, the group of each is there.
LEMMA TraceDefines ==
  ASSUME NEW ch \in Chains, NEW r \in Registrars, NEW calls \in Seq(DefinesOf(r)), NEW by \in Wallets
  PROVE  \A n \in 0..Len(calls) : \A i \in 1..n : calls[i].arg \in Trace(ch, calls, by)[n].chain.roles[r]
<1> DEFINE T == Trace(ch, calls, by)
           N == Len(calls)
           S == {n \in Nat : n <= N => \A i \in 1..n : calls[i].arg \in T[n].chain.roles[r]}
<1>0. DefinesOf(r) \subseteq Calls
  BY DEF DefinesOf, Calls
<1>1. N \in Nat /\ calls \in Seq(Calls) /\ \A n \in 1..N : calls[n] \in Calls /\ calls[n] \in DefinesOf(r)
  <2>1. calls \in Seq(Calls)
    BY <1>0
  <2> QED
    BY <1>0, <2>1
<1>2. /\ \A n \in 0..N : T[n] \in Accs
      /\ \A n \in 1..N : T[n] = After(by, T[n - 1], calls[n])
  BY <1>1, TraceSteps
<1> HIDE DEF T, N
<1>3. 0 \in S
  OBVIOUS
<1>4. ASSUME NEW n \in Nat, n \in S PROVE n + 1 \in S
  <2> SUFFICES ASSUME n + 1 <= N PROVE \A i \in 1..(n + 1) : calls[i].arg \in T[n + 1].chain.roles[r]
    OBVIOUS
  <2> DEFINE c == calls[n + 1]
  <2>1. n \in 0..N /\ n + 1 \in 1..N /\ (n + 1) - 1 = n
    BY <1>1
  <2>2. T[n + 1] = After(by, T[n], c) /\ T[n].chain \in Chains
    BY <1>2, <2>1 DEF Accs
  <2>3. c.op = "define" /\ c.label = r /\ c.arg \in Groups
    BY <1>1, <2>1 DEF DefinesOf, Call
  <2>4. T[n + 1].chain = Executed(T[n].chain, c, by)
    BY <2>2 DEF After
  <2> HIDE DEF c
  <2>5. Executed(T[n].chain, c, by) = [T[n].chain EXCEPT !.roles[r] = @ \union {c.arg}]
    BY <2>3 DEF Executed
  <2>6. T[n + 1].chain.roles[r] = T[n].chain.roles[r] \union {c.arg}
    BY <2>2, <2>4, <2>5 DEF Chains
  <2>7. \A i \in 1..n : calls[i].arg \in T[n].chain.roles[r]
    BY <1>4, <2>1
  <2>8. \A i \in 1..(n + 1) : i \in 1..n \/ i = n + 1
    OBVIOUS
  <2> QED
    BY <2>6, <2>7, <2>8 DEF c
<1> HIDE DEF S
<1>5. Nat \subseteq S
  BY <1>3, <1>4, AllNaturals
<1> QED
  BY <1>1, <1>5 DEF S, T, N

\* A transaction: the chain stays one, nothing is taken away, and no permission is given
\* unless a call gives it.
LEMMA TransactType ==
  ASSUME NEW ch \in Chains, NEW calls \in Seq(Calls), NEW by \in Wallets
  PROVE  /\ Transact(ch, calls, by) \in Accs
         /\ Grown(ch, Transact(ch, calls, by).chain)
         /\ NoGrant(calls) => Transact(ch, calls, by).chain.delegated \subseteq ch.delegated
         /\ ~Transact(ch, calls, by).ok => Transact(ch, calls, by).chain = ch
<1> DEFINE end == Trace(ch, calls, by)[Len(calls)]
           old == [chain |-> ch, ok |-> FALSE]
<1>1. Len(calls) \in 0..Len(calls)
  OBVIOUS
<1>2. end \in Accs /\ Grown(ch, end.chain) /\ (NoGrant(calls) => end.chain.delegated \subseteq ch.delegated)
  BY <1>1, TraceSteps, TraceGrows, TraceGrantsNothing
<1>3. old \in Accs /\ Grown(ch, old.chain) /\ old.chain = ch
  BY DEF Accs, Grown
<1>4. Transact(ch, calls, by) = IF end.ok THEN end ELSE old
  BY DEF Transact
<1> HIDE DEF end, old
<1> QED
  BY <1>2, <1>3, <1>4

\* A transaction of one call that goes through is that call.
LEMMA TransactOne ==
  ASSUME NEW ch \in Chains, NEW c \in Calls, NEW by \in Wallets, Transact(ch, <<c>>, by).ok
  PROVE  Transact(ch, <<c>>, by).chain = Executed(ch, c, by)
<1> DEFINE calls == <<c>>
           T == Trace(ch, calls, by)
<1>1. calls \in Seq(Calls) /\ Len(calls) = 1 /\ calls[1] = c
  OBVIOUS
<1> HIDE DEF calls
<1>2. T[0] = [chain |-> ch, ok |-> TRUE] /\ T[1] = After(by, T[0], c)
  <2>1. \A n \in 1..1 : T[n] = After(by, T[n - 1], calls[n])
    BY <1>1, TraceSteps
  <2> QED
    BY <1>1, <2>1, TraceSteps
<1>3. Transact(ch, calls, by) = IF T[1].ok THEN T[1] ELSE [chain |-> ch, ok |-> FALSE]
  BY <1>1 DEF Transact
<1>4. T[1].chain = Executed(ch, c, by)
  BY <1>2 DEF After
<1> HIDE DEF T
<1> QED
  BY <1>3, <1>4 DEF calls

\* A batch of definitions that goes through defines every group in it.
LEMMA TransactDefines ==
  ASSUME NEW ch \in Chains, NEW r \in Registrars, NEW calls \in Seq(DefinesOf(r)), NEW by \in Wallets,
         Transact(ch, calls, by).ok
  PROVE  NamesIn(calls) \subseteq Transact(ch, calls, by).chain.roles[r]
<1> DEFINE end == Trace(ch, calls, by)[Len(calls)]
<1>1. Len(calls) \in 0..Len(calls) /\ DOMAIN calls = 1..Len(calls)
  OBVIOUS
<1>2. \A i \in DOMAIN calls : calls[i].arg \in end.chain.roles[r]
  BY <1>1, TraceDefines
<1>3. Transact(ch, calls, by) = IF end.ok THEN end ELSE [chain |-> ch, ok |-> FALSE]
  BY DEF Transact
<1> HIDE DEF end
<1>4. Transact(ch, calls, by) = end
  BY <1>3
<1> QED
  BY <1>2, <1>4 DEF NamesIn

\* A batched deployment hands back what it was given.
LEMMA TransactDeployment ==
  ASSUME NEW ch \in Chains, NEW l \in Labels, NEW by \in Wallets
  PROVE  /\ DeployCalls(l) \in Seq(Calls)
         /\ Transact(ch, DeployCalls(l), by).chain.delegated \subseteq ch.delegated
<1> DEFINE calls == DeployCalls(l)
           T == Trace(ch, calls, by)
           g == Call("grant", l, None)
           c == Call("create", l, None)
           r == Call("revoke", l, None)
<1>1. g \in Calls /\ c \in Calls /\ r \in Calls
  BY DEF Calls
<1>2. calls = <<g, c, r>>
  BY DEF DeployCalls
<1>3. g.op = "grant" /\ c.op = "create" /\ r.op = "revoke" /\ g.label = l /\ r.label = l
  BY DEF Call
<1> HIDE DEF g, c, r
<1>4. calls \in Seq(Calls) /\ Len(calls) = 3 /\ calls[1] = g /\ calls[2] = c /\ calls[3] = r
  BY <1>1, <1>2
<1> HIDE DEF calls
<1>5. /\ \A n \in 0..3 : T[n] \in Accs
      /\ T[0] = [chain |-> ch, ok |-> TRUE]
      /\ \A n \in 1..3 : T[n] = After(by, T[n - 1], calls[n])
  BY <1>4, TraceSteps
<1>6. T[1] = After(by, T[0], g) /\ T[2] = After(by, T[1], c) /\ T[3] = After(by, T[2], r)
  BY <1>4, <1>5
<1>7. Transact(ch, calls, by) = IF T[3].ok THEN T[3] ELSE [chain |-> ch, ok |-> FALSE]
  BY <1>4 DEF Transact
<1> HIDE DEF T
<1>8. T[1].chain.delegated = ch.delegated \union {l}
  <2>1. T[1].chain = Executed(ch, g, by)
    BY <1>5, <1>6 DEF After
  <2>2. Executed(ch, g, by) = [ch EXCEPT !.delegated = @ \union {l}]
    BY <1>3 DEF Executed
  <2> QED
    BY <2>1, <2>2 DEF Chains
<1>9. T[2].chain.delegated \subseteq T[1].chain.delegated /\ T[2].chain \in Chains
  BY <1>1, <1>3, <1>5, <1>6, AfterType DEF Accs
<1>10. T[3].chain.delegated = T[2].chain.delegated \ {l}
  <2>1. T[3].chain = Executed(T[2].chain, r, by)
    BY <1>6 DEF After
  <2>2. Executed(T[2].chain, r, by) = [T[2].chain EXCEPT !.delegated = @ \ {l}]
    BY <1>3 DEF Executed
  <2> QED
    BY <1>9, <2>1, <2>2 DEF Chains
<1> QED
  BY <1>4, <1>7, <1>8, <1>9, <1>10 DEF calls

----------------------------------------------------------------------------
(* The invariant of Wizard *)

Batches == Seq(Calls) \ {<<>>}
MempoolRows == [calls : Batches, by : Wallets, to : Slots \union {"batch", "nobody"}]
Kinds == {"idle", "create", "createBatch", "point", "branch", "define", "defineBatch"}
Fates == {"unsent", "sent", "ok", "reverted"}
JobRows == [kind : Kinds, todo : Seq(Batches), at : Fates, ran : SUBSET Groups]
RefreshRows == [at : {"asked", "found", "none", "pointed", "unpointed"}, last : BOOLEAN]
DraftRows == [id : Nat, name : Groups]

WizardTypesOK ==
  /\ chain \in Chains /\ mempool \in Seq(MempoolRows)
  /\ orgName \in Labels \union {None} /\ registrar \in Registrars \union {None}
  /\ wallet \in Wallets \union {None} /\ typed \in BranchLabels \union {None}
  /\ drafts \in Seq(DraftRows) /\ DOMAIN outcomes = Groups
  /\ jobs \in [Slots -> JobRows] /\ refreshes \subseteq RefreshRows

Early == {"connect", "name"}
Opened == {"branch", "groups", "done"}
Points(l) == chain.sub[l] = l

\* What the page has reached at each of its steps: it sends nothing before the name is
\* chosen, and is past the contracts only when the name points at them.
StepsOK ==
  /\ step \in Early \union {"setup"} \union Opened
  /\ step \in Early => jobs["setup"].kind = "idle" /\ refreshes = {} /\ setup = "unknown"
  /\ step \notin Opened => jobs["page"].kind = "idle"
  /\ step \notin Early => orgName \in Labels
  /\ step \in Opened => org = orgName /\ Points(orgName)
  /\ registrar # None => /\ step \in {"groups", "done"} /\ registrar[1] = orgName
                         /\ chain.branch[registrar] # None
  /\ step = "done" => registrar # None
  /\ setup = "pointed" \/ (\E x \in refreshes : x.at = "pointed") => Points(orgName)

Grant(l) == Call("grant", l, None)
Create(l) == Call("create", l, None)
TakeBack(l) == Call("revoke", l, None)

\* What is left of a deployment, or of a pointing, at each moment.
Deployments(l) == {<<>>, << <<TakeBack(l)>> >>, << <<Create(l)>>, <<TakeBack(l)>> >>,
                   << <<Grant(l)>>, <<Create(l)>>, <<TakeBack(l)>> >>}
Pointings(l) == {<<>>, << <<Call("setRes", l, l)>> >>, PointCalls(l)}

SetupJobOK(j) ==
  /\ \/ j = Idle
     \/ j.kind = "create" /\ j.todo \in Deployments(orgName)
     \/ j.kind = "createBatch" /\ j.todo = <<DeployCalls(orgName)>> /\ j.at = "unsent"
     \/ j.kind = "point" /\ j.todo \in Pointings(orgName)
  /\ j.todo = <<>> => j.at = "unsent"

Published(g) == g \in chain.roles[registrar] \/ <<registrar, g>> \in reverted

\* The branch being opened is one of this organisation, and the only one; groups are
\* defined in it alone, and those whose receipt came are there or were reverted.
BranchJobOK(j) ==
  /\ j.kind = "branch" /\ registrar = None
  /\ \E b \in BranchLabels : /\ j.todo = << <<Call("branch", orgName, b)>> >>
                             /\ j.at = "ok" => chain.branch[<<orgName, b>>] # None
DefineJobOK(j) ==
  /\ j.kind \in {"define", "defineBatch"} /\ registrar # None
  /\ j.todo # <<>> /\ \A i \in DOMAIN j.todo : j.todo[i] \in Seq(DefinesOf(registrar))
  /\ \A g \in j.ran : Published(g)
  /\ j.at \in {"ok", "reverted"} => \A g \in NamesIn(Head(j.todo)) : Published(g)
PageJobOK(j) == j = Idle \/ BranchJobOK(j) \/ DefineJobOK(j)

\* A transaction somebody waits for is the one its loop sent last.
WatchOK ==
  \A i \in 1..Len(mempool) : mempool[i].to \in Slots =>
    /\ jobs[mempool[i].to].at = "sent"
    /\ mempool[i].calls = Head(jobs[mempool[i].to].todo)
    /\ \A h \in 1..Len(mempool) : mempool[h].to = mempool[i].to => h = i

\* The loop that waits for its last refresh has nothing left to send.
LastOK ==
  \A x \in refreshes : x.last =>
    /\ Busy("setup") /\ jobs["setup"].todo = <<>>
    /\ \A y \in refreshes : y.last => y = x

\* The loop is going to take the permission back.
Owing(l) == /\ l = orgName /\ jobs["setup"].kind = "create" /\ jobs["setup"].todo # <<>>
            /\ Len(jobs["setup"].todo) = 1 => jobs["setup"].at \in {"unsent", "sent"}

\* A permission that is given, or about to be.
PermissionsOK ==
  /\ \A l \in chain.delegated : l \in cut \/ Owing(l)
  /\ \A i \in 1..Len(mempool) :
       \/ NoGrant(mempool[i].calls)
       \/ \E l \in Labels : mempool[i].calls = DeployCalls(l)
       \/ \E l \in Labels : mempool[i].calls = <<Grant(l)>> /\ (l \in cut \/ mempool[i].to = "setup")

OutcomesOK == \A g \in Groups : outcomes[g] = "defined" => registrar # None /\ Published(g)

WizardInv ==
  /\ WizardTypesOK /\ StepsOK /\ SetupJobOK(jobs["setup"]) /\ PageJobOK(jobs["page"])
  /\ WatchOK /\ LastOK /\ PermissionsOK /\ OutcomesOK

----------------------------------------------------------------------------
(* Sequences of the model *)

Lists == Seq(DraftRows)

\* A recursion over the drafts has a solution.
LEMMA DraftRecursion ==
  ASSUME NEW b \in Lists, NEW N \in Nat, NEW f \in [1..N -> [Lists -> Lists]]
  PROVE  \E r \in [0..N -> Lists] : r[0] = b /\ \A n \in 1..N : r[n] = f[n][r[n - 1]]
BY Recursion

\* What is pending is a list of drafts.
LEMMA PendingType ==
  ASSUME drafts \in Seq(DraftRows)
  PROVE  Pending \in Seq(DraftRows)
<1> DEFINE N == Len(drafts)
           F(r) == [n \in 0..N |-> IF n = 0 THEN <<>>
                                   ELSE IF IsDefined(drafts[n]) THEN r[n - 1]
                                   ELSE Append(r[n - 1], drafts[n])]
           f == [n \in 1..N |-> [s \in Lists |-> IF IsDefined(drafts[n]) THEN s ELSE Append(s, drafts[n])]]
           P == PendingOf
<1>1. N \in Nat /\ \A n \in 1..N : drafts[n] \in DraftRows
  OBVIOUS
<1>2. <<>> \in Lists /\ f \in [1..N -> [Lists -> Lists]]
  BY <1>1 DEF Lists
<1>3. PICK r \in [0..N -> Lists] : r[0] = <<>> /\ \A n \in 1..N : r[n] = f[n][r[n - 1]]
  <2>1. N \in Nat
    OBVIOUS
  <2> HIDE DEF N, f
  <2> QED
    BY <1>2, <2>1, DraftRecursion
<1>4. ASSUME NEW n \in 1..N
      PROVE  r[n] = IF IsDefined(drafts[n]) THEN r[n - 1] ELSE Append(r[n - 1], drafts[n])
  <2>1. r[n - 1] \in Lists
    BY <1>1, <1>3
  <2>2. f[n][r[n - 1]] = IF IsDefined(drafts[n]) THEN r[n - 1] ELSE Append(r[n - 1], drafts[n])
    BY <2>1
  <2> QED
    BY <1>3, <2>2
<1> HIDE DEF N, f
<1>5. r = F(r)
  <2>1. \A n \in 0..N : n # 0 => n \in 1..N
    BY <1>1
  <2> QED
    BY <1>3, <1>4, <2>1
<1>6. P = F(P)
  <2>1. P = CHOOSE q : q = F(q)
    BY DEF PendingOf, N
  <2>2. \E q : q = F(q)
    BY <1>5
  <2> HIDE DEF F, P
  <2> QED
    BY <2>1, <2>2
<1> HIDE DEF P
<1>7. /\ P[0] = <<>>
      /\ \A n \in 1..N : P[n] = IF IsDefined(drafts[n]) THEN P[n - 1] ELSE Append(P[n - 1], drafts[n])
  <2>1. 0 \in 0..N /\ \A n \in 1..N : n \in 0..N /\ n # 0
    BY <1>1
  <2>2. \A n \in 0..N : F(P)[n] = IF n = 0 THEN <<>>
                                 ELSE IF IsDefined(drafts[n]) THEN P[n - 1] ELSE Append(P[n - 1], drafts[n])
    BY Zenon
  <2> HIDE DEF F
  <2>3. \A n \in 0..N : P[n] = F(P)[n]
    BY <1>6
  <2> QED
    BY <2>1, <2>2, <2>3, Zenon
<1> DEFINE S == {n \in Nat : n <= N => P[n] \in Lists}
<1>8. 0 \in S
  BY <1>2, <1>7
<1>9. ASSUME NEW n \in Nat, n \in S PROVE n + 1 \in S
  <2> SUFFICES ASSUME n + 1 <= N PROVE P[n + 1] \in Lists
    OBVIOUS
  <2>1. n + 1 \in 1..N /\ P[n] \in Lists /\ drafts[n + 1] \in DraftRows /\ (n + 1) - 1 = n
    BY <1>1, <1>9
  <2>2. P[n + 1] = IF IsDefined(drafts[n + 1]) THEN P[n] ELSE Append(P[n], drafts[n + 1])
    BY <1>7, <2>1
  <2> QED
    BY <2>1, <2>2 DEF Lists
<1> HIDE DEF S
<1>10. Nat \subseteq S
  BY <1>8, <1>9, AllNaturals
<1>11. P[N] \in Lists
  BY <1>1, <1>10 DEF S
<1> QED
  BY <1>11 DEF Pending, P, N, Lists

\* There is an identifier left for a new draft: there are more numbers than rows.
LEMMA FreshIdType ==
  ASSUME drafts \in Seq(DraftRows)
  PROVE  FreshId \in Nat
<1> DEFINE n == Len(drafts)
           ids == {drafts[i].id : i \in 1..n}
<1>1. n \in Nat /\ DOMAIN drafts = 1..n
  OBVIOUS
<1>2. IsFiniteSet(1..n) /\ Cardinality(1..n) = n
  BY <1>1, FS_Interval
<1>3. IsFiniteSet(1..(n + 1)) /\ Cardinality(1..(n + 1)) = n + 1
  BY <1>1, FS_Interval
<1>4. IsFiniteSet(ids) /\ Cardinality(ids) <= n
  <2> DEFINE h == [i \in 1..n |-> drafts[i].id]
  <2>1. h \in Surjection(1..n, ids)
    BY DEF Surjection
  <2> HIDE DEF h, ids
  <2> QED
    BY <1>2, <2>1, FS_Surjection
<1>5. ~ (1..(n + 1) \subseteq ids)
  <2> SUFFICES ASSUME 1..(n + 1) \subseteq ids PROVE FALSE
    OBVIOUS
  <2> HIDE DEF ids
  <2>1. Cardinality(1..(n + 1)) <= Cardinality(ids)
    BY <1>4, FS_Subset
  <2>2. Cardinality(ids) \in Nat
    BY <1>4, FS_CardinalityType
  <2> QED
    BY <1>1, <1>3, <1>4, <2>1, <2>2
<1>6. \E id \in 1..(n + 1) : \A i \in DOMAIN drafts : drafts[i].id # id
  BY <1>1, <1>5
<1>7. FreshId \in 1..(n + 1)
  BY <1>6 DEF FreshId
<1> QED
  BY <1>1, <1>7

\* A page that was just loaded.
LEMMA WizardInitInv == WizardInit => WizardInv
<1> SUFFICES ASSUME WizardInit PROVE WizardInv
  OBVIOUS
<1>1. PICK who \in [Labels -> Wallets \union {None}] : chain = Genesis(who)
  BY DEF WizardInit
<1>2. chain \in Chains /\ chain.delegated = {}
  BY <1>1 DEF Genesis, Chains
<1>3. jobs["setup"] = Idle /\ jobs["page"] = Idle /\ jobs \in [Slots -> JobRows]
  BY DEF WizardInit, Slots, Idle, JobRows, Kinds, Fates
<1>4. WizardTypesOK
  BY <1>2, <1>3 DEF WizardInit, WizardTypesOK
<1>5. StepsOK
  BY <1>3 DEF WizardInit, StepsOK, Early, Opened, Idle
<1>6. SetupJobOK(jobs["setup"]) /\ PageJobOK(jobs["page"])
  BY <1>3 DEF SetupJobOK, PageJobOK, Idle
<1>7. WatchOK /\ LastOK /\ PermissionsOK /\ OutcomesOK
  BY <1>2 DEF WizardInit, WatchOK, LastOK, PermissionsOK, OutcomesOK
<1> QED
  BY <1>4, <1>5, <1>6, <1>7 DEF WizardInv

----------------------------------------------------------------------------
(* Steps that leave the invariant's state alone *)

core == <<chain, mempool, shell, setup, refreshes, drafts, outcomes, jobs, history>>

\* A step that changes no part the invariant reads, but for the account and the typed label.
LEMMA Elsewhere ==
  ASSUME WizardInv, UNCHANGED core,
         wallet' \in Wallets \union {None}, typed' \in BranchLabels \union {None}
  PROVE  WizardInv'
<1> USE DEF WizardInv, core, shell, history
<1>1. WizardTypesOK'
  BY DEF WizardTypesOK
<1>2. StepsOK'
  BY DEF StepsOK, Points
<1>3. SetupJobOK(jobs["setup"])'
  BY DEF SetupJobOK
<1>4. PageJobOK(jobs["page"])'
  BY DEF PageJobOK, BranchJobOK, DefineJobOK, Published
<1>5. WatchOK' /\ LastOK'
  BY DEF WatchOK, LastOK, Busy
<1>6. PermissionsOK'
  BY DEF PermissionsOK, Owing
<1>7. OutcomesOK'
  BY DEF OutcomesOK, Published
<1> QED
  BY <1>1, <1>2, <1>3, <1>4, <1>5, <1>6, <1>7

\* Accounts, lookups of names and of branches, and the editor, change no such part.
LEMMA ElsewhereSteps ==
  ASSUME WizardInv,
         \/ \E w \in Wallets, right \in BOOLEAN : Connect(w, right)
         \/ Disconnect \/ SwitchChain
         \/ \E w \in Wallets : SwitchAccount(w)
         \/ \E l \in Labels : TypeName(l)
         \/ \E x \in lookups : AnswerLookup(x) \/ LandLookup(x)
         \/ LoadOwned \/ Recheck
         \/ \E b \in BranchLabels : TypeBranch(b)
         \/ \E x \in asks : AnswerAsk(x) \/ LandAsk(x)
         \/ \E id \in 0..Len(drafts) : EditDraft(id)
         \/ UNCHANGED wizardVars
  PROVE  WizardInv'
<1>0. wallet \in Wallets \union {None} /\ typed \in BranchLabels \union {None}
  BY DEF WizardInv, WizardTypesOK
<1> USE DEF core, shell, history, account, naming, setting, opening, listing
<1>1. CASE \E w \in Wallets, right \in BOOLEAN : Connect(w, right)
  BY <1>0, <1>1, Elsewhere DEF Connect
<1>2. CASE Disconnect \/ SwitchChain
  BY <1>0, <1>2, Elsewhere DEF Disconnect, SwitchChain
<1>3. CASE \E w \in Wallets : SwitchAccount(w)
  BY <1>0, <1>3, Elsewhere DEF SwitchAccount
<1>4. CASE (\E l \in Labels : TypeName(l)) \/ LoadOwned \/ Recheck
  BY <1>0, <1>4, Elsewhere DEF TypeName, LoadOwned, Recheck
<1>5. CASE \E x \in lookups : AnswerLookup(x) \/ LandLookup(x)
  BY <1>0, <1>5, Elsewhere DEF AnswerLookup, LandLookup
<1>6. CASE \E b \in BranchLabels : TypeBranch(b)
  BY <1>0, <1>6, Elsewhere DEF TypeBranch
<1>7. CASE \E x \in asks : AnswerAsk(x) \/ LandAsk(x)
  BY <1>0, <1>7, Elsewhere DEF AnswerAsk, LandAsk
<1>8. CASE \E id \in 0..Len(drafts) : EditDraft(id)
  BY <1>0, <1>8, Elsewhere DEF EditDraft
<1>9. CASE UNCHANGED wizardVars
  BY <1>0, <1>9, Elsewhere DEF wizardVars
<1> QED
  BY <1>1, <1>2, <1>3, <1>4, <1>5, <1>6, <1>7, <1>8, <1>9

\* The list of groups changes and nothing else that matters.
LEMMA ListChanges ==
  ASSUME WizardInv, drafts' \in Seq(DraftRows),
         UNCHANGED <<chain, mempool, shell, setup, refreshes, outcomes, jobs, history, wallet, typed>>
  PROVE  WizardInv'
<1> USE DEF WizardInv, shell, history
<1>1. WizardTypesOK'
  BY DEF WizardTypesOK
<1>2. StepsOK'
  BY DEF StepsOK, Points
<1>3. SetupJobOK(jobs["setup"])'
  BY DEF SetupJobOK
<1>4. PageJobOK(jobs["page"])'
  BY DEF PageJobOK, BranchJobOK, DefineJobOK, Published
<1>5. WatchOK' /\ LastOK'
  BY DEF WatchOK, LastOK, Busy
<1>6. PermissionsOK'
  BY DEF PermissionsOK, Owing
<1>7. OutcomesOK'
  BY DEF OutcomesOK, Published
<1> QED
  BY <1>1, <1>2, <1>3, <1>4, <1>5, <1>6, <1>7

\* A list without one of its elements.
LEMMA RemoveAtType ==
  ASSUME NEW S, NEW s \in Seq(S), NEW i \in 1..Len(s)
  PROVE  RemoveAt(s, i) \in Seq(S)
<1>1. SubSeq(s, 1, i - 1) \in Seq(S)
  BY SubSeqProperties, ElementOfSeq
<1>2. SubSeq(s, i + 1, Len(s)) \in Seq(S)
  BY SubSeqProperties, ElementOfSeq
<1> QED
  BY <1>1, <1>2, ConcatProperties DEF RemoveAt

\* Committing and removing drafts, also while groups are being sent.
LEMMA ListSteps ==
  ASSUME WizardInv,
         \/ \E g \in Groups : CommitDraft(g)
         \/ \E i \in 0..Len(drafts) : RemoveDraft(i)
  PROVE  WizardInv'
<1> USE DEF account, opening, setting
<1>0. drafts \in Seq(DraftRows) /\ DOMAIN drafts = 1..Len(drafts) /\ Len(drafts) \in Nat
  BY DEF WizardInv, WizardTypesOK
<1>1. ASSUME NEW g \in Groups, CommitDraft(g) PROVE WizardInv'
  <2>1. CASE editing = 0
    <3>1. [id |-> FreshId, name |-> g] \in DraftRows
      BY <1>0, FreshIdType DEF DraftRows
    <3>2. drafts' = Append(drafts, [id |-> FreshId, name |-> g])
      BY <1>1, <2>1 DEF CommitDraft
    <3>3. drafts' \in Seq(DraftRows)
      BY <1>0, <3>1, <3>2, AppendProperties
    <3> QED
      BY <1>1, <3>3, ListChanges DEF CommitDraft
  <2>2. CASE editing # 0
    <3> DEFINE row(i) == IF drafts[i].id = editing THEN [drafts[i] EXCEPT !.name = g] ELSE drafts[i]
    <3>1. drafts' = [i \in 1..Len(drafts) |-> row(i)]
      BY <1>0, <1>1, <2>2 DEF CommitDraft
    <3>2. ASSUME NEW i \in 1..Len(drafts) PROVE row(i) \in DraftRows
      <4>1. drafts[i] \in DraftRows
        BY <1>0
      <4> QED
        BY <4>1 DEF DraftRows
    <3> HIDE DEF row
    <3>3. drafts' \in [1..Len(drafts) -> DraftRows]
      BY <3>1, <3>2
    <3>4. drafts' \in Seq(DraftRows)
      BY <1>0, <3>3
    <3> QED
      BY <1>1, <3>4, ListChanges DEF CommitDraft
  <2> QED
    BY <2>1, <2>2
<1>2. ASSUME NEW i \in 0..Len(drafts), RemoveDraft(i) PROVE WizardInv'
  <2>1. i \in 1..Len(drafts) /\ drafts' = RemoveAt(drafts, i)
    BY <1>0, <1>2 DEF RemoveDraft
  <2>2. drafts' \in Seq(DraftRows)
    BY <1>0, <2>1, RemoveAtType
  <2> QED
    BY <1>2, <2>2, ListChanges DEF RemoveDraft
<1> QED
  BY <1>1, <1>2

\* The chain grows; what the page knows stays true.
LEMMA ChainGrows ==
  ASSUME WizardInv, Grown(chain, chain'), UNCHANGED <<registrar, orgName>>, reverted \subseteq reverted'
  PROVE  /\ Points(orgName) /\ orgName \in Labels => Points(orgName)'
         /\ registrar # None => \A g : Published(g) => Published(g)'
         /\ registrar # None => chain'.branch[registrar] # None
         /\ \A r \in Registrars : chain.branch[r] # None => chain'.branch[r] # None
<1>1. registrar # None => registrar \in Registrars /\ chain.branch[registrar] # None
  BY DEF WizardInv, WizardTypesOK, StepsOK
<1> QED
  BY <1>1 DEF Grown, Points, Published

\* A name that somebody registers meanwhile changes its owner, and nothing that was built.
LEMMA RegisterNameInv ==
  ASSUME WizardInv, NEW l \in Labels, NEW w \in Wallets, RegisterName(l, w)
  PROVE  WizardInv'
<1> USE DEF WizardInv, shell, account, setting, opening, listing, history
<1>1. /\ chain' = [chain EXCEPT !.owner[l] = w] /\ chain \in Chains
      /\ UNCHANGED <<mempool, shell, wallet, typed, setup, refreshes, drafts, outcomes, jobs, history>>
  BY DEF RegisterName, WizardTypesOK
<1>2. /\ chain' \in Chains /\ chain'.delegated = chain.delegated /\ chain'.sub = chain.sub
      /\ chain'.branch = chain.branch /\ chain'.roles = chain.roles
  BY <1>1 DEF Chains
<1>3. WizardTypesOK'
  BY <1>1, <1>2 DEF WizardTypesOK
<1>4. StepsOK'
  BY <1>1, <1>2 DEF StepsOK, Points
<1>5. SetupJobOK(jobs["setup"])'
  BY <1>1 DEF SetupJobOK
<1>6. PageJobOK(jobs["page"])'
  BY <1>1, <1>2 DEF PageJobOK, BranchJobOK, DefineJobOK, Published
<1>7. WatchOK' /\ LastOK'
  BY <1>1 DEF WatchOK, LastOK, Busy
<1>8. PermissionsOK'
  BY <1>1, <1>2 DEF PermissionsOK, Owing
<1>9. OutcomesOK'
  BY <1>1, <1>2 DEF OutcomesOK, Published
<1> QED
  BY <1>3, <1>4, <1>5, <1>6, <1>7, <1>8, <1>9

----------------------------------------------------------------------------
(* The page goes from step to step *)

\* A loop that is idle has nothing left over from the one before.
LEMMA IdleJobs ==
  ASSUME WizardInv
  PROVE  /\ jobs["setup"].kind = "idle" => jobs["setup"] = Idle
         /\ jobs["page"].kind = "idle" => jobs["page"] = Idle
         /\ Idle \in JobRows /\ Idle.kind = "idle" /\ Idle.at = "unsent" /\ Idle.todo = <<>>
BY DEF WizardInv, SetupJobOK, PageJobOK, BranchJobOK, DefineJobOK, Idle, JobRows, Kinds, Fates

\* From the wallet to the name.
LEMMA ConnectDoneInv ==
  ASSUME WizardInv, ConnectDone
  PROVE  WizardInv'
<1> USE DEF WizardInv, ConnectDone, account, naming, setting, opening, listing, history
<1>1. WizardTypesOK'
  BY DEF WizardTypesOK
<1>2. StepsOK'
  BY DEF StepsOK, Points, Early, Opened
<1>3. SetupJobOK(jobs["setup"])'
  BY DEF SetupJobOK
<1>4. PageJobOK(jobs["page"])'
  BY DEF PageJobOK, BranchJobOK, DefineJobOK, Published
<1>5. WatchOK' /\ LastOK'
  BY DEF WatchOK, LastOK, Busy
<1>6. PermissionsOK'
  BY DEF PermissionsOK, Owing
<1>7. OutcomesOK'
  BY DEF OutcomesOK, Published
<1> QED
  BY <1>1, <1>2, <1>3, <1>4, <1>5, <1>6, <1>7

\* From the name to the contracts: no refresh and no loop of another name is around.
LEMMA UseNameInv ==
  ASSUME WizardInv, NEW l \in Labels, UseName(l)
  PROVE  WizardInv'
<1> USE DEF WizardInv, account, opening, listing, history
<1>1. /\ step = "name" /\ step' = "setup" /\ orgName' = l /\ refreshes' = {[at |-> "asked", last |-> FALSE]}
      /\ UNCHANGED <<registrar, setup, chain, mempool, wallet, typed, drafts, outcomes, jobs, cut, reverted>>
  BY DEF UseName, OffersName
<1>2. jobs["setup"] = Idle /\ jobs["page"] = Idle /\ setup = "unknown" /\ registrar = None
  BY <1>1, IdleJobs DEF StepsOK, Early, Opened
<1>3. WizardTypesOK'
  BY <1>1 DEF WizardTypesOK, RefreshRows
<1>4. StepsOK'
  BY <1>1, <1>2, IdleJobs DEF StepsOK, Early, Opened
<1>5. SetupJobOK(jobs["setup"])' /\ PageJobOK(jobs["page"])'
  BY <1>1, <1>2, IdleJobs DEF SetupJobOK, PageJobOK
<1>6. WatchOK' /\ LastOK'
  BY <1>1 DEF WatchOK, LastOK
<1>7. PermissionsOK'
  BY <1>1, <1>2, IdleJobs DEF PermissionsOK, Owing
<1>8. OutcomesOK'
  BY <1>1 DEF OutcomesOK, Published
<1> QED
  BY <1>3, <1>4, <1>5, <1>6, <1>7, <1>8

\* Refreshes come and go; none of them is mistaken about the pointer.
LEMMA RefreshesChange ==
  ASSUME WizardInv, refreshes' \subseteq RefreshRows, step \notin Early,
         setup' = "pointed" \/ (\E x \in refreshes' : x.at = "pointed") => Points(orgName),
         LastOK',
         UNCHANGED <<chain, mempool, shell, drafts, outcomes, jobs, history, wallet, typed>>
  PROVE  WizardInv'
<1> USE DEF WizardInv, shell, history
<1>1. WizardTypesOK'
  BY DEF WizardTypesOK
<1>2. StepsOK'
  BY DEF StepsOK, Points
<1>3. SetupJobOK(jobs["setup"])'
  BY DEF SetupJobOK
<1>4. PageJobOK(jobs["page"])'
  BY DEF PageJobOK, BranchJobOK, DefineJobOK, Published
<1>5. WatchOK'
  BY DEF WatchOK
<1>6. PermissionsOK'
  BY DEF PermissionsOK, Owing
<1>7. OutcomesOK'
  BY DEF OutcomesOK, Published
<1> QED
  BY <1>1, <1>2, <1>3, <1>4, <1>5, <1>6, <1>7

\* A refresh reads the chain: a pointer that is right stays right until the answer lands.
LEMMA ReadSetupInv ==
  ASSUME WizardInv, NEW x \in refreshes, ReadSetup(x)
  PROVE  WizardInv'
<1> DEFINE next == CASE x.at = "asked" -> IF chain.creator[orgName] = None THEN "none" ELSE "found"
                     [] x.at = "found" -> IF Pointed(orgName) THEN "pointed" ELSE "unpointed"
           y == Refresh(next, x.last)
<1>1. x.at \in {"asked", "found"} /\ refreshes' = (refreshes \ {x}) \union {y}
  BY DEF ReadSetup
<1>2. x \in RefreshRows /\ refreshes \subseteq RefreshRows /\ step \notin Early
  BY DEF WizardInv, WizardTypesOK, StepsOK
<1>3. next \in {"none", "found", "pointed", "unpointed"} /\ (next = "pointed" => Points(orgName))
  BY <1>1 DEF Pointed, Points
<1> HIDE DEF next
<1>4. y \in RefreshRows /\ y.last = x.last /\ (y.at = "pointed" => Points(orgName))
  BY <1>2, <1>3 DEF RefreshRows, Refresh
<1> HIDE DEF y
<1>5. UNCHANGED <<setup, chain, mempool, shell, drafts, outcomes, jobs, history, wallet, typed>>
  BY DEF ReadSetup, account, naming, opening, listing
<1>6. refreshes' \subseteq RefreshRows
  BY <1>1, <1>2, <1>4
<1>7. setup' = "pointed" \/ (\E z \in refreshes' : z.at = "pointed") => Points(orgName)
  BY <1>1, <1>4, <1>5 DEF WizardInv, StepsOK
<1>8. LastOK'
  BY <1>1, <1>4, <1>5 DEF WizardInv, LastOK, Busy
<1> QED
  BY <1>2, <1>5, <1>6, <1>7, <1>8, RefreshesChange

\* A batch that landed only asks for a refresh.
LEMMA BatchLandedInv ==
  ASSUME WizardInv, BatchLanded
  PROVE  WizardInv'
<1> DEFINE y == Refresh("asked", FALSE)
<1>1. y \in RefreshRows /\ ~y.last /\ y.at = "asked"
  BY DEF RefreshRows, Refresh
<1>2. step = "setup" /\ refreshes' = refreshes \union {y}
  BY DEF BatchLanded
<1>3. UNCHANGED <<setup, chain, mempool, shell, drafts, outcomes, jobs, history, wallet, typed>>
  BY DEF BatchLanded, account, naming, opening, listing
<1> HIDE DEF y
<1>4. refreshes' \subseteq RefreshRows /\ step \notin Early
  BY <1>1, <1>2 DEF WizardInv, WizardTypesOK, Early
<1>5. setup' = "pointed" \/ (\E z \in refreshes' : z.at = "pointed") => Points(orgName)
  BY <1>1, <1>2, <1>3 DEF WizardInv, StepsOK
<1>6. LastOK'
  BY <1>1, <1>2, <1>3 DEF WizardInv, LastOK, Busy
<1> QED
  BY <1>3, <1>4, <1>5, <1>6, RefreshesChange

\* The loop of the setup step is over; whatever it owed is given back or on record.
LEMMA SetupOver ==
  ASSUME WizardInv, refreshes' \subseteq refreshes, step \notin Early,
         setup' \in {setup, "unknown"} \/ \E x \in refreshes : x.at = setup',
         IF jobs["setup"].todo = <<>> /\ (\E x \in refreshes \ refreshes' : x.last)
         THEN jobs' = [jobs EXCEPT !["setup"] = Idle] ELSE jobs' = jobs,
         UNCHANGED <<chain, mempool, shell, drafts, outcomes, history, wallet, typed>>
  PROVE  WizardInv'
<1> USE DEF WizardInv, shell, history
<1>1. CASE jobs' = jobs /\ ~ (\E x \in refreshes \ refreshes' : x.last)
  <2>1. refreshes' \subseteq RefreshRows
    BY DEF WizardTypesOK
  <2>2. setup' = "pointed" \/ (\E z \in refreshes' : z.at = "pointed") => Points(orgName)
    BY DEF StepsOK
  <2>3. LastOK'
    BY <1>1 DEF LastOK, Busy
  <2> QED
    BY <1>1, <2>1, <2>2, <2>3, RefreshesChange
<1>2. CASE jobs' = [jobs EXCEPT !["setup"] = Idle] /\ (\E x \in refreshes \ refreshes' : x.last)
  <2>1. PICK x \in refreshes \ refreshes' : x.last
    BY <1>2
  <2>2. jobs["setup"].todo = <<>> /\ jobs["setup"].at = "unsent" /\ \A y \in refreshes : y.last => y = x
    BY <2>1 DEF LastOK, SetupJobOK
  <2>3. jobs'["setup"] = Idle /\ jobs'["page"] = jobs["page"] /\ jobs' \in [Slots -> JobRows]
    BY <1>2, IdleJobs DEF WizardTypesOK, Slots
  <2>4. WizardTypesOK'
    BY <2>3 DEF WizardTypesOK
  <2>5. StepsOK'
    BY <2>3 DEF StepsOK, Points
  <2>6. SetupJobOK(jobs["setup"])'
    BY <2>3, IdleJobs DEF SetupJobOK
  <2>7. PageJobOK(jobs["page"])'
    BY <2>3 DEF PageJobOK, BranchJobOK, DefineJobOK, Published
  <2>8. WatchOK'
    BY <2>2, <2>3 DEF WatchOK, Slots
  <2>9. LastOK'
    BY <2>1, <2>2 DEF LastOK
  <2>10. PermissionsOK'
    BY <2>2, <2>3 DEF PermissionsOK, Owing
  <2>11. OutcomesOK'
    BY DEF OutcomesOK, Published
  <2> QED
    BY <2>4, <2>5, <2>6, <2>7, <2>8, <2>9, <2>10, <2>11
<1>3. \A x \in refreshes : x.last => jobs["setup"].todo = <<>>
  BY DEF LastOK
<1> QED
  BY <1>1, <1>2, <1>3

\* A refresh lands, and with the last one the loop that waited for it is over.
LEMMA LandSetupInv ==
  ASSUME WizardInv, NEW x \in refreshes, LandSetup(x)
  PROVE  WizardInv'
<1>1. /\ refreshes' = refreshes \ {x} /\ step \notin Early
      /\ jobs' = IF x.last THEN [jobs EXCEPT !["setup"] = Idle] ELSE jobs
      /\ setup' = setup \/ setup' = x.at
      /\ UNCHANGED <<chain, mempool, shell, drafts, outcomes, history, wallet, typed>>
  BY DEF LandSetup, account, naming, opening, listing, WizardInv, StepsOK
<1>2. x.last => jobs["setup"].todo = <<>>
  BY DEF WizardInv, LastOK
<1>3. refreshes \ refreshes' = {x}
  BY <1>1
<1> QED
  BY <1>1, <1>2, <1>3, SetupOver

\* A loop of the setup step starts.
LEMMA SetupStarts ==
  ASSUME WizardInv, jobs["setup"].kind = "idle", step = "setup", NEW j \in JobRows,
         jobs' = [jobs EXCEPT !["setup"] = j], j.at = "unsent", SetupJobOK(j),
         UNCHANGED <<chain, mempool, shell, setup, refreshes, drafts, outcomes, history, wallet, typed>>
  PROVE  WizardInv'
<1> USE DEF WizardInv, shell, history
<1>1. jobs["setup"] = Idle
  BY IdleJobs
<1>2. jobs'["setup"] = j /\ jobs'["page"] = jobs["page"] /\ jobs' \in [Slots -> JobRows]
  BY DEF WizardTypesOK, Slots
<1>3. WizardTypesOK'
  BY <1>2 DEF WizardTypesOK
<1>4. StepsOK'
  BY <1>2 DEF StepsOK, Points, Early
<1>5. SetupJobOK(jobs["setup"])'
  BY <1>2 DEF SetupJobOK
<1>6. PageJobOK(jobs["page"])'
  BY <1>2 DEF PageJobOK, BranchJobOK, DefineJobOK, Published
<1>7. WatchOK'
  BY <1>1, <1>2, IdleJobs DEF WatchOK, Slots
<1>8. LastOK'
  BY DEF LastOK, Busy
<1>9. PermissionsOK'
  BY <1>1, IdleJobs DEF PermissionsOK, Owing
<1>10. OutcomesOK'
  BY DEF OutcomesOK, Published
<1> QED
  BY <1>3, <1>4, <1>5, <1>6, <1>7, <1>8, <1>9, <1>10

\* One call is a batch.
LEMMA OneCall ==
  ASSUME NEW c \in Calls
  PROVE  <<c>> \in Batches
BY DEF Batches

\* A job that starts has sent nothing.
LEMMA JobType ==
  ASSUME NEW kind \in Kinds, NEW todo \in Seq(Batches)
  PROVE  /\ Job(kind, todo) \in JobRows
         /\ Job(kind, todo).kind = kind /\ Job(kind, todo).todo = todo
         /\ Job(kind, todo).at = "unsent" /\ Job(kind, todo).ran = {}
BY DEF Job, Idle, JobRows, Fates

\* The deployment starts, batched or call by call.
LEMMA DeployInv ==
  ASSUME WizardInv, Deploy
  PROVE  WizardInv'
<1> DEFINE j == Sending("create", DeployCalls(orgName))
           g == Grant(orgName)
           c == Create(orgName)
           r == TakeBack(orgName)
<1>1. step = "setup" /\ jobs["setup"].kind = "idle" /\ jobs' = [jobs EXCEPT !["setup"] = j]
  BY DEF Deploy, OffersDeploy, Busy
<1>2. orgName \in Labels
  BY <1>1 DEF WizardInv, StepsOK, Early
<1>3. g \in Calls /\ c \in Calls /\ r \in Calls /\ DeployCalls(orgName) = <<g, c, r>>
  BY <1>2 DEF Calls, Grant, Create, TakeBack, DeployCalls
<1>4. j \in JobRows /\ j.at = "unsent" /\ SetupJobOK(j)
  <2>1. CASE wallet \in Batching
    <3> DEFINE todo == <<DeployCalls(orgName)>>
    <3>1. todo \in Seq(Batches)
      BY <1>3 DEF Batches
    <3>2. j = Job("createBatch", todo)
      BY <2>1 DEF Sending, Batched
    <3>3. todo # <<>>
      OBVIOUS
    <3> HIDE DEF todo, j
    <3>4. j \in JobRows /\ j.kind = "createBatch" /\ j.todo = todo /\ j.at = "unsent"
      BY <3>1, <3>2, JobType DEF Kinds
    <3> QED
      BY <3>3, <3>4 DEF SetupJobOK, todo
  <2>2. CASE wallet \notin Batching
    <3> DEFINE todo == <<<<g>>, <<c>>, <<r>>>>
               calls == DeployCalls(orgName)
    <3>1. <<g>> \in Batches /\ <<c>> \in Batches /\ <<r>> \in Batches
      BY <1>3, OneCall
    <3>2. todo \in Seq(Batches)
      BY <3>1
    <3>3. j = Job("create", [i \in DOMAIN calls |-> <<calls[i]>>])
      BY <2>2 DEF Sending
    <3> HIDE DEF g, c, r, j
    <3>4. [i \in DOMAIN calls |-> <<calls[i]>>] = todo
      BY <1>3
    <3>5. todo # <<>>
      OBVIOUS
    <3>6. todo \in Deployments(orgName)
      BY DEF Deployments, g, c, r
    <3> HIDE DEF todo, calls
    <3>7. j \in JobRows /\ j.kind = "create" /\ j.todo = todo /\ j.at = "unsent"
      BY <3>2, <3>3, <3>4, JobType DEF Kinds
    <3> QED
      BY <3>6, <3>7 DEF SetupJobOK
  <2> QED
    BY <2>1, <2>2
<1> HIDE DEF j
<1>5. UNCHANGED <<chain, mempool, shell, setup, refreshes, drafts, outcomes, history, wallet, typed>>
  BY DEF Deploy, account, naming, setting, opening, listing
<1> QED
  BY <1>1, <1>4, <1>5, SetupStarts

\* The pointing starts.
LEMMA PointNameInv ==
  ASSUME WizardInv, PointName
  PROVE  WizardInv'
<1> DEFINE j == Job("point", PointCalls(orgName))
<1>1. step = "setup" /\ jobs["setup"].kind = "idle" /\ jobs' = [jobs EXCEPT !["setup"] = j]
  BY DEF PointName, OffersPoint, Busy
<1>2. orgName \in Labels
  BY <1>1 DEF WizardInv, StepsOK, Early
<1>3. Call("setSub", orgName, orgName) \in Calls /\ Call("setRes", orgName, orgName) \in Calls
  BY <1>2 DEF Calls
<1>4. PointCalls(orgName) \in Seq(Batches)
  BY <1>3, OneCall DEF PointCalls
<1>5. j \in JobRows /\ j.kind = "point" /\ j.todo = PointCalls(orgName) /\ j.at = "unsent"
  BY <1>4, JobType DEF Kinds
<1> HIDE DEF j
<1>6. SetupJobOK(j)
  BY <1>5 DEF SetupJobOK, Pointings
<1>7. UNCHANGED <<chain, mempool, shell, setup, refreshes, drafts, outcomes, history, wallet, typed>>
  BY DEF PointName, account, naming, setting, opening, listing
<1> QED
  BY <1>1, <1>5, <1>6, <1>7, SetupStarts

\* The contracts' step is left with its loop still running: the name points, and the loop goes
\* on to take back what it gave.
LEMMA SetupDoneInv ==
  ASSUME WizardInv, SetupDone
  PROVE  WizardInv'
<1> USE DEF WizardInv, history
<1> DEFINE j == IF jobs["setup"].todo = <<>> THEN Idle ELSE jobs["setup"]
<1>1. /\ step = "setup" /\ setup = "pointed" /\ org' = orgName /\ step' = "branch"
      /\ setup' = "unknown" /\ refreshes' = {}
      /\ jobs' = [jobs EXCEPT !["setup"] = j]
      /\ UNCHANGED <<orgName, registrar, chain, mempool, drafts, outcomes, history, wallet, typed>>
  BY DEF SetupDone, SettingReset, account, naming, opening, listing
<1>2. jobs["setup"] \in JobRows
  BY DEF WizardTypesOK, Slots
<1>3. j \in JobRows /\ SetupJobOK(j) /\ j.at = jobs["setup"].at /\ j.todo = jobs["setup"].todo
  BY <1>2, IdleJobs DEF SetupJobOK
<1>4. jobs["setup"].todo # <<>> => j = jobs["setup"]
  OBVIOUS
<1> HIDE DEF j
<1>5. jobs'["setup"] = j /\ jobs'["page"] = jobs["page"] /\ jobs' \in [Slots -> JobRows]
  BY <1>1, <1>3 DEF WizardTypesOK, Slots
<1>6. WizardTypesOK'
  BY <1>1, <1>5 DEF WizardTypesOK
<1>7. StepsOK'
  BY <1>1, <1>5 DEF StepsOK, Points, Early, Opened
<1>8. SetupJobOK(jobs["setup"])'
  BY <1>1, <1>3, <1>5 DEF SetupJobOK
<1>9. PageJobOK(jobs["page"])'
  BY <1>1, <1>5 DEF PageJobOK, BranchJobOK, DefineJobOK, Published
<1>10. WatchOK'
  BY <1>1, <1>3, <1>5 DEF WatchOK, Slots
<1>11. LastOK'
  BY <1>1 DEF LastOK
<1>12. PermissionsOK'
  BY <1>1, <1>3, <1>4, <1>5 DEF PermissionsOK, Owing
<1>13. OutcomesOK'
  BY <1>1 DEF OutcomesOK, Published
<1> QED
  BY <1>6, <1>7, <1>8, <1>9, <1>10, <1>11, <1>12, <1>13

\* The loop of the later steps starts.
LEMMA PageStarts ==
  ASSUME WizardInv, jobs["page"].kind = "idle", step \in Opened, NEW j \in JobRows,
         jobs' = [jobs EXCEPT !["page"] = j], j.at = "unsent", PageJobOK(j),
         UNCHANGED <<chain, mempool, shell, setup, refreshes, drafts, outcomes, history, wallet, typed>>
  PROVE  WizardInv'
<1> USE DEF WizardInv, shell, history
<1>1. jobs["page"] = Idle
  BY IdleJobs
<1>2. jobs'["page"] = j /\ jobs'["setup"] = jobs["setup"] /\ jobs' \in [Slots -> JobRows]
  BY DEF WizardTypesOK, Slots
<1>3. WizardTypesOK'
  BY <1>2 DEF WizardTypesOK
<1>4. StepsOK'
  BY <1>2 DEF StepsOK, Points, Early, Opened
<1>5. SetupJobOK(jobs["setup"])'
  BY <1>2 DEF SetupJobOK
<1>6. PageJobOK(jobs["page"])'
  BY <1>2 DEF PageJobOK, BranchJobOK, DefineJobOK, Published
<1>7. WatchOK'
  BY <1>1, <1>2, IdleJobs DEF WatchOK, Slots
<1>8. LastOK'
  BY <1>2 DEF LastOK, Busy
<1>9. PermissionsOK'
  BY <1>2 DEF PermissionsOK, Owing
<1>10. OutcomesOK'
  BY DEF OutcomesOK, Published
<1> QED
  BY <1>3, <1>4, <1>5, <1>6, <1>7, <1>8, <1>9, <1>10

\* The branch's loop starts for the organisation the page has set up.
LEMMA OpenBranchInv ==
  ASSUME WizardInv, OpenBranch
  PROVE  WizardInv'
<1> DEFINE c == Call("branch", org, typed)
           todo == << <<c>> >>
           j == Job("branch", todo)
<1>1. step = "branch" /\ typed # None /\ jobs["page"].kind = "idle" /\ jobs' = [jobs EXCEPT !["page"] = j]
  BY DEF OpenBranch, OffersOpen, Busy
<1>2. orgName \in Labels /\ org = orgName /\ registrar = None /\ typed \in BranchLabels
  BY <1>1 DEF WizardInv, WizardTypesOK, StepsOK, Early, Opened
<1>3. c \in Calls
  BY <1>2 DEF Calls
<1>4. todo \in Seq(Batches)
  <2> HIDE DEF c
  <2> QED
    BY <1>3, OneCall
<1>5. todo = << <<Call("branch", orgName, typed)>> >>
  BY <1>2
<1> HIDE DEF todo
<1>6. j \in JobRows /\ j.kind = "branch" /\ j.todo = todo /\ j.at = "unsent"
  BY <1>4, JobType DEF Kinds
<1> HIDE DEF j
<1>7. PageJobOK(j)
  BY <1>2, <1>5, <1>6 DEF PageJobOK, BranchJobOK
<1>8. UNCHANGED <<chain, mempool, shell, setup, refreshes, drafts, outcomes, history, wallet, typed>>
  BY DEF OpenBranch, account, naming, setting, opening, listing
<1> QED
  BY <1>1, <1>6, <1>7, <1>8, PageStarts DEF Opened

\* The groups' loop starts with what is pending of the list, in the branch that was opened.
LEMMA DefineGroupsInv ==
  ASSUME WizardInv, DefineGroups
  PROVE  WizardInv'
<1> DEFINE calls == [i \in DOMAIN Pending |-> Call("define", registrar, Pending[i].name)]
           D == DefinesOf(registrar)
           j == Sending("define", calls)
           n == Len(Pending)
<1>1. /\ step = "groups" /\ registrar # None /\ Pending # <<>> /\ jobs["page"].kind = "idle"
      /\ jobs' = [jobs EXCEPT !["page"] = j]
  BY DEF DefineGroups, OffersDefine, Busy
<1>2. registrar \in Registrars /\ Pending \in Seq(DraftRows)
  BY <1>1, PendingType DEF WizardInv, WizardTypesOK
<1>3. D \subseteq Calls
  BY <1>2 DEF DefinesOf, Calls
<1>4. n \in Nat /\ n # 0 /\ DOMAIN Pending = 1..n /\ \A i \in 1..n : Pending[i].name \in Groups
  <2>1. n \in Nat /\ n # 0 /\ DOMAIN Pending = 1..n /\ \A i \in 1..n : Pending[i] \in DraftRows
    BY <1>1, <1>2
  <2>2. \A d \in DraftRows : d.name \in Groups
    BY DEF DraftRows
  <2> QED
    BY <2>1, <2>2
<1>5. calls \in [1..n -> D]
  BY <1>4 DEF DefinesOf
<1> HIDE DEF calls, n
<1>6. calls \in Seq(D) /\ calls # <<>> /\ DOMAIN calls = 1..n
  BY <1>4, <1>5
<1>7. calls \in Batches
  BY <1>3, <1>6 DEF Batches
<1>8. \E todo \in Seq(Batches), kind \in {"define", "defineBatch"} :
        /\ j = Job(kind, todo) /\ todo # <<>> /\ \A i \in DOMAIN todo : todo[i] \in Seq(D)
  <2>1. CASE wallet \in Batching
    <3>1. j = Job("defineBatch", <<calls>>)
      BY <2>1 DEF Sending, Batched
    <3>2. <<calls>> \in Seq(Batches) /\ <<calls>> # <<>> /\ \A i \in DOMAIN <<calls>> : <<calls>>[i] \in Seq(D)
      BY <1>6, <1>7
    <3> QED
      BY <3>1, <3>2
  <2>2. CASE wallet \notin Batching
    <3> DEFINE todo == [i \in DOMAIN calls |-> <<calls[i]>>]
    <3>1. j = Job("define", todo)
      BY <2>2 DEF Sending
    <3>2. \A i \in 1..n : calls[i] \in D
      BY <1>5
    <3>3. \A i \in 1..n : <<calls[i]>> \in Batches /\ <<calls[i]>> \in Seq(D)
      BY <1>3, <3>2, OneCall
    <3>4. todo \in [1..n -> Batches]
      BY <1>6, <3>3
    <3>5. todo \in Seq(Batches) /\ todo # <<>> /\ DOMAIN todo = 1..n
      BY <1>4, <3>4
    <3>6. \A i \in DOMAIN todo : todo[i] \in Seq(D)
      BY <1>6, <3>3, <3>5
    <3> HIDE DEF todo
    <3> QED
      BY <3>1, <3>5, <3>6
  <2> QED
    BY <2>1, <2>2
<1> HIDE DEF j
<1>9. PICK todo \in Seq(Batches), kind \in {"define", "defineBatch"} :
        j = Job(kind, todo) /\ todo # <<>> /\ \A i \in DOMAIN todo : todo[i] \in Seq(D)
  BY <1>8
<1>10. j \in JobRows /\ j.kind = kind /\ j.todo = todo /\ j.at = "unsent" /\ j.ran = {}
  BY <1>9, JobType DEF Kinds
<1>11. PageJobOK(j)
  BY <1>1, <1>9, <1>10 DEF PageJobOK, DefineJobOK
<1>12. UNCHANGED <<chain, mempool, shell, setup, refreshes, drafts, outcomes, history, wallet, typed>>
  BY DEF DefineGroups, account, naming, setting, opening, listing
<1> QED
  BY <1>1, <1>10, <1>11, <1>12, PageStarts DEF Opened

\* The branch's step is left, perhaps with the branch still being opened.
LEMMA SkipBranchInv ==
  ASSUME WizardInv, SkipBranch
  PROVE  WizardInv'
<1> USE DEF WizardInv, account, naming, setting, listing, history
<1>1. /\ step = "branch" /\ step' = "groups" /\ typed' = None
      /\ UNCHANGED <<orgName, org, registrar, setup, refreshes, chain, mempool, wallet, drafts, outcomes,
                     jobs, cut, reverted>>
  BY DEF SkipBranch, OpeningReset
<1>2. WizardTypesOK'
  BY <1>1 DEF WizardTypesOK
<1>3. StepsOK'
  BY <1>1 DEF StepsOK, Points, Early, Opened
<1>4. SetupJobOK(jobs["setup"])'
  BY <1>1 DEF SetupJobOK
<1>5. PageJobOK(jobs["page"])'
  BY <1>1 DEF PageJobOK, BranchJobOK, DefineJobOK, Published
<1>6. WatchOK' /\ LastOK'
  BY <1>1 DEF WatchOK, LastOK, Busy
<1>7. PermissionsOK'
  BY <1>1 DEF PermissionsOK, Owing
<1>8. OutcomesOK'
  BY <1>1 DEF OutcomesOK, Published
<1> QED
  BY <1>2, <1>3, <1>4, <1>5, <1>6, <1>7, <1>8

\* The groups' step is left, perhaps with groups still being sent.
LEMMA GroupsDoneInv ==
  ASSUME WizardInv, GroupsDone
  PROVE  WizardInv'
<1> USE DEF WizardInv, account, naming, setting, opening, history
<1>1. /\ step = "groups" /\ step' = "done" /\ drafts' = <<>> /\ outcomes' = [g \in Groups |-> "none"]
      /\ UNCHANGED <<orgName, org, registrar, setup, refreshes, chain, mempool, wallet, typed, jobs, cut,
                     reverted>>
  BY DEF GroupsDone, ListingReset
<1>2. registrar # None
  <2>1. PICK i \in DOMAIN drafts : outcomes[drafts[i].name] = "defined"
    BY DEF GroupsDone, SomeDefined, IsDefined
  <2>2. drafts[i] \in DraftRows
    BY <2>1 DEF WizardTypesOK
  <2>3. drafts[i].name \in Groups
    BY <2>2 DEF DraftRows
  <2> QED
    BY <2>1, <2>3 DEF OutcomesOK
<1>3. WizardTypesOK'
  BY <1>1 DEF WizardTypesOK
<1>4. StepsOK'
  BY <1>1, <1>2 DEF StepsOK, Points, Early, Opened
<1>5. SetupJobOK(jobs["setup"])'
  BY <1>1 DEF SetupJobOK
<1>6. PageJobOK(jobs["page"])'
  BY <1>1 DEF PageJobOK, BranchJobOK, DefineJobOK, Published
<1>7. WatchOK' /\ LastOK'
  BY <1>1 DEF WatchOK, LastOK, Busy
<1>8. PermissionsOK'
  BY <1>1 DEF PermissionsOK, Owing
<1>9. OutcomesOK'
  BY <1>1 DEF OutcomesOK
<1> QED
  BY <1>3, <1>4, <1>5, <1>6, <1>7, <1>8, <1>9

----------------------------------------------------------------------------
(* Transactions *)

\* Whether a batch of one call gives permission.
LEMMA OneCallGrants ==
  ASSUME NEW c
  PROVE  NoGrant(<<c>>) <=> c.op # "grant"
BY DEF NoGrant

\* What the loop of the setup step has next.
LEMMA DeploymentHead ==
  ASSUME NEW l, NEW todo \in Deployments(l), todo # <<>>
  PROVE  /\ \/ Len(todo) = 1 /\ Head(todo) = <<TakeBack(l)>>
            \/ Len(todo) = 2 /\ Head(todo) = <<Create(l)>>
            \/ Len(todo) = 3 /\ Head(todo) = <<Grant(l)>>
         /\ Tail(todo) \in Deployments(l) /\ (Tail(todo) = <<>> <=> Len(todo) = 1)
<1> DEFINE g == <<Grant(l)>>
           c == <<Create(l)>>
           r == <<TakeBack(l)>>
<1>1. todo \in {<<r>>, <<c, r>>, <<g, c, r>>} /\ Deployments(l) = {<<>>, <<r>>, <<c, r>>, <<g, c, r>>}
  BY DEF Deployments
<1> HIDE DEF g, c, r
<1>2. CASE todo = <<r>>
  <2>1. Len(todo) = 1 /\ Head(todo) = r /\ Tail(todo) = <<>>
    BY <1>2
  <2> QED
    BY <1>1, <2>1 DEF r
<1>3. CASE todo = <<c, r>>
  <2>1. Len(todo) = 2 /\ Head(todo) = c /\ Tail(todo) = <<r>> /\ Tail(todo) # <<>>
    BY <1>3
  <2> QED
    BY <1>1, <2>1 DEF c
<1>4. CASE todo = <<g, c, r>>
  <2>1. Len(todo) = 3 /\ Head(todo) = g /\ Tail(todo) = <<c, r>> /\ Tail(todo) # <<>>
    BY <1>4
  <2> QED
    BY <1>1, <2>1 DEF g
<1> QED
  BY <1>1, <1>2, <1>3, <1>4

\* What is left of a pointing gives no permission.
LEMMA PointingHead ==
  ASSUME NEW l, NEW todo \in Pointings(l), todo # <<>>
  PROVE  NoGrant(Head(todo)) /\ Tail(todo) \in Pointings(l)
<1> DEFINE a == Call("setSub", l, l)
           b == Call("setRes", l, l)
           s == <<a>>
           r == <<b>>
<1>1. todo \in {<<r>>, <<s, r>>} /\ Pointings(l) = {<<>>, <<r>>, <<s, r>>}
  BY DEF Pointings, PointCalls
<1>2. NoGrant(s) /\ NoGrant(r)
  <2>1. a.op # "grant" /\ b.op # "grant"
    BY DEF Call
  <2> HIDE DEF a, b
  <2> QED
    BY <2>1, OneCallGrants
<1> HIDE DEF s, r
<1>3. CASE todo = <<r>>
  <2>1. Head(todo) = r /\ Tail(todo) = <<>>
    BY <1>3
  <2> QED
    BY <1>1, <1>2, <2>1
<1>4. CASE todo = <<s, r>>
  <2>1. Head(todo) = s /\ Tail(todo) = <<r>>
    BY <1>4
  <2> QED
    BY <1>1, <1>2, <2>1
<1> QED
  BY <1>1, <1>3, <1>4

\* What the setup loop is about to send, by what it was started for.
LEMMA SetupHead ==
  ASSUME WizardInv, jobs["setup"].todo # <<>>
  PROVE  /\ orgName \in Labels /\ jobs["setup"] # Idle
         /\ \/ jobs["setup"].kind = "create" /\ jobs["setup"].todo \in Deployments(orgName)
            \/ /\ jobs["setup"].kind = "createBatch" /\ Head(jobs["setup"].todo) = DeployCalls(orgName)
               /\ jobs["setup"].at = "unsent"
            \/ jobs["setup"].kind = "point" /\ jobs["setup"].todo \in Pointings(orgName)
<1> DEFINE j == jobs["setup"]
<1>1. j # Idle /\ SetupJobOK(j)
  BY IdleJobs DEF WizardInv
<1>2. orgName \in Labels
  BY <1>1, IdleJobs DEF WizardInv, StepsOK, SetupJobOK
<1>3. j.todo = <<DeployCalls(orgName)>> => Head(j.todo) = DeployCalls(orgName)
  OBVIOUS
<1> QED
  BY <1>1, <1>2, <1>3 DEF SetupJobOK

\* A batch of the setup loop that gives permission is the first of a deployment.
LEMMA SetupGrant ==
  ASSUME WizardInv, jobs["setup"].todo # <<>>, ~NoGrant(Head(jobs["setup"].todo)),
         jobs["setup"].kind # "createBatch"
  PROVE  /\ jobs["setup"].kind = "create" /\ Len(jobs["setup"].todo) = 3
         /\ Head(jobs["setup"].todo) = <<Grant(orgName)>> /\ orgName \in Labels
<1> DEFINE todo == jobs["setup"].todo
<1>1. orgName \in Labels /\ (\/ jobs["setup"].kind = "create" /\ todo \in Deployments(orgName)
                             \/ todo \in Pointings(orgName))
  BY SetupHead
<1> HIDE DEF todo
<1>2. todo \notin Pointings(orgName)
  BY PointingHead DEF todo
<1>3. NoGrant(<<TakeBack(orgName)>>) /\ NoGrant(<<Create(orgName)>>)
  <2>1. TakeBack(orgName).op # "grant" /\ Create(orgName).op # "grant"
    BY DEF TakeBack, Create, Call
  <2> QED
    BY <2>1, OneCallGrants
<1> QED
  BY <1>1, <1>2, <1>3, DeploymentHead DEF todo

\* A grant says whose name it is about.
LEMMA GrantOf ==
  ASSUME NEW l, NEW m, <<Grant(l)>> = <<Grant(m)>>
  PROVE  l = m
<1>1. Grant(l) = Grant(m)
  OBVIOUS
<1> QED
  BY <1>1 DEF Grant, Call

\* The page's loop never gives permission.
LEMMA PageHead ==
  ASSUME WizardInv, jobs["page"].todo # <<>>
  PROVE  /\ NoGrant(Head(jobs["page"].todo)) /\ jobs["page"].kind \notin {"idle", "createBatch", "create"}
         /\ step \in Opened
<1> DEFINE j == jobs["page"]
<1>1. j # Idle /\ PageJobOK(j) /\ j \in JobRows /\ j.kind # "idle"
  BY IdleJobs DEF WizardInv, WizardTypesOK, Slots
<1>2. step \in Opened
  BY <1>1 DEF WizardInv, StepsOK
<1> HIDE DEF j
<1>3. CASE BranchJobOK(j)
  <2>1. PICK b \in BranchLabels : j.todo = << <<Call("branch", orgName, b)>> >>
    BY <1>3 DEF BranchJobOK
  <2> DEFINE c == Call("branch", orgName, b)
  <2>2. c.op # "grant"
    BY DEF Call
  <2> HIDE DEF c
  <2>3. Head(j.todo) = <<c>>
    BY <2>1 DEF c
  <2>4. NoGrant(Head(j.todo))
    BY <2>2, <2>3, OneCallGrants
  <2> QED
    BY <1>2, <1>3, <2>4 DEF BranchJobOK, j
<1>4. CASE DefineJobOK(j)
  <2>1. j.todo \in Seq(Batches) /\ j.todo # <<>>
    BY <1>1, <1>4 DEF JobRows, DefineJobOK
  <2>2. 1 \in DOMAIN j.todo /\ Head(j.todo) = j.todo[1]
    BY <2>1
  <2>3. Head(j.todo) \in Seq(DefinesOf(registrar))
    BY <1>4, <2>2 DEF DefineJobOK
  <2>4. \A c \in DefinesOf(registrar) : c.op # "grant"
    BY DEF DefinesOf, Call
  <2>5. NoGrant(Head(j.todo))
    BY <2>3, <2>4 DEF NoGrant
  <2> QED
    BY <1>2, <1>4, <2>5 DEF DefineJobOK, j
<1> QED
  BY <1>1, <1>3, <1>4 DEF PageJobOK

\* A transaction is sent: it is the only one its loop waits for.
LEMMA SendInv ==
  ASSUME WizardInv, NEW k \in Slots, Send(k)
  PROVE  WizardInv'
<1> USE DEF WizardInv, shell, account, naming, opening, listing, history
<1> DEFINE j == jobs[k]
           batched == j.kind = "createBatch"
           e == [calls |-> Head(j.todo), by |-> wallet, to |-> IF batched THEN "batch" ELSE k]
           n == Len(mempool)
           next == IF batched THEN Idle ELSE [j EXCEPT !.at = "sent"]
<1>1. /\ j.kind # "idle" /\ j.at = "unsent" /\ j.todo # <<>> /\ wallet # None
      /\ mempool' = Append(mempool, e)
      /\ UNCHANGED <<chain, shell, setup, refreshes, drafts, outcomes, history, wallet, typed>>
  BY DEF Send, Busy
<1>2. j \in JobRows /\ j.todo \in Seq(Batches)
  BY DEF WizardTypesOK, JobRows
<1>3. jobs' = [jobs EXCEPT ![k] = next]
  <2>1. CASE batched
    BY <2>1 DEF Send
  <2>2. CASE ~batched
    <3>1. jobs' = [jobs EXCEPT ![k].at = "sent"]
      BY <2>2 DEF Send
    <3> QED
      BY <2>2, <3>1
  <2> QED
    BY <2>1, <2>2
<1>4. next \in JobRows /\ (~batched => next.kind = j.kind /\ next.todo = j.todo /\ next.at = "sent" /\ next.ran = j.ran)
  BY <1>2, IdleJobs DEF JobRows, Fates
<1>5. /\ Head(j.todo) \in Batches
  BY <1>1, <1>2
<1>6. e \in MempoolRows
  BY <1>1, <1>5 DEF WizardTypesOK, MempoolRows
<1>7. e.calls = Head(j.todo) /\ e.to = IF batched THEN "batch" ELSE k
  OBVIOUS
<1>8. batched => k = "setup"
  BY <1>1, PageHead DEF Slots
<1> HIDE DEF j, e, next, batched
<1>9. /\ n \in Nat /\ mempool' \in Seq(MempoolRows) /\ Len(mempool') = n + 1
      /\ \A i \in 1..n : mempool'[i] = mempool[i]
      /\ mempool'[n + 1] = e
  BY <1>1, <1>6, AppendProperties DEF WizardTypesOK
<1>10. \A i \in 1..(n + 1) : i \in 1..n \/ i = n + 1
  BY <1>9
<1>11. jobs'[k] = next /\ (\A h \in Slots : h # k => jobs'[h] = jobs[h]) /\ jobs' \in [Slots -> JobRows]
  BY <1>3, <1>4 DEF WizardTypesOK
<1> HIDE DEF n
<1>12. WizardTypesOK'
  BY <1>1, <1>9, <1>11 DEF WizardTypesOK
<1>13. (k = "setup" /\ batched) \/ jobs'[k].kind = j.kind
  BY <1>4, <1>8, <1>11
<1>14. \A h \in Slots : jobs[h].kind = "idle" => jobs'[h].kind = "idle"
  BY <1>1, <1>11 DEF j
<1>15. StepsOK'
  BY <1>1, <1>14 DEF StepsOK, Points, Slots
<1>16. SetupJobOK(jobs["setup"])'
  <2>1. CASE k = "setup" /\ batched
    BY <1>11, <2>1, IdleJobs DEF next, SetupJobOK
  <2>2. CASE k = "setup" /\ ~batched
    BY <1>1, <1>4, <1>11, <2>2, IdleJobs DEF SetupJobOK, j, batched
  <2>3. CASE k = "page"
    BY <1>1, <1>11, <2>3 DEF SetupJobOK, Slots
  <2> QED
    BY <2>1, <2>2, <2>3 DEF Slots
<1>17. PageJobOK(jobs["page"])'
  <2>1. CASE k = "page"
    <3>1. ~batched /\ j # Idle /\ PageJobOK(j)
      BY <1>1, <1>8, <2>1, IdleJobs DEF j
    <3>2. /\ jobs'["page"].kind = j.kind /\ jobs'["page"].todo = j.todo
          /\ jobs'["page"].at = "sent" /\ jobs'["page"].ran = j.ran
      BY <1>4, <1>11, <2>1, <3>1
    <3>3. UNCHANGED <<registrar, orgName, chain, reverted>>
      BY <1>1
    <3>4. CASE BranchJobOK(j)
      <4>1. BranchJobOK(jobs["page"])'
        BY <3>2, <3>3, <3>4 DEF BranchJobOK
      <4> QED
        BY <4>1 DEF PageJobOK
    <3>5. CASE DefineJobOK(j)
      <4>1. DefineJobOK(jobs["page"])'
        BY <3>2, <3>3, <3>5 DEF DefineJobOK, Published
      <4> QED
        BY <4>1 DEF PageJobOK
    <3> QED
      BY <3>1, <3>4, <3>5 DEF PageJobOK
  <2>2. CASE k = "setup"
    BY <1>1, <1>11, <2>2 DEF PageJobOK, BranchJobOK, DefineJobOK, Published, Slots
  <2> QED
    BY <2>1, <2>2 DEF Slots
<1>18. WatchOK'
  <2>1. \A i \in 1..n : mempool[i].to # k
    BY <1>1 DEF WatchOK, j, n
  <2>2. \A i \in 1..(n + 1) : mempool'[i].to \in Slots =>
          /\ jobs'[mempool'[i].to].at = "sent"
          /\ mempool'[i].calls = Head(jobs'[mempool'[i].to].todo)
    <3> SUFFICES ASSUME NEW i \in 1..(n + 1), mempool'[i].to \in Slots
                 PROVE  /\ jobs'[mempool'[i].to].at = "sent"
                        /\ mempool'[i].calls = Head(jobs'[mempool'[i].to].todo)
      OBVIOUS
    <3>1. CASE i \in 1..n
      BY <1>9, <1>11, <2>1, <3>1 DEF WatchOK, n
    <3>2. CASE i = n + 1
      <4>1. mempool'[i] = e /\ ~batched /\ e.to = k
        BY <1>7, <1>9, <3>2 DEF Slots
      <4> QED
        BY <1>4, <1>7, <1>11, <4>1
    <3> QED
      BY <1>10, <3>1, <3>2
  <2>3. \A i \in 1..(n + 1) : mempool'[i].to \in Slots =>
          \A h \in 1..(n + 1) : mempool'[h].to = mempool'[i].to => h = i
    <3> SUFFICES ASSUME NEW i \in 1..(n + 1), NEW h \in 1..(n + 1), mempool'[i].to \in Slots,
                        mempool'[h].to = mempool'[i].to
                 PROVE  h = i
      OBVIOUS
    <3>1. e.to \in Slots => e.to = k
      BY <1>7 DEF Slots
    <3>2. CASE i \in 1..n /\ h \in 1..n
      BY <1>9, <3>2 DEF WatchOK, n
    <3>3. CASE i = n + 1 \/ h = n + 1
      BY <1>9, <1>10, <2>1, <3>1, <3>3
    <3> QED
      BY <1>10, <3>2, <3>3
  <2> QED
    BY <1>9, <2>2, <2>3 DEF WatchOK
<1>19. LastOK'
  <2>1. CASE k = "setup"
    BY <1>1, <2>1 DEF LastOK, j
  <2>2. CASE k = "page"
    BY <1>1, <1>11, <2>2 DEF LastOK, Busy, Slots
  <2> QED
    BY <2>1, <2>2 DEF Slots
<1>20. PermissionsOK'
  <2>1. \A l : Owing(l) => Owing(l)'
    <3>1. CASE k = "setup"
      BY <1>1, <1>4, <1>11, <3>1 DEF Owing, j, batched
    <3>2. CASE k = "page"
      BY <1>1, <1>11, <3>2 DEF Owing, Slots
    <3> QED
      BY <3>1, <3>2 DEF Slots
  <2>2. \A l \in chain'.delegated : l \in cut' \/ Owing(l)'
    BY <1>1, <2>1 DEF PermissionsOK
  <2> DEFINE Fair(x) == \/ NoGrant(x.calls)
                        \/ \E l \in Labels : x.calls = DeployCalls(l)
                        \/ \E l \in Labels : x.calls = <<Grant(l)>> /\ (l \in cut \/ x.to = "setup")
  <2>3. Fair(e)
    <3>1. CASE k = "page"
      BY <1>1, <1>7, <3>1, PageHead DEF j
    <3>2. CASE k = "setup" /\ batched
      BY <1>1, <1>7, <3>2, SetupHead DEF j, batched
    <3>3. CASE k = "setup" /\ ~batched
      BY <1>1, <1>7, <3>3, SetupGrant DEF j, batched
    <3> QED
      BY <3>1, <3>2, <3>3 DEF Slots
  <2>4. \A i \in 1..n : Fair(mempool[i])
    BY DEF PermissionsOK, n
  <2> HIDE DEF Fair
  <2>5. \A i \in 1..(n + 1) : Fair(mempool'[i])
    BY <1>9, <1>10, <2>3, <2>4
  <2> QED
    BY <1>1, <1>9, <2>2, <2>5 DEF PermissionsOK, Fair
<1>21. OutcomesOK'
  BY <1>1 DEF OutcomesOK, Published
<1> QED
  BY <1>12, <1>15, <1>16, <1>17, <1>18, <1>19, <1>20, <1>21

\* The transactions after one of the loops stopped waiting.
LEMMA UnwatchedType ==
  ASSUME WizardInv, NEW k \in Slots
  PROVE  /\ Unwatched(k) \in Seq(MempoolRows) /\ Len(Unwatched(k)) = Len(mempool)
         /\ \A i \in 1..Len(mempool) :
              /\ Unwatched(k)[i].calls = mempool[i].calls
              /\ IF mempool[i].to = k THEN Unwatched(k)[i].to = "nobody" ELSE Unwatched(k)[i] = mempool[i]
<1> DEFINE n == Len(mempool)
           row(i) == IF mempool[i].to = k THEN [mempool[i] EXCEPT !.to = "nobody"] ELSE mempool[i]
<1>1. mempool \in Seq(MempoolRows) /\ n \in Nat /\ DOMAIN mempool = 1..n
  BY DEF WizardInv, WizardTypesOK
<1>2. ASSUME NEW i \in 1..n
      PROVE  /\ row(i) \in MempoolRows /\ row(i).calls = mempool[i].calls
             /\ IF mempool[i].to = k THEN row(i).to = "nobody" ELSE row(i) = mempool[i]
  <2>1. mempool[i] \in MempoolRows
    BY <1>1
  <2> QED
    BY <2>1 DEF MempoolRows
<1>3. Unwatched(k) = [i \in 1..n |-> row(i)]
  BY <1>1 DEF Unwatched
<1> HIDE DEF n, row
<1>4. Unwatched(k) \in [1..n -> MempoolRows]
  BY <1>2, <1>3
<1>5. Unwatched(k) \in Seq(MempoolRows) /\ Len(Unwatched(k)) = n
  BY <1>1, <1>4
<1> QED
  BY <1>2, <1>3, <1>5 DEF n

\* A transaction that the setup loop waits for and that gives permission.
LEMMA WatchedGrant ==
  ASSUME WizardInv, NEW i \in 1..Len(mempool), mempool[i].to = "setup",
         NEW l, mempool[i].calls = <<Grant(l)>>
  PROVE  l = orgName /\ jobs["setup"].kind = "create" /\ Len(jobs["setup"].todo) = 3
<1> DEFINE j == jobs["setup"]
<1>1. j.at = "sent" /\ Head(j.todo) = <<Grant(l)>>
  BY DEF WizardInv, WatchOK, Slots
<1>2. ~NoGrant(Head(j.todo))
  <2>1. Grant(l).op = "grant"
    BY DEF Grant, Call
  <2> QED
    BY <1>1, <2>1, OneCallGrants
<1>3. j.todo # <<>> /\ j.kind # "createBatch"
  BY <1>1, IdleJobs DEF WizardInv, SetupJobOK
<1>4. j.kind = "create" /\ Head(j.todo) = <<Grant(orgName)>> /\ Len(j.todo) = 3
  BY <1>2, <1>3, SetupGrant
<1> QED
  BY <1>1, <1>4, GrantOf

\* A loop stops where it is: what it gave is on record as cut, and of the groups only those
\* whose receipt came are shown as defined.
LEMMA StoppedInv ==
  ASSUME WizardInv, NEW k \in Slots, jobs[k].todo # <<>>, Stopped(k),
         mempool' = Unwatched(k),
         UNCHANGED <<chain, shell, setup, refreshes, drafts, reverted, wallet, typed>>
  PROVE  WizardInv'
<1> USE DEF WizardInv, shell
<1> DEFINE n == Len(mempool)
<1>1. /\ jobs'[k] = Idle /\ (\A h \in Slots : h # k => jobs'[h] = jobs[h]) /\ jobs' \in [Slots -> JobRows]
      /\ cut' = IF jobs[k].kind = "create" THEN cut \union {orgName} ELSE cut
      /\ cut \subseteq cut'
  BY IdleJobs DEF Stopped, WizardTypesOK
<1>2. /\ mempool' \in Seq(MempoolRows) /\ Len(mempool') = n /\ n \in Nat
      /\ \A i \in 1..n : /\ mempool'[i].calls = mempool[i].calls
                         /\ IF mempool[i].to = k THEN mempool'[i].to = "nobody" ELSE mempool'[i] = mempool[i]
  <2>1. n \in Nat
    BY DEF WizardTypesOK
  <2> QED
    BY <2>1, UnwatchedType
<1> HIDE DEF n
<1>3. WizardTypesOK'
  BY <1>1, <1>2 DEF WizardTypesOK, Stopped
<1>4. StepsOK'
  BY <1>1, IdleJobs DEF StepsOK, Points, Slots
<1>5. SetupJobOK(jobs["setup"])'
  BY <1>1, IdleJobs DEF SetupJobOK, Slots
<1>6. PageJobOK(jobs["page"])'
  BY <1>1 DEF PageJobOK, BranchJobOK, DefineJobOK, Published, Slots
<1>7. WatchOK'
  <2>1. \A i \in 1..n : mempool'[i].to \in Slots => mempool'[i] = mempool[i] /\ mempool[i].to # k
    BY <1>2 DEF Slots
  <2> QED
    BY <1>1, <1>2, <2>1 DEF WatchOK, n
<1>8. LastOK'
  BY <1>1 DEF LastOK, Busy, Slots
<1>9. PermissionsOK'
  <2>1. \A l \in chain'.delegated : l \in cut' \/ Owing(l)'
    <3>1. CASE k = "setup"
      BY <1>1, <3>1 DEF PermissionsOK, Owing
    <3>2. CASE k = "page"
      BY <1>1, <3>2 DEF PermissionsOK, Owing, Slots
    <3> QED
      BY <3>1, <3>2 DEF Slots
  <2>2. ASSUME NEW i \in 1..n
        PROVE  \/ NoGrant(mempool'[i].calls)
               \/ \E l \in Labels : mempool'[i].calls = DeployCalls(l)
               \/ \E l \in Labels : mempool'[i].calls = <<Grant(l)>> /\ (l \in cut' \/ mempool'[i].to = "setup")
    <3>0. mempool'[i].calls = mempool[i].calls
      BY <1>2
    <3>1. CASE NoGrant(mempool[i].calls) \/ \E l \in Labels : mempool[i].calls = DeployCalls(l)
      BY <3>0, <3>1
    <3>2. ASSUME NEW l \in Labels, mempool[i].calls = <<Grant(l)>>, l \in cut \/ mempool[i].to = "setup"
          PROVE  l \in cut' \/ mempool'[i].to = "setup"
      <4>1. CASE l \in cut
        BY <1>1, <4>1
      <4>2. CASE mempool[i].to = "setup" /\ k = "setup"
        <5>1. l = orgName /\ jobs["setup"].kind = "create"
          BY <3>2, <4>2, WatchedGrant DEF n
        <5> QED
          BY <1>1, <4>2, <5>1
      <4>3. CASE mempool[i].to = "setup" /\ k # "setup"
        BY <1>2, <4>3
      <4> QED
        BY <3>2, <4>1, <4>2, <4>3
    <3> QED
      BY <3>0, <3>1, <3>2 DEF PermissionsOK, n
  <2> QED
    BY <1>2, <2>1, <2>2 DEF PermissionsOK
<1>10. OutcomesOK'
  <2>1. CASE outcomes' = outcomes
    BY <2>1 DEF OutcomesOK, Published
  <2>2. CASE Defining(k) /\ outcomes' = [g \in Groups |-> OutcomeOf(k, g)]
    <3>1. k = "page" /\ DefineJobOK(jobs[k])
      BY <2>2, IdleJobs DEF Defining, SetupJobOK, PageJobOK, BranchJobOK, Slots
    <3>2. ASSUME NEW g \in Groups, OutcomeOf(k, g) = "defined"
          PROVE  registrar # None /\ Published(g)
      <4>1. g \in jobs[k].ran \/ outcomes[g] = "defined"
        BY <3>2 DEF OutcomeOf
      <4> QED
        BY <3>1, <4>1 DEF DefineJobOK, OutcomesOK
    <3> QED
      BY <2>2, <3>2 DEF OutcomesOK, Published
  <2> QED
    BY <2>1, <2>2 DEF Stopped
<1> QED
  BY <1>3, <1>4, <1>5, <1>6, <1>7, <1>8, <1>9, <1>10

\* A loop that has sent something has something to send.
LEMMA SentSomething ==
  ASSUME WizardInv, NEW k \in Slots, jobs[k].at # "unsent"
  PROVE  jobs[k].todo # <<>> /\ jobs[k].kind # "idle" /\ jobs[k].kind # "createBatch"
<1> DEFINE j == jobs[k]
<1>1. jobs[k] # Idle /\ j.kind # "idle"
  BY IdleJobs DEF Slots
<1>2. CASE k = "setup"
  BY <1>1, <1>2 DEF WizardInv, SetupJobOK
<1>3. CASE k = "page"
  <2>1. BranchJobOK(j) \/ DefineJobOK(j)
    BY <1>1, <1>3 DEF WizardInv, PageJobOK
  <2>2. CASE BranchJobOK(j)
    <3>1. PICK b \in BranchLabels : j.todo = << <<Call("branch", orgName, b)>> >>
      BY <2>2 DEF BranchJobOK
    <3>2. j.todo # <<>>
      BY <3>1
    <3> QED
      BY <1>1, <2>2, <3>2 DEF BranchJobOK
  <2>3. CASE DefineJobOK(j)
    BY <1>1, <2>3 DEF DefineJobOK
  <2> QED
    BY <2>1, <2>2, <2>3
<1> QED
  BY <1>2, <1>3 DEF Slots

\* The three ways to stop: refused, the wait given up, the batch failed.
LEMMA StopsInv ==
  ASSUME WizardInv, NEW k \in Slots, Refuse(k) \/ GiveUp(k) \/ BatchFailed(k)
  PROVE  WizardInv'
<1> USE DEF shell, account, naming, setting, opening
<1>1. jobs[k].todo # <<>> /\ Stopped(k)
      /\ UNCHANGED <<chain, shell, setup, refreshes, drafts, reverted, wallet, typed>>
  BY SentSomething DEF Refuse, GiveUp, BatchFailed
<1>2. mempool' = Unwatched(k)
  <2>1. CASE GiveUp(k)
    BY <2>1 DEF GiveUp
  <2>2. CASE Refuse(k) \/ BatchFailed(k)
    <3>1. mempool' = mempool /\ jobs[k].at # "sent"
      BY <2>2 DEF Refuse, BatchFailed
    <3>2. \A i \in 1..Len(mempool) : mempool[i].to # k
      BY <3>1 DEF WizardInv, WatchOK
    <3>3. mempool \in Seq(MempoolRows) /\ DOMAIN mempool = 1..Len(mempool)
      BY DEF WizardInv, WizardTypesOK
    <3>4. Unwatched(k) = [i \in 1..Len(mempool) |-> mempool[i]]
      BY <3>2, <3>3 DEF Unwatched
    <3> QED
      BY <3>1, <3>3, <3>4
  <2> QED
    BY <2>1, <2>2
<1> QED
  BY <1>1, <1>2, StoppedInv

\* What the loop that waits for the mined transaction finds.
LEMMA MinedBranch ==
  ASSUME WizardInv, NEW b \in BranchLabels, orgName \in Labels, NEW by \in Wallets,
         Transact(chain, <<Call("branch", orgName, b)>>, by).ok
  PROVE  Transact(chain, <<Call("branch", orgName, b)>>, by).chain.branch[<<orgName, b>>] # None
<1> DEFINE c == Call("branch", orgName, b)
           new == Transact(chain, <<c>>, by).chain
<1>1. c \in Calls /\ c.op = "branch" /\ c.label = orgName /\ c.arg = b
  BY DEF Calls, Call
<1> HIDE DEF c
<1>2. chain \in Chains
  BY DEF WizardInv, WizardTypesOK
<1>3. Transact(chain, <<c>>, by).ok
  BY DEF c
<1>4. new = Executed(chain, c, by)
  BY <1>1, <1>2, <1>3, TransactOne
<1>5. Executed(chain, c, by) = [chain EXCEPT !.branch[<<c.label, c.arg>>] = by]
  BY <1>1 DEF Executed
<1> HIDE DEF new
<1>6. new.branch[<<orgName, b>>] = by
  <2>1. <<orgName, b>> \in Registrars
    BY DEF Registrars
  <2> QED
    BY <1>1, <1>2, <1>4, <1>5, <2>1 DEF Chains
<1>7. by # None
  BY PartiesAssumption
<1> QED
  BY <1>6, <1>7 DEF new, c

\* A grant gives the permission on its own name at most.
LEMMA MinedGrant ==
  ASSUME NEW ch \in Chains, NEW l \in Labels, NEW by \in Wallets
  PROVE  Transact(ch, <<Grant(l)>>, by).chain.delegated \subseteq ch.delegated \union {l}
<1> DEFINE c == Grant(l)
           done == Transact(ch, <<c>>, by)
<1>1. c \in Calls /\ c.op = "grant" /\ c.label = l
  BY DEF Calls, Call, Grant
<1> HIDE DEF c
<1>2. <<c>> \in Seq(Calls)
  BY <1>1
<1>3. CASE done.ok
  <2>1. done.chain = Executed(ch, c, by)
    BY <1>1, <1>3, TransactOne
  <2>2. Executed(ch, c, by) = [ch EXCEPT !.delegated = @ \union {l}]
    BY <1>1 DEF Executed
  <2> HIDE DEF done
  <2>3. done.chain.delegated = ch.delegated \union {l}
    BY <2>1, <2>2 DEF Chains
  <2> QED
    BY <2>3 DEF done, c
<1>4. CASE ~done.ok
  <2>1. done.chain = ch
    BY <1>2, <1>4, TransactType
  <2> QED
    BY <2>1 DEF c
<1> QED
  BY <1>3, <1>4

\* A permission that is taken back is gone.
LEMMA MinedTakeBack ==
  ASSUME NEW ch \in Chains, NEW l \in Labels, NEW by \in Wallets,
         Transact(ch, <<TakeBack(l)>>, by).ok
  PROVE  l \notin Transact(ch, <<TakeBack(l)>>, by).chain.delegated
<1> DEFINE c == TakeBack(l)
           done == Transact(ch, <<c>>, by)
<1>1. c \in Calls /\ c.op = "revoke" /\ c.label = l
  BY DEF Calls, Call, TakeBack
<1> HIDE DEF c
<1>2. done.ok
  BY DEF c
<1>3. done.chain = Executed(ch, c, by)
  BY <1>1, <1>2, TransactOne
<1>4. Executed(ch, c, by) = [ch EXCEPT !.delegated = @ \ {l}]
  BY <1>1 DEF Executed
<1> HIDE DEF done
<1>5. done.chain.delegated = ch.delegated \ {l}
  BY <1>3, <1>4 DEF Chains
<1> QED
  BY <1>5 DEF done, c

\* The last of a deployment takes the permission back.
LEMMA LastOfDeployment ==
  ASSUME NEW l, NEW todo \in Deployments(l), todo # <<>>, Len(todo) = 1
  PROVE  Head(todo) = <<TakeBack(l)>>
<1>1. \/ Len(todo) = 1 /\ Head(todo) = <<TakeBack(l)>>
      \/ Len(todo) = 2 \/ Len(todo) = 3
  BY DeploymentHead
<1> QED
  BY <1>1

\* All that the oldest transaction is.
LEMMA Oldest ==
  ASSUME WizardInv, mempool # <<>>
  PROVE  /\ Head(mempool) = mempool[1] /\ mempool[1] \in MempoolRows /\ 1 \in 1..Len(mempool)
         /\ mempool[1].calls \in Batches /\ mempool[1].calls \in Seq(Calls) /\ mempool[1].by \in Wallets
         /\ Tail(mempool) \in Seq(MempoolRows) /\ Len(Tail(mempool)) = Len(mempool) - 1 /\ Len(mempool) \in Nat
         /\ \A i \in 1..(Len(mempool) - 1) : Tail(mempool)[i] = mempool[i + 1] /\ i + 1 \in 1..Len(mempool)
<1>1. mempool \in Seq(MempoolRows)
  BY DEF WizardInv, WizardTypesOK
<1>2. Head(mempool) = mempool[1] /\ 1 \in 1..Len(mempool) /\ mempool[1] \in MempoolRows
  BY <1>1
<1>3. mempool[1].calls \in Batches /\ mempool[1].by \in Wallets
  BY <1>2 DEF MempoolRows
<1>4. mempool[1].calls \in Seq(Calls)
  BY <1>3 DEF Batches
<1>5. /\ Tail(mempool) \in Seq(MempoolRows) /\ Len(Tail(mempool)) = Len(mempool) - 1 /\ Len(mempool) \in Nat
      /\ \A i \in 1..(Len(mempool) - 1) : Tail(mempool)[i] = mempool[i + 1] /\ i + 1 \in 1..Len(mempool)
  BY <1>1, HeadTailProperties
<1> QED
  BY <1>2, <1>3, <1>4, <1>5

\* The oldest transaction takes effect or reverts, whoever waits for it by then.
LEMMA MineInv ==
  ASSUME WizardInv, Mine
  PROVE  WizardInv'
<1> USE DEF WizardInv, shell, opening, listing, account
<1> DEFINE t == mempool[1]
           done == Transact(chain, t.calls, t.by)
           fate == IF done.ok THEN "ok" ELSE "reverted"
           n == Len(mempool)
<1>1. /\ t \in MempoolRows /\ 1 \in 1..n /\ t.calls \in Seq(Calls) /\ t.calls \in Batches /\ t.by \in Wallets /\ n \in Nat
      /\ mempool' \in Seq(MempoolRows) /\ Len(mempool') = n - 1
      /\ \A i \in 1..(n - 1) : mempool'[i] = mempool[i + 1] /\ i + 1 \in 1..n
  BY Oldest DEF Mine
<1>2. /\ chain' = done.chain
      /\ jobs' = IF t.to \in Slots THEN [jobs EXCEPT ![t.to].at = fate] ELSE jobs
      /\ cut' = IF t.to = "setup" /\ ~done.ok THEN cut \union {t.calls[1].label} ELSE cut
      /\ reverted' = IF t.calls[1].op = "define" /\ ~done.ok
                     THEN reverted \union {<<t.calls[i].label, t.calls[i].arg>> : i \in DOMAIN t.calls}
                     ELSE reverted
      /\ UNCHANGED <<shell, setup, refreshes, drafts, outcomes, wallet, typed>>
  BY Oldest DEF Mine
<1>3. /\ chain \in Chains /\ done.chain \in Chains /\ done.ok \in BOOLEAN
      /\ Grown(chain, chain')
      /\ NoGrant(t.calls) => chain'.delegated \subseteq chain.delegated
      /\ ~done.ok => chain' = chain
  <2>1. chain \in Chains
    BY DEF WizardTypesOK
  <2> HIDE DEF t
  <2>2. /\ done \in Accs /\ Grown(chain, done.chain)
        /\ NoGrant(t.calls) => done.chain.delegated \subseteq chain.delegated
        /\ ~done.ok => done.chain = chain
    BY <1>1, <2>1, TransactType
  <2> HIDE DEF done
  <2> QED
    BY <1>2, <2>1, <2>2 DEF Accs
<1>4. fate \in Fates /\ fate \in {"ok", "reverted"} /\ (fate = "ok" => done.ok) /\ (fate = "reverted" => ~done.ok)
  BY DEF Fates
<1>5. cut \subseteq cut' /\ reverted \subseteq reverted'
  BY <1>2
<1> HIDE DEF done, fate, n, t
<1>6. /\ jobs' \in [Slots -> JobRows]
      /\ \A h \in Slots : /\ jobs'[h].kind = jobs[h].kind /\ jobs'[h].todo = jobs[h].todo
                          /\ jobs'[h].ran = jobs[h].ran
                          /\ IF t.to = h THEN jobs'[h].at = fate ELSE jobs'[h] = jobs[h]
  <2>1. \A h \in Slots : jobs[h] \in JobRows
    BY DEF WizardTypesOK
  <2>2. CASE t.to \in Slots
    <3> DEFINE x == jobs[t.to]
               y == [x EXCEPT !.at = fate]
    <3>1. x \in JobRows
      BY <2>1, <2>2
    <3>2. y \in JobRows /\ y.kind = x.kind /\ y.todo = x.todo /\ y.ran = x.ran /\ y.at = fate
      BY <1>4, <3>1 DEF JobRows
    <3>3. jobs' = [jobs EXCEPT ![t.to] = y]
      BY <1>2, <2>2
    <3> HIDE DEF y
    <3>4. jobs'[t.to] = y /\ \A h \in Slots : h # t.to => jobs'[h] = jobs[h]
      BY <2>2, <3>3 DEF WizardTypesOK
    <3>5. jobs' \in [Slots -> JobRows]
      BY <2>2, <3>2, <3>3 DEF WizardTypesOK
    <3>6. ASSUME NEW h \in Slots
          PROVE /\ jobs'[h].kind = jobs[h].kind /\ jobs'[h].todo = jobs[h].todo
                /\ jobs'[h].ran = jobs[h].ran
                /\ IF t.to = h THEN jobs'[h].at = fate ELSE jobs'[h] = jobs[h]
      <4>1. CASE h = t.to
        BY <3>2, <3>4, <4>1
      <4>2. CASE h # t.to
        BY <3>4, <4>2
      <4> QED
        BY <4>1, <4>2
    <3> QED
      BY <3>5, <3>6
  <2>3. CASE t.to \notin Slots
    BY <1>2, <2>3 DEF WizardTypesOK
  <2> QED
    BY <2>2, <2>3
<1>7. \A h \in Slots : t.to = h => /\ jobs[h].at = "sent" /\ t.calls = Head(jobs[h].todo)
                                   /\ jobs[h].todo # <<>> /\ jobs[h].kind # "createBatch" /\ jobs[h].kind # "idle"
  <2>1. \A h \in Slots : t.to = h => jobs[h].at = "sent" /\ t.calls = Head(jobs[h].todo)
    BY <1>1 DEF WatchOK, t, n
  <2> QED
    BY <2>1, SentSomething
<1>8. /\ Points(orgName) /\ orgName \in Labels => Points(orgName)'
      /\ registrar # None => \A g : Published(g) => Published(g)'
      /\ registrar # None => chain'.branch[registrar] # None
      /\ \A r \in Registrars : chain.branch[r] # None => chain'.branch[r] # None
  BY <1>2, <1>3, <1>5, ChainGrows
<1>9. WizardTypesOK'
  BY <1>1, <1>2, <1>3, <1>6 DEF WizardTypesOK
<1>10. StepsOK'
  <2>1. \A h \in Slots : jobs'[h].kind = jobs[h].kind
    BY <1>6
  <2>2. orgName' = orgName /\ registrar' = registrar /\ step' = step /\ setup' = setup /\ refreshes' = refreshes /\ org' = org
    BY <1>2
  <2>3. step \in Early \/ orgName \in Labels
    BY DEF StepsOK
  <2>4. step \in Early => ~(setup = "pointed" \/ \E x \in refreshes : x.at = "pointed")
    BY DEF StepsOK
  <2>5. setup' = "pointed" \/ (\E x \in refreshes' : x.at = "pointed") => Points(orgName)'
    BY <1>8, <2>2, <2>3, <2>4 DEF StepsOK
  <2>6. step' \in Opened => org' = orgName' /\ Points(orgName)'
    BY <1>8, <2>2, <2>3 DEF StepsOK, Opened, Early
  <2>7. registrar' # None => step' \in {"groups", "done"} /\ registrar'[1] = orgName' /\ chain'.branch[registrar'] # None
    BY <1>8, <2>2 DEF StepsOK
  <2> QED
    BY <2>1, <2>2, <2>5, <2>6, <2>7 DEF StepsOK, Slots
<1>11. SetupJobOK(jobs["setup"])'
  <2>1. CASE t.to = "setup"
    <3>1. jobs["setup"] # Idle /\ jobs["setup"].todo # <<>> /\ jobs["setup"].kind \notin {"createBatch", "idle"}
      BY <1>7, <2>1, IdleJobs DEF Slots
    <3>2. jobs'["setup"].kind = jobs["setup"].kind /\ jobs'["setup"].todo = jobs["setup"].todo
      BY <1>6 DEF Slots
    <3> QED
      BY <1>2, <3>1, <3>2 DEF SetupJobOK
  <2>2. CASE t.to # "setup"
    <3>1. jobs'["setup"] = jobs["setup"] /\ orgName' = orgName
      BY <1>2, <1>6, <2>2 DEF Slots
    <3> QED
      BY <3>1 DEF SetupJobOK
  <2> QED
    BY <2>1, <2>2
<1>12. PageJobOK(jobs["page"])'
  <2> DEFINE j == jobs["page"]
  <2>1. /\ jobs'["page"].kind = j.kind /\ jobs'["page"].todo = j.todo /\ jobs'["page"].ran = j.ran
        /\ IF t.to = "page" THEN jobs'["page"].at = fate ELSE jobs'["page"] = j
    BY <1>6 DEF Slots
  <2>2. UNCHANGED <<registrar, orgName>>
    BY <1>2
  <2>3. CASE j = Idle
    <3>1. jobs'["page"] = j
      BY <1>7, <2>1, <2>3, IdleJobs DEF Slots
    <3> QED
      BY <2>3, <3>1 DEF PageJobOK
  <2>4. CASE BranchJobOK(j)
    <3>1. orgName \in Labels
      BY <2>4 DEF StepsOK, BranchJobOK, Early, Opened
    <3>2. PICK b \in BranchLabels : /\ j.todo = << <<Call("branch", orgName, b)>> >>
                                    /\ j.at = "ok" => chain.branch[<<orgName, b>>] # None
      BY <2>4 DEF BranchJobOK
    <3>3. <<orgName, b>> \in Registrars
      BY <3>1 DEF Registrars
    <3>4. ASSUME jobs'["page"].at = "ok" PROVE chain'.branch[<<orgName, b>>] # None
      <4>1. CASE t.to = "page"
        <5>1. t.calls = Head(j.todo) /\ done.ok
          BY <1>4, <1>7, <2>1, <3>4, <4>1 DEF Slots
        <5>2. t.calls = <<Call("branch", orgName, b)>>
          BY <3>2, <5>1
        <5> QED
          BY <1>1, <1>2, <3>1, <5>1, <5>2, MinedBranch DEF done
      <4>2. CASE t.to # "page"
        BY <1>8, <2>1, <3>2, <3>3, <3>4, <4>2
      <4> QED
        BY <4>1, <4>2
    <3>5. BranchJobOK(jobs["page"])'
      BY <2>1, <2>2, <2>4, <3>2, <3>4 DEF BranchJobOK
    <3> QED
      BY <3>5 DEF PageJobOK
  <2>5. CASE DefineJobOK(j)
    <3>1. registrar # None /\ registrar \in Registrars /\ j.todo # <<>> /\ j.todo \in Seq(Batches)
      BY <2>5 DEF DefineJobOK, WizardTypesOK, JobRows, Slots
    <3>2. Head(j.todo) \in Seq(DefinesOf(registrar)) /\ Head(j.todo) \in Batches
      <4>1. 1 \in DOMAIN j.todo /\ Head(j.todo) = j.todo[1] /\ Head(j.todo) \in Batches
        BY <3>1
      <4> QED
        BY <2>5, <4>1 DEF DefineJobOK
    <3>3. ASSUME jobs'["page"].at \in {"ok", "reverted"}, NEW g \in NamesIn(Head(j.todo))
          PROVE  Published(g)'
      <4>1. CASE t.to # "page"
        <5>1. Published(g)
          BY <2>1, <2>5, <3>3, <4>1 DEF DefineJobOK
        <5> QED
          BY <1>8, <3>1, <5>1
      <4>2. CASE t.to = "page" /\ done.ok
        <5>1. t.calls = Head(j.todo)
          BY <1>7, <4>2 DEF Slots
        <5>2. NamesIn(t.calls) \subseteq done.chain.roles[registrar]
          BY <1>1, <1>3, <3>1, <3>2, <4>2, <5>1, TransactDefines DEF done
        <5> QED
          BY <1>2, <3>3, <5>1, <5>2 DEF Published
      <4>3. CASE t.to = "page" /\ ~done.ok
        <5>1. t.calls = Head(j.todo)
          BY <1>7, <4>3 DEF Slots
        <5> DEFINE cs == t.calls
        <5>2. cs \in Seq(DefinesOf(registrar)) /\ cs # <<>>
          BY <3>2, <5>1 DEF Batches
        <5> HIDE DEF cs
        <5>3. 1 \in DOMAIN cs /\ \A i \in DOMAIN cs : cs[i] \in DefinesOf(registrar)
          BY <5>2
        <5>4. \A c \in DefinesOf(registrar) : c.op = "define" /\ c.label = registrar
          BY DEF DefinesOf, Call
        <5>5. PICK i \in DOMAIN cs : g = cs[i].arg
          BY <3>3, <5>1 DEF NamesIn, cs
        <5>6. <<registrar, g>> \in {<<cs[q].label, cs[q].arg>> : q \in DOMAIN cs}
          BY <5>3, <5>4, <5>5
        <5>7. <<registrar, g>> \in reverted'
          BY <1>2, <4>3, <5>3, <5>4, <5>6 DEF cs
        <5> QED
          BY <2>2, <5>7 DEF Published
      <4> QED
        BY <4>1, <4>2, <4>3
    <3>4. \A g \in j.ran : Published(g)'
      BY <1>8, <2>5, <3>1 DEF DefineJobOK
    <3>5. DefineJobOK(jobs["page"])'
      BY <2>1, <2>2, <2>5, <3>3, <3>4 DEF DefineJobOK
    <3> QED
      BY <3>5 DEF PageJobOK
  <2> QED
    BY <2>3, <2>4, <2>5 DEF PageJobOK
<1>13. WatchOK'
  <2>1. ASSUME NEW i \in 1..(n - 1), mempool'[i].to \in Slots
        PROVE  /\ jobs'[mempool'[i].to].at = "sent"
               /\ mempool'[i].calls = Head(jobs'[mempool'[i].to].todo)
               /\ \A h \in 1..(n - 1) : mempool'[h].to = mempool'[i].to => h = i
    <3> DEFINE k == mempool'[i].to
    <3>1. mempool'[i] = mempool[i + 1] /\ i + 1 \in 1..n /\ 1 # i + 1
      BY <1>1
    <3>2. /\ jobs[k].at = "sent" /\ mempool'[i].calls = Head(jobs[k].todo)
          /\ \A h \in 1..n : mempool[h].to = k => h = i + 1
      BY <2>1, <3>1 DEF WatchOK, n
    <3>3. t.to # k
      BY <1>1, <3>1, <3>2 DEF t
    <3>4. jobs'[k] = jobs[k]
      BY <1>6, <2>1, <3>3
    <3>5. ASSUME NEW h \in 1..(n - 1), mempool'[h].to = k PROVE h = i
      <4>1. mempool'[h] = mempool[h + 1] /\ h + 1 \in 1..n
        BY <1>1
      <4>2. h + 1 = i + 1
        BY <3>2, <3>5, <4>1
      <4> QED
        BY <4>2
    <3> QED
      BY <3>2, <3>4, <3>5
  <2> QED
    BY <1>1, <2>1 DEF WatchOK
<1>14. LastOK'
  BY <1>2, <1>6 DEF LastOK, Busy, Slots
<1>15. PermissionsOK'
  <2>1. ASSUME NEW l, l \in chain'.delegated, Owing(l)
        PROVE  l \in cut' \/ Owing(l)'
    <3> DEFINE j == jobs["setup"]
    <3>1. /\ jobs'["setup"].kind = j.kind /\ jobs'["setup"].todo = j.todo /\ orgName' = orgName
          /\ IF t.to = "setup" THEN jobs'["setup"].at = fate ELSE jobs'["setup"] = j
      BY <1>2, <1>6 DEF Slots
    <3>2. CASE t.to # "setup" \/ Len(j.todo) # 1
      BY <2>1, <3>1, <3>2 DEF Owing
    <3>3. CASE t.to = "setup" /\ Len(j.todo) = 1
      <4>1. l = orgName /\ l \in Labels /\ j.todo \in Deployments(l) /\ j.todo # <<>>
        BY <2>1, SetupHead DEF Owing
      <4>2. t.calls = <<TakeBack(l)>>
        <5>1. Head(j.todo) = <<TakeBack(l)>>
          <6> DEFINE todo == j.todo
          <6>1. todo \in Deployments(l) /\ todo # <<>> /\ Len(todo) = 1
            BY <3>3, <4>1
          <6> HIDE DEF todo
          <6>2. Head(todo) = <<TakeBack(l)>>
            BY <6>1, LastOfDeployment
          <6> QED
            BY <6>2 DEF todo
        <5> QED
          BY <1>7, <3>3, <5>1 DEF Slots
      <4>3. ~done.ok
        BY <1>1, <1>2, <1>3, <2>1, <4>1, <4>2, MinedTakeBack DEF done
      <4>4. t.calls[1].label = l
        <5>1. t.calls[1] = TakeBack(l)
          BY <4>2
        <5> QED
          BY <5>1 DEF TakeBack, Call
      <4> QED
        BY <1>2, <3>3, <4>3, <4>4
    <3> QED
      BY <3>2, <3>3
  <2>2. ASSUME NEW l \in chain'.delegated PROVE l \in cut' \/ Owing(l)'
    <3>1. CASE l \in chain.delegated
      BY <1>5, <2>1, <3>1 DEF PermissionsOK
    <3>2. CASE l \notin chain.delegated
      <4>1. ~NoGrant(t.calls)
        BY <1>3, <3>2
      <4>2. \A m \in Labels : t.calls # DeployCalls(m)
        <5> SUFFICES ASSUME NEW m \in Labels, t.calls = DeployCalls(m) PROVE FALSE
          OBVIOUS
        <5>1. done.chain.delegated \subseteq chain.delegated
          BY <1>1, <1>3, TransactDeployment DEF done
        <5> QED
          BY <1>2, <3>2, <5>1
      <4>3. PICK m \in Labels : t.calls = <<Grant(m)>> /\ (m \in cut \/ t.to = "setup")
        BY <1>1, <4>1, <4>2 DEF PermissionsOK, t, n
      <4>4. done.chain.delegated \subseteq chain.delegated \union {m}
        BY <1>1, <1>3, <4>3, MinedGrant DEF done
      <4>5. l = m
        BY <1>2, <3>2, <4>4
      <4>6. CASE t.to = "setup"
        <5>1. l = orgName /\ jobs["setup"].kind = "create" /\ Len(jobs["setup"].todo) = 3
          BY <1>1, <4>3, <4>5, <4>6, WatchedGrant DEF t, n
        <5>2. jobs["setup"].todo # <<>>
          BY <1>7, <4>6 DEF Slots
        <5>3. jobs'["setup"].kind = "create" /\ jobs'["setup"].todo = jobs["setup"].todo /\ orgName' = orgName
          BY <1>2, <1>6, <5>1 DEF Slots
        <5> QED
          BY <5>1, <5>2, <5>3 DEF Owing
      <4> QED
        BY <1>5, <4>3, <4>5, <4>6
    <3> QED
      BY <3>1, <3>2
  <2>3. \A i \in 1..(n - 1) :
          \/ NoGrant(mempool'[i].calls)
          \/ \E l \in Labels : mempool'[i].calls = DeployCalls(l)
          \/ \E l \in Labels : mempool'[i].calls = <<Grant(l)>> /\ (l \in cut' \/ mempool'[i].to = "setup")
    BY <1>1, <1>5 DEF PermissionsOK, n
  <2> QED
    BY <1>1, <2>2, <2>3 DEF PermissionsOK
<1>16. OutcomesOK'
  BY <1>2, <1>8 DEF OutcomesOK
<1> QED
  BY <1>9, <1>10, <1>11, <1>12, <1>13, <1>14, <1>15, <1>16

\* What is left to send once the first is over.
LEMMA TailBatches ==
  ASSUME NEW todo \in Seq(Batches), todo # <<>>
  PROVE  /\ Tail(todo) \in Seq(Batches) /\ Head(todo) \in Batches /\ Head(todo) = todo[1] /\ 1 \in DOMAIN todo
         /\ \A i \in DOMAIN Tail(todo) : i + 1 \in DOMAIN todo /\ Tail(todo)[i] = todo[i + 1]
<1>1. /\ Tail(todo) \in Seq(Batches) /\ Len(Tail(todo)) = Len(todo) - 1
      /\ \A i \in 1..(Len(todo) - 1) : Tail(todo)[i] = todo[i + 1]
  BY HeadTailProperties
<1>2. DOMAIN todo = 1..Len(todo) /\ DOMAIN Tail(todo) = 1..(Len(todo) - 1) /\ Len(todo) \in Nat
  BY <1>1
<1>3. \A i \in 1..(Len(todo) - 1) : i + 1 \in 1..Len(todo)
  BY <1>2
<1>4. Head(todo) \in Batches /\ Head(todo) = todo[1] /\ 1 \in DOMAIN todo
  OBVIOUS
<1> QED
  BY <1>1, <1>2, <1>3, <1>4

\* The setup loop goes on to its next transaction, to its last refresh, or ends; it never ends
\* while it owes a permission.
LEMMA SetupReceiptInv ==
  ASSUME WizardInv, Receipt("setup")
  PROVE  WizardInv'
<1> USE DEF WizardInv, shell, account, opening, history
<1> DEFINE j == jobs["setup"]
           rest == Tail(j.todo)
           m == [j EXCEPT !.todo = rest, !.at = "unsent", !.ran = {}]
           y == Refresh("asked", TRUE)
<1>0. "setup" \in Slots /\ "page" \in Slots
  BY DEF Slots
<1>1. /\ j.at \in {"ok", "reverted"} /\ j.todo # <<>> /\ j.kind \notin {"idle", "createBatch"}
      /\ j # Idle /\ SetupJobOK(j) /\ j \in JobRows /\ j.todo \in Seq(Batches)
  BY <1>0, SentSomething, IdleJobs DEF Receipt, WizardTypesOK, JobRows
<1>2. ~Defining("setup") /\ j.kind \in {"create", "point"}
  BY <1>1 DEF SetupJobOK, Defining
<1>3. /\ \/ jobs' = [jobs EXCEPT !["setup"] = m] /\ refreshes' = refreshes /\ rest # <<>>
         \/ /\ jobs' = [jobs EXCEPT !["setup"] = m] /\ rest = <<>>
            /\ refreshes' = refreshes \union {y}
         \/ jobs' = [jobs EXCEPT !["setup"] = Idle] /\ refreshes' = refreshes /\ rest = <<>>
      /\ UNCHANGED <<chain, mempool, shell, setup, drafts, outcomes, history, wallet, typed>>
  BY <1>2 DEF Receipt
<1>4. y \in RefreshRows /\ y.at = "asked" /\ y.last
  BY DEF RefreshRows, Refresh
<1>5. m \in JobRows /\ m.kind = j.kind /\ m.todo = rest /\ m.at = "unsent"
  BY <1>1, TailBatches DEF JobRows, Fates
<1>6. SetupJobOK(m)
  <2>1. CASE j.kind = "create"
    <3>1. j.todo \in Deployments(orgName)
      BY <1>1, <2>1, IdleJobs DEF SetupJobOK
    <3>2. rest \in Deployments(orgName)
      BY <1>1, <3>1, DeploymentHead
    <3> QED
      BY <1>5, <2>1, <3>2 DEF SetupJobOK
  <2>2. CASE j.kind = "point"
    <3>1. j.todo \in Pointings(orgName)
      BY <1>1, <2>2, IdleJobs DEF SetupJobOK
    <3>2. rest \in Pointings(orgName)
      BY <1>1, <3>1, PointingHead
    <3> QED
      BY <1>5, <2>2, <3>2 DEF SetupJobOK
  <2> QED
    BY <1>2, <2>1, <2>2
<1>7. \A l : Owing(l) => rest # <<>>
  <2> SUFFICES ASSUME NEW l, Owing(l) PROVE rest # <<>>
    OBVIOUS
  <2>1. j.todo \in Deployments(orgName) /\ Len(j.todo) # 1
    BY <1>1, IdleJobs DEF Owing, SetupJobOK
  <2> QED
    BY <1>1, <2>1, DeploymentHead
<1>8. \A x \in refreshes : ~x.last
  BY <1>1 DEF LastOK
<1>9. \A i \in 1..Len(mempool) : mempool[i].to # "setup"
  BY <1>0, <1>1 DEF WatchOK
<1>10. \/ jobs'["setup"] = m /\ (refreshes' = refreshes \/ (refreshes' = refreshes \union {y} /\ rest = <<>>))
       \/ jobs'["setup"] = Idle /\ refreshes' = refreshes /\ rest = <<>>
  BY <1>0, <1>3 DEF WizardTypesOK
<1>11. jobs'["page"] = jobs["page"] /\ jobs' \in [Slots -> JobRows] /\ step \notin Early
  BY <1>0, <1>1, <1>3, <1>5, IdleJobs DEF WizardTypesOK, StepsOK
<1> HIDE DEF y, m, rest
<1>12. WizardTypesOK'
  BY <1>3, <1>4, <1>11 DEF WizardTypesOK
<1>13. StepsOK'
  BY <1>3, <1>4, <1>11 DEF StepsOK, Points
<1>14. SetupJobOK(jobs["setup"])'
  <2>1. orgName' = orgName
    BY <1>3
  <2>2. SetupJobOK(jobs'["setup"])
    BY <1>6, <1>10, IdleJobs DEF SetupJobOK
  <2> QED
    BY <2>1, <2>2 DEF SetupJobOK
<1>15. PageJobOK(jobs["page"])'
  BY <1>3, <1>11 DEF PageJobOK, BranchJobOK, DefineJobOK, Published
<1>16. WatchOK'
  BY <1>3, <1>9, <1>11 DEF WatchOK, Slots
<1>17. LastOK'
  BY <1>1, <1>4, <1>5, <1>8, <1>10 DEF LastOK, Busy
<1>18. PermissionsOK'
  <2>1. \A l : Owing(l) => Owing(l)'
    BY <1>3, <1>5, <1>7, <1>10 DEF Owing
  <2> QED
    BY <1>3, <2>1 DEF PermissionsOK
<1>19. OutcomesOK'
  BY <1>3 DEF OutcomesOK, Published
<1> QED
  BY <1>12, <1>13, <1>14, <1>15, <1>16, <1>17, <1>18, <1>19

\* The groups' loop goes on or ends, and reports what it has receipts for.
LEMMA PageReceiptInv ==
  ASSUME WizardInv, Receipt("page")
  PROVE  WizardInv'
<1> USE DEF WizardInv, shell, account, opening, history
<1> DEFINE j == jobs["page"]
           rest == Tail(j.todo)
           ran == j.ran \union NamesIn(Head(j.todo))
           m == [j EXCEPT !.todo = rest, !.at = "unsent", !.ran = ran]
<1>0. "setup" \in Slots /\ "page" \in Slots
  BY DEF Slots
<1>1. /\ j.at \in {"ok", "reverted"} /\ j.todo # <<>> /\ j.kind \notin {"idle", "branch"}
      /\ j \in JobRows /\ j.todo \in Seq(Batches) /\ j.ran \subseteq Groups
  BY <1>0, SentSomething DEF Receipt, WizardTypesOK, JobRows
<1>2. DefineJobOK(j) /\ Defining("page")
  BY <1>1, IdleJobs DEF PageJobOK, BranchJobOK, DefineJobOK, Defining
<1>3. /\ \/ jobs' = [jobs EXCEPT !["page"] = m] /\ outcomes' = outcomes /\ rest # <<>>
         \/ /\ jobs' = [jobs EXCEPT !["page"] = Idle]
            /\ outcomes' = IF step # "groups" THEN outcomes
                           ELSE [g \in Groups |-> IF g \in ran THEN "defined" ELSE outcomes[g]]
      /\ UNCHANGED <<chain, mempool, shell, setup, refreshes, drafts, history, wallet, typed>>
  BY <1>2 DEF Receipt
<1>4. registrar # None /\ registrar \in Registrars /\ \A g \in ran : Published(g)
  BY <1>1, <1>2 DEF DefineJobOK, WizardTypesOK
<1>5. Head(j.todo) \in Seq(DefinesOf(registrar))
  BY <1>1, <1>2, TailBatches DEF DefineJobOK
<1>6. NamesIn(Head(j.todo)) \subseteq Groups
  <2> DEFINE h == Head(j.todo)
  <2>1. h \in Seq(DefinesOf(registrar))
    BY <1>5
  <2> HIDE DEF h
  <2>2. \A i \in DOMAIN h : h[i] \in DefinesOf(registrar)
    BY <2>1
  <2>3. \A c \in DefinesOf(registrar) : c.arg \in Groups
    BY DEF DefinesOf, Call
  <2>4. NamesIn(h) \subseteq Groups
    BY <2>2, <2>3 DEF NamesIn
  <2> QED
    BY <2>4 DEF h
<1>7. m \in JobRows /\ m.kind = j.kind /\ m.todo = rest /\ m.at = "unsent" /\ m.ran = ran
  <2>1. rest \in Seq(Batches) /\ ran \subseteq Groups
    BY <1>1, <1>6, TailBatches
  <2> HIDE DEF rest, ran
  <2> QED
    BY <1>1, <2>1 DEF JobRows, Fates
<1>8. \A i \in DOMAIN rest : rest[i] \in Seq(DefinesOf(registrar))
  <2>1. \A i \in DOMAIN rest : i + 1 \in DOMAIN j.todo /\ rest[i] = j.todo[i + 1]
    BY <1>1, TailBatches
  <2> QED
    BY <1>2, <2>1 DEF DefineJobOK
<1>9. \A i \in 1..Len(mempool) : mempool[i].to # "page"
  BY <1>0, <1>1 DEF WatchOK
<1>10. \/ jobs'["page"] = m /\ outcomes' = outcomes /\ rest # <<>>
       \/ jobs'["page"] = Idle
  BY <1>0, <1>3 DEF WizardTypesOK
<1>11. jobs'["setup"] = jobs["setup"] /\ jobs' \in [Slots -> JobRows] /\ step \in Opened
  BY <1>0, <1>1, <1>3, <1>7, IdleJobs DEF WizardTypesOK, StepsOK
<1> HIDE DEF m, rest, ran
<1>12. WizardTypesOK'
  BY <1>3, <1>11 DEF WizardTypesOK
<1>13. StepsOK'
  BY <1>3, <1>11 DEF StepsOK, Points
<1>14. SetupJobOK(jobs["setup"])'
  BY <1>3, <1>11 DEF SetupJobOK
<1>15. PageJobOK(jobs["page"])'
  <2>1. CASE jobs'["page"] = Idle
    BY <2>1 DEF PageJobOK
  <2>2. CASE jobs'["page"] = m /\ rest # <<>>
    <3>1. /\ jobs'["page"].kind = j.kind /\ jobs'["page"].todo = rest /\ jobs'["page"].at = "unsent"
          /\ jobs'["page"].ran = ran
      BY <1>7, <2>2
    <3>2. UNCHANGED <<registrar, chain, reverted>>
      BY <1>3
    <3>3. \A g \in ran : Published(g)'
      BY <1>4, <3>2 DEF Published
    <3>4. DefineJobOK(jobs["page"])'
      BY <1>2, <1>8, <2>2, <3>1, <3>2, <3>3 DEF DefineJobOK
    <3> QED
      BY <3>4 DEF PageJobOK
  <2> QED
    BY <1>10, <2>1, <2>2
<1>16. WatchOK'
  BY <1>3, <1>9, <1>11 DEF WatchOK, Slots
<1>17. LastOK'
  BY <1>3, <1>11 DEF LastOK, Busy
<1>18. PermissionsOK'
  BY <1>3, <1>11 DEF PermissionsOK, Owing
<1>19. OutcomesOK'
  BY <1>3, <1>4 DEF OutcomesOK, Published
<1> QED
  BY <1>12, <1>13, <1>14, <1>15, <1>16, <1>17, <1>18, <1>19

\* The receipt of the branch brings its registrar, or the loop throws.
LEMMA BranchReceiptInv ==
  ASSUME WizardInv, BranchReceipt
  PROVE  WizardInv'
<1> USE DEF WizardInv, shell, account, naming, setting, listing, history
<1> DEFINE j == jobs["page"]
<1>0. "setup" \in Slots /\ "page" \in Slots
  BY DEF Slots
<1>1. j.kind = "branch" /\ BranchJobOK(j) /\ step \in Opened /\ registrar = None
  BY IdleJobs DEF BranchReceipt, PageJobOK, BranchJobOK, DefineJobOK, StepsOK
<1>2. orgName \in Labels
  BY <1>1 DEF StepsOK, Early, Opened
<1>3. PICK b \in BranchLabels : /\ j.todo = << <<Call("branch", orgName, b)>> >>
                                /\ j.at = "ok" => chain.branch[<<orgName, b>>] # None
  BY <1>1 DEF BranchJobOK
<1>4. Head(j.todo)[1].label = orgName /\ Head(j.todo)[1].arg = b
  <2> DEFINE c == Call("branch", orgName, b)
  <2>1. c.label = orgName /\ c.arg = b
    BY DEF Call
  <2> HIDE DEF c
  <2>2. Head(j.todo)[1] = c
    BY <1>3 DEF c
  <2> QED
    BY <2>1, <2>2
<1>5. /\ \/ /\ j.at = "ok" /\ registrar' = <<orgName, b>> /\ step' = "groups" /\ typed' = None
         \/ UNCHANGED <<step, registrar, typed>>
      /\ jobs' = [jobs EXCEPT !["page"] = Idle]
      /\ j.at # "sent"
      /\ UNCHANGED <<orgName, org, chain, mempool, wallet, setup, refreshes, drafts, outcomes, history>>
  BY <1>4 DEF BranchReceipt, opening, OpeningReset
<1>6. <<orgName, b>> \in Registrars /\ <<orgName, b>> # None /\ <<orgName, b>>[1] = orgName
  BY <1>2, ChainAssumption DEF Registrars
<1>7. jobs'["page"] = Idle /\ jobs'["setup"] = jobs["setup"] /\ jobs' \in [Slots -> JobRows]
  BY <1>0, <1>5, IdleJobs DEF WizardTypesOK
<1>8. \A g \in Groups : outcomes[g] # "defined"
  BY <1>1 DEF OutcomesOK
<1>9. WizardTypesOK'
  BY <1>5, <1>6, <1>7 DEF WizardTypesOK
<1>10. StepsOK'
  <2>1. CASE j.at = "ok" /\ registrar' = <<orgName, b>> /\ step' = "groups"
    BY <1>1, <1>3, <1>5, <1>6, <1>7, <2>1, IdleJobs DEF StepsOK, Points, Early, Opened
  <2>2. CASE UNCHANGED <<step, registrar>>
    BY <1>5, <1>7, <2>2, IdleJobs DEF StepsOK, Points
  <2> QED
    BY <1>5, <2>1, <2>2
<1>11. SetupJobOK(jobs["setup"])'
  BY <1>5, <1>7 DEF SetupJobOK
<1>12. PageJobOK(jobs["page"])'
  BY <1>7 DEF PageJobOK
<1>13. WatchOK'
  <2>1. \A i \in 1..Len(mempool) : mempool[i].to # "page"
    BY <1>0, <1>5 DEF WatchOK
  <2> QED
    BY <1>5, <1>7, <2>1 DEF WatchOK, Slots
<1>14. LastOK'
  BY <1>5, <1>7 DEF LastOK, Busy
<1>15. PermissionsOK'
  BY <1>5, <1>7 DEF PermissionsOK, Owing
<1>16. OutcomesOK'
  BY <1>5, <1>8 DEF OutcomesOK
<1> QED
  BY <1>9, <1>10, <1>11, <1>12, <1>13, <1>14, <1>15, <1>16

\* The page is loaded anew: a deployment it was sending counts as cut.
LEMMA ReloadInv ==
  ASSUME WizardInv, Reload
  PROVE  WizardInv'
<1> USE DEF WizardInv, history
<1> DEFINE n == Len(mempool)
           row(i) == [mempool[i] EXCEPT !.to = "nobody"]
<1>0. "setup" \in Slots /\ "page" \in Slots
  BY DEF Slots
<1>1. /\ step' = "connect" /\ orgName' = None /\ registrar' = None /\ wallet' = None
      /\ setup' = "unknown" /\ refreshes' = {} /\ typed' = None
      /\ drafts' = <<>> /\ outcomes' = [g \in Groups |-> "none"]
      /\ jobs' = [k \in Slots |-> Idle]
      /\ cut' = IF jobs["setup"].kind = "create" THEN cut \union {orgName} ELSE cut
      /\ UNCHANGED <<chain, reverted>>
  BY DEF Reload, SettingReset, OpeningReset, ListingReset
<1>2. jobs'["setup"] = Idle /\ jobs'["page"] = Idle /\ jobs' \in [Slots -> JobRows]
  BY <1>0, <1>1, IdleJobs
<1>3. mempool \in Seq(MempoolRows) /\ n \in Nat /\ DOMAIN mempool = 1..n
  BY DEF WizardTypesOK
<1>4. ASSUME NEW i \in 1..n PROVE row(i) \in MempoolRows /\ row(i).calls = mempool[i].calls /\ row(i).to = "nobody"
  <2>1. mempool[i] \in MempoolRows
    BY <1>3
  <2> QED
    BY <2>1 DEF MempoolRows
<1>5. mempool' = [i \in 1..n |-> row(i)]
  BY <1>3 DEF Reload
<1> HIDE DEF n, row
<1>6. /\ mempool' \in Seq(MempoolRows) /\ Len(mempool') = n
      /\ \A i \in 1..n : mempool'[i].calls = mempool[i].calls /\ mempool'[i].to = "nobody"
  <2>1. mempool' \in [1..n -> MempoolRows]
    BY <1>4, <1>5
  <2>2. mempool' \in Seq(MempoolRows) /\ Len(mempool') = n
    BY <1>3, <2>1
  <2> QED
    BY <1>4, <1>5, <2>2
<1>7. WizardTypesOK'
  <2>1. drafts' \in Seq(DraftRows) /\ DOMAIN outcomes' = Groups /\ refreshes' \subseteq RefreshRows
    BY <1>1
  <2>2. chain' \in Chains
    BY <1>1 DEF WizardTypesOK
  <2> QED
    BY <1>1, <1>2, <1>6, <2>1, <2>2 DEF WizardTypesOK
<1>8. StepsOK'
  BY <1>1, <1>2, IdleJobs DEF StepsOK, Early, Opened
<1>9. SetupJobOK(jobs["setup"])'
  BY <1>2, IdleJobs DEF SetupJobOK
<1>10. PageJobOK(jobs["page"])'
  BY <1>2 DEF PageJobOK
<1>11. WatchOK'
  BY <1>6 DEF WatchOK, Slots
<1>12. LastOK'
  BY <1>1 DEF LastOK
<1>13. PermissionsOK'
  <2>1. \A l : Owing(l) => l \in cut'
    BY <1>1 DEF Owing
  <2>2. cut \subseteq cut'
    BY <1>1
  <2>3. ASSUME NEW i \in 1..n
        PROVE  \/ NoGrant(mempool'[i].calls)
               \/ \E l \in Labels : mempool'[i].calls = DeployCalls(l)
               \/ \E l \in Labels : mempool'[i].calls = <<Grant(l)>> /\ (l \in cut' \/ mempool'[i].to = "setup")
    <3>0. mempool'[i].calls = mempool[i].calls
      BY <1>6
    <3>1. CASE NoGrant(mempool[i].calls) \/ \E l \in Labels : mempool[i].calls = DeployCalls(l)
      BY <3>0, <3>1
    <3>2. ASSUME NEW l \in Labels, mempool[i].calls = <<Grant(l)>>, l \in cut \/ mempool[i].to = "setup"
          PROVE  l \in cut'
      <4>1. CASE l \in cut
        BY <2>2, <4>1
      <4>2. CASE mempool[i].to = "setup"
        <5>1. l = orgName /\ jobs["setup"].kind = "create"
          BY <3>2, <4>2, WatchedGrant DEF n
        <5> QED
          BY <1>1, <5>1
      <4> QED
        BY <3>2, <4>1, <4>2
    <3> QED
      BY <3>0, <3>1, <3>2 DEF PermissionsOK, n
  <2> QED
    BY <1>1, <1>6, <2>1, <2>2, <2>3 DEF PermissionsOK
<1>14. OutcomesOK'
  BY <1>1 DEF OutcomesOK
<1> QED
  BY <1>7, <1>8, <1>9, <1>10, <1>11, <1>12, <1>13, <1>14

----------------------------------------------------------------------------
(* The invariant and what follows from it *)

\* Every step keeps the invariant.
LEMMA WizardNextInv ==
  ASSUME WizardInv, [WizardNext]_wizardVars
  PROVE  WizardInv'
<1>1. CASE WalletStep
  BY <1>1, ElsewhereSteps, ConnectDoneInv DEF WalletStep
<1>2. CASE NameStep
  BY <1>2, ElsewhereSteps, UseNameInv, RegisterNameInv DEF NameStep
<1>3. CASE SetupStep
  BY <1>3, ReadSetupInv, LandSetupInv, DeployInv, PointNameInv, BatchLandedInv, SetupDoneInv DEF SetupStep
<1>4. CASE BranchStep
  BY <1>4, ElsewhereSteps, OpenBranchInv, SkipBranchInv, BranchReceiptInv DEF BranchStep
<1>5. CASE GroupsStep
  BY <1>5, ElsewhereSteps, ListSteps, DefineGroupsInv, GroupsDoneInv DEF GroupsStep
<1>6. CASE Transactions
  <2>1. ASSUME NEW k \in Slots, Receipt(k) PROVE WizardInv'
    BY <2>1, SetupReceiptInv, PageReceiptInv DEF Slots
  <2> QED
    BY <1>6, <2>1, SendInv, StopsInv, MineInv DEF Transactions
<1>7. CASE Reload
  BY <1>7, ReloadInv
<1>8. CASE UNCHANGED wizardVars
  BY <1>8, ElsewhereSteps
<1> QED
  BY <1>1, <1>2, <1>3, <1>4, <1>5, <1>6, <1>7, <1>8 DEF WizardNext

\* Whatever the owner, the wallets, the chain and the network do, the page never knows
\* more than the chain: its step, its two loops, its waits and its outcomes fit it.
THEOREM WizardInvariant == WizardSpec => []WizardInv
BY WizardInitInv, WizardNextInv, PTL DEF WizardSpec

\* The factory keeps the permission to point a name only while the loop that gave it is
\* going to take it back, or when that loop was cut short (useOrgSetup.ts:175).
THEOREM GrantIsAccounted == WizardSpec => []GrantAccounted
<1>1. WizardInv => GrantAccounted
  BY DEF WizardInv, PermissionsOK, Owing, GrantAccounted
<1> QED
  BY <1>1, WizardInvariant, PTL

\* The wizard says that the organisation is open only when the name points at its own
\* contracts and the branch it names is open on the chain (Wizard.tsx).
THEOREM DoneMeansOpen == WizardSpec => []DoneIsOpen
<1>1. WizardInv => DoneIsOpen
  BY DEF WizardInv, StepsOK, Opened, Points, DoneIsOpen
<1> QED
  BY <1>1, WizardInvariant, PTL

\* A group is shown as defined only when the branch has it or its transaction reverted
\* (useEnsWrites.ts:244): no interleaving of the list and the loop shows another.
THEOREM DefinedMeansPublished == WizardSpec => []DefinedIsPublished
<1>1. WizardInv => DefinedIsPublished
  BY DEF WizardInv, OutcomesOK, Published, DefinedIsPublished
<1> QED
  BY <1>1, WizardInvariant, PTL
=============================================================================
