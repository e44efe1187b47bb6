--------------------------- MODULE SettingsProofs ---------------------------
(* Theorems about Settings, for any tabs, groups, resources and bounds. *)
EXTENDS Settings, TLAPS

----------------------------------------------------------------------------
(* The invariant *)

Rows == [key : Nat \union {None}, pending : Nat \union {None}]
CallFields == {"tab", "act", "r", "cell", "of", "value", "untouched", "at", "state", "heard"}
Ids == 1..MaxMoves

\* A request from the dialog concerns a cell, every other one a resource.
CallOK(c) ==
  c # None => /\ DOMAIN c = CallFields
              /\ c.act \notin {"save", "revoke"} => c.r \in Resources

TypesOK ==
  /\ keys \in Nat
  /\ resource \in [Resources -> Rows \union {None}]
  /\ DOMAIN calls = Ids
  /\ \A i \in Ids : CallOK(calls[i])

\* A key handed in that the enforcer has not stored yet.
HandsIn(c) == c # None /\ c.act \in {"create", "stage"} /\ c.state = "sent"

\* No key is stored or discarded that was not handed in, and none is stored that was
\* discarded; a staged key is in use nowhere, and is staged for one resource.
StoredOK ==
  /\ discarded \subseteq 0..keys
  /\ \A r \in Resources : resource[r] # None =>
       /\ {resource[r].key, resource[r].pending} \subseteq (0..keys \union {None}) \ discarded
       /\ resource[r].pending # None =>
            \A s \in Resources : resource[s] # None =>
              /\ resource[s].key # resource[r].pending
              /\ s # r => resource[s].pending # resource[r].pending

\* A key on its way is new, and on its way once.
ComingOK ==
  \A i \in Ids : HandsIn(calls[i]) =>
    /\ calls[i].value \in (1..keys) \ discarded
    /\ \A r \in Resources : resource[r] # None => calls[i].value \notin {resource[r].key, resource[r].pending}
    /\ \A j \in Ids \ {i} : HandsIn(calls[j]) => calls[j].value # calls[i].value

SettingsInv == TypesOK /\ StoredOK /\ ComingOK

LEMMA InitInv == Init => SettingsInv
<1> SUFFICES ASSUME Init PROVE SettingsInv
  OBVIOUS
<1>1. /\ keys = 0 /\ discarded = {} /\ calls = [i \in Ids |-> None]
      /\ resource \in [Resources -> {None, [key |-> 0, pending |-> None]}]
  BY DEF Init, Ids
<1>2. TypesOK
  BY <1>1 DEF TypesOK, CallOK, Rows
<1>3. StoredOK
  BY <1>1, SettingsAssumption DEF StoredOK
<1>4. ComingOK
  BY <1>1 DEF ComingOK, HandsIn
<1> QED
  BY <1>2, <1>3, <1>4 DEF SettingsInv

----------------------------------------------------------------------------
(* Steps *)

\* A step that stores no key and hands none in.
LEMMA NoKeyMoves ==
  ASSUME SettingsInv, UNCHANGED <<keys, resource, discarded>>,
         DOMAIN calls' = Ids,
         \A i \in Ids : CallOK(calls'[i]),
         \A i \in Ids : HandsIn(calls'[i]) => HandsIn(calls[i]) /\ calls'[i].value = calls[i].value
  PROVE  SettingsInv'
<1> USE DEF SettingsInv
<1>1. TypesOK'
  BY DEF TypesOK
<1>2. StoredOK'
  BY DEF StoredOK
<1>3. ComingOK'
  BY DEF ComingOK, HandsIn
<1> QED
  BY <1>1, <1>2, <1>3

\* One request is over, or its answer is no longer waited for, or it goes on.
LEMMA OneCall ==
  ASSUME SettingsInv, NEW i \in Ids, NEW c, calls' = [calls EXCEPT ![i] = c],
         CallOK(c)
  PROVE  /\ DOMAIN calls' = Ids
         /\ \A j \in Ids : CallOK(calls'[j])
         /\ calls'[i] = c /\ \A j \in Ids \ {i} : calls'[j] = calls[j]
BY DEF SettingsInv, TypesOK

LEMMA CallGoesOn ==
  ASSUME SettingsInv, NEW i \in Ids, NEW c, calls' = [calls EXCEPT ![i] = c],
         CallOK(c),
         HandsIn(c) => HandsIn(calls[i]) /\ c.value = calls[i].value,
         UNCHANGED <<keys, resource, discarded>>
  PROVE  SettingsInv'
BY OneCall, NoKeyMoves

\* A request that brings no key, or the next one.
LEMMA Sent ==
  ASSUME SettingsInv, NEW c, CallOK(c),
         calls' = [calls EXCEPT ![sent + 1] = c],
         \/ ~HandsIn(c) /\ keys' = keys
         \/ c.value = keys + 1 /\ keys' = keys + 1,
         UNCHANGED <<resource, discarded>>
  PROVE  SettingsInv'
<1> USE DEF SettingsInv
<1> DEFINE n == sent + 1
<1> HIDE DEF n
<1>1. calls' = [calls EXCEPT ![n] = c]
  BY DEF n
<1>2. CASE n \notin Ids
  <2>1. DOMAIN calls' = Ids /\ \A j \in Ids : calls'[j] = calls[j]
    BY <1>1, <1>2 DEF TypesOK
  <2>2. keys \in Nat /\ keys' \in Nat /\ keys <= keys'
    BY DEF TypesOK
  <2>3. TypesOK'
    BY <2>1, <2>2 DEF TypesOK
  <2>4. StoredOK'
    BY <2>2 DEF StoredOK, TypesOK, Rows
  <2>5. ComingOK'
    BY <2>1, <2>2 DEF ComingOK
  <2> QED
    BY <2>3, <2>4, <2>5
<1>3. CASE n \in Ids
  <2>1. /\ DOMAIN calls' = Ids
        /\ \A j \in Ids : CallOK(calls'[j])
        /\ calls'[n] = c /\ \A j \in Ids \ {n} : calls'[j] = calls[j]
    BY <1>1, <1>3, OneCall
  <2>2. keys \in Nat /\ keys' \in Nat /\ keys <= keys'
    BY DEF TypesOK
  <2>3. TypesOK'
    BY <2>1, <2>2 DEF TypesOK
  <2>4. StoredOK'
    BY <2>2 DEF StoredOK, TypesOK, Rows
  <2>5. CASE ~HandsIn(c) /\ keys' = keys
    BY <2>1, <2>3, <2>4, <2>5 DEF ComingOK
  <2>6. CASE c.value = keys + 1 /\ keys' = keys + 1
    <3>1. \A j \in Ids \ {n} : HandsIn(calls[j]) => calls[j].value \in (1..keys) \ discarded
      BY DEF ComingOK
    <3>2. \A r \in Resources : resource[r] # None => c.value \notin {resource[r].key, resource[r].pending}
      BY <2>2, <2>6, SettingsAssumption DEF StoredOK
    <3>3. c.value \in (1..keys') \ discarded
      BY <2>2, <2>6 DEF StoredOK
    <3>4. ComingOK'
      BY <2>1, <2>2, <2>6, <3>1, <3>2, <3>3 DEF ComingOK
    <3> QED
      BY <2>3, <2>4, <3>4
  <2> QED
    BY <2>5, <2>6
<1> QED
  BY <1>2, <1>3

LEMMA Requested ==
  ASSUME NEW t, NEW act, NEW r
  PROVE  DOMAIN Request(t, act, r) = CallFields /\ Request(t, act, r).act = act /\ Request(t, act, r).r = r
BY DEF Request, CallFields

\* What the tabs do: they read, they edit, and they send.
LEMMA TabInv ==
  ASSUME SettingsInv, NEW t \in Tabs,
         Reads(t) \/ UsesDialog(t) \/ \E r \in Resources : UsesRow(t, r)
  PROVE  SettingsInv'
<1>1. CASE UNCHANGED <<enforcer, keys, calls>>
  BY <1>1, NoKeyMoves DEF enforcer, SettingsInv, TypesOK
<1>2. CASE SaveGrant(t) \/ RevokeGrant(t)
  <2>1. PICK c : Sends(c) /\ DOMAIN c = CallFields /\ c.act \in {"save", "revoke"}
    <3> DEFINE d == dialog[t]
               c1 == [Request(t, "save", d.cell[2]) EXCEPT
                        !.cell = d.cell, !.of = d.of, !.at = d.at,
                        !.value = SentCaps(d), !.untouched = Untouched(d)]
               c2 == [Request(t, "revoke", d.cell[2]) EXCEPT !.cell = d.cell]
    <3>1. DOMAIN c1 = CallFields /\ c1.act = "save" /\ DOMAIN c2 = CallFields /\ c2.act = "revoke"
      BY Requested DEF CallFields
    <3>2. Sends(c1) \/ Sends(c2)
      BY <1>2 DEF SaveGrant, RevokeGrant
    <3> HIDE DEF c1, c2
    <3> QED
      BY <3>1, <3>2
  <2>2. keys' = keys
    BY <1>2 DEF SaveGrant, RevokeGrant
  <2> QED
    BY <2>1, <2>2, Sent DEF Sends, enforcer, HandsIn, CallOK
<1>3. ASSUME NEW r \in Resources, UsesRow(t, r)
      PROVE  SettingsInv'
  <2>1. ASSUME NEW act, NEW v, Asks(t, act, r, v),
               \/ act \notin {"create", "stage"} /\ keys' = keys
               \/ v = keys + 1 /\ keys' = keys + 1
        PROVE  SettingsInv'
    <3> DEFINE c == [Request(t, act, r) EXCEPT !.value = v]
    <3>1. DOMAIN c = CallFields /\ c.act = act /\ c.value = v /\ c.r = r
      BY Requested DEF CallFields
    <3>2. Sends(c)
      BY <2>1 DEF Asks
    <3> HIDE DEF c
    <3> QED
      BY <2>1, <3>1, <3>2, Sent DEF Sends, enforcer, HandsIn, CallOK
  <2>2. CASE Create(t, r) \/ Stage(t, r)
    BY <2>1, <2>2 DEF Create, Stage
  <2>3. CASE Commit(t, r) \/ Discard(t, r) \/ Delete(t, r)
    BY <2>1, <2>3 DEF Commit, Discard, Delete
  <2> QED
    BY <1>3, <2>2, <2>3 DEF UsesRow
<1> QED
  BY <1>1, <1>2, <1>3 DEF Reads, ReadLists, ReadDetails, ReadFails, UsesDialog, OpenDialog, Retarget, EditCap, CloseDialog

LEMMA NoneDiscarded == SettingsInv => None \notin discarded
<1> SUFFICES ASSUME SettingsInv PROVE None \notin discarded
  OBVIOUS
<1>1. discarded \subseteq Nat
  BY DEF SettingsInv, StoredOK, TypesOK
<1>2. None \notin Nat
  BY SettingsAssumption
<1> QED
  BY <1>1, <1>2

\* A row changes; no request hands a key in that did not before.
LEMMA RowChanges ==
  ASSUME SettingsInv, NEW i \in Ids, NEW c, CallOK(c), ~HandsIn(c), calls' = [calls EXCEPT ![i] = c],
         NEW r \in Resources, NEW row \in Rows \union {None},
         resource' = [resource EXCEPT ![r] = row], keys' = keys
  PROVE  /\ TypesOK' /\ \A s \in Resources : resource'[s] = IF s = r THEN row ELSE resource[s]
         /\ \A j \in Ids : HandsIn(calls'[j]) => j # i /\ calls'[j] = calls[j]
<1>1. /\ DOMAIN calls' = Ids
      /\ \A j \in Ids : CallOK(calls'[j])
      /\ calls'[i] = c /\ \A j \in Ids \ {i} : calls'[j] = calls[j]
  BY OneCall
<1> QED
  BY <1>1 DEF SettingsInv, TypesOK

\* The enforcer has the resource, or makes it, and stores the key that was handed in.
LEMMA StoreInv ==
  ASSUME SettingsInv, NEW i \in Ids, calls[i] # None, HandleCreate(i) \/ HandleStage(i)
  PROVE  SettingsInv'
<1> USE DEF SettingsInv
<1> DEFINE r == calls[i].r
           v == calls[i].value
           c == calls'[i]
<1>1. /\ r \in Resources /\ HandsIn(calls[i]) /\ UNCHANGED <<keys, discarded>>
  BY DEF HandleCreate, HandleStage, Handled, TypesOK, CallOK, HandsIn
<1>2. /\ v \in (1..keys) \ discarded
      /\ \A s \in Resources : resource[s] # None => v \notin {resource[s].key, resource[s].pending}
      /\ \A j \in Ids \ {i} : HandsIn(calls[j]) => calls[j].value # v
  BY <1>1 DEF ComingOK
<1>3. calls' = [calls EXCEPT ![i] = c] /\ CallOK(c) /\ ~HandsIn(c)
  BY DEF HandleCreate, HandleStage, Replies, TypesOK, CallOK, HandsIn, CallFields
<1>4. CASE resource' = resource
  BY <1>1, <1>3, <1>4, CallGoesOn
<1>5. CASE resource' # resource
  <2>1. PICK row \in Rows :
          /\ resource' = [resource EXCEPT ![r] = row]
          /\ \/ row.key = v /\ row.pending = None
             \/ resource[r] # None /\ row.key = resource[r].key /\ row.pending = v
    <3>1. CASE HandleCreate(i)
      <4> DEFINE new == [key |-> v, pending |-> None]
      <4>1. new \in Rows /\ new.key = v /\ new.pending = None
        BY <1>2 DEF Rows, TypesOK
      <4>2. resource' = [resource EXCEPT ![r] = new]
        BY <3>1 DEF HandleCreate
      <4> HIDE DEF new
      <4> QED
        BY <4>1, <4>2
    <3>2. CASE HandleStage(i)
      <4> DEFINE new == [resource[r] EXCEPT !.pending = v]
      <4>1. resource[r] # None /\ resource' = [resource EXCEPT ![r] = new]
        BY <1>5, <3>2 DEF HandleStage, Missing
      <4>2. new \in Rows /\ new.key = resource[r].key /\ new.pending = v
        BY <1>1, <1>2, <4>1 DEF Rows, TypesOK
      <4> HIDE DEF new
      <4> QED
        BY <4>1, <4>2
    <3> QED
      BY <3>1, <3>2
  <2> HIDE DEF r, v, c
  <2>2. /\ TypesOK' /\ \A s \in Resources : resource'[s] = IF s = r THEN row ELSE resource[s]
        /\ \A j \in Ids : HandsIn(calls'[j]) => j # i /\ calls'[j] = calls[j]
    BY <1>1, <1>3, <2>1, RowChanges
  <2>3. StoredOK'
    <3>1. v # None /\ v \in 0..keys /\ v \notin discarded
      BY <1>2, SettingsAssumption DEF TypesOK
    <3>2. None \notin discarded
      BY NoneDiscarded
    <3>3. ASSUME NEW s \in Resources, resource'[s] # None
          PROVE  {resource'[s].key, resource'[s].pending} \subseteq (0..keys \union {None}) \ discarded
      BY <2>1, <2>2, <3>1, <3>2, <3>3 DEF StoredOK
    <3>4. ASSUME NEW s \in Resources, resource'[s] # None, resource'[s].pending # None,
                 NEW z \in Resources, resource'[z] # None
          PROVE  /\ resource'[z].key # resource'[s].pending
                 /\ z # s => resource'[z].pending # resource'[s].pending
      <4>1. CASE s # r /\ z # r
        BY <2>2, <3>4, <4>1 DEF StoredOK
      <4>2. CASE s = r
        BY <1>2, <2>1, <2>2, <3>1, <3>4, <4>2 DEF StoredOK
      <4>3. CASE s # r /\ z = r
        BY <1>2, <2>1, <2>2, <3>1, <3>4, <4>3 DEF StoredOK
      <4> QED
        BY <4>1, <4>2, <4>3
    <3> QED
      BY <1>1, <3>3, <3>4 DEF StoredOK
  <2>4. ComingOK'
    BY <1>1, <1>2, <2>1, <2>2, SettingsAssumption DEF ComingOK, TypesOK
  <2> QED
    BY <2>2, <2>3, <2>4
<1> QED
  BY <1>4, <1>5

\* The staged key, if it is still there, is the one in use.
LEMMA CommitInv ==
  ASSUME SettingsInv, NEW i \in Ids, calls[i] # None, CommitKey(i)
  PROVE  SettingsInv'
<1> USE DEF SettingsInv
<1> DEFINE r == calls[i].r
           c == calls'[i]
           row == Committed(resource[r], calls[i].value)
<1>1. r \in Resources /\ UNCHANGED <<keys, discarded>>
  BY DEF CommitKey, Handled, TypesOK, CallOK
<1>2. calls' = [calls EXCEPT ![i] = c] /\ CallOK(c) /\ ~HandsIn(c)
  BY DEF CommitKey, Replies, TypesOK, CallOK, HandsIn, CallFields
<1>3. CASE resource' = resource
  BY <1>1, <1>2, <1>3, CallGoesOn
<1>4. CASE resource' # resource
  <2>1. resource[r] # None /\ resource' = [resource EXCEPT ![r] = row]
    BY <1>4 DEF CommitKey, Missing
  <2>2. row \in Rows /\ row.key = resource[r].pending /\ row.pending = None
    BY <1>1, <2>1 DEF Committed, Rows, TypesOK
  <2> HIDE DEF r, c, row
  <2>3. /\ TypesOK' /\ \A s \in Resources : resource'[s] = IF s = r THEN row ELSE resource[s]
        /\ \A j \in Ids : HandsIn(calls'[j]) => j # i /\ calls'[j] = calls[j]
    BY <1>1, <1>2, <2>1, <2>2, RowChanges
  <2>4. StoredOK'
    <3>1. ASSUME NEW s \in Resources, resource'[s] # None
          PROVE  {resource'[s].key, resource'[s].pending} \subseteq (0..keys \union {None}) \ discarded
      BY <1>1, <2>1, <2>2, <2>3, <3>1, NoneDiscarded DEF StoredOK
    <3>2. ASSUME NEW s \in Resources, resource'[s] # None, resource'[s].pending # None,
                 NEW z \in Resources, resource'[z] # None
          PROVE  /\ resource'[z].key # resource'[s].pending
                 /\ z # s => resource'[z].pending # resource'[s].pending
      BY <1>1, <2>1, <2>2, <2>3, <3>2 DEF StoredOK
    <3> QED
      BY <1>1, <3>1, <3>2 DEF StoredOK
  <2>5. ComingOK'
    BY <1>1, <2>1, <2>2, <2>3, SettingsAssumption DEF ComingOK, TypesOK
  <2> QED
    BY <2>3, <2>4, <2>5
<1> QED
  BY <1>3, <1>4

\* A staged key is in use nowhere, so that it may be discarded.
LEMMA DiscardInv ==
  ASSUME SettingsInv, NEW i \in Ids, calls[i] # None, DiscardKey(i)
  PROVE  SettingsInv'
<1> USE DEF SettingsInv
<1> DEFINE r == calls[i].r
           c == calls'[i]
           row == [resource[r] EXCEPT !.pending = None]
<1>1. r \in Resources /\ UNCHANGED keys
  BY DEF DiscardKey, Handled, TypesOK, CallOK
<1>2. calls' = [calls EXCEPT ![i] = c] /\ CallOK(c) /\ ~HandsIn(c)
  BY DEF DiscardKey, Replies, TypesOK, CallOK, HandsIn, CallFields
<1>3. CASE Missing(i)
  BY <1>1, <1>2, <1>3, CallGoesOn DEF DiscardKey
<1>4. CASE ~Missing(i)
  <2>1. /\ resource[r] # None /\ resource' = [resource EXCEPT ![r] = row]
        /\ discarded' = discarded \union ({resource[r].pending} \ {None})
    BY <1>4 DEF DiscardKey, Missing
  <2>2. row \in Rows /\ row.key = resource[r].key /\ row.pending = None
    BY <1>1, <2>1 DEF Rows, TypesOK
  <2> HIDE DEF r, c, row
  <2>3. /\ TypesOK' /\ \A s \in Resources : resource'[s] = IF s = r THEN row ELSE resource[s]
        /\ \A j \in Ids : HandsIn(calls'[j]) => j # i /\ calls'[j] = calls[j]
    BY <1>1, <1>2, <2>1, <2>2, RowChanges
  <2>4. discarded' \subseteq 0..keys
    BY <1>1, <2>1 DEF StoredOK
  <2>5. ASSUME NEW s \in Resources, resource'[s] # None
        PROVE  {resource'[s].key, resource'[s].pending} \subseteq (0..keys \union {None}) \ discarded'
    BY <1>1, <2>1, <2>2, <2>3, <2>5, NoneDiscarded DEF StoredOK
  <2>6. ASSUME NEW s \in Resources, resource'[s] # None, resource'[s].pending # None,
               NEW z \in Resources, resource'[z] # None
        PROVE  /\ resource'[z].key # resource'[s].pending
               /\ z # s => resource'[z].pending # resource'[s].pending
    BY <1>1, <2>1, <2>2, <2>3, <2>6 DEF StoredOK
  <2>7. StoredOK'
    BY <1>1, <2>4, <2>5, <2>6 DEF StoredOK
  <2>8. ComingOK'
    BY <1>1, <2>1, <2>2, <2>3, SettingsAssumption DEF ComingOK, TypesOK
  <2> QED
    BY <2>3, <2>7, <2>8
<1> QED
  BY <1>3, <1>4

\* A deleted resource takes its keys with it.
LEMMA DeleteInv ==
  ASSUME SettingsInv, NEW i \in Ids, calls[i] # None, NEW referred \in BOOLEAN, HandleDelete(i, referred)
  PROVE  SettingsInv'
<1> USE DEF SettingsInv
<1> DEFINE r == calls[i].r
           c == calls'[i]
<1>1. r \in Resources /\ UNCHANGED <<keys, discarded>>
  BY DEF HandleDelete, Handled, TypesOK, CallOK
<1>2. calls' = [calls EXCEPT ![i] = c] /\ CallOK(c) /\ ~HandsIn(c)
  BY DEF HandleDelete, Replies, TypesOK, CallOK, HandsIn, CallFields
<1>3. CASE resource' = resource
  BY <1>1, <1>2, <1>3, CallGoesOn
<1>4. CASE resource' # resource
  <2>1. resource' = [resource EXCEPT ![r] = None]
    BY <1>4 DEF HandleDelete
  <2> HIDE DEF r, c
  <2>2. /\ TypesOK' /\ \A s \in Resources : resource'[s] = IF s = r THEN None ELSE resource[s]
        /\ \A j \in Ids : HandsIn(calls'[j]) => j # i /\ calls'[j] = calls[j]
    BY <1>1, <1>2, <2>1, RowChanges
  <2>3. StoredOK'
    BY <1>1, <2>2 DEF StoredOK
  <2>4. ComingOK'
    BY <1>1, <2>2 DEF ComingOK
  <2> QED
    BY <2>2, <2>3, <2>4
<1> QED
  BY <1>3, <1>4

\* A grant is written, a staged key is looked for, an answer arrives or is not waited for.
LEMMA OtherCallsInv ==
  ASSUME SettingsInv, NEW i \in Ids,
         (calls[i] # None /\ (HandleGrant(i) \/ FindKey(i))) \/ Answer(i) \/ Refuse(i) \/ GiveUp(i)
  PROVE  SettingsInv'
<1> USE DEF SettingsInv
<1>1. UNCHANGED <<keys, resource, discarded>>
  BY DEF HandleGrant, FindKey, Answer, Refuse, GiveUp, Handled, enforcer
<1>2. CASE Answer(i) \/ Refuse(i)
  BY <1>1, <1>2, CallGoesOn DEF Answer, Refuse, CallOK, HandsIn
<1>3. CASE calls[i] # None /\ (HandleGrant(i) \/ FindKey(i))
  <2> DEFINE c == calls'[i]
  <2>1. calls' = [calls EXCEPT ![i] = c] /\ CallOK(c) /\ ~HandsIn(c)
    BY <1>3 DEF HandleGrant, FindKey, Replies, TypesOK, CallOK, HandsIn, CallFields
  <2> QED
    BY <1>1, <2>1, CallGoesOn
<1>4. CASE GiveUp(i)
  <2> DEFINE c == calls'[i]
  <2>1. calls[i] # None /\ calls' = [calls EXCEPT ![i] = c] /\ CallOK(c)
        /\ (HandsIn(c) => HandsIn(calls[i]) /\ c.value = calls[i].value)
    BY <1>4 DEF GiveUp, TypesOK, CallOK, HandsIn, CallFields
  <2> QED
    BY <1>1, <2>1, CallGoesOn
<1> QED
  BY <1>2, <1>3, <1>4

LEMMA NextInv == SettingsInv /\ [Next]_vars => SettingsInv'
<1> SUFFICES ASSUME SettingsInv, [Next]_vars PROVE SettingsInv'
  OBVIOUS
<1>1. CASE \E t \in Tabs : Reads(t) \/ UsesDialog(t) \/ \E r \in Resources : UsesRow(t, r)
  BY <1>1, TabInv
<1>2. CASE \E i \in 1..MaxMoves : Handle(i) \/ Answer(i) \/ Refuse(i) \/ GiveUp(i)
  BY <1>2, StoreInv, CommitInv, DiscardInv, DeleteInv, OtherCallsInv DEF Handle, Ids
<1>3. CASE UNCHANGED vars
  BY <1>3 DEF vars, enforcer, SettingsInv, TypesOK, StoredOK, ComingOK
<1> QED
  BY <1>1, <1>2, <1>3 DEF Next

----------------------------------------------------------------------------
(* Keys *)

\* A key that was discarded is the key of no resource, however an activation that found it
\* staged, other stagings, refused requests and late answers interleave.
THEOREM DiscardIsFinal == Spec => []DiscardedStaysOut
<1>1. SettingsInv => DiscardedStaysOut
  BY DEF SettingsInv, StoredOK, DiscardedStaysOut
<1> QED
  BY InitInv, NextInv, <1>1, PTL DEF Spec

----------------------------------------------------------------------------
(* What was read of a grant *)

Grants == [Caps -> Amounts \union {None}]

\* What was read of a row as of one write of it is so until the next (lim and wr are
\* limits and writes).
AsOfWrite(wr, cell, at, same) == at \in 0..wr[cell] /\ (at = wr[cell] => same)

RowsOK == limits \in [Cells -> Grants \union {None}] /\ writes \in [Cells -> Nat]

PageFields == {"name", "listed", "details", "failed"}

ReadOK(read, ids, lim, wr) ==
  \A cell \in Groups \X ids :
    /\ read.row[cell] \in Grants \union {None}
    /\ AsOfWrite(wr, cell, read.at[cell], read.row[cell] = lim[cell])

PageOK(p, lim, wr) ==
  /\ DOMAIN p = PageFields /\ DOMAIN p.details = SUBSET Resources
  /\ p.listed # None => DOMAIN p.listed \subseteq Resources
  /\ \A ids \in SUBSET Resources : p.details[ids] # None => ReadOK(p.details[ids], ids, lim, wr)

Dialogs == [cell : Cells, of : Cells, read : Grants, field : Grants, at : Nat, call : Nat]

DialogOK(d, lim, wr) ==
  d # None =>
    /\ d \in Dialogs
    /\ AsOfWrite(wr, d.of, d.at, \A cap \in Caps : d.read[cap] = CapOf(lim[d.of], cap))

\* A request that replaces a row carries what was read under the caps nobody touched, if the
\* dialog was opened for that row.
SaveOK(c, lim, wr) ==
  c # None /\ c.act = "save" /\ c.state = "sent" =>
    /\ c.cell \in Cells /\ c.value \in Grants /\ c.untouched \subseteq Caps
    /\ c.of = c.cell =>
         AsOfWrite(wr, c.cell, c.at, \A cap \in c.untouched : c.value[cap] = CapOf(lim[c.cell], cap))

PagesOK == DOMAIN page = Tabs /\ \A t \in Tabs : PageOK(page[t], limits, writes)
DialogsOK == DOMAIN dialog = Tabs /\ \A t \in Tabs : DialogOK(dialog[t], limits, writes)
SavesOK == \A i \in Ids : SaveOK(calls[i], limits, writes)

GrantsInv == SettingsInv /\ RowsOK /\ PagesOK /\ DialogsOK /\ SavesOK /\ sent \in Nat

LEMMA GrantsInit == Init => GrantsInv
<1> SUFFICES ASSUME Init PROVE GrantsInv
  OBVIOUS
<1>1. SettingsInv /\ sent \in Nat
  BY InitInv DEF Init
<1>2. RowsOK
  BY DEF Init, RowsOK
<1>3. ASSUME NEW t \in Tabs PROVE PageOK(page[t], limits, writes)
  <2>1. page[t] \in {Unread("access"), Unread("resources")}
    BY DEF Init
  <2>2. ASSUME NEW name PROVE PageOK(Unread(name), limits, writes)
    BY DEF PageOK, PageFields, Unread
  <2> QED
    BY <2>1, <2>2
<1>4. PagesOK
  BY <1>3 DEF PagesOK, Init
<1>5. DialogsOK
  BY DEF DialogsOK, DialogOK, Init
<1>6. SavesOK
  BY DEF SavesOK, SaveOK, Init, Ids
<1> QED
  BY <1>1, <1>2, <1>4, <1>5, <1>6 DEF GrantsInv

\* A row stays as it is, or is written, which counts.
RowsMove ==
  \A cell \in Cells :
    \/ limits'[cell] = limits[cell] /\ writes'[cell] = writes[cell]
    \/ writes'[cell] = writes[cell] + 1

\* A write of the row makes what was read before it old.
LEMMA PageAges ==
  ASSUME RowsOK, RowsMove, NEW p, PageOK(p, limits, writes)
  PROVE  PageOK(p, limits', writes')
<1>1. ASSUME NEW ids \in SUBSET Resources, p.details[ids] # None
      PROVE  ReadOK(p.details[ids], ids, limits', writes')
  <2>1. ReadOK(p.details[ids], ids, limits, writes)
    BY <1>1 DEF PageOK
  <2>2. ASSUME NEW cell \in Groups \X ids
        PROVE  AsOfWrite(writes', cell, p.details[ids].at[cell], p.details[ids].row[cell] = limits'[cell])
    <3>1. cell \in Cells
      BY DEF Cells
    <3>2. AsOfWrite(writes, cell, p.details[ids].at[cell], p.details[ids].row[cell] = limits[cell])
      BY <2>1 DEF ReadOK
    <3> QED
      BY <3>1, <3>2 DEF RowsOK, RowsMove, AsOfWrite
  <2> QED
    BY <2>1, <2>2 DEF ReadOK
<1> QED
  BY <1>1 DEF PageOK

LEMMA DialogAges ==
  ASSUME RowsOK, RowsMove, NEW d, DialogOK(d, limits, writes)
  PROVE  DialogOK(d, limits', writes')
BY DEF DialogOK, Dialogs, RowsOK, RowsMove, AsOfWrite

LEMMA SaveAges ==
  ASSUME RowsOK, RowsMove, NEW c, SaveOK(c, limits, writes)
  PROVE  SaveOK(c, limits', writes')
BY DEF SaveOK, RowsOK, RowsMove, AsOfWrite

\* Only a request that is carried out writes rows, its own.
LEMMA WritesRows ==
  ASSUME GrantsInv, NEW i \in Ids, calls[i] # None, HandleGrant(i)
  PROVE  RowsOK' /\ RowsMove
<1> DEFINE c == calls[i]
           new == IF c.act = "save" THEN c.value ELSE None
<1>1. CASE UNCHANGED <<limits, writes>>
  BY <1>1 DEF GrantsInv, RowsOK, RowsMove
<1>2. CASE /\ limits' = [limits EXCEPT ![c.cell] = new]
           /\ writes' = [writes EXCEPT ![c.cell] = @ + 1]
  <2>1. new \in Grants \union {None}
    BY DEF HandleGrant, GrantsInv, SavesOK, SaveOK
  <2>2. RowsOK
    BY DEF GrantsInv
  <2>3. /\ limits' = [cell \in Cells |-> IF cell = c.cell THEN new ELSE limits[cell]]
        /\ writes' = [cell \in Cells |-> IF cell = c.cell THEN writes[cell] + 1 ELSE writes[cell]]
    BY <1>2, <2>2 DEF RowsOK
  <2> HIDE DEF c, new
  <2>4. RowsOK'
    BY <2>1, <2>2, <2>3 DEF RowsOK
  <2>5. RowsMove
    BY <2>3 DEF RowsMove
  <2> QED
    BY <2>4, <2>5
<1>3. \/ UNCHANGED <<limits, writes>>
      \/ limits' = [limits EXCEPT ![c.cell] = new] /\ writes' = [writes EXCEPT ![c.cell] = @ + 1]
  <2> DEFINE refused == IF c.act = "save" THEN Missing(i) ELSE limits[c.cell] = None
  <2>1. CASE refused
    BY <2>1 DEF HandleGrant
  <2>2. CASE ~refused
    <3>1. limits' = [limits EXCEPT ![c.cell] = new]
      BY <2>2 DEF HandleGrant
    <3>2. writes' = [writes EXCEPT ![c.cell] = @ + 1]
      BY <2>2 DEF HandleGrant
    <3> QED
      BY <3>1, <3>2
  <2> QED
    BY <2>1, <2>2
<1> QED
  BY <1>1, <1>2, <1>3

LEMMA OneWriter ==
  Next => UNCHANGED <<limits, writes>> \/ \E i \in Ids : calls[i] # None /\ HandleGrant(i)
<1> SUFFICES ASSUME Next
             PROVE  UNCHANGED <<limits, writes>> \/ \E i \in Ids : calls[i] # None /\ HandleGrant(i)
  OBVIOUS
<1>1. ASSUME NEW t \in Tabs, Reads(t) \/ UsesDialog(t) \/ \E r \in Resources : UsesRow(t, r)
      PROVE  UNCHANGED <<limits, writes>>
  <2>1. CASE Reads(t)
    BY <2>1 DEF Reads, ReadLists, ReadDetails, ReadFails, enforcer
  <2>2. CASE UsesDialog(t)
    BY <2>2 DEF UsesDialog, OpenDialog, Retarget, EditCap, CloseDialog, SaveGrant, RevokeGrant, Sends, enforcer
  <2>3. ASSUME NEW r \in Resources, UsesRow(t, r) PROVE UNCHANGED <<limits, writes>>
    BY <2>3 DEF UsesRow, Create, Stage, Commit, Discard, Delete, Asks, Sends, enforcer
  <2> QED
    BY <1>1, <2>1, <2>2, <2>3
<1>2. ASSUME NEW i \in Ids, Handle(i) \/ Answer(i) \/ Refuse(i) \/ GiveUp(i)
      PROVE  (calls[i] # None /\ HandleGrant(i)) \/ UNCHANGED <<limits, writes>>
  BY <1>2 DEF Handle, HandleCreate, HandleStage, HandleDelete, FindKey, CommitKey, DiscardKey,
              Answer, Refuse, GiveUp, enforcer
<1> QED
  BY <1>1, <1>2 DEF Next, Ids

LEMMA RowsNext == GrantsInv /\ [Next]_vars => RowsOK' /\ RowsMove
<1> SUFFICES ASSUME GrantsInv, [Next]_vars PROVE RowsOK' /\ RowsMove
  OBVIOUS
<1>1. CASE UNCHANGED <<limits, writes>>
  BY <1>1 DEF GrantsInv, RowsOK, RowsMove
<1> QED
  BY <1>1, OneWriter, WritesRows DEF vars, enforcer

\* Of a page that reads only what it read changes.
LEMMA ListsRead ==
  ASSUME NEW p, PageOK(p, limits, writes), NEW listed, NEW failed,
         listed # None => DOMAIN listed \subseteq Resources
  PROVE  PageOK([p EXCEPT !.listed = listed, !.failed = failed], limits, writes)
BY DEF PageOK, PageFields

LEMMA DetailsRead ==
  ASSUME NEW p, PageOK(p, limits, writes), NEW ids \in SUBSET Resources, NEW read, NEW failed,
         ReadOK(read, ids, limits, writes)
  PROVE  PageOK([p EXCEPT !.details[ids] = read, !.failed = failed], limits, writes)
<1> DEFINE details == [p.details EXCEPT ![ids] = read]
           q == [p EXCEPT !.details = details, !.failed = failed]
<1>1. /\ DOMAIN details = SUBSET Resources
      /\ \A some \in SUBSET Resources : details[some] = IF some = ids THEN read ELSE p.details[some]
  BY DEF PageOK
<1> HIDE DEF details
<1>2. DOMAIN q = PageFields /\ q.details = details /\ q.listed = p.listed
  BY DEF PageOK, PageFields
<1> HIDE DEF q
<1>3. PageOK(q, limits, writes)
  BY <1>1, <1>2 DEF PageOK
<1>4. [p EXCEPT !.details[ids] = read, !.failed = failed] = q
  BY DEF q, details, PageOK, PageFields
<1> QED
  BY <1>3, <1>4

LEMMA ReadsPages ==
  ASSUME GrantsInv, NEW t \in Tabs, Reads(t)
  PROVE  PagesOK'
<1>1. UNCHANGED <<limits, writes>>
  BY DEF Reads, ReadLists, ReadDetails, ReadFails, enforcer
<1>2. ASSUME NEW p, PageOK(p, limits, writes), page' = [page EXCEPT ![t] = p]
      PROVE  PagesOK'
  BY <1>1, <1>2 DEF GrantsInv, PagesOK
<1>3. PageOK(page[t], limits, writes) /\ DOMAIN page = Tabs
  BY DEF GrantsInv, PagesOK
<1>4. CASE ReadLists(t)
  <2> DEFINE live == {r \in Resources : resource[r] # None}
             listed == [r \in live |-> resource[r].pending # None]
             failed == Answered(t, Lists)
  <2>1. page' = [page EXCEPT ![t].listed = listed, ![t].failed = failed]
    BY <1>4 DEF ReadLists
  <2>2. DOMAIN listed \subseteq Resources
    OBVIOUS
  <2> HIDE DEF listed, failed
  <2>3. page' = [page EXCEPT ![t] = [page[t] EXCEPT !.listed = listed, !.failed = failed]]
    BY <1>3, <2>1
  <2> QED
    BY <1>2, <1>3, <2>2, <2>3, ListsRead
<1>5. CASE ReadDetails(t)
  <2> DEFINE ids == DOMAIN page[t].listed
             read == [row |-> [cell \in Groups \X ids |-> limits[cell]],
                      at |-> [cell \in Groups \X ids |-> writes[cell]]]
             failed == Answered(t, Details(ids))
  <2>1. ids \in SUBSET Resources
    BY <1>3, <1>5 DEF ReadDetails, PageOK
  <2>2. CASE page' = [page EXCEPT ![t].details[ids] = read, ![t].failed = failed]
    <3>1. ReadOK(read, ids, limits, writes)
      BY <2>1 DEF ReadOK, AsOfWrite, GrantsInv, RowsOK, Cells
    <3> HIDE DEF ids, read, failed
    <3>2. page' = [page EXCEPT ![t] = [page[t] EXCEPT !.details[ids] = read, !.failed = failed]]
      BY <1>3, <2>2
    <3> QED
      BY <1>2, <1>3, <2>1, <3>1, <3>2, DetailsRead
  <2>3. CASE page' = [page EXCEPT ![t].failed = @ \union {Details(ids)}]
    <3> DEFINE p == [page[t] EXCEPT !.failed = @ \union {Details(ids)}]
    <3>1. PageOK(p, limits, writes) /\ page' = [page EXCEPT ![t] = p]
      BY <1>3, <2>3 DEF PageOK, PageFields
    <3> QED
      BY <1>2, <3>1
  <2> QED
    BY <1>5, <2>2, <2>3 DEF ReadDetails
<1>6. CASE ReadFails(t)
  <2>1. PICK q : page' = [page EXCEPT ![t].failed = @ \union {q}]
    BY <1>6 DEF ReadFails
  <2> DEFINE p == [page[t] EXCEPT !.failed = @ \union {q}]
  <2>2. PageOK(p, limits, writes) /\ page' = [page EXCEPT ![t] = p]
    BY <1>3, <2>1 DEF PageOK, PageFields
  <2> QED
    BY <1>2, <2>2
<1> QED
  BY <1>4, <1>5, <1>6 DEF Reads

\* A dialog opens with what the page reads, its fields are edited, a request leaves it.
LEMMA DialogsNext == GrantsInv /\ [Next]_vars => DialogsOK'
<1> SUFFICES ASSUME GrantsInv, [Next]_vars PROVE DialogsOK'
  OBVIOUS
<1>1. RowsOK /\ RowsMove /\ DOMAIN dialog = Tabs /\ sent \in Nat
  BY RowsNext DEF GrantsInv, DialogsOK
<1>2. ASSUME NEW t \in Tabs PROVE DialogOK(dialog[t], limits, writes) /\ DialogOK(dialog[t], limits', writes')
  BY <1>1, DialogAges DEF GrantsInv, DialogsOK
<1>3. ASSUME NEW t \in Tabs, NEW d, DialogOK(d, limits, writes), dialog' = [dialog EXCEPT ![t] = d]
      PROVE  DialogsOK'
  <2>1. DialogOK(d, limits', writes')
    BY <1>1, <1>3, DialogAges
  <2> QED
    BY <1>1, <1>2, <1>3, <2>1 DEF DialogsOK
<1>4. CASE dialog' = dialog
  BY <1>1, <1>2, <1>4 DEF DialogsOK
<1>5. ASSUME NEW t \in Tabs, NEW n \in Nat, dialog[t] # None,
             dialog' = [dialog EXCEPT ![t].call = n]
      PROVE  DialogsOK'
  <2> DEFINE d == [dialog[t] EXCEPT !.call = n]
  <2>1. DialogOK(d, limits, writes) /\ dialog' = [dialog EXCEPT ![t] = d]
    BY <1>1, <1>2, <1>5 DEF DialogOK, Dialogs
  <2> QED
    BY <1>3, <2>1
<1>6. ASSUME NEW t \in Tabs, UsesDialog(t) PROVE DialogsOK'
  <2>1. ASSUME NEW cell \in Cells, OpenDialog(t, cell) PROVE DialogsOK'
    <3> DEFINE ids == DOMAIN page[t].listed
               p == page[t].details[ids]
               read == [cap \in Caps |-> CapOf(GrantIn(t, cell), cap)]
               d == [cell |-> cell, of |-> cell, read |-> read, field |-> read, at |-> AsOf(t, cell), call |-> 0]
    <3>1. /\ ids \in SUBSET Resources /\ cell \in Groups \X ids
          /\ p # None /\ page[t].listed # None
      BY <2>1 DEF OpenDialog, Shown, Loaded, GrantsInv, PagesOK, PageOK
    <3>2. ReadOf(t, cell) = p
      BY <3>1 DEF ReadOf
    <3>3. /\ GrantIn(t, cell) = p.row[cell] /\ AsOf(t, cell) = p.at[cell]
      BY <3>1, <3>2 DEF GrantIn, AsOf
    <3>4. ReadOK(p, ids, limits, writes)
      BY <3>1 DEF GrantsInv, PagesOK, PageOK
    <3>5. /\ GrantIn(t, cell) \in Grants \union {None}
          /\ AsOfWrite(writes, cell, AsOf(t, cell), GrantIn(t, cell) = limits[cell])
      BY <3>1, <3>3, <3>4 DEF ReadOK
    <3>6. read \in Grants
      BY <3>5 DEF CapOf, Grants
    <3>7. AsOf(t, cell) \in Nat
      BY <1>1, <3>5 DEF AsOfWrite, RowsOK
    <3>8. d \in Dialogs
      BY <3>6, <3>7 DEF Dialogs
    <3>9. AsOfWrite(writes, cell, AsOf(t, cell), \A cap \in Caps : read[cap] = CapOf(limits[cell], cap))
      BY <3>5 DEF AsOfWrite
    <3>10. DialogOK(d, limits, writes)
      BY <3>8, <3>9 DEF DialogOK
    <3>11. dialog' = [dialog EXCEPT ![t] = d]
      BY <2>1 DEF OpenDialog
    <3> HIDE DEF d
    <3> QED
      BY <1>3, <3>10, <3>11
  <2>2. ASSUME NEW cap \in Caps, NEW v \in Amounts \union {None}, EditCap(t, cap, v) PROVE DialogsOK'
    <3> DEFINE d == [dialog[t] EXCEPT !.field[cap] = v]
    <3>1. dialog[t] # None /\ dialog' = [dialog EXCEPT ![t] = d]
      BY <1>1, <2>2 DEF EditCap
    <3>2. dialog[t] \in Dialogs
      BY <1>2, <3>1 DEF DialogOK
    <3>3. /\ d \in Dialogs /\ d.of = dialog[t].of /\ d.at = dialog[t].at
          /\ d.read = dialog[t].read
      BY <3>2 DEF Dialogs, Grants
    <3> HIDE DEF d
    <3>4. DialogOK(d, limits, writes)
      BY <1>2, <3>1, <3>3 DEF DialogOK
    <3> QED
      BY <1>3, <3>1, <3>4
  <2>5. ASSUME NEW cell \in Cells, Retarget(t, cell) PROVE DialogsOK'
    <3> DEFINE d == [dialog[t] EXCEPT !.cell = cell]
    <3>1. dialog[t] # None /\ dialog' = [dialog EXCEPT ![t] = d]
      BY <1>1, <2>5 DEF Retarget
    <3>2. dialog[t] \in Dialogs
      BY <1>2, <3>1 DEF DialogOK
    <3>3. /\ d \in Dialogs /\ d.of = dialog[t].of /\ d.at = dialog[t].at
          /\ d.read = dialog[t].read
      BY <3>2 DEF Dialogs
    <3> HIDE DEF d
    <3>4. DialogOK(d, limits, writes)
      BY <1>2, <3>1, <3>3 DEF DialogOK
    <3> QED
      BY <1>3, <3>1, <3>4
  <2>3. CASE CloseDialog(t)
    BY <1>3, <2>3 DEF CloseDialog, DialogOK
  <2>4. CASE SaveGrant(t) \/ RevokeGrant(t)
    BY <1>1, <1>5, <2>4 DEF SaveGrant, RevokeGrant
  <2> QED
    BY <1>6, <2>1, <2>2, <2>3, <2>4, <2>5 DEF UsesDialog
<1>7. ASSUME NEW t \in Tabs, Reads(t) \/ \E r \in Resources : UsesRow(t, r) PROVE dialog' = dialog
  BY <1>7 DEF Reads, ReadLists, ReadDetails, ReadFails, UsesRow, Create, Stage, Commit, Discard, Delete, Asks
<1>8. ASSUME NEW i \in Ids, Handle(i) PROVE dialog' = dialog
  BY <1>8 DEF Handle, HandleGrant, HandleCreate, HandleStage, HandleDelete, FindKey, CommitKey,
              DiscardKey, Handled
<1>9. ASSUME NEW i \in Ids, Answer(i) \/ Refuse(i) \/ GiveUp(i) PROVE DialogsOK'
  <2>1. \/ dialog' = dialog \/ dialog' = Disappointed(i)
        \/ dialog' = [dialog EXCEPT ![calls[i].tab] = None]
    BY <1>9 DEF Answer, Refuse, GiveUp
  <2>2. CASE dialog' = Disappointed(i)
    <3>1. ASSUME NEW t \in Tabs PROVE DialogOK(Disappointed(i)[t], limits', writes')
      <4>1. CASE dialog[t] # None /\ dialog[t].call = i
        <5> DEFINE d == [dialog[t] EXCEPT !.call = 0]
        <5>1. DialogOK(d, limits', writes')
          BY <1>2, <4>1 DEF DialogOK, Dialogs
        <5> QED
          BY <4>1, <5>1 DEF Disappointed
      <4> QED
        BY <1>2, <4>1 DEF Disappointed
    <3> QED
      BY <2>2, <3>1 DEF DialogsOK, Disappointed
  <2>3. CASE dialog' = [dialog EXCEPT ![calls[i].tab] = None]
    BY <1>1, <1>2, <2>3 DEF DialogsOK, DialogOK
  <2> QED
    BY <1>4, <2>1, <2>2, <2>3
<1>10. CASE UNCHANGED vars
  BY <1>4, <1>10 DEF vars
<1> QED
  BY <1>4, <1>6, <1>7, <1>8, <1>9, <1>10 DEF Next, Ids

LEMMA PagesNext == GrantsInv /\ [Next]_vars => PagesOK'
<1> SUFFICES ASSUME GrantsInv, [Next]_vars PROVE PagesOK'
  OBVIOUS
<1>1. CASE page' = page
  BY <1>1, RowsNext, PageAges DEF GrantsInv, PagesOK
<1>2. ASSUME NEW t \in Tabs, UsesDialog(t) PROVE page' = page
  BY <1>2 DEF UsesDialog, OpenDialog, Retarget, EditCap, CloseDialog, SaveGrant, RevokeGrant, Sends
<1>3. ASSUME NEW t \in Tabs, NEW r \in Resources, UsesRow(t, r) PROVE page' = page
  BY <1>3 DEF UsesRow, Create, Stage, Commit, Discard, Delete, Asks, Sends
<1>4. ASSUME NEW i \in Ids, Handle(i) \/ Answer(i) \/ Refuse(i) \/ GiveUp(i) PROVE page' = page
  BY <1>4 DEF Handle, HandleGrant, HandleCreate, HandleStage, HandleDelete, FindKey, CommitKey,
              DiscardKey, Handled, Answer, Refuse, GiveUp
<1> QED
  BY <1>1, <1>2, <1>3, <1>4, ReadsPages DEF Next, Ids, vars

LEMMA SavesNext == GrantsInv /\ [Next]_vars => SavesOK' /\ sent' \in Nat
<1> SUFFICES ASSUME GrantsInv, [Next]_vars PROVE SavesOK' /\ sent' \in Nat
  OBVIOUS
<1>1. RowsOK /\ RowsMove /\ DOMAIN calls = Ids /\ sent \in Nat
  BY RowsNext DEF GrantsInv, SettingsInv, TypesOK
<1>2. ASSUME NEW i \in Ids PROVE SaveOK(calls[i], limits', writes')
  BY <1>1, SaveAges DEF GrantsInv, SavesOK
<1>3. ASSUME calls' = calls PROVE SavesOK'
  BY <1>2, <1>3 DEF SavesOK
<1>4. ASSUME NEW n, NEW c, SaveOK(c, limits', writes'), calls' = [calls EXCEPT ![n] = c]
      PROVE  SavesOK'
  <2>1. ASSUME NEW i \in Ids PROVE calls'[i] = IF i = n THEN c ELSE calls[i]
    BY <1>1, <1>4
  <2> QED
    BY <1>2, <1>4, <2>1 DEF SavesOK
<1>5. ASSUME NEW t \in Tabs, SaveGrant(t) PROVE SavesOK'
  <2> DEFINE d == dialog[t]
             c == [Request(t, "save", d.cell[2]) EXCEPT
                     !.cell = d.cell, !.of = d.of, !.at = d.at,
                     !.value = SentCaps(d), !.untouched = Untouched(d)]
  <2>1. d \in Dialogs /\ AsOfWrite(writes, d.of, d.at, \A cap \in Caps : d.read[cap] = CapOf(limits[d.of], cap))
    BY <1>5 DEF SaveGrant, GrantsInv, DialogsOK, DialogOK
  <2>2. /\ c.cell = d.cell /\ c.of = d.of /\ c.value = SentCaps(d) /\ c.untouched = Untouched(d) /\ c.at = d.at
    BY DEF Request
  <2>3. calls' = [calls EXCEPT ![sent + 1] = c]
    BY <1>5 DEF SaveGrant, Sends
  <2> HIDE DEF c, d
  <2>4. d.cell \in Cells /\ SentCaps(d) \in Grants /\ Untouched(d) \subseteq Caps
    BY <2>1 DEF Dialogs, Grants, SentCaps, Untouched
  <2>5. AsOfWrite(writes, d.of, d.at,
                  \A cap \in Untouched(d) : SentCaps(d)[cap] = CapOf(limits[d.of], cap))
    BY <2>1 DEF AsOfWrite, SentCaps, Untouched
  <2>6. SaveOK(c, limits, writes)
    BY <2>2, <2>4, <2>5 DEF SaveOK
  <2> QED
    BY <1>1, <1>4, <2>3, <2>6, SaveAges
<1>6. ASSUME NEW t \in Tabs, RevokeGrant(t) PROVE SavesOK'
  <2> DEFINE c == [Request(t, "revoke", dialog[t].cell[2]) EXCEPT !.cell = dialog[t].cell]
  <2>1. c.act = "revoke" /\ calls' = [calls EXCEPT ![sent + 1] = c]
    BY <1>6 DEF RevokeGrant, Sends, Request
  <2> HIDE DEF c
  <2> QED
    BY <1>4, <2>1 DEF SaveOK
<1>7. ASSUME NEW t \in Tabs, NEW r \in Resources, UsesRow(t, r) PROVE SavesOK'
  <2>1. ASSUME NEW act, NEW v, act # "save", Asks(t, act, r, v) PROVE SavesOK'
    <3> DEFINE c == [Request(t, act, r) EXCEPT !.value = v]
    <3>1. c.act = act /\ calls' = [calls EXCEPT ![sent + 1] = c]
      BY <2>1 DEF Asks, Sends, Request
    <3> HIDE DEF c
    <3> QED
      BY <1>4, <2>1, <3>1 DEF SaveOK
  <2> QED
    BY <1>7, <2>1 DEF UsesRow, Create, Stage, Commit, Discard, Delete
<1>8. ASSUME NEW t \in Tabs, Reads(t) \/ UsesDialog(t) PROVE SavesOK'
  <2>1. SaveGrant(t) \/ RevokeGrant(t) \/ calls' = calls
    BY <1>8 DEF Reads, ReadLists, ReadDetails, ReadFails, UsesDialog, OpenDialog, Retarget, EditCap, CloseDialog
  <2> QED
    BY <1>3, <1>5, <1>6, <2>1
<1>9. ASSUME NEW i \in Ids, Handle(i) \/ Answer(i) \/ Refuse(i) \/ GiveUp(i) PROVE SavesOK'
  <2>1. CallOK(calls[i])
    BY DEF GrantsInv, SettingsInv, TypesOK
  <2>2. CASE calls[i] # None /\ calls' = [calls EXCEPT ![i].heard = FALSE]
    <3> DEFINE c == [calls[i] EXCEPT !.heard = FALSE]
    <3>1. SaveOK(c, limits', writes') /\ calls' = [calls EXCEPT ![i] = c]
      BY <1>1, <1>2, <2>1, <2>2 DEF SaveOK, CallOK, CallFields
    <3> QED
      BY <1>4, <3>1
  <2>3. ASSUME NEW state, state # "sent", calls[i] # None, Replies(i, state) PROVE SavesOK'
    <3> DEFINE c == [calls[i] EXCEPT !.state = state]
    <3>1. c.state = state /\ calls' = [calls EXCEPT ![i] = c]
      BY <1>1, <2>1, <2>3 DEF Replies, CallOK, CallFields
    <3> HIDE DEF c
    <3> QED
      BY <1>4, <2>3, <3>1 DEF SaveOK
  <2>4. ASSUME NEW v, calls[i] # None, calls' = [calls EXCEPT ![i].state = "found", ![i].value = v]
        PROVE  SavesOK'
    <3> DEFINE c == [calls[i] EXCEPT !.state = "found", !.value = v]
    <3>1. c.state = "found" /\ calls' = [calls EXCEPT ![i] = c]
      BY <1>1, <2>1, <2>4 DEF CallOK, CallFields
    <3> HIDE DEF c
    <3> QED
      BY <1>4, <3>1 DEF SaveOK
  <2>5. CASE calls' = [calls EXCEPT ![i] = None]
    BY <1>4, <2>5 DEF SaveOK
  <2>6. \/ calls' = [calls EXCEPT ![i] = None]
        \/ /\ calls[i] # None
           /\ \/ calls' = [calls EXCEPT ![i].heard = FALSE]
              \/ Replies(i, "ok") \/ Replies(i, "no")
              \/ calls' = [calls EXCEPT ![i].state = "found", ![i].value = resource[calls[i].r].pending]
    BY <1>9 DEF Handle, HandleGrant, HandleCreate, HandleStage, HandleDelete, FindKey, CommitKey,
                DiscardKey, Answer, Refuse, GiveUp
  <2> QED
    BY <2>2, <2>3, <2>4, <2>5, <2>6
<1>10. sent' \in Nat
  <2>1. ASSUME NEW t \in Tabs, Reads(t) \/ UsesDialog(t) PROVE sent' \in {sent, sent + 1}
    BY <2>1 DEF Reads, ReadLists, ReadDetails, ReadFails, UsesDialog, OpenDialog, Retarget, EditCap,
                CloseDialog, SaveGrant, RevokeGrant, Sends
  <2>2. ASSUME NEW t \in Tabs, NEW r \in Resources, UsesRow(t, r) PROVE sent' \in {sent, sent + 1}
    BY <2>2 DEF UsesRow, Create, Stage, Commit, Discard, Delete, Asks, Sends
  <2>3. ASSUME NEW i \in Ids, Handle(i) \/ Answer(i) \/ Refuse(i) \/ GiveUp(i) PROVE sent' = sent
    BY <2>3 DEF Handle, HandleGrant, HandleCreate, HandleStage, HandleDelete, FindKey, CommitKey,
                DiscardKey, Handled, Answer, Refuse, GiveUp
  <2> QED
    BY <1>1, <2>1, <2>2, <2>3 DEF Next, Ids, vars
<1>11. CASE UNCHANGED vars
  BY <1>1, <1>3, <1>11 DEF vars
<1> QED
  BY <1>3, <1>7, <1>8, <1>9, <1>10, <1>11 DEF Next, Ids

LEMMA GrantsNext == GrantsInv /\ [Next]_vars => GrantsInv'
BY NextInv, RowsNext, PagesNext, DialogsNext, SavesNext DEF GrantsInv

----------------------------------------------------------------------------
(* What the Access page says and saves *)

\* Where the matrix says "no access", there was none as of the read that it shows, for any
\* number of tabs, groups and resources and however reads fail and writes overtake them.
THEOREM NoAccessRead == Spec => []NoAccessWasRead
<1>1. GrantsInv => NoAccessWasRead
  <2> SUFFICES ASSUME GrantsInv, NEW t \in Tabs, NEW cell \in Shown(t), GrantIn(t, cell) = None,
                      ReadOf(t, cell) = None \/ AsOf(t, cell) = writes[cell]
               PROVE  limits[cell] = None
    BY DEF NoAccessWasRead
  <2> DEFINE ids == DOMAIN page[t].listed
  <2>1. /\ page[t].listed # None /\ page[t].details[ids] # None
        /\ ids \in SUBSET Resources /\ cell \in Groups \X ids
    BY DEF Shown, Loaded, GrantsInv, PagesOK, PageOK
  <2>2. ReadOf(t, cell) = page[t].details[ids]
    BY <2>1 DEF ReadOf
  <2>3. ReadOK(page[t].details[ids], ids, limits, writes)
    BY <2>1 DEF GrantsInv, PagesOK, PageOK
  <2> QED
    BY <2>1, <2>2, <2>3 DEF ReadOK, AsOfWrite, GrantIn, AsOf
<1> QED
  BY GrantsInit, GrantsNext, <1>1, PTL DEF Spec

\* A save from a dialog that was opened for the cell it saves leaves every cap that the
\* operator did not touch as it is, although it replaces the row, unless the row was written
\* since the page read it: for any caps, amounts, tabs and cells, whichever requests are
\* late, refused or given up, and whatever dialogs are moved to other cells meanwhile.
THEOREM UntouchedStay == Spec => UntouchedKept
<1> DEFINE Kept == \A i \in 1..MaxMoves :
             Takes(i) /\ calls[i].of = calls[i].cell /\ calls[i].at = writes[calls[i].cell] =>
               \A cap \in calls[i].untouched :
                 CapOf(limits'[calls[i].cell], cap) = CapOf(limits[calls[i].cell], cap)
<1>1. GrantsInv /\ [Next]_vars => [Kept]_vars
  <2> SUFFICES ASSUME GrantsInv, Next, NEW i \in Ids, Takes(i), calls[i].of = calls[i].cell,
                      calls[i].at = writes[calls[i].cell],
                      NEW cap \in calls[i].untouched
               PROVE  CapOf(limits'[calls[i].cell], cap) = CapOf(limits[calls[i].cell], cap)
    BY DEF Ids
  <2> DEFINE c == calls[i]
  <2>1. /\ c.cell \in Cells /\ c.value \in Grants /\ cap \in Caps
        /\ c.value[cap] = CapOf(limits[c.cell], cap)
    BY RowsNext DEF Takes, GrantsInv, SavesOK, SaveOK, AsOfWrite
  <2>2. limits'[c.cell] = limits[c.cell] \/ limits'[c.cell] = c.value
    <3>1. CASE limits' = limits
      BY <3>1
    <3>2. ASSUME NEW j \in Ids, calls[j] # None, HandleGrant(j)
          PROVE  limits'[c.cell] = limits[c.cell] \/ limits'[c.cell] = c.value
      <4>1. DOMAIN calls = Ids /\ DOMAIN limits = Cells
        BY DEF GrantsInv, SettingsInv, TypesOK, RowsOK
      <4>2. Replies(j, "ok") \/ Replies(j, "no")
        BY <3>2 DEF HandleGrant
      <4>3. j = i
        BY <4>1, <4>2 DEF Takes, Replies
      <4> QED
        BY <2>1, <3>2, <4>1, <4>3 DEF Takes, HandleGrant
    <3> QED
      BY <3>1, <3>2, OneWriter
  <2>3. c.value # None
    BY <2>1, SettingsAssumption DEF Grants
  <2> QED
    BY <2>1, <2>2, <2>3 DEF CapOf
<1> QED
  BY GrantsInit, GrantsNext, <1>1, PTL DEF Spec, UntouchedKept
=============================================================================
