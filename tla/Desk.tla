-------------------------------- MODULE Desk --------------------------------
(***************************************************************************)
(* The console's People page (web/app/console/people/page.tsx) with its    *)
(* onboarding form (components/console/OnboardForm.tsx) and the panel of   *)
(* one enforcer user (UserDetailPanel.tsx), in front of the mirror route,  *)
(* the chain, its index and the enforcer.                                  *)
(*                                                                         *)
(* The form checks a label after a pause in the typing and does not cancel *)
(* a check that has started; a transaction is mined some time after it was *)
(* sent, or reverts; the page's lists are read one by one and kept when a  *)
(* later read fails.                                                       *)
(***************************************************************************)
EXTENDS Mirror

CONSTANTS
  MaxChecks      \* bound: checks of a label in flight

ASSUME DeskAssumption ==
  /\ MaxChecks \in Nat /\ {"form", "sync", "people"} \subseteq Origins
  /\ None \notin [group : GroupNames, off : BOOLEAN]

VARIABLES
  form,          \* OnboardForm
  checks,        \* its lookups in flight
  tx,            \* the transaction it sent last, not yet mined
  index,         \* external: the indexer's memberships, and whether it has fallen behind
  page           \* PeoplePage

deskVars == <<form, checks, tx, index, page>>
vars == <<mirrorVars, deskVars>>
staticVars == <<registrarVars, catalogue, enforcerVars, posts, mishaps>>

NoJob == [label |-> None, wallet |-> None, role |-> None]
NoList == [l \in Labels |-> None]

\* list: the owner of each membership in hand, users: each row in hand;
\* error, usersError: the last read failed.  sure: history, the members the list
\* in hand must know of, and who still are.
PageInit == [list |-> NoList, source |-> "none", stale |-> FALSE, error |-> FALSE,
             users |-> NoList, usersRead |-> FALSE, usersError |-> FALSE,
             sure |-> {}]

\* What the form says of its last submission.  form.erased: history, somebody deleted
\* the row it speaks of.
Silent == [kind |-> "none", label |-> None, wallet |-> None]

Init ==
  /\ MirrorInit
  /\ specs \in [Roles -> {s \in RoleSpecs : s.active} \union {None}]
  /\ groups \in SUBSET GroupNames
  /\ form = [label |-> None, wallet |-> None, due |-> FALSE, free |-> "unknown", failed |-> FALSE,
             blocked |-> FALSE, sync |-> "idle", at |-> "idle", job |-> NoJob,
             said |-> Silent, erased |-> FALSE]
  /\ checks = {} /\ tx = NoJob
  /\ index = [of |-> members, behind |-> FALSE]
  /\ page = PageInit

----------------------------------------------------------------------------
(* OnboardForm: the fields *)

Busy == form.at # "idle"

OffersScan == ~Busy

\* A change of label or wallet restarts the pause before the next check.
Scan(l) ==
  /\ OffersScan /\ Move
  /\ form' = [form EXCEPT !.label = l, !.free = "unknown", !.failed = FALSE, !.due = TRUE]
  /\ UNCHANGED <<staticVars, checks, tx, index, page>>

TypeWallet(w) ==
  /\ w # form.wallet /\ Move
  /\ form' = [form EXCEPT !.wallet = w, !.due = form.label # None]
  /\ UNCHANGED <<staticVars, checks, tx, index, page>>

----------------------------------------------------------------------------
(* OnboardForm: is the label free?  The answer is for the label asked about. *)

Ask(l, w, at) == [label |-> l, wallet |-> w, at |-> at]

StartCheck ==
  /\ form.due /\ Cardinality(checks) < MaxChecks
  /\ form' = [form EXCEPT !.due = FALSE, !.sync = "idle"]
  /\ checks' = checks \union {Ask(form.label, form.wallet, "free")}
  /\ UNCHANGED <<mirrorVars, tx, index, page>>

\* A label that is taken is mirrored again, on the spot.
LandFree(c) ==
  /\ c.at = "free"
  /\ IF LabelTaken(members, c.label)
     THEN /\ form' = [form EXCEPT !.free = "no", !.failed = FALSE, !.sync = "syncing"]
          /\ checks' = (checks \ {c}) \union {Ask(c.label, None, "resolve")}
     ELSE /\ form' = [form EXCEPT !.free = "yes", !.failed = FALSE]
          /\ checks' = (checks \ {c}) \union
               (IF c.wallet # None THEN {Ask(c.label, c.wallet, "name")} ELSE {})
  /\ UNCHANGED <<mirrorVars, tx, index, page>>

LandName(c) ==
  /\ c.at = "name"
  /\ form' = [form EXCEPT !.blocked = NameClash(c.label, c.wallet)]
  /\ checks' = checks \ {c}
  /\ UNCHANGED <<mirrorVars, tx, index, page>>

\* The check of a label that did not answer says so; the other one lets it pass.
CheckFails(c) ==
  /\ c.at \in {"free", "name"} /\ Mishap
  /\ form' = CASE c.at = "free" -> [form EXCEPT !.free = "unknown", !.failed = TRUE]
               [] c.at = "name" -> [form EXCEPT !.blocked = FALSE]
  /\ checks' = checks \ {c}
  /\ UNCHANGED <<registrarVars, catalogue, enforcerVars, posts, moves, tx, index, page>>

----------------------------------------------------------------------------
(* OnboardForm: syncToEnforcer *)

\* The owner is whom the name resolves to.
Resolve(c) ==
  /\ c.at = "resolve" /\ Free("sync")
  /\ checks' = checks \ {c}
  /\ \/ \E w \in Wallets : /\ Holds(members, w, c.label)
                           /\ Posted("sync", "member", c.label, w, None, TRUE)
                           /\ UNCHANGED <<form, mishaps>>
     \/ /\ \/ ~LabelTaken(members, c.label) /\ UNCHANGED mishaps
           \/ Mishap
        /\ form' = [form EXCEPT !.sync = "sync-failed"]
        /\ UNCHANGED posts
  /\ UNCHANGED <<registrarVars, catalogue, enforcerVars, moves, tx, index, page>>

SyncAnswered ==
  /\ posts["sync"].at = "done"
  /\ form' = [form EXCEPT !.sync = IF Ok(posts["sync"].answer) THEN "synced" ELSE "sync-failed"]
  /\ posts' = [posts EXCEPT !["sync"] = Idle]
  /\ UNCHANGED <<registrarVars, catalogue, enforcerVars, moves, mishaps, checks, tx, index, page>>

OffersRetrySync == form.label # None /\ form.free = "no" /\ form.sync = "sync-failed"

RetrySync ==
  /\ OffersRetrySync /\ Cardinality(checks) < MaxChecks /\ Move
  /\ form' = [form EXCEPT !.sync = "syncing"]
  /\ checks' = checks \union {Ask(form.label, None, "resolve")}
  /\ UNCHANGED <<staticVars, tx, index, page>>

----------------------------------------------------------------------------
(* OnboardForm: submit *)

CanSubmit == /\ form.label # None /\ form.wallet # None
             /\ form.free = "yes" /\ ~form.blocked /\ ~Busy

OffersGroup(r) == Active(specs, r)

Submit(r) ==
  /\ CanSubmit /\ OffersGroup(r)
  /\ form' = [form EXCEPT !.at = "signing",
                !.job = [label |-> form.label, wallet |-> form.wallet, role |-> r],
                !.said = Silent, !.erased = FALSE]
  /\ UNCHANGED <<staticVars, moves, checks, tx, index, page>>

Say(f, kind) == [f EXCEPT !.at = "idle",
                   !.said = [kind |-> kind, label |-> f.job.label, wallet |-> f.job.wallet]]

SendTx ==
  /\ form.at = "signing" /\ tx = NoJob
  /\ tx' = form.job /\ form' = [form EXCEPT !.at = "mining"]
  /\ UNCHANGED <<mirrorVars, checks, index, page>>

RefuseTx ==
  /\ form.at = "signing" /\ Mishap
  /\ form' = Say(form, "failed")
  /\ UNCHANGED <<registrarVars, catalogue, enforcerVars, posts, moves, checks, tx, index, page>>

\* The receipt does not say whether the transaction succeeded.
Mine ==
  /\ tx # NoJob /\ (Mintable(tx.label, tx.wallet, tx.role) => minted < MaxMinted)
  /\ IF Mintable(tx.label, tx.wallet, tx.role) THEN Minted(tx.label, tx.wallet, tx.role)
     ELSE UNCHANGED <<members, memberNames, minted, posts>>
  /\ tx' = NoJob
  /\ form' = [form EXCEPT !.at = IF @ = "mining" THEN "mined" ELSE @]
  /\ UNCHANGED <<specs, catalogue, enforcerVars, moves, mishaps, checks, index, page>>

GiveUp ==
  /\ form.at = "mining" /\ Mishap
  /\ form' = Say(form, "failed")
  /\ UNCHANGED <<registrarVars, catalogue, enforcerVars, posts, moves, checks, tx, index, page>>

PostMember ==
  /\ form.at = "mined"
  /\ form' = [form EXCEPT !.at = "mirroring"]
  /\ Posted("form", "member", form.job.label, form.job.wallet, None, TRUE)
  /\ UNCHANGED <<registrarVars, catalogue, enforcerVars, moves, mishaps, checks, tx, index, page>>

----------------------------------------------------------------------------
(* PeoplePage: what is in hand *)

Rows == [l \in Labels |-> IF rows[l] = None THEN None ELSE IF rows[l].off THEN "off" ELSE "on"]
Owners(ms, of) == [l \in Labels |->
                     IF \E w \in Wallets : Holds(ms, w, l) /\ l \in of
                     THEN CHOOSE w \in Wallets : Holds(ms, w, l) ELSE None]

UsersRead(pg) == [pg EXCEPT !.users = Rows, !.usersRead = TRUE, !.usersError = FALSE]

ReadUsers ==
  /\ \/ page' = UsersRead(page) /\ UNCHANGED mishaps
     \/ page' = [page EXCEPT !.usersError = TRUE] /\ Mishap
  /\ page' # page
  /\ UNCHANGED <<registrarVars, catalogue, enforcerVars, posts, moves, form, checks, tx, index>>

\* The members an answer cannot have missed: those the index has, when it
\* answers for itself; those recorded, when it is behind and the chain was asked
\* about them; everybody, when an index that is behind answers alone.
Settled(ms) == {l \in Labels : \E w \in Wallets : Holds(ms, w, l) /\ ms[w] = index.of[w]}
Members(ms) == {l \in Labels : LabelTaken(ms, l)}

ReadMemberships ==
  /\ LET candidates == recorded \intersect Members(members)
         verified == index.behind /\ candidates # {}
         indexed == Owners(index.of, Labels)
         direct == Owners(members, candidates)
         merged == [l \in Labels |-> IF direct[l] # None THEN direct[l] ELSE indexed[l]]
     IN  \/ /\ page' = [page EXCEPT
                 !.list = IF verified THEN merged ELSE indexed,
                 !.source = IF verified THEN "chain" ELSE "indexer",
                 !.stale = index.behind, !.error = FALSE,
                 !.sure = CASE verified -> candidates
                            [] index.behind /\ ~verified -> Members(members)
                            [] OTHER -> Settled(members)]
            /\ UNCHANGED mishaps
         \/ page' = [page EXCEPT !.error = TRUE] /\ Mishap
  /\ page' # page
  /\ UNCHANGED <<registrarVars, catalogue, enforcerVars, posts, moves, form, checks, tx, index>>

\* A mistake: what an index that fell behind says is an answer.
ChainAnsweredAnyhow == ~page.error /\ page.source # "none"

ChainAnswered == ~page.error /\ page.source # "none" /\ (page.source = "chain" \/ ~page.stale)

EnforcerAnswered == ~page.usersError /\ page.usersRead

\* reconcile()
Standing(l) ==
  CASE page.list[l] # None /\ page.users[l] # None -> "both"
    [] page.list[l] # None /\ page.users[l] = None -> IF EnforcerAnswered THEN "chain-only" ELSE "unknown"
    [] page.list[l] = None /\ page.users[l] # None -> IF ChainAnswered THEN "enforcer-only" ELSE "unknown"
    [] OTHER -> "nobody"

----------------------------------------------------------------------------
(* PeoplePage: what it offers and does *)

\* Nobody is listed while neither side has answered.
Listed(l) == (ChainAnswered \/ EnforcerAnswered) /\ Standing(l) # "nobody"

OffersRetry(l) == Listed(l) /\ Standing(l) = "chain-only" /\ Free("people")
OffersDisable(l) == /\ Listed(l) /\ Standing(l) = "enforcer-only"
                    /\ page.users[l] = "on" /\ Free("people")

RetryMirror(l) ==
  /\ OffersRetry(l) /\ Move
  /\ Posted("people", "member", l, page.list[l], None, TRUE)
  /\ UNCHANGED <<registrarVars, catalogue, enforcerVars, mishaps, deskVars>>

RetryAnswered ==
  /\ posts["people"].at = "done"
  /\ posts' = [posts EXCEPT !["people"] = Idle]
  /\ page' = IF posts["people"].answer = "mirrored" THEN UsersRead(page) ELSE page
  /\ UNCHANGED <<registrarVars, catalogue, enforcerVars, moves, mishaps, form, checks, tx, index>>

Disable(l) ==
  /\ OffersDisable(l) /\ Move
  /\ rows' = TurnedOff(l)
  /\ page' = [page EXCEPT !.users[l] = "off"]
  /\ UNCHANGED <<registrarVars, catalogue, groups, recorded, reported, posts, mishaps,
                 form, checks, tx, index>>

\* A mistake: the route's answer is not looked into.
OutcomeOk(answer) == IF Ok(answer) THEN "live" ELSE "minted"

Outcome(answer) == IF answer = "mirrored" THEN "live" ELSE "minted"

\* onDone reloads the users, and not the memberships.
FormAnswered ==
  /\ form.at = "mirroring" /\ posts["form"].at = "done"
  /\ form' = [Say(form, Outcome(posts["form"].answer))
                EXCEPT !.label = None, !.wallet = None, !.due = FALSE,
                       !.erased = posts["form"].gone]
  /\ posts' = [posts EXCEPT !["form"] = Idle]
  /\ page' = UsersRead(page)
  /\ UNCHANGED <<registrarVars, catalogue, enforcerVars, moves, mishaps, checks, tx, index>>

\* The panel of a user is opened from a list of the rows in hand.
Selectable(l) == page.users[l] # None /\ rows[l] # None

\* UserDetailPanel: a row enabled or disabled by hand.
ToggleUser(l) ==
  /\ Selectable(l) /\ Move
  /\ LET off == page.users[l] = "on"
     IN  /\ rows' = [rows EXCEPT ![l].off = off]
         /\ reported' = IF off THEN reported ELSE reported \ {l}
         /\ posts' = IF off THEN posts ELSE Enabled(l, posts)
         /\ page' = [page EXCEPT !.users[l] = IF off THEN "off" ELSE "on"]
  /\ UNCHANGED <<registrarVars, catalogue, groups, recorded, mishaps, form, checks, tx, index>>

MoveUser(l, g) ==
  /\ Selectable(l) /\ g \in groups /\ Move
  /\ rows' = [rows EXCEPT ![l].group = g]
  /\ UNCHANGED <<registrarVars, catalogue, groups, recorded, reported, posts, mishaps, deskVars>>

\* DELETE of the row; "Disabling keeps their history; deleting does not."
DeleteUser(l) ==
  /\ Selectable(l) /\ Move
  /\ rows' = [rows EXCEPT ![l] = None]
  /\ posts' = Lost(l, posts)
  /\ page' = [page EXCEPT !.users[l] = None]
  /\ form' = [form EXCEPT !.erased = @ \/ form.said.label = l]
  /\ UNCHANGED <<registrarVars, catalogue, groups, recorded, reported, mishaps, checks, tx, index>>

\* CreateUser: somebody who is not joining through ENS.
AddUser(l, g) ==
  /\ rows[l] = None /\ g \in groups /\ Move
  /\ rows' = [rows EXCEPT ![l] = [group |-> g, off |-> FALSE]]
  /\ posts' = Enabled(l, posts)
  /\ reported' = reported \ {l}
  /\ UNCHANGED <<registrarVars, catalogue, groups, recorded, mishaps, deskVars>>

----------------------------------------------------------------------------
(* The index, and the whole *)

IndexBlock == /\ index' = [of |-> members, behind |-> FALSE] /\ index' # index /\ Move
              /\ UNCHANGED <<staticVars, form, checks, tx, page>>

IndexStalls == /\ ~index.behind /\ index' = [index EXCEPT !.behind = TRUE] /\ Move
               /\ UNCHANGED <<staticVars, form, checks, tx, page>>

\* Those who left are no longer sure members.
Outside ==
  /\ MirrorNext
  /\ page' = [page EXCEPT !.sure = @ \intersect Members(members')]
  /\ UNCHANGED <<form, checks, tx, index>>

FormStep ==
  \/ \E l \in Labels : Scan(l)
  \/ \E w \in Wallets : TypeWallet(w)
  \/ StartCheck
  \/ \E c \in checks : LandFree(c) \/ LandName(c) \/ CheckFails(c) \/ Resolve(c)
  \/ SyncAnswered \/ RetrySync
  \/ \E r \in Roles : Submit(r)
  \/ SendTx \/ RefuseTx \/ Mine \/ GiveUp \/ PostMember \/ FormAnswered

PageStep ==
  \/ ReadUsers \/ ReadMemberships
  \/ \E l \in Labels : RetryMirror(l) \/ Disable(l) \/ ToggleUser(l) \/ DeleteUser(l)
  \/ \E l \in Labels, g \in GroupNames : MoveUser(l, g) \/ AddUser(l, g)
  \/ RetryAnswered

Next == Outside \/ FormStep \/ PageStep \/ IndexBlock \/ IndexStalls

Spec == Init /\ [][Next]_vars

----------------------------------------------------------------------------
(* Properties *)

\* "A caller cannot mirror a group that was never defined, a member who was never
\* onboarded" (mirror/route.ts:26): the route is about to write a member's row or a
\* group only if the chain said so at some moment of the request, whoever asked, and
\* whatever was revoked, retired or redefined meanwhile.
NothingOnTrust ==
  \A p \in Origins : posts[p].at \in {"write", "create"} => posts[p].fact

\* Not so: "or a revocation that never happened".  The route asks whether the wallet
\* of the request has a membership, and not whether the label was its own: a request
\* with somebody's label and a wallet of no membership disables a member's row.
RevocationHappened ==
  \A p \in Origins : posts[p].at \in {"disable", "end"} => posts[p].fact

\* A member who has been one since before the list in hand was read, and whom
\* that list cannot have missed, is not offered for disabling, whichever of the
\* page's reads failed or came from an index that is behind.
SureMemberSpared == \A l \in page.sure : ~OffersDisable(l)

\* When the form says that a name is live, the enforcer has a row for it, unless
\* somebody has deleted it by hand since the form's request wrote it.
LiveIsMirrored ==
  form.said.kind = "live" => rows[form.said.label] # None \/ form.erased

\* A name whose revocation was reported mirrored has no enabled row, unless
\* somebody enabled it since the revocation disabled it.
ReportedIsOff == \A l \in reported : rows[l] = None \/ rows[l].off

\* Somebody whose name the form has just called live, and who holds it, is not shown as "not
\* on chain" (people/page.tsx:26).
NotDisowned ==
  form.said.kind = "live" /\ Holds(members, form.said.wallet, form.said.label) =>
    ~(Listed(form.said.label) /\ Standing(form.said.label) = "enforcer-only")

\* A form that says a name was minted has seen one minted (useEnsWrites.ts:287).
MintedIsTrue == form.said.kind \in {"live", "minted"} => minted > 0
=============================================================================
