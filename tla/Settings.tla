------------------------------ MODULE Settings ------------------------------
(***************************************************************************)
(* What a group may use and with which key: the Access and the Resources   *)
(* page of the console (app/console/access, app/console/resources;         *)
(* useAccessMatrix, grantAccess, revokeAccess in lib/hooks/useEnforcer),   *)
(* the relay they talk through (lib/api, app/api/admin) and the handlers   *)
(* of the enforcer (proxy/proxy.py) that keep grants and upstream keys.    *)
(*                                                                         *)
(* Several tabs, of one operator or of several owners.  A page refreshes   *)
(* what it shows whenever it likes (SWR: every 30 seconds, on focus, after *)
(* an answer); a dialog keeps what it was opened with.  A request is       *)
(* refused, answered, or given up while the enforcer still works on it.    *)
(***************************************************************************)
EXTENDS Integers, FiniteSets

CONSTANTS
  Tabs, Groups, Resources,
  Caps,          \* the caps of a grant: per device, per group, per ENS name
  Amounts,       \* what a cap can be, besides unlimited
  None,          \* NULL: no row, no key, unlimited, not read
  MaxMoves       \* bound: requests sent; failed reads, requests refused or given up, retargeted dialogs

ASSUME SettingsAssumption ==
  /\ None \notin Amounts \union Nat \union [Caps -> Amounts \union {None}]
  /\ MaxMoves \in Nat

VARIABLES
  limits,        \* group_resource_limits: <<g, r>> -> caps, or None
  resource,      \* resources: r -> [key, pending], or None (what else a resource has is left out)
  gone,          \* the resources that were deleted: an id is not used again
  keys,          \* the keys handed in so far are 1..keys; 0 is the key of one there at first
  page,          \* tab -> which page it is on, and what that has read
  dialog,        \* tab -> the open GrantDialog, or None
  calls,         \* the requests on their way, by number
  sent,          \* their number
  mishaps,
  writes,        \* history: how often the row of <<g, r>> was written
  discarded      \* history: the keys that a discard took away

enforcer == <<limits, resource, gone, writes, discarded>>
vars == <<enforcer, keys, page, dialog, calls, sent, mishaps>>

Cells == Groups \X Resources

\* Bound: nobody reads or prepares what can no longer be sent.
MayMove == sent + mishaps < MaxMoves
Mishap == MayMove /\ mishaps' = mishaps + 1

\* The queries of a page: the lists of groups and resources, read side by side, and the
\* details of the resources listed.  The groups are those the organization has people in.
Lists == <<"lists", {}>>
Details(ids) == <<"details", ids>>

\* Bound: a tab stays on its page.
Unread(name) == [name |-> name, listed |-> None,
                 details |-> [ids \in SUBSET Resources |-> None], failed |-> {}]

Init ==
  /\ limits = [cell \in Cells |-> None]
  /\ resource \in [Resources -> {None, [key |-> 0, pending |-> None]}]
  /\ gone = {} /\ keys = 0
  /\ page \in [Tabs -> {Unread("access"), Unread("resources")}]
  /\ dialog = [t \in Tabs |-> None]
  /\ calls = [i \in 1..MaxMoves |-> None]
  /\ sent = 0 /\ mishaps = 0
  /\ writes = [cell \in Cells |-> 0]
  /\ discarded = {}

----------------------------------------------------------------------------
(* What a page reads and shows *)

Answered(t, q) == page[t].failed \ {q}

ReadLists(t) ==
  LET live == {r \in Resources : resource[r] # None} IN
  /\ MayMove
  /\ page' = [page EXCEPT
                ![t].listed = [r \in live |-> resource[r].pending # None],
                ![t].failed = Answered(t, Lists)]
  /\ UNCHANGED <<enforcer, keys, dialog, calls, sent, mishaps>>

\* Every resource by its id: one that is gone fails the whole query.
ReadDetails(t) ==
  LET ids == DOMAIN page[t].listed IN
  /\ MayMove /\ page[t].name = "access" /\ page[t].listed # None /\ ids # {}
  /\ page' =
       IF \A r \in ids : resource[r] # None
       THEN [page EXCEPT
               ![t].details[ids] = [row |-> [cell \in Groups \X ids |-> limits[cell]],
                                    at |-> [cell \in Groups \X ids |-> writes[cell]]],
               ![t].failed = Answered(t, Details(ids))]
       ELSE [page EXCEPT ![t].failed = @ \union {Details(ids)}]
  /\ UNCHANGED <<enforcer, keys, dialog, calls, sent, mishaps>>

\* No session, no enforcer: what was read before is kept.
ReadFails(t) ==
  /\ Mishap
  /\ \E q \in {Lists} \union
              (IF page[t].listed = None THEN {} ELSE {Details(DOMAIN page[t].listed)}) :
       page' = [page EXCEPT ![t].failed = @ \union {q}]
  /\ UNCHANGED <<enforcer, keys, dialog, calls, sent>>

\* A mistake: the page is ready when both lists are there.
LoadedWithoutDetails(t) == page[t].listed # None
Loaded(t) ==
  /\ page[t].listed # None
  /\ page[t].details[DOMAIN page[t].listed] # None

\* The cells of the matrix on screen.
Shown(t) ==
  IF Loaded(t) /\ page[t].failed \intersect {Lists, Details(DOMAIN page[t].listed)} = {}
  THEN Groups \X DOMAIN page[t].listed
  ELSE {}

\* What a page read of a cell, and the grant it shows there.
ReadOf(t, cell) ==
  IF page[t].listed = None \/ cell[2] \notin DOMAIN page[t].listed THEN None
  ELSE page[t].details[DOMAIN page[t].listed]
GrantIn(t, cell) == IF ReadOf(t, cell) = None THEN None ELSE ReadOf(t, cell).row[cell]
\* As of which write; 0 for a cell that was not read.
AsOf(t, cell) == IF ReadOf(t, cell) = None THEN 0 ELSE ReadOf(t, cell).at[cell]

\* The rows of the Resources page.
RowsOf(t) ==
  IF page[t].name # "resources" \/ page[t].listed = None \/ Lists \in page[t].failed THEN {}
  ELSE DOMAIN page[t].listed

----------------------------------------------------------------------------
(* Requests *)

Request(t, act, r) ==
  [tab |-> t, act |-> act, r |-> r, cell |-> None, of |-> None, value |-> None, untouched |-> {},
   at |-> 0, state |-> "sent", heard |-> TRUE]

\* Bound: a tab waits for one answer at a time.
Sends(c) ==
  /\ MayMove
  /\ ~\E i \in 1..MaxMoves : calls[i] # None /\ calls[i].heard /\ calls[i].tab = c.tab
  /\ sent' = sent + 1
  /\ calls' = [calls EXCEPT ![sent + 1] = c]
  /\ UNCHANGED <<enforcer, page, mishaps>>

\* The page waits for the answer to one of these from the row.
Awaits(t, r, acts) ==
  \E i \in 1..MaxMoves :
    calls[i] # None /\ calls[i].heard /\ calls[i].tab = t /\ calls[i].r = r /\ calls[i].act \in acts

----------------------------------------------------------------------------
(* The Access page *)

CapOf(row, cap) == IF row = None THEN None ELSE row[cap]

OpenDialog(t, cell) ==
  /\ MayMove /\ dialog[t] = None /\ cell \in Shown(t)
  /\ LET read == [cap \in Caps |-> CapOf(GrantIn(t, cell), cap)] IN
       dialog' = [dialog EXCEPT ![t] =
         [cell |-> cell, of |-> cell, read |-> read, field |-> read, at |-> AsOf(t, cell), call |-> 0]]
  /\ UNCHANGED <<enforcer, keys, page, calls, sent, mishaps>>

\* A cell behind the open dialog, which the keyboard still reaches: the dialog is for that
\* cell from now on, and everything in it stays.
Retarget(t, cell) ==
  /\ dialog[t] # None /\ cell \in Shown(t) \ {dialog[t].cell}
  /\ Mishap
  /\ dialog' = [dialog EXCEPT ![t].cell = cell]
  /\ UNCHANGED <<enforcer, keys, page, calls, sent>>

\* Bound: not while the dialog saves (the fields stay open, and are read again after a failure).
EditCap(t, cap, v) ==
  /\ MayMove /\ dialog[t] # None /\ dialog[t].call = 0 /\ dialog[t].field[cap] # v
  /\ dialog' = [dialog EXCEPT ![t].field[cap] = v]
  /\ UNCHANGED <<enforcer, keys, page, calls, sent, mishaps>>

\* Cancel, or a click beside the dialog, which is not disabled while it saves.
CloseDialog(t) ==
  /\ MayMove /\ dialog[t] # None
  /\ dialog' = [dialog EXCEPT ![t] = None]
  /\ UNCHANGED <<enforcer, keys, page, calls, sent, mishaps>>

Untouched(d) == {cap \in Caps : d.field[cap] = d.read[cap]}

\* A mistake: the fields that were not touched are left out, which unlimits them.
SentCapsTouched(d) == [cap \in Caps |-> IF cap \in Untouched(d) THEN None ELSE d.field[cap]]
\* All the caps, always: the row is replaced.
SentCaps(d) == [cap \in Caps |-> d.field[cap]]

SaveGrant(t) ==
  LET d == dialog[t] IN
  /\ d # None /\ d.call = 0
  /\ Sends([Request(t, "save", d.cell[2]) EXCEPT !.cell = d.cell, !.of = d.of, !.at = d.at,
                                                  !.value = SentCaps(d), !.untouched = Untouched(d)])
  /\ dialog' = [dialog EXCEPT ![t].call = sent + 1]
  /\ UNCHANGED keys

RevokeGrant(t) ==
  LET d == dialog[t] IN
  /\ d # None /\ d.call = 0 /\ GrantIn(t, d.cell) # None
  /\ Sends([Request(t, "revoke", d.cell[2]) EXCEPT !.cell = d.cell])
  /\ dialog' = [dialog EXCEPT ![t].call = sent + 1]
  /\ UNCHANGED keys

----------------------------------------------------------------------------
(* The Resources page *)

Asks(t, act, r, v) ==
  /\ Sends([Request(t, act, r) EXCEPT !.value = v])
  /\ UNCHANGED dialog

RowActs == {"commit", "discard", "delete"}
RowFree(t, r) == r \in RowsOf(t) /\ ~Awaits(t, r, RowActs)

Create(t, r) ==
  /\ page[t].name = "resources"
  /\ resource[r] = None /\ r \notin gone
  /\ ~\E i \in 1..MaxMoves : calls[i] # None /\ calls[i].act = "create" /\ calls[i].r = r
  /\ Asks(t, "create", r, keys + 1)
  /\ keys' = keys + 1

Stage(t, r) ==
  /\ r \in RowsOf(t) /\ ~page[t].listed[r] /\ ~Awaits(t, r, {"stage"})
  /\ Asks(t, "stage", r, keys + 1)
  /\ keys' = keys + 1

Commit(t, r) ==
  /\ RowFree(t, r) /\ page[t].listed[r]
  /\ Asks(t, "commit", r, None) /\ UNCHANGED keys

Discard(t, r) ==
  /\ RowFree(t, r) /\ page[t].listed[r]
  /\ Asks(t, "discard", r, None) /\ UNCHANGED keys

Delete(t, r) == RowFree(t, r) /\ Asks(t, "delete", r, None) /\ UNCHANGED keys

----------------------------------------------------------------------------
(* The enforcer: every statement that writes is a transaction *)

Replies(i, state) == calls' = [calls EXCEPT ![i].state = state]
Handled == UNCHANGED <<keys, page, dialog, sent, mishaps>>
Missing(i) == resource[calls[i].r] = None

\* set_group_limit replaces the row; delete_group_limit removes it.
HandleGrant(i) ==
  LET c == calls[i]
      refused == IF c.act = "save" THEN Missing(i) ELSE limits[c.cell] = None
  IN
  /\ c.act \in {"save", "revoke"} /\ c.state = "sent"
  /\ IF refused THEN Replies(i, "no") /\ UNCHANGED <<limits, writes>>
     ELSE /\ limits' = [limits EXCEPT ![c.cell] = IF c.act = "save" THEN c.value ELSE None]
          /\ writes' = [writes EXCEPT ![c.cell] = @ + 1]
          /\ Replies(i, "ok")
  /\ UNCHANGED <<resource, gone, discarded>> /\ Handled

\* create_resource: the form asked for a key.
HandleCreate(i) ==
  LET c == calls[i] IN
  /\ c.act = "create" /\ c.state = "sent"
  /\ resource' = [resource EXCEPT ![c.r] = [key |-> c.value, pending |-> None]]
  /\ Replies(i, "ok")
  /\ UNCHANGED <<limits, gone, writes, discarded>> /\ Handled

\* rotate_key: a key that is staged is not in use.
HandleStage(i) ==
  LET c == calls[i] IN
  /\ c.act = "stage" /\ c.state = "sent"
  /\ IF Missing(i) THEN Replies(i, "no") /\ UNCHANGED resource
     ELSE /\ resource' = [resource EXCEPT ![c.r].pending = c.value]
          /\ Replies(i, "ok")
  /\ UNCHANGED <<limits, gone, writes, discarded>> /\ Handled

\* delete_resource: not while a group has access; and the database refuses to delete one that
\* the log of requests, or a quota adjustment, refers to.
HandleDelete(i, referred) ==
  LET c == calls[i]  r == c.r IN
  /\ c.act = "delete" /\ c.state = "sent"
  /\ IF Missing(i) \/ referred \/ \E g \in Groups : limits[<<g, r>>] # None
     THEN Replies(i, "no") /\ UNCHANGED <<resource, gone>>
     ELSE /\ resource' = [resource EXCEPT ![r] = None]
          /\ gone' = gone \union {r}
          /\ Replies(i, "ok")
  /\ UNCHANGED <<limits, writes, discarded>> /\ Handled

\* commit_key and discard_pending_key look for a staged key first ...
FindKey(i) ==
  LET c == calls[i] IN
  /\ c.act \in {"commit", "discard"} /\ c.state = "sent"
  /\ IF Missing(i) \/ resource[c.r].pending = None THEN Replies(i, "no")
     ELSE calls' = [calls EXCEPT ![i].state = "found", ![i].value = resource[c.r].pending]
  /\ UNCHANGED enforcer /\ Handled

\* A mistake: the key that was found is put in use.
CommittedFound(res, found) == [res EXCEPT !.key = found, !.pending = None]
\* ... and one UPDATE takes what is staged by then.
Committed(res, found) == [res EXCEPT !.key = res.pending, !.pending = None]

CommitKey(i) ==
  LET c == calls[i]  r == c.r IN
  /\ c.act = "commit" /\ c.state = "found"
  /\ resource' = IF Missing(i) THEN resource
                 ELSE [resource EXCEPT ![r] = Committed(resource[r], c.value)]
  /\ Replies(i, "ok")
  /\ UNCHANGED <<limits, gone, writes, discarded>> /\ Handled

DiscardKey(i) ==
  LET c == calls[i]  r == c.r IN
  /\ c.act = "discard" /\ c.state = "found"
  /\ resource' = IF Missing(i) THEN resource ELSE [resource EXCEPT ![r].pending = None]
  /\ discarded' = IF Missing(i) THEN discarded ELSE discarded \union ({resource[r].pending} \ {None})
  /\ Replies(i, "ok")
  /\ UNCHANGED <<limits, gone, writes>> /\ Handled

Handle(i) ==
  /\ calls[i] # None
  /\ \/ HandleGrant(i) \/ HandleCreate(i) \/ HandleStage(i)
     \/ \E referred \in BOOLEAN : HandleDelete(i, referred)
     \/ FindKey(i) \/ CommitKey(i) \/ DiscardKey(i)

----------------------------------------------------------------------------
(* Answers *)

\* A failure leaves the dialog that asked open, with a message.
Disappointed(i) == [t \in Tabs |-> IF dialog[t] # None /\ dialog[t].call = i
                                   THEN [dialog[t] EXCEPT !.call = 0] ELSE dialog[t]]

\* A saved grant closes the dialog that is open now, whichever it is.
Answer(i) ==
  LET c == calls[i] IN
  /\ c # None /\ c.state \in {"ok", "no"}
  /\ dialog' = CASE c.state = "ok" /\ c.heard /\ c.act \in {"save", "revoke"} -> [dialog EXCEPT ![c.tab] = None]
                 [] c.state = "no" /\ c.heard -> Disappointed(i)
                 [] OTHER -> dialog
  /\ calls' = [calls EXCEPT ![i] = None]
  /\ UNCHANGED <<enforcer, keys, page, sent, mishaps>>

\* 401, or an enforcer that cannot be reached: nothing is done.
Refuse(i) ==
  /\ calls[i] # None /\ calls[i].state = "sent" /\ calls[i].heard
  /\ Mishap
  /\ dialog' = Disappointed(i)
  /\ calls' = [calls EXCEPT ![i] = None]
  /\ UNCHANGED <<enforcer, keys, page, sent>>

\* The relay's ten seconds pass; the enforcer may be done, or go on.
GiveUp(i) ==
  /\ calls[i] # None /\ calls[i].heard
  /\ Mishap
  /\ dialog' = Disappointed(i)
  /\ calls' = [calls EXCEPT ![i].heard = FALSE]
  /\ UNCHANGED <<enforcer, keys, page, sent>>

----------------------------------------------------------------------------

Reads(t) == ReadLists(t) \/ ReadDetails(t) \/ ReadFails(t)
UsesDialog(t) ==
  \/ \E cell \in Cells : OpenDialog(t, cell) \/ Retarget(t, cell)
  \/ \E cap \in Caps, v \in Amounts \union {None} : EditCap(t, cap, v)
  \/ CloseDialog(t) \/ SaveGrant(t) \/ RevokeGrant(t)
UsesRow(t, r) ==
  Create(t, r) \/ Stage(t, r) \/ Commit(t, r) \/ Discard(t, r) \/ Delete(t, r)

Next ==
  \/ \E t \in Tabs : Reads(t) \/ UsesDialog(t) \/ \E r \in Resources : UsesRow(t, r)
  \/ \E i \in 1..MaxMoves : Handle(i) \/ Answer(i) \/ Refuse(i) \/ GiveUp(i)

Spec == Init /\ [][Next]_vars

----------------------------------------------------------------------------
(* What an operator may rely on *)

\* Saving a grant changes the caps the operator touched and no other, unless the row was
\* written since the page read it (access/page.tsx:233: PUT replaces the row), or the dialog
\* was opened for another cell: through refreshes under an open dialog, closed, reopened and
\* retargeted dialogs, late and refused requests.
Takes(i) == calls[i] # None /\ calls[i].act = "save" /\ calls[i].state = "sent"
              /\ calls'[i] # None /\ calls'[i].state = "ok"
UntouchedKept ==
  [][\A i \in 1..MaxMoves :
       Takes(i) /\ calls[i].of = calls[i].cell /\ calls[i].at = writes[calls[i].cell] =>
         \A cap \in calls[i].untouched :
           CapOf(limits'[calls[i].cell], cap) = CapOf(limits[calls[i].cell], cap)]_vars

\* A modal dialog (access/page.tsx:269, aria-modal) edits what it was opened for, whose caps
\* its fields show: nothing is saved to a cell that the fields were not read from.
SavedWhereRead == \A i \in 1..MaxMoves : calls[i] # None => calls[i].of = calls[i].cell \/ calls[i].act # "save"

\* "No cell below should be taken to mean no access" (access/page.tsx:84) is said of a failed
\* read: where the matrix does say "no access", there was none when it was read.
NoAccessWasRead ==
  \A t \in Tabs : \A cell \in Shown(t) :
    GrantIn(t, cell) = None =>
      limits[cell] = None \/ (ReadOf(t, cell) # None /\ AsOf(t, cell) # writes[cell])

\* A staged key that somebody discarded is never used afterwards: an activation that found
\* it before (proxy.py:864) does not bring it back.
DiscardedStaysOut ==
  \A r \in Resources : resource[r] # None => resource[r].key \notin discarded

\* "api_key required" (proxy.py:759): a resource has a key to send.
KeyPresent ==
  \A r \in Resources : resource[r] # None => resource[r].key # None
=============================================================================
