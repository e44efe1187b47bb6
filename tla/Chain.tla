------------------------------- MODULE Chain -------------------------------
(***************************************************************************)
(* What the transactions of the organisation wizard do to the chain:       *)
(* permission on a .eth name, the organisation's contracts                 *)
(* (OrgFactory.sol), the name's two pointers, branches (BranchFactory.sol) *)
(* and groups (defineRole).  A chain is a record, a call takes it to       *)
(* another one, and a batch is executed whole or not at all.               *)
(*                                                                         *)
(* An organisation's contracts are named by the label they were deployed   *)
(* for, and a branch registrar by <<organisation, branch label>>.          *)
(***************************************************************************)
EXTENDS Naturals, Sequences, SequencesExt, Parties

CONSTANTS
  Labels,        \* labels of .eth names
  BranchLabels,
  Groups         \* names of groups

Registrars == Labels \X BranchLabels

ASSUME ChainAssumption == None \notin Labels \union BranchLabels \union Groups \union Registrars

Chains == [owner: [Labels -> Wallets \union {None}],    \* of the .eth name
           delegated: SUBSET Labels,    \* names the factory may point
           creator: [Labels -> Wallets \union {None}],  \* None: no organisation yet
           sub: [Labels -> Labels \union {None}],       \* whose registry a name points at
           res: [Labels -> Labels \union {None}],       \* and whose resolver
           branch: [Registrars -> Wallets \union {None}],  \* owner, None: not open
           roles: [Registrars -> SUBSET Groups]]

Genesis(owner) ==
  [owner |-> owner, delegated |-> {},
   creator |-> [l \in Labels |-> None], sub |-> [l \in Labels |-> None],
   res |-> [l \in Labels |-> None], branch |-> [r \in Registrars |-> None],
   roles |-> [r \in Registrars |-> {}]]

\* A call to a contract: the label it is about (for a pointer, also whose
\* contracts to point at), or the registrar and the group.
Call(op, label, arg) == [op |-> op, label |-> label, arg |-> arg]

\* The contract's own check: anything else reverts.
Permits(ch, c, by) ==
  CASE c.op \in {"grant", "revoke", "setSub", "setRes"} -> ch.owner[c.label] = by
    [] c.op = "create" -> ch.creator[c.label] = None /\ ch.owner[c.label] = by
    [] c.op = "branch" -> ch.creator[c.label] = by /\ ch.branch[<<c.label, c.arg>>] = None
    [] c.op = "define" -> ch.branch[c.label] = by

\* _pointName: silent when the owner has not delegated the pointing.
Created(ch, l, by) ==
  LET new == [ch EXCEPT !.creator[l] = by]
  IN  IF l \in ch.delegated THEN [new EXCEPT !.sub[l] = l, !.res[l] = l] ELSE new

Executed(ch, c, by) ==
  CASE c.op = "grant" -> [ch EXCEPT !.delegated = @ \union {c.label}]
    [] c.op = "revoke" -> [ch EXCEPT !.delegated = @ \ {c.label}]
    [] c.op = "create" -> Created(ch, c.label, by)
    [] c.op = "setSub" -> [ch EXCEPT !.sub[c.label] = c.arg]
    [] c.op = "setRes" -> [ch EXCEPT !.res[c.label] = c.arg]
    [] c.op = "branch" -> [ch EXCEPT !.branch[<<c.label, c.arg>>] = by]
    [] c.op = "define" -> [ch EXCEPT !.roles[c.label] = @ \union {c.arg}]

\* One call on top of those before it in the batch.
After(by, acc, c) ==
  [chain |-> Executed(acc.chain, c, by), ok |-> acc.ok /\ Permits(acc.chain, c, by)]

\* What the calls come to, one after the other.
Trace(ch, calls, by) ==
  LET acc[n \in 0..Len(calls)] == IF n = 0 THEN [chain |-> ch, ok |-> TRUE]
                                  ELSE After(by, acc[n - 1], calls[n])
  IN  acc

\* The transaction of the calls: [chain, ok], the old chain when it reverts.
Transact(ch, calls, by) ==
  LET end == Trace(ch, calls, by)[Len(calls)]
  IN  IF end.ok THEN end ELSE [chain |-> ch, ok |-> FALSE]
=============================================================================
