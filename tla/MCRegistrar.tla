---------------------------- MODULE MCRegistrar -----------------------------
(* TLC instance of Registrar: staff holds every verb, the guest
   has what a membership confers.  The labels are interchangeable. *)
EXTENDS Registrar, TLC

CONSTANTS staff, guest, l1, l2, k1, k2, r1

MCAccounts == {staff, guest}
MCLabels == {l1, l2}
MCKeys == {k1, k2}
MCRoles == {r1}
MCRoot == [a \in MCAccounts |-> IF a = staff THEN Verbs ELSE {}]

Role(onboards, open, entitled, editable) ==
  [onboards |-> onboards, open |-> open, entitled |-> entitled, editable |-> editable]
MCDefinitions == {Role(TRUE, TRUE, {k1}, {k2}), Role(FALSE, TRUE, {}, {k1})}

MCSymmetry == Permutations(MCLabels)
=============================================================================
