----------------------------- MODULE MCSettings -----------------------------
(* TLC instance of Settings. *)
EXTENDS Settings, TLC

\* Tabs, groups, and the caps of a grant, which the pages treat alike.
MCSymmetry ==
  {t @@ g @@ c : t \in Permutations(Tabs), g \in Permutations(Groups), c \in Permutations(Caps)}
=============================================================================
