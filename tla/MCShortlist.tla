----------------------------- MODULE MCShortlist -----------------------------
(* Shortlist for TLC: a requirement is a nice-to-have or a must-have. *)
EXTENDS Shortlist, TLC

TwoStakes == {[must |-> FALSE, weight |-> 1], [must |-> TRUE, weight |-> 2]}
EditorSymmetry == Permutations(Editors)
=============================================================================
