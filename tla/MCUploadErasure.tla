--------------------------- MODULE MCUploadErasure ---------------------------
(* UploadErasure for TLC: two documents, two uploads at once. *)
EXTENDS UploadErasure, TLC

Pairs == {{"names", "erasure"}, {"twins", "doubt"}}
UploadSymmetry == Permutations(Uploads) \cup Permutations(Contents)
=============================================================================
