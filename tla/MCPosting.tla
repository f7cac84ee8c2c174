------------------------------ MODULE MCPosting ------------------------------
(* Posting for TLC: requests, applicants and documents are interchangeable. *)
EXTENDS Posting, TLC

PostingSymmetry == Permutations(Requests) \cup Permutations(Admins)
=============================================================================
