------------------------------ MODULE MCArqQueue ------------------------------
(* ArqQueue for TLC: two job slots, one retrier, up to one uploader.       *)
EXTENDS ArqQueue, TLC

Symmetry == Permutations(Workers)
=============================================================================
