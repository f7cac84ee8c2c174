---------------------------- MODULE MCScreeningJob ----------------------------
EXTENDS ScreeningJob, FiniteSets, TLC

Symmetric ==
    Permutations(Workers) \cup Permutations(Askers) \cup Permutations(Deciders)
      \cup Permutations(Postings)
=============================================================================
