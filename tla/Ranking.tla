------------------------------- MODULE Ranking -------------------------------
(***************************************************************************)
(* What a judgment is and how candidates are ordered by them, as pure      *)
(* definitions: pipeline/judge.py and pipeline/ranking.py.                 *)
(*                                                                         *)
(* A spec (RequirementSpec) is a record [id, question, must, weight]: the  *)
(* question is the kind, label and detail, all the model is shown.  A raw  *)
(* answer is a set of <<number, quote>>, where a quote is "located" or     *)
(* "absent" in the document.                                               *)
(***************************************************************************)
EXTENDS Naturals, FiniteSets, Sequences, SequencesExt, FiniteSetsExt

\* Mutant of Fingerprint: it covers the weights.
FingerprintOfWeights(specs) == [i \in DOMAIN specs |-> 10 * specs[i].question + specs[i].weight]

\* requirements_fingerprint, whose SHA-256 is taken to be injective.
Fingerprint(specs) == [i \in DOMAIN specs |-> specs[i].question]

-----------------------------------------------------------------------------
(* judge.py: one attempt verified, and the better of two kept.             *)

\* _group_by_requirement: numbers nobody asked for are refused.
Known(raw, specs) == {m \in raw : m[1] \in DOMAIN specs}

\* EvidenceRecorder.dropped: what could not be attributed or located.
Dropped(raw, specs) == raw \ {m \in Known(raw, specs) : m[2] = "located"}

\* verify: one judgment per requirement, in order; met exactly when a quote
\* for it was located.
Verify(raw, specs) ==
    [requirements |-> [i \in DOMAIN specs |->
                         [question |-> specs[i].question,
                          met |-> <<i, "located">> \in Known(raw, specs)]],
     dropped |-> Cardinality(Dropped(raw, specs))]

MetCount(judgment) ==
    Cardinality({i \in DOMAIN judgment.requirements : judgment.requirements[i].met})

\* _is_better.
IsBetter(candidate, incumbent) ==
    IF MetCount(candidate) # MetCount(incumbent)
    THEN MetCount(candidate) > MetCount(incumbent)
    ELSE candidate.dropped < incumbent.dropped

-----------------------------------------------------------------------------
(* ranking.py, for the specs and the prompt version as they are now.       *)

\* _exclusion_reason: the first that applies.
ExclusionReason(screening, specs, version) ==
    CASE screening.status # "completed" -> "not_completed"
      [] screening.status = "completed" /\
         (screening.hash # Fingerprint(specs) \/ screening.version # version) -> "stale"
      [] screening.status = "completed" /\
         screening.hash = Fingerprint(specs) /\ screening.version = version ->
           IF Len(screening.judgment) # Len(specs) THEN "malformed" ELSE "none"

Weight(specs, I) == MapThenSumSet(LAMBDA i : specs[i].weight, I)

\* round(met_weight / total_weight, 6), in millionths.
Score(met, total) == IF total = 0 THEN 0 ELSE (2000000 * met + total) \div (2 * total)

\* _score: the verdicts re-keyed onto the specs of now, by position.
Entry(id, judgment, specs) ==
    LET met == {i \in DOMAIN specs : judgment[i].met}
    IN  [id |-> id,
         gate |-> \A i \in DOMAIN specs : specs[i].must => i \in met,
         score |-> Score(Weight(specs, met), Weight(specs, DOMAIN specs)),
         met |-> Cardinality(met)]

\* Mutant of Before: no id at the end of the key.
BeforeByScore(a, b) ==
    \/ a.gate /\ ~b.gate
    \/ a.gate = b.gate /\ a.score > b.score
    \/ a.gate = b.gate /\ a.score = b.score /\ a.met > b.met

\* The sort key.
Before(a, b) ==
    \/ a.gate /\ ~b.gate
    \/ a.gate = b.gate /\ a.score > b.score
    \/ a.gate = b.gate /\ a.score = b.score /\ a.met > b.met
    \/ a.gate = b.gate /\ a.score = b.score /\ a.met = b.met /\ a.id < b.id

\* rank_screenings sorts and enumerates: an entry's rank is one more than those
\* before it, because the sort key ends in the id and so leaves no ties.
Rank(entry, entries) == 1 + Cardinality({o \in entries : Before(o, entry)})
=============================================================================
