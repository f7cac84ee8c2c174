------------------------------ MODULE Shortlist ------------------------------
(***************************************************************************)
(* A posting whose requirements are edited while candidates are judged by  *)
(* them and ranked: the requirement routes of routes/jobs.py,              *)
(* process_screening and _record_result of screening_service, and          *)
(* GET /jobs/{id}/ranking.  An edit reads the rows in one await and writes *)
(* in another; a judging reads them and records its result much later.     *)
(* ScreeningJob models the screening's status and its runs; here a run     *)
(* only asks the model and records what it kept.                           *)
(***************************************************************************)
EXTENDS Ranking

CONSTANTS
    Questions,          \* numbers of the questions a requirement may ask
    Stakes,             \* [must, weight] a requirement may have
    Screenings,         \* numbers of the screenings: one per resume
    Editors,            \* requests on the requirements that may overlap
    MaxRequirements,    \* MAX_REQUIREMENTS_PER_JOB
    MaxRows,            \* a bound: requirement rows ever inserted
    MaxEdits,           \* a bound: edits that change something
    MaxAttempts,        \* settings.judgment_max_attempts
    MaxVersion,         \* a bound: versions of the judging prompt
    MaxJudgings         \* a bound: judgings ever started, one at a time

ASSUME ShortlistAssumption ==
    /\ {1, 2} \subseteq Questions /\ Questions \subseteq Nat /\ Screenings \subseteq Nat
    /\ IsFiniteSet(Screenings) /\ Stakes \subseteq [must: BOOLEAN, weight: Nat \ {0}]
    /\ MaxRequirements \in Nat /\ MaxRows \in Nat \ {0, 1} /\ MaxEdits \in Nat
    /\ MaxAttempts \in Nat \ {0} /\ MaxVersion \in Nat /\ MaxJudgings \in Nat

VARIABLES
    rows,       \* rows[id]: job_requirements, numbered in order of created_at
    inserted,   \* rows inserted so far
    edits,      \* edits committed so far
    judgings,   \* judgings started so far
    edit,       \* edit[e]: a request, and the rows as it read them
    version,    \* JUDGMENT_PROMPT_VERSION of the release that runs
    screening   \* screening[s]: the row, and the run that judges it

shortlistVars == <<rows, inserted, edits, judgings, edit, version, screening>>

Row == [position: Nat, question: Questions, must: BOOLEAN, weight: Nat \ {0}]

NoSpecs == <<>>
NoJudgment == [requirements |-> <<>>, dropped |-> 0]
Judging == {s \in Screenings : screening[s].status = "judging"}
Unscreened == [status |-> "pending", hash |-> <<>>, version |-> 0, judgment |-> <<>>,
               specs |-> NoSpecs, attempts |-> 0, best |-> NoJudgment]

\* By position, and by created_at where two share one.
Earlier(table, a, b) ==
    \/ table[a].position < table[b].position
    \/ table[a].position = table[b].position /\ a < b

\* requirement_specs.
RequirementSpecs(table) ==
    LET before(id) == {other \in DOMAIN table : Earlier(table, other, id)}
        at(i) == CHOOSE id \in DOMAIN table : 1 + Cardinality(before(id)) = i
    IN  [i \in 1 .. Cardinality(DOMAIN table) |->
            [id |-> at(i), question |-> table[at(i)].question,
             must |-> table[at(i)].must, weight |-> table[at(i)].weight]]

Specs == [id: Nat, question: Questions, must: BOOLEAN, weight: Nat \ {0}]
Verdicts == [question: Questions, met: BOOLEAN]
ScreeningRows ==
    [status: {"pending", "judging", "completed"}, hash: Seq(Questions), version: Nat,
     judgment: Seq(Verdicts), specs: Seq(Specs), attempts: 0 .. MaxAttempts,
     best: [requirements: Seq(Verdicts), dropped: Nat]]

\* The requirements a table may hold, numbered from the first inserted.
IsTable(table) == DOMAIN table \subseteq 1 .. inserted /\ table \in [DOMAIN table -> Row]

ShortlistTypeOK ==
    /\ IsTable(rows)
    /\ edits \in 0 .. MaxEdits /\ judgings \in 0 .. MaxJudgings /\ inserted \in 2 .. MaxRows
    /\ edit = [e \in Editors |-> [on |-> edit[e].on, read |-> edit[e].read]]
    /\ \A e \in Editors : edit[e].on \in BOOLEAN /\ IsTable(edit[e].read)
    /\ version \in Nat
    /\ screening \in [Screenings -> ScreeningRows]

NoEdit == [on |-> FALSE, read |-> <<>>]

\* create_job, with two requirements of the default stake.
ShortlistInit ==
    /\ rows = [i \in 1 .. 2 |-> [position |-> i - 1, question |-> i,
                                 must |-> FALSE, weight |-> 1]]
    /\ inserted = 2
    /\ edits = 0 /\ judgings = 0
    /\ edit = [e \in Editors |-> NoEdit]
    /\ version = 1
    /\ screening = [s \in Screenings |-> Unscreened]

-----------------------------------------------------------------------------
(* Edits.                                                                  *)

\* _owned_job loads the rows.  What the request asks for shows when it commits.
Load(e) ==
    /\ ~edit[e].on /\ edits < MaxEdits
    /\ edit' = [edit EXCEPT ![e] = [on |-> TRUE, read |-> rows]]
    /\ UNCHANGED <<rows, inserted, edits, judgings, version, screening>>

Committed(e) ==
    /\ edit[e].on
    /\ edit' = [edit EXCEPT ![e] = NoEdit]
    /\ edits < MaxEdits /\ edits' = IF rows' = rows THEN edits ELSE edits + 1
    /\ UNCHANGED <<version, judgings, screening>>

Full(table) == Cardinality(DOMAIN table) >= MaxRequirements

\* add_requirement: last in the order, by the rows it has read.  Two that
\* overlap take one position, and may pass the cap, which both had counted.
Add(e, q, k) ==
    LET position == Max({edit[e].read[i].position + 1 : i \in DOMAIN edit[e].read} \cup {0})
        row == [position |-> position, question |-> q, must |-> k.must, weight |-> k.weight]
    IN  /\ ~Full(edit[e].read) /\ inserted < MaxRows
        /\ inserted' = inserted + 1
        /\ rows' = [i \in DOMAIN rows \cup {inserted + 1} |->
                      IF i = inserted + 1 THEN row ELSE rows[i]]
        /\ Committed(e)

\* 409 for a full posting, 404 for a row that is not among those read.
Refuse(e) == UNCHANGED <<rows, inserted>> /\ Committed(e)

\* update_requirement: a field is written when it differs from what was read.
\* A row that has gone in the meantime fails the request.
Patch(e, id, change) ==
    LET Written(f) == f \in DOMAIN change /\ change[f] # edit[e].read[id][f]
    IN  /\ id \in DOMAIN edit[e].read \cap DOMAIN rows
        /\ rows' = [rows EXCEPT ![id] =
                      [f \in DOMAIN rows[id] |-> IF Written(f) THEN change[f] ELSE rows[id][f]]]
        /\ UNCHANGED inserted
        /\ Committed(e)

\* One field of a patch at a time.
Patches == [question: Questions] \cup [position: 0 .. 1] \cup Stakes

Delete(e, id) ==
    /\ id \in DOMAIN edit[e].read
    /\ rows' = [i \in DOMAIN rows \ {id} |-> rows[i]]
    /\ UNCHANGED inserted
    /\ Committed(e)

-----------------------------------------------------------------------------
(* Judging.                                                                *)

\* A run takes the requirements as they are; a completed screening is judged
\* again only when it is stale (request_screening).
StartJudging(s) ==
    /\ \/ screening[s].status = "pending"
       \/ ExclusionReason(screening[s], RequirementSpecs(rows), version) = "stale"
    /\ Judging = {} /\ judgings < MaxJudgings /\ judgings' = judgings + 1
    /\ screening' = [screening EXCEPT
         ![s].status = "judging", ![s].specs = RequirementSpecs(rows),
         ![s].attempts = 0, ![s].best = NoJudgment]
    /\ UNCHANGED <<rows, inserted, edits, edit, version>>

\* What the model may answer: true quotes for some requirements, and one that
\* is not there or stands under a number nobody asked for.
RawJudgments(n) ==
    {good \cup bad : good \in SUBSET ((1 .. n) \X {"located"}),
                     bad \in {{}, {<<n, "absent">>}, {<<n + 1, "located">>}}}

\* judge_requirements stops at an attempt that nothing was dropped from.
Done(s) ==
    \/ screening[s].specs = <<>>
    \/ screening[s].attempts = MaxAttempts
    \/ screening[s].attempts > 0 /\ screening[s].best.dropped = 0

\* One attempt: the first one is kept, a later one if it is better.
Attempt(s) ==
    /\ screening[s].status = "judging" /\ ~Done(s)
    /\ \E raw \in RawJudgments(Len(screening[s].specs)) :
         LET candidate == Verify(raw, screening[s].specs)
             better == screening[s].attempts = 0 \/ IsBetter(candidate, screening[s].best)
         IN  screening' = [screening EXCEPT
               ![s].attempts = IF candidate.dropped = 0 THEN MaxAttempts ELSE @ + 1,
               ![s].best = IF better THEN candidate ELSE @]
    /\ UNCHANGED <<rows, inserted, edits, judgings, edit, version>>

\* Mutant of Record: the fingerprint is of the posting as it is by then.
RecordOfNow(s) ==
    /\ screening[s].status = "judging" /\ Done(s)
    /\ screening' = [screening EXCEPT ![s] = [Unscreened EXCEPT
         !.status = "completed", !.hash = Fingerprint(RequirementSpecs(rows)), !.version = version,
         !.judgment = screening[s].best.requirements]]
    /\ UNCHANGED <<rows, inserted, edits, judgings, edit, version>>

\* _record_result: the fingerprint is of what the model was asked.
Record(s) ==
    /\ screening[s].status = "judging" /\ Done(s)
    /\ screening' = [screening EXCEPT ![s] = [Unscreened EXCEPT
         !.status = "completed", !.hash = Fingerprint(screening[s].specs), !.version = version,
         !.judgment = screening[s].best.requirements]]
    /\ UNCHANGED <<rows, inserted, edits, judgings, edit, version>>

\* A release with another prompt replaces the one that runs.
Release ==
    /\ version < MaxVersion
    /\ Judging = {}
    /\ version' = version + 1
    /\ UNCHANGED <<rows, inserted, edits, judgings, edit, screening>>

-----------------------------------------------------------------------------
EditStep(e) ==
    \/ Load(e) \/ Refuse(e)
    \/ \E q \in Questions, k \in Stakes : Add(e, q, k)
    \/ \E id \in DOMAIN edit[e].read :
         Delete(e, id) \/ \E change \in Patches : Patch(e, id, change)

ShortlistNext ==
    \/ \E e \in Editors : EditStep(e)
    \/ \E s \in Screenings : StartJudging(s) \/ Attempt(s) \/ Record(s)
    \/ Release

ShortlistSpec == ShortlistInit /\ [][ShortlistNext]_shortlistVars

-----------------------------------------------------------------------------
(* Properties.                                                             *)

Current(s, specs) == ExclusionReason(screening[s], specs, version) = "none"
Ranked(specs) == {s \in Screenings : Current(s, specs)}

\* "The join is by position": in what GET /ranking answers, the verdict beside
\* a requirement was given for that requirement, however the rows were edited,
\* reordered, deleted and typed back while the model was being asked.
RankedAnswersItsQuestion ==
    LET specs == RequirementSpecs(rows)
    IN  \A s \in Ranked(specs), i \in DOMAIN specs :
            screening[s].judgment[i].question = specs[i].question

\* "A list that reshuffles on refresh is unusable": the ranks of the ranked
\* screenings are 1, 2, ... with none shared.
RanksAreTotal ==
    LET specs == RequirementSpecs(rows)
        entries == {Entry(s, screening[s].judgment, specs) : s \in Ranked(specs)}
    IN  {Rank(entry, entries) : entry \in entries} = 1 .. Cardinality(entries)

\* Adjusting a weight is free: an edit of must_have or weight alone leaves
\* every current screening current, so that nobody is billed for it.
WeightOnly ==
    /\ rows' # rows /\ DOMAIN rows' = DOMAIN rows
    /\ \A i \in DOMAIN rows :
         rows[i].position = rows'[i].position /\ rows[i].question = rows'[i].question
WeightsAreFree ==
    [][WeightOnly => \A s \in Screenings :
                       Current(s, RequirementSpecs(rows)) => Current(s, RequirementSpecs(rows))']_shortlistVars
=============================================================================
