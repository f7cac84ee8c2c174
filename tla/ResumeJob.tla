------------------------------ MODULE ResumeJob ------------------------------
(***************************************************************************)
(* The life of one resume row: api/app/jobs.py (run_resume_job, its claim, *)
(* its failure bookkeeping and the reaper), resume_service.process_resume  *)
(* and the requests of api/app/api/routes/resumes.py that write the row.   *)
(*                                                                         *)
(* A job run and a request are coroutines with a database session each.    *)
(* Neither holds a lock while it works: a session keeps the copy it read   *)
(* (expire_on_commit is off), changes the copy, and at the flush writes    *)
(* the columns it changed, and only those.  What the interleavings of such *)
(* copies can do to the row is what this module is about.                  *)
(*                                                                         *)
(* Nothing here says which run is started when: a dispatch may arrive for  *)
(* the row at any time, any number of times: the inline queue, where each  *)
(* request runs its own dispatch, is one such schedule.  ArqQueue and      *)
(* DatabaseQueue extend this module with what those two deliver.           *)
(***************************************************************************)
EXTENDS RetryPolicy

CONSTANTS
    Workers,        \* job runs that can be in progress at the same time
    Retriers,       \* concurrent POST /resumes/{id}/retry requests
    Uploaders,      \* concurrent uploads of the bytes the row already holds
    Reaper,         \* the sweep, reclaim_stalled
    SlowWorkers,    \* whether a live run may outlast the visibility timeout
    RetryRaces,     \* whether the row may change between a retry's read and write
    MaxClaims       \* bound of the model on the counter row.attempts

Handlers == Retriers \cup Uploaders \cup {Reaper}

ASSUME ConstantsAssumption ==
    /\ SlowWorkers \in BOOLEAN
    /\ RetryRaces \in BOOLEAN
    /\ MaxClaims \in Nat
    /\ Reaper \notin Workers \cup Retriers \cup Uploaders
    /\ Retriers \cap Uploaders = {}

VARIABLES
    row,        \* the resumes row
    profile,    \* whether extracted_profiles holds a row for it (unique)
    run,        \* run[w]: a job run, its place in the code and its copy
    handler     \* handler[h]: the same for a request, or for the sweep

vars == <<row, profile, run, handler>>

-----------------------------------------------------------------------------
\* The row, and a session's copy of it

\* "deleted" is no row at all.  ResumeStatus also has "parsed", which
\* process_resume sets on its copy and no transaction ever commits.
Statuses ==
    {"pending", "processing", "extracted", "failed", "dead_lettered", "deleted"}

\* `stale`: last_attempt_at is older than job_visibility_timeout_seconds.
\* `text`: document_text is there.
Rows == [status: Statuses, failed: Nat, attempts: Nat,
         stale: BOOLEAN, text: BOOLEAN]

NoCopy == [status |-> "deleted", failed |-> 0, attempts |-> 0,
           stale |-> FALSE, text |-> FALSE]

RowExists == row.status # "deleted"

\* The flush of a session whose copy was `old` when read and is `new` now:
\* a column goes into the UPDATE only if its value in the copy changed.
Column(old, new, stored) == IF new # old THEN new ELSE stored

Flushed(old, new) ==
    [row EXCEPT !.status = Column(old.status, new.status, @),
                !.failed = Column(old.failed, new.failed, @),
                !.text   = Column(old.text, new.text, @)]

\* _record_failure, on a copy.
WithFailure(copy, error) ==
    [copy EXCEPT !.failed = @ + 1, !.status = StatusAfter(error, copy.failed + 1)]

-----------------------------------------------------------------------------
\* Runs.  "claimed": the bytes are being fetched and parsed; "parsed": the
\* model is being asked; "broken": the session was rolled back and the row
\* must be read again; "recording": it was, and the failure is not yet
\* committed; "retry" and "done": the JobOutcome is on its way to the queue.
RunStates == {"idle", "claimed", "parsed", "broken", "recording", "retry", "done"}

Working == {"claimed", "parsed", "broken", "recording"}

Idle == [pc |-> "idle", copy |-> NoCopy]

WorkingRuns == {w \in Workers : run[w].pc \in Working}

\* Mutant of Outcome: the verdict handed to the queue as it is.
OutcomeIsVerdict(error, failed) == Verdict(error, failed)

Outcome(error, failed) == IF Verdict(error, failed) = "retry" THEN "retry" ELSE "done"

Returns(w, outcome) == run' = [run EXCEPT ![w] = [pc |-> outcome, copy |-> NoCopy]]

HandlerStates == {"idle", "retrying", "enqueueing"}

-----------------------------------------------------------------------------
TypeOK ==
    /\ row \in Rows
    /\ profile \in BOOLEAN
    /\ run \in [Workers -> [pc: RunStates, copy: Rows]]
    /\ handler \in [Handlers -> [pc: HandlerStates, copy: Rows]]

\* ingest_resume has committed the row; its dispatch is still owed, which
\* is to say that a dispatch may or may not arrive.
NewRow == [status |-> "pending", failed |-> 0, attempts |-> 0,
           stale |-> FALSE, text |-> FALSE]

Init ==
    /\ row = NewRow
    /\ profile = FALSE
    /\ run = [w \in Workers |-> Idle]
    /\ handler = [h \in Handlers |-> Idle]

-----------------------------------------------------------------------------
\* run_resume_job

\* Mutants of NotOursToRun: each of its members left out.
ClaimsProcessing == {"extracted"}
ClaimsExtracted  == {"processing"}

\* Statuses a job will not touch.
NotOursToRun == {"extracted", "processing"}

Claimable == RowExists /\ row.status \notin NotOursToRun

\* _claim: read under FOR UPDATE, test, write and commit, so one step.
\* last_attempt_at becomes now.
TakeRow(w) ==
    /\ run[w].pc = "idle"
    /\ Claimable
    /\ row.attempts < MaxClaims
    /\ row' = [row EXCEPT !.status = "processing", !.attempts = @ + 1, !.stale = FALSE]
    /\ run' = [run EXCEPT ![w] = [pc |-> "claimed", copy |-> row']]
    /\ UNCHANGED profile

Claim(w) == TakeRow(w) /\ UNCHANGED handler

\* The bytes parse: text and page data are on the copy, nothing is written.
\* There is no branch for a row whose text an earlier attempt stored.
Parse(w) ==
    /\ run[w].pc = "claimed"
    /\ run' = [run EXCEPT ![w].pc = "parsed"]
    /\ UNCHANGED <<row, profile, handler>>

\* ParseError: process_resume marks the copy and returns normally, so the
\* job clears the budget and commits.
ParseFails(w) ==
    /\ run[w].pc = "claimed"
    /\ RowExists
    /\ row' = Flushed(run[w].copy,
                      [run[w].copy EXCEPT !.status = "failed", !.failed = 0])
    /\ Returns(w, "done")
    /\ UNCHANGED <<profile, handler>>

\* Mutant of Finish: the profile was added to no session.
FinishWithoutProfile(w) ==
    /\ run[w].pc = "parsed"
    /\ RowExists
    /\ row' = Flushed(run[w].copy,
                      [run[w].copy EXCEPT !.status = "extracted", !.failed = 0,
                                          !.text = TRUE])
    /\ Returns(w, "done")
    /\ UNCHANGED <<profile, handler>>

\* The success commit: profile and row land together.
Finish(w) ==
    /\ run[w].pc = "parsed"
    /\ RowExists
    /\ ~profile
    /\ profile' = TRUE
    /\ row' = Flushed(run[w].copy,
                      [run[w].copy EXCEPT !.status = "extracted", !.failed = 0,
                                          !.text = TRUE])
    /\ Returns(w, "done")
    /\ UNCHANGED handler

\* A storage, OCR or model failure: recorded on the session in use, so the
\* copy is the one the claim made and the parsed text commits with it.
FailureOf(pc) ==
    IF pc = "claimed" THEN {"object_not_found", "ocr", "ocr_unavailable"}
                      ELSE {"llm", "llm_config"}

Fail(w, error) ==
    /\ run[w].pc \in {"claimed", "parsed"}
    /\ error \in FailureOf(run[w].pc)
    /\ RowExists
    /\ LET copy == run[w].copy
           kept == [copy EXCEPT !.text = @ \/ run[w].pc = "parsed"]
       IN  /\ row' = Flushed(copy, WithFailure(kept, error))
           /\ Returns(w, Outcome(error, copy.failed + 1))
    /\ UNCHANGED <<profile, handler>>

\* Any other exception, the database's own among them: a commit that fails,
\* a profile that is already there, an UPDATE of a row that is gone.
\* Everything the run had recorded is rolled back.
Break(w) ==
    /\ run[w].pc \in {"claimed", "parsed"}
    /\ run' = [run EXCEPT ![w].pc = "broken"]
    /\ UNCHANGED <<row, profile, handler>>

\* _record_failure_on_a_fresh_session: read again, without a lock ...
Reread(w) ==
    /\ run[w].pc = "broken"
    /\ IF RowExists
         THEN run' = [run EXCEPT ![w] = [pc |-> "recording", copy |-> row]]
         ELSE Returns(w, "done")
    /\ UNCHANGED <<row, profile, handler>>

\* ... and record the failure on what was read.
RecordBreak(w) ==
    /\ run[w].pc = "recording"
    /\ RowExists
    /\ LET copy == run[w].copy
       IN  /\ row' = Flushed(copy, WithFailure(copy, "unexpected"))
           /\ Returns(w, Outcome("unexpected", copy.failed + 1))
    /\ UNCHANGED <<profile, handler>>

\* The row went away under a failure's commit: StaleDataError leaves the job.
Escape(w) ==
    /\ run[w].pc \in {"claimed", "parsed", "recording"}
    /\ ~RowExists
    /\ Returns(w, "done")
    /\ UNCHANGED <<row, profile, handler>>

\* The queue's adapter takes the JobOutcome.
Return(w) ==
    /\ run[w].pc \in {"retry", "done"}
    /\ run' = [run EXCEPT ![w] = Idle]
    /\ UNCHANGED <<row, profile, handler>>

\* The process dies, or arq cancels the job at its own timeout: the
\* CancelledError passes every `except Exception` above.
Crash(w) ==
    /\ run[w].pc # "idle"
    /\ run' = [run EXCEPT ![w] = Idle]
    /\ UNCHANGED <<row, profile, handler>>

-----------------------------------------------------------------------------
\* Time.  A claim is held while the run that made it still works, and with
\* SlowWorkers FALSE a held claim is never older than the timeout.
Held == \E w \in WorkingRuns : run[w].copy.attempts = row.attempts

TimeoutPasses ==
    /\ row.status = "processing"
    /\ ~row.stale
    /\ SlowWorkers \/ ~Held
    /\ row' = [row EXCEPT !.stale = TRUE]
    /\ UNCHANGED <<profile, run, handler>>

IsStalled(r) == r.status = "processing" /\ r.stale

\* Mutants of Reclaim: a sweep that only puts the row back, and one that
\* dispatches it under the id the vanished run was dispatched under.
ReclaimWithoutStrike ==
    /\ handler[Reaper].pc = "idle"
    /\ IsStalled(row)
    /\ row' = [row EXCEPT !.status = "pending"]
    /\ handler' = [handler EXCEPT ![Reaper] = [pc |-> "enqueueing", copy |-> row']]
    /\ UNCHANGED <<profile, run>>

ReclaimUnderOldId ==
    /\ handler[Reaper].pc = "idle"
    /\ IsStalled(row)
    /\ row' = WithFailure(row, "worker_vanished")
    /\ handler' = [handler EXCEPT ![Reaper] =
                     IF row'.status = "pending"
                       THEN [pc |-> "enqueueing",
                             copy |-> [row' EXCEPT !.attempts = @ - 1]] ELSE Idle]
    /\ UNCHANGED <<profile, run>>

\* find_stalled lists the row, reclaim_resume tests it again under the lock
\* and commits the failure; what is listed and no longer stalled is left.
Reclaim ==
    /\ handler[Reaper].pc = "idle"
    /\ IsStalled(row)
    /\ row' = WithFailure(row, "worker_vanished")
    /\ handler' = [handler EXCEPT ![Reaper] =
                     IF row'.status = "pending"
                       THEN [pc |-> "enqueueing", copy |-> row'] ELSE Idle]
    /\ UNCHANGED <<profile, run>>

-----------------------------------------------------------------------------
\* Requests

RetryableStatuses == {"dead_lettered", "failed"}

\* Mutant of CanRetry: any processing row may be retried, stalled or not.
CanRetryProcessing(r) == r.status \in RetryableStatuses \cup {"processing"}

CanRetry(r) == r.status \in RetryableStatuses \/ IsStalled(r)

\* retry_resume reads the row without a lock and asks can_retry of the copy.
\* Bound of the model: nobody retries once a whole budget no longer fits.
RetryRead(h) ==
    /\ h \in Retriers
    /\ handler[h].pc = "idle"
    /\ RowExists
    /\ CanRetry(row)
    /\ row.attempts + MaxAttempts <= MaxClaims
    /\ handler' = [handler EXCEPT ![h] = [pc |-> "retrying", copy |-> row]]
    /\ UNCHANGED <<row, profile, run>>

\* Mutant of RetryCommit: the row is put back and nothing is dispatched.
RetryWithoutDispatch(h) ==
    /\ handler[h].pc = "retrying"
    /\ RowExists
    /\ row' = [row EXCEPT !.status = "pending", !.failed = 0]
    /\ handler' = [handler EXCEPT ![h] = Idle]
    /\ UNCHANGED <<profile, run>>

\* requeue: the copy goes back to pending with its budget cleared.
RetryCommit(h) ==
    /\ handler[h].pc = "retrying"
    /\ RowExists
    /\ RetryRaces \/ row = handler[h].copy
    /\ LET copy == handler[h].copy
           new  == [copy EXCEPT !.status = "pending", !.failed = 0]
       IN  /\ row' = Flushed(copy, new)
           /\ handler' = [handler EXCEPT ![h] = [pc |-> "enqueueing", copy |-> new]]
    /\ UNCHANGED <<profile, run>>

\* ingest_resume finds the row by its content; _requeue_if_stalled.
Reupload(h) ==
    /\ h \in Uploaders
    /\ handler[h].pc = "idle"
    /\ row.status = "pending"
    /\ handler' = [handler EXCEPT ![h] = [pc |-> "enqueueing", copy |-> row]]
    /\ UNCHANGED <<row, profile, run>>

\* The dispatch a request or the sweep owes for what it committed.
Enqueue(h) ==
    /\ handler[h].pc = "enqueueing"
    /\ handler' = [handler EXCEPT ![h] = Idle]
    /\ UNCHANGED <<row, profile, run>>

\* The process dies, or the commit fails: what is owed is forgotten.
HandlerDies(h) ==
    /\ handler[h].pc # "idle"
    /\ handler' = [handler EXCEPT ![h] = Idle]
    /\ UNCHANGED <<row, profile, run>>

\* delete_account removes the row, and its profile by cascade.
Delete ==
    /\ RowExists
    /\ row' = NoCopy
    /\ profile' = FALSE
    /\ UNCHANGED <<run, handler>>

-----------------------------------------------------------------------------
RunStep(w) ==
    \/ Claim(w)
    \/ Parse(w)
    \/ ParseFails(w)
    \/ Finish(w)
    \/ \E error \in Errors : Fail(w, error)
    \/ Break(w)
    \/ Reread(w)
    \/ RecordBreak(w)
    \/ Escape(w)
    \/ Return(w)
    \/ Crash(w)

HandlerStep(h) ==
    \/ RetryRead(h)
    \/ RetryCommit(h)
    \/ Reupload(h)
    \/ Enqueue(h)
    \/ HandlerDies(h)

Next ==
    \/ \E w \in Workers : RunStep(w)
    \/ \E h \in Handlers : HandlerStep(h)
    \/ TimeoutPasses
    \/ Reclaim
    \/ Delete

Spec == Init /\ [][Next]_vars

-----------------------------------------------------------------------------
\* The abstract item this row implements while timing is kept

NoRun == Reaper

PhaseOf(status) ==
    CASE status = "pending"                    -> "waiting"
      [] status = "processing"                 -> "held"
      [] status = "extracted"                  -> "done"
      [] status \in {"failed", "dead_lettered"} -> "stopped"
      [] status = "deleted"                    -> "gone"

\* At most one run works while timing is kept, so the choice is its name.
HolderOf(status, working) ==
    IF status = "processing" /\ working # {} THEN CHOOSE w \in working : TRUE ELSE NoRun

Phase == PhaseOf(row.status)

Holder == HolderOf(row.status, WorkingRuns)

Item == INSTANCE WorkItem WITH Runs <- Workers, phase <- Phase,
                               strikes <- row.failed, holder <- Holder

-----------------------------------------------------------------------------
\* Properties

\* A second delivery of a resume never runs alongside the first: the status
\* test in _claim, under its lock, lets one run work at a time.
AtMostOneRun == \A v, w \in WorkingRuns : v = w

\* A row that says `extracted` has the profile and the text the citations
\* index into, however many runs, retries and sweeps overlapped.
ExtractedIsBacked == row.status = "extracted" => profile /\ row.text

\* Once a profile is stored the row says so: no late failure, sweep or retry
\* sends a finished resume back to be processed, and billed, again.
ProfileIsKept == profile => row.status = "extracted"

\* What makes the two above inductive while timing is kept.  A run that still
\* works holds the row: nobody has written it since the claim, so its copy is
\* current.  A request that is about to retry read a row worth retrying.
CopyIsCurrent(w) ==
    /\ row.status = "processing"
    /\ ~row.stale
    /\ run[w].copy.status = "processing"
    /\ run[w].copy.attempts = row.attempts
    /\ run[w].copy.failed = row.failed

TimelyInv ==
    /\ \A w \in WorkingRuns : RowExists => CopyIsCurrent(w)
    /\ \A h \in Handlers : handler[h].pc = "retrying"
                           => h \in Retriers /\ CanRetry(handler[h].copy)
    /\ AtMostOneRun
    /\ ProfileIsKept

\* What makes ExtractedIsBacked inductive whatever the timing: a copy that
\* has the text is of a row that has it, so a flush that leaves the unchanged
\* column out loses nothing.
BackedInv ==
    /\ ExtractedIsBacked
    /\ \A w \in Workers : RowExists /\ run[w].copy.text => row.text

\* Every claim that is given up on costs exactly one of the strikes the
\* retry policy counts, whoever gives up on it: the run, or the sweep.
GivingUpCostsOne ==
    [][(/\ row.status = "processing"
        /\ row'.status \in {"pending", "dead_lettered"}
        /\ \A h \in Retriers : ~RetryCommit(h)) => row'.failed = row.failed + 1]_vars

\* The row is a work item: jobs.py keeps what WorkItem promises.
ImplementsWorkItem == Item!ItemSpec

\* Replaying a dead letter is a decision, POST /resumes/{id}/retry, and no
\* side effect of a delivery or of uploading the same file again.  NotOursToRun
\* lets dead letters through, so the code keeps this only where no dispatch is
\* left over and no two consumers have read the row.
DeadLetterNeedsDecision ==
    [][row.status = "dead_lettered" =>
         \/ row'.status \in {"dead_lettered", "deleted"}
         \/ \E h \in Retriers : RetryCommit(h)]_vars
=============================================================================
