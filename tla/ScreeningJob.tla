----------------------------- MODULE ScreeningJob -----------------------------
(***************************************************************************)
(* One resume screened against one posting, and the application that       *)
(* follows: the screening half of api/app/jobs.py, screening_service,      *)
(* application_service, and the requests that ask for a screening, replay  *)
(* one, apply, and move an application.                                    *)
(*                                                                         *)
(* Whoever changes the screening's status moves the application with it,   *)
(* in the same transaction (follow_screening).  The application is read at *)
(* one point (Follow), its log's next position at a second (ReadPosition), *)
(* and the transaction commits at a third (Commit); others may commit in   *)
(* between.  Only the unique position of an event guards the pair, and     *)
(* only from the second point on.                                          *)
(*                                                                         *)
(* As in ResumeJob, nothing says which run is started when: a dispatch may *)
(* arrive at any time, any number of times.                                *)
(***************************************************************************)
EXTENDS RetryPolicy, ApplicationRules

CONSTANTS
    Workers,        \* runs of run_screening_job
    Askers,         \* POST /jobs/{id}/screenings and POST /screenings/{id}/retry
    Deciders,       \* POST /applications/{id}/transitions
    Reaper,         \* the sweep, reclaim_screening
    Postings,       \* versions of the posting's requirements, by fingerprint
    NoPosting,      \* the fingerprint of a screening that has no result
    OwnResume,      \* whether the resume is the recruiter's own upload
    Races,          \* which of the windows in RaceKinds are open
    MaxClaims,      \* bound of the model on screening.attempts
    MaxEvents       \* bound of the model on the log's length

\* "log": the application may move between Follow and ReadPosition;
\* "request": the row may change between a request's read and its commit;
\* "slow": a live run may outlast the visibility timeout;
\* "stray": a dispatch may find the row in any state, not only pending.
RaceKinds == {"log", "request", "slow", "stray"}

Sessions == Workers \cup Askers \cup Deciders \cup {Reaper}

ASSUME ScreeningAssumption ==
    /\ Reaper \notin Workers \cup Askers \cup Deciders
    /\ Workers \cap Askers = {}
    /\ Workers \cap Deciders = {}
    /\ Askers \cap Deciders = {}
    /\ NoPosting \notin Postings
    /\ Postings # {}
    /\ OwnResume \in BOOLEAN
    /\ Races \subseteq RaceKinds
    /\ MaxClaims \in Nat
    /\ MaxEvents \in Nat

VARIABLES
    screening,      \* the screenings row
    application,    \* the applications row: a projection of the log
    log,            \* its application_events, by position
    posting,        \* the requirements the job has now
    session         \* session[s]: a database session, its place and its copy

vars == <<screening, application, log, posting, session>>

-----------------------------------------------------------------------------
\* The row, and a session's copy of it

Statuses == {"absent", "pending", "processing", "completed", "failed", "dead_lettered"}

\* `judged`: the fingerprint stored with the result; NoPosting: no result.
Rows == [status: Statuses, failed: Nat, attempts: Nat, stale: BOOLEAN,
         judged: Postings \cup {NoPosting}]

Absent == [status |-> "absent", failed |-> 0, attempts |-> 0, stale |-> FALSE,
           judged |-> NoPosting]

\* request_screening's INSERT.
NewRow == [Absent EXCEPT !.status = "pending"]

\* The flush: only the columns whose value changed in the copy are written.
Column(old, new, stored) == IF new # old THEN new ELSE stored

Flushed(old, new) ==
    IF old.status = "absent" THEN new
    ELSE [screening EXCEPT !.status = Column(old.status, new.status, @),
                           !.failed = Column(old.failed, new.failed, @),
                           !.judged = Column(old.judged, new.judged, @)]

\* _record_result, and run_screening_job clearing the budget.
WithResult(copy, version) ==
    [copy EXCEPT !.status = "completed", !.failed = 0, !.judged = version]

\* _record_screening_failure, up to the application it moves.
WithFailure(copy, error) ==
    [copy EXCEPT !.failed = @ + 1, !.status = StatusAfter(error, copy.failed + 1)]

\* request_screening putting a row back.
Requeued(copy) == [copy EXCEPT !.status = "pending", !.failed = 0]

-----------------------------------------------------------------------------
\* Sessions.  "judging": the model is being asked; "broken", "recording": the
\* failure goes through a fresh session; "creating", "asked": a request found
\* no screening, or one that needs running; "refinding": its INSERT went with
\* an IntegrityError; "moving": a request read the application; "planned": the
\* event's position is to be read; "placed": the transaction is ready to commit.
Places == {"idle", "judging", "broken", "recording", "creating", "refinding", "asked",
           "moving", "planned", "placed"}

\* old, new: the copy as read and as changed; seen, to: the application's
\* state as read and the move planned from it, "none" for no move;
\* position: the event's; version: the requirements as read with the job.
Idle == [pc |-> "idle", old |-> Absent, new |-> Absent, seen |-> "none",
         to |-> "none", position |-> 0, version |-> NoPosting]

SessionRecords ==
    [pc: Places, old: Rows, new: Rows, seen: States \cup {"none"},
     to: States \cup {"none"}, position: Nat, version: Postings \cup {NoPosting}]

Closes(s) == session' = [session EXCEPT ![s] = Idle]

\* A running transaction in which the sweep holds the row's lock.
LockedBy(s) == s = Reaper /\ session[s].pc # "idle"

Unlocked == ~LockedBy(Reaper)

\* A transaction has inserted the screening and not yet committed.
Inserting(s) == session[s].pc \in {"planned", "placed"}
                /\ session[s].old.status = "absent" /\ session[s].new.status # "absent"

-----------------------------------------------------------------------------
TypeOK ==
    /\ screening \in Rows
    /\ application \in States \cup {"none"}
    /\ log \in Seq(Events)
    /\ posting \in Postings
    /\ session \in [Sessions -> SessionRecords]

Init ==
    /\ screening = Absent
    /\ application = "none"
    /\ log = <<>>
    /\ posting \in Postings
    /\ session = [s \in Sessions |-> Idle]

-----------------------------------------------------------------------------
\* follow_screening and transition

\* Mutant of StateFor: what failed leaves the application where it is.
StateForLive(status) ==
    CASE status \in {"pending", "processing"}      -> "screening"
      [] status = "completed"                      -> "screened"
      [] status \in {"failed", "dead_lettered"}    -> "none"

\* _state_for: what a screening's status means for the application.
StateFor(status) ==
    CASE status \in {"pending", "processing"}      -> "screening"
      [] status = "completed"                      -> "screened"
      [] status \in {"failed", "dead_lettered"}    -> "applied"

\* The move follow_screening plans, for the application as it is now.
\* find_application answering None is application = "none".
FollowTo(status) ==
    IF application = "none" THEN "none"
    ELSE Plan(application, StateFor(status), "system", TRUE)

\* The session has changed its copy to `new`, and reads the application.
\* A refused move is not an error: the screening's own change goes ahead.
Follow(s, old, new) ==
    session' = [session EXCEPT ![s] =
        [@ EXCEPT !.pc = IF FollowTo(new.status) = "none" THEN "placed" ELSE "planned",
                  !.old = old, !.new = new,
                  !.seen = application, !.to = FollowTo(new.status)]]

\* _next_position.
ReadPosition(s) ==
    /\ session[s].pc = "planned"
    /\ "log" \in Races \/ application = session[s].seen
    /\ session' = [session EXCEPT ![s].pc = "placed", ![s].position = Len(log)]
    /\ UNCHANGED <<screening, application, log, posting>>

\* uq_application_events_application_position.
PositionFree(s) == session[s].to # "none" => session[s].position = Len(log)

\* Mutant of Commit: no unique position, the event goes to the log's end.
CommitAnywhere(s) ==
    /\ session[s].pc = "placed"
    /\ s \in Deciders \/ Unlocked \/ LockedBy(s)
    /\ "request" \in Races \/ s \notin Askers \/ screening = session[s].old
    /\ "log" \in Races \/ session[s].to # "none" \/ application = session[s].seen
    /\ screening' = IF s \in Deciders THEN screening
                                      ELSE Flushed(session[s].old, session[s].new)
    /\ IF session[s].to = "none"
         THEN UNCHANGED <<application, log>>
         ELSE /\ Len(log) < MaxEvents
              /\ log' = Append(log, Event(session[s].seen, session[s].to))
              /\ application' = session[s].to
    /\ Closes(s)
    /\ UNCHANGED posting

\* The one transaction: the event, the projection, and the screening's columns.
Commit(s) ==
    /\ session[s].pc = "placed"
    /\ PositionFree(s)
    /\ s \in Deciders \/ Unlocked \/ LockedBy(s)
    /\ "request" \in Races \/ s \notin Askers \/ screening = session[s].old
    /\ "log" \in Races \/ session[s].to # "none" \/ application = session[s].seen
    /\ screening' = IF s \in Deciders THEN screening
                                      ELSE Flushed(session[s].old, session[s].new)
    /\ IF session[s].to = "none"
         THEN UNCHANGED <<application, log>>
         ELSE /\ Len(log) < MaxEvents
              /\ log' = Append(log, Event(session[s].seen, session[s].to))
              /\ application' = session[s].to
    /\ Closes(s)
    /\ UNCHANGED posting

\* The position was taken: IntegrityError.  A run that has a result records a
\* failure instead, and a request that was creating the row takes the error
\* for a rival's row; from anything else the exception leaves the caller.
Collide(s) ==
    /\ session[s].pc = "placed"
    /\ ~PositionFree(s)
    /\ session' = [session EXCEPT ![s] =
         IF s \in Workers /\ session[s].new.status = "completed"
           THEN [Idle EXCEPT !.pc = "broken", !.old = session[s].old]
         ELSE IF s \in Askers /\ session[s].old.status = "absent"
           THEN [Idle EXCEPT !.pc = "refinding", !.version = session[s].version]
         ELSE Idle]
    /\ UNCHANGED <<screening, application, log, posting>>

-----------------------------------------------------------------------------
\* run_screening_job

\* _claim_screening, under FOR UPDATE, up to its commit.  Only a row that is
\* being processed is refused; the application is not moved.
Claim(w) ==
    /\ session[w].pc = "idle"
    /\ Unlocked
    /\ screening.status \notin {"absent", "processing"}
    /\ "stray" \in Races \/ screening.status = "pending"
    /\ screening.attempts < MaxClaims
    /\ screening' = [screening EXCEPT !.status = "processing", !.attempts = @ + 1,
                                      !.stale = FALSE]
    /\ session' = [session EXCEPT ![w] =
                     [Idle EXCEPT !.pc = "judging", !.old = screening',
                                  !.version = posting]]
    /\ UNCHANGED <<application, log, posting>>

\* Mutant of Judge: a judgment that is not put on the row.
JudgeWithoutResult(w) ==
    /\ session[w].pc = "judging"
    /\ Follow(w, session[w].old, WithResult(session[w].old, session[w].old.judged))
    /\ UNCHANGED <<screening, application, log, posting>>

\* process_screening: the judgment goes on the row, for the requirements the
\* claim loaded, and the application follows.
Judge(w) ==
    /\ session[w].pc = "judging"
    /\ Follow(w, session[w].old, WithResult(session[w].old, session[w].version))
    /\ UNCHANGED <<screening, application, log, posting>>

\* The resume has no text, or the model fails: recorded on the same session.
JudgingErrors == {"not_screenable", "llm", "llm_config"}

Fail(w, error) ==
    /\ session[w].pc = "judging"
    /\ error \in JudgingErrors
    /\ Follow(w, session[w].old, WithFailure(session[w].old, error))
    /\ UNCHANGED <<screening, application, log, posting>>

\* Any other exception while a result is being produced or committed.
Break(w) ==
    /\ \/ session[w].pc = "judging"
       \/ session[w].pc \in {"planned", "placed"} /\ session[w].new.status = "completed"
    /\ session' = [session EXCEPT ![w] = [Idle EXCEPT !.pc = "broken",
                                                      !.old = session[w].old]]
    /\ UNCHANGED <<screening, application, log, posting>>

\* _record_screening_failure_on_a_fresh_session: the row is read again,
\* without a lock, and then the application.
Reread(w) ==
    /\ session[w].pc = "broken"
    /\ session' = [session EXCEPT ![w] = [Idle EXCEPT !.pc = "recording", !.old = screening]]
    /\ UNCHANGED <<screening, application, log, posting>>

RecordBreak(w) ==
    /\ session[w].pc = "recording"
    /\ Follow(w, session[w].old, WithFailure(session[w].old, "unexpected"))
    /\ UNCHANGED <<screening, application, log, posting>>

-----------------------------------------------------------------------------
\* The sweep

\* A claim is held while the run that made it is at work on it.
Held == \E w \in Workers : session[w].pc # "idle"
                           /\ session[w].old.attempts = screening.attempts

TimeoutPasses ==
    /\ screening.status = "processing"
    /\ ~screening.stale
    /\ "slow" \in Races \/ ~Held
    /\ Unlocked
    /\ screening' = [screening EXCEPT !.stale = TRUE]
    /\ UNCHANGED <<application, log, posting, session>>

IsStalled(r) == r.status = "processing" /\ r.stale

\* reclaim_screening reads the row under its lock and holds it to the commit.
Reclaim ==
    /\ session[Reaper].pc = "idle"
    /\ IsStalled(screening)
    /\ Follow(Reaper, screening, WithFailure(screening, "worker_vanished"))
    /\ UNCHANGED <<screening, application, log, posting>>

-----------------------------------------------------------------------------
\* Requests about the screening

\* _needs_running.
NeedsRunning(r, version) ==
    \/ r.status \in {"pending", "failed", "dead_lettered"}
    \/ r.status = "completed" /\ r.judged # version

\* can_retry.
CanRetry(r) == r.status \in {"dead_lettered", "failed"} \/ IsStalled(r)

\* create_screening's check: the recruiter's own upload, or one put forward
\* for this very job.
MayAsk == OwnResume \/ application # "none"

\* Bound of the model: no request once a whole budget no longer fits.
Fits == screening.attempts + MaxAttempts <= MaxClaims

\* request_screening finds no row, or one it will not leave alone.
Ask(a) ==
    /\ session[a].pc = "idle"
    /\ MayAsk
    /\ Fits
    /\ screening.status = "absent" \/ NeedsRunning(screening, posting)
    /\ session' = [session EXCEPT ![a] =
                     [Idle EXCEPT !.pc = IF screening.status = "absent"
                                           THEN "creating" ELSE "asked",
                                  !.old = screening, !.version = posting]]
    /\ UNCHANGED <<screening, application, log, posting>>

\* retry_screening: can_retry, and then request_screening with force.
Retry(a) ==
    /\ session[a].pc = "idle"
    /\ CanRetry(screening)
    /\ Fits
    /\ session' = [session EXCEPT ![a] = [Idle EXCEPT !.pc = "asked", !.old = screening]]
    /\ UNCHANGED <<screening, application, log, posting>>

\* The INSERT is flushed, which makes rivals wait for this transaction's end.
Insert(a) ==
    /\ session[a].pc = "creating"
    /\ screening.status = "absent"
    /\ ~\E s \in Askers : Inserting(s)
    /\ Follow(a, Absent, NewRow)
    /\ UNCHANGED <<screening, application, log, posting>>

\* uq_screenings_job_resume: the winner's row is taken up where it stands.
LoseRace(a) ==
    /\ session[a].pc \in {"creating", "refinding"}
    /\ screening.status # "absent"
    /\ session' = [session EXCEPT ![a] =
                     IF NeedsRunning(screening, session[a].version)
                       THEN [@ EXCEPT !.pc = "asked", !.old = screening] ELSE Idle]
    /\ UNCHANGED <<screening, application, log, posting>>

\* There is no rival's row: the IntegrityError was about something else.
FindNobody(a) ==
    /\ session[a].pc = "refinding"
    /\ screening.status = "absent"
    /\ Closes(a)
    /\ UNCHANGED <<screening, application, log, posting>>

Requeue(a) ==
    /\ session[a].pc = "asked"
    /\ Follow(a, session[a].old, Requeued(session[a].old))
    /\ UNCHANGED <<screening, application, log, posting>>

\* The owner edits the requirements: another fingerprint.
Edit ==
    /\ posting' \in Postings \ {posting}
    /\ UNCHANGED <<screening, application, log, session>>

-----------------------------------------------------------------------------
\* Requests about the application

\* apply: one commit, of the row and its first event.  Once there is an
\* application it is handed back as it is, whatever its state.
Apply ==
    /\ application = "none"
    /\ MaxEvents > 0
    /\ application' = "applied"
    /\ log' = <<Event("none", "applied")>>
    /\ UNCHANGED <<screening, posting, session>>

\* move_application reads the application ...
Move(d) ==
    /\ session[d].pc = "idle"
    /\ application # "none"
    /\ session' = [session EXCEPT ![d].pc = "moving", ![d].seen = application]
    /\ UNCHANGED <<screening, application, log, posting>>

\* ... then the completed screening a shortlist would rest on, and plans from
\* the two.  A refusal is answered 409.
Decide(d, to, mover) ==
    /\ session[d].pc = "moving"
    /\ LET planned == Plan(session[d].seen, to, mover, screening.status = "completed")
       IN session' = [session EXCEPT ![d] =
                        IF planned = "none" THEN Idle
                        ELSE [@ EXCEPT !.pc = "planned", !.to = planned]]
    /\ UNCHANGED <<screening, application, log, posting>>

-----------------------------------------------------------------------------
\* A process dies, or arq cancels the job: its transaction is rolled back.
Dies(s) ==
    /\ session[s].pc # "idle"
    /\ Closes(s)
    /\ UNCHANGED <<screening, application, log, posting>>

RunStep(w) ==
    \/ Claim(w)
    \/ Judge(w)
    \/ \E error \in Errors : Fail(w, error)
    \/ Break(w)
    \/ Reread(w)
    \/ RecordBreak(w)

AskStep(a) ==
    \/ Ask(a)
    \/ Retry(a)
    \/ Insert(a)
    \/ LoseRace(a)
    \/ FindNobody(a)
    \/ Requeue(a)

DecideStep(d) ==
    \/ Move(d)
    \/ \E to \in States, mover \in Movers \ {"system"} : Decide(d, to, mover)

TransactionStep(s) ==
    \/ ReadPosition(s)
    \/ Commit(s)
    \/ Collide(s)
    \/ Dies(s)

Next ==
    \/ \E w \in Workers : RunStep(w)
    \/ \E a \in Askers : AskStep(a)
    \/ \E d \in Deciders : DecideStep(d)
    \/ \E s \in Sessions : TransactionStep(s)
    \/ TimeoutPasses
    \/ Reclaim
    \/ Edit
    \/ Apply

Spec == Init /\ [][Next]_vars

\* What keeps running: the consumer takes up every row that waits, the run it
\* starts goes on unless it dies, time passes, and of the sweeps, one a
\* minute, not every one dies or loses its place in the log.  Nothing is
\* asked of people.
RunGoesOn(w) ==
    \/ Judge(w) \/ (\E error \in Errors : Fail(w, error)) \/ Break(w)
    \/ Reread(w) \/ RecordBreak(w)
    \/ ReadPosition(w) \/ Commit(w) \/ Collide(w)

Fairness ==
    /\ \A w \in Workers : SF_vars(Claim(w)) /\ WF_vars(RunGoesOn(w))
    /\ WF_vars(TimeoutPasses)
    /\ SF_vars(Reclaim)
    /\ SF_vars(ReadPosition(Reaper))
    /\ SF_vars(Commit(Reaper))
    /\ WF_vars(Collide(Reaper))

FairSpec == Spec /\ Fairness

-----------------------------------------------------------------------------
\* Properties

\* The application's state is a projection of its log, and the log has no
\* gap: replaying the events reproduces the column.
LogReplays == Replay(log) = application

\* A withdrawal or a rejection is final: neither a screening in progress nor
\* a second decision overrules it.
TerminalStands ==
    [][(application \in TerminalStates) => application' = application]_vars

\* An application never waits for evidence that is not on its way.
WaitsForEvidence ==
    application = "screening" => screening.status \in {"pending", "processing"}

\* Application and screening are moved together: besides the above, what is
\* called screened is screened now, and nobody stays at `applied` while, or
\* after, a screening is produced.
InStep ==
    /\ WaitsForEvidence
    /\ application \in {"screened", "shortlisted"} => screening.status = "completed"
    /\ application = "applied" => screening.status \in {"absent", "failed", "dead_lettered"}

\* Whatever dies, an application does not stay at `screening`: its evidence
\* arrives, or the budget is spent and it goes back to `applied`.
ScreeningEnds == application = "screening" ~> application # "screening"

\* `screened` and `shortlisted` rest on a result that was stored.
ScreenedHasResult ==
    application \in {"screened", "shortlisted"} => screening.judged # NoPosting

\* What the log keeps whatever overlaps: every event is a move somebody was
\* allowed to make, from a state that the application had come to before and
\* that is not final; and the column is what the last of them says.  A
\* decision that a later event overrules was not looked at by who wrote that
\* event: it leaves a gap in the log.
Reached(n) == {After(log, j) : j \in 1 .. n}

LegalMove(from, to) ==
    from \notin TerminalStates /\ \E mover \in Movers : Allowed(from, to, mover)

EveryEventWasLegal ==
    /\ application = After(log, Len(log))
    /\ \A i \in 1 .. Len(log) :
         IF i = 1 THEN log[i] = Event("none", "applied")
         ELSE log[i].from \in Reached(i - 1) /\ LegalMove(log[i].from, log[i].to)

\* What makes it inductive: a session that has read the application has read
\* a state the log has come to, and plans a legal move from it.
LogInv ==
    /\ EveryEventWasLegal
    /\ \A s \in Sessions :
         /\ session[s].seen # "none" => session[s].seen \in Reached(Len(log))
         /\ session[s].pc = "moving" => session[s].seen # "none"
         /\ session[s].pc \in {"planned", "placed"} /\ session[s].to # "none" =>
              session[s].seen # "none" /\ LegalMove(session[s].seen, session[s].to)

\* The steps by which one session overtakes another: it commits what it
\* planned from an application or a screening that have moved on; it fails a
\* screening that another run finished, or runs one that nobody put back; or
\* the application comes when the recruiter's own upload is screened already.
CommitsStale(s) ==
    /\ Commit(s)
    /\ \/ session[s].seen # application
       \/ s \notin Deciders /\ session[s].old.status # screening.status

FailsFinished(s) ==
    /\ s \notin Deciders /\ Commit(s)
    /\ screening.status = "completed"
    /\ session[s].new.status \in {"failed", "dead_lettered"}

RunsAgain(w) == Claim(w) /\ screening.status # "pending"

AppliesLate == Apply /\ screening.status \notin {"absent", "failed", "dead_lettered"}

Overtaking ==
    \/ \E s \in Sessions : CommitsStale(s) \/ FailsFinished(s)
    \/ \E w \in Workers : RunsAgain(w)
    \/ AppliesLate

\* "Both rows move in one transaction": application and screening part in no
\* other step than these, so whatever else fails, dies, collides, is retried
\* or is decided leaves them in step.
PartOnlyByOvertaking == [][InStep /\ ~InStep' => Overtaking]_vars

\* What makes ScreenedHasResult inductive whatever the timing.  A row is there
\* from the insert's commit on, and a result from the first one stored; so a
\* copy never has what the row lacks, and a flush that leaves the unchanged
\* fingerprint out loses nothing.
CopyIsBacked(s) ==
    /\ session[s].old.status # "absent" => screening.status # "absent"
    /\ session[s].old.judged # NoPosting => screening.judged # NoPosting
    /\ session[s].seen \in {"screened", "shortlisted"} => screening.judged # NoPosting

ChangeIsSound(s) ==
    /\ session[s].new.status # "absent"
    /\ session[s].to # "shortlisted"
    /\ session[s].to = "screened" => session[s].new.status = "completed"
    /\ session[s].new.status = "completed" => session[s].new.judged # NoPosting
    /\ session[s].new.judged = NoPosting => session[s].old.judged = NoPosting
    /\ session[s].old.status = "absent" => session[s].new = NewRow

ResultInv ==
    /\ ScreenedHasResult
    /\ screening.status = "absent" => screening.judged = NoPosting
    /\ \A s \in Sessions : CopyIsBacked(s)
    /\ \A s \in Sessions \ Deciders :
         session[s].pc \in {"planned", "placed"} => ChangeIsSound(s)
    /\ \A d \in Deciders :
         session[d].pc \in {"planned", "placed"} =>
           /\ session[d].to # "screened"
           /\ session[d].to = "shortlisted" => session[d].seen = "screened"
    /\ \A s \in Sessions :
         session[s].pc \in {"judging", "broken", "recording", "asked"} =>
           session[s].old.status # "absent"
    /\ \A w \in Workers : session[w].pc = "judging" => session[w].version # NoPosting
    /\ \A s \in Workers \cup {Reaper} :
         session[s].pc # "idle" => session[s].old.status # "absent"
    /\ \A s \in Askers : Inserting(s) => screening.status = "absent"
    /\ \A s, t \in Askers : Inserting(s) /\ Inserting(t) => s = t
=============================================================================
