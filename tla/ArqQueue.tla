------------------------------- MODULE ArqQueue -------------------------------
(***************************************************************************)
(* ResumeJob dispatched through arq: ArqQueue of api/app/queue.py, the     *)
(* task adapter and WorkerSettings of api/app/worker.py, and as much of    *)
(* arq itself as they rely on.  arq holds a job under an id from the       *)
(* enqueue until it has run, and its result for an hour after, and refuses *)
(* an enqueue under an id it holds.  A job whose task raises Retry, or     *)
(* whose worker died, is delivered again under the same id.                *)
(***************************************************************************)
EXTENDS ResumeJob

CONSTANTS
    DiesOwing,      \* whether a process may die after a commit and before the
                    \* queue operation it owes for it
    TriesMargin     \* the tries that max_tries adds to the job's own budget

ASSUME ArqAssumption == DiesOwing \in BOOLEAN /\ TriesMargin \in Nat \ {0}

VARIABLES
    job,    \* job[n]: the arq job with id resume:<id>:<n>, n the attempt counter
    task    \* task[w]: which job the run w works for, while it works

arqVars == <<row, profile, run, handler, job, task>>

JobIds == 0 .. MaxClaims

\* WorkerSettings.functions: deliberately above the job's own budget.
MaxTries == MaxAttempts + TriesMargin

JobStates == {"unknown", "queued", "running", "kept"}

Unknown == [state |-> "unknown", tries |-> 0]

ArqTypeOK ==
    /\ TypeOK
    /\ job \in [JobIds -> [state: JobStates, tries: 0 .. MaxTries]]
    /\ task \in [Workers -> JobIds]

\* The upload has committed the row.  Its enqueue followed, or was lost.
ArqInit ==
    /\ Init
    /\ \E first \in {"queued"} \cup (IF DiesOwing THEN {"unknown"} ELSE {}) :
         job = [n \in JobIds |->
                  IF n = 0 THEN [Unknown EXCEPT !.state = first] ELSE Unknown]
    /\ task = [w \in Workers |-> 0]

-----------------------------------------------------------------------------
\* enqueue_resume: an id arq holds is refused, and the refusal is logged.
ArqEnqueue(h) ==
    /\ Enqueue(h)
    /\ LET n == handler[h].copy.attempts
       IN  job' = [job EXCEPT ![n] = IF @.state = "unknown"
                                       THEN [@ EXCEPT !.state = "queued"] ELSE @]
    /\ UNCHANGED task

\* A worker picks a job up, at once or after its deferral; arq counts the
\* try.  The task claims the row and works ...
DeliverAndClaim(w, n) ==
    /\ job[n].state = "queued"
    /\ job[n].tries < MaxTries
    /\ Claim(w)
    /\ job' = [job EXCEPT ![n] = [state |-> "running", tries |-> @.tries + 1]]
    /\ task' = [task EXCEPT ![w] = n]

\* ... or finds nothing it may claim, and the job ends there ...
DeliverAndSkip(w, n) ==
    /\ job[n].state = "queued"
    /\ job[n].tries < MaxTries
    /\ run[w].pc = "idle"
    /\ ~Claimable
    /\ job' = [job EXCEPT ![n] = [state |-> "kept", tries |-> @.tries + 1]]
    /\ UNCHANGED <<row, profile, run, handler, task>>

\* ... or arq's own counter cuts in, and the task is never called.
GiveUp(w, n) ==
    /\ job[n].state = "queued"
    /\ job[n].tries = MaxTries
    /\ run[w].pc = "idle"
    /\ job' = [job EXCEPT ![n].state = "kept"]
    /\ UNCHANGED <<row, profile, run, handler, task>>

EndTask(w, state) ==
    /\ job' = [job EXCEPT ![task[w]].state = state]
    /\ task' = [task EXCEPT ![w] = 0]

\* process_resume of worker.py: a JobOutcome with a delay becomes Retry.
ArqReturn(w) ==
    /\ Return(w)
    /\ EndTask(w, IF run[w].pc = "retry" THEN "queued" ELSE "kept")

\* The worker process dies: its job is delivered again in time.
WorkerDies(w) ==
    /\ run[w].pc \in Working \/ DiesOwing
    /\ Crash(w)
    /\ EndTask(w, "queued")

\* arq cancels a job that outlives job_timeout: its job is over.
Cancelled(w) ==
    /\ run[w].pc \in Working
    /\ Crash(w)
    /\ EndTask(w, "kept")

\* The kept result expires, and with it the refusal.
ResultExpires(n) ==
    /\ job[n].state = "kept"
    /\ job' = [job EXCEPT ![n] = Unknown]
    /\ UNCHANGED <<row, profile, run, handler, task>>

\* The steps of ResumeJob that touch neither the queue nor a task.
Work(w) ==
    \/ Parse(w)
    \/ ParseFails(w)
    \/ Finish(w)
    \/ \E error \in Errors : Fail(w, error)
    \/ Break(w)
    \/ Reread(w)
    \/ RecordBreak(w)
    \/ Escape(w)

Request(h) ==
    \/ RetryRead(h)
    \/ RetryCommit(h)
    \/ Reupload(h)
    \/ /\ handler[h].pc = "enqueueing" => DiesOwing
       /\ HandlerDies(h)

Deliver(w) ==
    \E n \in JobIds : DeliverAndClaim(w, n) \/ DeliverAndSkip(w, n) \/ GiveUp(w, n)

ArqNext ==
    \/ \E w \in Workers : Deliver(w) \/ ArqReturn(w) \/ WorkerDies(w) \/ Cancelled(w)
    \/ \E h \in Handlers : ArqEnqueue(h)
    \/ \E n \in JobIds : ResultExpires(n)
    \/ /\ \/ \E w \in Workers : Work(w)
          \/ \E h \in Handlers : Request(h)
          \/ TimeoutPasses
          \/ Reclaim
          \/ Delete
       /\ UNCHANGED <<job, task>>

ArqSpec == ArqInit /\ [][ArqNext]_arqVars

-----------------------------------------------------------------------------
\* Fairness.  A worker that is up goes on with the job it holds and polls
\* Redis for the next; a request that has committed goes on to its enqueue;
\* time passes, and the cron sweep runs once a minute.  Nobody has to retry,
\* upload or delete anything, and nothing has to fail.
ArqFairness ==
    /\ \A w \in Workers :
         /\ WF_arqVars(Work(w) /\ UNCHANGED <<job, task>>)
         /\ WF_arqVars(Deliver(w))
         /\ WF_arqVars(ArqReturn(w))
    /\ \A h \in Handlers : WF_arqVars(ArqEnqueue(h))
    /\ WF_arqVars(TimeoutPasses /\ UNCHANGED <<job, task>>)
    /\ WF_arqVars(Reclaim /\ UNCHANGED <<job, task>>)

FairArqSpec == ArqSpec /\ ArqFairness

-----------------------------------------------------------------------------
\* Properties

InFlight == row.status \in {"pending", "processing"}

\* A pending row has work under way that will look at it again: a job arq
\* holds, a run about to hand one back, or an enqueue still owed under an id
\* arq will not refuse.  The rows of the database are what waits; nothing
\* sweeps the pending ones.
PendingIsDispatched ==
    row.status = "pending" =>
        \/ \E n \in JobIds : job[n].state = "queued"
        \/ \E w \in Workers : run[w].pc = "retry"
        \/ \E h \in Handlers : /\ handler[h].pc = "enqueueing"
                               /\ job[handler[h].copy.attempts].state = "unknown"

\* Whoever is killed, cancelled, refused or overtaken, only arq's own counter
\* takes from a pending row the last dispatch it has.
DispatchIsKept ==
    [][PendingIsDispatched /\ ~(\E w \in Workers, n \in JobIds : GiveUp(w, n))
         => PendingIsDispatched']_arqVars

\* "Giving up is the job's decision": arq's counter does not cut in on a row
\* that waits to be run again.
ArqNeverFirst ==
    row.status = "pending" =>
        \A n \in JobIds : job[n].state = "queued" => job[n].tries < MaxTries

\* What was accepted comes to rest: a resume does not stay pending or
\* processing for ever, whichever workers die and however often, unless arq's
\* counter cuts in (or the run has reached the bound on claims).
EveryResumeSettles ==
    []ArqNeverFirst => (InFlight ~> (~InFlight \/ row.attempts = MaxClaims))
=============================================================================
