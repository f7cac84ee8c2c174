---------------------------- MODULE DatabaseQueue ----------------------------
(***************************************************************************)
(* ResumeJob under api/app/database_queue.py: nothing is dispatched, a     *)
(* consumer in the API process polls for rows that are pending and due.    *)
(* Each member of Workers is one process with one consumer, whose loop     *)
(* sweeps, then runs at most one resume, then polls again.  More than one  *)
(* process exists while a deployment replaces another.                     *)
(***************************************************************************)
EXTENDS ResumeJob

VARIABLE picked     \* picked[w]: w read the row as due and is about to claim it

dbVars == <<row, profile, run, handler, picked>>

DbTypeOK == TypeOK /\ picked \in [Workers -> BOOLEAN]

DbInit == Init /\ picked = [w \in Workers |-> FALSE]

\* Mutant of Due: only rows that have not failed.
DueIfNeverFailed == row.failed = 0

\* _due.  The backoff of a row that has failed passes some time after the
\* failure, so it may be due at any moment; a row with a spent budget never
\* is.  A row never claimed has no last_attempt_at.
Due ==
    \/ row.failed = 0
    \/ row.attempts = 0
    \/ row.failed \in 1 .. (MaxAttempts - 1)

AtLoopTop(w) == run[w].pc = "idle" /\ ~picked[w]

\* run_once: the id is read in a session of its own, without a lock ...
Poll(w) ==
    /\ AtLoopTop(w)
    /\ row.status = "pending"
    /\ Due
    /\ picked' = [picked EXCEPT ![w] = TRUE]
    /\ UNCHANGED vars

\* ... and run_resume_job claims whatever the row has become since,
Start(w) ==
    /\ picked[w]
    /\ Claim(w)
    /\ picked' = [picked EXCEPT ![w] = FALSE]

\* or skips it.
Skip(w) ==
    /\ picked[w]
    /\ ~Claimable
    /\ picked' = [picked EXCEPT ![w] = FALSE]
    /\ UNCHANGED vars

\* The sweep is a call in the same loop: a consumer busy with a job does
\* not sweep.  Its enqueue only wakes the loop.
Sweep(w) ==
    /\ AtLoopTop(w)
    /\ Reclaim
    /\ UNCHANGED picked

\* The process is stopped or suspended, and another takes its place.
ProcessDies(w) ==
    /\ Crash(w)
    /\ UNCHANGED picked

ConsumerWork(w) ==
    /\ \/ Parse(w)
       \/ ParseFails(w)
       \/ Finish(w)
       \/ \E error \in Errors : Fail(w, error)
       \/ Break(w)
       \/ Reread(w)
       \/ RecordBreak(w)
       \/ Escape(w)
       \/ Return(w)
    /\ UNCHANGED picked

DbNext ==
    \/ \E w \in Workers :
         Poll(w) \/ Start(w) \/ Skip(w) \/ Sweep(w) \/ ConsumerWork(w) \/ ProcessDies(w)
    \/ /\ \/ \E h \in Handlers : HandlerStep(h)
          \/ TimeoutPasses
          \/ Delete
       /\ UNCHANGED picked

DbSpec == DbInit /\ [][DbNext]_dbVars

\* Fairness: the loop runs as long as the process does, and time passes.
\* The wake-up owed by a request is an optimisation and gets none.
DbFairness ==
    /\ \A w \in Workers :
         /\ WF_dbVars(Poll(w))
         /\ WF_dbVars(Start(w) \/ Skip(w))
         /\ WF_dbVars(ConsumerWork(w))
         /\ WF_dbVars(Sweep(w))
    /\ WF_dbVars(TimeoutPasses /\ UNCHANGED picked)
    /\ WF_dbVars(Enqueue(Reaper) /\ UNCHANGED picked)

-----------------------------------------------------------------------------
\* Properties

\* No job is held only in memory: whatever dies between a commit and the
\* wake-up, and however often the consumer itself dies, the row is found
\* again and comes to rest.
EveryRowSettles ==
    row.status \in {"pending", "processing"} ~> row.status \notin {"pending", "processing"}

\* A pending row is one some poll will take: its budget is never spent.
PendingIsDue == row.status = "pending" => Due
=============================================================================
