------------------------ MODULE QueuesAndStream_proofs ------------------------
(***************************************************************************)
(* Proofs about what surrounds ResumeJob: ArqQueue and DatabaseQueue,      *)
(* which run it, and ProgressStream, which watches it, for any number of   *)
(* workers and requests, any budget and any bound on claims.  Each is a    *)
(* schedule of ResumeJob, so what is proved there holds under any of them. *)
(***************************************************************************)
EXTENDS ArqQueue, DatabaseQueue, ProgressStream, ResumeJob_proofs, SequenceTheorems

-----------------------------------------------------------------------------
\* The consumer that polls the database

\* Whatever the consumer does is a step of some dispatch, or none of the row's.
THEOREM PollingImplementsResumeJob == DbSpec => Spec
  <1>1. DbInit => Init
    BY DEF DbInit
  <1>2. [DbNext]_dbVars => [Next]_vars
    BY DEF DbNext, dbVars, Poll, Start, Skip, Sweep, ConsumerWork, ProcessDies, Next, RunStep, vars
  <1> QED
    BY <1>1, <1>2, PTL DEF DbSpec, Spec

\* What is pending has some of its budget left.
BudgetLeft == row.status = "pending" => row.failed < MaxAttempts

LEMMA BudgetIsLeft ==
    ASSUME ~SlowWorkers, ~RetryRaces
    PROVE  Spec => []BudgetLeft
  <1>1. Init => BudgetLeft
    BY MaxAttemptsAssumption DEF Init, BudgetLeft, NewRow
  <1>2. TypeOK /\ TimelyInv /\ BudgetLeft /\ [Next]_vars => BudgetLeft'
    <2> SUFFICES ASSUME TypeOK, TimelyInv, BudgetLeft, [Next]_vars
                 PROVE  BudgetLeft'
      OBVIOUS
    <2>1. ASSUME NEW w \in Workers, Claim(w) PROVE BudgetLeft'
      BY <2>1, ClaimEffect DEF BudgetLeft
    <2>2. CASE RowStands
      BY <2>2 DEF RowStands, BudgetLeft
    <2>3. CASE ClaimEnds
      BY <2>3 DEF ClaimEnds, BudgetLeft
    <2>4. CASE Replayed
      BY <2>4, MaxAttemptsAssumption DEF Replayed, BudgetLeft
    <2>5. CASE Delete
      BY <2>5 DEF Delete, NoCopy, BudgetLeft
    <2> QED
      BY <2>1, <2>2, <2>3, <2>4, <2>5, RowMoves
  <1> QED
    BY <1>1, <1>2, TypeCorrect, Timely, PTL DEF Spec

\* While timing is kept, every pending row has a window of _due in which the
\* poll finds it: no failure, sweep or replay leaves one whose count has none.
THEOREM PendingIsAlwaysDue ==
    ASSUME ~SlowWorkers, ~RetryRaces
    PROVE  DbSpec => []PendingIsDue
  <1>1. TypeOK /\ BudgetLeft => PendingIsDue
    BY MaxAttemptsAssumption DEF BudgetLeft, PendingIsDue, Due, TypeOK, Rows
  <1> QED
    BY <1>1, PollingImplementsResumeJob, TypeCorrect, BudgetIsLeft, PTL

-----------------------------------------------------------------------------
\* arq

\* Whatever arq does, a redelivery, a cancellation or a job given up on, is a
\* step of the row's, or none of them.
THEOREM ArqImplementsResumeJob == ArqSpec => Spec
  <1>1. ArqInit => Init
    BY DEF ArqInit
  <1>2. [ArqNext]_arqVars => [Next]_vars
    <2> SUFFICES ASSUME ArqNext PROVE Next \/ UNCHANGED vars
      BY DEF arqVars, vars
    <2>1. ASSUME NEW w \in Workers, Deliver(w) PROVE Next \/ UNCHANGED vars
      BY <2>1 DEF Deliver, DeliverAndClaim, DeliverAndSkip, GiveUp, Next, RunStep, vars
    <2>2. ASSUME NEW w \in Workers, ArqReturn(w) \/ WorkerDies(w) \/ Cancelled(w) PROVE Next
      BY <2>2 DEF ArqReturn, WorkerDies, Cancelled, Next, RunStep
    <2>3. ASSUME NEW h \in Handlers, ArqEnqueue(h) PROVE Next
      BY <2>3 DEF ArqEnqueue, Next, HandlerStep
    <2>4. ASSUME NEW n \in JobIds, ResultExpires(n) PROVE UNCHANGED vars
      BY <2>4 DEF ResultExpires, vars
    <2>5. ASSUME NEW w \in Workers, Work(w) PROVE Next
      BY <2>5 DEF Work, Next, RunStep
    <2>6. ASSUME NEW h \in Handlers, Request(h) PROVE Next
      BY <2>6 DEF Request, Next, HandlerStep
    <2> QED
      BY <2>1, <2>2, <2>3, <2>4, <2>5, <2>6 DEF ArqNext, Next
  <1> QED
    BY <1>1, <1>2, PTL DEF ArqSpec, Spec

\* The steps of ArqNext that leave the queue alone.
QuietStep ==
    /\ \/ \E w \in Workers : Work(w)
       \/ \E h \in Handlers : Request(h)
       \/ TimeoutPasses
       \/ Reclaim
       \/ Delete
       \/ UNCHANGED vars
    /\ UNCHANGED <<job, task>>

\* None of them starts a run, or ends one that has something to hand back.
LEMMA QuietRuns ==
    ASSUME TypeOK, QuietStep, NEW w \in Workers
    PROVE  /\ run'[w].pc # "idle" => run[w].pc # "idle"
           /\ run[w].pc = "retry" => run'[w].pc = "retry"
  <1>1. ASSUME NEW v \in Workers, Work(v)
        PROVE  /\ run[v].pc \in Working
               /\ \A u \in Workers \ {v} : run'[u] = run[u]
    BY <1>1 DEF Work, Parse, ParseFails, Finish, Fail, Break, Reread, RecordBreak, Escape,
                Returns, Working, TypeOK
  <1>2. ASSUME NEW h \in Handlers, Request(h) PROVE run' = run
    BY <1>2 DEF Request, RetryRead, RetryCommit, Reupload, HandlerDies
  <1>3. CASE TimeoutPasses \/ Reclaim \/ Delete \/ UNCHANGED vars
    BY <1>3 DEF TimeoutPasses, Reclaim, Delete, vars
  <1> QED
    BY <1>1, <1>2, <1>3 DEF QuietStep, Working

\* A run works for a job arq has as running, and no two for the same; an id
\* that arq does not know has not been tried.
TaskInv ==
    /\ \A w \in Workers : run[w].pc # "idle" => job[task[w]].state = "running"
    /\ \A v, w \in Workers :
         run[v].pc # "idle" /\ run[w].pc # "idle" /\ task[v] = task[w] => v = w
    /\ \A n \in JobIds : job[n].state = "unknown" => job[n].tries = 0

\* A run that ends takes its job with it, and no other.
LEMMA TaskEnds ==
    ASSUME ArqTypeOK, TaskInv, NEW w \in Workers, NEW state \in {"queued", "kept"},
           run[w].pc # "idle", run' = [run EXCEPT ![w] = Idle], EndTask(w, state)
    PROVE  /\ job' \in [JobIds -> [state: JobStates, tries: 0 .. MaxTries]]
           /\ task' \in [Workers -> JobIds]
           /\ TaskInv'
           /\ job'[task[w]].state = state
           /\ \A n \in JobIds : job'[n].tries = job[n].tries
           /\ \A n \in JobIds \ {task[w]} : job'[n] = job[n]
  <1>1. task[w] \in JobIds /\ 0 \in JobIds
    BY ConstantsAssumption DEF ArqTypeOK, JobIds
  <1>2. job' \in [JobIds -> [state: JobStates, tries: 0 .. MaxTries]]
    BY DEF EndTask, ArqTypeOK, JobStates
  <1>3. task' \in [Workers -> JobIds]
    BY <1>1 DEF EndTask, ArqTypeOK
  <1>4. /\ job'[task[w]].state = state
        /\ \A n \in JobIds : job'[n].tries = job[n].tries
        /\ \A n \in JobIds \ {task[w]} : job'[n] = job[n]
    BY <1>1 DEF EndTask, ArqTypeOK
  <1>5. /\ run'[w].pc = "idle"
        /\ \A v \in Workers \ {w} : run'[v] = run[v] /\ task'[v] = task[v]
    BY DEF Idle, EndTask, ArqTypeOK, TypeOK
  <1>6. \A v \in Workers \ {w} : run[v].pc # "idle" => task[v] # task[w]
    BY DEF TaskInv
  <1>7. TaskInv'
    BY <1>1, <1>4, <1>5, <1>6 DEF TaskInv, ArqTypeOK
  <1> QED
    BY <1>2, <1>3, <1>4, <1>7

\* The queue's own state, whatever the timing.
THEOREM ArqTypeCorrect == ArqSpec => [](ArqTypeOK /\ TaskInv)
  <1>1. ArqInit => ArqTypeOK /\ TaskInv
    <2> SUFFICES ASSUME ArqInit PROVE ArqTypeOK /\ TaskInv
      OBVIOUS
    <2>1. TypeOK
      BY NoCopyType, IdleType DEF ArqInit, Init, TypeOK
    <2>2. 0 \in JobIds /\ 0 \in 0 .. MaxTries
      BY ConstantsAssumption, MaxAttemptsAssumption, ArqAssumption DEF JobIds, MaxTries
    <2>3. PICK first \in {"queued", "unknown"} :
            job = [n \in JobIds |->
                     IF n = 0 THEN [Unknown EXCEPT !.state = first] ELSE Unknown]
      BY DEF ArqInit
    <2>4. \A n \in JobIds : job[n].tries = 0
                             /\ job[n] \in [state: JobStates, tries: 0 .. MaxTries]
      BY <2>2, <2>3 DEF Unknown, JobStates
    <2>5. job \in [JobIds -> [state: JobStates, tries: 0 .. MaxTries]]
      BY <2>3, <2>4
    <2> QED
      BY <2>1, <2>2, <2>4, <2>5 DEF ArqInit, Init, Idle, ArqTypeOK, TaskInv
  <1>2. TypeOK' /\ ArqTypeOK /\ TaskInv /\ [ArqNext]_arqVars => (ArqTypeOK /\ TaskInv)'
    <2> SUFFICES ASSUME TypeOK', ArqTypeOK, TaskInv, [ArqNext]_arqVars
                 PROVE  /\ job' \in [JobIds -> [state: JobStates, tries: 0 .. MaxTries]]
                        /\ task' \in [Workers -> JobIds]
                        /\ TaskInv'
      BY DEF ArqTypeOK
    <2>0. TypeOK
      BY DEF ArqTypeOK
    <2>1. ASSUME NEW w \in Workers, NEW n \in JobIds, DeliverAndClaim(w, n)
          PROVE  /\ job' \in [JobIds -> [state: JobStates, tries: 0 .. MaxTries]]
                 /\ task' \in [Workers -> JobIds]
                 /\ TaskInv'
      <3>1. job[n].tries + 1 \in 0 .. MaxTries
        BY <2>1, MaxAttemptsAssumption, ArqAssumption DEF DeliverAndClaim, ArqTypeOK, MaxTries
      <3>2. job' = [job EXCEPT ![n] = [state |-> "running", tries |-> job[n].tries + 1]]
        BY <2>1 DEF DeliverAndClaim
      <3>3. job' \in [JobIds -> [state: JobStates, tries: 0 .. MaxTries]]
        BY <3>1, <3>2 DEF ArqTypeOK, JobStates
      <3>4. /\ job[n].state = "queued" /\ job'[n].state = "running"
            /\ \A m \in JobIds \ {n} : job'[m] = job[m]
        BY <2>1, <3>2 DEF DeliverAndClaim, ArqTypeOK
      <3>5. /\ task' \in [Workers -> JobIds]
            /\ task'[w] = n
            /\ \A v \in Workers \ {w} : task'[v] = task[v] /\ run'[v] = run[v]
        BY <2>1 DEF DeliverAndClaim, Claim, TakeRow, ArqTypeOK, TypeOK
      <3>6. \A v \in Workers \ {w} : run[v].pc # "idle" => task[v] # n
        BY <3>4 DEF TaskInv
      <3>7. TaskInv'
        <4>1. \A v \in Workers : run'[v].pc # "idle" => job'[task'[v]].state = "running"
          <5>1. \A v \in Workers \ {w} : task[v] \in JobIds
            BY DEF ArqTypeOK
          <5> QED
            BY <3>4, <3>5, <3>6, <5>1 DEF TaskInv
        <4>2. \A u, v \in Workers :
                run'[u].pc # "idle" /\ run'[v].pc # "idle" /\ task'[u] = task'[v] => u = v
          BY <3>5, <3>6 DEF TaskInv
        <4>3. \A m \in JobIds : job'[m].state = "unknown" => job'[m].tries = 0
          BY <3>4 DEF TaskInv
        <4> QED
          BY <4>1, <4>2, <4>3 DEF TaskInv
      <3> QED
        BY <3>3, <3>5, <3>7
    <2>2. ASSUME NEW w \in Workers, NEW n \in JobIds, DeliverAndSkip(w, n) \/ GiveUp(w, n)
          PROVE  /\ job' \in [JobIds -> [state: JobStates, tries: 0 .. MaxTries]]
                 /\ task' \in [Workers -> JobIds]
                 /\ TaskInv'
      <3>1. UNCHANGED <<run, task>>
        BY <2>2 DEF DeliverAndSkip, GiveUp
      <3>2. PICK tries \in 0 .. MaxTries :
                job' = [job EXCEPT ![n] = [state |-> "kept", tries |-> tries]]
        <4>1. job[n].tries \in 0 .. MaxTries /\ job[n].tries + 1 \in Nat
          BY DEF ArqTypeOK
        <4>2. CASE DeliverAndSkip(w, n)
          <5>1. job[n].tries + 1 \in 0 .. MaxTries
            BY <4>1, <4>2, MaxAttemptsAssumption, ArqAssumption DEF DeliverAndSkip, MaxTries
          <5> QED
            BY <4>2, <5>1 DEF DeliverAndSkip
        <4>3. CASE GiveUp(w, n)
          <5>1. [job[n] EXCEPT !.state = "kept"] = [state |-> "kept", tries |-> job[n].tries]
            BY DEF ArqTypeOK
          <5> QED
            BY <4>1, <4>3, <5>1 DEF GiveUp
        <4> QED
          BY <2>2, <4>2, <4>3
      <3>3. job' \in [JobIds -> [state: JobStates, tries: 0 .. MaxTries]]
        BY <3>2 DEF ArqTypeOK, JobStates
      <3>4. /\ job[n].state = "queued" /\ job'[n].state = "kept"
            /\ \A m \in JobIds \ {n} : job'[m] = job[m]
        BY <2>2, <3>2 DEF DeliverAndSkip, GiveUp, ArqTypeOK
      <3>5. \A v \in Workers : run[v].pc # "idle" => task[v] # n
        BY <3>4 DEF TaskInv
      <3>6. TaskInv'
        BY <3>1, <3>4, <3>5 DEF TaskInv, ArqTypeOK
      <3> QED
        BY <3>1, <3>3, <3>6 DEF ArqTypeOK
    <2>3. ASSUME NEW w \in Workers, ArqReturn(w) \/ WorkerDies(w) \/ Cancelled(w)
          PROVE  /\ job' \in [JobIds -> [state: JobStates, tries: 0 .. MaxTries]]
                 /\ task' \in [Workers -> JobIds]
                 /\ TaskInv'
      <3>1. PICK state \in {"queued", "kept"} : EndTask(w, state)
        BY <2>3 DEF ArqReturn, WorkerDies, Cancelled
      <3>2. run[w].pc # "idle" /\ run' = [run EXCEPT ![w] = Idle]
        BY <2>3 DEF ArqReturn, WorkerDies, Cancelled, Return, Crash
      <3> QED
        BY <3>1, <3>2, TaskEnds
    <2>4. ASSUME NEW h \in Handlers, ArqEnqueue(h)
          PROVE  /\ job' \in [JobIds -> [state: JobStates, tries: 0 .. MaxTries]]
                 /\ task' \in [Workers -> JobIds]
                 /\ TaskInv'
      <3>1. UNCHANGED <<run, task>>
        BY <2>4 DEF ArqEnqueue, Enqueue
      <3>2. \A n \in JobIds : \/ job'[n] = job[n]
                               \/ /\ job[n].state = "unknown"
                                  /\ job'[n] = [job[n] EXCEPT !.state = "queued"]
        BY <2>4 DEF ArqEnqueue, ArqTypeOK
      <3>3. job' = [m \in JobIds |-> job'[m]]
        BY <2>4 DEF ArqEnqueue, ArqTypeOK
      <3>4. \A n \in JobIds : job'[n] \in [state: JobStates, tries: 0 .. MaxTries]
        BY <3>2 DEF ArqTypeOK, JobStates
      <3>5. job' \in [JobIds -> [state: JobStates, tries: 0 .. MaxTries]]
        BY <3>3, <3>4
      <3>6. \A n \in JobIds : job'[n].state = "unknown" \/ job[n].state = "running"
                              => job'[n] = job[n]
        BY <3>2 DEF ArqTypeOK
      <3>7. TaskInv'
        BY <3>1, <3>6 DEF TaskInv, ArqTypeOK
      <3> QED
        BY <3>1, <3>5, <3>7 DEF ArqTypeOK
    <2>5. ASSUME NEW n \in JobIds, ResultExpires(n)
          PROVE  /\ job' \in [JobIds -> [state: JobStates, tries: 0 .. MaxTries]]
                 /\ task' \in [Workers -> JobIds]
                 /\ TaskInv'
      <3>1. UNCHANGED <<run, task>> /\ job' = [job EXCEPT ![n] = Unknown]
        BY <2>5 DEF ResultExpires
      <3>2. job' \in [JobIds -> [state: JobStates, tries: 0 .. MaxTries]]
        BY <3>1, MaxAttemptsAssumption, ArqAssumption
           DEF ArqTypeOK, Unknown, JobStates, MaxTries
      <3>3. /\ job[n].state = "kept" /\ job'[n] = Unknown
            /\ \A m \in JobIds \ {n} : job'[m] = job[m]
        BY <2>5, <3>1 DEF ResultExpires, ArqTypeOK
      <3>4. TaskInv'
        BY <3>1, <3>3 DEF TaskInv, ArqTypeOK, Unknown
      <3> QED
        BY <3>1, <3>2, <3>4 DEF ArqTypeOK
    <2>6. CASE QuietStep
      BY <2>0, <2>6, QuietRuns DEF TaskInv, QuietStep, ArqTypeOK
    <2> QED
      BY <2>1, <2>2, <2>3, <2>4, <2>5, <2>6 DEF ArqNext, Deliver, QuietStep, arqVars, vars
  <1> QED
    BY <1>1, <1>2, ArqImplementsResumeJob, TypeCorrect, PTL DEF ArqSpec

\* What a step can make of one job.
JobEnds(n) ==
    /\ job'[n].state \in {"unknown", "kept"}
    /\ job'[n].state = "kept" => job[n].state # "unknown"

JobStays(n) ==
    /\ job[n].state \in {"queued", "running"}
    /\ job'[n].state \in {"queued", "running"}
    /\ job'[n].tries = job[n].tries

JobStarts(n) ==
    /\ job[n].state = "unknown"
    /\ job'[n].state = "queued"
    /\ job'[n].tries = 0
    /\ \E h \in Handlers : handler[h].pc = "enqueueing" /\ handler[h].copy.attempts = n

JobIsTried(n) ==
    /\ job[n].state = "queued"
    /\ job'[n].state = "running"
    /\ job'[n].tries = job[n].tries + 1
    /\ \E w \in Workers : Claim(w)

LEMMA JobMoves ==
    ASSUME ArqTypeOK, TaskInv, [ArqNext]_arqVars, NEW n \in JobIds
    PROVE  JobEnds(n) \/ JobStays(n) \/ JobStarts(n) \/ JobIsTried(n)
  <1>0. job[n] \in [state: JobStates, tries: 0 .. MaxTries]
    BY DEF ArqTypeOK
  <1>1. CASE job'[n] = job[n]
    BY <1>0, <1>1 DEF JobEnds, JobStays, JobStates
  <1>2. ASSUME NEW w \in Workers, NEW m \in JobIds, DeliverAndClaim(w, m), m = n
        PROVE  JobIsTried(n)
    BY <1>2 DEF DeliverAndClaim, ArqTypeOK, JobIsTried
  <1>3. ASSUME NEW w \in Workers, NEW m \in JobIds,
               DeliverAndSkip(w, m) \/ GiveUp(w, m), m = n
        PROVE  JobEnds(n)
    BY <1>3 DEF DeliverAndSkip, GiveUp, ArqTypeOK, JobEnds
  <1>4. ASSUME NEW w \in Workers, ArqReturn(w) \/ WorkerDies(w) \/ Cancelled(w), task[w] = n
        PROVE  JobEnds(n) \/ JobStays(n)
    <2>1. PICK state \in {"queued", "kept"} : EndTask(w, state)
      BY <1>4 DEF ArqReturn, WorkerDies, Cancelled
    <2>2. run[w].pc # "idle" /\ run' = [run EXCEPT ![w] = Idle]
      BY <1>4 DEF ArqReturn, WorkerDies, Cancelled, Return, Crash
    <2>3. job[n].state = "running" /\ job'[n].state = state /\ job'[n].tries = job[n].tries
      BY <1>4, <2>1, <2>2, TaskEnds DEF TaskInv
    <2> QED
      BY <2>3 DEF JobEnds, JobStays
  <1>5. ASSUME NEW h \in Handlers, ArqEnqueue(h), job'[n] # job[n]
        PROVE  JobStarts(n)
    <2>1. handler[h].pc = "enqueueing"
      BY <1>5 DEF ArqEnqueue, Enqueue
    <2>2. /\ handler[h].copy.attempts = n
          /\ job[n].state = "unknown"
          /\ job'[n] = [job[n] EXCEPT !.state = "queued"]
      BY <1>5 DEF ArqEnqueue, ArqTypeOK
    <2>3. job'[n].state = "queued" /\ job'[n].tries = 0
      BY <1>0, <2>2 DEF TaskInv
    <2> QED
      BY <2>1, <2>2, <2>3 DEF JobStarts
  <1>6. ASSUME NEW m \in JobIds, ResultExpires(m), m = n
        PROVE  JobEnds(n)
    BY <1>6 DEF ResultExpires, Unknown, ArqTypeOK, JobEnds
  <1>7. ASSUME NEW w \in Workers, NEW m \in JobIds, m # n,
               DeliverAndClaim(w, m) \/ DeliverAndSkip(w, m) \/ GiveUp(w, m)
        PROVE  job'[n] = job[n]
    BY <1>7 DEF DeliverAndClaim, DeliverAndSkip, GiveUp, ArqTypeOK
  <1>8. ASSUME NEW w \in Workers, ArqReturn(w) \/ WorkerDies(w) \/ Cancelled(w), task[w] # n
        PROVE  job'[n] = job[n]
    BY <1>8 DEF ArqReturn, WorkerDies, Cancelled, EndTask, ArqTypeOK
  <1>9. ASSUME NEW m \in JobIds, m # n, ResultExpires(m)
        PROVE  job'[n] = job[n]
    BY <1>9 DEF ResultExpires, ArqTypeOK
  <1>10. CASE UNCHANGED job
    BY <1>1, <1>10
  <1> QED
    BY <1>1, <1>2, <1>3, <1>4, <1>5, <1>6, <1>7, <1>8, <1>9, <1>10
       DEF ArqNext, Deliver, arqVars

\* An id with this count has been handed out for the row: it is below the
\* row's count, or the row waits to be claimed under it.
Behind(n, r) == n < r.attempts \/ (n = r.attempts /\ r.status = "pending")

\* While timing is kept no id arq holds, or is about to be given, is one the
\* next dispatch will need, and no job has been tried oftener than the row
\* was claimed.
JobsBehind ==
    /\ row.attempts \in JobIds
    /\ RowExists =>
         /\ \A h \in Handlers :
              handler[h].pc = "enqueueing" => Behind(handler[h].copy.attempts, row)
         /\ \A n \in JobIds : job[n].state # "unknown" => Behind(n, row)
         /\ \A n \in JobIds :
              job[n].state \in {"queued", "running"} => job[n].tries <= row.attempts

\* What is owed an enqueue anew is the row as it now waits.
LEMMA EnqueuesWhatWaits ==
    ASSUME ~RetryRaces, TypeOK, [Next]_vars, NEW h \in Handlers,
           handler'[h].pc = "enqueueing", handler'[h] # handler[h]
    PROVE  handler'[h].copy.attempts = row'.attempts /\ row'.status = "pending"
  <1>1. CASE Reclaim
    BY <1>1, ReclaimEffect
  <1>2. CASE RetryCommit(h)
    <2>1. handler[h].copy = row /\ row \in Rows
      BY <1>2 DEF RetryCommit, TypeOK
    <2>2. row'.status = "pending" /\ row'.attempts = row.attempts
      BY <1>2, <2>1, RetryCommitEffect DEF Column
    <2>3. PICK new \in Rows :
              /\ handler' = [handler EXCEPT ![h] = [pc |-> "enqueueing", copy |-> new]]
              /\ new.attempts = handler[h].copy.attempts
      BY <1>2, RetryCommitEffect
    <2> QED
      BY <2>1, <2>2, <2>3 DEF TypeOK
  <1>3. CASE Reupload(h)
    BY <1>3 DEF Reupload, TypeOK
  <1>4. ASSUME NEW g \in Handlers, g # h, RetryCommit(g) \/ Reupload(g)
        PROVE  handler'[h] = handler[h]
    BY <1>4 DEF RetryCommit, Reupload, TypeOK
  <1>5. ASSUME NEW g \in Handlers, RetryRead(g) \/ Enqueue(g) \/ HandlerDies(g)
        PROVE  handler'[h] = handler[h] \/ handler'[h].pc # "enqueueing"
    BY <1>5 DEF RetryRead, Enqueue, HandlerDies, Idle, TypeOK
  <1>6. ASSUME NEW w \in Workers, RunStep(w) PROVE handler' = handler
    BY <1>6 DEF RunStep, Claim, Parse, ParseFails, Finish, Fail, Break, Reread, RecordBreak,
                Escape, Return, Crash
  <1>7. CASE TimeoutPasses \/ Delete \/ UNCHANGED vars
    BY <1>7 DEF TimeoutPasses, Delete, vars
  <1> QED
    BY <1>1, <1>2, <1>3, <1>4, <1>5, <1>6, <1>7 DEF Next, HandlerStep

\* No step undoes Behind.
LEMMA BehindStays ==
    ASSUME ~SlowWorkers, ~RetryRaces, TypeOK, TimelyInv, [Next]_vars, RowExists'
    PROVE  /\ RowExists
           /\ row.attempts \in Nat /\ row'.attempts \in Nat
           /\ row.attempts <= row'.attempts
           /\ \A w \in Workers : Claim(w) => row'.attempts = row.attempts + 1
           /\ \A n \in Nat : Behind(n, row) => Behind(n, row')
  <1>1. row.attempts \in Nat
    BY DEF TypeOK, Rows
  <1>2. ASSUME NEW w \in Workers, Claim(w)
        PROVE  RowExists /\ row'.attempts = row.attempts + 1
    BY <1>2, ClaimEffect DEF Claim, TakeRow, Claimable
  <1>3. CASE RowStands \/ ClaimEnds \/ Replayed
    <2>1. /\ RowExists
          /\ row'.attempts = row.attempts
          /\ row.status = "pending" => row'.status = "pending"
      BY <1>3 DEF RowStands, ClaimEnds, Replayed, RowExists
    <2> QED
      BY <1>1, <1>2, <2>1 DEF Behind
  <1>4. ~Delete
    BY DEF Delete, RowExists, NoCopy
  <1> QED
    BY <1>1, <1>2, <1>3, <1>4, RowMoves DEF Behind

LEMMA JobsStayBehind ==
    ASSUME ~SlowWorkers, ~RetryRaces, ArqTypeOK, TypeOK', TimelyInv, TaskInv, JobsBehind,
           [Next]_vars, [ArqNext]_arqVars
    PROVE  JobsBehind'
  <1>0. TypeOK
    BY DEF ArqTypeOK
  <1>1. row'.attempts \in JobIds
    <2>1. ASSUME NEW w \in Workers, Claim(w) PROVE row'.attempts \in JobIds
      BY <1>0, <2>1, ClaimEffect, ConstantsAssumption DEF Claim, TakeRow, JobsBehind, JobIds
    <2>2. CASE Delete
      BY <2>2, ConstantsAssumption DEF Delete, NoCopy, JobIds
    <2> QED
      BY <1>0, <2>1, <2>2, RowMoves DEF RowStands, ClaimEnds, Replayed, JobsBehind
  <1> SUFFICES ASSUME RowExists'
               PROVE  /\ \A h \in Handlers : handler'[h].pc = "enqueueing"
                                             => Behind(handler'[h].copy.attempts, row')
                      /\ \A n \in JobIds : job'[n].state # "unknown" => Behind(n, row')
                      /\ \A n \in JobIds : job'[n].state \in {"queued", "running"}
                                           => job'[n].tries <= row'.attempts
    BY <1>1 DEF JobsBehind
  <1>2. /\ RowExists
        /\ row.attempts \in Nat /\ row'.attempts \in Nat
        /\ row.attempts <= row'.attempts
        /\ \A w \in Workers : Claim(w) => row'.attempts = row.attempts + 1
        /\ \A n \in Nat : Behind(n, row) => Behind(n, row')
    BY <1>0, BehindStays
  <1>3. ASSUME NEW h \in Handlers, handler'[h].pc = "enqueueing"
        PROVE  Behind(handler'[h].copy.attempts, row')
    <2>1. CASE handler'[h] = handler[h]
      <3>1. handler[h].copy.attempts \in Nat
        BY <1>0 DEF TypeOK, Rows
      <3> QED
        BY <1>2, <1>3, <2>1, <3>1 DEF JobsBehind
    <2>2. CASE handler'[h] # handler[h]
      BY <1>0, <1>3, <2>2, EnqueuesWhatWaits DEF Behind
    <2> QED
      BY <2>1, <2>2
  <1>4. ASSUME NEW n \in JobIds
        PROVE  /\ job'[n].state # "unknown" => Behind(n, row')
               /\ job'[n].state \in {"queued", "running"} => job'[n].tries <= row'.attempts
    <2>1. n \in Nat /\ job[n].tries \in Nat
      BY MaxAttemptsAssumption, ArqAssumption DEF JobIds, ArqTypeOK, MaxTries
    <2>2. CASE JobEnds(n)
      BY <1>2, <2>1, <2>2 DEF JobEnds, JobsBehind
    <2>3. CASE JobStays(n)
      BY <1>2, <2>1, <2>3 DEF JobStays, JobsBehind
    <2>4. CASE JobStarts(n)
      BY <1>2, <2>1, <2>4 DEF JobStarts, JobsBehind
    <2>5. CASE JobIsTried(n)
      BY <1>2, <2>1, <2>5 DEF JobIsTried, JobsBehind
    <2> QED
      BY <2>2, <2>3, <2>4, <2>5, JobMoves
  <1> QED
    BY <1>3, <1>4

LEMMA JobsAreBehind ==
    ASSUME ~SlowWorkers, ~RetryRaces
    PROVE  ArqSpec => []JobsBehind
  <1>1. ArqInit => JobsBehind
    BY ConstantsAssumption
       DEF ArqInit, Init, NewRow, Idle, JobsBehind, JobIds, Unknown, Behind
  <1>2. /\ ArqTypeOK /\ TypeOK' /\ TimelyInv /\ TaskInv /\ JobsBehind
        /\ [Next]_vars /\ [ArqNext]_arqVars
        => JobsBehind'
    BY JobsStayBehind
  <1> QED
    BY <1>1, <1>2, ArqImplementsResumeJob, ArqTypeCorrect, TypeCorrect, Timely, PTL
       DEF ArqSpec, Spec

ArqInv == ArqTypeOK /\ TaskInv /\ JobsBehind /\ TimelyInv

LEMMA ArqInvHolds ==
    ASSUME ~SlowWorkers, ~RetryRaces
    PROVE  ArqSpec => [][ArqInv /\ [Next]_vars /\ [ArqNext]_arqVars]_arqVars /\ []ArqInv
  <1>1. ArqTypeOK /\ TaskInv /\ JobsBehind /\ TimelyInv => ArqInv
    BY DEF ArqInv
  <1>2. UNCHANGED arqVars => UNCHANGED vars
    BY DEF arqVars, vars
  <1> QED
    BY <1>1, <1>2, ArqImplementsResumeJob, ArqTypeCorrect, JobsAreBehind, Timely, PTL
       DEF ArqSpec, Spec

LEMMA OwedIdsExist ==
    ASSUME ArqInv, RowExists, NEW h \in Handlers, handler[h].pc = "enqueueing"
    PROVE  handler[h].copy.attempts \in JobIds
  <1>1. row.attempts \in 0 .. MaxClaims /\ handler[h].copy.attempts \in Nat
    BY DEF ArqInv, JobsBehind, JobIds, ArqTypeOK, TypeOK, Rows
  <1>2. Behind(handler[h].copy.attempts, row)
    BY DEF ArqInv, JobsBehind
  <1> QED
    BY <1>1, <1>2, ConstantsAssumption DEF Behind, JobIds

\* An enqueue that is owed under the row's own count will not be refused,
\* unless the row was waiting under that count before.
LEMMA DispatchWillBeTaken ==
    ASSUME ArqInv, row.status # "pending", RowExists, row'.attempts = row.attempts,
           job' = job, row'.status = "pending", DispatchOwed'
    PROVE  PendingIsDispatched'
  <1>1. row.attempts \in JobIds /\ job'[row.attempts].state = "unknown"
    BY DEF ArqInv, JobsBehind, JobIds, Behind
  <1> QED
    BY <1>1 DEF DispatchOwed, PendingIsDispatched

LEMMA DispatchStays ==
    ASSUME ~SlowWorkers, ~RetryRaces, ~DiesOwing, ArqInv, [Next]_vars, [ArqNext]_arqVars,
           PendingIsDispatched, ~(\E w \in Workers, n \in JobIds : GiveUp(w, n))
    PROVE  PendingIsDispatched'
  <1> SUFFICES ASSUME row'.status = "pending" PROVE PendingIsDispatched'
    BY DEF PendingIsDispatched
  <1>0. TypeOK /\ ArqTypeOK /\ TaskInv /\ TimelyInv
    BY DEF ArqInv, ArqTypeOK
  <1>1. \/ /\ RowStands /\ row.status = "pending"
        \/ /\ row.status # "pending" /\ RowExists /\ row'.attempts = row.attempts
           /\ DispatchOwed' /\ ~RowStands
    <2>1. ASSUME NEW w \in Workers, Claim(w) PROVE FALSE
      BY <1>0, <2>1, ClaimEffect
    <2>2. ~Delete
      BY DEF Delete, NoCopy
    <2> QED
      BY <1>0, <2>1, <2>2, RowMoves DEF RowStands, ClaimEnds, Replayed, RowExists
  <1>2. ASSUME NEW w \in Workers, NEW n \in JobIds, DeliverAndClaim(w, n) PROVE FALSE
    BY <1>0, <1>2, ClaimEffect DEF DeliverAndClaim
  <1>3. ASSUME NEW w \in Workers, NEW n \in JobIds, DeliverAndSkip(w, n) PROVE FALSE
    BY <1>3 DEF DeliverAndSkip, Claimable, RowExists, NotOursToRun
  <1>4. ASSUME NEW w \in Workers, ArqReturn(w) \/ WorkerDies(w) \/ Cancelled(w)
        PROVE  PendingIsDispatched'
    <2>1. /\ row' = row /\ handler' = handler
          /\ run[w].pc # "idle" /\ run' = [run EXCEPT ![w] = Idle]
      BY <1>4 DEF ArqReturn, WorkerDies, Cancelled, Return, Crash
    <2>2. PICK state \in {"queued", "kept"} :
             EndTask(w, state) /\ (run[w].pc = "retry" => state = "queued")
      BY <1>4 DEF ArqReturn, WorkerDies, Cancelled, Working
    <2>3. /\ task[w] \in JobIds
          /\ job[task[w]].state = "running"
          /\ job'[task[w]].state = state
          /\ \A n \in JobIds \ {task[w]} : job'[n] = job[n]
          /\ \A v \in Workers \ {w} : run'[v] = run[v]
      <3>1. task[w] \in JobIds /\ job[task[w]].state = "running"
        BY <1>0, <2>1 DEF TaskInv, ArqTypeOK
      <3>2. /\ job'[task[w]].state = state
            /\ \A n \in JobIds \ {task[w]} : job'[n] = job[n]
        <4>1. EndTask(w, state)
          BY <2>2
        <4>2. run[w].pc # "idle" /\ run' = [run EXCEPT ![w] = Idle]
          BY <2>1
        <4> QED
          BY <1>0, <4>1, <4>2, TaskEnds
      <3>3. \A v \in Workers \ {w} : run'[v] = run[v]
        BY <1>0, <2>1 DEF TypeOK
      <3> QED
        BY <3>1, <3>2, <3>3
    <2>4. CASE \E n \in JobIds : job[n].state = "queued"
      BY <2>3, <2>4 DEF PendingIsDispatched
    <2>5. ASSUME NEW v \in Workers, run[v].pc = "retry" PROVE PendingIsDispatched'
      <3>1. CASE v = w
        <4>1. job'[task[w]].state = "queued"
          BY <2>2, <2>3, <2>5, <3>1
        <4> QED
          BY <2>3, <4>1 DEF PendingIsDispatched
      <3>2. CASE v # w
        BY <2>3, <2>5, <3>2 DEF PendingIsDispatched
      <3> QED
        BY <3>1, <3>2
    <2>6. ASSUME NEW h \in Handlers, handler[h].pc = "enqueueing",
                 job[handler[h].copy.attempts].state = "unknown"
          PROVE  PendingIsDispatched'
      <3>1. handler[h].copy.attempts \in JobIds
        BY <2>1, <2>6, OwedIdsExist DEF RowExists
      <3> QED
        BY <2>1, <2>3, <2>6, <3>1 DEF PendingIsDispatched
    <2> QED
      BY <2>1, <2>4, <2>5, <2>6 DEF PendingIsDispatched
  <1>5. ASSUME NEW h \in Handlers, ArqEnqueue(h) PROVE PendingIsDispatched'
    <2>1. /\ row' = row /\ run' = run /\ handler[h].pc = "enqueueing"
          /\ \A g \in Handlers \ {h} : handler'[g] = handler[g]
      BY <1>0, <1>5 DEF ArqEnqueue, Enqueue, TypeOK
    <2>2. handler[h].copy.attempts \in JobIds
      BY <2>1, OwedIdsExist DEF RowExists
    <2>3. /\ job[handler[h].copy.attempts].state = "unknown"
             => job'[handler[h].copy.attempts].state = "queued"
          /\ job[handler[h].copy.attempts].state # "unknown" => job' = job
          /\ \A n \in JobIds : job[n].state = "queued" => job'[n].state = "queued"
      BY <1>0, <1>5, <2>2 DEF ArqEnqueue, ArqTypeOK
    <2> QED
      BY <2>1, <2>2, <2>3 DEF PendingIsDispatched
  <1>6. ASSUME NEW n \in JobIds, ResultExpires(n) PROVE PendingIsDispatched'
    <2>1. /\ UNCHANGED <<row, run, handler>>
          /\ job[n].state = "kept" /\ job'[n].state = "unknown"
          /\ \A m \in JobIds \ {n} : job'[m] = job[m]
      BY <1>0, <1>6 DEF ResultExpires, Unknown, ArqTypeOK
    <2>2. \A h \in Handlers : handler[h].pc = "enqueueing" => handler[h].copy.attempts \in JobIds
      BY <2>1, OwedIdsExist DEF RowExists
    <2> QED
      BY <2>1, <2>2 DEF PendingIsDispatched
  <1>7. CASE QuietStep /\ RowStands
    <2>1. job' = job /\ \A w \in Workers : run[w].pc = "retry" => run'[w].pc = "retry"
      BY <1>0, <1>7, QuietRuns DEF QuietStep
    <2>2. ASSUME NEW h \in Handlers, handler[h].pc = "enqueueing" PROVE handler'[h] = handler[h]
      <3>1. ASSUME NEW w \in Workers, Work(w) PROVE handler' = handler
        BY <3>1 DEF Work, Parse, ParseFails, Finish, Fail, Break, Reread, RecordBreak, Escape
      <3>2. ASSUME NEW g \in Handlers, Request(g) PROVE handler'[h] = handler[h]
        BY <1>0, <2>2, <3>2 DEF Request, RetryRead, RetryCommit, Reupload, HandlerDies, TypeOK
      <3>3. CASE Reclaim
        BY <1>1, <1>7, <3>3 DEF Reclaim, IsStalled, RowStands
      <3>4. CASE TimeoutPasses \/ Delete \/ UNCHANGED vars
        BY <3>4 DEF TimeoutPasses, Delete, vars
      <3> QED
        BY <1>7, <3>1, <3>2, <3>3, <3>4 DEF QuietStep
    <2> QED
      BY <1>1, <1>7, <2>1, <2>2 DEF PendingIsDispatched
  <1>8. CASE QuietStep /\ ~RowStands
    BY <1>1, <1>8, DispatchWillBeTaken DEF QuietStep
  <1> QED
    BY <1>2, <1>3, <1>4, <1>5, <1>6, <1>7, <1>8
       DEF ArqNext, Deliver, QuietStep, arqVars, vars

\* While timing is kept, and no process dies owing an enqueue, nothing but
\* arq's own counter takes a waiting row's last dispatch away: no refusal, no
\* kept result, no death, cancellation or race.
THEOREM DispatchesAreKept ==
    ASSUME ~SlowWorkers, ~RetryRaces, ~DiesOwing
    PROVE  ArqSpec => DispatchIsKept
  <1>1. ArqInv /\ [Next]_vars /\ [ArqNext]_arqVars
        => (PendingIsDispatched /\ ~(\E w \in Workers, n \in JobIds : GiveUp(w, n))
              => PendingIsDispatched')
    BY DispatchStays
  <1> QED
    BY <1>1, ArqInvHolds, PTL DEF DispatchIsKept

\* And arq's counter stays out of it until the row has been claimed as often
\* as max_tries: up to then a waiting row has its dispatch.
THEOREM DispatchedWithinTries ==
    ASSUME ~SlowWorkers, ~RetryRaces, ~DiesOwing
    PROVE  ArqSpec => [](row.attempts < MaxTries => PendingIsDispatched)
  <1>1. ArqInit => (row.attempts < MaxTries => PendingIsDispatched)
    <2>1. 0 \in JobIds
      BY ConstantsAssumption DEF JobIds
    <2> QED
      BY <2>1 DEF ArqInit, Unknown, PendingIsDispatched
  <1>2. ArqInv /\ ArqInv' /\ [Next]_vars /\ [ArqNext]_arqVars
          /\ (row.attempts < MaxTries => PendingIsDispatched)
        => (row.attempts < MaxTries => PendingIsDispatched)'
    <2> SUFFICES ASSUME ArqInv, [Next]_vars, [ArqNext]_arqVars,
                        row.attempts < MaxTries => PendingIsDispatched,
                        row'.attempts < MaxTries, row'.status = "pending"
                 PROVE  PendingIsDispatched'
      BY DEF PendingIsDispatched
    <2>1. /\ RowExists
          /\ row.attempts \in Nat /\ row'.attempts \in Nat /\ row.attempts <= row'.attempts
      BY BehindStays DEF ArqInv, ArqTypeOK, RowExists
    <2>2. MaxTries \in Nat
      BY MaxAttemptsAssumption, ArqAssumption DEF MaxTries
    <2>3. row.attempts < MaxTries
      BY <2>1, <2>2
    <2>4. ~(\E w \in Workers, n \in JobIds : GiveUp(w, n))
      <3>1. ASSUME NEW n \in JobIds, job[n].state = "queued" PROVE job[n].tries # MaxTries
        <4>1. job[n].tries \in Nat /\ job[n].tries <= row.attempts
          BY <2>1, <2>2, <3>1 DEF ArqInv, ArqTypeOK, JobsBehind
        <4> QED
          BY <2>1, <2>2, <2>3, <4>1
      <3> QED
        BY <3>1 DEF GiveUp
    <2> QED
      BY <2>3, <2>4, DispatchStays
  <1> QED
    BY <1>1, <1>2, ArqInvHolds, ArqImplementsResumeJob, PTL DEF ArqSpec, Spec

-----------------------------------------------------------------------------
(* The stream: what a page is told of a resume, whatever the timing of the *)
(* runs, the requests, the stream and the page itself.                     *)

\* Whoever watches, the row moves as ResumeJob has it move.
THEOREM WatchingImplementsResumeJob == WatchSpec => Spec
  <1>1. WatchInit => Init
    BY DEF WatchInit
  <1>2. [WatchNext]_watchVars => [Next]_vars
    BY DEF WatchNext, WatchStep, watchVars, StreamStep, Report, ReportGone, PageStep,
           TakeFrame, ReadRow,
           ReadProfile, ConnectionBreaks, PollRunsLate, WatchAgain, vars
  <1> QED
    BY <1>1, <1>2, PTL DEF WatchSpec, Spec

-----------------------------------------------------------------------------
\* Types

LEMMA PayloadType ==
    ASSUME NEW r \in Rows
    PROVE  PayloadOf(r) \in Payloads
  BY DEF Rows, PayloadOf, Payloads, CanRetry, IsStalled

LEMMA NothingShownType == NoPayload \in Payloads
  BY NoCopyType, PayloadType DEF NoPayload

\* What one turn of the generator writes: the row's payload, and then at
\* most one frame that ends the stream.
LEMMA TurnFrames ==
    ASSUME TypeOK, NEW late \in BOOLEAN, NEW tail, tail = StatusFrame \o LastFrame(late)
    PROVE  /\ tail \in Seq(Frames)
           /\ \A k \in 1 .. Len(tail) :
                /\ tail[k].event = "status" => tail[k].data = PayloadOf(row)
                /\ tail[k].event # "status" => k = Len(tail) /\ LastFrame(late) # <<>>
  <1> DEFINE p == PayloadOf(row)
  <1>1. p \in Payloads /\ NoPayload \in Payloads
    BY PayloadType, NothingShownType DEF TypeOK
  <1> HIDE DEF p
  <1>2. /\ StatusFrame \in Seq(Frames)
        /\ \A k \in 1 .. Len(StatusFrame) :
             StatusFrame[k].event = "status" /\ StatusFrame[k].data = p
    <2>1. CASE StatusFrame = <<>>
      BY <2>1
    <2>2. CASE StatusFrame = <<[event |-> "status", data |-> p]>>
      <3>1. [event |-> "status", data |-> p] \in Frames
        BY <1>1 DEF Frames
      <3> QED
        BY <2>2, <3>1
    <2> QED
      BY <2>1, <2>2 DEF StatusFrame, Frame, p
  <1>3. /\ LastFrame(late) \in Seq(Frames)
        /\ Len(LastFrame(late)) \in {0, 1}
        /\ Len(LastFrame(late)) = 0 <=> LastFrame(late) = <<>>
        /\ \A k \in 1 .. Len(LastFrame(late)) : LastFrame(late)[k].event # "status"
    <2>1. CASE LastFrame(late) = <<>>
      BY <2>1
    <2>2. ASSUME NEW event \in {"done", "timeout"}, NEW data \in Payloads,
                 LastFrame(late) = <<[event |-> event, data |-> data]>>
          PROVE  /\ LastFrame(late) \in Seq(Frames)
                 /\ Len(LastFrame(late)) \in {0, 1}
                 /\ Len(LastFrame(late)) = 0 <=> LastFrame(late) = <<>>
                 /\ \A k \in 1 .. Len(LastFrame(late)) : LastFrame(late)[k].event # "status"
      <3>1. [event |-> event, data |-> data] \in Frames
        BY DEF Frames
      <3> QED
        BY <2>2, <3>1
    <2>3. \/ LastFrame(late) = <<>>
          \/ \E event \in {"done", "timeout"}, data \in Payloads :
               LastFrame(late) = <<[event |-> event, data |-> data]>>
      BY <1>1 DEF LastFrame, Frame, p
    <2> QED
      BY <2>1, <2>2, <2>3
  <1>4. /\ tail \in Seq(Frames)
        /\ Len(tail) = Len(StatusFrame) + Len(LastFrame(late))
        /\ \A k \in 1 .. Len(tail) :
             tail[k] = IF k <= Len(StatusFrame) THEN StatusFrame[k]
                       ELSE LastFrame(late)[k - Len(StatusFrame)]
    <2> DEFINE a == StatusFrame
               b == LastFrame(late)
    <2>1. a \in Seq(Frames) /\ b \in Seq(Frames) /\ tail = a \o b
      BY <1>2, <1>3
    <2> HIDE DEF a, b
    <2>2. /\ tail \in Seq(Frames)
          /\ Len(tail) = Len(a) + Len(b)
          /\ \A k \in 1 .. Len(a) + Len(b) :
               tail[k] = IF k <= Len(a) THEN a[k] ELSE b[k - Len(a)]
      BY <2>1, ConcatProperties
    <2> QED
      BY <2>2 DEF a, b
  <1>5. Len(StatusFrame) \in Nat
    BY <1>2, LenProperties
  <1>6. ASSUME NEW k \in 1 .. Len(tail)
        PROVE  /\ tail[k].event = "status" => tail[k].data = p
               /\ tail[k].event # "status" => k = Len(tail) /\ LastFrame(late) # <<>>
    <2>1. CASE k <= Len(StatusFrame)
      BY <1>2, <1>4, <1>5, <2>1
    <2>2. CASE k > Len(StatusFrame)
      <3>1. k = Len(tail) /\ k - Len(StatusFrame) = 1 /\ Len(LastFrame(late)) = 1
        BY <1>3, <1>4, <1>5, <2>2
      <3> QED
        BY <1>3, <1>4, <1>5, <2>2, <3>1
    <2> QED
      BY <1>5, <2>1, <2>2
  <1> QED
    BY <1>4, <1>6 DEF p

\* What a turn leaves on the wire: what was there, and behind it only the
\* row's own payload and the end.
LEMMA ReportWrites ==
    ASSUME WatchTypeOK, NEW late \in BOOLEAN, Report(late)
    PROVE  /\ wire' \in Seq(Frames)
           /\ Len(wire) \in Nat /\ Len(wire') \in Nat /\ Len(wire) <= Len(wire')
           /\ \A i \in 1 .. Len(wire) : wire'[i] = wire[i] /\ wire[i].event = "status"
           /\ \A i \in (Len(wire) + 1) .. Len(wire') :
                /\ wire'[i].event = "status" => wire'[i].data = PayloadOf(row)
                /\ wire'[i].event # "status" => i = Len(wire') /\ ~stream'.open
  <1> DEFINE tail == StatusFrame \o LastFrame(late)
  <1>1. /\ tail \in Seq(Frames)
        /\ \A k \in 1 .. Len(tail) :
             /\ tail[k].event = "status" => tail[k].data = PayloadOf(row)
             /\ tail[k].event # "status" => k = Len(tail) /\ LastFrame(late) # <<>>
    <2>1. TypeOK
      BY DEF WatchTypeOK
    <2> QED
      BY <2>1, TurnFrames
  <1>2. StatusFrame \in Seq(Frames) /\ LastFrame(late) \in Seq(Frames) /\ wire \in Seq(Frames)
    <2>1. PayloadOf(row) \in Payloads /\ NoPayload \in Payloads
      BY PayloadType, NothingShownType DEF WatchTypeOK, TypeOK
    <2>2. \A event \in {"status", "done", "timeout"}, data \in Payloads :
             <<[event |-> event, data |-> data]>> \in Seq(Frames)
      <3> SUFFICES ASSUME NEW event \in {"status", "done", "timeout"}, NEW data \in Payloads
                   PROVE  <<[event |-> event, data |-> data]>> \in Seq(Frames)
        OBVIOUS
      <3>1. [event |-> event, data |-> data] \in Frames
        BY DEF Frames
      <3> QED
        BY <3>1
    <2>3. <<>> \in Seq(Frames)
      OBVIOUS
    <2> QED
      BY <2>1, <2>2, <2>3 DEF StatusFrame, LastFrame, Frame, WatchTypeOK
  <1>3. wire' = wire \o tail
    BY <1>2, ConcatAssociative DEF Report
  <1>4. stream.open /\ (LastFrame(late) # <<>> => ~stream'.open)
    BY DEF Report, NoStream, OpenStream
  <1> HIDE DEF tail
  <1>5. /\ wire' \in Seq(Frames)
        /\ Len(wire') = Len(wire) + Len(tail)
        /\ \A i \in 1 .. Len(wire) + Len(tail) :
             wire'[i] = IF i <= Len(wire) THEN wire[i] ELSE tail[i - Len(wire)]
    BY <1>1, <1>2, <1>3, ConcatProperties
  <1>6. Len(wire) \in Nat /\ Len(tail) \in Nat
    BY <1>1, <1>2, LenProperties
  <1>7. ASSUME NEW i \in 1 .. Len(wire)
        PROVE  wire'[i] = wire[i] /\ wire[i].event = "status"
    BY <1>4, <1>5, <1>6 DEF WatchTypeOK
  <1>8. ASSUME NEW i \in (Len(wire) + 1) .. Len(wire')
        PROVE  /\ wire'[i].event = "status" => wire'[i].data = PayloadOf(row)
               /\ wire'[i].event # "status" => i = Len(wire') /\ ~stream'.open
    <2>1. /\ i - Len(wire) \in 1 .. Len(tail)
          /\ wire'[i] = tail[i - Len(wire)]
          /\ i - Len(wire) = Len(tail) => i = Len(wire')
      BY <1>5, <1>6
    <2> QED
      BY <1>1, <1>4, <2>1
  <1> QED
    BY <1>5, <1>6, <1>7, <1>8

\* The same of the turn that finds no row, and of the reader's turn.
LEMMA GoneWrites ==
    ASSUME WatchTypeOK, ReportGone
    PROVE  /\ wire' \in Seq(Frames)
           /\ Len(wire) \in Nat /\ Len(wire') = Len(wire) + 1
           /\ \A i \in 1 .. Len(wire) : wire'[i] = wire[i] /\ wire[i].event = "status"
           /\ wire'[Len(wire')].event = "gone"
           /\ ~stream'.open
  <1>1. /\ wire \in Seq(Frames)
        /\ Frame("gone", NoPayload) \in Frames
        /\ wire' = Append(wire, Frame("gone", NoPayload))
    BY NothingShownType DEF WatchTypeOK, ReportGone, Frame, Frames
  <1>2. Len(wire) \in Nat
    BY <1>1, LenProperties
  <1>3. \A i \in 1 .. Len(wire) : wire[i].event = "status"
    BY DEF WatchTypeOK, ReportGone
  <1>4. ~stream'.open
    BY DEF ReportGone, NoStream, OpenStream
  <1> QED
    BY <1>1, <1>2, <1>3, <1>4, AppendProperties DEF Frame

LEMMA FrameTaken ==
    ASSUME WatchTypeOK, TakeFrame
    PROVE  /\ wire' \in Seq(Frames)
           /\ Len(wire) \in Nat \ {0} /\ Len(wire') = Len(wire) - 1
           /\ wire[1] \in Frames
           /\ \A i \in 1 .. Len(wire') : wire'[i] = wire[i + 1]
           /\ wire[1].event # "status" => Len(wire) = 1
           /\ page' = CASE wire[1].event = "status" -> [page EXCEPT !.shown = wire[1].data]
                        [] wire[1].event = "done"   -> [page EXCEPT !.pc = "fetch"]
                        [] OTHER                    -> [page EXCEPT !.pc = "poll"]
  <1>1. wire \in Seq(Frames) /\ wire # <<>> /\ wire' = Tail(wire)
    BY DEF WatchTypeOK, TakeFrame
  <1>2. Len(wire) \in Nat \ {0} /\ Head(wire) = wire[1]
    BY <1>1, EmptySeq
  <1>3. wire[1].event # "status" => Len(wire) = 1
    <2>1. 1 \in 1 .. Len(wire)
      BY <1>2
    <2>2. \A i \in 1 .. Len(wire) : wire[i].event # "status" => i = Len(wire)
      BY DEF WatchTypeOK
    <2> QED
      BY <2>1, <2>2, Zenon
  <1>4. wire[1] \in Frames
    BY <1>1, <1>2, ElementOfSeq
  <1> QED
    BY <1>1, <1>2, <1>3, <1>4, HeadTailProperties DEF TakeFrame

LEMMA PageTypes ==
    /\ OpenStream \in [open: BOOLEAN, last: Payloads]
    /\ NoStream \in [open: BOOLEAN, last: Payloads]
    /\ ~NoStream.open
    /\ NewPage \in [pc: PageStates, shown: Payloads, read: Payloads,
                     profile: BOOLEAN, late: BOOLEAN]
  BY NothingShownType DEF OpenStream, NoStream, NewPage, PageStates, Watching

\* Frames, payloads and the page keep their types, and what ends a stream is
\* its last frame.
THEOREM WatchTypeCorrect == WatchSpec => []WatchTypeOK
  <1>1. WatchInit => WatchTypeOK
    <2>1. Init => TypeOK
      BY NoCopyType, IdleType DEF Init, TypeOK
    <2> QED
      BY <2>1, PageTypes DEF WatchInit, WatchTypeOK
  <1>2. TypeOK' /\ WatchTypeOK /\ [WatchNext]_watchVars => WatchTypeOK'
    <2> SUFFICES ASSUME TypeOK', WatchTypeOK, [WatchNext]_watchVars
                 PROVE  /\ stream' \in [open: BOOLEAN, last: Payloads]
                        /\ wire' \in Seq(Frames)
                        /\ \A i \in 1 .. Len(wire') :
                             wire'[i].event # "status" => i = Len(wire') /\ ~stream'.open
                        /\ page' \in [pc: PageStates, shown: Payloads, read: Payloads,
                                      profile: BOOLEAN, late: BOOLEAN]
      BY DEF WatchTypeOK
    <2> DEFINE Typed == /\ stream' \in [open: BOOLEAN, last: Payloads]
                        /\ wire' \in Seq(Frames)
                        /\ \A i \in 1 .. Len(wire') :
                             wire'[i].event # "status" => i = Len(wire') /\ ~stream'.open
                        /\ page' \in [pc: PageStates, shown: Payloads, read: Payloads,
                                      profile: BOOLEAN, late: BOOLEAN]
    <2>0. /\ row \in Rows /\ profile \in BOOLEAN
          /\ PayloadOf(row) \in Payloads
      BY PayloadType DEF WatchTypeOK, TypeOK
    <2>1. CASE UNCHANGED <<stream, wire, page>>
      BY <2>1 DEF WatchTypeOK
    <2>2. ASSUME NEW late \in BOOLEAN, Report(late) PROVE Typed
      <3>1. stream' \in [open: BOOLEAN, last: Payloads]
        BY <2>0, <2>2, PageTypes DEF Report, WatchTypeOK
      <3>2. /\ wire' \in Seq(Frames)
            /\ \A i \in 1 .. Len(wire') :
                 wire'[i].event # "status" => i = Len(wire') /\ ~stream'.open
        BY <2>2, ReportWrites
      <3> QED
        BY <2>2, <3>1, <3>2 DEF Report, WatchTypeOK
    <2>3. CASE ReportGone
      <3>1. stream' \in [open: BOOLEAN, last: Payloads]
        BY <2>3, PageTypes DEF ReportGone
      <3>2. /\ wire' \in Seq(Frames)
            /\ \A i \in 1 .. Len(wire') :
                 wire'[i].event # "status" => i = Len(wire') /\ ~stream'.open
        BY <2>3, GoneWrites
      <3> QED
        BY <2>3, <3>1, <3>2 DEF ReportGone, WatchTypeOK
    <2>4. CASE TakeFrame
      <3>1. page' \in [pc: PageStates, shown: Payloads, read: Payloads,
                       profile: BOOLEAN, late: BOOLEAN]
        BY <2>4, FrameTaken DEF WatchTypeOK, Frames, PageStates, Watching
      <3>2. \A i \in 1 .. Len(wire') :
               wire'[i].event # "status" => i = Len(wire') /\ ~stream'.open
        <4>1. ASSUME NEW i \in 1 .. Len(wire'), wire'[i].event # "status"
              PROVE  i = Len(wire') /\ ~stream'.open
          <5>1. i + 1 \in 1 .. Len(wire) /\ wire[i + 1].event # "status"
            BY <2>4, <4>1, FrameTaken
          <5>2. i + 1 = Len(wire) /\ ~stream.open
            BY <5>1 DEF WatchTypeOK
          <5> QED
            BY <2>4, <5>2, FrameTaken DEF TakeFrame
        <4> QED
          BY <4>1
      <3> QED
        BY <2>4, <3>1, <3>2, FrameTaken DEF TakeFrame, WatchTypeOK
    <2>5. CASE ReadRow \/ ReadProfile \/ PollRunsLate
      <3>1. stream' = stream /\ wire' = wire
        BY <2>5 DEF ReadRow, ReadProfile, PollRunsLate
      <3>2. page \in [pc: PageStates, shown: Payloads, read: Payloads,
                      profile: BOOLEAN, late: BOOLEAN]
        BY DEF WatchTypeOK
      <3> DEFINE PageTyped == page' \in [pc: PageStates, shown: Payloads, read: Payloads,
                                         profile: BOOLEAN, late: BOOLEAN]
      <3>3. ASSUME ReadRow PROVE PageTyped
        BY <2>0, <3>2, <3>3, PageTypes DEF ReadRow, PageStates, Watching
      <3>4. ASSUME ReadProfile PROVE PageTyped
        <4>1. /\ page.read \in Payloads /\ profile \in BOOLEAN
              /\ {"returned", "gaveup", "poll"} \subseteq PageStates
          BY <2>0, <3>2 DEF PageStates, Watching
        <4>2. \/ page' = [NewPage EXCEPT !.pc = "returned", !.read = page.read,
                                        !.profile = profile]
              \/ page' = [NewPage EXCEPT !.pc = "gaveup"]
              \/ page' = [NewPage EXCEPT !.pc = "poll", !.shown = page.read]
          BY <3>4 DEF ReadProfile
        <4> QED
          BY <4>1, <4>2, PageTypes
      <3>5. ASSUME PollRunsLate PROVE PageTyped
        BY <3>2, <3>5 DEF PollRunsLate
      <3>6. PageTyped
        BY <2>5, <3>3, <3>4, <3>5
      <3> QED
        BY <3>1, <3>6 DEF WatchTypeOK
    <2>6. CASE ConnectionBreaks \/ WatchAgain
      <3>1. page' \in [pc: PageStates, shown: Payloads, read: Payloads,
                       profile: BOOLEAN, late: BOOLEAN]
        BY <2>6, PageTypes DEF ConnectionBreaks, WatchAgain, WatchTypeOK, PageStates, Watching
      <3>2. stream' \in [open: BOOLEAN, last: Payloads] /\ wire' = <<>>
        BY <2>6, PageTypes DEF ConnectionBreaks, WatchAgain
      <3>3. <<>> \in Seq(Frames) /\ Len(<<>>) = 0
        BY EmptySeq
      <3> QED
        BY <3>1, <3>2, <3>3
    <2> QED
      BY <2>1, <2>2, <2>3, <2>4, <2>5, <2>6
         DEF WatchNext, WatchStep, StreamStep, PageStep, watchVars
  <1> QED
    BY <1>1, <1>2, WatchingImplementsResumeJob, TypeCorrect, PTL DEF WatchSpec

-----------------------------------------------------------------------------
\* The row only grows older

Moment == Age(PayloadOf(row))

LEMMA MomentValue ==
    Moment = 2 * row.attempts + (IF row.status = "processing" THEN 0 ELSE 1)
  BY DEF Moment, Age, PayloadOf

\* Only a claim sets `processing`, and it counts the attempt: every other
\* write of the status, from however old a copy, leaves the attempt it is in.
LEMMA RowGrowsOlder ==
    ASSUME TypeOK, [Next]_vars, RowExists'
    PROVE  RowExists /\ Moment <= Moment' /\ (profile => profile')
  <1>1. row.attempts \in Nat
    BY DEF TypeOK, Rows
  <1>2. Moment' = 2 * row'.attempts + (IF row'.status = "processing" THEN 0 ELSE 1)
    BY DEF Moment, Age, PayloadOf
  <1> DEFINE Later == RowExists /\ Moment <= Moment' /\ (profile => profile')
  <1>3. ASSUME NEW w \in Workers, Claim(w) PROVE Later
    <2>1. row'.attempts = row.attempts + 1
      BY <1>3, ClaimEffect
    <2> QED
      BY <1>1, <1>2, <1>3, <2>1, MomentValue DEF Claim, TakeRow, Claimable
  <1>4. ASSUME RowExists, row'.attempts = row.attempts, profile => profile',
               row'.status = row.status \/ row'.status # "processing"
        PROVE  Later
    BY <1>1, <1>2, <1>4, MomentValue
  <1>5. ASSUME NEW w \in Workers, ParseFails(w) PROVE Later
    BY <1>4, <1>5, ParseFailsEffect DEF ParseFails
  <1>6. ASSUME NEW w \in Workers, Finish(w) PROVE Later
    BY <1>4, <1>6, FinishEffect DEF Finish, Column
  <1>7. ASSUME NEW w \in Workers, NEW error \in Errors, Fail(w, error) PROVE Later
    <2>1. RowAfterFailure(run[w].copy, error, row, row') /\ run[w].copy.failed + 1 \in Nat
      BY <1>7, FailEffect DEF TypeOK, Rows
    <2>2. row'.attempts = row.attempts /\ (row'.status = row.status \/ row'.status # "processing")
      BY <2>1, StatusAfterType DEF RowAfterFailure, Column
    <2> QED
      BY <1>4, <1>7, <2>2 DEF Fail
  <1>8. ASSUME NEW w \in Workers, RecordBreak(w) PROVE Later
    <2>1. /\ RowAfterFailure(run[w].copy, "unexpected", row, row')
          /\ run[w].copy.failed + 1 \in Nat
      BY <1>8, RecordBreakEffect DEF TypeOK, Rows
    <2>2. row'.attempts = row.attempts /\ (row'.status = row.status \/ row'.status # "processing")
      BY <2>1, StatusAfterType DEF RowAfterFailure, Column
    <2> QED
      BY <1>4, <1>8, <2>2 DEF RecordBreak
  <1>9. ASSUME NEW w \in Workers,
               Parse(w) \/ Break(w) \/ Reread(w) \/ Escape(w) \/ Return(w) \/ Crash(w)
        PROVE  Later
    BY <1>4, <1>9 DEF Parse, Break, Reread, Escape, Return, Crash, RowExists
  <1>10. ASSUME NEW h \in Handlers, RetryCommit(h) PROVE Later
    BY <1>4, <1>10, RetryCommitEffect DEF RetryCommit
  <1>11. ASSUME NEW h \in Handlers, RetryRead(h) \/ Reupload(h) \/ Enqueue(h) \/ HandlerDies(h)
         PROVE  Later
    BY <1>4, <1>11 DEF RetryRead, Reupload, Enqueue, HandlerDies, RowExists
  <1>12. CASE Reclaim
    BY <1>4, <1>12, ReclaimEffect DEF Reclaim, IsStalled, RowExists
  <1>13. CASE TimeoutPasses
    BY <1>4, <1>13 DEF TimeoutPasses, TypeOK, Rows, RowExists
  <1>14. ~Delete
    BY DEF Delete, NoCopy, RowExists
  <1>15. CASE UNCHANGED vars
    BY <1>4, <1>15 DEF vars, RowExists
  <1> QED
    BY <1>3, <1>5, <1>6, <1>7, <1>8, <1>9, <1>10, <1>11, <1>12, <1>13, <1>14, <1>15
       DEF Next, RunStep, HandlerStep

-----------------------------------------------------------------------------
\* What the reader has seen, what is on its way to it, what it has read
\* itself and the row: each at least as old as the one before it.

Tells(i) == i \in 1 .. Len(wire) /\ wire[i].event = "status"

WireInOrder ==
    \A i, j \in 1 .. Len(wire) :
        Tells(i) /\ Tells(j) /\ i <= j => Age(wire[i].data) <= Age(wire[j].data)

PageBehindWire ==
    page.pc = "streaming" =>
        \A i \in 1 .. Len(wire) : Tells(i) => Age(page.shown) <= Age(wire[i].data)

PageBehindRead ==
    page.pc \in {"fetched", "polled"} => Age(page.shown) <= Age(page.read)

\* Once the row is gone nobody reads it again: there is nothing to compare.
BehindRow ==
    RowExists =>
        /\ Age(NoPayload) <= Moment
        /\ \A i \in 1 .. Len(wire) : Tells(i) => Age(wire[i].data) <= Moment
        /\ page.pc \in Watching => Age(page.shown) <= Moment
        /\ page.pc \in {"fetched", "polled"} => Age(page.read) <= Moment

InOrderInv == WireInOrder /\ PageBehindWire /\ PageBehindRead /\ BehindRow

LEMMA AgeType ==
    /\ \A payload \in Payloads : Age(payload) \in Nat
    /\ Age(NoPayload) = 1
  BY DEF Age, Payloads, NoPayload, NoCopy, PayloadOf

\* Every age the invariant compares is a number.
Ages ==
    /\ Moment \in Nat /\ Age(page.shown) \in Nat /\ Age(page.read) \in Nat
    /\ Len(wire) \in Nat
    /\ \A i \in 1 .. Len(wire) : Age(wire[i].data) \in Nat

LEMMA AgesAreNumbers == WatchTypeOK => Ages
  <1> SUFFICES ASSUME WatchTypeOK PROVE Ages
    OBVIOUS
  <1>1. wire \in Seq(Frames) /\ page.shown \in Payloads /\ page.read \in Payloads
        /\ PayloadOf(row) \in Payloads
    BY PayloadType DEF WatchTypeOK, TypeOK
  <1>2. \A i \in 1 .. Len(wire) : wire[i].data \in Payloads
    <2>1. \A i \in 1 .. Len(wire) : wire[i] \in Frames
      BY <1>1, ElementOfSeq
    <2> QED
      BY <2>1 DEF Frames
  <1>3. Len(wire) \in Nat
    BY <1>1, LenProperties
  <1> QED
    BY <1>1, <1>2, <1>3, AgeType DEF Moment, Ages

LEMMA InOrderInit == WatchInit => InOrderInv
  <1> SUFFICES ASSUME WatchInit PROVE InOrderInv
    OBVIOUS
  <1>1. wire = <<>> /\ Len(wire) = 0
    BY EmptySeq DEF WatchInit
  <1>2. Moment = 1 /\ page = NewPage
    BY MomentValue DEF WatchInit, Init, NewRow
  <1>3. page.shown = NoPayload /\ page.pc = "streaming"
    BY <1>2 DEF NewPage
  <1> QED
    BY <1>1, <1>2, <1>3, AgeType
       DEF InOrderInv, WireInOrder, PageBehindWire, PageBehindRead, BehindRow, Tells

LEMMA InOrderStep ==
    ASSUME WatchTypeOK, WatchTypeOK', InOrderInv, [WatchNext]_watchVars
    PROVE  InOrderInv'
  <1>0. Ages /\ Ages'
    <2>1. WatchTypeOK' => Ages'
      BY AgesAreNumbers, PTL
    <2> QED
      BY <2>1, AgesAreNumbers
  <1>1. CASE [Next]_vars /\ UNCHANGED <<stream, wire, page>>
    <2>1. RowExists' => RowExists /\ Moment <= Moment'
      BY <1>1, RowGrowsOlder DEF WatchTypeOK
    <2>2. WireInOrder' /\ PageBehindWire' /\ PageBehindRead'
      BY <1>1 DEF InOrderInv, WireInOrder, PageBehindWire, PageBehindRead, Tells
    <2>3. BehindRow'
      BY <1>0, <1>1, <2>1, AgeType DEF InOrderInv, BehindRow, Tells, Ages
    <2> QED
      BY <2>2, <2>3 DEF InOrderInv
  <1>2. ASSUME NEW late \in BOOLEAN, Report(late) PROVE InOrderInv'
    <2>1. /\ RowExists /\ page' = page /\ Moment' = Moment /\ RowExists'
      BY <1>2 DEF Report, vars, Moment, Age, PayloadOf, RowExists
    <2>2. /\ Len(wire) <= Len(wire')
          /\ \A i \in 1 .. Len(wire) : wire'[i] = wire[i]
          /\ \A i \in (Len(wire) + 1) .. Len(wire') :
               wire'[i].event = "status" => Age(wire'[i].data) = Moment
      BY <1>2, ReportWrites DEF Moment
    <2>3. ASSUME NEW i \in 1 .. Len(wire')
          PROVE  \/ i \in 1 .. Len(wire)
                 \/ i \in (Len(wire) + 1) .. Len(wire')
      BY <1>0 DEF Ages
    <2>4. ASSUME NEW i \in 1 .. Len(wire'), wire'[i].event = "status"
          PROVE  Age(wire'[i].data) <= Moment
      <3>1. CASE i \in 1 .. Len(wire)
        BY <2>1, <2>2, <2>4, <3>1 DEF InOrderInv, BehindRow, Tells
      <3>2. CASE i \in (Len(wire) + 1) .. Len(wire')
        <4>1. Age(wire'[i].data) = Moment
          BY <2>2, <2>4, <3>2
        <4> QED
          BY <1>0, <4>1 DEF Ages
      <3> QED
        BY <2>3, <3>1, <3>2
    <2>5. WireInOrder'
      <3> SUFFICES ASSUME NEW i \in 1 .. Len(wire'), NEW j \in 1 .. Len(wire'), i <= j,
                          wire'[i].event = "status", wire'[j].event = "status"
                   PROVE  Age(wire'[i].data) <= Age(wire'[j].data)
        BY DEF WireInOrder, Tells
      <3>1. CASE j \in 1 .. Len(wire)
        <4>1. i \in 1 .. Len(wire)
          BY <1>0, <3>1 DEF Ages
        <4>2. wire'[i] = wire[i] /\ wire'[j] = wire[j]
          BY <2>2, <3>1, <4>1
        <4> QED
          BY <3>1, <4>1, <4>2 DEF InOrderInv, WireInOrder, Tells
      <3>2. CASE j \in (Len(wire) + 1) .. Len(wire')
        <4>1. Age(wire'[j].data) = Moment
          BY <2>2, <3>2
        <4> QED
          BY <2>4, <4>1
      <3> QED
        BY <2>3, <3>1, <3>2
    <2>6. PageBehindWire'
      <3> SUFFICES ASSUME page.pc = "streaming",
                          NEW i \in 1 .. Len(wire'), wire'[i].event = "status"
                   PROVE  Age(page.shown) <= Age(wire'[i].data)
        BY <2>1 DEF PageBehindWire, Tells
      <3>1. CASE i \in 1 .. Len(wire)
        BY <2>2, <3>1 DEF InOrderInv, PageBehindWire, Tells
      <3>2. CASE i \in (Len(wire) + 1) .. Len(wire')
        <4>1. Age(wire'[i].data) = Moment
          BY <2>2, <3>2
        <4> QED
          BY <2>1, <4>1 DEF InOrderInv, BehindRow, Watching
      <3> QED
        BY <2>3, <3>1, <3>2
    <2>7. PageBehindRead' /\ BehindRow'
      BY <2>1, <2>4 DEF InOrderInv, PageBehindRead, BehindRow, Tells, Ages
    <2> QED
      BY <2>5, <2>6, <2>7 DEF InOrderInv
  <1>3. CASE ReportGone
    <2>1. ~RowExists' /\ page' = page
      BY <1>3 DEF ReportGone, vars, RowExists
    <2>2. \A i \in 1 .. Len(wire') : Tells(i)' => Tells(i) /\ wire'[i] = wire[i]
      BY <1>0, <1>3, GoneWrites DEF Tells
    <2> QED
      BY <1>0, <2>1, <2>2
         DEF InOrderInv, WireInOrder, PageBehindWire, PageBehindRead, BehindRow, Tells
  <1>4. CASE TakeFrame
    <2>1. /\ page.pc = "streaming" /\ Moment' = Moment /\ (RowExists' <=> RowExists)
      BY <1>4 DEF TakeFrame, vars, Moment, Age, PayloadOf, RowExists
    <2>2. \A i \in 1 .. Len(wire') :
             /\ i + 1 \in 1 .. Len(wire)
             /\ Tells(i)' => Tells(i + 1) /\ wire'[i].data = wire[i + 1].data
      BY <1>0, <1>4, FrameTaken DEF Tells, Ages
    <2>3. \/ Tells(1) /\ page' = [page EXCEPT !.shown = wire[1].data]
          \/ Len(wire') = 0 /\ \E pc \in {"fetch", "poll"} : page' = [page EXCEPT !.pc = pc]
      BY <1>4, FrameTaken DEF Tells
    <2>4. 1 \in 1 .. Len(wire)
      BY <1>0, <1>4, FrameTaken
    <2>5. WireInOrder'
      <3> SUFFICES ASSUME NEW i \in 1 .. Len(wire'), NEW j \in 1 .. Len(wire'), i <= j,
                          Tells(i)', Tells(j)'
                   PROVE  Age(wire'[i].data) <= Age(wire'[j].data)
        BY DEF WireInOrder
      <3>1. /\ Tells(i + 1) /\ wire'[i].data = wire[i + 1].data
            /\ Tells(j + 1) /\ wire'[j].data = wire[j + 1].data
            /\ i + 1 \in 1 .. Len(wire) /\ j + 1 \in 1 .. Len(wire) /\ i + 1 <= j + 1
        BY <2>2
      <3> QED
        BY <3>1 DEF InOrderInv, WireInOrder
    <2>6. CASE Tells(1) /\ page' = [page EXCEPT !.shown = wire[1].data]
      <3>1. page'.pc = "streaming" /\ page'.shown = wire[1].data
        BY <2>1, <2>6 DEF WatchTypeOK
      <3>2. PageBehindWire'
        <4> SUFFICES ASSUME NEW i \in 1 .. Len(wire'), Tells(i)'
                     PROVE  Age(page'.shown) <= Age(wire'[i].data)
          BY DEF PageBehindWire
        <4>1. /\ Tells(i + 1) /\ wire'[i].data = wire[i + 1].data
              /\ i + 1 \in 1 .. Len(wire) /\ 1 <= i + 1
          BY <2>2
        <4> QED
          BY <2>4, <2>6, <3>1, <4>1 DEF InOrderInv, WireInOrder
      <3>3. PageBehindRead' /\ BehindRow'
        BY <1>0, <2>1, <2>2, <2>4, <2>6, <3>1
           DEF InOrderInv, PageBehindRead, BehindRow, Tells, Ages, Watching
      <3> QED
        BY <2>5, <3>2, <3>3 DEF InOrderInv
    <2>7. CASE Len(wire') = 0 /\ \E pc \in {"fetch", "poll"} : page' = [page EXCEPT !.pc = pc]
      <3>1. page'.pc \in {"fetch", "poll"} /\ page'.shown = page.shown
        BY <2>7 DEF WatchTypeOK
      <3> QED
        BY <1>0, <2>1, <2>5, <2>7, <3>1
           DEF InOrderInv, PageBehindWire, PageBehindRead, BehindRow, Tells, Watching, Ages
    <2> QED
      BY <2>3, <2>6, <2>7
  <1>5. CASE ConnectionBreaks \/ WatchAgain
    <2>1. /\ wire' = <<>> /\ Moment' = Moment /\ (RowExists' <=> RowExists)
          /\ \/ page.pc = "streaming" /\ page'.pc = "poll" /\ page'.shown = page.shown
             \/ page'.pc = "streaming" /\ page'.shown = NoPayload
      BY <1>5 DEF ConnectionBreaks, WatchAgain, vars, Moment, Age, PayloadOf, RowExists,
                  NewPage, WatchTypeOK
    <2>2. Len(wire') = 0
      BY <2>1, EmptySeq
    <2> QED
      BY <1>0, <2>1, <2>2, AgeType
         DEF InOrderInv, WireInOrder, PageBehindWire, PageBehindRead, BehindRow, Tells, Watching
  <1>6. ASSUME ReadRow \/ ReadProfile \/ PollRunsLate PROVE InOrderInv'
    <2>1. /\ wire' = wire /\ Moment' = Moment /\ (RowExists' <=> RowExists)
          /\ page.pc # "streaming" /\ page'.pc # "streaming"
      BY <1>6 DEF ReadRow, ReadProfile, PollRunsLate, vars, Moment, Age, PayloadOf, RowExists,
                  NewPage, WatchTypeOK
    <2>2. WireInOrder' /\ PageBehindWire'
      BY <2>1 DEF InOrderInv, WireInOrder, PageBehindWire, Tells
    <2>3. ASSUME ReadRow PROVE PageBehindRead' /\ BehindRow'
      <3>1. \/ /\ RowExists /\ page.pc \in Watching
               /\ page'.shown = page.shown /\ page'.read = PayloadOf(row)
            \/ page'.pc = "failed"
        BY <2>3 DEF ReadRow, WatchTypeOK, NewPage, Watching
      <3> QED
        BY <1>0, <2>1, <3>1
           DEF InOrderInv, PageBehindRead, BehindRow, Tells, Ages, Watching, Moment
    <2>4. ASSUME ReadProfile PROVE PageBehindRead' /\ BehindRow'
      <3>1. \/ page'.pc \in {"returned", "gaveup"}
            \/ page'.pc = "poll" /\ page'.shown = page.read /\ page.pc \in {"fetched", "polled"}
        BY <2>4 DEF ReadProfile, NewPage
      <3> QED
        BY <1>0, <2>1, <3>1 DEF InOrderInv, PageBehindRead, BehindRow, Tells, Ages, Watching
    <2>5. ASSUME PollRunsLate PROVE PageBehindRead' /\ BehindRow'
      <3>1. page'.pc = page.pc /\ page'.shown = page.shown /\ page'.read = page.read
        BY <2>5 DEF PollRunsLate, WatchTypeOK
      <3> QED
        BY <1>0, <2>1, <3>1 DEF InOrderInv, PageBehindRead, BehindRow, Tells, Ages, Watching
    <2> QED
      BY <1>6, <2>2, <2>3, <2>4, <2>5 DEF InOrderInv
  <1>7. CASE UNCHANGED watchVars
    BY <1>1, <1>7 DEF watchVars, vars
  <1> QED
    BY <1>1, <1>2, <1>3, <1>4, <1>5, <1>6, <1>7 DEF WatchNext, WatchStep, StreamStep, PageStep

\* The row, its reads, the wire and the page lie in order of age.
THEOREM InOrder == WatchSpec => []InOrderInv
  BY InOrderInit, InOrderStep, WatchTypeCorrect, PTL DEF WatchSpec

\* The page never goes back in time, whatever is lost, late or delivered
\* twice: what it shows next has come by the wire or from a read of its own,
\* and both lie between what it shows and the row.
THEOREM PageOnlyGoesForward == WatchSpec => PageNeverGoesBack
  <1>1. ASSUME WatchTypeOK, InOrderInv, [WatchNext]_watchVars
        PROVE  [{page.pc, page'.pc} \subseteq Watching /\ page' # NewPage
                 => Age(page'.shown) >= Age(page.shown)]_watchVars
    <2> SUFFICES ASSUME WatchNext, page.pc \in Watching, page'.pc \in Watching
                 PROVE  Age(page'.shown) >= Age(page.shown)
      BY <1>1
    <2>0. /\ Age(page.shown) \in Nat /\ Age(page.read) \in Nat /\ Len(wire) \in Nat
          /\ \A i \in 1 .. Len(wire) : Age(wire[i].data) \in Nat
      BY <1>1, AgesAreNumbers DEF Ages
    <2>1. CASE page'.shown = page.shown
      BY <2>0, <2>1
    <2>2. CASE TakeFrame
      <3>1. /\ 1 \in 1 .. Len(wire) /\ page.pc = "streaming"
            /\ \/ wire[1].event = "status" /\ page'.shown = wire[1].data
               \/ page'.shown = page.shown
        BY <1>1, <2>0, <2>2, FrameTaken DEF TakeFrame, WatchTypeOK
      <3> QED
        BY <1>1, <2>0, <2>1, <3>1 DEF InOrderInv, PageBehindWire, Tells
    <2>3. CASE ReadProfile
      <3>1. page.pc \in {"fetched", "polled"} /\ page'.shown = page.read
        BY <2>3 DEF ReadProfile, NewPage, Watching
      <3> QED
        BY <1>1, <2>0, <3>1 DEF InOrderInv, PageBehindRead
    <2>4. CASE ReadRow \/ PollRunsLate \/ ConnectionBreaks
      <3>1. page'.shown = page.shown
        BY <1>1, <2>4 DEF ReadRow, PollRunsLate, ConnectionBreaks, WatchTypeOK, NewPage, Watching
      <3> QED
        BY <2>1, <3>1
    <2>5. CASE page' = page
      BY <2>1, <2>5
    <2>6. ~WatchAgain
      BY DEF WatchAgain, Watching
    <2> QED
      BY <2>2, <2>3, <2>4, <2>5, <2>6
         DEF WatchNext, WatchStep, StreamStep, PageStep, Report, ReportGone
  <1> QED
    BY <1>1, InOrder, WatchTypeCorrect, PTL DEF WatchSpec, PageNeverGoesBack

\* What an answer rests on between the two queries, and after them.
AnswerInv ==
    /\ AnswerHasItsProfile
    /\ page.pc \in {"fetched", "polled"} /\ page.read.status = "extracted" /\ RowExists
         => profile

\* An answer that says `extracted` has the profile: the job commits both in
\* one transaction, and nothing takes the profile away but an erasure that
\* takes the row with it.
THEOREM AnswersHaveProfiles == WatchSpec => []AnswerHasItsProfile
  <1>1. WatchInit => AnswerInv
    BY DEF WatchInit, NewPage, AnswerInv, AnswerHasItsProfile
  <1>2. WatchTypeOK /\ ExtractedIsBacked /\ AnswerInv /\ [WatchNext]_watchVars => AnswerInv'
    <2> SUFFICES ASSUME WatchTypeOK, ExtractedIsBacked, AnswerInv, [WatchNext]_watchVars
                 PROVE  AnswerInv'
      OBVIOUS
    <2>1. CASE [Next]_vars /\ page' = page
      <3>1. RowExists' => RowExists /\ (profile => profile')
        BY <2>1, RowGrowsOlder DEF WatchTypeOK
      <3> QED
        BY <2>1, <3>1 DEF AnswerInv, AnswerHasItsProfile
    <2>2. CASE UNCHANGED vars /\ page'.pc = page.pc /\ page'.read = page.read
                              /\ page'.profile = page.profile
      BY <2>2 DEF AnswerInv, AnswerHasItsProfile, vars, RowExists
    <2>3. CASE page'.pc \notin {"fetched", "polled", "returned"}
      BY <2>3 DEF AnswerInv, AnswerHasItsProfile
    <2>4. CASE ReadRow
      <3>1. \/ page'.pc \notin {"fetched", "polled", "returned"}
            \/ page'.pc # "returned" /\ page'.read.status = row.status
        BY <2>4 DEF ReadRow, WatchTypeOK, NewPage, PayloadOf
      <3>2. UNCHANGED vars
        BY <2>4 DEF ReadRow
      <3> QED
        BY <2>3, <3>1, <3>2
           DEF AnswerInv, AnswerHasItsProfile, ExtractedIsBacked, vars
    <2>5. CASE ReadProfile
      <3>1. /\ UNCHANGED vars /\ page.pc \in {"fetched", "polled"}
            /\ \/ page'.pc \notin {"fetched", "polled", "returned"}
               \/ page'.pc = "returned" /\ page'.read = page.read /\ page'.profile = profile
        BY <2>5 DEF ReadProfile, NewPage
      <3> QED
        BY <2>3, <3>1 DEF AnswerInv, AnswerHasItsProfile, vars, RowExists
    <2>6. CASE TakeFrame \/ PollRunsLate \/ ConnectionBreaks \/ WatchAgain
      <3>1. \/ page'.pc \notin {"fetched", "polled", "returned"}
            \/ UNCHANGED vars /\ page'.pc = page.pc /\ page'.read = page.read
                              /\ page'.profile = page.profile
        BY <2>6, FrameTaken DEF TakeFrame, PollRunsLate, ConnectionBreaks, WatchAgain,
                                WatchTypeOK, NewPage
      <3> QED
        BY <2>2, <2>3, <3>1
    <2> QED
      BY <2>1, <2>2, <2>4, <2>5, <2>6
         DEF WatchNext, WatchStep, StreamStep, PageStep, Report, ReportGone, watchVars, vars
  <1>3. AnswerInv => AnswerHasItsProfile
    BY DEF AnswerInv
  <1> QED
    BY <1>1, <1>2, <1>3, WatchTypeCorrect, WatchingImplementsResumeJob, ExtractedBacked, PTL
       DEF WatchSpec
=============================================================================
