--------------------------- MODULE ResumeJob_proofs ---------------------------
(***************************************************************************)
(* Proofs about ResumeJob, for any number of runs, requests and attempts.  *)
(***************************************************************************)
EXTENDS ResumeJob, TLAPS

USE MaxAttemptsAssumption, ConstantsAssumption

\* Recording a failure gives a row of the same shape.
LEMMA StatusAfterType ==
    ASSUME NEW error, NEW failed \in Nat
    PROVE  StatusAfter(error, failed) \in {"failed", "dead_lettered", "pending"}
  BY DEF StatusAfter, Verdict

\* _record_failure writes the status and the count, and nothing else.
LEMMA WithFailureType ==
    ASSUME NEW copy \in Rows, NEW error
    PROVE  /\ WithFailure(copy, error) \in Rows
           /\ WithFailure(copy, error).status \in {"failed", "dead_lettered", "pending"}
           /\ WithFailure(copy, error).status = StatusAfter(error, copy.failed + 1)
           /\ WithFailure(copy, error).failed = copy.failed + 1
           /\ WithFailure(copy, error).text = copy.text
           /\ WithFailure(copy, error).stale = copy.stale
           /\ WithFailure(copy, error).attempts = copy.attempts
  <1> DEFINE status == StatusAfter(error, copy.failed + 1)
             failed == copy.failed + 1
  <1>1. failed \in Nat
    BY DEF Rows
  <1>2. status \in {"failed", "dead_lettered", "pending"}
    BY <1>1, StatusAfterType
  <1>3. WithFailure(copy, error) = [copy EXCEPT !.failed = failed, !.status = status]
    BY DEF WithFailure
  <1> HIDE DEF status, failed
  <1>4. status \in Statuses
    BY <1>2 DEF Statuses
  <1>5. copy = [status |-> copy.status, failed |-> copy.failed, attempts |-> copy.attempts,
                stale |-> copy.stale, text |-> copy.text]
    BY DEF Rows
  <1>6. WithFailure(copy, error)
          = [status |-> status, failed |-> failed, attempts |-> copy.attempts,
             stale |-> copy.stale, text |-> copy.text]
    BY <1>3, <1>5
  <1>7. WithFailure(copy, error) \in Rows
    BY <1>1, <1>4, <1>6 DEF Rows
  <1> QED
    BY <1>2, <1>6, <1>7 DEF status, failed

\* A flush writes the changed columns of a copy and leaves the others.
LEMMA FlushedType ==
    ASSUME row \in Rows, NEW old \in Rows, NEW new \in Rows
    PROVE  /\ Flushed(old, new) \in Rows
           /\ Flushed(old, new).status = Column(old.status, new.status, row.status)
           /\ Flushed(old, new).failed = Column(old.failed, new.failed, row.failed)
           /\ Flushed(old, new).text = Column(old.text, new.text, row.text)
           /\ Flushed(old, new).attempts = row.attempts
           /\ Flushed(old, new).stale = row.stale
  BY DEF Flushed, Column, Rows

\* So are an absent row and a new one.
LEMMA NoCopyType == NoCopy \in Rows /\ NewRow \in Rows
  BY DEF NoCopy, NewRow, Rows, Statuses

\* What is idle is of the right shape, for a run and for a request.
LEMMA IdleType ==
    Idle \in [pc: RunStates, copy: Rows] /\ Idle \in [pc: HandlerStates, copy: Rows]
  BY NoCopyType DEF Idle, RunStates, HandlerStates

-----------------------------------------------------------------------------
\* What each step that writes the row makes of it, column by column.

\* A claim takes the row and keeps its text and its strikes.
LEMMA ClaimEffect ==
    ASSUME TypeOK, NEW w \in Workers, Claim(w)
    PROVE  /\ row' \in Rows
           /\ row'.status = "processing"
           /\ ~row'.stale
           /\ row'.text = row.text
           /\ row'.failed = row.failed
           /\ row'.attempts = row.attempts + 1
           /\ run' = [run EXCEPT ![w] = [pc |-> "claimed", copy |-> row']]
  <1> DEFINE attempts == row.attempts + 1
  <1>1. row \in Rows /\ attempts \in Nat
    BY DEF TypeOK, Rows
  <1>2. row' = [row EXCEPT !.status = "processing", !.attempts = attempts, !.stale = FALSE]
    BY DEF Claim, TakeRow
  <1>3. run' = [run EXCEPT ![w] = [pc |-> "claimed", copy |-> row']]
    BY DEF Claim, TakeRow
  <1> HIDE DEF attempts
  <1>4. row'.attempts = attempts
    BY <1>1, <1>2 DEF Rows
  <1> QED
    BY <1>1, <1>2, <1>3, <1>4 DEF Rows, Statuses, attempts

\* A document that does not parse can only become failed.
LEMMA ParseFailsEffect ==
    ASSUME TypeOK, NEW w \in Workers, ParseFails(w)
    PROVE  /\ row' \in Rows
           /\ row'.status \in {"failed", row.status}
           /\ row'.text = row.text
           /\ row'.status = Column(run[w].copy.status, "failed", row.status)
           /\ row'.failed = Column(run[w].copy.failed, 0, row.failed)
           /\ row'.attempts = row.attempts
  <1> DEFINE new == [run[w].copy EXCEPT !.status = "failed", !.failed = 0]
  <1>1. row \in Rows /\ run[w].copy \in Rows
    BY DEF TypeOK
  <1>2. new \in Rows
    BY <1>1 DEF Rows, Statuses
  <1>3. new.status = "failed" /\ new.failed = 0 /\ new.text = run[w].copy.text
    BY <1>1 DEF Rows
  <1>4. row' = Flushed(run[w].copy, new)
    BY DEF ParseFails
  <1> HIDE DEF new
  <1> QED
    BY <1>1, <1>2, <1>3, <1>4, FlushedType DEF Column

\* The success commit writes what changed in the copy.
LEMMA FinishEffect ==
    ASSUME TypeOK, NEW w \in Workers, Finish(w)
    PROVE  /\ row' \in Rows
           /\ row'.status = Column(run[w].copy.status, "extracted", row.status)
           /\ (run[w].copy.text => row.text) => row'.text
           /\ row'.failed = Column(run[w].copy.failed, 0, row.failed)
           /\ row'.attempts = row.attempts
  <1> DEFINE new == [run[w].copy EXCEPT !.status = "extracted", !.failed = 0,
                                        !.text = TRUE]
  <1>1. row \in Rows /\ run[w].copy \in Rows
    BY DEF TypeOK
  <1>2. new \in Rows
    BY <1>1 DEF Rows, Statuses
  <1>3. new.status = "extracted" /\ new.text = TRUE /\ new.failed = 0
    BY <1>1 DEF Rows
  <1>4. row' = Flushed(run[w].copy, new)
    BY DEF Finish
  <1>5. new.text \in BOOLEAN /\ run[w].copy.text \in BOOLEAN /\ row.text \in BOOLEAN
    BY <1>1, <1>2 DEF Rows
  <1> HIDE DEF new
  <1>6. (run[w].copy.text => row.text) => row'.text
    BY <1>1, <1>2, <1>3, <1>4, <1>5, FlushedType DEF Column
  <1> QED
    BY <1>1, <1>2, <1>3, <1>4, <1>6, FlushedType

\* The failures of a run, on the session in use and on a fresh one.
RowAfterFailure(copy, error, stored, written) ==
    /\ written.status = Column(copy.status, StatusAfter(error, copy.failed + 1), stored.status)
    /\ written.failed = Column(copy.failed, copy.failed + 1, stored.failed)
    /\ stored.text => written.text
    /\ written.attempts = stored.attempts

\* A failure on the session in use, and ...
LEMMA FailEffect ==
    ASSUME TypeOK, NEW w \in Workers, NEW error, Fail(w, error)
    PROVE  row' \in Rows /\ RowAfterFailure(run[w].copy, error, row, row')
  <1> DEFINE copy == run[w].copy
             kept == [copy EXCEPT !.text = @ \/ run[w].pc = "parsed"]
             new == WithFailure(kept, error)
  <1>1. row \in Rows /\ copy \in Rows
    BY DEF TypeOK
  <1>2. kept \in Rows
    BY <1>1 DEF Rows
  <1>3. kept.failed = copy.failed /\ (copy.text => kept.text)
    BY <1>1 DEF Rows
  <1>4. row' = Flushed(copy, new)
    BY DEF Fail
  <1> HIDE DEF kept, copy
  <1>5. /\ new \in Rows
        /\ new.status = StatusAfter(error, copy.failed + 1)
        /\ new.failed = copy.failed + 1
        /\ new.text = kept.text
    BY <1>2, <1>3, WithFailureType
  <1>6. new.text \in BOOLEAN /\ copy.text \in BOOLEAN /\ row.text \in BOOLEAN
    BY <1>1, <1>5 DEF Rows
  <1> HIDE DEF new
  <1>7. row' \in Rows /\ RowAfterFailure(copy, error, row, row')
    BY <1>1, <1>3, <1>4, <1>5, <1>6, FlushedType DEF RowAfterFailure, Column
  <1> QED
    BY <1>7 DEF copy

\* ... one recorded on a fresh session.
LEMMA RecordBreakEffect ==
    ASSUME TypeOK, NEW w \in Workers, RecordBreak(w)
    PROVE  row' \in Rows /\ RowAfterFailure(run[w].copy, "unexpected", row, row')
  <1> DEFINE copy == run[w].copy
             new == WithFailure(copy, "unexpected")
  <1>1. row \in Rows /\ copy \in Rows
    BY DEF TypeOK
  <1>2. /\ new \in Rows
        /\ new.status = StatusAfter("unexpected", copy.failed + 1)
        /\ new.failed = copy.failed + 1
        /\ new.text = copy.text
    BY <1>1, WithFailureType
  <1>3. row' = Flushed(copy, new)
    BY DEF RecordBreak
  <1> HIDE DEF new, copy
  <1>4. row' \in Rows /\ RowAfterFailure(copy, "unexpected", row, row')
    BY <1>1, <1>2, <1>3, FlushedType DEF RowAfterFailure, Column
  <1> QED
    BY <1>4 DEF copy

\* A retry puts the row back to pending, up to columns it found unchanged.
LEMMA RetryCommitEffect ==
    ASSUME TypeOK, NEW h \in Handlers, RetryCommit(h)
    PROVE  /\ row' \in Rows
           /\ row'.status \in {"pending", row.status}
           /\ row'.status = Column(handler[h].copy.status, "pending", row.status)
           /\ row'.failed = Column(handler[h].copy.failed, 0, row.failed)
           /\ row'.text = row.text
           /\ row'.attempts = row.attempts
           /\ \E new \in Rows :
                 /\ handler' = [handler EXCEPT ![h] = [pc |-> "enqueueing", copy |-> new]]
                 /\ new.attempts = handler[h].copy.attempts
  <1> DEFINE copy == handler[h].copy
             new == [copy EXCEPT !.status = "pending", !.failed = 0]
  <1>1. row \in Rows /\ copy \in Rows
    BY DEF TypeOK
  <1>2. new \in Rows
    BY <1>1 DEF Rows, Statuses
  <1>3. /\ new.status = "pending" /\ new.failed = 0 /\ new.text = copy.text
        /\ new.attempts = copy.attempts
    BY <1>1 DEF Rows
  <1>4. /\ row' = Flushed(copy, new)
        /\ handler' = [handler EXCEPT ![h] = [pc |-> "enqueueing", copy |-> new]]
    BY DEF RetryCommit
  <1> HIDE DEF new, copy
  <1>5. /\ row' \in Rows
        /\ row'.status \in {"pending", row.status}
        /\ row'.status = Column(copy.status, "pending", row.status)
        /\ row'.failed = Column(copy.failed, 0, row.failed)
        /\ row'.text = row.text
        /\ row'.attempts = row.attempts
    BY <1>1, <1>2, <1>3, <1>4, FlushedType DEF Column
  <1> QED
    BY <1>2, <1>3, <1>4, <1>5 DEF copy

\* The sweep counts a strike under the lock, from the row itself.
LEMMA ReclaimEffect ==
    ASSUME TypeOK, Reclaim
    PROVE  /\ row' \in Rows
           /\ row'.status \in {"failed", "dead_lettered", "pending"}
           /\ row'.status = StatusAfter("worker_vanished", row.failed + 1)
           /\ row'.failed = row.failed + 1
           /\ row'.text = row.text
           /\ row'.attempts = row.attempts
           /\ handler'[Reaper].pc \in {"enqueueing", "idle"}
           /\ row'.status = "pending" => handler'[Reaper].pc = "enqueueing"
           /\ handler'[Reaper].pc = "enqueueing" =>
                row'.status = "pending" /\ handler'[Reaper].copy = row'
           /\ handler' \in [Handlers -> [pc: HandlerStates, copy: Rows]]
           /\ \A h \in Handlers \ {Reaper} : handler'[h] = handler[h]
  <1>1. row \in Rows /\ row' = WithFailure(row, "worker_vanished")
    BY DEF TypeOK, Reclaim
  <1>2. /\ row' \in Rows
        /\ row'.status \in {"failed", "dead_lettered", "pending"}
        /\ row'.status = StatusAfter("worker_vanished", row.failed + 1)
        /\ row'.failed = row.failed + 1
        /\ row'.text = row.text
        /\ row'.attempts = row.attempts
    BY <1>1, WithFailureType
  <1>3. Reaper \in Handlers
    BY DEF Handlers
  <1> QED
    BY <1>2, <1>3, IdleType DEF Reclaim, TypeOK, Idle, HandlerStates

-----------------------------------------------------------------------------
\* The variables keep their types, whatever overlaps.
THEOREM TypeCorrect == Spec => []TypeOK
  <1>1. Init => TypeOK
    BY NoCopyType, IdleType DEF Init, TypeOK
  <1>2. TypeOK /\ [Next]_vars => TypeOK'
    <2> SUFFICES ASSUME TypeOK, [Next]_vars PROVE TypeOK'
      OBVIOUS
    <2> USE NoCopyType DEF TypeOK
    <2>1. ASSUME NEW w \in Workers, Claim(w) PROVE TypeOK'
      BY <2>1, ClaimEffect DEF Claim, TakeRow, RunStates
    <2>2. ASSUME NEW w \in Workers, Parse(w) \/ Break(w) PROVE TypeOK'
      BY <2>2 DEF Parse, Break, RunStates
    <2>3. ASSUME NEW w \in Workers, ParseFails(w) PROVE TypeOK'
      BY <2>3, ParseFailsEffect DEF ParseFails, Returns, RunStates
    <2>4. ASSUME NEW w \in Workers, Finish(w) PROVE TypeOK'
      BY <2>4, FinishEffect DEF Finish, Returns, RunStates
    <2>5. ASSUME NEW w \in Workers, NEW error \in Errors, Fail(w, error) PROVE TypeOK'
      BY <2>5, FailEffect DEF Fail, Returns, Outcome, RunStates
    <2>6. ASSUME NEW w \in Workers, Reread(w) PROVE TypeOK'
      BY <2>6 DEF Reread, Returns, RunStates
    <2>7. ASSUME NEW w \in Workers, RecordBreak(w) PROVE TypeOK'
      BY <2>7, RecordBreakEffect DEF RecordBreak, Returns, Outcome, RunStates
    <2>8. ASSUME NEW w \in Workers, Escape(w) \/ Return(w) \/ Crash(w) PROVE TypeOK'
      BY <2>8 DEF Escape, Return, Crash, Returns, Idle, RunStates
    <2>9. ASSUME NEW h \in Handlers, RetryRead(h) \/ Reupload(h) \/ Enqueue(h) \/ HandlerDies(h)
          PROVE TypeOK'
      BY <2>9 DEF RetryRead, Reupload, Enqueue, HandlerDies, Idle, HandlerStates
    <2>10. ASSUME NEW h \in Handlers, RetryCommit(h) PROVE TypeOK'
      BY <2>10, RetryCommitEffect DEF RetryCommit, HandlerStates
    <2>11. CASE TimeoutPasses
      BY <2>11 DEF TimeoutPasses, Rows
    <2>12. CASE Reclaim
      BY <2>12, ReclaimEffect DEF Reclaim
    <2>13. CASE Delete
      BY <2>13 DEF Delete
    <2>14. CASE UNCHANGED vars
      BY <2>14 DEF vars
    <2> QED
      BY <2>1, <2>2, <2>3, <2>4, <2>5, <2>6, <2>7, <2>8, <2>9, <2>10, <2>11, <2>12,
         <2>13, <2>14 DEF Next, RunStep, HandlerStep
  <1> QED
    BY <1>1, <1>2, PTL DEF Spec

-----------------------------------------------------------------------------
\* Whatever overlaps, slow runs and racing retries included, an extracted
\* row has its profile and its text.
THEOREM ExtractedBacked == Spec => []ExtractedIsBacked
  <1>1. Init => BackedInv
    BY DEF Init, BackedInv, ExtractedIsBacked, NewRow, Idle, NoCopy
  <1>2. TypeOK /\ BackedInv /\ [Next]_vars => BackedInv'
    <2> SUFFICES ASSUME TypeOK, BackedInv, [Next]_vars PROVE BackedInv'
      OBVIOUS
    <2> USE DEF BackedInv, ExtractedIsBacked, RowExists
    <2>1. ASSUME NEW w \in Workers, Claim(w) PROVE BackedInv'
      BY <2>1, ClaimEffect DEF Claim, TakeRow, Claimable, TypeOK
    <2>2. ASSUME NEW w \in Workers, Parse(w) \/ Break(w) PROVE BackedInv'
      BY <2>2 DEF Parse, Break, TypeOK
    <2>3. ASSUME NEW w \in Workers, ParseFails(w) PROVE BackedInv'
      BY <2>3, ParseFailsEffect DEF ParseFails, Returns, NoCopy, TypeOK
    <2>4. ASSUME NEW w \in Workers, Finish(w) PROVE BackedInv'
      BY <2>4, FinishEffect DEF Finish, Returns, NoCopy, TypeOK
    <2>5. ASSUME NEW w \in Workers, NEW error \in Errors, Fail(w, error) PROVE BackedInv'
      <3>1. row'.status \in {"failed", "dead_lettered", "pending", row.status}
        BY <2>5, FailEffect, StatusAfterType DEF RowAfterFailure, Column, TypeOK, Rows
      <3> QED
        BY <2>5, <3>1, FailEffect DEF RowAfterFailure, Fail, Returns, NoCopy, TypeOK
    <2>6. ASSUME NEW w \in Workers, Reread(w) PROVE BackedInv'
      BY <2>6 DEF Reread, Returns, NoCopy, TypeOK
    <2>7. ASSUME NEW w \in Workers, RecordBreak(w) PROVE BackedInv'
      <3>1. row'.status \in {"failed", "dead_lettered", "pending", row.status}
        BY <2>7, RecordBreakEffect, StatusAfterType DEF RowAfterFailure, Column, TypeOK, Rows
      <3> QED
        BY <2>7, <3>1, RecordBreakEffect
        DEF RowAfterFailure, RecordBreak, Returns, NoCopy, TypeOK
    <2>8. ASSUME NEW w \in Workers, Escape(w) \/ Return(w) \/ Crash(w) PROVE BackedInv'
      BY <2>8 DEF Escape, Return, Crash, Returns, Idle, NoCopy, TypeOK
    <2>9. ASSUME NEW h \in Handlers, RetryRead(h) \/ Reupload(h) \/ Enqueue(h) \/ HandlerDies(h)
          PROVE BackedInv'
      BY <2>9 DEF RetryRead, Reupload, Enqueue, HandlerDies
    <2>10. ASSUME NEW h \in Handlers, RetryCommit(h) PROVE BackedInv'
      BY <2>10, RetryCommitEffect DEF RetryCommit
    <2>11. CASE TimeoutPasses
      BY <2>11 DEF TimeoutPasses, Rows, TypeOK
    <2>12. CASE Reclaim
      BY <2>12, ReclaimEffect DEF Reclaim, IsStalled
    <2>13. CASE Delete
      BY <2>13 DEF Delete, NoCopy
    <2>14. CASE UNCHANGED vars
      BY <2>14 DEF vars
    <2> QED
      BY <2>1, <2>2, <2>3, <2>4, <2>5, <2>6, <2>7, <2>8, <2>9, <2>10, <2>11, <2>12,
         <2>13, <2>14 DEF Next, RunStep, HandlerStep
  <1>3. BackedInv => ExtractedIsBacked
    BY DEF BackedInv
  <1> QED
    BY <1>1, <1>2, <1>3, TypeCorrect, PTL DEF Spec

-----------------------------------------------------------------------------
\* While no live run outlasts the visibility timeout and no retry races the
\* row, TimelyInv is inductive.  A claim needs a row that is not processing,
\* and a run that works keeps it processing and not stale, so neither a
\* second claim, nor the sweep, nor a retry can come between.
LEMMA TimelyInit == Init => TimelyInv
  BY IdleType DEF Init, TimelyInv, AtMostOneRun, ProfileIsKept, WorkingRuns, Working, Idle

LEMMA TimelyStep ==
    ASSUME ~SlowWorkers, ~RetryRaces, TypeOK, TypeOK', TimelyInv, [Next]_vars
    PROVE  TimelyInv'
  <1> USE DEF TimelyInv, AtMostOneRun, ProfileIsKept, WorkingRuns, Working, CopyIsCurrent,
              RowExists
  <1>1. ASSUME NEW w \in Workers, Claim(w) PROVE TimelyInv'
    <2>1. WorkingRuns = {}
      BY <1>1 DEF Claim, TakeRow, Claimable, NotOursToRun
    <2>2. ~profile
      BY <1>1 DEF Claim, TakeRow, Claimable, NotOursToRun
    <2> QED
      BY <1>1, <2>1, <2>2, ClaimEffect DEF Claim, TakeRow, TypeOK
  <1>2. ASSUME NEW w \in Workers, Parse(w) \/ Break(w) PROVE TimelyInv'
    BY <1>2 DEF Parse, Break, TypeOK
  <1>3. ASSUME NEW w \in Workers, ParseFails(w) PROVE TimelyInv'
    <2>1. w \in WorkingRuns /\ WorkingRuns' = {} /\ handler' = handler
      BY <1>3 DEF ParseFails, Returns, TypeOK
    <2>2. ~profile /\ profile' = profile
      BY <1>3, <2>1 DEF ParseFails
    <2> QED
      BY <2>1, <2>2
  <1>4. ASSUME NEW w \in Workers, Finish(w) PROVE TimelyInv'
    <2>1. w \in WorkingRuns /\ WorkingRuns' = {} /\ handler' = handler
      BY <1>4 DEF Finish, Returns, TypeOK
    <2>2. row'.status = "extracted"
      BY <1>4, <2>1, FinishEffect DEF Finish, Column
    <2> QED
      BY <2>1, <2>2
  <1>5. ASSUME NEW w \in Workers, NEW error \in Errors, Fail(w, error) PROVE TimelyInv'
    BY <1>5 DEF Fail, Returns, Outcome, TypeOK
  <1>6. ASSUME NEW w \in Workers, Reread(w) PROVE TimelyInv'
    BY <1>6 DEF Reread, Returns, TypeOK
  <1>7. ASSUME NEW w \in Workers, RecordBreak(w) PROVE TimelyInv'
    BY <1>7 DEF RecordBreak, Returns, Outcome, TypeOK
  <1>8. ASSUME NEW w \in Workers, Escape(w) \/ Return(w) \/ Crash(w) PROVE TimelyInv'
    BY <1>8 DEF Escape, Return, Crash, Returns, Idle, TypeOK
  <1>9. ASSUME NEW h \in Handlers, RetryRead(h) \/ Reupload(h) \/ Enqueue(h) \/ HandlerDies(h)
        PROVE TimelyInv'
    BY <1>9 DEF RetryRead, Reupload, Enqueue, HandlerDies, Idle, TypeOK
  <1>10. ASSUME NEW h \in Handlers, RetryCommit(h) PROVE TimelyInv'
    <2>1. CanRetry(row) /\ RowExists
      BY <1>10 DEF RetryCommit
    <2>2. WorkingRuns = {} /\ ~profile
      BY <2>1 DEF CanRetry, RetryableStatuses, IsStalled
    <2> QED
      BY <1>10, <2>2, RetryCommitEffect DEF RetryCommit, TypeOK
  <1>11. CASE TimeoutPasses
    <2>1. WorkingRuns = {}
      BY <1>11 DEF TimeoutPasses, Held
    <2> QED
      BY <1>11, <2>1 DEF TimeoutPasses, TypeOK, Rows
  <1>12. CASE Reclaim
    <2>1. WorkingRuns = {} /\ ~profile
      BY <1>12 DEF Reclaim, IsStalled
    <2> QED
      BY <1>12, <2>1, ReclaimEffect DEF Reclaim
  <1>13. CASE Delete
    BY <1>13 DEF Delete, NoCopy
  <1>14. CASE UNCHANGED vars
    BY <1>14 DEF vars, CanRetry, IsStalled
  <1> QED
    BY <1>1, <1>2, <1>3, <1>4, <1>5, <1>6, <1>7, <1>8, <1>9, <1>10, <1>11, <1>12,
       <1>13, <1>14 DEF Next, RunStep, HandlerStep

\* Timing kept, the invariant holds throughout ...
THEOREM Timely ==
    ASSUME ~SlowWorkers, ~RetryRaces
    PROVE  Spec => []TimelyInv
  <1>1. TypeOK /\ TypeOK' /\ TimelyInv /\ [Next]_vars => TimelyInv'
    BY TimelyStep
  <1> QED
    BY <1>1, TimelyInit, TypeCorrect, PTL DEF Spec

\* ... so a second delivery never runs alongside the first,
THEOREM OneRunAtATime ==
    ASSUME ~SlowWorkers, ~RetryRaces
    PROVE  Spec => []AtMostOneRun
  <1>1. TimelyInv => AtMostOneRun
    BY DEF TimelyInv
  <1> QED
    BY <1>1, Timely, PTL

\* and a finished resume is never sent back to be processed again.
THEOREM FinishedStaysFinished ==
    ASSUME ~SlowWorkers, ~RetryRaces
    PROVE  Spec => []ProfileIsKept
  <1>1. TimelyInv => ProfileIsKept
    BY DEF TimelyInv
  <1> QED
    BY <1>1, Timely, PTL

-----------------------------------------------------------------------------
\* What a failure does to the row of a run whose copy is current.
LEMMA FailureOfCurrent ==
    ASSUME TypeOK, NEW w \in Workers, CopyIsCurrent(w), NEW error,
           RowAfterFailure(run[w].copy, error, row, row')
    PROVE  /\ row'.status = StatusAfter(error, row.failed + 1)
           /\ row'.failed = row.failed + 1
  <1> DEFINE copy == run[w].copy
  <1>1. copy.failed \in Nat /\ row.failed \in Nat
    BY DEF TypeOK, Rows
  <1>2. StatusAfter(error, copy.failed + 1) # "processing"
    BY <1>1, StatusAfterType
  <1> QED
    BY <1>1, <1>2 DEF RowAfterFailure, Column, CopyIsCurrent

\* Every claim that is given up on costs one strike, whoever gives up on it.
THEOREM GivingUpIsCounted ==
    ASSUME ~SlowWorkers, ~RetryRaces
    PROVE  Spec => GivingUpCostsOne
  <1> DEFINE givenUp == /\ row.status = "processing"
                        /\ row'.status \in {"pending", "dead_lettered"}
                        /\ \A h \in Retriers : ~RetryCommit(h)
             counted == givenUp => row'.failed = row.failed + 1
  <1>1. TypeOK /\ TimelyInv /\ [Next]_vars => [counted]_vars
    <2> SUFFICES ASSUME TypeOK, TimelyInv, Next, givenUp
                 PROVE  row'.failed = row.failed + 1
      BY DEF vars
    <2> USE DEF RowExists
    <2>1. ASSUME NEW w \in Workers, RunStep(w) PROVE row'.failed = row.failed + 1
      <3>1. ASSUME run[w].pc \in Working PROVE CopyIsCurrent(w)
        BY <3>1 DEF TimelyInv, WorkingRuns
      <3>2. CASE Claim(w)
        BY <3>2, ClaimEffect
      <3>3. CASE ParseFails(w)
        BY <3>3, ParseFailsEffect
      <3>4. CASE Finish(w)
        BY <3>4, <3>1, FinishEffect DEF Finish, Working, CopyIsCurrent, Column
      <3>5. ASSUME NEW error \in Errors, Fail(w, error) PROVE row'.failed = row.failed + 1
        BY <3>5, <3>1, FailEffect, FailureOfCurrent DEF Fail, Working
      <3>6. CASE RecordBreak(w)
        BY <3>6, <3>1, RecordBreakEffect, FailureOfCurrent DEF RecordBreak, Working
      <3>7. CASE Parse(w) \/ Break(w) \/ Reread(w) \/ Escape(w) \/ Return(w) \/ Crash(w)
        BY <3>7 DEF Parse, Break, Reread, Escape, Return, Crash
      <3> QED
        BY <2>1, <3>2, <3>3, <3>4, <3>5, <3>6, <3>7 DEF RunStep
    <2>2. ASSUME NEW h \in Handlers, HandlerStep(h) PROVE row'.failed = row.failed + 1
      BY <2>2 DEF HandlerStep, RetryRead, RetryCommit, Reupload, Enqueue, HandlerDies, TimelyInv
    <2>3. CASE TimeoutPasses
      BY <2>3 DEF TimeoutPasses, TypeOK, Rows
    <2>4. CASE Reclaim
      BY <2>4, ReclaimEffect
    <2>5. CASE Delete
      BY <2>5 DEF Delete, NoCopy
    <2> QED
      BY <2>1, <2>2, <2>3, <2>4, <2>5 DEF Next
  <1> QED
    BY <1>1, Timely, TypeCorrect, PTL DEF Spec, GivingUpCostsOne

-----------------------------------------------------------------------------
\* The refinement.  The phase is a function of the status ...
LEMMA PhaseFacts ==
    /\ PhaseOf("pending") = "waiting"
    /\ PhaseOf("processing") = "held"
    /\ PhaseOf("extracted") = "done"
    /\ PhaseOf("failed") = "stopped"
    /\ PhaseOf("dead_lettered") = "stopped"
    /\ PhaseOf("deleted") = "gone"
  BY DEF PhaseOf

\* ... and the holder is the one run that works, if the row is processing.
LEMMA HolderFacts ==
    /\ \A status, working : status # "processing" => HolderOf(status, working) = NoRun
    /\ \A status : HolderOf(status, {}) = NoRun
    /\ \A w : HolderOf("processing", {w}) = w
  BY DEF HolderOf

\* A run that gives its claim up refuses the item or counts a strike.
LEMMA GivingUpRefines ==
    ASSUME TypeOK, RowExists, NEW w \in Workers, WorkingRuns = {w}, CopyIsCurrent(w),
           WorkingRuns' = {}, NEW error,
           RowAfterFailure(run[w].copy, error, row, row')
    PROVE  Item!Refuse \/ Item!Strike
  <1>1. /\ row'.status = StatusAfter(error, row.failed + 1)
        /\ row'.failed = row.failed + 1
    BY FailureOfCurrent
  <1>2. Phase = "held" /\ Holder = w /\ w # NoRun /\ row.failed \in Nat
    BY PhaseFacts, HolderFacts DEF Phase, Holder, CopyIsCurrent, NoRun, TypeOK, Rows
  <1>3. Holder' = NoRun
    BY HolderFacts DEF Holder
  <1>4. CASE Verdict(error, row.failed + 1) = "permanent"
    <2>1. Phase' = "stopped"
      BY <1>1, <1>4, PhaseFacts DEF StatusAfter, Phase
    <2> QED
      BY <1>1, <1>2, <1>3, <2>1 DEF Item!Refuse
  <1>5. CASE Verdict(error, row.failed + 1) # "permanent"
    <2>1. Phase' = IF row'.failed < MaxAttempts THEN "waiting" ELSE "stopped"
      BY <1>1, <1>2, <1>5, PhaseFacts DEF StatusAfter, Verdict, Phase
    <2> QED
      BY <1>1, <1>2, <1>3, <2>1 DEF Item!Strike
  <1> QED
    BY <1>4, <1>5

\* Every step of the row's life is a step of the work item, or none.
LEMMA StepRefines ==
    ASSUME ~SlowWorkers, ~RetryRaces, TypeOK, TimelyInv, Next
    PROVE  Item!ItemNext \/ UNCHANGED <<Phase, row.failed, Holder>>
  <1> USE DEF RowExists
  <1> DEFINE Refined == Item!ItemNext \/ UNCHANGED <<Phase, row.failed, Holder>>
  <1>1. ASSUME NEW w \in Workers, RunStep(w) PROVE Refined
    <2>1. ASSUME run[w].pc \in Working, row.status # "deleted"
          PROVE  /\ CopyIsCurrent(w)
                 /\ WorkingRuns = {w}
                 /\ Phase = "held" /\ Holder = w /\ w # NoRun
      <3>1. CopyIsCurrent(w) /\ WorkingRuns = {w}
        BY <2>1 DEF TimelyInv, WorkingRuns, AtMostOneRun
      <3> QED
        BY <3>1, PhaseFacts, HolderFacts DEF Phase, Holder, CopyIsCurrent, NoRun
    <2>2. ASSUME NEW outcome \in {"retry", "done"}, Returns(w, outcome), WorkingRuns = {w}
          PROVE  WorkingRuns' = {}
      BY <2>2 DEF Returns, WorkingRuns, Working, TypeOK
    <2>3. CASE Claim(w)
      <3>1. WorkingRuns = {}
        BY <2>3 DEF Claim, TakeRow, Claimable, NotOursToRun, TimelyInv, CopyIsCurrent,
                    WorkingRuns
      <3>2. WorkingRuns' = {w}
        BY <2>3, <3>1 DEF Claim, TakeRow, WorkingRuns, Working, TypeOK
      <3>3. Holder' = w /\ Phase' = "held" /\ row'.failed = row.failed
        BY <2>3, <3>2, ClaimEffect, PhaseFacts, HolderFacts DEF Holder, Phase
      <3>4. Phase \in {"waiting", "stopped"}
        BY <2>3, PhaseFacts
        DEF Claim, TakeRow, Claimable, NotOursToRun, Phase, TypeOK, Rows, Statuses
      <3> QED
        BY <3>3, <3>4 DEF Item!Take, Item!ItemNext
    <2>4. CASE Parse(w) \/ Break(w)
      <3>1. WorkingRuns' = WorkingRuns
        BY <2>4 DEF Parse, Break, WorkingRuns, Working, TypeOK
      <3> QED
        BY <2>4, <3>1 DEF Parse, Break, Phase, Holder
    <2>5. CASE ParseFails(w)
      <3>1. CopyIsCurrent(w) /\ Phase = "held" /\ Holder = w /\ w # NoRun
        BY <2>5, <2>1 DEF ParseFails, Working
      <3>2. Phase' = "stopped" /\ Holder' = NoRun
        BY <2>5, <3>1, ParseFailsEffect, PhaseFacts, HolderFacts
        DEF CopyIsCurrent, Column, Phase, Holder
      <3>3. row'.failed \in {0, row.failed + 1}
        BY <2>5, <3>1, ParseFailsEffect DEF CopyIsCurrent, Column
      <3> QED
        BY <3>1, <3>2, <3>3 DEF Item!Refuse, Item!ItemNext
    <2>6. CASE Finish(w)
      <3>1. CopyIsCurrent(w) /\ Phase = "held" /\ Holder = w /\ w # NoRun
        BY <2>6, <2>1 DEF Finish, Working
      <3>2. Phase' = "done" /\ Holder' = NoRun /\ row'.failed = 0
        BY <2>6, <3>1, FinishEffect, PhaseFacts, HolderFacts
        DEF CopyIsCurrent, Column, Phase, Holder
      <3> QED
        BY <3>1, <3>2 DEF Item!Succeed, Item!ItemNext
    <2>7. ASSUME NEW error \in Errors, Fail(w, error) PROVE Refined
      <3>1. CopyIsCurrent(w) /\ WorkingRuns = {w}
        BY <2>7, <2>1 DEF Fail, Working
      <3>2. WorkingRuns' = {}
        BY <2>7, <2>2, <3>1 DEF Fail, Outcome
      <3> QED
        BY <2>7, <3>1, <3>2, FailEffect, GivingUpRefines DEF Fail, Item!ItemNext
    <2>8. CASE RecordBreak(w)
      <3>1. CopyIsCurrent(w) /\ WorkingRuns = {w}
        BY <2>8, <2>1 DEF RecordBreak, Working
      <3>2. WorkingRuns' = {}
        BY <2>8, <2>2, <3>1 DEF RecordBreak, Outcome
      <3> QED
        BY <2>8, <3>1, <3>2, RecordBreakEffect, GivingUpRefines DEF RecordBreak, Item!ItemNext
    <2>9. CASE Reread(w)
      <3>1. CASE RowExists
        <4>1. WorkingRuns' = WorkingRuns
          BY <2>9, <3>1 DEF Reread, WorkingRuns, Working, TypeOK
        <4> QED
          BY <2>9, <4>1 DEF Reread, Phase, Holder
      <3>2. CASE ~RowExists
        BY <2>9, <3>2, HolderFacts DEF Reread, Phase, Holder
      <3> QED
        BY <3>1, <3>2
    <2>10. CASE Escape(w)
      BY <2>10, HolderFacts DEF Escape, Phase, Holder
    <2>11. CASE Return(w)
      <3>1. WorkingRuns' = WorkingRuns
        BY <2>11 DEF Return, Idle, WorkingRuns, Working, TypeOK
      <3> QED
        BY <2>11, <3>1 DEF Return, Phase, Holder
    <2>12. CASE Crash(w)
      <3>1. CASE run[w].pc \in Working /\ row.status # "deleted"
        <4>1. Phase = "held" /\ Holder = w /\ w # NoRun /\ WorkingRuns = {w}
          BY <3>1, <2>1
        <4>2. WorkingRuns' = {}
          BY <2>12, <4>1 DEF Crash, Idle, WorkingRuns, Working, TypeOK
        <4>3. Holder' = NoRun /\ Phase' = Phase /\ row' = row
          BY <2>12, <4>2, HolderFacts DEF Crash, Phase, Holder
        <4> QED
          BY <4>1, <4>3 DEF Item!Vanish, Item!ItemNext
      <3>2. CASE row.status = "deleted"
        BY <2>12, <3>2, HolderFacts DEF Crash, Phase, Holder
      <3>3. CASE run[w].pc \notin Working
        <4>1. WorkingRuns' = WorkingRuns
          BY <2>12, <3>3 DEF Crash, Idle, WorkingRuns, Working, TypeOK
        <4> QED
          BY <2>12, <4>1 DEF Crash, Phase, Holder
      <3> QED
        BY <3>1, <3>2, <3>3
    <2> QED
      BY <1>1, <2>3, <2>4, <2>5, <2>6, <2>7, <2>8, <2>9, <2>10, <2>11, <2>12 DEF RunStep
  <1>2. ASSUME NEW h \in Handlers, RetryRead(h) \/ Reupload(h) \/ Enqueue(h) \/ HandlerDies(h)
        PROVE  Refined
    BY <1>2 DEF RetryRead, Reupload, Enqueue, HandlerDies, Phase, Holder, WorkingRuns
  <1>3. ASSUME NEW h \in Handlers, RetryCommit(h) PROVE Refined
    <2>1. /\ CanRetry(row) /\ row.status # "deleted"
          /\ row = handler[h].copy
          /\ WorkingRuns' = WorkingRuns
      BY <1>3 DEF RetryCommit, TimelyInv, WorkingRuns
    <2>2. WorkingRuns = {}
      BY <2>1 DEF TimelyInv, CanRetry, RetryableStatuses, IsStalled, CopyIsCurrent, WorkingRuns
    <2>3. /\ row'.status = "pending" /\ row'.failed = 0
      BY <1>3, <2>1, RetryCommitEffect DEF Column, CanRetry, RetryableStatuses, IsStalled
    <2>4. /\ Phase' = "waiting" /\ Holder = NoRun /\ Holder' = NoRun
          /\ Phase \in {"stopped", "held"}
      BY <2>1, <2>2, <2>3, PhaseFacts, HolderFacts
      DEF Phase, Holder, CanRetry, RetryableStatuses, IsStalled
    <2> QED
      BY <2>3, <2>4 DEF Item!Replay, Item!ItemNext
  <1>4. CASE TimeoutPasses
    BY <1>4 DEF TimeoutPasses, Phase, Holder, WorkingRuns, TypeOK, Rows
  <1>5. CASE Reclaim
    <2>1. row.status = "processing" /\ row.failed \in Nat
      BY <1>5 DEF Reclaim, IsStalled, TypeOK, Rows
    <2>2. WorkingRuns' = {}
      BY <1>5 DEF Reclaim, IsStalled, TimelyInv, CopyIsCurrent, WorkingRuns
    <2>3. Phase = "held" /\ Holder' = NoRun
      BY <2>1, <2>2, PhaseFacts, HolderFacts DEF Phase, Holder
    <2>4. Phase' = IF row'.failed < MaxAttempts THEN "waiting" ELSE "stopped"
      BY <1>5, <2>1, ReclaimEffect, PhaseFacts
      DEF StatusAfter, Verdict, IsRetryable, Permanent, Phase
    <2> QED
      BY <1>5, <2>1, <2>3, <2>4, ReclaimEffect DEF Item!Strike, Item!ItemNext
  <1>6. CASE Delete
    <2>1. /\ Phase' = "gone" /\ Holder' = NoRun /\ row'.failed = 0
      BY <1>6, PhaseFacts, HolderFacts DEF Delete, NoCopy, Phase, Holder
    <2>2. Phase # "gone"
      BY <1>6, PhaseFacts DEF Delete, Phase, TypeOK, Rows, Statuses
    <2> QED
      BY <2>1, <2>2 DEF Item!Remove, Item!ItemNext
  <1> QED
    BY <1>1, <1>2, <1>3, <1>4, <1>5, <1>6 DEF Next, HandlerStep

\* While timing is kept the row is a work item.
THEOREM ResumeIsAWorkItem ==
    ASSUME ~SlowWorkers, ~RetryRaces
    PROVE  Spec => ImplementsWorkItem
  <1>1. Init => Item!ItemInit
    <2> SUFFICES ASSUME Init PROVE Item!ItemInit
      OBVIOUS
    <2>1. row.status = "pending" /\ row.failed = 0
      BY DEF Init, NewRow
    <2> QED
      BY <2>1, PhaseFacts, HolderFacts DEF Item!ItemInit, Phase, Holder
  <1>2. TypeOK /\ TimelyInv /\ [Next]_vars => [Item!ItemNext]_(Item!itemVars)
    <2>1. CASE UNCHANGED vars
      BY <2>1 DEF vars, Item!itemVars, Phase, Holder, WorkingRuns
    <2> QED
      BY <2>1, StepRefines DEF Item!itemVars
  <1> QED
    BY <1>1, <1>2, Timely, TypeCorrect, PTL DEF Spec, ImplementsWorkItem, Item!ItemSpec

-----------------------------------------------------------------------------
\* What the queues rely on, while timing is kept

\* A row that a failure puts back has some of its budget left, and the run is
\* told to try again.
LEMMA PutBack ==
    ASSUME NEW error, NEW failed \in Nat, StatusAfter(error, failed) = "pending"
    PROVE  failed < MaxAttempts /\ Outcome(error, failed) = "retry"
  BY MaxAttemptsAssumption DEF StatusAfter, Outcome, Verdict

\* A failure of a run is the end of its claim.
LEMMA EndedByFailure ==
    ASSUME TypeOK, NEW w \in Workers, CopyIsCurrent(w), NEW error,
           RowAfterFailure(run[w].copy, error, row, row')
    PROVE  /\ row'.status \in {"failed", "dead_lettered", "pending"}
           /\ row'.attempts = row.attempts
           /\ row'.status = "pending" =>
                /\ row'.failed < MaxAttempts
                /\ Outcome(error, run[w].copy.failed + 1) = "retry"
  <1>1. row.failed \in Nat /\ run[w].copy.failed = row.failed
    BY DEF TypeOK, Rows, CopyIsCurrent
  <1>2. /\ row'.status = StatusAfter(error, row.failed + 1)
        /\ row'.failed = row.failed + 1
    BY FailureOfCurrent
  <1>3. row'.attempts = row.attempts
    BY DEF RowAfterFailure
  <1> QED
    BY <1>1, <1>2, <1>3, StatusAfterType, PutBack

\* Somebody is about to dispatch the row under the id it has now: the run
\* whose failure it was, the sweep, or a request.
DispatchOwed ==
    \/ \E w \in Workers : run[w].pc = "retry"
    \/ \E h \in Handlers : handler[h].pc = "enqueueing" /\ handler[h].copy.attempts = row.attempts

\* The steps that leave the row where it is, ...
RowStands ==
    /\ row'.status = row.status
    /\ row'.attempts = row.attempts
    /\ row'.failed = row.failed

\* ... those that end a claim, ...
ClaimEnds ==
    /\ row.status = "processing"
    /\ row'.status \in {"extracted", "failed", "dead_lettered", "pending"}
    /\ row'.attempts = row.attempts
    /\ row'.status = "pending" => row'.failed < MaxAttempts /\ DispatchOwed'

\* ... and a replay, of a row that does not wait.
Replayed ==
    /\ \E h \in Retriers : RetryCommit(h)
    /\ row.status \in {"dead_lettered", "failed", "processing"}
    /\ row'.status = "pending"
    /\ row'.attempts = row.attempts
    /\ row'.failed = 0
    /\ DispatchOwed'

LEMMA RunMovesRow ==
    ASSUME ~SlowWorkers, ~RetryRaces, TypeOK, TimelyInv, NEW w \in Workers, RunStep(w)
    PROVE  Claim(w) \/ RowStands \/ ClaimEnds
  <1>1. ASSUME run[w].pc \in Working, RowExists PROVE CopyIsCurrent(w)
    BY <1>1 DEF TimelyInv, WorkingRuns
  <1>2. CASE ParseFails(w)
    BY <1>1, <1>2, ParseFailsEffect DEF ParseFails, Working, CopyIsCurrent, Column, ClaimEnds
  <1>3. CASE Finish(w)
    BY <1>1, <1>3, FinishEffect DEF Finish, Working, CopyIsCurrent, Column, ClaimEnds
  <1>4. ASSUME NEW error \in Errors, Fail(w, error) PROVE ClaimEnds
    <2>1. CopyIsCurrent(w) /\ row.status = "processing"
      BY <1>1, <1>4 DEF Fail, Working, CopyIsCurrent
    <2>2. run'[w].pc = Outcome(error, run[w].copy.failed + 1)
      BY <1>4 DEF Fail, Returns, TypeOK
    <2> QED
      BY <1>4, <2>1, <2>2, FailEffect, EndedByFailure DEF ClaimEnds, DispatchOwed
  <1>5. CASE RecordBreak(w)
    <2>1. CopyIsCurrent(w) /\ row.status = "processing"
      BY <1>1, <1>5 DEF RecordBreak, Working, CopyIsCurrent
    <2>2. run'[w].pc = Outcome("unexpected", run[w].copy.failed + 1)
      BY <1>5 DEF RecordBreak, Returns, TypeOK
    <2> QED
      BY <1>5, <2>1, <2>2, RecordBreakEffect, EndedByFailure DEF ClaimEnds, DispatchOwed
  <1>6. CASE Parse(w) \/ Break(w) \/ Reread(w) \/ Escape(w) \/ Return(w) \/ Crash(w)
    BY <1>6 DEF Parse, Break, Reread, Escape, Return, Crash, RowStands
  <1> QED
    BY <1>2, <1>3, <1>4, <1>5, <1>6 DEF RunStep

LEMMA ReclaimMovesRow ==
    ASSUME TypeOK, Reclaim
    PROVE  ClaimEnds
  <1>1. row.status = "processing" /\ row.failed \in Nat /\ Reaper \in Handlers
    BY DEF Reclaim, IsStalled, TypeOK, Rows, Handlers
  <1>2. row'.status = "pending" => row'.failed < MaxAttempts
    BY <1>1, ReclaimEffect, PutBack
  <1>3. row'.status = "pending" => DispatchOwed'
    BY <1>1, ReclaimEffect DEF DispatchOwed
  <1> QED
    BY <1>1, <1>2, <1>3, ReclaimEffect DEF ClaimEnds

LEMMA RetryMovesRow ==
    ASSUME ~RetryRaces, TypeOK, NEW h \in Handlers, h \in Retriers, RetryCommit(h),
           CanRetry(handler[h].copy)
    PROVE  Replayed
  <1>1. handler[h].copy = row /\ row \in Rows
    BY DEF RetryCommit, TypeOK
  <1>2. row.status \in {"dead_lettered", "failed", "processing"}
    BY <1>1 DEF CanRetry, RetryableStatuses, IsStalled
  <1>3. row'.status = "pending" /\ row'.failed = 0 /\ row'.attempts = row.attempts
    BY <1>1, RetryCommitEffect DEF Column
  <1>4. PICK new \in Rows :
            /\ handler' = [handler EXCEPT ![h] = [pc |-> "enqueueing", copy |-> new]]
            /\ new.attempts = handler[h].copy.attempts
    BY RetryCommitEffect
  <1>5. DispatchOwed'
    BY <1>1, <1>3, <1>4 DEF DispatchOwed, TypeOK
  <1> QED
    BY <1>2, <1>3, <1>5 DEF Replayed

\* Every step of the row, from the queues' point of view.
LEMMA RowMoves ==
    ASSUME ~SlowWorkers, ~RetryRaces, TypeOK, TimelyInv, [Next]_vars
    PROVE  \/ \E w \in Workers : Claim(w)
           \/ RowStands
           \/ ClaimEnds
           \/ Replayed
           \/ Delete
  <1>1. ASSUME NEW h \in Handlers, RetryCommit(h) PROVE Replayed
    BY <1>1, RetryMovesRow DEF RetryCommit, TimelyInv
  <1>2. ASSUME NEW h \in Handlers,
               RetryRead(h) \/ Reupload(h) \/ Enqueue(h) \/ HandlerDies(h)
        PROVE  RowStands
    BY <1>2 DEF RetryRead, Reupload, Enqueue, HandlerDies, RowStands
  <1>3. CASE TimeoutPasses
    BY <1>3 DEF TimeoutPasses, TypeOK, Rows, RowStands
  <1>4. CASE UNCHANGED vars
    BY <1>4 DEF vars, RowStands
  <1> QED
    BY <1>1, <1>2, <1>3, <1>4, RunMovesRow, ReclaimMovesRow DEF Next, HandlerStep
=============================================================================
