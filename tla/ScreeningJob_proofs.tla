------------------------- MODULE ScreeningJob_proofs -------------------------
(***************************************************************************)
(* Proofs about ScreeningJob, for any number of sessions, any versions of  *)
(* the posting and any bounds.                                             *)
(***************************************************************************)
EXTENDS ScreeningJob, SequenceTheorems, TLAPS

USE MaxAttemptsAssumption, ScreeningAssumption

-----------------------------------------------------------------------------
\* Rows and copies

\* Statuses a failure can end in.
LEMMA StatusAfterIs ==
    ASSUME NEW error, NEW failed \in Nat
    PROVE  StatusAfter(error, failed) \in {"failed", "dead_lettered", "pending"}
  BY DEF StatusAfter, Verdict

\* _record_screening_failure keeps the result and never completes a row.
LEMMA WithFailureIs ==
    ASSUME NEW copy \in Rows, NEW error
    PROVE  /\ WithFailure(copy, error) \in Rows
           /\ WithFailure(copy, error).status \in {"failed", "dead_lettered", "pending"}
           /\ WithFailure(copy, error).judged = copy.judged
  <1> DEFINE status == StatusAfter(error, copy.failed + 1)
             failed == copy.failed + 1
  <1>1. failed \in Nat
    BY DEF Rows
  <1>2. status \in {"failed", "dead_lettered", "pending"}
    BY <1>1, StatusAfterIs
  <1>3. WithFailure(copy, error) = [copy EXCEPT !.failed = failed, !.status = status]
    BY DEF WithFailure
  <1> HIDE DEF status, failed
  <1>4. status \in Statuses
    BY <1>2 DEF Statuses
  <1> QED
    BY <1>1, <1>2, <1>3, <1>4 DEF Rows

\* _record_result completes a copy with the fingerprint it judged.
LEMMA WithResultIs ==
    ASSUME NEW copy \in Rows, NEW version \in Postings \cup {NoPosting}
    PROVE  /\ WithResult(copy, version) \in Rows
           /\ WithResult(copy, version).status = "completed"
           /\ WithResult(copy, version).judged = version
  BY DEF WithResult, Rows, Statuses

\* A requeue keeps the result.
LEMMA RequeuedIs ==
    ASSUME NEW copy \in Rows
    PROVE  /\ Requeued(copy) \in Rows
           /\ Requeued(copy).status = "pending"
           /\ Requeued(copy).judged = copy.judged
  BY DEF Requeued, Rows, Statuses

\* No row, and a row just inserted.
LEMMA AbsentIs ==
    /\ Absent \in Rows /\ Absent.status = "absent" /\ Absent.judged = NoPosting
    /\ NewRow \in Rows /\ NewRow.status = "pending" /\ NewRow.judged = NoPosting
  BY DEF Absent, NewRow, Rows, Statuses

\* A flush of a row that is there writes the changed columns of the copy.
LEMMA FlushedIs ==
    ASSUME screening \in Rows, NEW old \in Rows, NEW new \in Rows
    PROVE  /\ Flushed(old, new) \in Rows
           /\ old.status = "absent" => Flushed(old, new) = new
           /\ old.status # "absent" =>
                /\ Flushed(old, new).status = Column(old.status, new.status, screening.status)
                /\ Flushed(old, new).judged = Column(old.judged, new.judged, screening.judged)
  BY DEF Flushed, Column, Rows

\* The plan is the move asked for, or no move, and none from a terminal state.
LEMMA PlanIs ==
    ASSUME NEW current, NEW to, NEW mover, NEW evidence
    PROVE  /\ Plan(current, to, mover, evidence) \in {to, "none"}
           /\ current \in TerminalStates => Plan(current, to, mover, evidence) = "none"
  BY DEF Plan, TerminalStates

-----------------------------------------------------------------------------
\* Sessions

\* A session's record after it read the application.
Following(s, old, new) ==
    [session[s] EXCEPT !.pc = IF FollowTo(new.status) = "none" THEN "placed" ELSE "planned",
                       !.old = old, !.new = new,
                       !.seen = application, !.to = FollowTo(new.status)]

\* follow_screening's plan is a state the table allows from here, or none.
LEMMA FollowToIs ==
    ASSUME NEW status \in Statuses \ {"absent"}
    PROVE  /\ FollowTo(status) \in States \cup {"none"}
           /\ FollowTo(status) = "screened" => status = "completed"
           /\ FollowTo(status) # "shortlisted"
           /\ FollowTo(status) # "none" => application \notin TerminalStates
  <1>1. StateFor(status) \in {"screening", "screened", "applied"}
    BY DEF StateFor, Statuses
  <1>2. StateFor(status) = "screened" => status = "completed"
    BY DEF StateFor, Statuses
  <1>3. FollowTo(status) \in {StateFor(status), "none"}
    BY PlanIs DEF FollowTo
  <1>4. FollowTo(status) # "none" => application \notin TerminalStates
    BY PlanIs DEF FollowTo
  <1> QED
    BY <1>1, <1>2, <1>3, <1>4 DEF States

\* What Follow makes of the session, and that it touches no other.
LEMMA FollowEffect ==
    ASSUME TypeOK, NEW s \in Sessions, NEW old \in Rows, NEW new \in Rows,
           new.status # "absent", Follow(s, old, new)
    PROVE  /\ session' \in [Sessions -> SessionRecords]
           /\ session' = [session EXCEPT ![s] = Following(s, old, new)]
           /\ session'[s].pc \in {"planned", "placed"}
           /\ session'[s].pc = "placed" => session'[s].to = "none"
           /\ session'[s].pc = "planned" => application \notin TerminalStates
           /\ session'[s].old = old
           /\ session'[s].new = new
           /\ session'[s].seen = application
           /\ session'[s].to = FollowTo(new.status)
           /\ \A t \in Sessions \ {s} : session'[t] = session[t]
  <1> DEFINE to == FollowTo(new.status)
             pc == IF to = "none" THEN "placed" ELSE "planned"
  <1>1. session \in [Sessions -> SessionRecords] /\ application \in States \cup {"none"}
    BY DEF TypeOK
  <1>2. to \in States \cup {"none"} /\ (to # "none" => application \notin TerminalStates)
    BY FollowToIs DEF Rows
  <1>3. pc \in Places /\ pc \in {"planned", "placed"}
    BY DEF Places
  <1>4. Following(s, old, new)
          = [session[s] EXCEPT !.pc = pc, !.old = old, !.new = new,
                               !.seen = application, !.to = to]
    BY DEF Following
  <1>5. session' = [session EXCEPT ![s] = Following(s, old, new)]
    BY DEF Follow, Following
  <1>6. pc = "placed" <=> to = "none"
    OBVIOUS
  <1> DEFINE record == session[s]
             following == Following(s, old, new)
  <1>7. record \in SessionRecords
    BY <1>1
  <1>8. following = [record EXCEPT !.pc = pc, !.old = old, !.new = new,
                                  !.seen = application, !.to = to]
    BY <1>4
  <1> HIDE DEF to, pc, record, following
  <1>9. following = [pc |-> pc, old |-> old, new |-> new, seen |-> application, to |-> to,
                     position |-> record.position, version |-> record.version]
    BY <1>7, <1>8 DEF SessionRecords
  <1>10. following \in SessionRecords
    BY <1>1, <1>2, <1>3, <1>7, <1>9 DEF SessionRecords
  <1>11. /\ Following(s, old, new).pc = pc /\ Following(s, old, new).old = old
        /\ Following(s, old, new).new = new /\ Following(s, old, new).seen = application
        /\ Following(s, old, new).to = to
    BY <1>9 DEF following
  <1>12. session'[s] = Following(s, old, new) /\ session' \in [Sessions -> SessionRecords]
        /\ \A t \in Sessions \ {s} : session'[t] = session[t]
    BY <1>1, <1>5, <1>10 DEF following
  <1> QED
    BY <1>2, <1>3, <1>5, <1>6, <1>11, <1>12 DEF to

\* A closed session is of a session's shape.
LEMMA IdleIs ==
    /\ Idle \in SessionRecords
    /\ Idle.pc = "idle" /\ Idle.old.status = "absent" /\ Idle.old.judged = NoPosting
    /\ Idle.seen = "none" /\ Idle.to = "none"
  BY AbsentIs DEF Idle, SessionRecords, Places

\* A session at a new place with a copy just read.
LEMMA StartedIs ==
    ASSUME NEW pc \in Places, NEW copy \in Rows,
           NEW version \in Postings \cup {NoPosting}
    PROVE  LET r == [Idle EXCEPT !.pc = pc, !.old = copy, !.version = version]
           IN  r \in SessionRecords /\ r.pc = pc /\ r.old = copy /\ r.seen = "none"
  BY IdleIs DEF SessionRecords, Idle

\* A transaction that found its position taken is at a new place, with the
\* claimed copy or none.
LEMMA CollideEffect ==
    ASSUME TypeOK, NEW s \in Sessions, Collide(s)
    PROVE  \E record \in SessionRecords :
             /\ session' = [session EXCEPT ![s] = record]
             /\ record.seen = "none"
             /\ \/ record = Idle
                \/ s \in Workers /\ record.pc = "broken" /\ record.old = session[s].old
                \/ s \in Askers /\ record.pc = "refinding" /\ record.old = Absent
  <1> DEFINE broken == [Idle EXCEPT !.pc = "broken", !.old = session[s].old]
             refinding == [Idle EXCEPT !.pc = "refinding", !.version = session[s].version]
             record ==
               IF s \in Workers /\ session[s].new.status = "completed" THEN broken
               ELSE IF s \in Askers /\ session[s].old.status = "absent" THEN refinding
               ELSE Idle
  <1>1. session[s] \in SessionRecords
    BY DEF TypeOK
  <1>2. /\ broken \in SessionRecords /\ broken.seen = "none"
        /\ broken.pc = "broken" /\ broken.old = session[s].old
    BY <1>1, IdleIs DEF SessionRecords, Places, Idle
  <1>3. /\ refinding \in SessionRecords /\ refinding.seen = "none"
        /\ refinding.pc = "refinding" /\ refinding.old = Absent
    BY <1>1, IdleIs DEF SessionRecords, Places, Idle
  <1>4. session' = [session EXCEPT ![s] = record]
    BY DEF Collide
  <1> HIDE DEF broken, refinding
  <1> QED
    BY <1>2, <1>3, <1>4, IdleIs

\* A session at a new place, with everything else as it was.
LEMMA MovedIs ==
    ASSUME NEW record \in SessionRecords, NEW pc \in Places
    PROVE  /\ [record EXCEPT !.pc = pc] \in SessionRecords
           /\ \A position \in Nat :
                [record EXCEPT !.pc = pc, !.position = position] \in SessionRecords
           /\ \A to \in States :
                [record EXCEPT !.pc = pc, !.to = to] \in SessionRecords
           /\ \A seen \in States :
                [record EXCEPT !.pc = pc, !.seen = seen] \in SessionRecords
           /\ \A old \in Rows :
                [record EXCEPT !.pc = pc, !.old = old] \in SessionRecords
  BY DEF SessionRecords

\* A commit writes a row of the row's shape, or leaves it.
LEMMA CommitTypes ==
    ASSUME TypeOK, NEW s \in Sessions, Commit(s)
    PROVE  TypeOK'
  <1>1. /\ screening \in Rows /\ application \in States \cup {"none"}
        /\ log \in Seq(Events) /\ posting \in Postings
        /\ session \in [Sessions -> SessionRecords]
    BY DEF TypeOK
  <1>2. session[s].old \in Rows /\ session[s].new \in Rows
    BY <1>1 DEF SessionRecords
  <1>3. session[s].to \in States \cup {"none"} /\ session[s].seen \in States \cup {"none"}
    BY <1>1 DEF SessionRecords
  <1>4. screening' \in Rows
    BY <1>1, <1>2, FlushedIs DEF Commit
  <1>5. session' \in [Sessions -> SessionRecords]
    BY <1>1, IdleIs DEF Commit, Closes
  <1>6. application' \in States \cup {"none"} /\ log' \in Seq(Events)
    <2>1. CASE session[s].to = "none"
      BY <1>1, <2>1 DEF Commit
    <2>2. CASE session[s].to # "none"
      <3>1. Event(session[s].seen, session[s].to) \in Events
        BY <1>3, <2>2 DEF Event, Events
      <3>2. Append(log, Event(session[s].seen, session[s].to)) \in Seq(Events)
        BY <1>1, <3>1
      <3> QED
        BY <1>3, <2>2, <3>2 DEF Commit
    <2> QED
      BY <2>1, <2>2
  <1> QED
    BY <1>1, <1>4, <1>5, <1>6 DEF TypeOK, Commit

\* The row, the log and the sessions keep their shape.
LEMMA NextTypes == TypeOK /\ [Next]_vars => TypeOK'
  <1> SUFFICES ASSUME TypeOK, [Next]_vars
               PROVE  TypeOK'
    OBVIOUS
  <1>1. /\ screening \in Rows /\ application \in States \cup {"none"}
        /\ log \in Seq(Events) /\ posting \in Postings
        /\ session \in [Sessions -> SessionRecords]
    BY DEF TypeOK
  <1>2. ASSUME NEW s \in Sessions
        PROVE  /\ session[s] \in SessionRecords
               /\ session[s].old \in Rows /\ session[s].new \in Rows
               /\ session[s].version \in Postings \cup {NoPosting}
               /\ session[s].seen \in States \cup {"none"}
    BY <1>1 DEF SessionRecords
  <1>3. ASSUME NEW s \in Sessions, NEW record \in SessionRecords,
               session' = [session EXCEPT ![s] = record]
        PROVE  session' \in [Sessions -> SessionRecords]
    BY <1>1, <1>3
  <1>4. \A s \in Sessions : [Idle EXCEPT !.pc = "broken", !.old = session[s].old] \in SessionRecords
    BY <1>2, IdleIs, MovedIs DEF Places
  <1> USE DEF Sessions
  <1>5. ASSUME NEW w \in Workers, RunStep(w)
        PROVE  TypeOK'
    <2>1. CASE Claim(w)
      <3> DEFINE claims == screening.attempts + 1
      <3>1. claims \in Nat
        BY <1>1 DEF Rows
      <3>2. screening' = [screening EXCEPT !.status = "processing", !.attempts = claims,
                                           !.stale = FALSE]
        BY <2>1 DEF Claim
      <3> HIDE DEF claims
      <3>3. screening' \in Rows
        BY <1>1, <3>1, <3>2 DEF Rows, Statuses
      <3> DEFINE record == [Idle EXCEPT !.pc = "judging", !.old = screening', !.version = posting]
      <3>4. record \in SessionRecords
        BY <1>1, <3>3, StartedIs DEF Places
      <3>5. session' = [session EXCEPT ![w] = record]
        BY <2>1 DEF Claim
      <3> HIDE DEF record
      <3> QED
        BY <1>1, <1>3, <2>1, <3>3, <3>4, <3>5 DEF TypeOK, Claim
    <2>2. CASE Judge(w)
      BY <1>1, <1>2, <2>2, WithResultIs, FollowEffect DEF TypeOK, Judge
    <2>3. ASSUME NEW error \in Errors, Fail(w, error)
          PROVE  TypeOK'
      BY <1>1, <1>2, <2>3, WithFailureIs, FollowEffect DEF TypeOK, Fail
    <2>4. CASE Break(w)
      BY <1>1, <1>3, <1>4, <2>4 DEF TypeOK, Break
    <2>5. CASE Reread(w)
      <3>1. [Idle EXCEPT !.pc = "recording", !.old = screening] \in SessionRecords
        BY <1>1, IdleIs, MovedIs DEF Places
      <3> QED
        BY <1>1, <1>3, <2>5, <3>1 DEF TypeOK, Reread
    <2>6. CASE RecordBreak(w)
      BY <1>1, <1>2, <2>6, WithFailureIs, FollowEffect DEF TypeOK, RecordBreak
    <2> QED
      BY <1>5, <2>1, <2>2, <2>3, <2>4, <2>5, <2>6 DEF RunStep
  <1>6. ASSUME NEW a \in Askers, AskStep(a)
        PROVE  TypeOK'
    <2>1. CASE Ask(a)
      <3> DEFINE pc == IF screening.status = "absent" THEN "creating" ELSE "asked"
                 record == [Idle EXCEPT !.pc = pc, !.old = screening, !.version = posting]
      <3>1. pc \in Places
        BY DEF Places
      <3>2. session' = [session EXCEPT ![a] = record]
        BY <2>1 DEF Ask
      <3> HIDE DEF pc
      <3>3. record \in SessionRecords
        BY <1>1, <3>1, StartedIs
      <3> HIDE DEF record
      <3> QED
        BY <1>1, <1>3, <2>1, <3>2, <3>3 DEF TypeOK, Ask
    <2>2. CASE Retry(a)
      <3>1. [Idle EXCEPT !.pc = "asked", !.old = screening] \in SessionRecords
        BY <1>1, IdleIs, MovedIs DEF Places
      <3> QED
        BY <1>1, <1>3, <2>2, <3>1 DEF TypeOK, Retry
    <2>3. CASE Insert(a)
      BY <1>1, <2>3, AbsentIs, FollowEffect DEF TypeOK, Insert
    <2>4. CASE LoseRace(a)
      <3> DEFINE record == IF NeedsRunning(screening, session[a].version)
                             THEN [session[a] EXCEPT !.pc = "asked", !.old = screening]
                             ELSE Idle
      <3>1. session' = [session EXCEPT ![a] = record]
        BY <2>4 DEF LoseRace
      <3>2. record \in SessionRecords
        BY <1>1, <1>2, IdleIs, MovedIs DEF Places
      <3> HIDE DEF record
      <3> QED
        BY <1>1, <1>3, <2>4, <3>1, <3>2 DEF TypeOK, LoseRace
    <2>5. CASE Requeue(a)
      BY <1>1, <1>2, <2>5, RequeuedIs, FollowEffect DEF TypeOK, Requeue
    <2>6. CASE FindNobody(a)
      BY <1>1, <1>3, <2>6, IdleIs DEF TypeOK, FindNobody, Closes
    <2> QED
      BY <1>6, <2>1, <2>2, <2>3, <2>4, <2>5, <2>6 DEF AskStep
  <1>7. ASSUME NEW d \in Deciders, DecideStep(d)
        PROVE  TypeOK'
    <2>1. CASE Move(d)
      <3> DEFINE record == [session[d] EXCEPT !.pc = "moving", !.seen = application]
      <3>1. session' = [session EXCEPT ![d] = record]
        BY <1>1, <2>1 DEF Move
      <3>2. record \in SessionRecords
        BY <1>1, <1>2, <2>1, MovedIs DEF Places, Move
      <3> HIDE DEF record
      <3> QED
        BY <1>1, <1>3, <2>1, <3>1, <3>2 DEF TypeOK, Move
    <2>2. ASSUME NEW to \in States, NEW mover \in Movers \ {"system"}, Decide(d, to, mover)
          PROVE  TypeOK'
      <3> DEFINE planned == Plan(session[d].seen, to, mover, screening.status = "completed")
                 record == IF planned = "none" THEN Idle
                           ELSE [session[d] EXCEPT !.pc = "planned", !.to = planned]
      <3>1. planned \in {to, "none"}
        BY PlanIs
      <3>2. session' = [session EXCEPT ![d] = record]
        BY <2>2 DEF Decide
      <3> HIDE DEF planned
      <3>3. record \in SessionRecords
        BY <1>1, <1>2, <3>1, IdleIs, MovedIs DEF Places
      <3> HIDE DEF record
      <3> QED
        BY <1>1, <1>3, <2>2, <3>2, <3>3 DEF TypeOK, Decide
    <2> QED
      BY <1>7, <2>1, <2>2 DEF DecideStep
  <1>8. ASSUME NEW s \in Sessions, TransactionStep(s)
        PROVE  TypeOK'
    <2>1. CASE ReadPosition(s)
      <3> DEFINE position == Len(log)
                 record == [session[s] EXCEPT !.pc = "placed", !.position = position]
      <3>1. session' = [session EXCEPT ![s] = record]
        BY <1>1, <2>1 DEF ReadPosition
      <3>2. position \in Nat /\ "placed" \in Places
        BY <1>1 DEF Places
      <3> HIDE DEF position
      <3>3. record \in SessionRecords
        BY <1>2, <3>2, MovedIs
      <3> HIDE DEF record
      <3> QED
        BY <1>1, <1>3, <2>1, <3>1, <3>3 DEF TypeOK, ReadPosition
    <2>2. CASE Commit(s)
      BY <2>2, CommitTypes
    <2>3. CASE Collide(s)
      <3>1. PICK record \in SessionRecords : session' = [session EXCEPT ![s] = record]
        BY <2>3, CollideEffect
      <3> QED
        BY <1>1, <1>3, <2>3, <3>1 DEF TypeOK, Collide
    <2>4. CASE Dies(s)
      BY <1>1, <1>3, <2>4, IdleIs DEF TypeOK, Dies, Closes
    <2> QED
      BY <1>8, <2>1, <2>2, <2>3, <2>4 DEF TransactionStep
  <1>9. CASE TimeoutPasses
    BY <1>1, <1>9 DEF TypeOK, TimeoutPasses, Rows
  <1>10. CASE Reclaim
    BY <1>1, <1>10, WithFailureIs, FollowEffect DEF TypeOK, Reclaim
  <1>11. CASE Edit
    BY <1>1, <1>11 DEF TypeOK, Edit
  <1>12. CASE Apply
    <2>1. Event("none", "applied") \in Events
      BY DEF Event, Events, States
    <2> QED
      BY <1>1, <1>12, <2>1 DEF TypeOK, Apply, States
  <1>13. CASE UNCHANGED vars
    BY <1>1, <1>13 DEF TypeOK, vars
  <1> QED
    BY <1>5, <1>6, <1>7, <1>8, <1>9, <1>10, <1>11, <1>12, <1>13 DEF Next

\* The row, the application, its log and every session's copy keep their
\* types, however many runs, requests and sweeps overlap.
THEOREM TypeCorrect == Spec => []TypeOK
  <1>1. Init => TypeOK
    BY AbsentIs, IdleIs DEF Init, TypeOK
  <1> QED
    BY <1>1, NextTypes, PTL DEF Spec

-----------------------------------------------------------------------------
\* The log, whatever overlaps

\* What LogInv says of one session.
SeenSound(s) ==
    /\ session[s].seen # "none" => session[s].seen \in Reached(Len(log))
    /\ session[s].pc = "moving" => session[s].seen # "none"
    /\ session[s].pc \in {"planned", "placed"} /\ session[s].to # "none" =>
         session[s].seen # "none" /\ LegalMove(session[s].seen, session[s].to)

LEMMA LogInvIs ==
    LogInv <=> EveryEventWasLegal /\ \A s \in Sessions : SeenSound(s)
  BY DEF LogInv, SeenSound

\* The state an application is in is one its log has come to.
LEMMA NowIsReached ==
    ASSUME TypeOK, LogInv, application # "none"
    PROVE  application \in Reached(Len(log))
  <1>1. Len(log) \in Nat
    BY DEF TypeOK
  <1>2. application = After(log, Len(log)) /\ Len(log) # 0
    BY DEF LogInv, EveryEventWasLegal, After
  <1>3. Len(log) \in 1 .. Len(log)
    BY <1>1, <1>2
  <1> QED
    BY <1>2, <1>3 DEF Reached

\* One session moves on, and nothing is written.
LEMMA SessionStepKeepsLog ==
    ASSUME LogInv, NEW s \in Sessions, UNCHANGED <<application, log>>,
           SeenSound(s)', \A t \in Sessions \ {s} : session'[t] = session[t]
    PROVE  LogInv'
  <1>1. \A t \in Sessions \ {s} : SeenSound(t)'
    BY LogInvIs DEF SeenSound, Reached, After
  <1>2. EveryEventWasLegal'
    BY DEF LogInv, EveryEventWasLegal, Reached, After
  <1> QED
    BY <1>1, <1>2 DEF LogInv, SeenSound

\* A session that plans nothing has seen nothing, or what it saw, or looks now.
LEMMA ElsewhereKeepsLog ==
    ASSUME TypeOK, LogInv, NEW s \in Sessions, NEW record,
           record.pc \notin {"planned", "placed"},
           record.seen \in {"none", session[s].seen, application},
           record.pc = "moving" => record.seen # "none",
           session' = [session EXCEPT ![s] = record], UNCHANGED <<application, log>>
    PROVE  LogInv'
  <1>1. session'[s] = record /\ \A t \in Sessions \ {s} : session'[t] = session[t]
    BY DEF TypeOK
  <1>2. record.seen # "none" => record.seen \in Reached(Len(log))
    BY NowIsReached DEF LogInv
  <1>3. Reached(Len(log))' = Reached(Len(log))
    BY DEF Reached, After
  <1>4. SeenSound(s)'
    BY <1>1, <1>2, <1>3 DEF SeenSound
  <1> QED
    BY <1>1, <1>4, SessionStepKeepsLog

\* A move that is planned is legal.
LEMMA PlanIsLegal ==
    ASSUME NEW current, NEW to, NEW mover \in Movers, NEW evidence,
           Plan(current, to, mover, evidence) # "none"
    PROVE  LegalMove(current, to) /\ Plan(current, to, mover, evidence) = to
  BY DEF Plan, LegalMove

\* A session that follows a screening has just read the application.
LEMMA FollowKeepsLog ==
    ASSUME TypeOK, LogInv, NEW s \in Sessions, NEW old \in Rows, NEW new \in Rows,
           new.status # "absent", Follow(s, old, new), UNCHANGED <<application, log>>
    PROVE  LogInv'
  <1>1. /\ session'[s].pc \in {"planned", "placed"}
        /\ session'[s].seen = application /\ session'[s].to = FollowTo(new.status)
        /\ \A t \in Sessions \ {s} : session'[t] = session[t]
    BY FollowEffect
  <1>2. FollowTo(new.status) # "none" =>
          application # "none" /\ LegalMove(application, FollowTo(new.status))
    BY PlanIsLegal DEF FollowTo, Movers
  <1>3. Reached(Len(log))' = Reached(Len(log))
    BY DEF Reached, After
  <1>4. SeenSound(s)'
    BY <1>1, <1>2, <1>3, NowIsReached DEF SeenSound
  <1> QED
    BY <1>1, <1>4, SessionStepKeepsLog

\* A legal event from a state the log has come to keeps the log legal.
LEMMA AppendKeepsLog ==
    ASSUME TypeOK, LogInv, NEW from \in States, NEW to \in States,
           from \in Reached(Len(log)), LegalMove(from, to),
           log' = Append(log, Event(from, to)), application' = to
    PROVE  /\ EveryEventWasLegal'
           /\ Reached(Len(log)) \subseteq Reached(Len(log))'
  <1> DEFINE n == Len(log)
  <1>1. log \in Seq(Events) /\ Event(from, to) \in Events /\ n \in Nat
    BY DEF TypeOK, Event, Events
  <1>2. Len(log') = n + 1 /\ log'[n + 1] = Event(from, to)
    BY <1>1
  <1>3. \A i \in 1 .. n : log'[i] = log[i]
    BY <1>1
  <1>4. \A i \in 1 .. n : After(log', i) = After(log, i)
    BY <1>1, <1>3 DEF After
  <1>5. n # 0
    BY DEF Reached
  <1>6. Event(from, to).from = from /\ Event(from, to).to = to
    BY DEF Event
  <1>7. to = After(log', n + 1)
    BY <1>1, <1>2, <1>6 DEF After
  <1> HIDE DEF n
  <1>8. \A k \in 0 .. n : Reached(k)' = Reached(k)
    BY <1>1, <1>4 DEF Reached
  <1>9. ASSUME NEW i \in 1 .. n + 1
        PROVE  IF i = 1 THEN log'[i] = Event("none", "applied")
               ELSE log'[i].from \in Reached(i - 1)' /\ LegalMove(log'[i].from, log'[i].to)
    <2>1. CASE i \in 1 .. n
      <3>1. i - 1 \in 0 .. n
        BY <1>1, <2>1
      <3>2. IF i = 1 THEN log[i] = Event("none", "applied")
            ELSE log[i].from \in Reached(i - 1) /\ LegalMove(log[i].from, log[i].to)
        BY <2>1 DEF LogInv, EveryEventWasLegal, n
      <3> QED
        BY <1>3, <1>8, <2>1, <3>1, <3>2
    <2>2. CASE i = n + 1
      <3>1. i # 1 /\ i - 1 = n /\ n \in 0 .. n
        BY <1>1, <1>5, <2>2
      <3> QED
        BY <1>2, <1>6, <1>8, <2>2, <3>1 DEF n
    <2>3. i \in 1 .. n \/ i = n + 1
      BY <1>1
    <2> QED
      BY <2>1, <2>2, <2>3
  <1>10. Reached(n) \subseteq {After(log', j) : j \in 1 .. n + 1}
    <2>1. \A j \in 1 .. n : j \in 1 .. n + 1
      BY <1>1
    <2> QED
      BY <1>4, <2>1 DEF Reached
  <1>11. Reached(n) \subseteq Reached(Len(log))'
    BY <1>2, <1>10 DEF Reached
  <1>12. EveryEventWasLegal'
    BY <1>2, <1>7, <1>9 DEF EveryEventWasLegal
  <1> QED
    BY <1>11, <1>12 DEF n

\* A commit appends a legal event, or leaves the log alone.
LEMMA CommitKeepsLog ==
    ASSUME TypeOK, LogInv, NEW s \in Sessions, Commit(s)
    PROVE  LogInv'
  <1>1. session'[s] = Idle /\ \A t \in Sessions \ {s} : session'[t] = session[t]
    BY DEF TypeOK, Commit, Closes
  <1>2. SeenSound(s)'
    BY <1>1, IdleIs DEF SeenSound
  <1>3. CASE session[s].to = "none"
    BY <1>1, <1>2, <1>3, SessionStepKeepsLog DEF Commit
  <1>4. CASE session[s].to # "none"
    <2>1. /\ session[s].seen \in Reached(Len(log)) /\ session[s].seen \in States
          /\ session[s].to \in States /\ LegalMove(session[s].seen, session[s].to)
      BY <1>4 DEF TypeOK, SessionRecords, LogInv, Commit
    <2>2. EveryEventWasLegal' /\ Reached(Len(log)) \subseteq Reached(Len(log))'
      BY <1>4, <2>1, AppendKeepsLog DEF Commit
    <2>3. \A t \in Sessions \ {s} : SeenSound(t)'
      BY <1>1, <2>2, LogInvIs DEF SeenSound
    <2> QED
      BY <1>2, <2>2, <2>3 DEF LogInv, SeenSound
  <1> QED
    BY <1>3, <1>4

LEMMA NextKeepsLog == TypeOK /\ LogInv /\ [Next]_vars => LogInv'
  <1> SUFFICES ASSUME TypeOK, LogInv, [Next]_vars
               PROVE  LogInv'
    OBVIOUS
  <1>1. \A s \in Sessions : /\ session[s] \in SessionRecords
                            /\ session[s].old \in Rows /\ session[s].version \in Postings \cup {NoPosting}
    BY DEF TypeOK, SessionRecords
  <1>2. screening \in Rows /\ posting \in Postings
    BY DEF TypeOK
  <1> USE DEF Sessions
  <1>5. ASSUME NEW w \in Workers, RunStep(w)
        PROVE  LogInv'
    <2>1. CASE Claim(w)
      <3> DEFINE record == [Idle EXCEPT !.pc = "judging", !.old = screening', !.version = posting]
      <3>1. session' = [session EXCEPT ![w] = record] /\ UNCHANGED <<application, log>>
        BY <2>1 DEF Claim
      <3>2. record.pc = "judging" /\ record.seen = "none"
        BY DEF Idle
      <3> HIDE DEF record
      <3> QED
        BY <3>1, <3>2, ElsewhereKeepsLog
    <2>2. CASE Judge(w)
      BY <1>1, <2>2, WithResultIs, FollowKeepsLog DEF Judge
    <2>3. ASSUME NEW error \in Errors, Fail(w, error)
          PROVE  LogInv'
      BY <1>1, <2>3, WithFailureIs, FollowKeepsLog DEF Fail
    <2>4. CASE Break(w)
      <3> DEFINE record == [Idle EXCEPT !.pc = "broken", !.old = session[w].old]
      <3>1. session' = [session EXCEPT ![w] = record] /\ UNCHANGED <<application, log>>
        BY <2>4 DEF Break
      <3>2. record.pc = "broken" /\ record.seen = "none"
        BY DEF Idle
      <3> HIDE DEF record
      <3> QED
        BY <3>1, <3>2, ElsewhereKeepsLog
    <2>5. CASE Reread(w)
      <3> DEFINE record == [Idle EXCEPT !.pc = "recording", !.old = screening]
      <3>1. session' = [session EXCEPT ![w] = record] /\ UNCHANGED <<application, log>>
        BY <2>5 DEF Reread
      <3>2. record.pc = "recording" /\ record.seen = "none"
        BY DEF Idle
      <3> HIDE DEF record
      <3> QED
        BY <3>1, <3>2, ElsewhereKeepsLog
    <2>6. CASE RecordBreak(w)
      BY <1>1, <2>6, WithFailureIs, FollowKeepsLog DEF RecordBreak
    <2> QED
      BY <1>5, <2>1, <2>2, <2>3, <2>4, <2>5, <2>6 DEF RunStep
  <1>6. ASSUME NEW a \in Askers, AskStep(a)
        PROVE  LogInv'
    <2>1. CASE Ask(a)
      <3> DEFINE pc == IF screening.status = "absent" THEN "creating" ELSE "asked"
      <3> DEFINE record == [Idle EXCEPT !.pc = pc, !.old = screening, !.version = posting]
      <3>1. session' = [session EXCEPT ![a] = record] /\ UNCHANGED <<application, log>>
        BY <2>1 DEF Ask
      <3>2. record.pc \in {"creating", "asked"} /\ record.seen = "none"
        BY DEF Idle
      <3> HIDE DEF record
      <3> QED
        BY <3>1, <3>2, ElsewhereKeepsLog
    <2>2. CASE Retry(a)
      <3> DEFINE record == [Idle EXCEPT !.pc = "asked", !.old = screening]
      <3>1. session' = [session EXCEPT ![a] = record] /\ UNCHANGED <<application, log>>
        BY <2>2 DEF Retry
      <3>2. record.pc = "asked" /\ record.seen = "none"
        BY DEF Idle
      <3> HIDE DEF record
      <3> QED
        BY <3>1, <3>2, ElsewhereKeepsLog
    <2>3. CASE Insert(a)
      BY <2>3, AbsentIs, FollowKeepsLog DEF Insert
    <2>4. CASE LoseRace(a)
      <3> DEFINE again == [session[a] EXCEPT !.pc = "asked", !.old = screening]
                 record == IF NeedsRunning(screening, session[a].version) THEN again ELSE Idle
      <3>1. again.pc = "asked" /\ again.seen = session[a].seen
        BY <1>1 DEF SessionRecords
      <3>2. session' = [session EXCEPT ![a] = record] /\ UNCHANGED <<application, log>>
        BY <2>4 DEF LoseRace
      <3> HIDE DEF again
      <3>3. /\ record.pc \notin {"planned", "placed", "moving"}
            /\ record.seen \in {"none", session[a].seen, application}
        BY <3>1, IdleIs
      <3> HIDE DEF record
      <3> QED
        BY <3>2, <3>3, ElsewhereKeepsLog
    <2>5. CASE Requeue(a)
      BY <1>1, <2>5, RequeuedIs, FollowKeepsLog DEF Requeue
    <2>6. CASE FindNobody(a)
      BY <2>6, IdleIs, ElsewhereKeepsLog DEF FindNobody, Closes
    <2> QED
      BY <1>6, <2>1, <2>2, <2>3, <2>4, <2>5, <2>6 DEF AskStep
  <1>7. ASSUME NEW d \in Deciders, DecideStep(d)
        PROVE  LogInv'
    <2>1. CASE Move(d)
      <3> DEFINE record == [session[d] EXCEPT !.pc = "moving", !.seen = application]
      <3>1. session \in [Sessions -> SessionRecords]
        BY DEF TypeOK
      <3>2. session' = [session EXCEPT ![d] = record] /\ UNCHANGED <<application, log>>
        BY <2>1, <3>1 DEF Move
      <3>3. record.pc = "moving" /\ record.seen = application /\ application # "none"
        BY <1>1, <2>1 DEF SessionRecords, Move
      <3> HIDE DEF record
      <3> QED
        BY <3>2, <3>3, ElsewhereKeepsLog
    <2>2. ASSUME NEW to \in States, NEW mover \in Movers \ {"system"}, Decide(d, to, mover)
          PROVE  LogInv'
      <3> DEFINE planned == Plan(session[d].seen, to, mover, screening.status = "completed")
                 record == [session[d] EXCEPT !.pc = "planned", !.to = planned]
      <3>1. planned # "none" => LegalMove(session[d].seen, to) /\ planned = to
        BY PlanIsLegal
      <3>2. session' = [session EXCEPT ![d] = IF planned = "none" THEN Idle ELSE record]
            /\ UNCHANGED <<application, log>>
        BY <2>2 DEF Decide
      <3> HIDE DEF planned
      <3>3. record.pc = "planned" /\ record.seen = session[d].seen /\ record.to = planned
        BY <1>1 DEF SessionRecords
      <3> HIDE DEF record
      <3>4. CASE planned = "none"
        BY <3>2, <3>4, IdleIs, ElsewhereKeepsLog
      <3>5. CASE planned # "none"
        <4>1. session'[d] = record /\ \A t \in Sessions \ {d} : session'[t] = session[t]
          BY <3>2, <3>5 DEF TypeOK
        <4>2. session[d].seen # "none" /\ session[d].seen \in Reached(Len(log))
          BY <2>2 DEF Decide, LogInv
        <4>3. SeenSound(d)'
          BY <3>1, <3>2, <3>3, <3>5, <4>1, <4>2 DEF SeenSound, Reached, After
        <4> QED
          BY <3>2, <4>1, <4>3, SessionStepKeepsLog
      <3> QED
        BY <3>4, <3>5
    <2> QED
      BY <1>7, <2>1, <2>2 DEF DecideStep
  <1>8. ASSUME NEW s \in Sessions, TransactionStep(s)
        PROVE  LogInv'
    <2>1. CASE ReadPosition(s)
      <3> DEFINE record == [session[s] EXCEPT !.pc = "placed", !.position = Len(log)]
      <3>1. session' = [session EXCEPT ![s] = record]
        BY <2>1 DEF ReadPosition, TypeOK
      <3>2. /\ record.pc = "placed" /\ record.seen = session[s].seen
            /\ record.to = session[s].to
        BY <1>1 DEF SessionRecords
      <3> HIDE DEF record
      <3>3. session'[s] = record /\ \A t \in Sessions \ {s} : session'[t] = session[t]
        BY <3>1 DEF TypeOK
      <3>4. UNCHANGED <<application, log>> /\ session[s].pc = "planned"
        BY <2>1 DEF ReadPosition
      <3>5. SeenSound(s)'
        BY <3>2, <3>3, <3>4 DEF LogInv, SeenSound, Reached, After
      <3> QED
        BY <3>3, <3>4, <3>5, SessionStepKeepsLog
    <2>2. CASE Commit(s)
      BY <2>2, CommitKeepsLog
    <2>3. CASE Collide(s)
      <3>1. PICK record \in SessionRecords :
              /\ session' = [session EXCEPT ![s] = record]
              /\ record.seen = "none" /\ record.pc \in {"idle", "broken", "refinding"}
        BY <2>3, IdleIs, CollideEffect
      <3>2. UNCHANGED <<application, log>>
        BY <2>3 DEF Collide
      <3> QED
        BY <3>1, <3>2, ElsewhereKeepsLog
    <2>4. CASE Dies(s)
      BY <2>4, IdleIs, ElsewhereKeepsLog DEF Dies, Closes
    <2> QED
      BY <1>8, <2>1, <2>2, <2>3, <2>4 DEF TransactionStep
  <1>9. CASE TimeoutPasses
    BY <1>9 DEF TimeoutPasses, LogInv, EveryEventWasLegal, Reached, After
  <1>10. CASE Reclaim
    BY <1>2, <1>10, WithFailureIs, FollowKeepsLog DEF Reclaim
  <1>11. CASE Edit
    BY <1>11 DEF Edit, LogInv, EveryEventWasLegal, Reached, After
  <1>12. CASE Apply
    <2>1. log \in Seq(Events) /\ Len(log) \in Nat
      BY DEF TypeOK
    <2>2. Len(log) = 0
      <3>1. CASE Len(log) > 0
        <4>1. log[Len(log)] \in Events
          BY <2>1, <3>1
        <4> QED
          BY <1>12, <3>1, <4>1 DEF Apply, LogInv, EveryEventWasLegal, After, Events, States
      <3> QED
        BY <2>1, <3>1
    <2>3. /\ log' = <<Event("none", "applied")>> /\ application' = "applied"
          /\ session' = session
      BY <1>12 DEF Apply
    <2>4. Len(log') = 1 /\ log'[1] = Event("none", "applied") /\ log'[1].to = "applied"
      BY <2>3 DEF Event
    <2>5. EveryEventWasLegal'
      BY <2>3, <2>4 DEF EveryEventWasLegal, After
    <2>6. \A s \in Sessions : session[s].seen = "none"
      BY <2>2 DEF LogInv, Reached
    <2> QED
      BY <2>3, <2>5, <2>6 DEF LogInv
  <1>13. CASE UNCHANGED vars
    BY <1>13 DEF vars, LogInv, EveryEventWasLegal, Reached, After
  <1> QED
    BY <1>5, <1>6, <1>7, <1>8, <1>9, <1>10, <1>11, <1>12, <1>13 DEF Next

LEMMA LogAlwaysSound == Spec => []LogInv
  <1>1. Init => LogInv
    BY IdleIs DEF Init, LogInv, EveryEventWasLegal, After, Idle
  <1> QED
    BY <1>1, NextKeepsLog, TypeCorrect, PTL DEF Spec

\* Whatever runs late, twice or never, and whoever overtakes whom, the log
\* holds moves that somebody was allowed to make, from states that are not
\* final and to which the application had come before, and the application
\* is where the last of them put it.
THEOREM LogHoldsLegalMoves == Spec => []EveryEventWasLegal
  <1>1. LogInv => EveryEventWasLegal
    BY DEF LogInv
  <1> QED
    BY <1>1, LogAlwaysSound, PTL

-----------------------------------------------------------------------------
\* The result behind `screened`, whatever the timing

\* What ResultInv says of one session.
SessionSound(s) ==
    /\ CopyIsBacked(s)
    /\ session[s].pc \in {"planned", "placed"} =>
         IF s \in Deciders
           THEN /\ session[s].to # "screened"
                /\ session[s].to = "shortlisted" => session[s].seen = "screened"
           ELSE ChangeIsSound(s)
    /\ session[s].pc \in {"judging", "broken", "recording", "asked"} =>
         session[s].old.status # "absent"
    /\ s \in Workers /\ session[s].pc = "judging" => session[s].version # NoPosting
    /\ s \in Workers \cup {Reaper} /\ session[s].pc # "idle" =>
         session[s].old.status # "absent"
    /\ s \in Askers /\ Inserting(s) => screening.status = "absent"

OneInserts == \A s, t \in Askers : Inserting(s) /\ Inserting(t) => s = t

LEMMA ResultInvIs ==
    ResultInv <=> /\ ScreenedHasResult
                  /\ screening.status = "absent" => screening.judged = NoPosting
                  /\ \A s \in Sessions : SessionSound(s)
                  /\ OneInserts
  BY DEF ResultInv, SessionSound, OneInserts, Sessions

\* One session moves on, and neither the row nor the application changes.
LEMMA SessionStepKeepsResult ==
    ASSUME ResultInv, NEW s \in Sessions, UNCHANGED <<screening, application>>,
           SessionSound(s)', \A t \in Sessions \ {s} : session'[t] = session[t],
           s \in Askers /\ Inserting(s)' => Inserting(s) \/ \A t \in Askers : ~Inserting(t)
    PROVE  ResultInv'
  <1>1. \A t \in Sessions \ {s} : SessionSound(t)'
    BY ResultInvIs DEF SessionSound, CopyIsBacked, ChangeIsSound, Inserting
  <1>2. \A t \in Sessions \ {s} : Inserting(t)' = Inserting(t)
    BY DEF Inserting
  <1>3. OneInserts'
    BY <1>2, ResultInvIs DEF OneInserts, Sessions
  <1> QED
    BY <1>1, <1>3, ResultInvIs DEF ResultInv, SessionSound, OneInserts, ScreenedHasResult, Sessions

\* A session goes to a place where it has planned nothing.
LEMMA ElsewhereKeepsResult ==
    ASSUME TypeOK, ResultInv, NEW s \in Sessions, NEW record,
           session' = [session EXCEPT ![s] = record], UNCHANGED <<screening, application>>,
           record.pc \notin {"planned", "placed", "judging"},
           record.old.status # "absent" => screening.status # "absent",
           record.old.judged # NoPosting => screening.judged # NoPosting,
           record.seen \in {"screened", "shortlisted"} => screening.judged # NoPosting,
           \/ record.pc \in {"idle", "creating", "refinding", "moving"} /\ s \in Askers \cup Deciders
           \/ record.pc = "idle"
           \/ record.old.status # "absent"
    PROVE  ResultInv'
  <1>1. session'[s] = record /\ \A t \in Sessions \ {s} : session'[t] = session[t]
    BY DEF TypeOK
  <1>2. s \in Askers \cup Deciders => s \notin Workers \cup {Reaper}
    OBVIOUS
  <1>3. ~Inserting(s)'
    BY <1>1 DEF Inserting
  <1>4. SessionSound(s)'
    BY <1>1, <1>2, <1>3 DEF SessionSound, CopyIsBacked
  <1> QED
    BY <1>1, <1>3, <1>4, SessionStepKeepsResult

\* A session follows a screening with a change that is sound.
LEMMA FollowKeepsResult ==
    ASSUME TypeOK, ResultInv, NEW s \in Sessions \ Deciders, NEW old \in Rows, NEW new \in Rows,
           Follow(s, old, new), UNCHANGED <<screening, application>>,
           new.status # "absent",
           old.status # "absent" => screening.status # "absent",
           old.judged # NoPosting => screening.judged # NoPosting,
           new.status = "completed" => new.judged # NoPosting,
           new.judged = NoPosting => old.judged = NoPosting,
           old.status = "absent" =>
             /\ s \in Askers /\ new = NewRow /\ screening.status = "absent"
             /\ \A t \in Askers : ~Inserting(t)
    PROVE  ResultInv'
  <1>1. /\ session'[s].pc \in {"planned", "placed"}
        /\ session'[s].old = old /\ session'[s].new = new
        /\ session'[s].seen = application /\ session'[s].to = FollowTo(new.status)
        /\ \A t \in Sessions \ {s} : session'[t] = session[t]
    BY FollowEffect
  <1>2. /\ FollowTo(new.status) = "screened" => new.status = "completed"
        /\ FollowTo(new.status) # "shortlisted"
    BY FollowToIs DEF Rows
  <1>3. application \in {"screened", "shortlisted"} => screening.judged # NoPosting
    BY DEF ResultInv, ScreenedHasResult
  <1>4. CopyIsBacked(s)'
    BY <1>1, <1>3 DEF CopyIsBacked
  <1>5. ChangeIsSound(s)'
    BY <1>1, <1>2 DEF ChangeIsSound
  <1>6. Inserting(s)' => old.status = "absent"
    BY <1>1 DEF Inserting
  <1>7. s \in Workers \cup {Reaper} => s \notin Askers
    OBVIOUS
  <1>8. SessionSound(s)'
    BY <1>1, <1>4, <1>5, <1>6, <1>7 DEF SessionSound
  <1> QED
    BY <1>1, <1>6, <1>8, SessionStepKeepsResult

\* The row is written, one session at most is closed, and the row loses
\* neither its being nor its result.
LEMMA RowStepKeepsResult ==
    ASSUME TypeOK, ResultInv, ScreenedHasResult',
           NEW s \in Sessions, NEW record, record = Idle \/ record.old.status # "absent",
           session' = [session EXCEPT ![s] = record],
           screening'.status # "absent",
           screening.judged # NoPosting => screening'.judged # NoPosting,
           SessionSound(s)',
           \A t \in Askers \ {s} : ~Inserting(t)
    PROVE  ResultInv'
  <1>1. session'[s] = record /\ \A t \in Sessions \ {s} : session'[t] = session[t]
    BY DEF TypeOK
  <1>2. \A t \in Sessions \ {s} : SessionSound(t)'
    BY <1>1, ResultInvIs DEF SessionSound, CopyIsBacked, ChangeIsSound, Inserting
  <1>3. \A t \in Sessions \ {s} : Inserting(t)' = Inserting(t)
    BY <1>1 DEF Inserting
  <1>4. ~Inserting(s)'
    BY <1>1, IdleIs DEF Inserting
  <1>5. OneInserts'
    BY <1>3, <1>4 DEF OneInserts, Sessions
  <1> QED
    BY <1>1, <1>2, <1>5 DEF ResultInv, SessionSound, OneInserts, Sessions

\* A claim is of a row that is there, and keeps its result.
LEMMA ClaimKeepsResult ==
    ASSUME TypeOK, ResultInv, NEW w \in Workers, Claim(w)
    PROVE  ResultInv'
  <1> DEFINE record == [Idle EXCEPT !.pc = "judging", !.old = screening', !.version = posting]
  <1>1. screening \in Rows /\ posting \in Postings /\ w \in Sessions /\ w \notin Askers \cup Deciders
    BY DEF TypeOK, Sessions
  <1>2. /\ screening'.status = "processing" /\ screening'.judged = screening.judged
        /\ screening.status # "absent" /\ UNCHANGED application
        /\ session' = [session EXCEPT ![w] = record]
    BY <1>1 DEF Claim, Rows
  <1>3. record.pc = "judging" /\ record.old = screening' /\ record.seen = "none"
        /\ record.version # NoPosting
    BY <1>1 DEF Idle
  <1> HIDE DEF record
  <1>4. session'[w] = record
    BY <1>1, <1>2 DEF TypeOK
  <1>5. SessionSound(w)'
    BY <1>1, <1>2, <1>3, <1>4 DEF SessionSound, CopyIsBacked
  <1>6. ScreenedHasResult'
    BY <1>2 DEF ResultInv, ScreenedHasResult
  <1>7. \A t \in Askers : ~Inserting(t)
    BY <1>2 DEF ResultInv
  <1> QED
    BY <1>1, <1>2, <1>3, <1>5, <1>6, <1>7, RowStepKeepsResult

\* A commit moves the application to what its change, or a shortlist's
\* reading, stands for.
LEMMA CommitKeepsResult ==
    ASSUME TypeOK, ResultInv, NEW s \in Sessions, Commit(s)
    PROVE  ResultInv'
  <1> DEFINE old == session[s].old
             new == session[s].new
             to  == session[s].to
  <1>1. screening \in Rows /\ old \in Rows /\ new \in Rows
    BY DEF TypeOK, SessionRecords
  <1>2. /\ session' = [session EXCEPT ![s] = Idle]
        /\ session[s].pc = "placed"
        /\ application' = IF to = "none" THEN application ELSE to
        /\ screening' = IF s \in Deciders THEN screening ELSE Flushed(old, new)
    BY DEF Commit, Closes
  <1>3. session'[s] = Idle /\ \A t \in Sessions \ {s} : session'[t] = session[t]
    BY <1>2 DEF TypeOK
  <1>4. SessionSound(s)' /\ ~Inserting(s)'
    BY <1>3, IdleIs DEF SessionSound, CopyIsBacked, Inserting
  <1>5. SessionSound(s)
    BY ResultInvIs
  <1> HIDE DEF old, new, to
  <1>6. CASE s \in Deciders
    <2>1. screening' = screening
      BY <1>2, <1>6
    <2>2. to # "screened" /\ (to = "shortlisted" => session[s].seen = "screened")
      BY <1>2, <1>5, <1>6 DEF SessionSound, to
    <2>3. to = "shortlisted" => screening.judged # NoPosting
      BY <1>5, <2>2 DEF SessionSound, CopyIsBacked
    <2>4. ScreenedHasResult'
      BY <1>2, <2>1, <2>2, <2>3 DEF ResultInv, ScreenedHasResult
    <2>5. \A t \in Sessions \ {s} : SessionSound(t)'
      BY <1>3, <2>1, ResultInvIs DEF SessionSound, CopyIsBacked, ChangeIsSound, Inserting
    <2>6. \A t \in Sessions \ {s} : Inserting(t)' = Inserting(t)
      BY <1>3 DEF Inserting
    <2>7. OneInserts'
      BY <1>4, <2>6, ResultInvIs DEF OneInserts, Sessions
    <2> QED
      BY <1>4, <2>1, <2>4, <2>5, <2>7 DEF ResultInv, SessionSound, OneInserts, Sessions
  <1>7. CASE s \notin Deciders
    <2>1. /\ new.status # "absent" /\ to # "shortlisted"
          /\ to = "screened" => new.status = "completed"
          /\ new.status = "completed" => new.judged # NoPosting
          /\ new.judged = NoPosting => old.judged = NoPosting
          /\ old.status = "absent" => new = NewRow
      BY <1>2, <1>5, <1>7 DEF SessionSound, ChangeIsSound, old, new, to
    <2>2. /\ old.status # "absent" => screening.status # "absent"
          /\ old.judged # NoPosting => screening.judged # NoPosting
      BY <1>5 DEF SessionSound, CopyIsBacked, old
    <2>3. screening' = Flushed(old, new)
      BY <1>2, <1>7
    <2>4. CASE old.status = "absent"
      <3>1. screening' = NewRow
        BY <1>1, <2>1, <2>3, <2>4, FlushedIs
      <3>2. s \in Askers /\ Inserting(s)
        <4>1. s \notin Workers \cup {Reaper}
          BY <1>2, <1>5, <2>4 DEF SessionSound, old
        <4> QED
          BY <1>2, <1>7, <2>1, <2>4, <4>1 DEF Sessions, Inserting, old, new
      <3>3. screening.status = "absent" /\ screening.judged = NoPosting
        BY <3>2, ResultInvIs DEF ResultInv
      <3>4. ScreenedHasResult'
        BY <1>2, <2>1, <3>3, <2>4, AbsentIs DEF ResultInv, ScreenedHasResult
      <3>5. \A t \in Askers \ {s} : ~Inserting(t)
        BY <3>2, ResultInvIs DEF OneInserts
      <3> QED
        BY <1>2, <1>4, <3>1, <3>3, <3>4, <3>5, AbsentIs, RowStepKeepsResult
    <2>5. CASE old.status # "absent"
      <3>1. /\ screening'.status = Column(old.status, new.status, screening.status)
            /\ screening'.judged = Column(old.judged, new.judged, screening.judged)
        BY <1>1, <2>3, <2>5, FlushedIs
      <3>2. screening'.status # "absent"
        BY <2>1, <2>2, <2>5, <3>1 DEF Column
      <3>3. screening.judged # NoPosting => screening'.judged # NoPosting
        BY <2>1, <2>2, <3>1 DEF Column
      <3>4. to = "screened" => screening'.judged # NoPosting
        BY <2>1, <2>2, <3>1 DEF Column
      <3>5. ScreenedHasResult'
        BY <1>2, <2>1, <3>3, <3>4 DEF ResultInv, ScreenedHasResult
      <3>6. \A t \in Askers : ~Inserting(t)
        BY <2>2, <2>5 DEF ResultInv
      <3> QED
        BY <1>2, <1>4, <3>2, <3>3, <3>5, <3>6, RowStepKeepsResult
    <2> QED
      BY <2>4, <2>5
  <1> QED
    BY <1>6, <1>7

LEMMA NextKeepsResult == TypeOK /\ ResultInv /\ [Next]_vars => ResultInv'
  <1> SUFFICES ASSUME TypeOK, ResultInv, [Next]_vars
               PROVE  ResultInv'
    OBVIOUS
  <1>1. /\ screening \in Rows /\ posting \in Postings
        /\ session \in [Sessions -> SessionRecords]
    BY DEF TypeOK
  <1>2. ASSUME NEW s \in Sessions
        PROVE  /\ session[s].old \in Rows /\ session[s] \in SessionRecords
               /\ session[s].version \in Postings \cup {NoPosting}
               /\ session[s].old.status # "absent" => screening.status # "absent"
               /\ session[s].old.judged # NoPosting => screening.judged # NoPosting
               /\ session[s].seen \in {"screened", "shortlisted"} => screening.judged # NoPosting
               /\ session[s].pc \in {"judging", "broken", "recording", "asked"} =>
                    session[s].old.status # "absent"
               /\ s \in Workers /\ session[s].pc # "idle" => session[s].old.status # "absent"
    BY <1>1, ResultInvIs DEF SessionRecords, SessionSound, CopyIsBacked
  <1>3. ASSUME NEW pc, NEW old
        PROVE  LET r == [Idle EXCEPT !.pc = pc, !.old = old]
               IN  r.pc = pc /\ r.old = old /\ r.seen = "none"
    BY DEF Idle
  <1> USE DEF Sessions
  <1>5. ASSUME NEW w \in Workers, RunStep(w)
        PROVE  ResultInv'
    <2>1. CASE Claim(w)
      BY <2>1, ClaimKeepsResult
    <2>2. CASE Judge(w)
      <3>1. session[w].version # NoPosting
        BY <2>2, ResultInvIs DEF Judge, SessionSound
      <3> DEFINE old == session[w].old
                 new == WithResult(session[w].old, session[w].version)
      <3>2. /\ old \in Rows /\ new \in Rows /\ new.status = "completed"
            /\ new.judged # NoPosting /\ old.status # "absent"
            /\ old.judged # NoPosting => screening.judged # NoPosting
            /\ screening.status # "absent"
        BY <1>2, <2>2, <3>1, WithResultIs DEF Judge
      <3>3. Follow(w, old, new) /\ UNCHANGED <<screening, application>>
        BY <2>2 DEF Judge
      <3>4. w \in Sessions \ Deciders
        OBVIOUS
      <3> HIDE DEF old, new
      <3> QED
        BY <3>2, <3>3, <3>4, FollowKeepsResult
    <2>3. ASSUME NEW error \in Errors, Fail(w, error)
          PROVE  ResultInv'
      BY <1>2, <2>3, WithFailureIs, FollowKeepsResult DEF Fail
    <2>4. CASE Break(w)
      <3> DEFINE record == [Idle EXCEPT !.pc = "broken", !.old = session[w].old]
      <3>1. session' = [session EXCEPT ![w] = record] /\ UNCHANGED <<screening, application>>
            /\ session[w].pc # "idle"
        BY <2>4 DEF Break
      <3>2. record.pc = "broken" /\ record.old = session[w].old /\ record.seen = "none"
        BY <1>3
      <3> HIDE DEF record
      <3> QED
        BY <1>2, <3>1, <3>2, ElsewhereKeepsResult
    <2>5. CASE Reread(w)
      <3> DEFINE record == [Idle EXCEPT !.pc = "recording", !.old = screening]
      <3>1. session' = [session EXCEPT ![w] = record] /\ UNCHANGED <<screening, application>>
            /\ screening.status # "absent"
        BY <1>2, <2>5 DEF Reread
      <3>2. record.pc = "recording" /\ record.old = screening /\ record.seen = "none"
        BY <1>3
      <3> HIDE DEF record
      <3> QED
        BY <3>1, <3>2, ElsewhereKeepsResult
    <2>6. CASE RecordBreak(w)
      BY <1>2, <2>6, WithFailureIs, FollowKeepsResult DEF RecordBreak
    <2> QED
      BY <1>5, <2>1, <2>2, <2>3, <2>4, <2>5, <2>6 DEF RunStep
  <1>6. ASSUME NEW a \in Askers, AskStep(a)
        PROVE  ResultInv'
    <2>1. CASE Ask(a)
      <3> DEFINE pc == IF screening.status = "absent" THEN "creating" ELSE "asked"
                 record == [Idle EXCEPT !.pc = pc, !.old = screening, !.version = posting]
      <3>1. session' = [session EXCEPT ![a] = record] /\ UNCHANGED <<screening, application>>
        BY <2>1 DEF Ask
      <3>2. record.pc = pc /\ record.old = screening /\ record.seen = "none"
        BY DEF Idle
      <3> HIDE DEF record
      <3> QED
        BY <3>1, <3>2, ElsewhereKeepsResult
    <2>2. CASE Retry(a)
      <3> DEFINE record == [Idle EXCEPT !.pc = "asked", !.old = screening]
      <3>1. session' = [session EXCEPT ![a] = record] /\ UNCHANGED <<screening, application>>
            /\ screening.status # "absent"
        BY <2>2 DEF Retry, CanRetry, IsStalled
      <3>2. record.pc = "asked" /\ record.old = screening /\ record.seen = "none"
        BY <1>3
      <3> HIDE DEF record
      <3> QED
        BY <3>1, <3>2, ElsewhereKeepsResult
    <2>3. CASE Insert(a)
      BY <2>3, AbsentIs, FollowKeepsResult DEF Insert
    <2>4. CASE LoseRace(a)
      <3> DEFINE asked == [session[a] EXCEPT !.pc = "asked", !.old = screening]
                 record == IF NeedsRunning(screening, session[a].version) THEN asked ELSE Idle
      <3>1. session' = [session EXCEPT ![a] = record] /\ UNCHANGED <<screening, application>>
            /\ screening.status # "absent"
        BY <2>4 DEF LoseRace
      <3>2. asked.pc = "asked" /\ asked.old = screening /\ asked.seen = session[a].seen
        BY <1>2 DEF SessionRecords
      <3> HIDE DEF asked
      <3>3. record = asked \/ record = Idle
        OBVIOUS
      <3> HIDE DEF record
      <3> QED
        BY <1>2, <3>1, <3>2, <3>3, IdleIs, ElsewhereKeepsResult
    <2>5. CASE Requeue(a)
      BY <1>2, <2>5, RequeuedIs, FollowKeepsResult DEF Requeue
    <2>6. CASE FindNobody(a)
      BY <2>6, IdleIs, ElsewhereKeepsResult DEF FindNobody, Closes
    <2> QED
      BY <1>6, <2>1, <2>2, <2>3, <2>4, <2>5, <2>6 DEF AskStep
  <1>7. ASSUME NEW d \in Deciders, DecideStep(d)
        PROVE  ResultInv'
    <2>1. CASE Move(d)
      <3> DEFINE record == [session[d] EXCEPT !.pc = "moving", !.seen = application]
      <3>1. session' = [session EXCEPT ![d] = record] /\ UNCHANGED <<screening, application>>
        BY <1>1, <2>1 DEF Move
      <3>2. record.pc = "moving" /\ record.old = session[d].old /\ record.seen = application
        BY <1>2 DEF SessionRecords
      <3> HIDE DEF record
      <3>3. application \in {"screened", "shortlisted"} => screening.judged # NoPosting
        BY DEF ResultInv, ScreenedHasResult
      <3> QED
        BY <1>2, <3>1, <3>2, <3>3, ElsewhereKeepsResult
    <2>2. ASSUME NEW to \in States, NEW mover \in Movers \ {"system"}, Decide(d, to, mover)
          PROVE  ResultInv'
      <3> DEFINE planned == Plan(session[d].seen, to, mover, screening.status = "completed")
                 record == [session[d] EXCEPT !.pc = "planned", !.to = planned]
      <3>1. /\ planned # "screened"
            /\ planned = "shortlisted" => session[d].seen = "screened"
        BY DEF Plan, Allowed, Movers
      <3>2. /\ session' = [session EXCEPT ![d] = IF planned = "none" THEN Idle ELSE record]
            /\ UNCHANGED <<screening, application>>
        BY <2>2 DEF Decide
      <3> HIDE DEF planned
      <3>3. /\ record.pc = "planned" /\ record.seen = session[d].seen
            /\ record.old = session[d].old /\ record.to = planned
        BY <1>2 DEF SessionRecords
      <3> HIDE DEF record
      <3>4. CASE planned = "none"
        BY <3>2, <3>4, IdleIs, ElsewhereKeepsResult
      <3>5. CASE planned # "none"
        <4>1. session'[d] = record /\ \A t \in Sessions \ {d} : session'[t] = session[t]
          BY <1>1, <3>2, <3>5
        <4>2. d \notin Workers \cup Askers \cup {Reaper}
          OBVIOUS
        <4>3. SessionSound(d)'
          BY <1>2, <3>1, <3>2, <3>3, <4>1, <4>2 DEF SessionSound, CopyIsBacked
        <4> QED
          BY <3>2, <4>1, <4>2, <4>3, SessionStepKeepsResult
      <3> QED
        BY <3>4, <3>5
    <2> QED
      BY <1>7, <2>1, <2>2 DEF DecideStep
  <1>8. ASSUME NEW s \in Sessions, TransactionStep(s)
        PROVE  ResultInv'
    <2>1. CASE ReadPosition(s)
      <3> DEFINE record == [session[s] EXCEPT !.pc = "placed", !.position = Len(log)]
      <3>1. session' = [session EXCEPT ![s] = record] /\ UNCHANGED <<screening, application>>
            /\ session[s].pc = "planned"
        BY <1>1, <2>1 DEF ReadPosition
      <3>2. /\ record.pc = "placed" /\ record.seen = session[s].seen
            /\ record.old = session[s].old /\ record.to = session[s].to
            /\ record.new = session[s].new
        BY <1>2 DEF SessionRecords
      <3> HIDE DEF record
      <3>3. session'[s] = record /\ \A t \in Sessions \ {s} : session'[t] = session[t]
        BY <1>1, <3>1
      <3>4. Inserting(s)' = Inserting(s)
        BY <3>1, <3>2, <3>3 DEF Inserting
      <3>5. SessionSound(s)
        BY ResultInvIs
      <3>6. SessionSound(s)'
        BY <3>1, <3>2, <3>3, <3>4, <3>5 DEF SessionSound, CopyIsBacked, ChangeIsSound
      <3> QED
        BY <3>1, <3>3, <3>4, <3>6, SessionStepKeepsResult
    <2>2. CASE Commit(s)
      BY <2>2, CommitKeepsResult
    <2>3. CASE Collide(s)
      <3>1. PICK record \in SessionRecords :
              /\ session' = [session EXCEPT ![s] = record]
              /\ record.seen = "none"
              /\ \/ record = Idle
                 \/ s \in Workers /\ record.pc = "broken" /\ record.old = session[s].old
                 \/ s \in Askers /\ record.pc = "refinding" /\ record.old = Absent
        BY <2>3, CollideEffect
      <3>2. UNCHANGED <<screening, application>> /\ session[s].pc # "idle"
        BY <2>3 DEF Collide
      <3>3. CASE record = Idle
        BY <3>1, <3>2, <3>3, IdleIs, ElsewhereKeepsResult
      <3>4. CASE s \in Workers /\ record.pc = "broken" /\ record.old = session[s].old
        BY <1>2, <3>1, <3>2, <3>4, ElsewhereKeepsResult
      <3>5. CASE s \in Askers /\ record.pc = "refinding" /\ record.old = Absent
        BY <3>1, <3>2, <3>5, AbsentIs, ElsewhereKeepsResult
      <3> QED
        BY <3>1, <3>3, <3>4, <3>5
    <2>4. CASE Dies(s)
      BY <2>4, IdleIs, ElsewhereKeepsResult DEF Dies, Closes
    <2> QED
      BY <1>8, <2>1, <2>2, <2>3, <2>4 DEF TransactionStep
  <1>9. CASE TimeoutPasses
    <2>1. /\ screening'.status = screening.status /\ screening'.judged = screening.judged
          /\ UNCHANGED <<application, session>>
      BY <1>1, <1>9 DEF TimeoutPasses, Rows
    <2> QED
      BY <2>1 DEF ResultInv, ScreenedHasResult, CopyIsBacked, ChangeIsSound, Inserting
  <1>10. CASE Reclaim
    <2>1. screening.status # "absent"
      BY <1>10 DEF Reclaim, IsStalled
    <2>2. Reaper \in Sessions \ Deciders
      OBVIOUS
    <2> QED
      BY <1>1, <1>10, <2>1, <2>2, WithFailureIs, FollowKeepsResult DEF Reclaim
  <1>11. CASE Edit
    BY <1>11 DEF Edit, ResultInv, ScreenedHasResult, CopyIsBacked, ChangeIsSound, Inserting
  <1>12. CASE Apply
    BY <1>12 DEF Apply, ResultInv, ScreenedHasResult, CopyIsBacked, ChangeIsSound, Inserting
  <1>13. CASE UNCHANGED vars
    BY <1>13 DEF vars, ResultInv, ScreenedHasResult, CopyIsBacked, ChangeIsSound, Inserting
  <1> QED
    BY <1>5, <1>6, <1>7, <1>8, <1>9, <1>10, <1>11, <1>12, <1>13 DEF Next

\* Whatever overlaps, is stale or is delivered twice: an application said to
\* be screened or shortlisted has a stored judgment behind it.
THEOREM ScreenedRestsOnResult == Spec => []ScreenedHasResult
  <1>1. Init => ResultInv
    BY AbsentIs, IdleIs DEF Init, ResultInv, ScreenedHasResult, CopyIsBacked, Inserting, Sessions
  <1>2. TypeOK /\ ResultInv /\ [Next]_vars => ResultInv'
    BY NextKeepsResult
  <1>3. ResultInv => ScreenedHasResult
    BY DEF ResultInv
  <1> QED
    BY <1>1, <1>2, <1>3, TypeCorrect, PTL DEF Spec

-----------------------------------------------------------------------------
\* Application and screening in step, but for the steps that overtake

Ready(s) == session[s].pc \in {"planned", "placed"}

\* FollowTo, from the state a session read.
MoveFrom(seen, status) ==
    IF seen = "none" THEN "none" ELSE Plan(seen, StateFor(status), "system", TRUE)

\* What is about to be committed is a whole screening's outcome, or a requeue,
\* with the move it means for the application as it was read; a result is for
\* a row that was being processed.
PlanFits(s) ==
    /\ session[s].to = MoveFrom(session[s].seen, session[s].new.status)
    /\ session[s].new.status \in {"completed", "failed", "dead_lettered", "pending"}
    /\ session[s].new.status = "completed" => session[s].old.status = "processing"

DecisionFits(d) ==
    \/ session[d].to \in TerminalStates
    \/ session[d].to = "shortlisted" /\ session[d].seen = "screened"

SessionPlans(s) ==
    /\ session[s].pc = "judging" => session[s].old.status = "processing"
    /\ Ready(s) => IF s \in Deciders THEN DecisionFits(s) ELSE PlanFits(s)

PlansFit == \A s \in Sessions : SessionPlans(s)

\* A session goes to a place where it has planned nothing.
LEMMA ElsewhereKeepsPlans ==
    ASSUME TypeOK, PlansFit, NEW s \in Sessions, NEW record,
           session' = [session EXCEPT ![s] = record],
           record.pc \notin {"judging", "planned", "placed"}
    PROVE  PlansFit'
  <1>1. session'[s] = record /\ \A t \in Sessions \ {s} : session'[t] = session[t]
    BY DEF TypeOK
  <1> QED
    BY <1>1 DEF PlansFit, SessionPlans, Ready, PlanFits, DecisionFits

\* A session follows a screening: the move fits the outcome.
LEMMA FollowKeepsPlans ==
    ASSUME TypeOK, PlansFit, NEW s \in Sessions \ Deciders, NEW old \in Rows, NEW new \in Rows,
           Follow(s, old, new),
           new.status \in {"completed", "failed", "dead_lettered", "pending"},
           new.status = "completed" => old.status = "processing"
    PROVE  PlansFit'
  <1>1. /\ session'[s].pc \in {"planned", "placed"}
        /\ session'[s].old = old /\ session'[s].new = new
        /\ session'[s].seen = application /\ session'[s].to = FollowTo(new.status)
        /\ \A t \in Sessions \ {s} : session'[t] = session[t]
    BY FollowEffect
  <1>2. FollowTo(new.status) = MoveFrom(application, new.status)
    BY DEF FollowTo, MoveFrom
  <1>3. SessionPlans(s)'
    BY <1>1, <1>2 DEF SessionPlans, PlanFits
  <1> QED
    BY <1>1, <1>3 DEF PlansFit, SessionPlans, Ready, PlanFits, DecisionFits

\* What a person may decide.
LEMMA DecisionIs ==
    ASSUME NEW seen \in States, NEW to \in States, NEW mover \in Movers \ {"system"},
           NEW evidence, Plan(seen, to, mover, evidence) # "none"
    PROVE  \/ Plan(seen, to, mover, evidence) \in TerminalStates
           \/ Plan(seen, to, mover, evidence) = "shortlisted" /\ seen = "screened"
  BY DEF Plan, Allowed, Movers, TerminalStates

LEMMA NextKeepsPlans == TypeOK /\ LogInv /\ PlansFit /\ [Next]_vars => PlansFit'
  <1> SUFFICES ASSUME TypeOK, LogInv, PlansFit, [Next]_vars
               PROVE  PlansFit'
    OBVIOUS
  <1>1. /\ screening \in Rows /\ posting \in Postings
        /\ session \in [Sessions -> SessionRecords]
    BY DEF TypeOK
  <1>2. ASSUME NEW s \in Sessions
        PROVE  /\ session[s] \in SessionRecords /\ session[s].old \in Rows
               /\ session[s].version \in Postings \cup {NoPosting} /\ SessionPlans(s)
    BY <1>1 DEF SessionRecords, PlansFit
  <1>4. UNCHANGED session => PlansFit'
    BY DEF PlansFit, SessionPlans, Ready, PlanFits, DecisionFits
  <1> USE DEF Sessions
  <1>5. ASSUME NEW w \in Workers, RunStep(w)
        PROVE  PlansFit'
    <2>0. w \in Sessions \ Deciders
      BY ScreeningAssumption
    <2>1. CASE Claim(w)
      <3> DEFINE record == [Idle EXCEPT !.pc = "judging", !.old = screening', !.version = posting]
      <3>1. session' = [session EXCEPT ![w] = record] /\ screening'.status = "processing"
        BY <1>1, <2>1 DEF Claim, Rows
      <3>2. record.pc = "judging" /\ record.old = screening'
        BY DEF Idle
      <3> HIDE DEF record
      <3>3. session'[w] = record /\ \A t \in Sessions \ {w} : session'[t] = session[t]
        BY <1>1, <3>1
      <3> QED
        BY <3>1, <3>2, <3>3 DEF PlansFit, SessionPlans, Ready, PlanFits, DecisionFits
    <2>2. CASE Judge(w)
      <3> DEFINE old == session[w].old
                 new == WithResult(session[w].old, session[w].version)
      <3>1. /\ old \in Rows /\ new \in Rows /\ new.status = "completed"
            /\ old.status = "processing" /\ Follow(w, old, new)
        BY <1>2, <2>2, WithResultIs DEF Judge, SessionPlans
      <3> HIDE DEF old, new
      <3> QED
        BY <2>0, <3>1, FollowKeepsPlans
    <2>3. ASSUME NEW error \in Errors, Fail(w, error) \/ RecordBreak(w)
          PROVE  PlansFit'
      <3>1. PICK e \in Errors : Follow(w, session[w].old, WithFailure(session[w].old, e))
        BY <2>3 DEF Fail, RecordBreak, Errors
      <3> DEFINE old == session[w].old
                 new == WithFailure(session[w].old, e)
      <3>2. /\ old \in Rows /\ new \in Rows
            /\ new.status \in {"failed", "dead_lettered", "pending"}
        BY <1>2, WithFailureIs
      <3> HIDE DEF old, new
      <3>3. Follow(w, old, new)
        BY <3>1 DEF old, new
      <3> QED
        BY <2>0, <3>2, <3>3, FollowKeepsPlans
    <2>4. CASE Break(w)
      <3> DEFINE record == [Idle EXCEPT !.pc = "broken", !.old = session[w].old]
      <3>1. session' = [session EXCEPT ![w] = record]
        BY <2>4 DEF Break
      <3>2. record.pc = "broken" /\ record.seen = "none"
        BY DEF Idle
      <3> HIDE DEF record
      <3> QED
        BY <3>1, <3>2, ElsewhereKeepsPlans
    <2>6. CASE Reread(w)
      <3> DEFINE record == [Idle EXCEPT !.pc = "recording", !.old = screening]
      <3>1. session' = [session EXCEPT ![w] = record]
        BY <2>6 DEF Reread
      <3>2. record.pc = "recording" /\ record.seen = "none"
        BY DEF Idle
      <3> HIDE DEF record
      <3> QED
        BY <3>1, <3>2, ElsewhereKeepsPlans
    <2>5. RecordBreak(w) => \E error \in Errors : Fail(w, error) \/ RecordBreak(w)
      BY DEF Errors
    <2> QED
      BY <1>5, <2>1, <2>2, <2>3, <2>4, <2>5, <2>6 DEF RunStep
  <1>6. ASSUME NEW a \in Askers, AskStep(a)
        PROVE  PlansFit'
    <2>0. a \in Sessions \ Deciders
      BY ScreeningAssumption
    <2>1. CASE Ask(a)
      <3> DEFINE pc == IF screening.status = "absent" THEN "creating" ELSE "asked"
                 record == [Idle EXCEPT !.pc = pc, !.old = screening, !.version = posting]
      <3>1. session' = [session EXCEPT ![a] = record]
        BY <2>1 DEF Ask
      <3>2. record.pc \in {"creating", "asked"}
        BY DEF Idle
      <3> HIDE DEF record
      <3> QED
        BY <3>1, <3>2, ElsewhereKeepsPlans
    <2>2. CASE Retry(a)
      <3> DEFINE record == [Idle EXCEPT !.pc = "asked", !.old = screening]
      <3>1. session' = [session EXCEPT ![a] = record]
        BY <2>2 DEF Retry
      <3>2. record.pc = "asked" /\ record.seen = "none"
        BY DEF Idle
      <3> HIDE DEF record
      <3> QED
        BY <3>1, <3>2, ElsewhereKeepsPlans
    <2>3. CASE Insert(a)
      BY <2>0, <2>3, AbsentIs, FollowKeepsPlans DEF Insert
    <2>4. CASE LoseRace(a)
      <3> DEFINE again == [session[a] EXCEPT !.pc = "asked", !.old = screening]
                 record == IF NeedsRunning(screening, session[a].version) THEN again ELSE Idle
      <3>1. again.pc = "asked"
        BY <1>2 DEF SessionRecords
      <3>2. session' = [session EXCEPT ![a] = record]
        BY <2>4 DEF LoseRace
      <3> HIDE DEF again
      <3>3. record.pc \in {"asked", "idle"}
        BY <3>1, IdleIs
      <3> HIDE DEF record
      <3> QED
        BY <3>2, <3>3, ElsewhereKeepsPlans
    <2>5. CASE Requeue(a)
      BY <1>2, <2>0, <2>5, RequeuedIs, FollowKeepsPlans DEF Requeue
    <2>6. CASE FindNobody(a)
      BY <2>6, IdleIs, ElsewhereKeepsPlans DEF FindNobody, Closes
    <2> QED
      BY <1>6, <2>1, <2>2, <2>3, <2>4, <2>5, <2>6 DEF AskStep
  <1>7. ASSUME NEW d \in Deciders, DecideStep(d)
        PROVE  PlansFit'
    <2>1. CASE Move(d)
      <3> DEFINE record == [session[d] EXCEPT !.pc = "moving", !.seen = application]
      <3>1. session' = [session EXCEPT ![d] = record]
        BY <1>1, <2>1 DEF Move
      <3>2. record.pc = "moving"
        BY <1>2 DEF SessionRecords
      <3> HIDE DEF record
      <3> QED
        BY <3>1, <3>2, ElsewhereKeepsPlans
    <2>2. ASSUME NEW to \in States, NEW mover \in Movers \ {"system"}, Decide(d, to, mover)
          PROVE  PlansFit'
      <3> DEFINE planned == Plan(session[d].seen, to, mover, screening.status = "completed")
                 record == [session[d] EXCEPT !.pc = "planned", !.to = planned]
      <3>1. session[d].seen \in States
        BY <1>2, <2>2 DEF Decide, LogInv, SessionRecords
      <3>2. planned # "none" =>
              \/ planned \in TerminalStates
              \/ planned = "shortlisted" /\ session[d].seen = "screened"
        BY <3>1, DecisionIs
      <3>3. session' = [session EXCEPT ![d] = IF planned = "none" THEN Idle ELSE record]
        BY <2>2 DEF Decide
      <3> HIDE DEF planned
      <3>4. /\ record.pc = "planned" /\ record.seen = session[d].seen
            /\ record.to = planned
        BY <1>2 DEF SessionRecords
      <3> HIDE DEF record
      <3>5. CASE planned = "none"
        BY <3>3, <3>5, IdleIs, ElsewhereKeepsPlans
      <3>6. CASE planned # "none"
        <4>1. session'[d] = record /\ \A t \in Sessions \ {d} : session'[t] = session[t]
          BY <1>1, <3>3, <3>6
        <4> QED
          BY <3>2, <3>4, <3>6, <4>1 DEF PlansFit, SessionPlans, Ready, PlanFits, DecisionFits
      <3> QED
        BY <3>5, <3>6
    <2> QED
      BY <1>7, <2>1, <2>2 DEF DecideStep
  <1>8. ASSUME NEW s \in Sessions, TransactionStep(s)
        PROVE  PlansFit'
    <2>1. CASE ReadPosition(s)
      <3> DEFINE record == [session[s] EXCEPT !.pc = "placed", !.position = Len(log)]
      <3>1. session' = [session EXCEPT ![s] = record] /\ session[s].pc = "planned"
        BY <2>1 DEF ReadPosition, TypeOK
      <3>2. /\ record.pc = "placed" /\ record.seen = session[s].seen /\ record.to = session[s].to
            /\ record.old = session[s].old /\ record.new = session[s].new
        BY <1>2 DEF SessionRecords
      <3> HIDE DEF record
      <3>3. session'[s] = record /\ \A t \in Sessions \ {s} : session'[t] = session[t]
        BY <1>1, <3>1
      <3> QED
        BY <3>1, <3>2, <3>3 DEF PlansFit, SessionPlans, Ready, PlanFits, DecisionFits
    <2>2. CASE Commit(s) \/ Dies(s)
      BY <2>2, IdleIs, ElsewhereKeepsPlans DEF Commit, Dies, Closes
    <2>3. CASE Collide(s)
      <3>1. PICK record \in SessionRecords :
              /\ session' = [session EXCEPT ![s] = record]
              /\ record.pc \in {"idle", "broken", "refinding"}
        BY <2>3, IdleIs, CollideEffect
      <3> QED
        BY <3>1, ElsewhereKeepsPlans
    <2> QED
      BY <1>8, <2>1, <2>2, <2>3 DEF TransactionStep
  <1>9. CASE Reclaim
    <2>1. /\ WithFailure(screening, "worker_vanished") \in Rows
          /\ WithFailure(screening, "worker_vanished").status \in
               {"failed", "dead_lettered", "pending"}
      BY <1>1, WithFailureIs
    <2>2. Reaper \in Sessions \ Deciders
      BY ScreeningAssumption
    <2> QED
      BY <1>1, <1>9, <2>1, <2>2, FollowKeepsPlans DEF Reclaim
  <1>10. CASE TimeoutPasses \/ Edit \/ Apply \/ UNCHANGED vars
    BY <1>4, <1>10 DEF TimeoutPasses, Edit, Apply, vars
  <1> QED
    BY <1>5, <1>6, <1>7, <1>8, <1>9, <1>10 DEF Next

\* What a follower's move makes of the two together.
LEMMA MoveKeepsStep ==
    ASSUME NEW seen \in States \cup {"none"}, NEW before \in Statuses,
           NEW after \in {"completed", "failed", "dead_lettered", "pending"},
           seen = "screening" => before \in {"pending", "processing"},
           seen \in {"screened", "shortlisted"} => before = "completed",
           seen = "applied" => before \in {"absent", "failed", "dead_lettered"},
           after = "completed" => before = "processing",
           after \in {"failed", "dead_lettered"} => before # "completed"
    PROVE  LET to  == MoveFrom(seen, after)
               now == IF to = "none" THEN seen ELSE to
           IN  /\ now = "screening" => after \in {"pending", "processing"}
               /\ now \in {"screened", "shortlisted"} => after = "completed"
               /\ now = "applied" => after \in {"absent", "failed", "dead_lettered"}
  <1>1. CASE seen \in TerminalStates \cup {"none"}
    BY <1>1 DEF MoveFrom, Plan, TerminalStates
  <1>2. CASE seen \notin TerminalStates \cup {"none"} /\ after = "pending"
    <2>1. StateFor(after) = "screening"
      BY <1>2 DEF StateFor
    <2>2. MoveFrom(seen, after) = IF seen = "screening" THEN "none" ELSE "screening"
      BY <1>2, <2>1 DEF MoveFrom, Plan, Allowed, FollowsScreening, NeedsEvidence, States,
                        TerminalStates
    <2> QED
      BY <1>2, <2>2 DEF States, TerminalStates
  <1>3. CASE seen \notin TerminalStates \cup {"none"} /\ after = "completed"
    <2>1. seen = "screening"
      BY <1>3 DEF States, TerminalStates
    <2>2. StateFor(after) = "screened"
      BY <1>3 DEF StateFor
    <2>3. MoveFrom(seen, after) = "screened"
      BY <2>1, <2>2 DEF MoveFrom, Plan, Allowed, FollowsScreening, NeedsEvidence, TerminalStates
    <2> QED
      BY <1>3, <2>3
  <1>4. CASE seen \notin TerminalStates \cup {"none"} /\ after \in {"failed", "dead_lettered"}
    <2>1. seen \in {"screening", "applied"}
      BY <1>4 DEF States, TerminalStates
    <2>2. StateFor(after) = "applied"
      BY <1>4 DEF StateFor
    <2>3. MoveFrom(seen, after) = IF seen = "applied" THEN "none" ELSE "applied"
      BY <2>1, <2>2 DEF MoveFrom, Plan, Allowed, FollowsScreening, NeedsEvidence, TerminalStates
    <2> QED
      BY <1>4, <2>1, <2>3
  <1> QED
    BY <1>1, <1>2, <1>3, <1>4

\* A follower that commits what it planned from the present two, and fails
\* nothing that was finished, leaves them in step.
LEMMA FollowerKeepsStep ==
    ASSUME TypeOK, PlansFit, InStep, NEW s \in Sessions \ Deciders, Commit(s),
           ~CommitsStale(s), ~FailsFinished(s)
    PROVE  InStep'
  <1> DEFINE old == session[s].old
             new == session[s].new
             to  == session[s].to
  <1>1. /\ screening \in Rows /\ old \in Rows /\ new \in Rows
        /\ application \in States \cup {"none"}
    BY DEF TypeOK, SessionRecords
  <1>2. /\ application' = IF to = "none" THEN application ELSE to
        /\ screening' = Flushed(old, new)
        /\ application = session[s].seen /\ old.status = screening.status
        /\ Ready(s)
        /\ ~(screening.status = "completed" /\ new.status \in {"failed", "dead_lettered"})
    BY DEF Commit, CommitsStale, FailsFinished, Ready
  <1>3. /\ to = MoveFrom(application, new.status)
        /\ new.status \in {"completed", "failed", "dead_lettered", "pending"}
        /\ new.status = "completed" => old.status = "processing"
    BY <1>2 DEF PlansFit, SessionPlans, PlanFits
  <1> HIDE DEF old, new, to
  <1>4. screening'.status = new.status
    BY <1>1, <1>2, FlushedIs DEF Column
  <1>5. screening.status \in Statuses
    BY <1>1 DEF Rows
  <1>6. /\ application = "screening" => screening.status \in {"pending", "processing"}
        /\ application \in {"screened", "shortlisted"} => screening.status = "completed"
        /\ application = "applied" => screening.status \in {"absent", "failed", "dead_lettered"}
    BY DEF InStep, WaitsForEvidence
  <1>7. /\ application' = "screening" => new.status \in {"pending", "processing"}
        /\ application' \in {"screened", "shortlisted"} => new.status = "completed"
        /\ application' = "applied" => new.status \in {"absent", "failed", "dead_lettered"}
    BY <1>1, <1>2, <1>3, <1>5, <1>6, MoveKeepsStep
  <1> QED
    BY <1>4, <1>7 DEF InStep, WaitsForEvidence

\* A decision from the present state is final, or a shortlist of what is
\* screened.
LEMMA DecisionKeepsStep ==
    ASSUME TypeOK, PlansFit, InStep, NEW d \in Deciders, Commit(d), ~CommitsStale(d)
    PROVE  InStep'
  <1>1. d \in Sessions
    BY DEF Sessions
  <1>2. /\ application' = IF session[d].to = "none" THEN application ELSE session[d].to
        /\ screening' = screening /\ application = session[d].seen /\ Ready(d)
    BY DEF Commit, CommitsStale, Ready
  <1>3. DecisionFits(d)
    BY <1>1, <1>2 DEF PlansFit, SessionPlans
  <1> QED
    BY <1>2, <1>3 DEF InStep, WaitsForEvidence, DecisionFits, TerminalStates

LEMMA StepKeepsStep ==
    ASSUME TypeOK, PlansFit, InStep, [Next]_vars, ~Overtaking
    PROVE  InStep'
  <1>1. ASSUME NEW s \in Sessions, Commit(s)
        PROVE  InStep'
    BY <1>1, FollowerKeepsStep, DecisionKeepsStep DEF Overtaking
  <1>2. ASSUME NEW w \in Workers, Claim(w)
        PROVE  InStep'
    <2>1. screening.status = "pending" /\ UNCHANGED application
      BY <1>2 DEF Overtaking, RunsAgain, Claim
    <2>2. screening'.status = "processing"
      BY <1>2 DEF Claim, TypeOK, Rows
    <2> QED
      BY <2>1, <2>2 DEF InStep, WaitsForEvidence
  <1>3. CASE Apply
    BY <1>3 DEF Apply, Overtaking, AppliesLate, InStep, WaitsForEvidence
  <1>4. CASE TimeoutPasses
    BY <1>4 DEF TimeoutPasses, TypeOK, Rows, InStep, WaitsForEvidence
  <1>5. CASE UNCHANGED <<screening, application>>
    BY <1>5 DEF InStep, WaitsForEvidence
  <1>6. \/ \E s \in Sessions : Commit(s)
        \/ \E w \in Workers : Claim(w)
        \/ Apply \/ TimeoutPasses
        \/ UNCHANGED <<screening, application>>
    BY DEF Next, vars, RunStep, AskStep, DecideStep, TransactionStep, Judge, Fail, Break,
           Reread, RecordBreak, Ask, Retry, Insert, LoseRace, FindNobody, Requeue, Move,
           Decide, ReadPosition, Collide, Dies, Reclaim, Edit
  <1> QED
    BY <1>1, <1>2, <1>3, <1>4, <1>5, <1>6

\* Whatever fails, dies, collides, is retried or decided, and whichever
\* windows are open: application and screening part only in a step by which
\* one session overtakes another.
THEOREM PartedOnlyByOvertaking == Spec => PartOnlyByOvertaking
  <1>1. Init => PlansFit
    BY IdleIs DEF Init, PlansFit, SessionPlans, Ready
  <1>2. TypeOK /\ PlansFit /\ [Next]_vars => [InStep /\ ~InStep' => Overtaking]_vars
    BY StepKeepsStep
  <1> QED
    BY <1>1, <1>2, NextKeepsPlans, TypeCorrect, LogAlwaysSound, PTL
    DEF Spec, PartOnlyByOvertaking
=============================================================================
