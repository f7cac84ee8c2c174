--------------------------- MODULE ProgressStream ---------------------------
(***************************************************************************)
(* A page waiting for one resume: the server-sent events of                *)
(* api/app/api/routes/resumes.py (_resume_events), the wire they travel    *)
(* on, and the browser's waitForProfile (web/lib/api.ts), which follows    *)
(* them and falls back to polling.  Both only read; what they read is the  *)
(* row that ResumeJob moves, under whichever queue, so each of their reads *)
(* may be stale by the time it is acted upon.                              *)
(***************************************************************************)
EXTENDS ResumeJob, Sequences

VARIABLES
    stream,     \* the generator: whether it is open, and last_payload
    wire,       \* frames written and not yet read by the browser, in order
    page        \* waitForProfile: its place, the state shown, what it read last

watchVars == <<row, profile, run, handler, stream, wire, page>>

-----------------------------------------------------------------------------
\* ResumeOut.of.  failure_reason and the page lists change only with these.
PayloadOf(r) == [status |-> r.status, attempts |-> r.attempts,
                 can_retry |-> CanRetry(r)]

Payloads == [status: Statuses, attempts: Nat, can_retry: BOOLEAN]

NoPayload == PayloadOf(NoCopy)

InFlightStatuses == {"pending", "processing"}

\* isSettled, and the stream's own test.
IsSettled(payload) == payload.status \notin InFlightStatuses

Frame(event, payload) == [event |-> event, data |-> payload]

Frames == [event: {"status", "done", "timeout", "gone"}, data: Payloads]

\* waitForProfile: reading frames; fetching the profile after `done`, in two
\* queries; polling, the same two queries each time; and how it ended.
Watching == {"streaming", "fetch", "fetched", "poll", "polled"}

PageStates == Watching \cup {"returned", "gaveup", "failed"}

WatchTypeOK ==
    /\ TypeOK
    /\ stream \in [open: BOOLEAN, last: Payloads]
    /\ wire \in Seq(Frames)
    /\ \A i \in 1 .. Len(wire) : wire[i].event # "status" => i = Len(wire) /\ ~stream.open
    /\ page \in [pc: PageStates, shown: Payloads, read: Payloads,
                 profile: BOOLEAN, late: BOOLEAN]

OpenStream == [open |-> TRUE, last |-> NoPayload]

NoStream == [OpenStream EXCEPT !.open = FALSE]

NewPage == [pc |-> "streaming", shown |-> NoPayload, read |-> NoPayload,
            profile |-> FALSE, late |-> FALSE]

WatchInit ==
    /\ Init
    /\ stream = OpenStream
    /\ wire = <<>>
    /\ page = NewPage

-----------------------------------------------------------------------------
\* _resume_events: one turn of its loop reads the row in a session of its
\* own and writes what follows from that copy and the clock.

StatusFrame ==
    IF PayloadOf(row) # stream.last THEN <<Frame("status", PayloadOf(row))>> ELSE <<>>

\* `late`: the deadline, sse_max_stream_seconds, has passed.
LastFrame(late) ==
    IF IsSettled(PayloadOf(row)) THEN <<Frame("done", PayloadOf(row))>>
    ELSE IF late THEN <<Frame("timeout", NoPayload)>>
    ELSE <<>>

\* A turn with nothing to say sends at most a comment, and sleeps.
Report(late) ==
    /\ stream.open
    /\ RowExists
    /\ StatusFrame \o LastFrame(late) # <<>>
    /\ wire' = wire \o StatusFrame \o LastFrame(late)
    /\ stream' = IF LastFrame(late) = <<>> THEN [stream EXCEPT !.last = PayloadOf(row)]
                                           ELSE NoStream
    /\ UNCHANGED <<vars, page>>

ReportGone ==
    /\ stream.open
    /\ ~RowExists
    /\ wire' = Append(wire, Frame("gone", NoPayload))
    /\ stream' = NoStream
    /\ UNCHANGED <<vars, page>>

-----------------------------------------------------------------------------
\* waitForProfile

\* Mutants of TakeFrame: one that shows what arrived last first, and one
\* that has no answer to `gone`.
TakeNewest ==
    /\ page.pc = "streaming"
    /\ wire # <<>>
    /\ LET frame == wire[Len(wire)]
       IN  page' = CASE frame.event = "status" -> [page EXCEPT !.shown = frame.data]
                     [] frame.event = "done"   -> [page EXCEPT !.pc = "fetch"]
                     [] OTHER                  -> [page EXCEPT !.pc = "poll"]
    /\ wire' = SubSeq(wire, 1, Len(wire) - 1)
    /\ UNCHANGED <<vars, stream>>

TakeIgnoringGone ==
    /\ page.pc = "streaming"
    /\ wire # <<>>
    /\ LET frame == Head(wire)
       IN  page' = CASE frame.event = "status"  -> [page EXCEPT !.shown = frame.data]
                     [] frame.event = "done"    -> [page EXCEPT !.pc = "fetch"]
                     [] frame.event = "timeout" -> [page EXCEPT !.pc = "poll"]
                     [] OTHER                   -> page
    /\ wire' = Tail(wire)
    /\ UNCHANGED <<vars, stream>>

\* streamResume reads the next frame.
TakeFrame ==
    /\ page.pc = "streaming"
    /\ wire # <<>>
    /\ LET frame == Head(wire)
       IN  page' = CASE frame.event = "status" -> [page EXCEPT !.shown = frame.data]
                     [] frame.event = "done"   -> [page EXCEPT !.pc = "fetch"]
                     [] OTHER                  -> [page EXCEPT !.pc = "poll"]
    /\ wire' = Tail(wire)
    /\ UNCHANGED <<vars, stream>>

\* The connection, or the process at its other end, is lost: only a broken
\* stream falls back.  The generator stops at its next is_disconnected.
ConnectionBreaks ==
    /\ page.pc = "streaming"
    /\ page' = [page EXCEPT !.pc = "poll"]
    /\ wire' = <<>>
    /\ stream' = NoStream
    /\ UNCHANGED vars

\* GET /resumes/{id}: _owned_resume selects the row ...
ReadRow ==
    /\ page.pc \in {"fetch", "poll"}
    /\ page' = IF RowExists
                 THEN [page EXCEPT !.pc = IF @ = "fetch" THEN "fetched" ELSE "polled",
                                   !.read = PayloadOf(row)]
                 ELSE [NewPage EXCEPT !.pc = "failed"]
    /\ UNCHANGED <<vars, stream, wire>>

\* ... and its profile in a second query.  What follows `done` is returned
\* as it is; pollForProfile shows it, and asks again unless it is settled.
\* The end of a wait clears the progress shown.
ReadProfile ==
    /\ page.pc \in {"fetched", "polled"}
    /\ page' = IF page.pc = "fetched" \/ IsSettled(page.read)
                 THEN [NewPage EXCEPT !.pc = "returned", !.read = page.read,
                                      !.profile = profile]
               ELSE IF page.late THEN [NewPage EXCEPT !.pc = "gaveup"]
               ELSE [NewPage EXCEPT !.pc = "poll", !.shown = page.read]
    /\ UNCHANGED <<vars, stream, wire>>

\* POLL_TIMEOUT_MS.
PollRunsLate ==
    /\ page.pc \in {"poll", "polled"}
    /\ ~page.late
    /\ page' = [page EXCEPT !.late = TRUE]
    /\ UNCHANGED <<vars, stream, wire>>

\* The documents page waits again, after a retry: a progress of its own.
WatchAgain ==
    /\ page.pc \in {"returned", "gaveup"}
    /\ RowExists
    /\ page' = NewPage
    /\ stream' = OpenStream
    /\ wire' = <<>>
    /\ UNCHANGED vars

-----------------------------------------------------------------------------
StreamStep == Report(FALSE) \/ ReportGone

PageStep == TakeFrame \/ ReadRow \/ ReadProfile

WatchStep ==
    \/ StreamStep
    \/ Report(TRUE)
    \/ PageStep
    \/ ConnectionBreaks
    \/ PollRunsLate
    \/ WatchAgain

WatchNext ==
    \/ Next /\ UNCHANGED <<stream, wire, page>>
    \/ WatchStep

\* The generator is polled, the browser reads, both clocks run; a connection
\* need not break and nobody need ask again.
WatchFairness ==
    /\ WF_watchVars(StreamStep)
    /\ WF_watchVars(Report(TRUE))
    /\ WF_watchVars(PageStep)
    /\ WF_watchVars(PollRunsLate)

WatchSpec == WatchInit /\ [][WatchNext]_watchVars /\ WatchFairness

-----------------------------------------------------------------------------
\* Properties

\* A page that waits comes to an end, whatever happens to the resume, to the
\* stream and to the connection: a stream that stops has told its reader so.
WaitEnds == page.pc \in Watching ~> page.pc \notin Watching

\* How far a payload is in the life of its row: one attempt after another,
\* each processed and then given up, finished or put back.
Age(payload) == 2 * payload.attempts + (IF payload.status = "processing" THEN 0 ELSE 1)

\* The page never goes back in time: not from `done` to an older state still
\* on the wire, not when polling takes over from a stream that broke, and not
\* when the next stream starts from the beginning.
PageNeverGoesBack ==
    [][{page.pc, page'.pc} \subseteq Watching /\ page' # NewPage
         => Age(page'.shown) >= Age(page.shown)]_watchVars

\* An answer that says `extracted` comes with the profile, although the two
\* are read one after the other and without a lock, unless the account was
\* erased in between: the order of the reads and of the job's one commit.
AnswerHasItsProfile ==
    page.pc = "returned" /\ page.read.status = "extracted" /\ RowExists => page.profile
=============================================================================
