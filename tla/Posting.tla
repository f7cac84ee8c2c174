------------------------------- MODULE Posting -------------------------------
(***************************************************************************)
(* One posting: who may move it between draft, published and closed        *)
(* (publication.py, routes/jobs.py), who may read it (also careers.py),    *)
(* and who applied to it (routes/applications.py, application_service).    *)
(* A request reads the posting, decides, and commits later; other requests *)
(* commit in between, and a commit writes only the columns that the        *)
(* request changed from what it had read.                                  *)
(***************************************************************************)
EXTENDS Naturals, FiniteSets

CONSTANTS
    Owner,          \* the recruiter whose posting it is
    Admins,         \* administrators
    Applicants,     \* accounts that are neither
    Documents,      \* the resumes an applicant has
    Requests,       \* requests in progress at once
    MaxMoves        \* a bound: commits that moved the posting

ASSUME PostingAssumption ==
    /\ Owner \notin Admins \cup Applicants /\ Admins \cap Applicants = {}
    /\ Documents # {} /\ MaxMoves \in Nat

VARIABLES
    posting,        \* the jobs row
    moves,          \* commits that moved it, which also tells the time
    application,    \* application[a]: the row of applicant a
    request         \* request[r]: its place, and what it has read

postingVars == <<posting, moves, application, request>>

Accounts == {Owner} \cup Admins \cup Applicants
JobStatus == {"draft", "published", "closed"}

\* publishedAt: 0 while it never has been.
Row == [exists: BOOLEAN, status: JobStatus, publishedAt: 0 .. MaxMoves]

\* `doc`: the resume put forward.  The states between are ScreeningJob's.
Application == [state: {"none", "applied", "withdrawn"}, doc: Documents]

Request == [pc: {"idle", "decided", "found", "answered"}, op: {"publication", "apply"},
            who: Accounts, read: Row, target: JobStatus, doc: Documents,
            answer: {"none", "ok", "created", "refused", "failed"}]

PostingTypeOK ==
    /\ posting \in Row
    /\ moves \in 0 .. MaxMoves
    /\ application \in [Applicants -> Application]
    /\ request \in [Requests -> Request]

SomeDocument == CHOOSE d \in Documents : TRUE
NoApplication == [state |-> "none", doc |-> SomeDocument]
Draft == [exists |-> TRUE, status |-> "draft", publishedAt |-> 0]
NoRequest == [pc |-> "idle", op |-> "apply", who |-> Owner, read |-> Draft,
              target |-> "draft", doc |-> SomeDocument, answer |-> "none"]

\* create_job: a draft, whatever the payload says.
PostingInit ==
    /\ posting = Draft
    /\ moves = 0
    /\ application = [a \in Applicants |-> NoApplication]
    /\ request = [r \in Requests |-> NoRequest]

-----------------------------------------------------------------------------
(* publication.py                                                          *)

\* Publisher.of: an administrator first.
Publisher(who) ==
    IF who \in Admins THEN "admin" ELSE IF who = Owner THEN "owner" ELSE "none"

\* _ALLOWED: only an administrator may reach published.
Allowed(from, publisher) ==
    IF publisher = "admin" THEN JobStatus \ {from}
    ELSE {"draft", "closed"} \ {from}

\* decide approves a move that is allowed, or to where it already is.
Approves(from, target, publisher) ==
    publisher # "none" /\ (target = from \/ target \in Allowed(from, publisher))

\* Mutant of IsPublic: a draft may be read and applied to.
IsPublicUnlessClosed(status) == status # "closed"

\* is_public.
IsPublic(status) == status = "published"

\* _readable_job, and get_posting for somebody who is not signed in.
Readable(who) ==
    posting.exists /\ (IsPublic(posting.status) \/ Publisher(who) # "none")

-----------------------------------------------------------------------------
(* POST /jobs/{id}/publication                                             *)

Answered(r, a) == request' = [request EXCEPT ![r].pc = "answered", ![r].answer = a]

\* The posting is read and the move decided on what was read.
AskPublication(r, who, target) ==
    LET ok == Readable(who) /\ Approves(posting.status, target, Publisher(who))
    IN  /\ request[r].pc \in {"idle", "answered"}
        /\ request' = [request EXCEPT ![r] =
             [NoRequest EXCEPT !.pc = IF ok THEN "decided" ELSE "answered",
                               !.answer = IF ok THEN "none" ELSE "refused",
                               !.op = "publication", !.who = who,
                               !.read = posting, !.target = target]]
        /\ UNCHANGED <<posting, moves, application>>

\* Mutant of Status: the column is written whether it changed or not.
StatusAlways(r) == request[r].target

\* The flush of `status`: asking for what it was is not a write.
Status(r) ==
    IF request[r].target # request[r].read.status THEN request[r].target ELSE posting.status

\* Mutant of Stamp: only what leaves draft is stamped.
StampDrafts(r) ==
    IF request[r].target = "published" /\ request[r].read.status = "draft" /\ request[r].read.publishedAt = 0
    THEN moves + 1 ELSE posting.publishedAt

\* published_at, when it was null in what was read.
Stamp(r) ==
    IF request[r].target = "published" /\ request[r].read.publishedAt = 0
    THEN moves + 1 ELSE posting.publishedAt

CommitPublication(r) ==
    /\ request[r].pc = "decided"
    /\ moves < MaxMoves
    /\ IF posting.exists
       THEN /\ posting' = [posting EXCEPT !.status = Status(r), !.publishedAt = Stamp(r)]
            /\ moves' = IF posting' = posting THEN moves ELSE moves + 1
            /\ Answered(r, "ok")
       ELSE Answered(r, "failed") /\ UNCHANGED <<posting, moves>>
    /\ UNCHANGED application

\* delete_job: the applications go with it.
DeleteJob ==
    /\ posting.exists
    /\ posting' = [posting EXCEPT !.exists = FALSE]
    /\ application' = [a \in Applicants |-> NoApplication]
    /\ UNCHANGED <<moves, request>>

-----------------------------------------------------------------------------
(* POST /jobs/{id}/applications                                            *)

\* apply_to_job: only a public posting takes applications; find_application
\* then answers with the one there is, whatever its state and document.
AskApply(r, a, doc) ==
    LET mine == [NoRequest EXCEPT !.op = "apply", !.who = a, !.doc = doc, !.read = posting]
        open == posting.exists /\ IsPublic(posting.status)
    IN  /\ request[r].pc \in {"idle", "answered"}
        /\ request' = [request EXCEPT ![r] =
             IF open THEN [mine EXCEPT !.pc = "found"]
             ELSE [mine EXCEPT !.pc = "answered", !.answer = "refused"]]
        /\ UNCHANGED <<posting, moves, application>>

\* Mutant of Insert: the second of two that race replaces the first.
InsertOrReplace(r) ==
    /\ request[r].pc = "found"
    /\ IF posting.exists
       THEN /\ application' = [application EXCEPT ![request[r].who] =
                                 [state |-> "applied", doc |-> request[r].doc]]
            /\ Answered(r, "created")
       ELSE Answered(r, "failed") /\ UNCHANGED application
    /\ UNCHANGED <<posting, moves>>

\* find_application, the INSERT and the unique pair: an application that is
\* there is handed back, whether the lookup or the INSERT met it.
Insert(r) ==
    LET a == request[r].who
    IN  /\ request[r].pc = "found"
        /\ IF ~posting.exists THEN Answered(r, "failed") /\ UNCHANGED application
           ELSE IF application[a].state # "none" THEN Answered(r, "ok") /\ UNCHANGED application
           ELSE /\ application' = [application EXCEPT ![a] =
                                     [state |-> "applied", doc |-> request[r].doc]]
                /\ Answered(r, "created")
        /\ UNCHANGED <<posting, moves>>

\* move_application to withdrawn, by the applicant.
Withdraw(a) ==
    /\ application[a].state = "applied"
    /\ application' = [application EXCEPT ![a].state = "withdrawn"]
    /\ UNCHANGED <<posting, moves, request>>

-----------------------------------------------------------------------------
PostingNext ==
    \/ \E r \in Requests :
         \/ \E who \in Accounts, target \in JobStatus : AskPublication(r, who, target)
         \/ CommitPublication(r)
         \/ \E a \in Applicants, doc \in Documents : AskApply(r, a, doc)
         \/ request[r].op = "apply" /\ Insert(r)
    \/ \E a \in Applicants : Withdraw(a)
    \/ DeleteJob

PostingSpec == PostingInit /\ [][PostingNext]_postingVars

-----------------------------------------------------------------------------
(* Properties.                                                             *)

\* "A PUBLISHED row without [published_at] does not exist": the board sorts by
\* it.  The move and the stamp rest on one read that may be old.
PublishedHasDate == IsPublic(posting.status) => posting.publishedAt # 0

\* "Only an admin may reach published": a posting becomes public by a request
\* of an administrator that asked for it, also when an owner's request that
\* found it public is committed after it was taken down.
PublishingNow(r) ==
    /\ request[r].pc = "decided" /\ request'[r].pc = "answered"
    /\ request[r].who \in Admins /\ request[r].target = "published"
OnlyAdminPublishes ==
    [][~IsPublic(posting.status) /\ IsPublic(posting'.status) =>
         \E r \in Requests : PublishingNow(r)]_postingVars

\* "Stamped once and never again": taking a posting down and publishing it
\* again does not move it on the board.  The code keeps it of requests that do
\* not overlap: one that read the posting before its first publication stamps
\* it a second time.
StampedOnce ==
    [][posting.publishedAt # 0 => posting'.publishedAt = posting.publishedAt]_postingVars

\* "Only a published posting accepts applications": nobody has applied to one
\* that was never public, although the posting may move, or go, after it was
\* read.
AppliedAfterPublication ==
    (\E a \in Applicants : application[a].state # "none")
        => posting.exists /\ posting.publishedAt # 0

\* "Re-applying does not swap the resume": the document whose application was
\* answered 201 is the one the application has, so no screening comes to be
\* about a document nobody put forward, and only one answer was 201.
CreatedStands ==
    posting.exists =>
      \A r \in Requests : request[r].answer = "created" =>
        /\ application[request[r].who].doc = request[r].doc
        /\ \A q \in Requests \ {r} :
             request[q].who = request[r].who => request[q].answer # "created"

\* "Withdraw and apply again if that is what you mean": the application made
\* after a withdrawal puts the other document forward.
AppliesAgain(r) ==
    /\ request[r].pc = "found" /\ request'[r].answer = "ok"
    /\ application[request[r].who].state = "withdrawn"
WithdrawAndApplyAgain ==
    [][\A r \in Requests : AppliesAgain(r) =>
         application'[request[r].who] = [state |-> "applied", doc |-> request[r].doc]]_postingVars
=============================================================================
