---------------------------- MODULE Posting_proofs ----------------------------
(***************************************************************************)
(* Theorems about Posting, for any administrators, applicants, documents   *)
(* and requests, and any number of moves.                                  *)
(***************************************************************************)
EXTENDS Posting, TLAPS

-----------------------------------------------------------------------------
(* What a request that has read the posting may rely on when it commits.   *)

\* A move that was decided is one its author may make, and the date it saw
\* has not been taken back.
DecisionHolds(r) ==
    request[r].pc = "decided" =>
        /\ request[r].op = "publication"
        /\ Approves(request[r].read.status, request[r].target, Publisher(request[r].who))
        /\ request[r].read.publishedAt # 0 => posting.publishedAt # 0

\* An application is on its way to a posting that has been public.
LookupHolds(r) ==
    request[r].pc = "found" =>
        request[r].who \in Applicants /\ posting.publishedAt # 0

\* Whoever was told 201 has the application.
CreatedHolds(r) ==
    request[r].answer = "created" =>
        /\ request[r].pc = "answered"
        /\ request[r].who \in Applicants
        /\ posting.exists => application[request[r].who].state # "none"

PostingInv ==
    /\ PostingTypeOK
    /\ PublishedHasDate
    /\ AppliedAfterPublication
    /\ CreatedStands
    /\ \A r \in Requests : DecisionHolds(r) /\ LookupHolds(r) /\ CreatedHolds(r)
-----------------------------------------------------------------------------
(* Types.                                                                  *)

USE PostingAssumption

LEMMA SomeDocumentType == SomeDocument \in Documents
  BY DEF SomeDocument

LEMMA NoRequestType == NoRequest \in Request
  BY SomeDocumentType DEF NoRequest, Request, Accounts, Draft, Row, JobStatus

\* An answer leaves what the request is about as it was.
LEMMA AnsweredEffect ==
    ASSUME PostingTypeOK, NEW r \in Requests,
           NEW a \in {"none", "ok", "created", "refused", "failed"}, Answered(r, a)
    PROVE  /\ request' \in [Requests -> Request]
           /\ \A q \in Requests : q # r => request'[q] = request[q]
           /\ request'[r].pc = "answered" /\ request'[r].answer = a
           /\ request'[r].who = request[r].who /\ request'[r].doc = request[r].doc
  <1> DEFINE new == [request[r] EXCEPT !.pc = "answered", !.answer = a]
  <1>1. request \in [Requests -> Request] /\ request[r] \in Request
    BY DEF PostingTypeOK
  <1>2. /\ new \in Request
        /\ new.pc = "answered" /\ new.answer = a
        /\ new.who = request[r].who /\ new.doc = request[r].doc
    BY <1>1 DEF Request
  <1>3. request' = [request EXCEPT ![r] = new]
    BY <1>1 DEF Answered, Request
  <1> HIDE DEF new
  <1> QED
    BY <1>1, <1>2, <1>3

\* A date the posting is given is that of this move, or the one it had.
LEMMA StampValue ==
    ASSUME NEW r \in Requests, PostingTypeOK
    PROVE  /\ Stamp(r) = moves + 1 \/ Stamp(r) = posting.publishedAt
           /\ Status(r) = request[r].target \/ Status(r) = posting.status
  BY DEF Stamp, Status

\* The move of a posting that is there: its two columns, and nothing else.
LEMMA CommitEffect ==
    ASSUME PostingTypeOK, NEW r \in Requests, CommitPublication(r), posting.exists
    PROVE  /\ posting' = [exists |-> TRUE, status |-> Status(r), publishedAt |-> Stamp(r)]
           /\ posting' \in Row
           /\ moves' \in 0 .. MaxMoves
           /\ Answered(r, "ok")
  <1>1. Status(r) \in JobStatus
    BY StampValue DEF PostingTypeOK, Row, Request
  <1>2. posting \in Row /\ moves \in Nat /\ moves < MaxMoves
    BY DEF PostingTypeOK, CommitPublication
  <1>3. posting.publishedAt \in 0 .. MaxMoves
    BY <1>2 DEF Row
  <1>4. Stamp(r) \in 0 .. MaxMoves
    BY <1>2, <1>3, StampValue
  <1>5. posting' = [posting EXCEPT !.status = Status(r), !.publishedAt = Stamp(r)]
    BY DEF CommitPublication
  <1>6. posting' = [exists |-> TRUE, status |-> Status(r), publishedAt |-> Stamp(r)]
    BY <1>2, <1>5 DEF Row
  <1>7. moves' \in 0 .. MaxMoves
    BY <1>2 DEF CommitPublication
  <1> QED
    BY <1>1, <1>4, <1>6, <1>7 DEF Row, CommitPublication

\* A request that has read the posting holds the posting as it is.
LEMMA AskPublicationEffect ==
    ASSUME PostingTypeOK, NEW r \in Requests, NEW who \in Accounts, NEW target \in JobStatus,
           AskPublication(r, who, target)
    PROVE  /\ request' \in [Requests -> Request]
           /\ \A q \in Requests : q # r => request'[q] = request[q]
           /\ request'[r].pc \in {"decided", "answered"}
           /\ request'[r].answer \in {"none", "refused"}
           /\ request'[r].pc = "decided" => Approves(posting.status, target, Publisher(who))
           /\ request'[r].op = "publication"
           /\ request'[r].who = who /\ request'[r].target = target
           /\ request'[r].read = posting
           /\ UNCHANGED <<posting, moves, application>>
  <1> DEFINE ok == Readable(who) /\ Approves(posting.status, target, Publisher(who))
             pc == IF ok THEN "decided" ELSE "answered"
             answer == IF ok THEN "none" ELSE "refused"
             new == [NoRequest EXCEPT !.pc = pc, !.answer = answer, !.op = "publication",
                               !.who = who, !.read = posting, !.target = target]
  <1>1. /\ pc \in {"decided", "answered"}
        /\ answer \in {"none", "refused"}
        /\ pc = "decided" => Approves(posting.status, target, Publisher(who))
    OBVIOUS
  <1>2. request' = [request EXCEPT ![r] = new] /\ UNCHANGED <<posting, moves, application>>
    BY DEF AskPublication
  <1> HIDE DEF pc, answer
  <1>3. /\ new \in Request
        /\ new.pc = pc /\ new.answer = answer /\ new.op = "publication"
        /\ new.who = who /\ new.read = posting /\ new.target = target
    BY <1>1, NoRequestType DEF Request, PostingTypeOK
  <1> HIDE DEF new
  <1> QED
    BY <1>1, <1>2, <1>3 DEF PostingTypeOK

LEMMA AskApplyEffect ==
    ASSUME PostingTypeOK, NEW r \in Requests, NEW a \in Applicants, NEW doc \in Documents,
           AskApply(r, a, doc)
    PROVE  /\ request' \in [Requests -> Request]
           /\ \A q \in Requests : q # r => request'[q] = request[q]
           /\ request'[r].pc \in {"found", "answered"}
           /\ request'[r].pc = "found" => IsPublic(posting.status)
           /\ request'[r].answer \in {"none", "refused"}
           /\ request'[r].who = a
           /\ UNCHANGED <<posting, moves, application>>
  <1> DEFINE open == posting.exists /\ IsPublic(posting.status)
             mine == [NoRequest EXCEPT !.op = "apply", !.who = a, !.doc = doc, !.read = posting]
             found == [mine EXCEPT !.pc = "found"]
             refused == [mine EXCEPT !.pc = "answered", !.answer = "refused"]
             new == IF open THEN found ELSE refused
  <1>1. request' = [request EXCEPT ![r] = new] /\ UNCHANGED <<posting, moves, application>>
    BY DEF AskApply
  <1>2. mine \in Request /\ mine.who = a /\ mine.answer = "none"
    <2>1. NoRequest.answer = "none"
      BY DEF NoRequest
    <2> QED
      BY <2>1, NoRequestType DEF Request, PostingTypeOK, Accounts
  <1> HIDE DEF mine
  <1>3. /\ found \in Request /\ found.who = a /\ found.pc = "found" /\ found.answer = "none"
        /\ refused \in Request /\ refused.who = a
        /\ refused.pc = "answered" /\ refused.answer = "refused"
    BY <1>2 DEF Request
  <1> HIDE DEF found, refused
  <1>4. /\ new \in Request /\ new.who = a /\ new.pc \in {"found", "answered"}
        /\ new.pc = "found" => IsPublic(posting.status)
        /\ new.answer \in {"none", "refused"}
    BY <1>3
  <1> HIDE DEF new
  <1> QED
    BY <1>1, <1>4 DEF PostingTypeOK

\* What an application becomes: nothing, or the first one there is.
LEMMA InsertEffect ==
    ASSUME PostingTypeOK, NEW r \in Requests, Insert(r), request[r].who \in Applicants
    PROVE  /\ UNCHANGED <<posting, moves>>
           /\ application' \in [Applicants -> Application]
           /\ \/ /\ Answered(r, "failed") \/ Answered(r, "ok")
                 /\ application' = application
              \/ /\ Answered(r, "created") /\ posting.exists
                 /\ application[request[r].who].state = "none"
                 /\ application' = [application EXCEPT ![request[r].who] =
                                      [state |-> "applied", doc |-> request[r].doc]]
  BY DEF Insert, PostingTypeOK, Application, Request

LEMMA WithdrawEffect ==
    ASSUME PostingTypeOK, NEW a \in Applicants, Withdraw(a)
    PROVE  /\ UNCHANGED <<posting, moves, request>>
           /\ application' \in [Applicants -> Application]
           /\ \A b \in Applicants : application'[b].doc = application[b].doc
           /\ \A b \in Applicants :
                application'[b].state = "none" <=> application[b].state = "none"
  BY DEF Withdraw, PostingTypeOK, Application

LEMMA DeleteEffect ==
    ASSUME PostingTypeOK, DeleteJob
    PROVE  /\ UNCHANGED <<moves, request>>
           /\ posting' = [exists |-> FALSE, status |-> posting.status,
                          publishedAt |-> posting.publishedAt]
           /\ posting' \in Row
           /\ application' = [a \in Applicants |-> NoApplication]
           /\ application' \in [Applicants -> Application]
  BY SomeDocumentType DEF DeleteJob, PostingTypeOK, NoApplication, Application, Row
-----------------------------------------------------------------------------
(* The invariant, one action after another.                                *)

LEMMA InitInv == PostingInit => PostingInv
  <1> SUFFICES ASSUME PostingInit PROVE PostingInv
    OBVIOUS
  <1>1. PostingTypeOK
    BY SomeDocumentType, NoRequestType
    DEF PostingInit, PostingTypeOK, Draft, Row, JobStatus, NoApplication, Application
  <1>2. PublishedHasDate /\ AppliedAfterPublication
    BY DEF PostingInit, PublishedHasDate, AppliedAfterPublication, IsPublic, Draft,
           NoApplication
  <1>3. \A r \in Requests : request[r].pc = "idle" /\ request[r].answer = "none"
    BY DEF PostingInit, NoRequest
  <1> QED
    BY <1>1, <1>2, <1>3
    DEF PostingInv, CreatedStands, DecisionHolds, LookupHolds, CreatedHolds

LEMMA AskPublicationInv ==
    ASSUME PostingInv, NEW r \in Requests, NEW who \in Accounts, NEW target \in JobStatus,
           AskPublication(r, who, target)
    PROVE  PostingInv'
  <1> USE DEF PostingInv
  <1> USE AskPublicationEffect
  <1>1. PostingTypeOK' /\ PublishedHasDate' /\ AppliedAfterPublication'
    BY DEF PostingTypeOK, PublishedHasDate, AppliedAfterPublication
  <1>2. CreatedStands'
    BY DEF CreatedStands
  <1>3. ASSUME NEW q \in Requests PROVE (DecisionHolds(q) /\ LookupHolds(q) /\ CreatedHolds(q))'
    BY DEF DecisionHolds, LookupHolds, CreatedHolds
  <1> QED
    BY <1>1, <1>2, <1>3

\* A move is committed: the posting has a date whenever it comes out public.
LEMMA CommitPublicationInv ==
    ASSUME PostingInv, NEW r \in Requests, CommitPublication(r)
    PROVE  PostingInv'
  <1> USE DEF PostingInv
  <1>1. CASE ~posting.exists
    <2>1. Answered(r, "failed") /\ UNCHANGED <<posting, moves, application>>
      BY <1>1 DEF CommitPublication
    <2> USE <2>1, AnsweredEffect
    <2>2. PostingTypeOK' /\ PublishedHasDate' /\ AppliedAfterPublication'
      BY DEF PostingTypeOK, PublishedHasDate, AppliedAfterPublication
    <2>3. CreatedStands'
      BY <1>1 DEF CreatedStands
    <2>4. ASSUME NEW q \in Requests
          PROVE (DecisionHolds(q) /\ LookupHolds(q) /\ CreatedHolds(q))'
      BY DEF DecisionHolds, LookupHolds, CreatedHolds
    <2> QED
      BY <2>2, <2>3, <2>4
  <1>2. CASE posting.exists
    <2>1. /\ posting'.exists /\ posting'.status = Status(r) /\ posting'.publishedAt = Stamp(r)
          /\ posting' \in Row /\ moves' \in 0 .. MaxMoves
          /\ Answered(r, "ok") /\ application' = application /\ moves \in Nat
          /\ request[r].pc = "decided"
      <3>1. application' = application /\ request[r].pc = "decided"
        BY DEF CommitPublication
      <3>2. moves \in Nat
        BY DEF PostingTypeOK
      <3> QED
        BY <1>2, <3>1, <3>2, CommitEffect
    <2>2. posting.publishedAt # 0 => posting'.publishedAt # 0
      BY <2>1, StampValue
    <2>3. request[r].target = "published" => posting'.publishedAt # 0
      BY <2>1 DEF Stamp, DecisionHolds
    <2>4. PostingTypeOK'
      BY <2>1, AnsweredEffect DEF PostingTypeOK
    <2>5. PublishedHasDate'
      BY <2>1, <2>2, <2>3, StampValue DEF PublishedHasDate, IsPublic
    <2>6. AppliedAfterPublication'
      BY <2>1, <2>2 DEF AppliedAfterPublication
    <2>7. CreatedStands'
      BY <1>2, <2>1, AnsweredEffect DEF CreatedStands
    <2>8. ASSUME NEW q \in Requests
          PROVE (DecisionHolds(q) /\ LookupHolds(q) /\ CreatedHolds(q))'
      BY <1>2, <2>1, <2>2, AnsweredEffect DEF DecisionHolds, LookupHolds, CreatedHolds
    <2> QED
      BY <2>4, <2>5, <2>6, <2>7, <2>8
  <1> QED
    BY <1>1, <1>2

LEMMA AskApplyInv ==
    ASSUME PostingInv, NEW r \in Requests, NEW a \in Applicants, NEW doc \in Documents,
           AskApply(r, a, doc)
    PROVE  PostingInv'
  <1> USE DEF PostingInv
  <1> USE AskApplyEffect
  <1>1. PostingTypeOK' /\ PublishedHasDate' /\ AppliedAfterPublication'
    BY DEF PostingTypeOK, PublishedHasDate, AppliedAfterPublication
  <1>2. CreatedStands'
    BY DEF CreatedStands
  <1>3. ASSUME NEW q \in Requests PROVE (DecisionHolds(q) /\ LookupHolds(q) /\ CreatedHolds(q))'
    BY DEF DecisionHolds, LookupHolds, CreatedHolds, PublishedHasDate
  <1> QED
    BY <1>1, <1>2, <1>3

\* The one that is told 201 found none, so nobody was told so before it.
LEMMA InsertInv ==
    ASSUME PostingInv, NEW r \in Requests, request[r].op = "apply", Insert(r)
    PROVE  PostingInv'
  <1> USE DEF PostingInv
  <1> DEFINE a == request[r].who
  <1>1. request[r].pc = "found" /\ a \in Applicants /\ posting.publishedAt # 0
    BY DEF Insert, LookupHolds
  <1>2. /\ UNCHANGED <<posting, moves>>
        /\ application' \in [Applicants -> Application]
        /\ Answered(r, "failed") \/ Answered(r, "ok") \/ Answered(r, "created")
    BY <1>1, InsertEffect
  <1>3. /\ request' \in [Requests -> Request]
        /\ \A q \in Requests : q # r => request'[q] = request[q]
        /\ request'[r].pc = "answered"
        /\ request'[r].who = a /\ request'[r].doc = request[r].doc
    BY <1>2, AnsweredEffect
  <1>4. \/ application' = application /\ request'[r].answer # "created"
        \/ /\ posting.exists /\ request'[r].answer = "created"
           /\ application[a].state = "none"
           /\ application'[a].state = "applied" /\ application'[a].doc = request[r].doc
           /\ \A b \in Applicants : b # a => application'[b] = application[b]
    <2>1. CASE Answered(r, "created")
      <3>1. request'[r].answer = "created"
        BY <2>1, AnsweredEffect
      <3>2. ~Answered(r, "failed") /\ ~Answered(r, "ok")
        BY <3>1, AnsweredEffect
      <3>3. /\ posting.exists /\ application[a].state = "none"
            /\ application' = [application EXCEPT ![a] =
                                 [state |-> "applied", doc |-> request[r].doc]]
        BY <1>1, <3>2, InsertEffect
      <3> QED
        BY <1>1, <3>1, <3>3 DEF PostingTypeOK
    <2>2. CASE Answered(r, "failed") \/ Answered(r, "ok")
      <3>1. request'[r].answer # "created"
        BY <2>2, AnsweredEffect
      <3>2. ~Answered(r, "created")
        BY <3>1, AnsweredEffect
      <3> QED
        BY <1>1, <3>1, <3>2, InsertEffect
    <2> QED
      BY <1>2, <2>1, <2>2
  <1>5. PostingTypeOK'
    BY <1>2, <1>3 DEF PostingTypeOK
  <1>6. PublishedHasDate' /\ AppliedAfterPublication'
    BY <1>1, <1>2, <1>4 DEF PublishedHasDate, AppliedAfterPublication
  <1>7. \A q \in Requests : DecisionHolds(q)' /\ LookupHolds(q)' /\ CreatedHolds(q)'
    BY <1>1, <1>2, <1>3, <1>4 DEF DecisionHolds, LookupHolds, CreatedHolds
  <1>8. CreatedStands'
    <2>1. CASE application' = application /\ request'[r].answer # "created"
      BY <1>2, <1>3, <2>1 DEF CreatedStands
    <2>2. CASE /\ posting.exists /\ request'[r].answer = "created"
               /\ application[a].state = "none"
               /\ application'[a].state = "applied" /\ application'[a].doc = request[r].doc
               /\ \A b \in Applicants : b # a => application'[b] = application[b]
      <3>1. \A q \in Requests \ {r} : request[q].answer = "created" =>
              request[q].who # a /\ request[q].who \in Applicants
        BY <2>2 DEF CreatedHolds
      <3> QED
        BY <1>2, <1>3, <2>2, <3>1 DEF CreatedStands
    <2> QED
      BY <1>4, <2>1, <2>2
  <1> QED
    BY <1>5, <1>6, <1>7, <1>8

LEMMA WithdrawInv ==
    ASSUME PostingInv, NEW a \in Applicants, Withdraw(a)
    PROVE  PostingInv'
  <1> USE DEF PostingInv
  <1> USE WithdrawEffect
  <1>1. PostingTypeOK' /\ PublishedHasDate' /\ AppliedAfterPublication'
    BY DEF PostingTypeOK, PublishedHasDate, AppliedAfterPublication
  <1>2. CreatedStands'
    BY DEF CreatedStands, CreatedHolds
  <1>3. \A q \in Requests : DecisionHolds(q)' /\ LookupHolds(q)' /\ CreatedHolds(q)'
    BY DEF DecisionHolds, LookupHolds, CreatedHolds
  <1> QED
    BY <1>1, <1>2, <1>3

LEMMA DeleteInv ==
    ASSUME PostingInv, DeleteJob
    PROVE  PostingInv'
  <1> USE DEF PostingInv
  <1> USE DeleteEffect
  <1>1. PostingTypeOK' /\ PublishedHasDate' /\ AppliedAfterPublication'
    BY DEF PostingTypeOK, PublishedHasDate, AppliedAfterPublication, NoApplication
  <1>2. CreatedStands'
    BY DEF CreatedStands
  <1>3. \A q \in Requests : DecisionHolds(q)' /\ LookupHolds(q)' /\ CreatedHolds(q)'
    BY DEF DecisionHolds, LookupHolds, CreatedHolds
  <1> QED
    BY <1>1, <1>2, <1>3

LEMMA StepInv == PostingInv /\ [PostingNext]_postingVars => PostingInv'
  <1> SUFFICES ASSUME PostingInv, [PostingNext]_postingVars PROVE PostingInv'
    OBVIOUS
  <1>1. CASE UNCHANGED postingVars
    BY <1>1
    DEF PostingInv, postingVars, PostingTypeOK, PublishedHasDate, AppliedAfterPublication,
        CreatedStands, DecisionHolds, LookupHolds, CreatedHolds
  <1>2. CASE PostingNext
    BY <1>2, AskPublicationInv, CommitPublicationInv, AskApplyInv, InsertInv, WithdrawInv,
       DeleteInv
    DEF PostingNext
  <1> QED
    BY <1>1, <1>2

\* Whatever the requests in progress have read, the invariant holds.
THEOREM PostingInvariant == PostingSpec => []PostingInv
  BY InitInv, StepInv, PTL DEF PostingSpec

\* The posting, its applications and the requests keep their types.
THEOREM PostingTypeCorrect == PostingSpec => []PostingTypeOK
  BY PostingInvariant, PTL DEF PostingInv

\* "A PUBLISHED row without [published_at] does not exist", with any number of
\* moves decided on rows that were read before others were committed.
THEOREM PublicationIsDated == PostingSpec => []PublishedHasDate
  BY PostingInvariant, PTL DEF PostingInv

\* "Only a published posting accepts applications": nobody has applied to a
\* posting that was never public.
THEOREM ApplicationsFollowPublication == PostingSpec => []AppliedAfterPublication
  BY PostingInvariant, PTL DEF PostingInv

\* What was answered 201 is the application there is, and one answer was 201.
THEOREM CreatedIsKept == PostingSpec => []CreatedStands
  BY PostingInvariant, PTL DEF PostingInv

-----------------------------------------------------------------------------
(* What a step may never do.                                               *)

\* A posting that turns public is the commit of an administrator's request.
LEMMA AdminStep ==
    ASSUME PostingInv, PostingNext, ~IsPublic(posting.status), IsPublic(posting'.status)
    PROVE  \E r \in Requests : PublishingNow(r)
  <1> USE DEF PostingInv
  <1>1. posting' # posting
    OBVIOUS
  <1>2. ~DeleteJob
    BY DeleteEffect DEF IsPublic
  <1>3. PICK r \in Requests : CommitPublication(r)
    BY <1>1, <1>2, AskPublicationEffect, AskApplyEffect, WithdrawEffect
    DEF PostingNext, Insert
  <1>4. posting.exists
    BY <1>1, <1>3 DEF CommitPublication
  <1>5. Status(r) = "published" /\ posting.status # "published"
    BY <1>3, <1>4, CommitEffect DEF IsPublic
  <1>6. request[r].target = "published" /\ request[r].read.status # "published"
    BY <1>5 DEF Status
  <1>7. request[r].pc = "decided" /\ request'[r].pc = "answered"
    BY <1>3, <1>4, CommitEffect, AnsweredEffect DEF CommitPublication
  <1>8. request[r].who \in Admins
    BY <1>6, <1>7 DEF DecisionHolds, Approves, Allowed, Publisher
  <1> QED
    BY <1>6, <1>7, <1>8 DEF PublishingNow

\* "Only an admin may reach published", although every move is decided on a
\* row read earlier: an owner's stale request cannot put the posting back up.
THEOREM AdminsPublish == PostingSpec => OnlyAdminPublishes
  <1>1. PostingInv /\ [PostingNext]_postingVars =>
          [~IsPublic(posting.status) /\ IsPublic(posting'.status) =>
             \E r \in Requests : PublishingNow(r)]_postingVars
    BY AdminStep
  <1> QED
    BY <1>1, PostingInvariant, PTL DEF PostingSpec, OnlyAdminPublishes
=============================================================================
