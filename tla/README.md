# Formal models of hirelens

hirelens takes resumes in, extracts a profile whose every claim is tied to the
text of the document, screens resumes against a job's requirements, and keeps an
audited pipeline of applications.  This directory holds TLA+ models of the API
(`src/api/app`) and of the two parts of the web client that keep state, the TLC
runs that check them on small instances, and machine-checked proofs of results
that hold for every instance.

## 1. The system

| Component | State it keeps | Operations | Talks to |
|---|---|---|---|
| Resume job (`jobs.py`, `services/resume_service.py`, `routes/resumes.py`) | `resumes` row: status, `attempts`, `failed_attempts`, `last_attempt_at`, text; `extracted_profiles` | upload, claim, parse, extract, record a failure, sweep, retry, delete | queue, blob store, model, OCR |
| Screening job (`jobs.py`, `services/screening_service.py`) | `screenings` row, `judgments`, fingerprint of the requirements judged | ask, force, claim, judge, record, sweep | queue, model, application log |
| Application log (`services/application_service.py`, `applications.py`) | `applications.state`, ordered `application_events` | apply, move, withdraw, follow a screening | screening job |
| Queues (`queue.py`, `worker.py`, `database_queue.py`) | arq's jobs and kept results in Redis; nothing; nothing | enqueue, deliver, redeliver, poll, run inline | both jobs |
| Tokens (`services/token_service.py`, `security.py`, `routes/auth.py`, `api/deps.py`) | `revoked_tokens`, `candidates.token_epoch` | log in, refresh, log out, change password, erase, purge | every route |
| Browser session (`web/lib/auth.ts`) | cookie jar, the marker in `localStorage`, the renewal in flight | call, renew once, retry, sign in and out | tokens |
| Upload and erasure (`resume_service.ingest_resume`, `privacy_service.py`, `storage.py`) | blobs and rows | put, insert, clean up, delete blobs, delete rows | blob store |
| Publication and jobs (`publication.py`, `careers.py`, `routes/jobs.py`, `routes/applications.py`) | `jobs.status`, `published_at`; requirements | publish, close, delete, edit requirements, apply | screening (fingerprint) |
| Documents (`pipeline/parse.py`, `layout.py`, `geometry.py`, `extract.py`, `verification.py`, `evidence.py`) | the columns a parse fills, the attempt that is kept | read, order, recognise, join, resolve, ask | OCR, model |
| Judging and ranking (`pipeline/judge.py`, `ranking.py`) | none | fingerprint, verify, rank, exclude | screening |
| Progress (`routes/resumes.py`, `web/lib/api.ts`) | a stream's last payload; what a page shows | stream, poll, fetch | resume row |
| Retrieval, metrics, schemas, migrations, pages | read models | query, render | API |

What is hard about it: nothing holds a lock while it works.  A job run and a
request each hold a *copy* of the row they read (`expire_on_commit=False`,
`autoflush=False`), decide on it, and write later; SQLAlchemy's UPDATE carries
only the columns whose value changed in that copy.  Dispatches arrive late, twice
or never; workers die between a claim and its outcome and between a commit and
the enqueue owed for it; a sweep takes rows back from runs it believes dead.
Documents are in a store that no transaction spans.  Tokens are checked in one
await and spent in another.  And everything that quotes a document does so by
offsets into a text that columns, OCR, normalisation and joins have made.

The properties that make each part correct:

* *resume job*: one run at a time; finished work stays finished; a stored
  `extracted` is backed by a profile and text; a claim given up on costs exactly
  one strike; every resume comes to rest.
* *queues*: no pending row without something that will look at it again.
* *screening job and application log*: every event was a legal move; the log
  replays to the column and a decision is final, as far as no transaction overtakes
  another, and application and screening part in no other way; `screened` rests on a stored judgment; nobody waits at `screening`
  for ever.
* *tokens and browser*: a token that was spent or signed out buys nothing
  afterwards; no pair outlives the password it rests on; a refusal never ends
  a session that could be renewed.
* *upload and erasure*: every row has its blob until an erasure takes it, and
  every blob a row, a crash or a failing store apart.
* *publication*: the public sees a posting only while it is published, and only an
  administrator's move makes it so; an application is what was answered 201.
* *documents*: a claim quotes the stored text where it says, on the page it says;
  a box lies under its character; nothing that is there is called a fabrication.
* *ranking*: an entry's verdicts are those of the requirements as they are; the
  order is total; weights are free.
* *progress*: a wait ends; what is shown never goes back.

## 2. Modules

| Module | Models | Source |
|---|---|---|
| `RetryPolicy` | which errors are permanent, the budget, the status a verdict becomes | `jobs.py` 109-207, 282-321 |
| `WorkItem` | *abstract specification*: what `jobs.py` promises of a row it works on | - |
| `ResumeJob` | one resume row: runs, sweep, retries, uploads, deletion, with session copies | `jobs.py`, `resume_service.py`, `routes/resumes.py` |
| `ArqQueue` | `ResumeJob` driven by arq: job ids, kept results, `max_tries`, redelivery | `queue.py`, `worker.py` |
| `DatabaseQueue` | `ResumeJob` driven by the polling consumer | `database_queue.py` |
| `ProgressStream` | `ResumeJob` watched by one page: frames, the wire, polling, the profile | `routes/resumes.py`, `web/lib/api.ts` |
| `ApiProcess` | `DatabaseQueue` and `ProgressStream` in one process, as the free hosting profile runs them | `main.py` |
| `ApplicationRules` | the table of moves, the plan of a move, the log and its replay | `applications.py` |
| `ScreeningJob` | one screening and the application that follows it: runs, requests, decisions, sweep | `jobs.py`, `screening_service.py`, `application_service.py`, `routes/screenings.py`, `routes/applications.py` |
| `SessionTokens` | one account's pairs, denylist and epoch, under requests that read, check and write | `token_service.py`, `security.py`, `deps.py`, `routes/auth.py` |
| `BrowserSession` | `SessionTokens` under a browser's tabs and a script | `web/lib/auth.ts`, `cookies.py` |
| `LateTokens` | `SessionTokens` under any callers, with how their tokens had been given up when they asked | `token_service.py`, `routes/auth.py` |
| `UploadErasure` | uploads and an erasure over two stores | `resume_service.py`, `storage.py`, `privacy_service.py` |
| `Posting` | one posting's status and date, and who applied to it | `publication.py`, `routes/jobs.py`, `careers.py`, `application_service.py` |
| `Ranking` | fingerprint, verification of a judgment, exclusion, score, order | `pipeline/ranking.py`, `judge.py`, `verification.py` |
| `Shortlist` | the requirements of a posting under edits, and the screenings judged by them | `routes/jobs.py`, `screening_service.py`, `routes/screenings.py` |
| `Evidence` | the three tiers that find a quote in a text | `pipeline/evidence.py` |
| `ReadingOrder` | rows, bands, gutters, and the words and boxes of a page in reading order | `pipeline/layout.py`, `parse.py` |
| `Documents` | a run of `process_resume`: reading, OCR, joining, asking | `pipeline/parse.py`, `geometry.py`, `extract.py`, `verification.py` |
| `ResumeJob_proofs`, `ScreeningJob_proofs`, `Posting_proofs`, `UploadErasure_proofs`, `Shortlist_proofs` | the theorems about the module named | - |
| `QueuesAndStream_proofs` | the theorems about what surrounds `ResumeJob`: `ArqQueue`, `DatabaseQueue`, `ProgressStream` | - |
| `Documents_proofs` | the theorems about `Evidence`, `ReadingOrder` and `Documents` | - |
| `BrowserSession_proofs` | the theorems about `SessionTokens`, `LateTokens` and `BrowserSession` | - |
| `MC*` | the instance TLC checks: model values and symmetry | - |

`ResumeJob` extends `RetryPolicy` and refines `WorkItem` (`Item == INSTANCE WorkItem
WITH ...`); `ArqQueue`, `DatabaseQueue` and `ProgressStream` extend `ResumeJob` and
conjoin its actions with what happens around it, and `ApiProcess` extends the last two;
`ScreeningJob` extends
`RetryPolicy` and `ApplicationRules`; `BrowserSession` and `LateTokens` extend `SessionTokens`;
`Shortlist` extends `Ranking`; `Documents` extends `ReadingOrder`, which extends
`Evidence`.

### How `ResumeJob` corresponds to the code

* `row`, `profile`: the `resumes` row, and whether `extracted_profiles` has one
  for it.  `stale` abstracts `last_attempt_at` to "older than the visibility
  timeout"; `text` abstracts `document_text` to its presence.  `deleted` is no row.
* `run[w]`: one execution of `run_resume_job`, its place in the code and the copy
  its session holds.  The control points are exactly the places where the
  coroutine awaits something and other actors can act: after `_claim`'s commit
  (`claimed`), between parsing and the model's answer (`parsed`), after the
  rollback (`broken`), between the re-read and the failure's commit
  (`recording`), and the outcome on its way to the queue (`retry`, `done`).
* `handler[h]`: a request between its read and its commit (`retrying`) or its
  commit and its dispatch (`enqueueing`); the sweep owes a dispatch the same way.
* `Claim` is one step: `SELECT ... FOR UPDATE`, the test and the commit happen
  under one row lock.  `Reclaim` is one step for the same reason: what
  `find_stalled` listed is tested again under the lock.
* `Flushed(old, new)` is a session's UPDATE: only changed columns are written.
* `Fail` records on the session in use, so the text parsed meanwhile is kept;
  `Break`, `Reread`, `RecordBreak` is the fresh-session path.

Parameters that name an assumption:

* `SlowWorkers`: whether a live run may outlast `job_visibility_timeout_seconds`
  (900 s).  Under arq the default `job_timeout` (300 s) cancels a run first;
  under the other two queues only the length of real jobs keeps it FALSE.
* `RetryRaces`: whether the row may change between `retry_resume`'s read and its
  commit.  The code does nothing to prevent it; FALSE isolates what holds apart
  from that window.
* `DiesOwing`: whether a process may die after a commit and before the enqueue it
  owes.  Under arq such a row stays pending until somebody uploads again.
* `TriesMargin`: what `max_tries` adds to the job's budget (2 in `worker.py`).
  `ArqQueueLive` takes 1, so that arq's counter cuts in (`GiveUp`) within
  `MaxClaims`; `ArqLimit` has the margin of 2, the deployed budget of 3 and 6 claims.
* `MaxClaims` bounds `row.attempts` (the only counter that grows for ever) and is
  the only bound of `ResumeJob` and its queues.

### How `ScreeningJob` corresponds to the code

* `screening`, `application`, `log`, `posting`: the `screenings` row, the
  `applications.state` column, the `application_events` by position, and the
  fingerprint of the requirements the job has now.  `judged` is the
  `requirements_hash` stored with a result.
* `session[s]`: one database session, its place in the code, the copy of the
  screening it read (`old`) and what it made of it (`new`), the application's
  state as read (`seen`), the move planned from it (`to`) and the position read
  for the event.
* Every change of a screening's status moves the application in the same
  transaction.  Three awaits make three steps of it: `Follow` reads the
  application and plans, `ReadPosition` reads `max(position)`, `Commit` writes.
  Between any two of them other sessions may commit.  The unique constraint on
  `(application_id, position)` is `PositionFree`; a collision is `Collide`, which
  for a run that has its answer means the fresh-session path, for a request that
  was inserting the screening a second look for a rival's row (`refinding`, then
  `LoseRace` or `FindNobody`), and for anyone else the end of the request.
* `Claim` and `Reclaim` hold the row's lock (`FOR UPDATE`, which PostgreSQL takes
  and SQLite ignores; the models are of PostgreSQL).  A request's read does not.
* `Ask`, `Insert`, `LoseRace`, `Requeue`: `request_screening` with its insert
  race.  `Insert` flushes, so a rival waits for the transaction's end.  After the
  loser's rollback its objects are expired and a later read of them may raise:
  that is `Dies`.
* `Races` names the windows that are open: `"log"` (the application may move
  between `Follow` and `ReadPosition`), `"request"` (the row may change between a
  request's read and its commit), `"slow"` (a live run may outlast the visibility
  timeout), `"stray"` (a dispatch may find the row in any state).  The code closes
  none of the four; a run that leaves one out isolates what holds without it.
* `OwnResume` says whether the recruiter may ask without an application.

### How `SessionTokens` and `BrowserSession` correspond to the code

* `pair[p]`: a pair of tokens, as what its claims say (the epoch, the password it
  rests on, the pair whose refresh token bought it) and how much of it has expired
  (`stale`: the access token, `dead`: both).  Tokens expire in the order in which
  they were minted.  `revoked` is the denylist, by type and pair for `jti`.
* `req[r]`: a request.  `Load` is `decode_token` and the account, `Check` is
  `assert_live` (the denylist, read in an await of its own, and the epoch of the
  copy), the write is the third step; `row` is the copy.  `Lose` is a call that
  failed on its way, at whatever stage: the server may have done it or not.
* `held`, `marker`: the cookie jar of a browser, shared by its tabs, and the sign
  in `localStorage`; a script keeps its pair and sends it in the header, so its
  sign-out names a refresh token only if the body does (`RefreshOfThisSession`).
* `call[c]` is one `authorized()`: `CallRefused` joins the tab's renewal
  (`RenewalSlot`), `RenewalSettles` retries for all who joined or ends the session.
  A page that is reloaded, or whose connection drops, while the server goes on with
  its request is to the server another caller beside the new page's: section 5 says
  what two of them do, and `LateTokens` has any callers at all.
* `LateTokens`: a request presents any pair that was minted.  `signedOut` are the
  tokens of committed sign-outs; `late[r]` is how the token of `r` had been given
  up when `r` was sent, by a renewal (`Renewed`) or by a sign-out.
* `Races` names the windows: `"change"` (two changes of password at once),
  `"purge"` (a token expires and is purged between a request's decoding it and
  its reading the denylist), `"signout"` (a sign-out beside calls of its browser).

### How `UploadErasure` corresponds to the code

`Lookup`, `Put`, `Commit` and `LostRace`, `CommitFails`, `Cleanup` are the awaits
of `ingest_resume` in order; `IntegrityError` is the unique digest or the missing
account.  The key of an object is its content and the suffix of its name
(`BuildStorageKey`; `Path(".pdf")` has none while the gate accepts the file).
`BeginErasure`, `EraseBlob`, `EraseRows` are `delete_account`.  `races` is chosen
once, in the initial state, out of `Windows`; each property says which windows it
does not survive, and is checked in all the others.  `abandoned` holds what a
crash or a failure of the store itself leaves behind.

### How `Posting`, `Shortlist` and `Ranking` correspond to the code

* `Posting`: a request reads the row in one step and commits in another; `Status`
  and `Stamp` write a column only when it differs from what was read.  An
  application is `AskApply` (the posting is public) and `Insert` (the lookup, the
  INSERT and the unique pair).  `moves` counts commits and is the clock.
* `Shortlist`: `rows` are the requirements; an edit holds the rows it loaded
  (`Load`), and adds, patches or deletes by them.  A judging takes the specs in
  order (`RequirementSpecs`), asks up to `MaxAttempts` times and records the
  fingerprint of what it asked.  `version` is the version of the prompt.
* `Ranking`: a question stands for kind and label, which is what the fingerprint
  covers, with the position; weight and `must_have` are outside it.  `Rank` counts
  what comes before in the sort key where the code numbers the sorted list; the
  two agree because the key ends in the id, which `RanksHaveNoTies` proves to leave
  no ties.

### How `Evidence`, `ReadingOrder` and `Documents` correspond to the code

* A text is a sequence of characters out of a handful: letters, a space, a line
  break, U+0000, and a letter that composes with a mark.  Offsets are the code's.
  `Collapsed` and `Stripped` carry, as `_IndexedText` does, the source offset of
  each character, and `Via` maps both ends of a match back.  Every filter of the
  code is `Picked`: the characters at some places, in their order (`Ordered`).
* `Joined` and `SpansOf` are the one join of the code, with a separator, and where
  each text then is: of the pages of a document, the regions of a page and the
  lines of a region.  `Stretches` is the loop that either extends the last of its
  groups or opens another: rows in a band, bands in a column, characters in a run,
  and what is left of a run when characters have gone from it.
* A page is a set of words with boxes, in the units of a small grid; `Bands`,
  `Gutter`, `Merged`, `BoxesOf` cut it, `Clamped` holds the regions to the page, and
  `Crop` reads what overlaps a box, as pdfplumber's does.
* `Documents`: the stages of `process_resume`.  OCR has a budget of pages, may
  fail for a page, return noise, or be unavailable, which ends the run.
  `Assembled` normalises, strips, joins, spans and remaps in the code's order.
  `Ask` verifies each claim of an answer and keeps the best attempt.  A second
  run may come with another OCR configuration.

### How `ProgressStream` corresponds to the code

`Report` is a turn of `_resume_events`: it reads the row, writes a `status` frame
if the payload changed, and `done` or `timeout` if that ends it; `ReportGone` finds
no row.  `wire` is what was written and not yet read.  `page` is `waitForProfile`:
`TakeFrame`, then `ReadRow` and `ReadProfile` (the two queries of
`_owned_resume`), or the same two in `pollForProfile`.  `ConnectionBreaks` loses
the wire.  The resume moves by every action of `ResumeJob`, or, in `ApiProcess`, by
those of `DatabaseQueue`: one event loop has both, so a turn of either may come
between any two of the other, and a process that dies is `ProcessDies` followed by
`ConnectionBreaks`.

## 3. Runs

| Run | Question | Result |
|---|---|---|
| `ArqQueueLive` (`MCArqQueue`) | Two job slots, a retry, an upload and the sweep on one row under arq: dispatch by job id, redelivery, the result's hour and arq's try counter, with workers that may die or be cancelled at any point, while no live run outlasts the visibility timeout. Runs never overlap, finished work stays finished and backed, every claim given up on costs one strike, the row implements WorkItem; only arq's counter takes a waiting row's last dispatch, and unless it cuts in every resume comes to rest. | `TypeOK`, `AtMostOneRun`, `ProfileIsKept`, `ExtractedIsBacked`, `GivingUpCostsOne`, `ImplementsWorkItem`, `DispatchIsKept`, `EveryResumeSettles`: holds |
| `ArqLimit` (`MCArqQueue`) | With the deployed budget and max_tries: jobs that keep their tries while the row's failures are reset reach arq's limit first, and the row is left pending with nothing to run it. | `PendingIsDispatched`: violated by the code (a finding) |
| `ApiProcess` (`MCApiProcess`) | One process polls the database for work, sweeps and serves a page that waits for the resume, while a request retries it, its owner erases it and the process or a connection may die at any point: no pending row is out of the poll's sight, every row comes to rest, the wait ends, what the page shows only moves forward, and an extracted answer has its profile. | `AnswerHasItsProfile`, `PendingIsDue`, `WaitEnds`, `PageNeverGoesBack`, `EveryRowSettles`: holds |
| `ScreeningTimely` (`MCScreeningJob`) | Two requests for a screening, a decider, two postings and a run that is given up on, no transaction overtaking another between its read and its commit: the application and its screening stay in step, the log replays to the state, a verdict has its result and a decision is final. | `InStep`, `LogReplays`, `ScreenedHasResult`, `TerminalStands`: holds |
| `ScreeningLive` (`MCScreeningJob`) | A request, a screening of the recruiter's own and a decider who may commit at any point beside them, with workers that die: every screening that was asked for ends, the log never holds a move the rules forbid even where a decision slips between the plan of a move and its place in the log, and application and screening part only at a commit that overtakes another. | `EveryEventWasLegal`, `ScreeningEnds`, `PartOnlyByOvertaking`: holds |
| `SessionRenewal` (`MCBrowserSession`) | A browser tab with two calls at once and a script on one account, signing in and out, renewing, changing the password, erasing, with answers lost and tokens expiring: no session outlives the password it rests on, and no refusal ends a session that could still be renewed. | `LiveRestsOnPassword`, `RefusalMeansOver`: holds |
| `AnyCallers` (`MCLateTokens`) | Two requests at once by any callers, each presenting any token of one account, with renewals, sign-outs, erasure, expiry and purge overlapping as they like: a token that was spent or signed out before a request was sent buys that request nothing. | `SpentBuysNothing`, `SignedOutBuysNothing`: holds |
| `UploadErasure` (`MCUploadErasure`) | Two uploads of two documents, their crashes and failures at every step, and an erasure, in a store no transaction spans: rows have their objects, objects have their rows, and one upload of several identical ones creates the resume. | `RowHasItsBlob`, `BlobHasItsRow`, `OneCreated`: holds |
| `Posting` (`MCPosting`) | Two administrators, the owner and an applicant, with two requests at a time that decide on what they read and commit later: publication stays the administrators', with its date, and an application stays what was answered 201. | `PublishedHasDate`, `AppliedAfterPublication`, `CreatedStands`, `OnlyAdminPublishes`: holds |
| `Shortlist` (`MCShortlist`) | The requirements of a posting are edited by two requests at once while two candidates are judged by them and the prompt is replaced: what is ranked answers the questions as they are now, beside the right one, in a total order, and an edit of a weight costs no judging. | `RankedAnswersItsQuestion`, `RanksAreTotal`, `WeightsAreFree`: holds |
| `Documents` (`MCDocuments`) | Documents of one and two pages, among them every page of four words on a small grid, through reading order, OCR, normalisation, joining and two answers of the model, with failures and a second run: every claim quotes the stored text where it says, on its page, the boxes lie under it, and a page is listed as unread or as OCR's exactly by the text stored for it. | `EvidenceIsVerbatim`, `NothingFoundIsMissed`, `CitedOnItsPage`, `BoxesLieUnderTheirText`, `WorkListIsHonest`, `EachWordReadOnce`: holds |
| `DocumentsNormal` (`MCDocuments`) | A page whose letter and combining mark are separated by U+0000: the text that is stored is not in the normal form its offsets are promised in. | `TextIsNormal`: violated by the code (a finding) |

"Holds" means TLC explored the whole state space of the instance.  A property
"violated by the code" is stated by a comment or a document of the repository; the
finding in `PROJECT.json` quotes it and says what the trace shows.

Each module states a type invariant.  `ResumeJob`'s is a property of a run; all of
them are proved.

### The bounds, and why they are enough

* *One row.*  No code path of `ResumeJob`, its queues or `ScreeningJob` reads two
  resumes or two screenings and decides from both, so rows do not interact.
  `Shortlist`, where they do (a ranking), has two.
* *Two of a kind.*  The races are between pairs: a run and the sweep, a run and its
  replacement, a request and a run, two requests for one screening, two uploads of
  one content, two administrators, two editors, two calls of a tab.  The theorems
  have no such bound.
* `MaxAttempts = 2`: the smallest budget with both outcomes of a retryable failure.
* `MaxClaims` 3 or 4 leaves room for a whole budget, and one claim after it.
  Liveness is stated "or the bound is reached" under arq, where deliveries
  left over may go on claiming a dead letter as often as there are any, and "or
  arq's own counter cuts in", which is the finding of `ArqLimit`.
* `MaxEvents` 5 is applied, screening, an outcome and a decision, with one move to
  spare; `ScreeningLive` has 9, so that the bound never stops a run it waits for.
* `Postings`: two fingerprints are enough to tell a current result from a stale one.
* `ScreeningTimely` shuts the four windows of `Races`, since `InStep`, `LogReplays` and
  `TerminalStands` are what holds when no transaction overtakes another.
  `ScreeningLive` opens `"log"`, the one in which a decision is lost, and checks what
  survives it; with all four open (and `MaxClaims = 2`, `MaxEvents = 4`, without
  `ScreeningEnds`) TLC finds the same of `EveryEventWasLegal` and
  `PartOnlyByOvertaking`, which are proved for every instance.
* `ApiProcess`: one consumer, as the process starts one, one page and a request that
  retries; three claims are a whole budget and one claim after it.
* `AnyCallers`: two slots, whose requests overlap in every way, present any of three
  pairs: one, what it buys, and a log-in's of its own.  One password: a change of it
  is `SessionRenewal`'s.  All windows are open.
* `SessionRenewal`: three pairs are a log-in, a renewal and its successor (or a
  change of password); one tab with two calls is what single flight is about; the
  script is the rival that shares none of it.  `Asked` (`Asks` in the MC module)
  bounds what the users ask: the browser signs in and out and erases, the script
  changes the password and renews.
* `UploadErasure`: two documents, two names whose keys differ, two uploads, and the
  windows in the pairs `{names, erasure}` and `{twins, doubt}`: every property is
  checked with the windows it survives open and with those it does not survive.
* `Posting`: four moves are a publication, two that take it back and one more.
* `Shortlist`: two questions, two stakes, three rows, two edits and two judgings: a
  requirement can be replaced while a judging is under way, and judged again.
  `MaxVersion = 2` is one change of prompt.
* `Documents`: two pages of ten kinds (columns, a scan, noise, U+0000 in the middle
  of a word, between a letter and its mark, and where it carries a page over the bar, a composed letter, an untrusted text
  layer, an empty page), and every page of four words out of a grid; seven quotes,
  among them across a page, with other white space, and of what is not there.
  The thresholds are scaled to the grid (`MinWords`, `RowTolerance`,
  `MinSideShare`) or to short texts (`MinQuoteChars`, `MinStrippedChars`).
* Symmetry is declared only in runs without liveness properties.

### Fairness

* A worker that is up goes on with what it holds and takes what is delivered (weak
  fairness of `Work`, `Deliver`, `Poll`, `Start`): nothing in the loops waits for
  another actor.  Dying is always possible and never forced.
* Time passes (`TimeoutPasses`) and the sweep runs every minute (`Reclaim`, weak
  fairness; `arq`'s cron and the loop of `database_queue.py` both re-arm it).
* In `ScreeningLive` the sweep's transaction and the consumer's claim get strong
  fairness: an attempt may die or lose its place in the log, and the next one, a
  minute later, is a new attempt of the same step, so the assumption is that not
  every attempt fails.
* Requests, uploads, decisions, edits, failures and deaths get none.
* `WatchFairness`: the generator takes its turns (`StreamStep`, every second) and meets
  its deadline (`Report(TRUE)`: the row stays in flight only as long as it does),
  the page reads what has arrived (`PageStep`) and its clock runs
  (`PollRunsLate`).  `WatchSpec` has no other, `ApiSpec` adds
  `DbFairness`: both loops of the process go on.
* The wake-up a request owes the database queue gets none either: it is an
  optimisation there, and the property holds without it.  (The sweep's own call
  does return, or the loop would not come round again.)  Under arq the enqueue
  is the only thing that starts a run; `DiesOwing = FALSE` says it is not lost.

## 4. Proofs

The `*_proofs` modules hold for every number of workers, requests, sessions and
accounts, every budget and every bound; they assume the named assumptions on the
constants and nothing else.

* **`TypeCorrect`** (`ResumeJob_proofs`, `ScreeningJob_proofs`): the type invariant,
  action by action.
* **`ExtractedBacked`**, whatever the timing.  `ExtractedIsBacked` alone is not
  inductive: a stale copy flushed over a newer row leaves unchanged columns out, so
  what is needed is that a copy that has the text is of a row that has it
  (`BackedInv`).  Then neither a write nor an omitted column can lose the text.
* **`Timely`**, under `SlowWorkers = FALSE` and `RetryRaces = FALSE`.  `TimelyInv`
  says that a run that works holds the row: the row is `processing`, not stale, and
  has the run's attempt number and failure count; and that a request about to
  retry read a row worth retrying.  **`OneRunAtATime`** and
  **`FinishedStaysFinished`** are conjuncts of it, **`GivingUpIsCounted`** follows
  step by step from it, and so does **`ResumeIsAWorkItem`**: initial states map to
  initial states and each action to `Take`, `Succeed`, `Refuse`, `Strike`,
  `Vanish`, `Replay`, `Remove` or a stutter.  The holder of the item is the one
  working run, which is why the mapping needs the invariant.
* **`LogHoldsLegalMoves`**, whichever windows are open.  `EveryEventWasLegal` is about
  the log alone; `LogInv` adds that a session which has read the application has read a
  state the log has come to, and plans a legal move from it.  The unique position is
  all that keeps the events in a line.  With the window `"log"` open an event need not
  start where the last one ended (section 5), so `LogReplays` and `TerminalStands`
  are claims about sessions that do not overtake, and are left to TLC.
* **`ScreenedRestsOnResult`**, whatever the timing.  `ResultInv` says that a copy
  never has what the row lacks, that a change to be committed which says
  `screened` carries a result, and that at most one insert is open.
* **`PublicationIsDated`**, **`ApplicationsFollowPublication`**, **`CreatedIsKept`**,
  **`AdminsPublish`** (`Posting_proofs`), for any administrators,
  applicants, documents and requests.  None of the four is inductive alone, since
  every request acts on a row it read earlier.  `PostingInv` adds what such a request
  may rely on: a decided move is one its author may make, and the date it read has
  not been taken back (`DecisionHolds`); an application under way is to a posting that
  has a date (`LookupHolds`); and whoever was answered 201 has an application as long
  as the posting exists (`CreatedHolds`).
* **`RowsKeepTheirBlobs`**, **`NoBlobIsStranded`**, **`OneUploadCreates`**
  (`UploadErasure_proofs`), for any contents, names and uploads, and for any
  `Windows`: each part of `UploadInv` names the windows it does not survive.  An
  upload that cleans up has the bytes to itself (`CleansUpAlone`); the rows it races
  with have its own key (`OneName`, `RowIsItsOwn`); an erasure that works has no
  upload beside it and a key for every object that is still there (`ErasesAlone`);
  and an object is either a row's or that of an upload past its put (`BlobIsOwned`).
* **`SessionsRestOnPassword`** (`BrowserSession_proofs`), under
  `"change" \notin Races`, for callers that send anything at any time.
  `SessionInv` says that a pair of the account's epoch was issued under the
  account's password and none is of a later epoch (`PairsFollow`), that a request
  which has read the account came with a pair there is, and once checked with one of
  the epoch of its copy (`CopiesFollow`), on which what it issues rests, and that
  one change of the password is under way at a time (`ChangesAlone`), so that the
  epoch it counts up from is the account's.  **`DevicesRestOnPassword`** carries it
  over to browsers, tabs and scripts: each of their steps is a request sent, an
  answer read, or a step of the server.
* **`SpentTokensBuyNothing`**, **`SignedOutTokensBuyNothing`** (`BrowserSession_proofs`, of
  `LateTokens`), for any callers, with no window shut.  Single use in the strict sense
  is false, since two uses may overlap (section 5); what the
  denylist does promise is about requests sent after the commit that gave the token
  up.  `LateInv` says that a token with an heir, or of a sign-out, is denied: it is in
  the denylist, has expired, or its account has gone (`HeirsDeny`, `SignOutsDeny`);
  that once denied it stays so, because the purge takes only what has expired
  (`Barred`); and that a late request that gets past the denylist presents a token
  that is worthless by itself (`LateIsWorthless`).
* **`RefusalsMeanOver`**, for any number of browsers of one tab, calls and scripts, with
  `"change"` and `"signout"` shut.  `HandInv` says whose slot a request is in
  (`SlotRoles`) and that what is held was minted; `AloneInv` that a sign-out has its
  browser to itself; `OverInv` that a tab's renewal presents what the browser holds and
  is refused only for a pair that is over.  The hypotheses are the windows that section 5
  shows to break the property.
* **`PartedOnlyByOvertaking`** (`ScreeningJob_proofs`), whichever windows are open.
  `InStep` relates two columns that one transaction writes after reading them in two
  steps, and the four windows let it be broken; the theorem says that nothing else
  does.  `Overtaking` names the steps: a commit of what was planned from an application
  or a screening that have moved on (`CommitsStale`), a failure recorded over a
  finished screening (`FailsFinished`), a run of one that nobody put back
  (`RunsAgain`), and an application made after its screening was asked for
  (`AppliesLate`).  `PlansFit` says of each session between its read and its commit
  that its plan is the one the table of moves gives for the state it read, so that a
  commit on rows that are as they were read leaves both in step.
* **`ArqImplementsResumeJob`**, **`PollingImplementsResumeJob`** (`QueuesAndStream_proofs`):
  both queues are schedules of `ResumeJob`.  Its theorems therefore hold under
  either, and the queues' own proofs start from `TypeCorrect` and `Timely`.
* **`DispatchesAreKept`**, **`DispatchedWithinTries`**, without slow workers, retry
  races and deaths that owe an enqueue.  `PendingIsDispatched` itself is false
  (`ArqLimit`): arq counts tries per job id, and a row can outlive the tries of the
  job that carries it.  What holds is that no *other* step loses the last dispatch,
  and that arq's counter cannot cut in before the row was claimed `max_tries` times.
  The invariant is `ArqInv`: a run works for one job that arq has as running
  (`TaskInv`), and every id arq knows, or is about to be given, lies behind the
  row's counter or is the row's own (`JobsBehind`), so that no kept result refuses
  the next enqueue; no job was tried oftener than the row was claimed.
* **`PendingIsAlwaysDue`**: the poll has a window for every count of failures that a
  pending row can have (`BudgetLeft`).
* **`PageOnlyGoesForward`**, **`AnswersHaveProfiles`** (`QueuesAndStream_proofs`), with
  no assumption on timing.  A payload has an `Age`, the moment of the row it was
  taken at.  `InOrderInv` puts everything that is under way in order: the page is not
  ahead of the wire (`PageBehindWire`) or of the read it is in (`PageBehindRead`), the
  wire is in order (`WireInOrder`), and all of it is behind the row (`BehindRow`).
  `AnswersHaveProfiles` needs `ExtractedBacked` from `ResumeJob_proofs`.
* **`VerdictsAnswerTheirQuestions`**, **`RanksHaveNoTies`**, **`WeightEditsAreFree`**,
  **`ScoreIsAShare`** (`Shortlist_proofs`), for any finite set of screenings and any
  requirements.  A finite set has no recursion to lean on here, so the lemmas about
  operators come from `FiniteSubsetInduction`, which has a *set* of good subsets where
  induction has a predicate and follows from the well-foundedness of the strict
  subset order: the members of a strictly ordered finite set are in bijection with
  their ranks (`RanksOfAnOrder`), and the library's fold of weights is a sum, whichever
  member it takes first (`AnyMayComeFirst`), so that a part weighs no more than the
  whole (`SumsGrow`).  `RequirementSpecs` puts every row at the place it counts itself
  at (`SpecsOfATable`), and so depends on positions and questions alone as far as the
  fingerprint goes (`AskedTheSame`).  `JudgedInv` carries the claim from the specs a
  run took, through the attempt it keeps, to the fingerprint recorded beside the
  judgment; with equal fingerprints the questions are equal place by place.
* **`EvidenceIsQuoted`**, **`FabricationsAreAbsent`**, **`CitationsNameTheirPage`**,
  **`WorkListHolds`** (`Documents_proofs`), for any uploads, recognised texts, answers
  and thresholds, of texts over any characters.  They rest on three theorems about
  operators.  `ResolvedIsPinned`: the collapsed and the stripped copy keep every solid
  character in order, so that a match in a copy, mapped back through the offsets, has
  the same solid characters as what was matched (`WindowsAgree`), and two texts with
  the same solid characters are one text without their spaces (`SameSolid`).
  `RejectedIsAbsent`: a part of a text, without its white space, is a part of the
  stripped text (`PartsStayTogether`), where the last tier looks.  `PagesLieInTheText`:
  the pages lie in the joined text at the offsets that `Spans` counts; the two
  recursive functions are unfolded by an induction over the numbers which, like
  `FiniteSubsetInduction`, has a set where the library's has a predicate
  (`NumbersByInduction`), and between two pages there is white space, which is why an
  offset of a solid character belongs to exactly one (`SolidOffsetHasItsPage`).
  `DocInv` says that the row's offsets and its profile belong to the text the row holds
  now: a second run drops the profile before it fills the columns again.  Two of
  the properties, and the half of `CitedOnItsPage` about claims, speak of texts in
  normal form (`TextIsNormal`), since the code does not always store one
  (`DocumentsNormal`).  `WorkListIsHonest` speaks of the text that is *stored*, which
  is what the report is made from: its proof follows each page through OCR
  (`PagesAccounted`) and finds its text again in the slice of the joined text
  (`SlicesAreThePages`, `ListsAccounted`).  That the pages picked for OCR are judged by
  the same rule is false (`OneRuleForBoth`, section 5).
* **`EachWordIsReadOnce`** (`Documents_proofs`), for pages with any finite set of words
  and any edges.  The property itself says of which pages it speaks: of those whose
  rows do not reach into each other (`RowsApart`; without it the code does read a word
  twice, section 5, `layout.py:263`) and whose words take up room on the page
  (`OnPage`).  A loop that extends its last group or opens another cuts what it runs
  over into stretches that neither overlap nor leave anything out (`StretchesCut`).
  So the rows hold every word once (`RowsAreRowed`), and so do the groups of rows
  (`GroupsHoldTheWords`), which lie one above the other (`GroupsAreApart`) on either side
  of the boundary between them (`BandsSplit`).  No word of a band is in its gutter
  (`GutterIsClear`), nor in the gutter that a merged band has left, whichever bands it
  was gathered from (`MergedIsGathered`).  A word is then in exactly one of the regions
  (`InOneBox`, `InNoBox`, `InOneRegion`), and clamping the regions to the page takes no
  word from them (`ClampedHoldsTheSame`).
* **`BoxesAreUnderTheirText`** (`Documents_proofs`), for any uploads.  `RunsOver` says of
  the runs of a text that they lie in it, and that each of their boxes shows
  the character it is over.  Runs are made so (`RunsForIsOver`) and stay so through
  everything the code does to a text afterwards: the joins of lines and regions, which
  shift them (`ShiftStaysOver`, `InOrderIsOver`, `TextOfIsOver`); the characters that
  normalising composes and that storing drops, where a run is split and its offsets
  counted anew (`KeptTogether`, `RemapStaysOver`); and the join of the pages
  (`RebasedIsOver`).  `InkInv` adds to `DocInv` that the boxes of a page read lie over
  the text it was read with, and those stored over the text stored, and that a page
  that OCR has rewritten has none (`InkLies`, `StoredInkLies`).

`Joined`, `SpansOf`, the tops of rows and the common gutter are recursive functions.
That they are what their equations say (`JoiningIsDefined`, `StepsDefine`,
`SoFarIsDefined`) is proved by `NumbersByInduction`, and `JoinedIsLaid`, where the texts
lie in a join, serves the pages, the regions and the lines alike.  Of the geometry the
proofs assume that an upload is made of finite sets of words with integer boxes
(`DocumentsAssumption`, `IsPage`) and that `RowTolerance` is a natural number.

Only model-checked: the liveness properties (`EveryResumeSettles`, `EveryRowSettles`,
`ScreeningEnds`, `WaitEnds`), which are out of the prover's reach with their fairness;
and `InStep`, `LogReplays` and `TerminalStands`, which hold only with windows shut that
the code leaves open, so that a theorem would assume what it is about: what is proved
in their place, with the windows open, is `PartedOnlyByOvertaking` and
`LogHoldsLegalMoves`.  Every other property of a passing run is stated by a theorem.

## 5. What the models show about the code

Two findings have a run of their own, and `PROJECT.json` describes each with the text
of the repository it is against:

* `ArqLimit`: arq's counter is kept per job id and cuts in although `max_tries` is
  above the budget.
* `DocumentsNormal`: U+0000 is stripped after normalisation.

The following disagreements are each stated by a definition of the models; TLC shows
each violated after the change of a cfg that is named.  None of them is a property of
a passing run or of a theorem.

* `DeadLetterNeedsDecision`.  `jobs.py:166` dead-letters a row "so a human can replay
  it", and `resume_service.py:138-140` wants that to be "a decision rather than a side
  effect".  `_claim` refuses `extracted` and `processing` only, so a dispatch of arq's
  that was left over claims a dead letter: a worker claims by job 0 and dies, the sweep
  charges a strike and owes job 1, job 0 is delivered again and spends the budget, and
  job 1 finds a dead letter.  An upload of the same file while its retry is deferred
  leaves a dispatch over too, the row's counter being one past the id arq holds
  (`resume_service.py:144`).  *Add it to `PROPERTIES` of `ArqQueueLive.cfg`.*  Two
  processes that poll one database do the same: both read the row as due, one runs it
  to a dead letter and the other claims that (`database_queue.py:81`).  *Declare a
  second worker in `ApiProcess.cfg` and check it there.*
* `LogReplays`, `TerminalStands`.  `application_service.py:206-208` says that "a candidate
  who withdrew mid-screening has said something the worker does not get to overrule".
  A withdrawal that commits between a transaction's read of the application
  and its read of the log's last position is written over (`application_service.py:147`).
  *`Races = {"log"}` in `ScreeningTimely.cfg`.*
* `OneHeirPerRefreshToken`.  `src/README.md:146` calls a refresh token "genuinely
  single-use", as does `web/lib/auth.ts:223`.  Two tabs that renew at once both pass
  the denylist before either commits (`token_service.py:82`), and a request that
  was decoded before its token expired reads the denylist after the purge
  (`token_service.py:144`).  *`Tabs = {1, 2}`, or `Races = {"purge"}`, in
  `SessionRenewal.cfg`, with it among the invariants.*
* `SignedOutStaysOut`.  `models/auth.py:1` calls the denylist "the thing that makes a
  signed-out session actually signed out".  A renewal under way beside a sign-out
  hands out a pair nobody revoked (`routes/auth.py:279`).  *`Races = {"signout"}` in
  `SessionRenewal.cfg`.*
* `StampedOnce`.  `routes/jobs.py:271-273` says "Stamped once and never again".  Two
  administrators who publish at once both find no date, and the second commit
  replaces the first one's.  *Add it to `PROPERTIES` of `Posting.cfg`.*
* `OneRuleForBoth`.  `parse.py:56-57` says that the pages for OCR and the pages reported
  "can never disagree".  The first are picked by the text as extracted, the second by
  the text as stored: a page that clears the bar only before U+0000 is taken out is
  passed over by the engine and then reported as unread (`parse.py:422`).  *Add it to
  `INVARIANTS` of `Documents.cfg`.*

Timing windows that the code leaves open, and what each costs:

* `SlowWorkers = TRUE` in `ArqQueueLive.cfg`: `ProfileIsKept`.  `jobs.py:625-627`
  says a slow run is only wasted work because the fresh dispatch sees `extracted`;
  when the fresh dispatch claims first, its failure is written over `extracted`.
* `RetryRaces = TRUE` there: `AtMostOneRun` and `GivingUpCostsOne`.  `requeue`
  leaves a strike in place that the sweep counts between the request's read and its
  commit (`resume_service.py:155`), and two retries of one dead letter that both
  pass `can_retry` run it twice under the inline queue (`routes/resumes.py:349`).
* `Races` with any of its four in `ScreeningTimely.cfg`: `InStep`, in the steps that
  `Overtaking` names.
* `Windows` with `names` or `erasure`: an object is left with no row
  (`BlobHasItsRow`); with `twins` or `doubt`: the cleaning up after a failed commit
  takes the object of a row that exists (`RowHasItsBlob`), and uploading the bytes
  again hands that row back.
* Two tabs in `SessionRenewal.cfg` (`Tabs = {1, 2}`): both renew with one refresh
  token, and where the second comes late it signs the browser out
  (`RefusalMeansOver`).  `Races` with `"change"`: two changes of password end
  on one epoch, and a pair of the first outlives the second
  (`LiveRestsOnPassword`); with `"signout"`: a call in flight ends a session that has
  just been renewed (`RefusalMeansOver`).
* Two additions of a requirement that overlap both count before either writes: the
  posting ends with one requirement more than `MAX_REQUIREMENTS_PER_JOB`
  (`routes/jobs.py:350`), at one position.  `Shortlist` lets them.

Comments the code does not keep, seen on the models or while reading:

* `WithdrawAndApplyAgain` (in `Posting`): `application_service.py:59` advises to
  withdraw and apply again; `apply` hands the withdrawn row back.
* `SignOutRevokes` (in `BrowserSession`): a sign-out answered 401, because the
  access token had expired, leaves the refresh token in the jar alive.
* `AbandonedErasureChangesNothing` (in `UploadErasure`): an erasure stopped by the
  store half-way has removed the objects it got to.
* A retry after a model failure parses the document again: `process_resume`
  (`resume_service.py:192`) does not look at the stored text, although
  `jobs.py:245` says that a retry "skips straight to extraction".
* `layout.py:263` says nothing can be read twice: a word taller than its row that
  reaches into the next band is (drop `RowsApart` from `EachWordReadOnce`).
* `_count_occurrences` counts without overlap, so a quote that is in the text twice,
  overlapping itself, counts as unambiguous.
* `waitForProfile` may return an answer that is not settled, when a retry lands
  between `done` and the profile's two reads.
* An application made after its screening was requested is created at `applied`
  and stays there until the screening next changes; `InStep` is therefore checked
  with `OwnResume = FALSE`, where a screening follows an application.
* `applications.py:170-175` calls its evidence guard unreachable; a re-queue that
  commits between the route's two reads reaches it.

## 6. Not modelled, and why

* `pipeline/retrieval.py`: scores are sums of floats; no state.
* The model providers, prompts and schemas (`llm/*`, `pipeline/prompts.py`,
  `schemas/*`): calls out and shapes.  What they raise is in `RetryPolicy`, a change
  of prompt in `Shortlist`.  The libraries that read PDFs and recognise pages are
  external: `ReadingOrder` and `Documents` take words and texts as their output.
* Reads: metrics, exports, receipts, listings, the demo and the command line.
* Deletion of a screening's job, resume or account while it runs (deletion is in
  `ResumeJob`, `Posting` and `UploadErasure`), and a second resume of the same
  candidate on one posting.
* Registration, roles and the hashing of passwords: decisions on one read.
* The delay of a backoff, and clocks: `stale`, `Due` and a pair's `age` abstract them.
* Configuration, migrations, deployment; the pages of the web client.

## 7. Plan

What is left, in this order:

1. An abstract specification of a posting and its applications that `Posting`
   implements, as `ResumeJob` implements `WorkItem`; one of the denylist that
   `LateTokens` implements.
2. Lemmas on the application's log: what `Replay` makes of an appended event.
3. A second resume of one candidate, and erasure, under `ScreeningJob`.
