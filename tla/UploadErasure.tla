---------------------------- MODULE UploadErasure ----------------------------
(***************************************************************************)
(* The documents of one account in two stores that no transaction spans:   *)
(* the rows of `resumes` and the objects of the bucket.  Uploads           *)
(* (routes/resumes.py, resume_service.ingest_resume, storage.py) write the *)
(* object and then the row; an erasure (privacy_service.delete_account)    *)
(* removes the objects and then the rows.                                  *)
(***************************************************************************)
EXTENDS Naturals

CONSTANTS
    Contents,   \* the bytes of documents
    Names,      \* what the file may be called: "cv.pdf", or ".pdf" and no more
    Uploads,    \* requests that may be in progress at once
    NoKey,      \* no storage key
    Windows     \* the combinations of races that a behaviour may have

VARIABLES
    races,      \* which windows are open, see Races
    account,    \* the candidates row exists
    row,        \* row[c]: storage_key of the row with content_hash c
    blobs,      \* the keys that have an object
    up,         \* up[u]: one upload
    erasing,    \* an erasure: whether it runs, and the keys it has left
    erased,     \* the keys whose object an erasure has removed
    abandoned   \* keys left behind by a crash, or by a store that failed

uploadVars == <<races, account, row, blobs, up, erasing, erased, abandoned>>

Keys == Contents \X {"", ".pdf"}

\* The races that break a promise of the code.  A behaviour has those of one
\* of Windows, and a property names the ones it does not survive.
\*   names    the same bytes uploaded at once under names with other keys
\*   twins    a commit that fails while the same bytes are uploaded once more
\*   doubt    a COMMIT that took effect although its connection went down
\*   erasure  an upload in progress while the account is erased
Races == {"names", "twins", "doubt", "erasure"}

ASSUME UploadAssumption ==
    /\ Names \subseteq {"cv.pdf", ".pdf"} /\ Names # {}
    /\ NoKey \notin Keys
    /\ Windows \subseteq SUBSET Races

\* build_storage_key: Path(".pdf").suffix is empty, while suffix_of(".pdf"),
\* which the gate of upload_resume reads, is ".pdf".
BuildStorageKey(c, name) == <<c, IF name = ".pdf" THEN "" ELSE ".pdf">>

Upload == [pc: {"idle", "lookup", "put", "commit", "cleanup", "lost", "answered"},
           content: Contents, name: Names, answer: {"none", "created", "existing", "failed"}]

UploadTypeOK ==
    /\ races \in SUBSET Races
    /\ account \in BOOLEAN
    /\ row \in [Contents -> Keys \cup {NoKey}]
    /\ blobs \in SUBSET Keys
    /\ up \in [Uploads -> Upload]
    /\ erasing \in [on: BOOLEAN, left: SUBSET Keys]
    /\ erased \in SUBSET Keys
    /\ abandoned \in SUBSET Keys

NoErasure == [on |-> FALSE, left |-> {}]

UploadInit ==
    /\ races \in Windows
    /\ account = TRUE
    /\ row = [c \in Contents |-> NoKey]
    /\ blobs = {}
    /\ \E c \in Contents, name \in Names :
         up = [u \in Uploads |-> [pc |-> "idle", content |-> c, name |-> name, answer |-> "none"]]
    /\ erasing = NoErasure
    /\ erased = {}
    /\ abandoned = {}

-----------------------------------------------------------------------------
(* An upload.                                                              *)

At(u, pc) == up[u].pc = pc
Key(u) == BuildStorageKey(up[u].content, up[u].name)
InProgress(u) == up[u].pc \notin {"idle", "answered"}
SameBytes(u) == {v \in Uploads \ {u} : InProgress(v) /\ up[v].content = up[u].content}

Goto(u, pc) == up' = [up EXCEPT ![u].pc = pc]
Answer(u, a) == up' = [up EXCEPT ![u].pc = "answered", ![u].answer = a]

\* upload_resume past its gate, for a caller whose account it has read.
Begin(u, c, name) ==
    /\ ~InProgress(u)
    /\ account
    /\ "erasure" \in races \/ ~erasing.on
    /\ "names" \in races \/ \A v \in Uploads : InProgress(v) /\ up[v].content = c => up[v].name = name
    /\ up' = [up EXCEPT ![u] = [pc |-> "lookup", content |-> c, name |-> name, answer |-> "none"]]
    /\ UNCHANGED <<account, row, blobs, erasing, erased, abandoned>>

\* find_by_content: the same bytes are the same resource.
Lookup(u) ==
    /\ At(u, "lookup")
    /\ "twins" \in races \/ \A v \in SameBytes(u) : ~At(v, "cleanup")
    /\ IF row[up[u].content] # NoKey THEN Answer(u, "existing") ELSE Goto(u, "put")
    /\ UNCHANGED <<account, row, blobs, erasing, erased, abandoned>>

\* storage.put replaces the object of the key, whole.
Put(u) ==
    /\ At(u, "put")
    /\ blobs' = blobs \cup {Key(u)}
    /\ Goto(u, "commit")
    /\ UNCHANGED <<account, row, erasing, erased, abandoned>>

\* It is outside the try: when it fails the object may be there all the same.
PutFails(u) ==
    /\ At(u, "put")
    /\ Answer(u, "failed")
    /\ \/ blobs' = blobs /\ abandoned' = abandoned
       \/ blobs' = blobs \cup {Key(u)} /\ abandoned' = abandoned \cup {Key(u)}
    /\ UNCHANGED <<account, row, erasing, erased>>

Inserted(u) == row' = [row EXCEPT ![up[u].content] = Key(u)]

\* uq_resumes_candidate_content, and the foreign key to the account.
CanInsert(u) == account /\ row[up[u].content] = NoKey

Commit(u) ==
    /\ At(u, "commit") /\ CanInsert(u)
    /\ Inserted(u)
    /\ Answer(u, "created")
    /\ UNCHANGED <<account, blobs, erasing, erased, abandoned>>

IntegrityError(u) ==
    /\ At(u, "commit") /\ ~CanInsert(u)
    /\ Goto(u, "lost")
    /\ UNCHANGED <<account, row, blobs, erasing, erased, abandoned>>

\* Mutants of LostRace: the loser cleans its object up, or believes it won.
LostRaceCleansUp(u) ==
    /\ At(u, "lost")
    /\ blobs' = blobs \ {Key(u)}
    /\ Answer(u, IF row[up[u].content] # NoKey THEN "existing" ELSE "failed")
    /\ UNCHANGED <<account, row, erasing, erased, abandoned>>
LostRaceCreated(u) ==
    /\ At(u, "lost")
    /\ Answer(u, "created")
    /\ UNCHANGED <<account, row, blobs, erasing, erased, abandoned>>

\* The winner's row is handed back, if there is one; the object stays.
LostRace(u) ==
    /\ At(u, "lost")
    /\ Answer(u, IF row[up[u].content] # NoKey THEN "existing" ELSE "failed")
    /\ UNCHANGED <<account, row, blobs, erasing, erased, abandoned>>

\* Mutant of CommitFails: the object is left where it is.
CommitFailsPlainly(u) ==
    /\ At(u, "commit")
    /\ Answer(u, "failed")
    /\ UNCHANGED <<account, row, blobs, erasing, erased, abandoned>>

\* Any other failure.  Where the connection went down during the COMMIT, it
\* may have taken effect.
CommitFails(u) ==
    /\ At(u, "commit")
    /\ "twins" \in races \/ (SameBytes(u) = {} /\ row[up[u].content] = NoKey)
    /\ Goto(u, "cleanup")
    /\ \/ row' = row
       \/ "doubt" \in races /\ CanInsert(u) /\ Inserted(u)
    /\ UNCHANGED <<account, blobs, erasing, erased, abandoned>>

Cleanup(u) ==
    /\ At(u, "cleanup")
    /\ Answer(u, "failed")
    /\ \/ blobs' = blobs \ {Key(u)} /\ abandoned' = abandoned
       \/ blobs' = blobs /\ abandoned' = abandoned \cup {Key(u)}
    /\ UNCHANGED <<account, row, erasing, erased>>

\* The process dies.
Crash(u) ==
    /\ InProgress(u)
    /\ Answer(u, "failed")
    /\ abandoned' = IF up[u].pc \in {"commit", "cleanup"} THEN abandoned \cup {Key(u)} ELSE abandoned
    /\ UNCHANGED <<account, row, blobs, erasing, erased>>

-----------------------------------------------------------------------------
(* The erasure of the account.                                             *)

\* delete_account lists the keys of the rows.
BeginErasure ==
    /\ account /\ ~erasing.on
    /\ "erasure" \in races \/ \A u \in Uploads : ~InProgress(u)
    /\ erasing' = [on |-> TRUE, left |-> {row[c] : c \in Contents} \ {NoKey}]
    /\ UNCHANGED <<account, row, blobs, up, erased, abandoned>>

\* storage.delete is idempotent: an object that is not there is no failure.
EraseBlob(k) ==
    /\ k \in erasing.left
    /\ blobs' = blobs \ {k}
    /\ erased' = erased \cup {k}
    /\ erasing' = [erasing EXCEPT !.left = @ \ {k}]
    /\ UNCHANGED <<account, row, up, abandoned>>

\* A StorageError, or a crash, abandons it: the rows are all there, the
\* objects as far as it got.
EraseBlobFails(k) ==
    /\ k \in erasing.left
    /\ erasing' = NoErasure
    /\ UNCHANGED <<account, row, blobs, up, erased, abandoned>>

\* The account goes, and the rows on the cascade.
EraseRows ==
    /\ erasing = [on |-> TRUE, left |-> {}]
    /\ account' = FALSE
    /\ row' = [c \in Contents |-> NoKey]
    /\ erasing' = NoErasure
    /\ UNCHANGED <<blobs, up, erased, abandoned>>

-----------------------------------------------------------------------------
UploadStep(u) ==
    \/ \E c \in Contents, name \in Names : Begin(u, c, name)
    \/ Lookup(u) \/ Put(u) \/ PutFails(u)
    \/ Commit(u) \/ IntegrityError(u) \/ LostRace(u)
    \/ CommitFails(u) \/ Cleanup(u) \/ Crash(u)

ErasureStep ==
    \/ BeginErasure \/ EraseRows
    \/ \E k \in Keys : EraseBlob(k) \/ EraseBlobFails(k)

UploadNext == (ErasureStep \/ \E u \in Uploads : UploadStep(u)) /\ UNCHANGED races

UploadSpec == UploadInit /\ [][UploadNext]_uploadVars

-----------------------------------------------------------------------------
(* Properties.                                                             *)

\* A row that the user was answered for has its document, unless an erasure
\* the user asked for took it: no upload's cleaning up after itself removes
\* the object of another's row.  A row without its object stays so, since
\* uploading the bytes again finds the row.
RowHasItsBlob ==
    races \cap {"twins", "doubt"} = {} =>
      \A c \in Contents : row[c] # NoKey => row[c] \in blobs \cup erased

\* "A failed request cannot strand an object no row points at", and an erasure
\* leaves none: an object belongs to a row or to an upload in progress, unless
\* a crash or a failure of the store itself left it.
BlobHasItsRow ==
    races \cap {"names", "erasure"} = {} =>
      \A k \in blobs \ abandoned :
        \/ \E c \in Contents : row[c] = k
        \/ \E u \in Uploads : InProgress(u) /\ Key(u) = k

\* Of identical uploads that race, one created the resume and the others are
\* told that it was there, so that nothing is queued and billed twice.
OneCreated ==
    \A u, v \in Uploads :
        u # v /\ up[u].answer = "created" /\ up[v].answer = "created"
            => up[u].content # up[v].content

\* "Nothing was deleted ... Nothing has changed": an erasure that is abandoned
\* leaves every document where it was.
AbandonedErasureChangesNothing ==
    [][\A c \in Contents :
         erasing.on /\ ~erasing'.on /\ account' /\ row[c] # NoKey => row[c] \in blobs]_uploadVars
=============================================================================
