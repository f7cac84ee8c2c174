------------------------ MODULE UploadErasure_proofs ------------------------
(***************************************************************************)
(* Theorems about UploadErasure, for any contents, names and uploads in    *)
(* progress, and for any windows.                                          *)
(***************************************************************************)
EXTENDS UploadErasure, TLAPS

-----------------------------------------------------------------------------
(* What holds between the two stores while uploads are under way.          *)

\* The pcs at which an upload has written its object.
Written == {"commit", "cleanup", "lost"}

\* A row's key is one of its own content.
RowKeys == \A c \in Contents : row[c] # NoKey => \E s \in {"", ".pdf"} : row[c] = <<c, s>>

\* An upload that is about to commit has its object.
WrittenIsThere ==
    races \cap {"twins", "doubt"} = {} =>
      \A u \in Uploads : At(u, "commit") => Key(u) \in blobs \cup erased

\* An upload that cleans up is alone with its bytes.
CleansUpAlone ==
    races \cap {"twins", "doubt"} = {} =>
      \A u \in Uploads : At(u, "cleanup") =>
        /\ row[up[u].content] = NoKey
        /\ \A v \in Uploads \ {u} :
             up[v].content = up[u].content => up[v].pc \in {"idle", "lookup", "answered"}

\* The same bytes go under one name at a time.
OneName ==
    "names" \notin races =>
      \A u, v \in Uploads :
        InProgress(u) /\ InProgress(v) /\ up[u].content = up[v].content
          => up[u].name = up[v].name

\* Past its lookup, an upload finds no row but one with its own key.
RowIsItsOwn ==
    "names" \notin races =>
      \A u \in Uploads : up[u].pc \in {"put"} \cup Written =>
        row[up[u].content] \in {NoKey, Key(u)}

\* An erasure has the account to itself, and leaves nothing out.
ErasesAlone ==
    "erasure" \notin races =>
      /\ \A u \in Uploads : InProgress(u) => account /\ ~erasing.on
      /\ \A u \in Uploads : At(u, "lost") => row[up[u].content] # NoKey
      /\ erasing.on => \A c \in Contents :
           row[c] # NoKey => row[c] \in erasing.left \/ row[c] \notin blobs

\* An object belongs to a row, or to an upload that wrote it.
BlobIsOwned ==
    races \cap {"names", "erasure"} = {} =>
      \A k \in blobs \ abandoned :
        \/ \E c \in Contents : row[c] = k
        \/ \E u \in Uploads : up[u].pc \in Written /\ Key(u) = k

\* Whoever was told 201 has a row, until the account goes.
CreatedHasRow ==
    \A u \in Uploads : up[u].answer = "created" =>
        /\ up[u].pc = "answered"
        /\ account => row[up[u].content] # NoKey

UploadInv ==
    /\ UploadTypeOK
    /\ RowKeys
    /\ RowHasItsBlob /\ WrittenIsThere /\ CleansUpAlone
    /\ OneName /\ RowIsItsOwn /\ ErasesAlone /\ BlobIsOwned
    /\ OneCreated /\ CreatedHasRow

-----------------------------------------------------------------------------
(* What a step of an upload leaves alone.                                  *)

USE UploadAssumption

Pcs == {"idle", "lookup", "put", "commit", "cleanup", "lost", "answered"}
Answers == {"none", "created", "existing", "failed"}

\* Upload u has gone to pc with an answer, and nothing else about uploads.
Moved(u, pc, answer) ==
    /\ up' \in [Uploads -> Upload]
    /\ up'[u].pc = pc /\ up'[u].answer = answer
    /\ \A v \in Uploads : v # u => up'[v] = up[v]
    /\ \A v \in Uploads : /\ up'[v].content = up[v].content
                          /\ up'[v].name = up[v].name
                          /\ Key(v)' = Key(v)

LEMMA KeyType ==
    ASSUME UploadTypeOK, NEW u \in Uploads
    PROVE  /\ up[u] \in Upload
           /\ Key(u) \in Keys /\ Key(u) # NoKey
           /\ \E s \in {"", ".pdf"} : Key(u) = <<up[u].content, s>>
           /\ \A c \in Contents, s \in {"", ".pdf"} :
                Key(u) = <<c, s>> => c = up[u].content
  <1>1. up[u] \in Upload
    BY DEF UploadTypeOK
  <1>2. up[u].content \in Contents
    BY <1>1 DEF Upload
  <1>3. PICK s \in {"", ".pdf"} : Key(u) = <<up[u].content, s>>
    <2>1. CASE up[u].name = ".pdf"
      BY <2>1 DEF Key, BuildStorageKey
    <2>2. CASE up[u].name # ".pdf"
      BY <2>2 DEF Key, BuildStorageKey
    <2> QED
      BY <2>1, <2>2
  <1>4. Key(u) \in Keys
    <2>1. \A c \in Contents, t \in {"", ".pdf"} : <<c, t>> \in Contents \X {"", ".pdf"}
      OBVIOUS
    <2>2. <<up[u].content, s>> \in Keys
      BY <1>2, <2>1 DEF Keys
    <2> QED
      BY <1>3, <2>2
  <1>5. \A c \in Contents, t \in {"", ".pdf"} : Key(u) = <<c, t>> => c = up[u].content
    <2> SUFFICES ASSUME NEW c \in Contents, NEW t \in {"", ".pdf"}, Key(u) = <<c, t>>
                 PROVE  c = up[u].content
      OBVIOUS
    <2>1. <<c, t>>[1] = <<up[u].content, s>>[1]
      BY <1>3
    <2> QED
      BY <2>1
  <1> QED
    BY <1>1, <1>3, <1>4, <1>5

\* One name, one key.
LEMMA SameName ==
    ASSUME UploadTypeOK, NEW u \in Uploads, NEW v \in Uploads,
           up[u].content = up[v].content, up[u].name = up[v].name
    PROVE  Key(u) = Key(v)
  BY DEF Key, BuildStorageKey

LEMMA MovedBy ==
    ASSUME UploadTypeOK, NEW u \in Uploads, NEW pc \in Pcs, NEW a \in Answers,
           up' = [up EXCEPT ![u] = [up[u] EXCEPT !.pc = pc, !.answer = a]]
    PROVE  Moved(u, pc, a)
  <1> DEFINE new == [up[u] EXCEPT !.pc = pc, !.answer = a]
  <1>1. up \in [Uploads -> Upload] /\ up[u] \in Upload
    BY DEF UploadTypeOK
  <1>2. /\ new \in Upload /\ new.pc = pc /\ new.answer = a
        /\ new.content = up[u].content /\ new.name = up[u].name
    BY <1>1 DEF Upload, Pcs, Answers
  <1>3. up' = [up EXCEPT ![u] = new]
    OBVIOUS
  <1> HIDE DEF new
  <1>4. /\ up' \in [Uploads -> Upload] /\ up'[u] = new
        /\ \A v \in Uploads : v # u => up'[v] = up[v]
    BY <1>1, <1>2, <1>3
  <1> QED
    BY <1>2, <1>4 DEF Moved, Key, BuildStorageKey

LEMMA GotoMoves ==
    ASSUME UploadTypeOK, NEW u \in Uploads, NEW pc \in Pcs, Goto(u, pc)
    PROVE  Moved(u, pc, up[u].answer)
  <1>1. up[u] \in Upload /\ up[u].answer \in Answers
    BY DEF UploadTypeOK, Upload, Answers
  <1>2. [up[u] EXCEPT !.pc = pc, !.answer = up[u].answer] = [up[u] EXCEPT !.pc = pc]
    BY <1>1 DEF Upload
  <1> QED
    BY <1>1, <1>2, MovedBy DEF Goto

LEMMA AnswerMoves ==
    ASSUME UploadTypeOK, NEW u \in Uploads, NEW a \in Answers, Answer(u, a)
    PROVE  Moved(u, "answered", a)
  BY MovedBy DEF Answer, Pcs, UploadTypeOK

-----------------------------------------------------------------------------
(* The invariant, one action after another.                                *)

LEMMA InitInv == UploadInit => UploadInv
  <1> SUFFICES ASSUME UploadInit PROVE UploadInv
    OBVIOUS
  <1>1. PICK c \in Contents, name \in Names :
          up = [u \in Uploads |->
                  [pc |-> "idle", content |-> c, name |-> name, answer |-> "none"]]
    BY DEF UploadInit
  <1>2. /\ up \in [Uploads -> Upload]
        /\ \A u \in Uploads : up[u].pc = "idle" /\ up[u].answer = "none"
    BY <1>1 DEF Upload
  <1>3. UploadTypeOK
    BY <1>2 DEF UploadInit, UploadTypeOK, NoErasure
  <1>4. \A d \in Contents : row[d] = NoKey
    BY DEF UploadInit
  <1>5. blobs = {} /\ erasing.on = FALSE
    BY DEF UploadInit, NoErasure
  <1> QED
    BY <1>2, <1>3, <1>4, <1>5
    DEF UploadInv, RowKeys, RowHasItsBlob, WrittenIsThere, CleansUpAlone, OneName,
        RowIsItsOwn, ErasesAlone, BlobIsOwned, OneCreated, CreatedHasRow, At, InProgress,
        Written

LEMMA BeginInv ==
    ASSUME UploadInv, NEW u \in Uploads, NEW c \in Contents, NEW name \in Names,
           Begin(u, c, name), UNCHANGED races
    PROVE  UploadInv'
  <1> USE DEF UploadInv
  <1> DEFINE new == [pc |-> "lookup", content |-> c, name |-> name, answer |-> "none"]
  <1>1. /\ new \in Upload /\ new.pc = "lookup" /\ new.content = c /\ new.name = name
        /\ new.answer = "none"
    BY DEF Upload
  <1>2. up' = [up EXCEPT ![u] = new] /\ up \in [Uploads -> Upload]
    BY DEF Begin, UploadTypeOK
  <1> HIDE DEF new
  <1>3. /\ up' \in [Uploads -> Upload]
        /\ up'[u].pc = "lookup" /\ up'[u].content = c /\ up'[u].name = name
        /\ up'[u].answer = "none"
        /\ \A v \in Uploads : v # u => up'[v] = up[v] /\ Key(v)' = Key(v)
    BY <1>1, <1>2 DEF Key, BuildStorageKey
  <1>4. /\ UNCHANGED <<races, account, row, blobs, erasing, erased, abandoned>>
        /\ up[u].pc \in {"idle", "answered"}
        /\ account
    BY DEF Begin, InProgress
  <1>5. UploadTypeOK' /\ RowKeys' /\ RowHasItsBlob'
    BY <1>3, <1>4 DEF UploadTypeOK, RowKeys, RowHasItsBlob
  <1>6. WrittenIsThere' /\ CleansUpAlone'
    BY <1>3, <1>4 DEF WrittenIsThere, CleansUpAlone, At
  <1>7. OneName'
    <2> SUFFICES ASSUME "names" \notin races, NEW v \in Uploads, NEW w \in Uploads,
                        InProgress(v)', InProgress(w)', up'[v].content = up'[w].content
                 PROVE  up'[v].name = up'[w].name
      BY <1>4 DEF OneName
    <2>1. \A x \in Uploads : x # u /\ InProgress(x)' /\ up'[x].content = c =>
            up'[x].name = name
      BY <1>3 DEF Begin, InProgress
    <2> QED
      BY <1>3, <2>1 DEF OneName, InProgress
  <1>8. RowIsItsOwn'
    BY <1>3, <1>4 DEF RowIsItsOwn, Written
  <1>9. ErasesAlone'
    BY <1>3, <1>4 DEF ErasesAlone, InProgress, At, Begin
  <1>10. BlobIsOwned'
    BY <1>3, <1>4 DEF BlobIsOwned, Written
  <1>11. OneCreated' /\ CreatedHasRow'
    BY <1>3, <1>4 DEF OneCreated, CreatedHasRow
  <1> QED
    BY <1>5, <1>6, <1>7, <1>8, <1>9, <1>10, <1>11

\* An upload that leaves the two stores as they were.
LEMMA StoresAlone ==
    ASSUME UploadInv, NEW u \in Uploads, NEW pc \in Pcs, NEW a \in Answers,
           Moved(u, pc, a), InProgress(u), a # "created",
           UNCHANGED <<races, account, row, erasing, erased>>,
           blobs \subseteq blobs', abandoned \subseteq abandoned'
    PROVE  /\ RowKeys' /\ RowHasItsBlob' /\ OneName' /\ OneCreated' /\ CreatedHasRow'
           /\ pc # "commit" => WrittenIsThere'
           /\ pc \in {"answered", "lookup", "lost"} /\ (pc = "lost" => At(u, "commit"))
                => CleansUpAlone'
           /\ pc \notin {"put"} \cup Written \/ up[u].pc \in {"put"} \cup Written
                => RowIsItsOwn'
  <1> USE DEF UploadInv, Moved, InProgress, At, Written
  <1>1. RowKeys' /\ RowHasItsBlob'
    BY DEF RowKeys, RowHasItsBlob
  <1>2. OneName'
    BY DEF OneName
  <1>3. OneCreated' /\ CreatedHasRow'
    BY DEF OneCreated, CreatedHasRow
  <1>4. pc # "commit" => WrittenIsThere'
    BY DEF WrittenIsThere
  <1>5. pc \in {"answered", "lookup", "lost"} /\ (pc = "lost" => At(u, "commit"))
          => CleansUpAlone'
    BY DEF CleansUpAlone
  <1>6. pc \notin {"put"} \cup Written \/ up[u].pc \in {"put"} \cup Written
          => RowIsItsOwn'
    BY DEF RowIsItsOwn
  <1> QED
    BY <1>1, <1>2, <1>3, <1>4, <1>5, <1>6

LEMMA LookupInv ==
    ASSUME UploadInv, NEW u \in Uploads, Lookup(u), UNCHANGED races
    PROVE  UploadInv'
  <1> USE DEF UploadInv
  <1>1. /\ up[u].pc = "lookup" /\ InProgress(u)
        /\ UNCHANGED <<races, account, row, blobs, erasing, erased, abandoned>>
    BY DEF Lookup, At, InProgress
  <1>2. up[u].answer \in Answers /\ up[u].answer # "created"
    BY <1>1 DEF UploadTypeOK, Upload, Answers, CreatedHasRow
  <1>3. CASE row[up[u].content] # NoKey
    <2>1. Moved(u, "answered", "existing")
      BY <1>3, AnswerMoves DEF Lookup, Answers
    <2>2. /\ RowKeys' /\ RowHasItsBlob' /\ OneName' /\ OneCreated' /\ CreatedHasRow'
          /\ WrittenIsThere' /\ CleansUpAlone' /\ RowIsItsOwn'
      BY <1>1, <2>1, StoresAlone DEF Pcs, Answers, Written
    <2>3. UploadTypeOK'
      BY <1>1, <2>1 DEF UploadTypeOK, Moved
    <2>4. ErasesAlone' /\ BlobIsOwned'
      BY <1>1, <2>1 DEF ErasesAlone, BlobIsOwned, Moved, InProgress, At, Written
    <2> QED
      BY <2>2, <2>3, <2>4
  <1>4. CASE row[up[u].content] = NoKey
    <2>1. Moved(u, "put", up[u].answer)
      BY <1>4, GotoMoves DEF Lookup, Pcs
    <2>2. /\ RowKeys' /\ RowHasItsBlob' /\ OneName' /\ OneCreated' /\ CreatedHasRow'
          /\ WrittenIsThere'
      BY <1>1, <1>2, <2>1, StoresAlone DEF Pcs
    <2>3. UploadTypeOK'
      BY <1>1, <2>1 DEF UploadTypeOK, Moved
    <2>4. CleansUpAlone'
      <3>1. races \cap {"twins", "doubt"} = {} =>
              \A v \in Uploads \ {u} : At(v, "cleanup") => up[v].content # up[u].content
        BY DEF Lookup, SameBytes, InProgress, At
      <3> QED
        BY <1>1, <2>1, <3>1 DEF CleansUpAlone, Moved, At
    <2>5. RowIsItsOwn'
      BY <1>1, <1>4, <2>1 DEF RowIsItsOwn, Moved, Written
    <2>6. ErasesAlone' /\ BlobIsOwned'
      BY <1>1, <2>1 DEF ErasesAlone, BlobIsOwned, Moved, InProgress, At, Written
    <2> QED
      BY <2>2, <2>3, <2>4, <2>5, <2>6
  <1> QED
    BY <1>3, <1>4

LEMMA PutInv ==
    ASSUME UploadInv, NEW u \in Uploads, Put(u), UNCHANGED races
    PROVE  UploadInv'
  <1> USE DEF UploadInv
  <1>1. /\ up[u].pc = "put" /\ InProgress(u) /\ blobs' = blobs \cup {Key(u)}
        /\ UNCHANGED <<races, account, row, erasing, erased, abandoned>>
        /\ Moved(u, "commit", up[u].answer)
    BY GotoMoves DEF Put, At, InProgress, Pcs
  <1>2. up[u].answer \in Answers /\ up[u].answer # "created"
    BY <1>1 DEF UploadTypeOK, Upload, Answers, CreatedHasRow
  <1>3. UploadTypeOK'
    BY <1>1, KeyType DEF UploadTypeOK, Moved
  <1>4. /\ RowKeys' /\ RowHasItsBlob' /\ OneName' /\ OneCreated' /\ CreatedHasRow'
        /\ RowIsItsOwn'
    BY <1>1, <1>2, StoresAlone DEF Pcs, Written
  <1>5. WrittenIsThere'
    BY <1>1 DEF WrittenIsThere, Moved, At
  <1>6. CleansUpAlone'
    BY <1>1 DEF CleansUpAlone, Moved, At
  <1>7. ErasesAlone'
    BY <1>1 DEF ErasesAlone, Moved, InProgress, At
  <1>8. BlobIsOwned'
    BY <1>1 DEF BlobIsOwned, Moved, Written
  <1> QED
    BY <1>3, <1>4, <1>5, <1>6, <1>7, <1>8

LEMMA PutFailsInv ==
    ASSUME UploadInv, NEW u \in Uploads, PutFails(u), UNCHANGED races
    PROVE  UploadInv'
  <1> USE DEF UploadInv
  <1>1. /\ up[u].pc = "put" /\ InProgress(u)
        /\ UNCHANGED <<races, account, row, erasing, erased>>
        /\ Moved(u, "answered", "failed")
    BY AnswerMoves DEF PutFails, At, InProgress, Answers
  <1>2. \/ blobs' = blobs /\ abandoned' = abandoned
        \/ blobs' = blobs \cup {Key(u)} /\ abandoned' = abandoned \cup {Key(u)}
    BY DEF PutFails
  <1>3. UploadTypeOK'
    BY <1>1, <1>2, KeyType DEF UploadTypeOK, Moved
  <1>4. /\ RowKeys' /\ RowHasItsBlob' /\ OneName' /\ OneCreated' /\ CreatedHasRow'
        /\ WrittenIsThere' /\ CleansUpAlone' /\ RowIsItsOwn'
    BY <1>1, <1>2, StoresAlone DEF Pcs, Answers, Written
  <1>5. ErasesAlone'
    BY <1>1 DEF ErasesAlone, Moved, InProgress, At
  <1>6. BlobIsOwned'
    BY <1>1, <1>2 DEF BlobIsOwned, Moved, Written
  <1> QED
    BY <1>3, <1>4, <1>5, <1>6

\* A row is inserted: the only one of its content, under its uploader's key.
LEMMA InsertedRow ==
    ASSUME UploadInv, NEW u \in Uploads, At(u, "commit"), CanInsert(u), Inserted(u),
           UNCHANGED <<races, account, erasing, erased>>, NEW pc \in Pcs, NEW a \in Answers,
           Moved(u, pc, a), blobs' = blobs
    PROVE  /\ row' \in [Contents -> Keys \cup {NoKey}]
           /\ row'[up[u].content] = Key(u) /\ Key(u) # NoKey
           /\ \A c \in Contents : c # up[u].content => row'[c] = row[c]
           /\ row[up[u].content] = NoKey
           /\ RowKeys' /\ OneName' /\ RowIsItsOwn' /\ ErasesAlone'
           /\ races \cap {"twins", "doubt"} = {} => RowHasItsBlob'
  <1> USE DEF UploadInv, Moved, InProgress, At, Written
  <1>1. /\ row' \in [Contents -> Keys \cup {NoKey}]
        /\ row'[up[u].content] = Key(u) /\ Key(u) # NoKey
        /\ \A c \in Contents : c # up[u].content => row'[c] = row[c]
        /\ row[up[u].content] = NoKey
        /\ up[u].content \in Contents
    <2>1. up[u].content \in Contents
      BY DEF UploadTypeOK, Upload
    <2> QED
      BY <2>1, KeyType DEF Inserted, CanInsert, UploadTypeOK
  <1>2. RowKeys'
    BY <1>1, KeyType DEF RowKeys
  <1>3. OneName'
    BY DEF OneName
  <1>4. RowIsItsOwn'
    <2> SUFFICES ASSUME "names" \notin races, NEW v \in Uploads,
                        up'[v].pc \in {"put"} \cup Written
                 PROVE  row'[up[v].content] \in {NoKey, Key(v)}
      BY DEF RowIsItsOwn
    <2>1. CASE up[v].content # up[u].content
      <3>1. up[v].content \in Contents
        BY DEF UploadTypeOK, Upload
      <3> QED
        BY <1>1, <2>1, <3>1 DEF RowIsItsOwn
    <2>2. CASE up[v].content = up[u].content
      <3>1. up[v].name = up[u].name
        BY <2>2 DEF OneName
      <3> QED
        BY <1>1, <2>2, <3>1, SameName
    <2> QED
      BY <2>1, <2>2
  <1>5. ErasesAlone'
    <2>1. "erasure" \notin races => ~erasing.on
      BY DEF ErasesAlone
    <2>2. \A v \in Uploads : up[v].content \in Contents
      BY DEF UploadTypeOK, Upload
    <2> QED
      BY <1>1, <2>1, <2>2 DEF ErasesAlone
  <1>6. races \cap {"twins", "doubt"} = {} => RowHasItsBlob'
    BY <1>1 DEF RowHasItsBlob, WrittenIsThere
  <1> QED
    BY <1>1, <1>2, <1>3, <1>4, <1>5, <1>6

LEMMA CommitInv ==
    ASSUME UploadInv, NEW u \in Uploads, Commit(u), UNCHANGED races
    PROVE  UploadInv'
  <1> USE DEF UploadInv
  <1>1. /\ At(u, "commit") /\ CanInsert(u) /\ Inserted(u) /\ account
        /\ UNCHANGED <<races, account, blobs, erasing, erased, abandoned>>
        /\ Moved(u, "answered", "created")
    BY AnswerMoves DEF Commit, Answers, CanInsert
  <1>2. /\ row' \in [Contents -> Keys \cup {NoKey}]
        /\ row'[up[u].content] = Key(u) /\ Key(u) # NoKey
        /\ \A c \in Contents : c # up[u].content => row'[c] = row[c]
        /\ row[up[u].content] = NoKey
        /\ RowKeys' /\ OneName' /\ RowIsItsOwn' /\ ErasesAlone'
        /\ races \cap {"twins", "doubt"} = {} => RowHasItsBlob'
    BY <1>1, InsertedRow DEF Pcs, Answers
  <1>3. \A v \in Uploads : up[v].content \in Contents
    BY DEF UploadTypeOK, Upload
  <1>4. UploadTypeOK' /\ RowHasItsBlob'
    BY <1>1, <1>2 DEF UploadTypeOK, Moved, RowHasItsBlob
  <1>5. WrittenIsThere'
    BY <1>1 DEF WrittenIsThere, Moved, At
  <1>6. CleansUpAlone'
    BY <1>1, <1>2, <1>3 DEF CleansUpAlone, Moved, At
  <1>7. BlobIsOwned'
    <2>1. NoKey \notin blobs
      BY DEF UploadTypeOK
    <2> SUFFICES ASSUME races \cap {"names", "erasure"} = {}, NEW k \in blobs \ abandoned
                 PROVE  (\/ \E c \in Contents : row[c] = k
                         \/ \E v \in Uploads : up[v].pc \in Written /\ Key(v) = k)'
      BY <1>1 DEF BlobIsOwned
    <2>2. CASE \E c \in Contents : row[c] = k
      BY <1>2, <2>1, <2>2
    <2>3. ASSUME NEW v \in Uploads, up[v].pc \in Written, Key(v) = k
          PROVE  (\/ \E c \in Contents : row[c] = k
                  \/ \E w \in Uploads : up[w].pc \in Written /\ Key(w) = k)'
      <3>1. CASE v = u
        BY <1>2, <1>3, <2>3, <3>1
      <3>2. CASE v # u
        BY <1>1, <2>3, <3>2 DEF Moved
      <3> QED
        BY <3>1, <3>2
    <2> QED
      BY <2>2, <2>3 DEF BlobIsOwned
  <1>8. OneCreated'
    BY <1>1, <1>2, <1>3 DEF OneCreated, CreatedHasRow, Moved
  <1>9. CreatedHasRow'
    BY <1>1, <1>2, <1>3 DEF CreatedHasRow, Moved
  <1> QED
    BY <1>2, <1>4, <1>5, <1>6, <1>7, <1>8, <1>9

LEMMA IntegrityErrorInv ==
    ASSUME UploadInv, NEW u \in Uploads, IntegrityError(u), UNCHANGED races
    PROVE  UploadInv'
  <1> USE DEF UploadInv
  <1>1. /\ At(u, "commit") /\ ~CanInsert(u) /\ InProgress(u)
        /\ UNCHANGED <<races, account, row, blobs, erasing, erased, abandoned>>
        /\ Moved(u, "lost", up[u].answer)
    BY GotoMoves DEF IntegrityError, Pcs, At, InProgress
  <1>2. up[u].answer \in Answers /\ up[u].answer # "created"
    BY <1>1 DEF UploadTypeOK, Upload, Answers, CreatedHasRow, At
  <1>3. UploadTypeOK'
    BY <1>1 DEF UploadTypeOK, Moved
  <1>4. /\ RowKeys' /\ RowHasItsBlob' /\ OneName' /\ OneCreated' /\ CreatedHasRow'
        /\ WrittenIsThere' /\ CleansUpAlone' /\ RowIsItsOwn'
    BY <1>1, <1>2, StoresAlone DEF Pcs, Written, At
  <1>5. ErasesAlone'
    BY <1>1 DEF ErasesAlone, Moved, InProgress, At, CanInsert
  <1>6. BlobIsOwned'
    BY <1>1 DEF BlobIsOwned, Moved, Written, At
  <1> QED
    BY <1>3, <1>4, <1>5, <1>6

LEMMA LostRaceInv ==
    ASSUME UploadInv, NEW u \in Uploads, LostRace(u), UNCHANGED races
    PROVE  UploadInv'
  <1> USE DEF UploadInv
  <1>1. /\ At(u, "lost") /\ InProgress(u)
        /\ UNCHANGED <<races, account, row, blobs, erasing, erased, abandoned>>
    BY DEF LostRace, At, InProgress
  <1>2. PICK a \in Answers \ {"created"} : Moved(u, "answered", a)
    BY AnswerMoves DEF LostRace, Answers
  <1>3. UploadTypeOK'
    BY <1>1, <1>2 DEF UploadTypeOK, Moved
  <1>4. /\ RowKeys' /\ RowHasItsBlob' /\ OneName' /\ OneCreated' /\ CreatedHasRow'
        /\ WrittenIsThere' /\ CleansUpAlone' /\ RowIsItsOwn'
    BY <1>1, <1>2, StoresAlone DEF Pcs, Written
  <1>5. ErasesAlone'
    BY <1>1, <1>2 DEF ErasesAlone, Moved, InProgress, At
  <1>6. BlobIsOwned'
    <2>1. races \cap {"names", "erasure"} = {} => row[up[u].content] = Key(u)
      BY <1>1 DEF ErasesAlone, RowIsItsOwn, Written, At
    <2>2. up[u].content \in Contents
      BY DEF UploadTypeOK, Upload
    <2> QED
      BY <1>1, <1>2, <2>1, <2>2 DEF BlobIsOwned, Moved
  <1> QED
    BY <1>3, <1>4, <1>5, <1>6

\* Where it can break nothing else, an upload that fails is alone with its
\* bytes, and no row has come of them.
LEMMA CommitFailsInv ==
    ASSUME UploadInv, NEW u \in Uploads, CommitFails(u), UNCHANGED races
    PROVE  UploadInv'
  <1> USE DEF UploadInv
  <1>1. /\ At(u, "commit") /\ InProgress(u)
        /\ UNCHANGED <<races, account, blobs, erasing, erased, abandoned>>
        /\ Moved(u, "cleanup", up[u].answer)
    BY GotoMoves DEF CommitFails, Pcs, At, InProgress
  <1>2. up[u].answer \in Answers /\ up[u].answer # "created"
    BY <1>1 DEF UploadTypeOK, Upload, Answers, CreatedHasRow, At
  <1>3. WrittenIsThere'
    BY <1>1 DEF WrittenIsThere, Moved, At
  <1>4. CASE row' = row
    <2>1. UploadTypeOK'
      BY <1>1, <1>4 DEF UploadTypeOK, Moved
    <2>2. /\ RowKeys' /\ RowHasItsBlob' /\ OneName' /\ OneCreated' /\ CreatedHasRow'
          /\ RowIsItsOwn'
      BY <1>1, <1>2, <1>4, StoresAlone DEF Pcs, Written, At
    <2>3. CleansUpAlone'
      <3>1. races \cap {"twins", "doubt"} = {} =>
              /\ row[up[u].content] = NoKey
              /\ \A v \in Uploads \ {u} : up[v].content = up[u].content => ~InProgress(v)
        BY DEF CommitFails, SameBytes
      <3>2. races \cap {"twins", "doubt"} = {} =>
              \A v \in Uploads \ {u} : At(v, "cleanup") => up[v].content # up[u].content
        BY <3>1 DEF InProgress, At
      <3>3. \A v \in Uploads : ~InProgress(v) => up[v].pc \in {"idle", "answered"}
        BY DEF InProgress
      <3> QED
        BY <1>1, <1>4, <3>1, <3>2, <3>3 DEF CleansUpAlone, Moved, At
    <2>4. ErasesAlone'
      BY <1>1, <1>4 DEF ErasesAlone, Moved, InProgress, At
    <2>5. BlobIsOwned'
      BY <1>1, <1>4 DEF BlobIsOwned, Moved, Written, At
    <2> QED
      BY <1>3, <2>1, <2>2, <2>3, <2>4, <2>5
  <1>5. CASE "doubt" \in races /\ CanInsert(u) /\ Inserted(u)
    <2>1. /\ row' \in [Contents -> Keys \cup {NoKey}]
          /\ row'[up[u].content] = Key(u) /\ Key(u) # NoKey
          /\ \A c \in Contents : c # up[u].content => row'[c] = row[c]
          /\ row[up[u].content] = NoKey
          /\ RowKeys' /\ OneName' /\ RowIsItsOwn' /\ ErasesAlone'
      BY <1>1, <1>2, <1>5, InsertedRow DEF Pcs
    <2>2. UploadTypeOK'
      BY <1>1, <2>1 DEF UploadTypeOK, Moved
    <2>3. RowHasItsBlob' /\ CleansUpAlone'
      BY <1>1, <1>5 DEF RowHasItsBlob, CleansUpAlone
    <2>4. BlobIsOwned'
      <3>1. NoKey \notin blobs
        BY DEF UploadTypeOK
      <3>2. \A c \in Contents : row[c] # NoKey => row'[c] = row[c]
        BY <2>1
      <3>3. \A v \in Uploads : up[v].pc \in Written => up'[v].pc \in Written
        BY <1>1 DEF Moved, Written
      <3> QED
        BY <1>1, <3>1, <3>2, <3>3 DEF BlobIsOwned, Moved
    <2>5. OneCreated'
      BY <1>1 DEF OneCreated, Moved
    <2>6. CreatedHasRow'
      <3>1. \A v \in Uploads : up[v].content \in Contents
        BY DEF UploadTypeOK, Upload
      <3> QED
        BY <1>1, <1>2, <2>1, <3>1 DEF CreatedHasRow, Moved
    <2> QED
      BY <1>3, <2>1, <2>2, <2>3, <2>4, <2>5, <2>6
  <1> QED
    BY <1>4, <1>5 DEF CommitFails

\* What is cleaned up is nobody's: not of a row, and not of another upload.
LEMMA CleanupInv ==
    ASSUME UploadInv, NEW u \in Uploads, Cleanup(u), UNCHANGED races
    PROVE  UploadInv'
  <1> USE DEF UploadInv
  <1>1. /\ At(u, "cleanup") /\ InProgress(u)
        /\ UNCHANGED <<races, account, row, erasing, erased>>
        /\ Moved(u, "answered", "failed")
    BY AnswerMoves DEF Cleanup, At, InProgress, Answers
  <1>2. \/ blobs' = blobs \ {Key(u)} /\ abandoned' = abandoned
        \/ blobs' = blobs /\ abandoned' = abandoned \cup {Key(u)}
    BY DEF Cleanup
  <1>3. ASSUME NEW v \in Uploads, Key(v) = Key(u) PROVE up[v].content = up[u].content
    <2>1. up[v].content \in Contents
      BY DEF UploadTypeOK, Upload
    <2>2. PICK s \in {"", ".pdf"} : Key(v) = <<up[v].content, s>>
      BY KeyType
    <2> QED
      BY <1>3, <2>1, <2>2, KeyType
  <1>4. UploadTypeOK'
    BY <1>1, <1>2, KeyType DEF UploadTypeOK, Moved
  <1>5. RowKeys' /\ OneName' /\ RowIsItsOwn'
    <2>1. RowKeys'
      BY <1>1 DEF RowKeys
    <2>2. OneName'
      BY <1>1 DEF OneName, Moved, InProgress
    <2>3. RowIsItsOwn'
      BY <1>1 DEF RowIsItsOwn, Moved, Written
    <2> QED
      BY <2>1, <2>2, <2>3
  <1>6. OneCreated' /\ CreatedHasRow'
    BY <1>1 DEF OneCreated, CreatedHasRow, Moved
  <1>7. RowHasItsBlob'
    <2>1. \A c \in Contents : row[c] = Key(u) => c = up[u].content \/ row[c] = NoKey
      BY KeyType DEF RowKeys
    <2>2. races \cap {"twins", "doubt"} = {} => row[up[u].content] = NoKey
      BY <1>1 DEF CleansUpAlone
    <2> QED
      BY <1>1, <1>2, <2>1, <2>2 DEF RowHasItsBlob
  <1>8. WrittenIsThere'
    <2>1. races \cap {"twins", "doubt"} = {} =>
            \A v \in Uploads \ {u} : At(v, "commit") => Key(v) # Key(u)
      BY <1>1, <1>3 DEF CleansUpAlone, At
    <2> QED
      BY <1>1, <1>2, <2>1 DEF WrittenIsThere, Moved, At
  <1>9. CleansUpAlone'
    BY <1>1 DEF CleansUpAlone, Moved, At
  <1>10. ErasesAlone'
    BY <1>1, <1>2 DEF ErasesAlone, Moved, InProgress, At
  <1>11. BlobIsOwned'
    BY <1>1, <1>2 DEF BlobIsOwned, Moved, Written, At
  <1> QED
    BY <1>4, <1>5, <1>6, <1>7, <1>8, <1>9, <1>10, <1>11

LEMMA CrashInv ==
    ASSUME UploadInv, NEW u \in Uploads, Crash(u), UNCHANGED races
    PROVE  UploadInv'
  <1> USE DEF UploadInv
  <1>1. /\ InProgress(u)
        /\ UNCHANGED <<races, account, row, blobs, erasing, erased>>
        /\ Moved(u, "answered", "failed")
        /\ abandoned \subseteq abandoned' /\ abandoned' \subseteq abandoned \cup {Key(u)}
        /\ up[u].pc \in {"commit", "cleanup"} => Key(u) \in abandoned'
    BY AnswerMoves DEF Crash, Answers
  <1>2. UploadTypeOK'
    BY <1>1, KeyType DEF UploadTypeOK, Moved
  <1>3. /\ RowKeys' /\ RowHasItsBlob' /\ OneName' /\ OneCreated' /\ CreatedHasRow'
        /\ WrittenIsThere' /\ CleansUpAlone' /\ RowIsItsOwn'
    BY <1>1, StoresAlone DEF Pcs, Answers, Written
  <1>4. ErasesAlone'
    BY <1>1 DEF ErasesAlone, Moved, InProgress, At
  <1>5. BlobIsOwned'
    <2>1. races \cap {"names", "erasure"} = {} /\ At(u, "lost") => row[up[u].content] = Key(u)
      BY DEF ErasesAlone, RowIsItsOwn, Written, At
    <2>2. up[u].content \in Contents
      BY DEF UploadTypeOK, Upload
    <2> QED
      BY <1>1, <2>1, <2>2 DEF BlobIsOwned, Moved, Written, At
  <1> QED
    BY <1>2, <1>3, <1>4, <1>5

\* A step of the erasure, while it has the account to itself or not.
LEMMA ErasureLeavesUploads ==
    ASSUME UploadInv, UNCHANGED <<races, up>>,
           UNCHANGED row, erased \subseteq erased',
           \A k \in blobs : k \in blobs' \/ k \in erased'
    PROVE  /\ RowKeys' /\ RowHasItsBlob' /\ WrittenIsThere' /\ CleansUpAlone'
           /\ OneName' /\ RowIsItsOwn' /\ OneCreated'
  <1> USE DEF UploadInv
  <1>1. \A u \in Uploads : Key(u)' = Key(u)
    BY DEF Key
  <1>2. RowKeys' /\ RowHasItsBlob'
    BY DEF RowKeys, RowHasItsBlob
  <1>3. WrittenIsThere' /\ CleansUpAlone'
    BY <1>1 DEF WrittenIsThere, CleansUpAlone, At
  <1>4. OneName' /\ RowIsItsOwn' /\ OneCreated'
    BY <1>1 DEF OneName, RowIsItsOwn, OneCreated, InProgress
  <1> QED
    BY <1>2, <1>3, <1>4

LEMMA BeginErasureInv ==
    ASSUME UploadInv, BeginErasure, UNCHANGED races
    PROVE  UploadInv'
  <1> USE DEF UploadInv
  <1>1. /\ UNCHANGED <<races, account, row, blobs, up, erased, abandoned>>
        /\ erasing' = [on |-> TRUE, left |-> {row[c] : c \in Contents} \ {NoKey}]
    BY DEF BeginErasure
  <1>2. UploadTypeOK'
    BY <1>1 DEF UploadTypeOK
  <1>3. /\ RowKeys' /\ RowHasItsBlob' /\ WrittenIsThere' /\ CleansUpAlone'
        /\ OneName' /\ RowIsItsOwn' /\ OneCreated'
    BY <1>1, ErasureLeavesUploads
  <1>4. ErasesAlone'
    BY <1>1 DEF ErasesAlone, BeginErasure, InProgress, At
  <1>5. BlobIsOwned' /\ CreatedHasRow'
    BY <1>1 DEF BlobIsOwned, CreatedHasRow, Key
  <1> QED
    BY <1>2, <1>3, <1>4, <1>5

LEMMA EraseBlobInv ==
    ASSUME UploadInv, NEW k \in Keys, EraseBlob(k), UNCHANGED races
    PROVE  UploadInv'
  <1> USE DEF UploadInv
  <1>1. /\ UNCHANGED <<races, account, row, up, abandoned>>
        /\ blobs' = blobs \ {k} /\ erased' = erased \cup {k}
        /\ erasing' = [erasing EXCEPT !.left = @ \ {k}]
    BY DEF EraseBlob
  <1>2. erasing'.on = erasing.on /\ erasing'.left = erasing.left \ {k}
    BY <1>1 DEF UploadTypeOK
  <1>3. UploadTypeOK'
    BY <1>1 DEF UploadTypeOK
  <1>4. /\ RowKeys' /\ RowHasItsBlob' /\ WrittenIsThere' /\ CleansUpAlone'
        /\ OneName' /\ RowIsItsOwn' /\ OneCreated'
    BY <1>1, ErasureLeavesUploads
  <1>5. ErasesAlone'
    BY <1>1, <1>2 DEF ErasesAlone, InProgress, At
  <1>6. BlobIsOwned' /\ CreatedHasRow'
    BY <1>1 DEF BlobIsOwned, CreatedHasRow, Key
  <1> QED
    BY <1>3, <1>4, <1>5, <1>6

LEMMA EraseBlobFailsInv ==
    ASSUME UploadInv, NEW k \in Keys, EraseBlobFails(k), UNCHANGED races
    PROVE  UploadInv'
  <1> USE DEF UploadInv
  <1>1. /\ UNCHANGED <<races, account, row, blobs, up, erased, abandoned>>
        /\ erasing' = [on |-> FALSE, left |-> {}]
    BY DEF EraseBlobFails, NoErasure
  <1>2. UploadTypeOK'
    BY <1>1 DEF UploadTypeOK
  <1>3. /\ RowKeys' /\ RowHasItsBlob' /\ WrittenIsThere' /\ CleansUpAlone'
        /\ OneName' /\ RowIsItsOwn' /\ OneCreated'
    BY <1>1, ErasureLeavesUploads
  <1>4. ErasesAlone'
    BY <1>1 DEF ErasesAlone, InProgress, At
  <1>5. BlobIsOwned' /\ CreatedHasRow'
    BY <1>1 DEF BlobIsOwned, CreatedHasRow, Key
  <1> QED
    BY <1>2, <1>3, <1>4, <1>5

\* The rows go last, when none of them has an object any more.
LEMMA EraseRowsInv ==
    ASSUME UploadInv, EraseRows, UNCHANGED races
    PROVE  UploadInv'
  <1> USE DEF UploadInv
  <1>1. /\ UNCHANGED <<races, blobs, up, erased, abandoned>>
        /\ account' = FALSE /\ row' = [c \in Contents |-> NoKey]
        /\ erasing' = [on |-> FALSE, left |-> {}]
        /\ erasing.on /\ erasing.left = {}
    BY DEF EraseRows, NoErasure
  <1>2. \A c \in Contents : row'[c] = NoKey
    BY <1>1
  <1>3. \A u \in Uploads : Key(u)' = Key(u) /\ up[u].content \in Contents
    BY <1>1 DEF Key, UploadTypeOK, Upload
  <1>4. UploadTypeOK'
    BY <1>1 DEF UploadTypeOK
  <1>5. RowKeys' /\ RowHasItsBlob' /\ WrittenIsThere' /\ CleansUpAlone'
    BY <1>1, <1>2, <1>3 DEF RowKeys, RowHasItsBlob, WrittenIsThere, CleansUpAlone, At
  <1>6. OneName' /\ RowIsItsOwn' /\ OneCreated' /\ CreatedHasRow'
    BY <1>1, <1>2, <1>3
    DEF OneName, RowIsItsOwn, OneCreated, CreatedHasRow, InProgress, Written
  <1>7. "erasure" \notin races => \A u \in Uploads : ~InProgress(u)
    BY <1>1 DEF ErasesAlone
  <1>8. ErasesAlone'
    BY <1>1, <1>7 DEF ErasesAlone, InProgress, At
  <1>9. BlobIsOwned'
    <2>1. NoKey \notin blobs
      BY DEF UploadTypeOK
    <2>2. races \cap {"names", "erasure"} = {} => blobs \ abandoned = {}
      BY <1>1, <1>7, <2>1 DEF BlobIsOwned, ErasesAlone, InProgress, Written
    <2> QED
      BY <1>1, <2>2 DEF BlobIsOwned
  <1> QED
    BY <1>4, <1>5, <1>6, <1>8, <1>9

LEMMA StepInv == UploadInv /\ [UploadNext]_uploadVars => UploadInv'
  <1> SUFFICES ASSUME UploadInv, [UploadNext]_uploadVars PROVE UploadInv'
    OBVIOUS
  <1>1. CASE UNCHANGED uploadVars
    BY <1>1
    DEF uploadVars, UploadInv, UploadTypeOK, RowKeys, RowHasItsBlob, WrittenIsThere,
        CleansUpAlone, OneName, RowIsItsOwn, ErasesAlone, BlobIsOwned, OneCreated,
        CreatedHasRow, At, Key, InProgress
  <1>2. CASE UploadNext
    <2>1. ASSUME NEW u \in Uploads, UploadStep(u), UNCHANGED races PROVE UploadInv'
      BY <2>1, BeginInv, LookupInv, PutInv, PutFailsInv, CommitInv, IntegrityErrorInv,
         LostRaceInv, CommitFailsInv, CleanupInv, CrashInv
      DEF UploadStep
    <2>2. ASSUME ErasureStep, UNCHANGED races PROVE UploadInv'
      BY <2>2, BeginErasureInv, EraseBlobInv, EraseBlobFailsInv, EraseRowsInv
      DEF ErasureStep
    <2> QED
      BY <1>2, <2>1, <2>2 DEF UploadNext
  <1> QED
    BY <1>1, <1>2

\* The two stores hold this between them, whatever fails and dies.
THEOREM UploadInvariant == UploadSpec => []UploadInv
  BY InitInv, StepInv, PTL DEF UploadSpec

\* The rows, the objects and the uploads keep their types.
THEOREM UploadTypeCorrect == UploadSpec => []UploadTypeOK
  BY UploadInvariant, PTL DEF UploadInv

\* No upload's cleaning up after itself takes the object of another's row.
THEOREM RowsKeepTheirBlobs == UploadSpec => []RowHasItsBlob
  BY UploadInvariant, PTL DEF UploadInv

\* "A failed request cannot strand an object no row points at."
THEOREM NoBlobIsStranded == UploadSpec => []BlobHasItsRow
  <1>1. UploadInv => BlobHasItsRow
    BY DEF UploadInv, BlobIsOwned, BlobHasItsRow, InProgress, Written
  <1> QED
    BY <1>1, UploadInvariant, PTL

\* Of identical uploads that race, one is told that it created the resume.
THEOREM OneUploadCreates == UploadSpec => []OneCreated
  BY UploadInvariant, PTL DEF UploadInv
=============================================================================
