------------------------ MODULE BrowserSession_proofs ------------------------
(***************************************************************************)
(* Theorems about SessionTokens, for any passwords, requests and bounds,   *)
(* whoever sends the requests and whichever tokens they present; and then  *)
(* about the browsers and the scripts of BrowserSession, for any devices,  *)
(* tabs and calls.                                                         *)
(***************************************************************************)
EXTENDS BrowserSession, LateTokens, TLAPS


-----------------------------------------------------------------------------
(* What holds among the account, the pairs and the requests in progress,   *)
(* as long as no two changes of password overlap.                          *)

Minted(p) == p \in Pairs /\ pair[p].age # "unminted"

\* A pair is of a past epoch, or of this one and of this password.
PairsFollow ==
    \A p \in Pairs : Minted(p) =>
        /\ pair[p].epoch <= account.epoch
        /\ pair[p].epoch = account.epoch => pair[p].password = account.password

\* A request that has read the account came with a token of some epoch up to
\* this one, once checked that of its copy.
CopiesFollow ==
    \A r \in Requests :
        /\ req[r].pc \in {"loaded", "checked"} =>
             Minted(Presented(r)) /\ req[r].row.epoch <= account.epoch
        /\ req[r].pc = "checked" => pair[Presented(r)].epoch = req[r].row.epoch

\* A change in progress is the only one, and its copy is the account's.
ChangesAlone ==
    \A r \in Changing :
        /\ \A q \in Changing : q = r
        /\ req[r].pc \in {"loaded", "checked"} => req[r].row.epoch = account.epoch

SessionInv == SessionTypeOK /\ PairsFollow /\ CopiesFollow /\ ChangesAlone

-----------------------------------------------------------------------------
(* What a step leaves alone.                                               *)

USE SessionAssumption

Pcs == {"idle", "sent", "loaded", "checked", "answered"}

\* Only the request r moves.
Only(r) ==
    /\ req' \in [Requests -> Request]
    /\ \A q \in Requests : q # r => req'[q] = req[q]

\* What was minted stays, and says the same.
MintedStays ==
    \A p \in Pairs : Minted(p) =>
        /\ Minted(p)'
        /\ pair'[p].epoch = pair[p].epoch
        /\ pair'[p].password = pair[p].password

LEMMA NoRequestType == NoRequest \in Request /\ NoRequest.pc = "idle"
  <1>1. SomePassword \in Passwords
    BY DEF SomePassword
  <1>2. Row0 \in [epoch: 0 .. MaxEpoch, password: Passwords]
    BY <1>1 DEF Row0
  <1> QED
    BY <1>1, <1>2 DEF NoRequest, Request, Maybe, Operations

LEMMA RequestMoves ==
    ASSUME SessionTypeOK, NEW r \in Requests, NEW new \in Request,
           req' = [req EXCEPT ![r] = new]
    PROVE  Only(r) /\ req'[r] = new
  BY DEF SessionTypeOK, Only

LEMMA AnswerMoves ==
    ASSUME SessionTypeOK, NEW r \in Requests,
           NEW a \in {"none", "ok", "refused", "wrong", "lost"}, Answer(r, a)
    PROVE  Only(r) /\ req'[r].pc = "answered"
  <1> DEFINE new == [req[r] EXCEPT !.pc = "answered", !.answer = a]
  <1>0. req[r] \in Request
    BY DEF SessionTypeOK
  <1>1. new \in Request /\ new.pc = "answered"
    BY <1>0 DEF Request
  <1>2. req' = [req EXCEPT ![r] = new]
    BY DEF Answer, SessionTypeOK
  <1> HIDE DEF new
  <1> QED
    BY <1>1, <1>2, RequestMoves

LEMMA IssueMints ==
    ASSUME SessionTypeOK, NEW r \in Requests, NEW e \in 0 .. MaxEpoch, NEW s \in Passwords,
           NEW parent \in Maybe, Issue(r, e, s, parent)
    PROVE  /\ Only(r) /\ req'[r].pc = "answered"
           /\ pair' \in [Pairs -> Pair]
           /\ req'[r].op = req[r].op /\ req'[r].refresh = req[r].refresh
           /\ req'[r].answer = "ok"
           /\ \E p \in Pairs :
                /\ ~Minted(p) /\ pair'[p].age = "fresh" /\ req'[r].got = p
                /\ pair'[p].epoch = e /\ pair'[p].password = s /\ pair'[p].parent = parent
                /\ \A q \in Pairs : q # p => pair'[q] = pair[q]
  <1>1. PICK p \in Unminted :
          /\ pair' = [pair EXCEPT ![p] = [age |-> "fresh", epoch |-> e,
                                          password |-> s, parent |-> parent]]
          /\ req' = [req EXCEPT ![r].pc = "answered", ![r].answer = "ok", ![r].got = p]
    BY DEF Issue
  <1>2. p \in Pairs /\ ~Minted(p)
    BY DEF Unminted, Minted
  <1> DEFINE new == [req[r] EXCEPT !.pc = "answered", !.answer = "ok", !.got = p]
             minted == [age |-> "fresh", epoch |-> e, password |-> s, parent |-> parent]
  <1>3. /\ new \in Request /\ new.pc = "answered" /\ new.answer = "ok" /\ new.got = p
        /\ new.op = req[r].op /\ new.refresh = req[r].refresh
    <2>1. req[r] \in Request /\ p \in Maybe
      BY <1>2 DEF SessionTypeOK, Maybe
    <2> QED
      BY <2>1 DEF Request
  <1>4. req' = [req EXCEPT ![r] = new]
    BY <1>1 DEF SessionTypeOK
  <1>5. /\ minted \in Pair /\ minted.age = "fresh" /\ minted.epoch = e
        /\ minted.password = s /\ minted.parent = parent
    BY DEF Pair
  <1>6. pair' = [pair EXCEPT ![p] = minted] /\ pair \in [Pairs -> Pair]
    BY <1>1 DEF SessionTypeOK
  <1> HIDE DEF new, minted
  <1>7. Only(r) /\ req'[r] = new
    BY <1>3, <1>4, RequestMoves
  <1>8. /\ pair' \in [Pairs -> Pair] /\ pair'[p] = minted
        /\ \A q \in Pairs : q # p => pair'[q] = pair[q]
    BY <1>2, <1>5, <1>6
  <1> QED
    BY <1>2, <1>3, <1>5, <1>7, <1>8

LEMMA MintedByIssue ==
    ASSUME SessionTypeOK, NEW p \in Pairs, ~Minted(p),
           \A q \in Pairs : q # p => pair'[q] = pair[q]
    PROVE  MintedStays
  BY DEF MintedStays, Minted

\* The copies of the other requests go on being of some epoch up to this one.
LEMMA CopiesKept ==
    ASSUME SessionInv, SessionTypeOK', MintedStays, account.epoch <= account'.epoch,
           NEW r \in Requests, Only(r), req'[r].pc \notin {"loaded", "checked"}
    PROVE  CopiesFollow'
  <1> SUFFICES ASSUME NEW q \in Requests, req'[q].pc \in {"loaded", "checked"}
               PROVE  /\ Minted(Presented(q))' /\ req'[q].row.epoch <= account'.epoch
                      /\ req'[q].pc = "checked" =>
                           (pair[Presented(q)].epoch = req[q].row.epoch)'
    BY DEF CopiesFollow
  <1>1. req'[q] = req[q] /\ Presented(q)' = Presented(q)
    BY DEF Only, Presented
  <1>2. Minted(Presented(q)) /\ req[q].row.epoch <= account.epoch
    BY <1>1 DEF SessionInv, CopiesFollow
  <1>3. /\ Minted(Presented(q))'
        /\ pair'[Presented(q)].epoch = pair[Presented(q)].epoch
    BY <1>1, <1>2 DEF MintedStays, Minted
  <1>4. req[q].row.epoch \in Nat /\ account.epoch \in Nat /\ account'.epoch \in Nat
    BY DEF SessionInv, SessionTypeOK, Request
  <1> QED
    BY <1>1, <1>2, <1>3, <1>4 DEF SessionInv, CopiesFollow

\* A change in progress stays the only one.
LEMMA ChangesKept ==
    ASSUME SessionInv, account'.epoch = account.epoch, NEW r \in Requests, Only(r),
           \/ req'[r].pc \in {"idle", "answered"}
           \/ req'[r].pc = "sent" /\ (req'[r].op = "change" => Changing = {})
           \/ req'[r].op # "change"
    PROVE  ChangesAlone'
  BY DEF SessionInv, ChangesAlone, Changing, Only

LEMMA PairsKept ==
    ASSUME SessionInv, UNCHANGED <<pair>>, account'.epoch = account.epoch,
           account'.password = account.password
    PROVE  PairsFollow' /\ MintedStays
  BY DEF SessionInv, PairsFollow, Minted, MintedStays

\* A pair minted under the epoch of the account is minted under its password.
LEMMA IssueKeeps ==
    ASSUME SessionInv, NEW r \in Requests, NEW e \in 0 .. MaxEpoch, NEW s \in Passwords,
           NEW parent \in Maybe, Issue(r, e, s, parent), UNCHANGED account,
           revoked' \in SUBSET ({"access", "refresh"} \X Pairs),
           e <= account.epoch, e = account.epoch => s = account.password
    PROVE  SessionInv'
  <1>1. /\ Only(r) /\ req'[r].pc = "answered" /\ pair' \in [Pairs -> Pair]
    BY IssueMints DEF SessionInv
  <1>2. PICK p \in Pairs : /\ ~Minted(p)
                           /\ pair'[p].epoch = e /\ pair'[p].password = s
                           /\ \A q \in Pairs : q # p => pair'[q] = pair[q]
    BY IssueMints DEF SessionInv
  <1>3. MintedStays
    BY <1>2, MintedByIssue DEF SessionInv
  <1>4. SessionTypeOK'
    BY <1>1 DEF SessionInv, SessionTypeOK, Only
  <1>5. PairsFollow'
    BY <1>2 DEF SessionInv, PairsFollow, Minted
  <1>6. account.epoch <= account'.epoch
    BY DEF SessionInv, SessionTypeOK
  <1> QED
    BY <1>1, <1>3, <1>4, <1>5, <1>6, CopiesKept, ChangesKept DEF SessionInv

-----------------------------------------------------------------------------
(* The invariant, one action after another.                                *)

LEMMA InitInv == AuthInit => SessionInv
  <1> SUFFICES ASSUME AuthInit PROVE SessionInv
    OBVIOUS
  <1>1. \A p \in Pairs : ~Minted(p)
    BY DEF AuthInit, Minted
  <1>2. \A r \in Requests : req[r].pc = "idle"
    BY NoRequestType DEF AuthInit
  <1>3. SessionTypeOK
    <2>1. SomePassword \in Passwords
      BY DEF SomePassword
    <2> QED
      BY <2>1, NoRequestType DEF AuthInit, SessionTypeOK, Pair, Maybe
  <1> QED
    BY <1>1, <1>2, <1>3 DEF SessionInv, PairsFollow, CopiesFollow, ChangesAlone, Changing

\* A request that answers, is forgotten or fails reads and writes nothing more.
LEMMA AnswerKeeps ==
    ASSUME SessionInv, NEW r \in Requests, Only(r), req'[r].pc \in {"idle", "answered"},
           UNCHANGED pair, revoked' \in SUBSET ({"access", "refresh"} \X Pairs),
           account' \in [exists: BOOLEAN, epoch: 0 .. MaxEpoch, password: Passwords],
           account'.epoch = account.epoch, account'.password = account.password
    PROVE  SessionInv'
  <1>1. SessionTypeOK'
    BY DEF SessionInv, SessionTypeOK, Only
  <1>2. account.epoch <= account'.epoch
    BY DEF SessionInv, SessionTypeOK
  <1> QED
    BY <1>1, <1>2, PairsKept, CopiesKept, ChangesKept DEF SessionInv

LEMMA SendInv ==
    ASSUME SessionInv, "change" \notin Races, NEW r \in Requests, NEW op \in Operations,
           NEW access \in Maybe, NEW refresh \in Maybe, NEW given \in Passwords,
           NEW new \in Passwords, Send(r, op, access, refresh, given, new)
    PROVE  SessionInv'
  <1> DEFINE sent == [NoRequest EXCEPT !.pc = "sent", !.op = op, !.access = access,
                                       !.refresh = refresh, !.given = given, !.new = new]
  <1>1. sent \in Request /\ sent.pc = "sent" /\ sent.op = op
    BY NoRequestType DEF Request
  <1>2. /\ req' = [req EXCEPT ![r] = sent] /\ UNCHANGED <<account, pair, revoked>>
        /\ op = "change" => Changing = {}
    BY DEF Send
  <1> HIDE DEF sent
  <1>3. Only(r) /\ req'[r].pc = "sent" /\ req'[r].op = op
    BY <1>1, <1>2, RequestMoves DEF SessionInv
  <1>4. SessionTypeOK'
    BY <1>2, <1>3 DEF SessionInv, SessionTypeOK, Only
  <1>5. account.epoch <= account'.epoch
    BY <1>2 DEF SessionInv, SessionTypeOK
  <1> QED
    BY <1>2, <1>3, <1>4, <1>5, PairsKept, CopiesKept, ChangesKept DEF SessionInv

LEMMA LoginInv ==
    ASSUME SessionInv, NEW r \in Requests, Login(r)
    PROVE  SessionInv'
  <1>1. CASE Issue(r, account.epoch, account.password, NoPair)
    <2>1. account.epoch \in 0 .. MaxEpoch /\ account.password \in Passwords
          /\ account.epoch <= account.epoch /\ NoPair \in Maybe
          /\ revoked' \in SUBSET ({"access", "refresh"} \X Pairs)
      BY DEF SessionInv, SessionTypeOK, Maybe, Login
    <2> QED
      BY <1>1, <2>1, IssueKeeps DEF Login
  <1>2. CASE Answer(r, "refused") /\ UNCHANGED pair
    BY <1>2, AnswerMoves, AnswerKeeps DEF Login, SessionInv, SessionTypeOK
  <1> QED
    BY <1>1, <1>2 DEF Login

LEMMA UseInv ==
    ASSUME SessionInv, NEW r \in Requests, Use(r)
    PROVE  SessionInv'
  <1>1. Only(r) /\ req'[r].pc = "answered" /\ UNCHANGED <<account, pair, revoked>>
    BY AnswerMoves DEF Use, SessionInv
  <1> QED
    BY <1>1, AnswerKeeps DEF SessionInv, SessionTypeOK

LEMMA LoseInv ==
    ASSUME SessionInv, NEW r \in Requests, Lose(r)
    PROVE  SessionInv'
  <1> DEFINE lost == [req[r] EXCEPT !.pc = "answered", !.answer = "lost", !.got = NoPair]
  <1>1. lost \in Request /\ lost.pc = "answered"
    BY DEF SessionInv, SessionTypeOK, Request, Maybe
  <1>2. req' = [req EXCEPT ![r] = lost] /\ UNCHANGED <<account, pair, revoked>>
    BY DEF Lose, SessionInv, SessionTypeOK
  <1> HIDE DEF lost
  <1>3. Only(r) /\ req'[r].pc = "answered"
    BY <1>1, <1>2, RequestMoves DEF SessionInv
  <1> QED
    BY <1>2, <1>3, AnswerKeeps DEF SessionInv, SessionTypeOK

\* The account is read: the copy is of this very epoch.
LEMMA LoadInv ==
    ASSUME SessionInv, NEW r \in Requests, Load(r)
    PROVE  SessionInv'
  <1>1. UNCHANGED <<account, pair, revoked>>
    BY DEF Load
  <1>2. CASE Answer(r, "refused")
    BY <1>1, <1>2, AnswerMoves, AnswerKeeps DEF SessionInv, SessionTypeOK
  <1>3. CASE /\ Decodes(TypeOf(r), Presented(r))
             /\ req' = [req EXCEPT ![r].pc = "loaded",
                          ![r].row = [epoch |-> account.epoch, password |-> account.password]]
    <2> DEFINE copy == [epoch |-> account.epoch, password |-> account.password]
               new == [req[r] EXCEPT !.pc = "loaded", !.row = copy]
    <2>1. copy \in [epoch: 0 .. MaxEpoch, password: Passwords] /\ copy.epoch = account.epoch
      BY DEF SessionInv, SessionTypeOK
    <2> HIDE DEF copy
    <2>2. /\ new \in Request /\ new.pc = "loaded" /\ new.row = copy /\ new.op = req[r].op
          /\ new.access = req[r].access /\ new.refresh = req[r].refresh
      BY <2>1 DEF SessionInv, SessionTypeOK, Request
    <2>3. req' = [req EXCEPT ![r] = new]
      BY <1>3 DEF copy, SessionInv, SessionTypeOK
    <2> HIDE DEF new
    <2>4. Only(r) /\ req'[r] = new
      BY <2>2, <2>3, RequestMoves DEF SessionInv
    <2>5. Presented(r)' = Presented(r) /\ Presented(r) \in Maybe
      BY <2>2, <2>4 DEF Presented, SessionInv, SessionTypeOK, Request
    <2>6. Minted(Presented(r))
      BY <1>3, <2>5 DEF Decodes, Minted, Maybe
    <2>7. SessionTypeOK'
      BY <1>1, <2>4 DEF SessionInv, SessionTypeOK, Only
    <2>8. CopiesFollow'
      <3>1. account.epoch <= account.epoch
        BY DEF SessionInv, SessionTypeOK
      <3>2. \A q \in Requests : q # r => Presented(q)' = Presented(q) /\ req'[q] = req[q]
        BY <2>4 DEF Only, Presented
      <3> QED
        BY <1>1, <2>1, <2>2, <2>4, <2>5, <2>6, <3>1, <3>2
        DEF SessionInv, CopiesFollow, Minted
    <2>9. ChangesAlone'
      <3>1. r \in Changing \/ req[r].op # "change"
        BY DEF Load, Changing
      <3> QED
        BY <1>1, <2>1, <2>2, <2>4, <3>1 DEF SessionInv, ChangesAlone, Changing, Only
    <2> QED
      BY <1>1, <2>7, <2>8, <2>9, PairsKept DEF SessionInv
  <1> QED
    BY <1>2, <1>3 DEF Load

\* The token is checked against the copy, whatever the account has become.
LEMMA CheckInv ==
    ASSUME SessionInv, NEW r \in Requests, Check(r)
    PROVE  SessionInv'
  <1>1. UNCHANGED <<account, pair, revoked>> /\ req[r].pc = "loaded"
    BY DEF Check
  <1>2. CASE Answer(r, "refused") \/ Answer(r, "wrong")
    BY <1>1, <1>2, AnswerMoves, AnswerKeeps DEF SessionInv, SessionTypeOK
  <1>3. CASE /\ AssertLive(TypeOf(r), Presented(r), req[r].row)
             /\ req' = [req EXCEPT ![r].pc = "checked"]
    <2> DEFINE new == [req[r] EXCEPT !.pc = "checked"]
    <2>1. /\ new \in Request /\ new.pc = "checked" /\ new.row = req[r].row
          /\ new.op = req[r].op /\ new.access = req[r].access /\ new.refresh = req[r].refresh
      BY DEF SessionInv, SessionTypeOK, Request
    <2>2. req' = [req EXCEPT ![r] = new]
      BY <1>3 DEF SessionInv, SessionTypeOK
    <2> HIDE DEF new
    <2>3. Only(r) /\ req'[r] = new
      BY <2>1, <2>2, RequestMoves DEF SessionInv
    <2>4. \A q \in Requests : Presented(q)' = Presented(q)
      BY <2>1, <2>3 DEF Only, Presented
    <2>5. SessionTypeOK'
      BY <1>1, <2>3 DEF SessionInv, SessionTypeOK, Only
    <2>6. CopiesFollow'
      BY <1>1, <1>3, <2>1, <2>3, <2>4
      DEF SessionInv, CopiesFollow, AssertLive, Minted, Only
    <2>7. ChangesAlone'
      BY <1>1, <2>1, <2>3 DEF SessionInv, ChangesAlone, Changing, Only
    <2> QED
      BY <1>1, <2>5, <2>6, <2>7, PairsKept DEF SessionInv
  <1> QED
    BY <1>2, <1>3 DEF Check

\* The pair a renewal mints is of the epoch and the password of the token
\* that was spent for it.
LEMMA RefreshInv ==
    ASSUME SessionInv, NEW r \in Requests, Refresh(r)
    PROVE  SessionInv'
  <1> DEFINE spent == req[r].refresh
  <1>1. /\ UNCHANGED account /\ req[r].pc = "checked" /\ req[r].op = "refresh"
        /\ Revoking({<<"refresh", spent>>})
        /\ Issue(r, req[r].row.epoch, pair[spent].password, spent)
    BY DEF Refresh, At
  <1>2. Minted(spent) /\ req[r].row.epoch <= account.epoch
        /\ pair[spent].epoch = req[r].row.epoch
    BY <1>1 DEF SessionInv, CopiesFollow, Presented
  <1>3. /\ spent \in Pairs /\ spent \in Maybe
        /\ req[r].row.epoch \in 0 .. MaxEpoch /\ pair[spent].password \in Passwords
    BY <1>2 DEF SessionInv, SessionTypeOK, Request, Pair, Minted, Maybe
  <1>4. revoked' \in SUBSET ({"access", "refresh"} \X Pairs)
    BY <1>1, <1>3 DEF Revoking, SessionInv, SessionTypeOK
  <1>5. req[r].row.epoch = account.epoch => pair[spent].password = account.password
    BY <1>2 DEF SessionInv, PairsFollow, Minted
  <1> QED
    BY <1>1, <1>2, <1>3, <1>4, <1>5, IssueKeeps

LEMMA LogoutInv ==
    ASSUME SessionInv, NEW r \in Requests, Logout(r)
    PROVE  SessionInv'
  <1> DEFINE given == {<<"access", req[r].access>>} \cup
                {<<"refresh", p>> : p \in {q \in {req[r].refresh} : Decodes("refresh", q)}}
  <1>1. /\ Only(r) /\ req'[r].pc = "answered" /\ UNCHANGED <<account, pair>>
        /\ Revoking(given) /\ req[r].pc = "checked" /\ req[r].op = "logout"
    BY AnswerMoves DEF Logout, At, SessionInv
  <1>2. req[r].access \in Pairs
    BY <1>1 DEF SessionInv, CopiesFollow, Presented, Minted
  <1>3. Decodes("refresh", req[r].refresh) => req[r].refresh \in Pairs
    BY DEF Decodes, SessionInv, SessionTypeOK, Request, Maybe
  <1>4. given \in SUBSET ({"access", "refresh"} \X Pairs)
    BY <1>2, <1>3
  <1>5. revoked' \in SUBSET ({"access", "refresh"} \X Pairs)
    BY <1>1, <1>4 DEF Revoking, SessionInv, SessionTypeOK
  <1> QED
    BY <1>1, <1>5, AnswerKeeps DEF SessionInv, SessionTypeOK

\* The epoch rises above that of every pair there is, since the copy it is
\* counted up from is the account's.
LEMMA ChangePasswordInv ==
    ASSUME SessionInv, NEW r \in Requests, ChangePassword(r)
    PROVE  SessionInv'
  <1>1. /\ req[r].pc = "checked" /\ req[r].op = "change" /\ r \in Changing
        /\ req[r].row.epoch < MaxEpoch
        /\ Revoking({<<"access", req[r].access>>})
    BY DEF ChangePassword, At, Changing
  <1>2. req[r].access \in Pairs
    BY <1>1 DEF SessionInv, CopiesFollow, Presented, Minted
  <1>3. revoked' \in SUBSET ({"access", "refresh"} \X Pairs)
    BY <1>1, <1>2 DEF Revoking, SessionInv, SessionTypeOK
  <1>4. CASE ~account.exists
    <2>1. Only(r) /\ req'[r].pc = "answered" /\ UNCHANGED <<account, pair>>
      BY <1>4, AnswerMoves DEF ChangePassword, SessionInv
    <2> QED
      BY <1>3, <2>1, AnswerKeeps DEF SessionInv, SessionTypeOK
  <1>5. CASE account.exists
    <2> DEFINE e == account.epoch + 1
               s == req[r].new
    <2>1. /\ e \in 0 .. MaxEpoch /\ s \in Passwords /\ NextEpoch(req[r].row) = e
          /\ account.epoch \in Nat /\ NoPair \in Maybe
      <3>1. req[r].row.epoch = account.epoch
        BY <1>1 DEF SessionInv, ChangesAlone
      <3>2. account.epoch \in 0 .. MaxEpoch /\ req[r].new \in Passwords
        BY DEF SessionInv, SessionTypeOK, Request
      <3> QED
        BY <1>1, <3>1, <3>2 DEF NextEpoch, Maybe
    <2>2. /\ account' = [account EXCEPT !.epoch = e, !.password = s]
          /\ Issue(r, e, s, NoPair)
      BY <1>5, <2>1 DEF ChangePassword
    <2> HIDE DEF e, s
    <2>3. /\ account' \in [exists: BOOLEAN, epoch: 0 .. MaxEpoch, password: Passwords]
          /\ account'.epoch = e /\ account'.password = s
      BY <2>1, <2>2 DEF SessionInv, SessionTypeOK
    <2>4. /\ Only(r) /\ req'[r].pc = "answered" /\ pair' \in [Pairs -> Pair]
      BY <2>1, <2>2, IssueMints DEF SessionInv
    <2>5. PICK p \in Pairs : /\ ~Minted(p)
                             /\ pair'[p].epoch = e /\ pair'[p].password = s
                             /\ \A q \in Pairs : q # p => pair'[q] = pair[q]
      BY <2>1, <2>2, IssueMints DEF SessionInv
    <2>6. MintedStays
      BY <2>5, MintedByIssue DEF SessionInv
    <2>7. account.epoch < e
      BY <2>1 DEF e
    <2>8. SessionTypeOK'
      BY <1>3, <2>3, <2>4 DEF SessionInv, SessionTypeOK, Only
    <2>9. PairsFollow'
      <3> SUFFICES ASSUME NEW q \in Pairs, Minted(q)'
                   PROVE  /\ pair'[q].epoch <= account'.epoch
                          /\ pair'[q].epoch = account'.epoch =>
                               pair'[q].password = account'.password
        BY DEF PairsFollow
      <3>1. CASE q = p
        BY <2>1, <2>3, <2>5, <3>1
      <3>2. CASE q # p
        <4>1. pair'[q] = pair[q] /\ pair[q].epoch <= account.epoch
          BY <2>5, <3>2 DEF SessionInv, PairsFollow, Minted
        <4>2. pair[q].epoch \in Nat
          BY DEF SessionInv, SessionTypeOK, Pair
        <4> QED
          BY <2>1, <2>3, <2>7, <4>1, <4>2
      <3> QED
        BY <3>1, <3>2
    <2>10. CopiesFollow'
      <3>1. account.epoch <= account'.epoch
        BY <2>1, <2>3, <2>7
      <3> QED
        BY <2>4, <2>6, <2>8, <3>1, CopiesKept
    <2>11. ChangesAlone'
      BY <1>1, <2>4 DEF SessionInv, ChangesAlone, Changing, Only
    <2> QED
      BY <2>8, <2>9, <2>10, <2>11 DEF SessionInv
  <1> QED
    BY <1>4, <1>5

LEMMA EraseInv ==
    ASSUME SessionInv, NEW r \in Requests, Erase(r)
    PROVE  SessionInv'
  <1>1. /\ Only(r) /\ req'[r].pc = "answered" /\ UNCHANGED pair /\ revoked' = {}
        /\ account' = [account EXCEPT !.exists = FALSE]
    BY AnswerMoves DEF Erase, SessionInv
  <1>2. /\ account' \in [exists: BOOLEAN, epoch: 0 .. MaxEpoch, password: Passwords]
        /\ account'.epoch = account.epoch /\ account'.password = account.password
    BY <1>1 DEF SessionInv, SessionTypeOK
  <1> QED
    BY <1>1, <1>2, AnswerKeeps

LEMMA ServeInv ==
    ASSUME SessionInv, NEW r \in Requests, Serve(r)
    PROVE  SessionInv'
  BY LoginInv, UseInv, LoadInv, CheckInv, RefreshInv, LogoutInv, ChangePasswordInv, EraseInv
  DEF Serve

\* Tokens that expire and rows that are purged change no epoch.
LEMMA TimeInv ==
    ASSUME SessionInv, Time
    PROVE  SessionInv'
  <1>1. UNCHANGED <<account, req>>
    BY DEF Time, Expire, PurgeExpired
  <1> DEFINE kept == /\ pair' \in [Pairs -> Pair]
                     /\ revoked' \in SUBSET ({"access", "refresh"} \X Pairs)
                     /\ \A p \in Pairs : /\ Minted(p)' <=> Minted(p)
                                         /\ pair'[p].epoch = pair[p].epoch
                                         /\ pair'[p].password = pair[p].password
  <1>2. kept
    <2>1. CASE PurgeExpired
      BY <2>1 DEF PurgeExpired, SessionInv, SessionTypeOK, Minted
    <2>2. ASSUME NEW p \in Pairs, Expire(p) PROVE kept
      <3> DEFINE age == IF pair[p].age = "fresh" THEN "stale" ELSE "dead"
                 new == [pair[p] EXCEPT !.age = age]
      <3>1. age \in {"stale", "dead"}
        OBVIOUS
      <3>2. pair' = [pair EXCEPT ![p] = new] /\ UNCHANGED revoked
        BY <2>2 DEF Expire
      <3> HIDE DEF age
      <3>3. /\ new \in Pair /\ new.age = age
            /\ new.epoch = pair[p].epoch /\ new.password = pair[p].password
        BY <3>1 DEF SessionInv, SessionTypeOK, Pair
      <3> HIDE DEF new
      <3>4. pair[p].age # "unminted"
        BY <2>2 DEF Expire
      <3> QED
        BY <3>1, <3>2, <3>3, <3>4 DEF SessionInv, SessionTypeOK, Minted
    <2> QED
      BY <2>1, <2>2 DEF Time
  <1>3. SessionTypeOK'
    BY <1>1, <1>2 DEF SessionInv, SessionTypeOK
  <1>4. PairsFollow'
    BY <1>1, <1>2 DEF SessionInv, PairsFollow
  <1>5. CopiesFollow'
    <2>1. \A r \in Requests : Presented(r)' = Presented(r)
      BY <1>1 DEF Presented
    <2> QED
      BY <1>1, <1>2, <2>1 DEF SessionInv, CopiesFollow, Minted
  <1>6. ChangesAlone'
    BY <1>1 DEF SessionInv, ChangesAlone, Changing
  <1> QED
    BY <1>3, <1>4, <1>5, <1>6 DEF SessionInv

\* Slots that are cleared, and requests that are sent and change no password.
LEMMA ClientKeeps ==
    ASSUME SessionInv, UNCHANGED <<account, pair, revoked>>, req' \in [Requests -> Request],
           \A r \in Requests : \/ req'[r] = req[r]
                               \/ req'[r].pc = "idle"
                               \/ req'[r].pc = "sent" /\ req'[r].op # "change"
    PROVE  SessionInv'
  <1>1. SessionTypeOK' /\ PairsFollow'
    BY PairsKept DEF SessionInv, SessionTypeOK
  <1>2. CopiesFollow'
    <2>1. \A r \in Requests : req'[r] = req[r] => Presented(r)' = Presented(r)
      BY DEF Presented
    <2> QED
      BY <2>1 DEF SessionInv, CopiesFollow, Minted
  <1>3. ChangesAlone'
    BY DEF SessionInv, ChangesAlone, Changing
  <1> QED
    BY <1>1, <1>2, <1>3 DEF SessionInv

LEMMA AnyCallerInv ==
    ASSUME SessionInv, "change" \notin Races, NEW r \in Requests, AnyCaller(r)
    PROVE  SessionInv'
  <1>1. ASSUME NEW op \in Operations, NEW given \in Passwords, NEW new \in Passwords,
               NEW access \in {NoPair} \cup (Pairs \ Unminted),
               NEW refresh \in {NoPair} \cup (Pairs \ Unminted),
               Send(r, op, access, refresh, given, new)
        PROVE  SessionInv'
    BY <1>1, SendInv DEF Maybe
  <1>2. CASE Lose(r)
    BY <1>2, LoseInv
  <1>3. CASE req' = [req EXCEPT ![r] = NoRequest] /\ UNCHANGED <<account, pair, revoked>>
    <2>1. Only(r) /\ req'[r].pc = "idle"
      BY <1>3, NoRequestType, RequestMoves DEF SessionInv
    <2> QED
      BY <1>3, <2>1, ClientKeeps DEF Only
  <1> QED
    BY <1>1, <1>2, <1>3 DEF AnyCaller

-----------------------------------------------------------------------------
\* A token the API would accept is of the account's epoch, and so of its
\* password.
LEMMA InvImplies == SessionInv => LiveRestsOnPassword
  BY DEF SessionInv, PairsFollow, LiveRestsOnPassword, Live, AssertLive, Decodes, Minted

LEMMA StepInv ==
    ASSUME "change" \notin Races
    PROVE  SessionInv /\ [AuthNext]_authVars => SessionInv'
  <1> SUFFICES ASSUME SessionInv, [AuthNext]_authVars PROVE SessionInv'
    OBVIOUS
  <1>1. CASE UNCHANGED authVars
    BY <1>1, ClientKeeps DEF authVars, SessionInv, SessionTypeOK
  <1>2. CASE AuthNext
    BY <1>2, AnyCallerInv, ServeInv, TimeInv DEF AuthNext
  <1> QED
    BY <1>1, <1>2

\* "Every session on every device ends here": whoever sends whatever, and
\* whenever it is served, a token that is accepted rests on the password the
\* account has now, as long as no two changes of it overlap.
THEOREM SessionsRestOnPassword ==
    ASSUME "change" \notin Races
    PROVE  AuthSpec => [](SessionTypeOK /\ LiveRestsOnPassword)
  <1>1. SessionInv => SessionTypeOK /\ LiveRestsOnPassword
    BY InvImplies DEF SessionInv
  <1> QED
    BY <1>1, InitInv, StepInv, PTL DEF AuthSpec

-----------------------------------------------------------------------------
(* What a step of the server does to the pairs and to the request it       *)
(* serves, whatever races: nothing below rests on "change" being shut.     *)

\* A request that is being served presented a pair that was minted.
PresentedMinted ==
    \A r \in Requests : req[r].pc \in {"loaded", "checked"} => Minted(Presented(r))

ServedInv == SessionTypeOK /\ PresentedMinted

\* The refresh token of p renews nothing any more, nor will it again.
Spent(p) == ~account.exists \/ ~Decodes("refresh", p) \/ Revoked("refresh", p)

\* Pairs keep their parents, and tokens that are spent stay so.
PairsLast ==
    \A p \in Pairs : Minted(p) =>
        /\ Minted(p)' /\ pair'[p].parent = pair[p].parent
        /\ Spent(p) => Spent(p)'

\* r is answered, or is one read further, and presents what it did.
Answers == {"none", "ok", "refused", "wrong", "lost"}
Goes(r) ==
    /\ Only(r) /\ req[r].pc # "idle" /\ req'[r].pc # "idle"
    /\ req'[r].op = req[r].op /\ req'[r].refresh = req[r].refresh
    /\ \/ req'[r].pc = "answered"
       \/ /\ req[r].pc # "answered"
          /\ req'[r].answer = req[r].answer /\ req'[r].got = req[r].got

\* The pair p is minted and handed to r, which spent its own for it if any.
Handed(r, p) ==
    /\ ~Minted(p) /\ Minted(p)' /\ \A q \in Pairs : q # p => pair'[q] = pair[q]
    /\ req'[r].pc = "answered" /\ req'[r].got = p /\ req[r].op # "use"
    /\ \/ pair'[p].parent = NoPair
       \/ At(r, "refresh") /\ pair'[p].parent = req[r].refresh
          /\ Revoking({<<"refresh", req[r].refresh>>}) /\ UNCHANGED account

Served(r) ==
    /\ Goes(r) /\ PairsLast
    /\ \/ UNCHANGED pair /\ req'[r].got \in {NoPair, req[r].got}
       \/ \E p \in Pairs : Handed(r, p)

\* A request that is answered and handed nothing.
LEMMA AnswerServes ==
    ASSUME ServedInv, NEW r \in Requests, NEW a \in Answers, Answer(r, a),
           req[r].pc # "idle", UNCHANGED pair,
           account' \in [exists: BOOLEAN, epoch: 0 .. MaxEpoch, password: Passwords],
           revoked' \in SUBSET ({"access", "refresh"} \X Pairs),
           account'.exists => account.exists /\ revoked \subseteq revoked'
    PROVE  ServedInv' /\ Served(r)
  <1> DEFINE new == [req[r] EXCEPT !.pc = "answered", !.answer = a]
  <1>0. req[r] \in Request /\ a \in {"none", "ok", "refused", "wrong", "lost"}
    BY DEF ServedInv, SessionTypeOK, Answers
  <1>1. /\ new \in Request /\ new.pc = "answered" /\ new.op = req[r].op
        /\ new.refresh = req[r].refresh /\ new.got = req[r].got
    BY <1>0 DEF Request
  <1>2. req' = [req EXCEPT ![r] = new]
    BY DEF Answer, ServedInv, SessionTypeOK
  <1> HIDE DEF new
  <1>3. Only(r) /\ req'[r] = new
    BY <1>1, <1>2, RequestMoves DEF ServedInv
  <1>4. PresentedMinted'
    BY <1>1, <1>3 DEF ServedInv, PresentedMinted, Presented, Minted, Only
  <1>5. ServedInv'
    BY <1>3, <1>4 DEF ServedInv, SessionTypeOK, Only
  <1>6. PairsLast
    BY DEF PairsLast, Minted, Spent, Decodes, Revoked
  <1>7. req[r].got \in Maybe
    BY DEF ServedInv, SessionTypeOK, Request
  <1> QED
    BY <1>1, <1>3, <1>5, <1>6 DEF Served, Goes

LEMMA IssueServes ==
    ASSUME ServedInv, NEW r \in Requests, NEW e \in 0 .. MaxEpoch, NEW s \in Passwords,
           NEW parent \in Maybe, Issue(r, e, s, parent), req[r].pc # "idle", req[r].op # "use",
           account' \in [exists: BOOLEAN, epoch: 0 .. MaxEpoch, password: Passwords],
           revoked' \in SUBSET ({"access", "refresh"} \X Pairs),
           account'.exists => account.exists, revoked \subseteq revoked',
           \/ parent = NoPair
           \/ At(r, "refresh") /\ parent = req[r].refresh
              /\ Revoking({<<"refresh", parent>>}) /\ UNCHANGED account
    PROVE  ServedInv' /\ Served(r)
  <1>1. PICK p \in Pairs :
          /\ ~Minted(p) /\ pair'[p].age = "fresh" /\ req'[r].got = p
          /\ pair'[p].parent = parent
          /\ \A q \in Pairs : q # p => pair'[q] = pair[q]
    BY IssueMints DEF ServedInv
  <1>2. /\ Only(r) /\ req'[r].pc = "answered" /\ pair' \in [Pairs -> Pair]
        /\ req'[r].op = req[r].op /\ req'[r].refresh = req[r].refresh
    BY IssueMints DEF ServedInv
  <1>3. Handed(r, p)
    BY <1>1, <1>2 DEF Handed, Minted
  <1>4. PairsLast
    BY <1>1 DEF PairsLast, Minted, Spent, Decodes, Revoked
  <1>5. PresentedMinted'
    BY <1>2, <1>4 DEF ServedInv, PresentedMinted, PairsLast, Presented, Only, Minted
  <1>6. ServedInv'
    BY <1>2, <1>5 DEF ServedInv, SessionTypeOK, Only
  <1> QED
    BY <1>2, <1>3, <1>4, <1>6 DEF Served, Goes

\* A request that is one read further.
LEMMA ReadServes ==
    ASSUME ServedInv, NEW r \in Requests, NEW new \in Request,
           req' = [req EXCEPT ![r] = new], UNCHANGED <<account, pair, revoked>>,
           req[r].pc \in {"sent", "loaded"}, new.pc \in {"loaded", "checked"},
           new.op = req[r].op, new.access = req[r].access, new.refresh = req[r].refresh,
           new.answer = req[r].answer, new.got = req[r].got, Minted(Presented(r))
    PROVE  ServedInv' /\ Served(r)
  <1>1. Only(r) /\ req'[r] = new
    BY RequestMoves DEF ServedInv
  <1>2. \A q \in Requests : Presented(q)' = Presented(q)
    BY <1>1 DEF Only, Presented
  <1>3. ServedInv'
    BY <1>1, <1>2 DEF ServedInv, SessionTypeOK, PresentedMinted, Minted, Only
  <1>4. PairsLast
    BY DEF PairsLast, Minted, Spent, Decodes, Revoked
  <1> QED
    BY <1>1, <1>3, <1>4 DEF Served, Goes

LEMMA CallServes ==
    ASSUME ServedInv, NEW r \in Requests, Use(r) \/ Lose(r)
    PROVE  ServedInv' /\ Served(r)
  <1>1. CASE Use(r)
    BY <1>1, AnswerServes DEF Use, Answers, ServedInv, SessionTypeOK
  <1>2. CASE Lose(r)
    <2> DEFINE lost == [req[r] EXCEPT !.pc = "answered", !.answer = "lost", !.got = NoPair]
    <2>1. /\ lost \in Request /\ lost.pc = "answered" /\ lost.op = req[r].op
          /\ lost.refresh = req[r].refresh /\ lost.got = NoPair
      BY DEF ServedInv, SessionTypeOK, Request, Maybe
    <2>2. req' = [req EXCEPT ![r] = lost] /\ UNCHANGED <<account, pair, revoked>>
      BY <1>2 DEF Lose, ServedInv, SessionTypeOK
    <2> HIDE DEF lost
    <2>3. Only(r) /\ req'[r] = lost
      BY <2>1, <2>2, RequestMoves DEF ServedInv
    <2>4. PresentedMinted'
      BY <2>1, <2>2, <2>3 DEF ServedInv, PresentedMinted, Presented, Minted, Only
    <2>5. ServedInv'
      BY <2>2, <2>3, <2>4 DEF ServedInv, SessionTypeOK, Only
    <2>6. PairsLast
      BY <2>2 DEF PairsLast, Minted, Spent, Decodes, Revoked
    <2>7. req[r].pc # "idle"
      BY <1>2 DEF Lose
    <2> QED
      BY <2>1, <2>2, <2>3, <2>5, <2>6, <2>7 DEF Served, Goes
  <1> QED
    BY <1>1, <1>2

LEMMA LoginServes ==
    ASSUME ServedInv, NEW r \in Requests, Login(r)
    PROVE  ServedInv' /\ Served(r)
  <1>1. /\ UNCHANGED <<account, revoked>> /\ NoPair \in Maybe
        /\ req[r].pc = "sent" /\ req[r].op = "login"
        /\ account \in [exists: BOOLEAN, epoch: 0 .. MaxEpoch, password: Passwords]
        /\ account.epoch \in 0 .. MaxEpoch /\ account.password \in Passwords
        /\ revoked \in SUBSET ({"access", "refresh"} \X Pairs)
    BY DEF Login, ServedInv, SessionTypeOK, Maybe
  <1>2. CASE Issue(r, account.epoch, account.password, NoPair)
    BY <1>1, <1>2, IssueServes
  <1>3. CASE Answer(r, "refused") /\ UNCHANGED pair
    BY <1>1, <1>3, AnswerServes DEF Answers
  <1> QED
    BY <1>2, <1>3 DEF Login

LEMMA LoadServes ==
    ASSUME ServedInv, NEW r \in Requests, Load(r)
    PROVE  ServedInv' /\ Served(r)
  <1>1. UNCHANGED <<account, pair, revoked>> /\ req[r].pc = "sent"
    BY DEF Load
  <1>2. CASE Answer(r, "refused")
    BY <1>1, <1>2, AnswerServes DEF Answers, ServedInv, SessionTypeOK
  <1>3. CASE /\ Decodes(TypeOf(r), Presented(r))
             /\ req' = [req EXCEPT ![r].pc = "loaded",
                          ![r].row = [epoch |-> account.epoch, password |-> account.password]]
    <2> DEFINE copy == [epoch |-> account.epoch, password |-> account.password]
               new == [req[r] EXCEPT !.pc = "loaded", !.row = copy]
    <2>1. copy \in [epoch: 0 .. MaxEpoch, password: Passwords]
      BY DEF ServedInv, SessionTypeOK
    <2> HIDE DEF copy
    <2>2. /\ new \in Request /\ new.pc = "loaded" /\ new.op = req[r].op
          /\ new.access = req[r].access /\ new.refresh = req[r].refresh
          /\ new.answer = req[r].answer /\ new.got = req[r].got
      BY <2>1 DEF ServedInv, SessionTypeOK, Request
    <2>3. req' = [req EXCEPT ![r] = new]
      BY <1>3 DEF copy, ServedInv, SessionTypeOK
    <2> HIDE DEF new
    <2>4. Presented(r) \in Maybe
      BY DEF Presented, ServedInv, SessionTypeOK, Request
    <2>5. Minted(Presented(r))
      BY <1>3, <2>4 DEF Decodes, Minted, Maybe
    <2> QED
      BY <1>1, <2>2, <2>3, <2>5, ReadServes
  <1> QED
    BY <1>2, <1>3 DEF Load

LEMMA CheckServes ==
    ASSUME ServedInv, NEW r \in Requests, Check(r)
    PROVE  ServedInv' /\ Served(r)
  <1>1. UNCHANGED <<account, pair, revoked>> /\ req[r].pc = "loaded"
    BY DEF Check
  <1>2. CASE Answer(r, "refused") \/ Answer(r, "wrong")
    BY <1>1, <1>2, AnswerServes DEF Answers, ServedInv, SessionTypeOK
  <1>3. CASE req' = [req EXCEPT ![r].pc = "checked"]
    <2> DEFINE new == [req[r] EXCEPT !.pc = "checked"]
    <2>1. /\ new \in Request /\ new.pc = "checked" /\ new.op = req[r].op
          /\ new.access = req[r].access /\ new.refresh = req[r].refresh
          /\ new.answer = req[r].answer /\ new.got = req[r].got
      BY DEF ServedInv, SessionTypeOK, Request
    <2>2. req' = [req EXCEPT ![r] = new]
      BY <1>3 DEF ServedInv, SessionTypeOK
    <2> HIDE DEF new
    <2> QED
      BY <1>1, <2>1, <2>2, ReadServes DEF ServedInv, PresentedMinted
  <1> QED
    BY <1>2, <1>3 DEF Check

LEMMA RefreshServes ==
    ASSUME ServedInv, NEW r \in Requests, Refresh(r)
    PROVE  ServedInv' /\ Served(r)
  <1> DEFINE spent == req[r].refresh
  <1>1. /\ UNCHANGED account /\ At(r, "refresh")
        /\ Revoking({<<"refresh", spent>>})
        /\ Issue(r, req[r].row.epoch, pair[spent].password, spent)
    BY DEF Refresh
  <1>2. req[r].pc # "idle" /\ req[r].op # "use" /\ Minted(spent)
    BY <1>1 DEF At, ServedInv, PresentedMinted, Presented
  <1>3. /\ spent \in Pairs /\ spent \in Maybe /\ req[r].row.epoch \in 0 .. MaxEpoch
        /\ pair[spent].password \in Passwords
    BY <1>2 DEF ServedInv, SessionTypeOK, Request, Pair, Minted, Maybe
  <1>4. /\ revoked' \in SUBSET ({"access", "refresh"} \X Pairs)
        /\ revoked \subseteq revoked'
    BY <1>1, <1>3 DEF Revoking, ServedInv, SessionTypeOK
  <1>5. account \in [exists: BOOLEAN, epoch: 0 .. MaxEpoch, password: Passwords]
    BY DEF ServedInv, SessionTypeOK
  <1> QED
    BY <1>1, <1>2, <1>3, <1>4, <1>5, IssueServes

LEMMA LogoutServes ==
    ASSUME ServedInv, NEW r \in Requests, Logout(r)
    PROVE  ServedInv' /\ Served(r)
  <1> DEFINE given == {<<"access", req[r].access>>} \cup
                {<<"refresh", p>> : p \in {q \in {req[r].refresh} : Decodes("refresh", q)}}
  <1>1. /\ Answer(r, "ok") /\ UNCHANGED <<account, pair>>
        /\ Revoking(given) /\ req[r].pc = "checked" /\ req[r].op = "logout"
    BY DEF Logout, At
  <1>2. req[r].access \in Pairs
    BY <1>1 DEF ServedInv, PresentedMinted, Presented, Minted
  <1>3. Decodes("refresh", req[r].refresh) => req[r].refresh \in Pairs
    BY DEF Decodes, ServedInv, SessionTypeOK, Request, Maybe
  <1>4. given \in SUBSET ({"access", "refresh"} \X Pairs)
    BY <1>2, <1>3
  <1> HIDE DEF given
  <1>5. /\ revoked' \in SUBSET ({"access", "refresh"} \X Pairs)
        /\ revoked \subseteq revoked'
    BY <1>1, <1>4 DEF Revoking, ServedInv, SessionTypeOK
  <1> QED
    BY <1>1, <1>5, AnswerServes DEF Answers, ServedInv, SessionTypeOK

LEMMA ChangeServes ==
    ASSUME ServedInv, NEW r \in Requests, ChangePassword(r)
    PROVE  ServedInv' /\ Served(r)
  <1> DEFINE e == NextEpoch(req[r].row)
  <1>1. /\ req[r].pc = "checked" /\ req[r].op = "change" /\ req[r].row.epoch < MaxEpoch
        /\ Revoking({<<"access", req[r].access>>})
    BY DEF ChangePassword, At
  <1>2. req[r].access \in Pairs
    BY <1>1 DEF ServedInv, PresentedMinted, Presented, Minted
  <1>3. /\ revoked' \in SUBSET ({"access", "refresh"} \X Pairs)
        /\ revoked \subseteq revoked'
    BY <1>1, <1>2 DEF Revoking, ServedInv, SessionTypeOK
  <1>4. CASE account.exists
    <2>1. e \in 0 .. MaxEpoch /\ req[r].new \in Passwords /\ NoPair \in Maybe
      BY <1>1 DEF NextEpoch, ServedInv, SessionTypeOK, Request, Maybe
    <2>2. /\ account' = [account EXCEPT !.epoch = e, !.password = req[r].new]
          /\ Issue(r, e, req[r].new, NoPair)
      BY <1>4 DEF ChangePassword
    <2> HIDE DEF e
    <2>3. account' \in [exists: BOOLEAN, epoch: 0 .. MaxEpoch, password: Passwords]
      BY <2>1, <2>2 DEF ServedInv, SessionTypeOK
    <2> QED
      BY <1>1, <1>3, <1>4, <2>1, <2>2, <2>3, IssueServes
  <1>5. CASE ~account.exists
    BY <1>1, <1>3, <1>5, AnswerServes
    DEF ChangePassword, Answers, ServedInv, SessionTypeOK
  <1> QED
    BY <1>4, <1>5

LEMMA EraseServes ==
    ASSUME ServedInv, NEW r \in Requests, Erase(r)
    PROVE  ServedInv' /\ Served(r)
  <1>1. /\ req[r].pc = "checked" /\ Answer(r, "ok") /\ UNCHANGED pair /\ revoked' = {}
        /\ account' = [account EXCEPT !.exists = FALSE]
    BY DEF Erase, At
  <1>2. /\ account' \in [exists: BOOLEAN, epoch: 0 .. MaxEpoch, password: Passwords]
        /\ ~account'.exists
    BY <1>1 DEF ServedInv, SessionTypeOK
  <1> QED
    BY <1>1, <1>2, AnswerServes DEF Answers

LEMMA ServerServes ==
    ASSUME ServedInv, NEW r \in Requests, Serve(r) \/ Lose(r)
    PROVE  ServedInv' /\ Served(r)
  BY CallServes, LoginServes, LoadServes, CheckServes, RefreshServes, LogoutServes,
     ChangeServes, EraseServes
  DEF Serve

\* Time takes tokens away, and from the denylist only what has expired.
LEMMA TimePasses ==
    ASSUME ServedInv, Time
    PROVE  /\ ServedInv' /\ UNCHANGED <<account, req>> /\ PairsLast
           /\ \A p \in Pairs : pair'[p].parent = pair[p].parent /\ (Minted(p)' => Minted(p))
  <1>1. UNCHANGED <<account, req>>
    BY DEF Time, Expire, PurgeExpired
  <1> DEFINE kept == /\ pair' \in [Pairs -> Pair]
                     /\ revoked' \in SUBSET ({"access", "refresh"} \X Pairs)
                     /\ \A p \in Pairs :
                          /\ Minted(p)' <=> Minted(p)
                          /\ pair'[p].parent = pair[p].parent
                          /\ Spent(p) => Spent(p)'
  <1>2. kept
    <2>1. CASE PurgeExpired
      <3>1. UNCHANGED <<account, pair>> /\ revoked' = revoked \ Expired
        BY <2>1 DEF PurgeExpired
      <3>2. \A p \in Pairs : Spent(p) => Spent(p)'
        BY <3>1 DEF Spent, Expired, Revoked, Decodes
      <3> QED
        BY <3>1, <3>2 DEF ServedInv, SessionTypeOK, Minted
    <2>2. ASSUME NEW p \in Pairs, Expire(p) PROVE kept
      <3> DEFINE age == IF pair[p].age = "fresh" THEN "stale" ELSE "dead"
                 new == [pair[p] EXCEPT !.age = age]
      <3>1. age \in {"stale", "dead"} /\ (age = "stale" => pair[p].age = "fresh")
        OBVIOUS
      <3>2. pair' = [pair EXCEPT ![p] = new] /\ UNCHANGED revoked
        BY <2>2 DEF Expire
      <3> HIDE DEF age
      <3>3. new \in Pair /\ new.age = age /\ new.parent = pair[p].parent
        BY <3>1 DEF ServedInv, SessionTypeOK, Pair
      <3> HIDE DEF new
      <3>4. pair[p].age # "unminted"
        BY <2>2 DEF Expire
      <3>5. /\ pair' \in [Pairs -> Pair] /\ pair'[p] = new
            /\ \A q \in Pairs : q # p => pair'[q] = pair[q]
        BY <3>2, <3>3 DEF ServedInv, SessionTypeOK
      <3>6. \A q \in Pairs : Spent(q) => Spent(q)'
        BY <1>1, <3>1, <3>2, <3>3, <3>5 DEF Spent, Decodes, Revoked
      <3> QED
        BY <3>1, <3>2, <3>3, <3>4, <3>5, <3>6 DEF ServedInv, SessionTypeOK, Minted
    <2> QED
      BY <2>1, <2>2 DEF Time
  <1> HIDE DEF kept
  <1>3. SessionTypeOK'
    BY <1>1, <1>2 DEF kept, ServedInv, SessionTypeOK
  <1>4. PresentedMinted'
    <2>1. \A r \in Requests : Presented(r)' = Presented(r)
      BY <1>1 DEF Presented
    <2> QED
      BY <1>1, <1>2, <2>1 DEF kept, ServedInv, PresentedMinted, Minted
  <1> QED
    BY <1>1, <1>2, <1>3, <1>4 DEF kept, PairsLast, ServedInv

-----------------------------------------------------------------------------
(* How a request comes by what it has read and what it is answered.        *)

Unanswered(r) == req[r].pc # "answered" => req[r].answer = "none"

\* An erased account stays erased, and only its erasure forgives a token.
Forgives == account'.exists => account.exists /\ revoked \subseteq revoked'

\* It is loaded from the account as it was, checked against that copy, and
\* refused by one of the two reads.  A sign-out spends what it was given.
Stages(r) ==
    /\ Forgives
    /\ req'[r].pc \in {"loaded", "checked"} \/ req'[r].answer = "refused" =>
         UNCHANGED <<account, pair, revoked>>
    /\ req'[r].pc = "loaded" =>
         /\ Decodes(TypeOf(r), Presented(r)) /\ account.exists
         /\ req'[r].row.epoch = account.epoch
         /\ req'[r].access = req[r].access
    /\ req'[r].pc = "checked" =>
         req[r].pc = "loaded" /\ AssertLive(TypeOf(r), Presented(r), req[r].row)
    /\ req'[r].answer = "refused" /\ req[r].op \in Writing =>
         \/ ~Decodes(TypeOf(r), Presented(r)) \/ ~account.exists
         \/ req[r].pc = "loaded" /\ ~AssertLive(TypeOf(r), Presented(r), req[r].row)
    /\ req'[r].answer = "ok" /\ req[r].op = "logout" /\ req[r].refresh \in Pairs =>
         Spent(req[r].refresh)'

LEMMA AnswerSays ==
    ASSUME SessionTypeOK, NEW r \in Requests, NEW a, Answer(r, a)
    PROVE  req'[r].pc = "answered" /\ req'[r].answer = a /\ req'[r].refresh = req[r].refresh
  BY DEF Answer, SessionTypeOK, Request

LEMMA IssueSays ==
    ASSUME SessionTypeOK, NEW r \in Requests, NEW e, NEW s, NEW parent, Issue(r, e, s, parent)
    PROVE  req'[r].pc = "answered" /\ req'[r].answer = "ok"
  BY DEF Issue, SessionTypeOK, Request

LEMMA LoadStages ==
    ASSUME ServedInv, NEW r \in Requests, Unanswered(r), Load(r)
    PROVE  Stages(r)
  <1>1. UNCHANGED <<account, pair, revoked>> /\ req[r].pc = "sent" /\ req[r].answer = "none"
    BY DEF Load, Unanswered
  <1>2. CASE /\ ~(Decodes(TypeOf(r), Presented(r)) /\ account.exists)
             /\ Answer(r, "refused")
    BY <1>1, <1>2, AnswerSays DEF Stages, Forgives, ServedInv
  <1>3. CASE /\ Decodes(TypeOf(r), Presented(r)) /\ account.exists
             /\ req' = [req EXCEPT ![r].pc = "loaded",
                          ![r].row = [epoch |-> account.epoch, password |-> account.password]]
    <2> DEFINE copy == [epoch |-> account.epoch, password |-> account.password]
               new == [req[r] EXCEPT !.pc = "loaded", !.row = copy]
    <2>1. copy.epoch = account.epoch
      OBVIOUS
    <2> HIDE DEF copy
    <2>2. /\ new.pc = "loaded" /\ new.row = copy
          /\ new.access = req[r].access /\ new.answer = req[r].answer
      BY DEF ServedInv, SessionTypeOK, Request
    <2>3. req'[r] = new
      BY <1>3 DEF copy, ServedInv, SessionTypeOK
    <2> HIDE DEF new
    <2> QED
      BY <1>1, <1>3, <2>1, <2>2, <2>3 DEF Stages, Forgives
  <1> QED
    BY <1>2, <1>3 DEF Load

LEMMA CheckStages ==
    ASSUME ServedInv, NEW r \in Requests, Unanswered(r), Check(r)
    PROVE  Stages(r)
  <1>1. UNCHANGED <<account, pair, revoked>> /\ req[r].pc = "loaded" /\ req[r].answer = "none"
    BY DEF Check, Unanswered
  <1>2. CASE ~AssertLive(TypeOf(r), Presented(r), req[r].row) /\ Answer(r, "refused")
    BY <1>1, <1>2, AnswerSays DEF Stages, Forgives, ServedInv
  <1>3. CASE Answer(r, "wrong")
    BY <1>1, <1>3, AnswerSays DEF Stages, Forgives, ServedInv
  <1>4. CASE /\ AssertLive(TypeOf(r), Presented(r), req[r].row)
             /\ req' = [req EXCEPT ![r].pc = "checked"]
    <2> DEFINE new == [req[r] EXCEPT !.pc = "checked"]
    <2>1. new.pc = "checked" /\ new.answer = req[r].answer
      BY DEF ServedInv, SessionTypeOK, Request
    <2>2. req'[r] = new
      BY <1>4 DEF ServedInv, SessionTypeOK
    <2> HIDE DEF new
    <2> QED
      BY <1>1, <1>4, <2>1, <2>2 DEF Stages, Forgives
  <1> QED
    BY <1>2, <1>3, <1>4 DEF Check

LEMMA LogoutStages ==
    ASSUME ServedInv, NEW r \in Requests, Logout(r)
    PROVE  Stages(r)
  <1>1. /\ UNCHANGED <<account, pair>> /\ req[r].op = "logout"
        /\ req'[r].pc = "answered" /\ req'[r].answer = "ok"
    BY AnswerSays DEF Logout, At, ServedInv
  <1>2. /\ Forgives
        /\ account.exists /\ Decodes("refresh", req[r].refresh) =>
             <<"refresh", req[r].refresh>> \in revoked'
    BY <1>1 DEF Logout, Revoking, Forgives
  <1>3. Spent(req[r].refresh)'
    <2>1. req'[r].refresh = req[r].refresh
      BY AnswerSays DEF Logout, ServedInv
    <2> QED
      BY <1>1, <1>2, <2>1 DEF Spent, Decodes, Revoked
  <1> QED
    BY <1>1, <1>2, <1>3 DEF Stages

LEMMA WriteStages ==
    ASSUME ServedInv, NEW r \in Requests,
           Login(r) \/ Use(r) \/ Refresh(r) \/ ChangePassword(r) \/ Erase(r) \/ Lose(r)
    PROVE  Stages(r)
  <1>1. CASE Login(r)
    <2>1. req[r].op = "login" /\ UNCHANGED <<account, revoked>>
      BY <1>1 DEF Login
    <2>2. CASE Answer(r, "refused") /\ UNCHANGED pair
      BY <2>1, <2>2, AnswerSays DEF Stages, Forgives, ServedInv, Writing
    <2>3. CASE Issue(r, account.epoch, account.password, NoPair)
      BY <2>1, <2>3, IssueSays DEF Stages, Forgives, ServedInv
    <2> QED
      BY <1>1, <2>2, <2>3 DEF Login
  <1>2. CASE Use(r)
    <2>1. /\ req[r].op = "use" /\ UNCHANGED <<account, pair, revoked>>
          /\ req'[r].pc = "answered"
      BY <1>2, AnswerSays DEF Use, ServedInv
    <2> QED
      BY <2>1 DEF Stages, Forgives, Writing
  <1>3. CASE Refresh(r)
    <2>1. /\ req[r].op = "refresh" /\ UNCHANGED account
          /\ req'[r].pc = "answered" /\ req'[r].answer = "ok"
      BY <1>3, IssueSays DEF Refresh, At, ServedInv
    <2> QED
      BY <1>3, <2>1 DEF Refresh, Revoking, Stages, Forgives
  <1>4. CASE ChangePassword(r)
    <2>1. /\ req[r].op = "change" /\ revoked \subseteq revoked'
          /\ account'.exists => account.exists
          /\ req'[r].pc = "answered" /\ req'[r].answer \in {"ok", "lost"}
      <3>1. /\ req[r].op = "change" /\ revoked \subseteq revoked'
            /\ account'.exists => account.exists
        BY <1>4 DEF ChangePassword, At, Revoking, ServedInv, SessionTypeOK
      <3>2. CASE account.exists
        BY <1>4, <3>1, <3>2, IssueSays DEF ChangePassword, ServedInv
      <3>3. CASE ~account.exists
        BY <1>4, <3>1, <3>3, AnswerSays DEF ChangePassword, ServedInv
      <3> QED
        BY <3>2, <3>3
    <2> QED
      BY <2>1 DEF Stages, Forgives
  <1>5. CASE Erase(r)
    <2>1. /\ req[r].op = "erase" /\ ~account'.exists
          /\ req'[r].pc = "answered" /\ req'[r].answer = "ok"
      BY <1>5, AnswerSays DEF Erase, At, ServedInv, SessionTypeOK
    <2> QED
      BY <2>1 DEF Stages, Forgives
  <1>6. CASE Lose(r)
    <2>1. /\ UNCHANGED <<account, pair, revoked>>
          /\ req'[r].pc = "answered" /\ req'[r].answer = "lost"
      BY <1>6 DEF Lose, ServedInv, SessionTypeOK, Request
    <2> QED
      BY <2>1 DEF Stages, Forgives
  <1> QED
    BY <1>1, <1>2, <1>3, <1>4, <1>5, <1>6

LEMMA ServerStages ==
    ASSUME ServedInv, NEW r \in Requests, Unanswered(r), Serve(r) \/ Lose(r)
    PROVE  Stages(r)
  BY LoadStages, CheckStages, LogoutStages, WriteStages DEF Serve

\* The account only moves on to later epochs, and pairs stay of theirs.
EpochsPass ==
    /\ account.epoch <= account'.epoch
    /\ \A p \in Pairs : Minted(p) => Minted(p)' /\ pair'[p].epoch = pair[p].epoch

LEMMA ServerPasses ==
    ASSUME SessionInv, NEW r \in Requests, Serve(r) \/ Lose(r)
    PROVE  EpochsPass
  <1>1. \A n \in Nat : n <= n /\ n <= n + 1
    OBVIOUS
  <1>2. account.epoch \in Nat /\ SessionTypeOK
    BY DEF SessionInv, SessionTypeOK
  <1>3. account.epoch <= account'.epoch
    <2>1. CASE ChangePassword(r) /\ account.exists
      <3>1. At(r, "change") /\ account'.epoch = NextEpoch(req[r].row)
        BY <1>2, <2>1 DEF ChangePassword, SessionTypeOK
      <3>2. req[r].row.epoch = account.epoch
        BY <3>1 DEF At, SessionInv, ChangesAlone, Changing
      <3> QED
        BY <1>1, <1>2, <3>1, <3>2 DEF NextEpoch
    <2>2. CASE ~(ChangePassword(r) /\ account.exists)
      <3>1. account'.epoch = account.epoch
        BY <1>2, <2>2
        DEF Serve, Login, Use, Load, Check, Refresh, Logout, ChangePassword, Erase, Lose,
            SessionTypeOK
      <3> QED
        BY <1>1, <1>2, <3>1
    <2> QED
      BY <2>1, <2>2
  <1>4. PresentedMinted
    BY DEF SessionInv, CopiesFollow, PresentedMinted
  <1>5. Served(r)
    BY <1>2, <1>4, ServerServes DEF ServedInv
  <1> QED
    BY <1>3, <1>5 DEF EpochsPass, Served, Handed, Minted

LEMMA TimeStages ==
    ASSUME ServedInv, Time
    PROVE  /\ EpochsPass
           /\ "purge" \notin Races =>
                \A r \in Requests : req[r].pc = "loaded" /\ Revoked(TypeOf(r), Presented(r)) =>
                    Revoked(TypeOf(r), Presented(r))'
  <1>1. UNCHANGED <<account, req>> /\ account.epoch \in Nat
    BY DEF Time, Expire, PurgeExpired, ServedInv, SessionTypeOK
  <1>2. \A n \in Nat : n <= n
    OBVIOUS
  <1>3. CASE PurgeExpired
    <2>1. UNCHANGED pair /\ revoked' = revoked \ Expired
      BY <1>3 DEF PurgeExpired
    <2>2. ASSUME "purge" \notin Races, NEW r \in Requests, req[r].pc = "loaded",
                 Revoked(TypeOf(r), Presented(r))
          PROVE  Revoked(TypeOf(r), Presented(r))'
      <3>1. Decodes(TypeOf(r), Presented(r))
        BY <1>3, <2>2 DEF PurgeExpired, Straddles
      <3>2. <<TypeOf(r), Presented(r)>> \notin Expired
        BY <3>1 DEF Expired
      <3>3. TypeOf(r)' = TypeOf(r) /\ Presented(r)' = Presented(r)
        BY <1>1 DEF TypeOf, Presented
      <3> QED
        BY <2>1, <2>2, <3>2, <3>3 DEF Revoked
    <2> QED
      BY <1>1, <1>2, <2>1, <2>2 DEF EpochsPass, Minted
  <1>4. ASSUME NEW p \in Pairs, Expire(p)
        PROVE  /\ UNCHANGED revoked
               /\ \A q \in Pairs : Minted(q) => Minted(q)' /\ pair'[q].epoch = pair[q].epoch
    <2> DEFINE age == IF pair[p].age = "fresh" THEN "stale" ELSE "dead"
               new == [pair[p] EXCEPT !.age = age]
    <2>1. age # "unminted"
      OBVIOUS
    <2>2. pair' = [pair EXCEPT ![p] = new] /\ UNCHANGED revoked
      BY <1>4 DEF Expire
    <2> HIDE DEF age
    <2>3. new.age = age /\ new.epoch = pair[p].epoch
      BY DEF ServedInv, SessionTypeOK, Pair
    <2> HIDE DEF new
    <2>4. pair'[p] = new /\ \A q \in Pairs : q # p => pair'[q] = pair[q]
      BY <2>2 DEF ServedInv, SessionTypeOK
    <2> QED
      BY <2>1, <2>2, <2>3, <2>4 DEF Minted
  <1>5. ASSUME NEW p \in Pairs, Expire(p)
        PROVE  /\ EpochsPass
               /\ \A r \in Requests :
                    Revoked(TypeOf(r), Presented(r)) => Revoked(TypeOf(r), Presented(r))'
    BY <1>1, <1>2, <1>4, <1>5 DEF EpochsPass, Revoked, TypeOf, Presented
  <1> QED
    BY <1>3, <1>5 DEF Time

-----------------------------------------------------------------------------
(* Tokens given up before a request was sent, whoever sends it: nothing    *)
(* below rests on any window's being shut.                                 *)

\* A token that is on the denylist, or lets nobody in without it.
Denied(type, p) == Worthless(type, p) \/ Revoked(type, p)

\* What lets nobody in never lets anybody in again.
Barred ==
    \A type \in {"access", "refresh"}, p \in Pairs : Minted(p) =>
        /\ Minted(p)'
        /\ Worthless(type, p) => Worthless(type, p)'
        /\ Denied(type, p) => Denied(type, p)'

TokensMinted ==
    \A r \in Requests, p \in Pairs : p \in {req[r].access, req[r].refresh} => Minted(p)

HeirsDeny ==
    \A q \in Pairs : pair[q].parent # NoPair =>
        Minted(pair[q].parent) /\ Denied("refresh", pair[q].parent)

SignOutsDeny ==
    \A type \in {"access", "refresh"}, p \in Pairs :
        <<type, p>> \in signedOut => Minted(p) /\ Denied(type, p)

\* A request that came late passes the denylist only with a worthless token.
LateIsWorthless(r) ==
    late[r] # {} =>
        /\ req[r].op # "login" /\ Minted(Presented(r)) /\ Denied(TypeOf(r), Presented(r))
        /\ req[r].pc = "checked" \/ Accepted(r) => Worthless(TypeOf(r), Presented(r))

LateInv ==
    /\ LateTypeOK /\ PresentedMinted /\ TokensMinted /\ HeirsDeny /\ SignOutsDeny
    /\ \A r \in Requests : Unanswered(r) /\ LateIsWorthless(r)

LEMMA LateStart == LateInit => LateInv
  <1> SUFFICES ASSUME LateInit PROVE LateInv
    OBVIOUS
  <1>1. /\ SessionTypeOK /\ \A p \in Pairs : pair[p].parent = NoPair
        /\ \A r \in Requests : req[r] = NoRequest
    BY InitInv DEF LateInit, AuthInit, SessionInv
  <1>2. \A r \in Requests : /\ req[r].pc = "idle" /\ req[r].answer = "none"
                            /\ req[r].access = NoPair /\ req[r].refresh = NoPair
    BY <1>1 DEF NoRequest
  <1> QED
    BY <1>1, <1>2
    DEF LateInit, LateInv, LateTypeOK, PresentedMinted, TokensMinted, HeirsDeny,
        SignOutsDeny, LateIsWorthless, Unanswered

\* What a request presents stays what it was.
LEMMA AccessStays ==
    ASSUME SessionTypeOK, NEW r \in Requests, Serve(r) \/ Lose(r)
    PROVE  req'[r].access = req[r].access
  <1>1. CASE Lose(r) \/ Use(r) \/ Load(r) \/ Check(r) \/ Logout(r) \/ Erase(r)
    BY <1>1 DEF Lose, Use, Load, Check, Logout, Erase, Answer, SessionTypeOK, Request
  <1>2. CASE Login(r) \/ Refresh(r) \/ ChangePassword(r)
    <2>1. ASSUME NEW e, NEW s, NEW parent, Issue(r, e, s, parent)
          PROVE  req'[r].access = req[r].access
      BY <2>1 DEF Issue, SessionTypeOK, Request
    <2>2. ASSUME NEW a, Answer(r, a) PROVE req'[r].access = req[r].access
      BY <2>2 DEF Answer, SessionTypeOK, Request
    <2> QED
      BY <1>2, <2>1, <2>2 DEF Login, Refresh, ChangePassword
  <1> QED
    BY <1>1, <1>2 DEF Serve

\* A request is accepted at once, or by the denylist as it was read, or
\* after its check.
LEMMA AcceptedHow ==
    ASSUME ServedInv, NEW r \in Requests, Unanswered(r), Serve(r) \/ Lose(r), Accepted(r)'
    PROVE  \/ req[r].op = "login" \/ req[r].pc = "checked"
           \/ ~Denied(TypeOf(r), Presented(r)) \/ ~Revoked(TypeOf(r), Presented(r))
  <1>1. SessionTypeOK
    BY DEF ServedInv
  <1>2. CASE Lose(r)
    BY <1>1, <1>2 DEF Lose, Accepted, SessionTypeOK, Request
  <1>3. CASE Use(r)
    <2>1. req[r].op = "use" /\ Live("access", req[r].access)
      BY <1>1, <1>3, AnswerSays DEF Use, Accepted
    <2> QED
      BY <2>1 DEF Live, AssertLive, TypeOf, Presented
  <1>4. CASE Load(r)
    <2>1. CASE Answer(r, "refused")
      BY <1>1, <2>1, AnswerSays DEF Accepted
    <2>2. CASE req' = [req EXCEPT ![r].pc = "loaded",
                ![r].row = [epoch |-> account.epoch, password |-> account.password]]
      <3>1. req'[r].answer = req[r].answer
        BY <1>1, <2>2 DEF SessionTypeOK, Request
      <3> QED
        BY <1>4, <3>1 DEF Load, Unanswered, Accepted
    <2> QED
      BY <1>4, <2>1, <2>2 DEF Load
  <1>5. CASE Check(r)
    <2>1. CASE ~AssertLive(TypeOf(r), Presented(r), req[r].row) /\ Answer(r, "refused")
      BY <1>1, <2>1, AnswerSays DEF Accepted
    <2>2. CASE AssertLive(TypeOf(r), Presented(r), req[r].row)
      BY <2>2 DEF AssertLive
    <2> QED
      BY <1>5, <2>1, <2>2 DEF Check
  <1>6. CASE Login(r) \/ Refresh(r) \/ Logout(r) \/ ChangePassword(r) \/ Erase(r)
    BY <1>6 DEF Login, Refresh, Logout, ChangePassword, Erase, At
  <1> QED
    BY <1>2, <1>3, <1>4, <1>5, <1>6 DEF Serve

\* The server and time take tokens away, and give none back.
LEMMA ServerBars ==
    ASSUME ServedInv, NEW r \in Requests, Served(r), Stages(r)
    PROVE  Barred
  <1>1. \A p \in Pairs : Minted(p) => Minted(p)' /\ pair'[p] = pair[p]
    BY DEF Served, Handed, Minted
  <1>2. account'.exists => account.exists /\ revoked \subseteq revoked'
    BY DEF Stages, Forgives
  <1> QED
    BY <1>1, <1>2 DEF Barred, Denied, Worthless, Revoked, Decodes

LEMMA TimeBars ==
    ASSUME ServedInv, Time
    PROVE  Barred
  <1>1. UNCHANGED account /\ \A p \in Pairs : Minted(p) => Minted(p)'
    BY TimePasses DEF PairsLast
  <1>2. CASE PurgeExpired
    <2>1. UNCHANGED <<account, pair>> /\ revoked' = revoked \ Expired
      BY <1>2 DEF PurgeExpired
    <2> QED
      BY <1>1, <2>1 DEF Barred, Denied, Worthless, Expired, Revoked, Decodes
  <1>3. ASSUME NEW p \in Pairs, Expire(p) PROVE Barred
    <2> DEFINE age == IF pair[p].age = "fresh" THEN "stale" ELSE "dead"
               new == [pair[p] EXCEPT !.age = age]
    <2>1. age \in {"stale", "dead"} /\ (age = "stale" => pair[p].age = "fresh")
      OBVIOUS
    <2>2. pair' = [pair EXCEPT ![p] = new] /\ UNCHANGED revoked
      BY <1>3 DEF Expire
    <2> HIDE DEF age
    <2>3. new.age = age
      BY DEF ServedInv, SessionTypeOK, Pair
    <2> HIDE DEF new
    <2>4. pair'[p] = new /\ \A q \in Pairs : q # p => pair'[q] = pair[q]
      BY <2>2 DEF ServedInv, SessionTypeOK
    <2>5. \A type, q : q \in Pairs => (Worthless(type, q) => Worthless(type, q)')
      BY <1>1, <2>1, <2>3, <2>4 DEF Worthless, Decodes
    <2> QED
      BY <1>1, <2>2, <2>5 DEF Barred, Denied, Revoked
  <1> QED
    BY <1>2, <1>3 DEF Time

LEMMA AttendKeeps ==
    ASSUME LateInv, NEW r \in Requests, Attend(r)
    PROVE  LateInv'
  <1>1. ServedInv /\ SessionTypeOK /\ Unanswered(r) /\ UNCHANGED late
    BY DEF LateInv, LateTypeOK, ServedInv, Attend
  <1>2. ServedInv' /\ Served(r) /\ Stages(r) /\ Barred
    BY <1>1, ServerServes, ServerStages, ServerBars DEF Attend
  <1>3. /\ Only(r) /\ req[r].pc # "idle" /\ req'[r].access = req[r].access
        /\ req'[r].op = req[r].op /\ req'[r].refresh = req[r].refresh
        /\ req'[r].pc # "answered" => req[r].pc # "answered" /\ req'[r].answer = req[r].answer
    BY <1>1, <1>2, AccessStays DEF Served, Goes, Attend
  <1>4. \A q \in Requests : /\ Presented(q)' = Presented(q) /\ TypeOf(q)' = TypeOf(q)
                            /\ req'[q].op = req[q].op
                            /\ {req'[q].access, req'[q].refresh} = {req[q].access, req[q].refresh}
    BY <1>3 DEF Only, Presented, TypeOf
  <1>5. TokensMinted'
    BY <1>2, <1>4 DEF LateInv, TokensMinted, Barred
  <1>6. HeirsDeny'
    <2>1. CASE UNCHANGED pair
      BY <1>2, <2>1 DEF LateInv, HeirsDeny, Barred, Minted
    <2>2. ASSUME NEW p \in Pairs, Handed(r, p),
                 NEW q \in Pairs, NEW parent, parent # NoPair, pair'[q].parent = parent
          PROVE  Minted(parent)' /\ Denied("refresh", parent)'
      <3>1. CASE q = p
        <4>1. /\ At(r, "refresh") /\ req[r].refresh = parent
              /\ Revoking({<<"refresh", parent>>}) /\ UNCHANGED account
          BY <2>2, <3>1 DEF Handed
        <4>2. Minted(parent)
          BY <4>1 DEF LateInv, PresentedMinted, Presented, At
        <4>3. Denied("refresh", parent)'
          BY <4>1 DEF Denied, Worthless, Revoked, Revoking
        <4> QED
          BY <1>2, <4>2, <4>3 DEF Barred, Minted
      <3>2. CASE q # p
        BY <1>2, <2>2, <3>2 DEF Handed, LateInv, HeirsDeny, Barred, Minted
      <3> QED
        BY <3>1, <3>2
    <2> QED
      BY <1>2, <2>1, <2>2 DEF Served, HeirsDeny
  <1>7. SignOutsDeny' /\ signedOut' \in SUBSET Tokens
    <2>1. CASE ~(At(r, "logout") /\ req'[r].answer = "ok")
      BY <1>2, <2>1 DEF Attend, LateInv, LateTypeOK, SignOutsDeny, Barred
    <2>2. CASE At(r, "logout") /\ req'[r].answer = "ok"
      <3>1. signedOut' = signedOut \cup SignedOutBy(r)
        BY <2>2 DEF Attend
      <3>2. Logout(r)
        <4>1. ~Lose(r)
          BY <1>1, <2>2 DEF Lose, SessionTypeOK, Request
        <4> QED
          BY <2>2, <4>1 DEF Attend, Serve, Login, Use, Load, Check, Refresh, ChangePassword,
                            Erase, At
      <3>3. UNCHANGED <<account, pair>>
            /\ Revoking({<<"access", req[r].access>>} \cup
                 {<<"refresh", p>> : p \in {q \in {req[r].refresh} : Decodes("refresh", q)}})
        BY <3>2 DEF Logout
      <3>4. ASSUME NEW type \in {"access", "refresh"}, NEW p \in Pairs,
                   <<type, p>> \in SignedOutBy(r)
            PROVE  Minted(p)' /\ Denied(type, p)'
        <4>1. \/ type = "access" /\ p = req[r].access
              \/ type = "refresh" /\ p = req[r].refresh
          BY <3>4 DEF SignedOutBy
        <4>2. Minted(p)'
          BY <1>2, <4>1 DEF LateInv, TokensMinted, Barred
        <4>3. Denied(type, p)'
          BY <3>3, <4>1 DEF Denied, Worthless, Revoked, Revoking, Decodes
        <4> QED
          BY <4>2, <4>3
      <3> QED
        BY <1>2, <3>1, <3>4
        DEF LateInv, LateTypeOK, SignOutsDeny, Barred, SignedOutBy
    <2> QED
      BY <2>1, <2>2
  <1>8. ASSUME NEW q \in Requests PROVE (Unanswered(q) /\ LateIsWorthless(q))'
    <2>1. CASE q # r
      BY <1>1, <1>2, <1>3, <1>4, <2>1
      DEF LateInv, Unanswered, LateIsWorthless, Only, Barred, Accepted, Minted, TypeOf
    <2>2. CASE q = r
      <3>1. Unanswered(r)'
        BY <1>1, <1>3 DEF Unanswered
      <3>2. ASSUME late'[r] # {} PROVE LateIsWorthless(r)'
        <4> DEFINE type == TypeOf(r)
                   p == Presented(r)
        <4>1. /\ req[r].op # "login" /\ Minted(p) /\ Denied(type, p)
              /\ req[r].pc = "checked" => Worthless(type, p)
          BY <1>1, <3>2 DEF LateInv, LateIsWorthless
        <4>2. type \in {"access", "refresh"} /\ p \in Pairs
          BY <4>1 DEF TypeOf, Minted
        <4>3. /\ Minted(p)' /\ Denied(type, p)' /\ (Worthless(type, p) => Worthless(type, p)')
          BY <1>2, <1>4, <4>1, <4>2 DEF Barred
        <4>4. req'[r].pc = "checked" => ~Revoked(type, p)
          BY <1>2 DEF Stages, AssertLive
        <4>5. Accepted(r)' => req[r].pc = "checked" \/ ~Revoked(type, p)
          BY <1>1, <4>1, AcceptedHow DEF Attend
        <4>6. req'[r].pc = "checked" \/ Accepted(r)' => Worthless(type, p)
          BY <4>1, <4>4, <4>5 DEF Denied
        <4> HIDE DEF type, p
        <4> QED
          BY <1>4, <4>1, <4>3, <4>6 DEF LateIsWorthless, type, p
      <3> QED
        BY <2>2, <3>1, <3>2 DEF LateIsWorthless
    <2> QED
      BY <2>1, <2>2
  <1> QED
    BY <1>1, <1>2, <1>5, <1>6, <1>7, <1>8 DEF LateInv, LateTypeOK, ServedInv

LEMMA AskKeeps ==
    ASSUME LateInv, NEW r \in Requests, Ask(r)
    PROVE  LateInv'
  <1>1. PICK ask \in Askable, given \in Passwords, new \in Passwords :
          /\ ask[1] = r /\ {ask[3], ask[4]} \cap Unminted = {}
          /\ Send(r, ask[2], ask[3], ask[4], given, new)
          /\ late' = [late EXCEPT ![r] =
                        IF ask[2] = "login" THEN {}
                        ELSE IF ask[2] = "refresh" THEN GivenUpBy("refresh", ask[4])
                        ELSE GivenUpBy("access", ask[3])]
          /\ UNCHANGED signedOut
    BY DEF Ask
  <1> DEFINE op == ask[2]
             access == ask[3]
             refresh == ask[4]
             how == IF op = "login" THEN {}
                    ELSE IF op = "refresh" THEN GivenUpBy("refresh", refresh)
                    ELSE GivenUpBy("access", access)
             sent == [NoRequest EXCEPT !.pc = "sent", !.op = op, !.access = access,
                                       !.refresh = refresh, !.given = given, !.new = new]
  <1>2. op \in Operations /\ access \in Maybe /\ refresh \in Maybe
    BY AskableAssumption
  <1>3. /\ \A p \in Pairs : p \in {access, refresh} => Minted(p)
        /\ req' = [req EXCEPT ![r] = sent] /\ UNCHANGED <<account, pair, revoked, signedOut>>
        /\ late' = [late EXCEPT ![r] = how]
    BY <1>1 DEF Send, Minted, Unminted
  <1> HIDE DEF op, access, refresh
  <1>4. /\ sent \in Request /\ sent.pc = "sent" /\ sent.op = op /\ sent.answer = "none"
        /\ sent.access = access /\ sent.refresh = refresh
    BY <1>2, NoRequestType DEF Request, NoRequest
  <1>5. how \in SUBSET {"spent", "signout"}
    BY DEF GivenUpBy
  <1> HIDE DEF how, sent
  <1>6. Only(r) /\ req'[r] = sent
    BY <1>3, <1>4, RequestMoves DEF LateInv, LateTypeOK
  <1>7. late' \in [Requests -> SUBSET {"spent", "signout"}] /\ late'[r] = how
        /\ \A q \in Requests : q # r => late'[q] = late[q]
    BY <1>3, <1>5 DEF LateInv, LateTypeOK
  <1>8. LateTypeOK'
    BY <1>3, <1>6, <1>7 DEF LateInv, LateTypeOK, SessionTypeOK, Only
  <1>9. /\ PresentedMinted' /\ TokensMinted' /\ HeirsDeny' /\ SignOutsDeny'
        /\ \A q \in Requests : Unanswered(q)'
    BY <1>3, <1>4, <1>6
    DEF LateInv, PresentedMinted, TokensMinted, HeirsDeny, SignOutsDeny, Unanswered, Only,
        Minted, Denied, Worthless, Revoked, Decodes, Presented
  <1>10. ASSUME NEW q \in Requests PROVE LateIsWorthless(q)'
    <2>1. CASE q # r
      BY <1>3, <1>6, <1>7, <2>1
      DEF LateInv, LateIsWorthless, Only, Minted, Denied, Worthless, Revoked, Decodes,
          Presented, TypeOf, Accepted
    <2>2. CASE q = r
      <3>1. CASE op = "login"
        BY <1>7, <2>2, <3>1 DEF LateIsWorthless, how
      <3>2. ASSUME op # "login", how # {}
            PROVE  /\ Minted(IF op = "refresh" THEN refresh ELSE access)
                   /\ Denied(IF op = "refresh" THEN "refresh" ELSE "access",
                             IF op = "refresh" THEN refresh ELSE access)
        <4> DEFINE type == IF op = "refresh" THEN "refresh" ELSE "access"
                   p == IF op = "refresh" THEN refresh ELSE access
        <4>1. type \in {"access", "refresh"} /\ how = GivenUpBy(type, p)
          BY <3>2 DEF how
        <4>2. \/ type = "refresh" /\ p \in Pairs /\ Renewed(p)
              \/ <<type, p>> \in signedOut
          BY <3>2, <4>1 DEF GivenUpBy
        <4>3. CASE type = "refresh" /\ p \in Pairs /\ Renewed(p)
          BY <4>3 DEF Renewed, LateInv, HeirsDeny
        <4>4. CASE <<type, p>> \in signedOut
          BY <4>1, <4>4 DEF LateInv, LateTypeOK, Tokens, SignOutsDeny
        <4> QED
          BY <4>2, <4>3, <4>4
      <3>3. /\ TypeOf(r)' = (IF op = "refresh" THEN "refresh" ELSE "access")
            /\ Presented(r)' = (IF op = "refresh" THEN refresh ELSE access)
            /\ req'[r].op = op /\ req'[r].pc = "sent" /\ ~Accepted(r)'
        BY <1>4, <1>6 DEF TypeOf, Presented, Accepted
      <3>4. \A type, p : /\ Minted(p) => Minted(p)'
                         /\ Denied(type, p) => Denied(type, p)'
        BY <1>3 DEF Minted, Denied, Worthless, Revoked, Decodes
      <3> QED
        BY <1>7, <2>2, <3>1, <3>2, <3>3, <3>4 DEF LateIsWorthless
    <2> QED
      BY <2>1, <2>2
  <1> QED
    BY <1>8, <1>9, <1>10 DEF LateInv

LEMMA ReadKeeps ==
    ASSUME LateInv, NEW r \in Requests, Read(r)
    PROVE  LateInv'
  <1>1. /\ Only(r) /\ req'[r] = NoRequest /\ UNCHANGED <<account, pair, revoked, signedOut>>
        /\ late' = [late EXCEPT ![r] = {}]
    BY NoRequestType, RequestMoves DEF Read, LateInv, LateTypeOK
  <1>2. /\ NoRequest.pc = "idle" /\ NoRequest.answer = "none"
        /\ NoRequest.access = NoPair /\ NoRequest.refresh = NoPair
    BY DEF NoRequest
  <1>3. late' \in [Requests -> SUBSET {"spent", "signout"}] /\ late'[r] = {}
        /\ \A q \in Requests : q # r => late'[q] = late[q]
    BY <1>1 DEF LateInv, LateTypeOK
  <1>4. LateTypeOK'
    BY <1>1, <1>3 DEF LateInv, LateTypeOK, SessionTypeOK, Only
  <1>5. PresentedMinted' /\ TokensMinted' /\ HeirsDeny' /\ SignOutsDeny'
    BY <1>1, <1>2
    DEF LateInv, PresentedMinted, TokensMinted, HeirsDeny, SignOutsDeny, Only,
        Minted, Denied, Worthless, Revoked, Decodes, Presented
  <1>6. \A q \in Requests : (Unanswered(q) /\ LateIsWorthless(q))'
    BY <1>1, <1>2, <1>3
    DEF LateInv, LateIsWorthless, Unanswered, Only, Minted, Denied, Worthless, Revoked,
        Decodes, Presented, TypeOf, Accepted
  <1> QED
    BY <1>4, <1>5, <1>6 DEF LateInv

LEMMA TimeKeeps ==
    ASSUME LateInv, Time, UNCHANGED <<signedOut, late>>
    PROVE  LateInv'
  <1>1. ServedInv /\ ServedInv' /\ UNCHANGED <<account, req>> /\ Barred
        /\ \A p \in Pairs : pair'[p].parent = pair[p].parent
    BY TimePasses, TimeBars DEF LateInv, LateTypeOK, ServedInv
  <1>2. TokensMinted'
    BY <1>1 DEF LateInv, TokensMinted, Barred
  <1>3. HeirsDeny'
    BY <1>1 DEF LateInv, HeirsDeny, Barred, Minted
  <1>4. SignOutsDeny'
    BY <1>1 DEF LateInv, SignOutsDeny, Barred
  <1>5. ASSUME NEW r \in Requests PROVE (Unanswered(r) /\ LateIsWorthless(r))'
    <2>1. Presented(r)' = Presented(r) /\ TypeOf(r)' = TypeOf(r)
          /\ TypeOf(r) \in {"access", "refresh"}
      BY <1>1 DEF Presented, TypeOf
    <2> QED
      BY <1>1, <2>1 DEF LateInv, Unanswered, LateIsWorthless, Barred, Minted, Accepted
  <1> QED
    BY <1>1, <1>2, <1>3, <1>4, <1>5 DEF LateInv, LateTypeOK, ServedInv

LEMMA LateStep == LateInv /\ [LateNext]_lateVars => LateInv'
  <1> SUFFICES ASSUME LateInv, [LateNext]_lateVars PROVE LateInv'
    OBVIOUS
  <1>1. CASE UNCHANGED lateVars
    BY <1>1
    DEF lateVars, authVars, LateInv, LateTypeOK, SessionTypeOK, PresentedMinted, TokensMinted,
        HeirsDeny, SignOutsDeny, LateIsWorthless, Unanswered, Minted, Denied, Worthless,
        Revoked, Decodes, Presented, TypeOf, Accepted
  <1>2. CASE LateNext
    BY <1>2, AskKeeps, ReadKeeps, AttendKeeps, TimeKeeps DEF LateNext
  <1> QED
    BY <1>1, <1>2

\* A refresh token that had bought a pair before a renewal was sent buys no
\* other while it has not expired, from any number of callers and beside
\* any purge: what overlaps is all that single use is not kept for.
THEOREM SpentTokensBuyNothing == LateSpec => []SpentBuysNothing
  <1>1. LateInv => SpentBuysNothing
    BY DEF LateInv, LateIsWorthless, SpentBuysNothing
  <1> QED
    BY <1>1, LateStart, LateStep, PTL DEF LateSpec

\* Neither token of a committed sign-out is accepted in a request sent
\* later while it has not expired, whoever sends it and whatever else the
\* server is doing.
THEOREM SignedOutTokensBuyNothing == LateSpec => []SignedOutBuysNothing
  <1>1. LateInv => SignedOutBuysNothing
    BY DEF LateInv, LateIsWorthless, SignedOutBuysNothing
  <1> QED
    BY <1>1, LateStart, LateStep, PTL DEF LateSpec

-----------------------------------------------------------------------------
(* The clients: what the first half says of any caller, of theirs.         *)

USE SlotAssumption

ClientInv == ClientTypeOK /\ SessionInv

-----------------------------------------------------------------------------
(* Slots of requests.                                                      *)

LEMMA TabSlots ==
    ASSUME NEW s \in AllTabs
    PROVE  s \in Requests /\ s[1] \in Browsers
  <1>1. PICK b \in Browsers : s \in {b} \X Tabs
    BY DEF AllTabs, TabsOf
  <1>2. s[1] = b
    BY <1>1
  <1> QED
    BY <1>2 DEF RequestSlots

LEMMA CallSlots ==
    ASSUME NEW c \in AllCalls
    PROVE  c \in Requests /\ c[1] \in Browsers /\ TabOf(c) \in AllTabs
  <1>1. PICK t \in AllTabs : c \in {t[1]} \X {t[2]} \X Loads
    BY DEF AllCalls, CallsOf
  <1>2. c[1] = t[1] /\ c[2] = t[2]
    BY <1>1
  <1>3. PICK b \in Browsers : t \in {b} \X Tabs
    BY DEF AllTabs, TabsOf
  <1>4. t = <<t[1], t[2]>>
    BY <1>3
  <1>5. TabOf(c) = t
    BY <1>2, <1>4 DEF TabOf
  <1> QED
    BY <1>2, <1>5, TabSlots DEF RequestSlots

LEMMA DeviceSlots == Devices \subseteq Requests /\ Browsers \subseteq Devices
  BY DEF RequestSlots, Devices

LEMMA SentType ==
    ASSUME NEW op \in Operations, NEW access \in Maybe, NEW refresh \in Maybe
    PROVE  /\ Sent(op, access, refresh) \in Request
           /\ Sent(op, access, refresh).pc = "sent"
           /\ Sent(op, access, refresh).op = op
           /\ Sent(op, access, refresh).refresh = refresh
           /\ Sent(op, access, refresh).got = NoPair
           /\ Sent(op, access, refresh).answer = "none"
  <1> DEFINE one == [NoRequest EXCEPT !.pc = "sent"]
             two == [one EXCEPT !.op = op]
             three == [two EXCEPT !.access = access]
             four == [three EXCEPT !.refresh = refresh]
  <1>0. NoRequest.got = NoPair /\ NoRequest.answer = "none"
    BY DEF NoRequest
  <1>1. one \in Request /\ one.pc = "sent" /\ one.got = NoPair /\ one.answer = "none"
    BY <1>0, NoRequestType DEF Request
  <1>2. /\ two \in Request /\ two.pc = "sent" /\ two.op = op
        /\ two.got = NoPair /\ two.answer = "none"
    <2> HIDE DEF one
    <2> QED
      BY <1>1 DEF Request
  <1>3. /\ three \in Request /\ three.pc = "sent" /\ three.op = op
        /\ three.got = NoPair /\ three.answer = "none"
    <2> HIDE DEF two
    <2> QED
      BY <1>2 DEF Request
  <1>4. /\ four \in Request /\ four.pc = "sent" /\ four.op = op /\ four.refresh = refresh
        /\ four.got = NoPair /\ four.answer = "none"
    <2> HIDE DEF three
    <2> QED
      BY <1>3 DEF Request
  <1>5. Sent(op, access, refresh) = four
    BY DEF Sent
  <1> QED
    BY <1>4, <1>5

LEMMA SomePasswordType == SomePassword \in Passwords
  BY SessionAssumption DEF SomePassword

\* An answer is read, and requests that change no password are sent at once.
LEMMA ThenKeeps ==
    ASSUME SessionInv, NEW r \in Requests, NEW also, Then(r, also),
           \A x \in DOMAIN also : also[x] \in Request /\ also[x].pc = "sent"
                                  /\ also[x].op # "change",
           UNCHANGED <<account, pair, revoked>>
    PROVE  SessionInv'
  <1>1. /\ req' \in [Requests -> Request]
        /\ \A x \in Requests :
             req'[x] = IF x \in DOMAIN also THEN also[x]
                       ELSE IF x = r THEN NoRequest ELSE req[x]
    BY NoRequestType DEF Then, SessionInv, SessionTypeOK
  <1> QED
    BY <1>1, NoRequestType, ClientKeeps

-----------------------------------------------------------------------------
(* The invariant, one action after another.                                *)

LEMMA ClientInit == BrowserInit => ClientInv
  <1> SUFFICES ASSUME BrowserInit PROVE ClientInv
    OBVIOUS
  <1>1. SessionInv
    BY InitInv DEF BrowserInit
  <1> QED
    BY <1>1 DEF BrowserInit, ClientInv, ClientTypeOK, SessionInv, Maybe

LEMMA StartCallInv ==
    ASSUME ClientInv, "change" \notin Races, NEW c \in AllCalls, StartCall(c)
    PROVE  ClientInv'
  <1>1. c \in Requests /\ held[c[1]] \in Maybe
    BY CallSlots, DeviceSlots DEF ClientInv, ClientTypeOK
  <1>2. SessionInv'
    BY <1>1, SendInv, SomePasswordType DEF StartCall, ClientInv, Operations, Maybe
  <1> QED
    BY <1>2 DEF StartCall, ClientInv, ClientTypeOK, SessionInv

LEMMA CallDoneInv ==
    ASSUME ClientInv, NEW c \in AllCalls, CallDone(c)
    PROVE  ClientInv'
  <1>1. SessionInv'
    BY CallSlots, ThenKeeps DEF CallDone, ClientInv
  <1> QED
    BY <1>1 DEF CallDone, ClientInv, ClientTypeOK, SessionInv

LEMMA CallRefusedInv ==
    ASSUME ClientInv, NEW c \in AllCalls, CallRefused(c)
    PROVE  ClientInv'
  <1> DEFINE free == {s \in {RenewalSlot(c)} : s = c \/ req[s].pc = "idle"}
             renewal == Sent("refresh", NoPair, held[c[1]])
             also == [s \in free |-> renewal]
  <1>1. c \in Requests /\ held[c[1]] \in Maybe /\ NoPair \in Maybe
    BY CallSlots, DeviceSlots DEF ClientInv, ClientTypeOK, Maybe
  <1>2. renewal \in Request /\ renewal.pc = "sent" /\ renewal.op = "refresh"
    BY <1>1, SentType DEF Operations, Writing
  <1> HIDE DEF renewal
  <1>3. \A x \in DOMAIN also : also[x] \in Request /\ also[x].pc = "sent"
                               /\ also[x].op # "change"
    BY <1>2
  <1>4. Then(c, also) /\ UNCHANGED <<account, pair, revoked, held, marker, ended>>
        /\ call' = [call EXCEPT ![c] = "renewing"]
    BY DEF CallRefused, renewal
  <1> HIDE DEF also
  <1>5. SessionInv'
    BY <1>1, <1>3, <1>4, ThenKeeps DEF ClientInv
  <1> QED
    BY <1>4, <1>5 DEF ClientInv, ClientTypeOK, SessionInv

LEMMA RenewalSettlesInv ==
    ASSUME ClientInv, NEW s \in AllTabs \cup AllCalls, RenewalSettles(s)
    PROVE  ClientInv'
  <1> DEFINE renewed == req[s].got # NoPair
             retry == Sent("use", req[s].got, NoPair)
             also == [c \in {x \in Waiting(s) : renewed} |-> retry]
  <1>1. s \in Requests /\ s[1] \in Browsers /\ s[1] \in Devices
    BY TabSlots, CallSlots, DeviceSlots
  <1>2. req[s].got \in Maybe /\ NoPair \in Maybe
    BY <1>1 DEF ClientInv, SessionInv, SessionTypeOK, Request, Maybe
  <1>3. retry \in Request /\ retry.pc = "sent" /\ retry.op = "use"
    BY <1>2, SentType DEF Operations
  <1> HIDE DEF retry
  <1>4. \A x \in DOMAIN also : also[x] \in Request /\ also[x].pc = "sent"
                               /\ also[x].op # "change"
    BY <1>3
  <1>5. Then(s, also) /\ UNCHANGED <<account, pair, revoked, ended>>
    BY DEF RenewalSettles, retry
  <1> HIDE DEF also
  <1>6. SessionInv'
    BY <1>1, <1>4, <1>5, ThenKeeps DEF ClientInv
  <1>7. held' \in [Devices -> Maybe]
    BY <1>1, <1>2 DEF RenewalSettles, ClientInv, ClientTypeOK
  <1>8. marker' \in [Browsers -> BOOLEAN]
    BY <1>1 DEF RenewalSettles, ClientInv, ClientTypeOK
  <1>9. call' \in [AllCalls -> {"idle", "calling", "renewing", "retrying"}]
    BY DEF RenewalSettles, ClientInv, ClientTypeOK
  <1> QED
    BY <1>5, <1>6, <1>7, <1>8, <1>9 DEF ClientInv, ClientTypeOK, SessionInv

LEMMA UserSendsInv ==
    ASSUME ClientInv, "change" \notin Races, NEW d \in Devices, NEW op \in Operations,
           NEW refresh \in Maybe, NEW given \in Passwords, NEW new \in Passwords,
           UserSends(d, op, refresh, given, new)
    PROVE  ClientInv'
  <1>1. d \in Requests /\ held[d] \in Maybe
    BY DeviceSlots DEF ClientInv, ClientTypeOK
  <1>2. SessionInv'
    BY <1>1, SendInv DEF UserSends, ClientInv
  <1> QED
    BY <1>2 DEF UserSends, clientVars, ClientInv, ClientTypeOK, SessionInv

LEMMA UserAsksInv ==
    ASSUME ClientInv, "change" \notin Races, NEW d \in Devices,
           \/ SignIn(d) \/ SignOut(d) \/ AskPasswordChange(d) \/ AskErasure(d)
           \/ ScriptRenews(d)
    PROVE  ClientInv'
  <1>1. NoPair \in Maybe /\ held[d] \in Maybe
    BY DEF ClientInv, ClientTypeOK, Maybe
  <1>2. \A refresh \in RefreshOfThisSession(d) : refresh \in Maybe
    BY <1>1 DEF RefreshOfThisSession
  <1> QED
    BY <1>1, <1>2, UserSendsInv, SomePasswordType
    DEF SignIn, SignOut, AskPasswordChange, AskErasure, ScriptRenews, Plainly, Operations,
        Writing

LEMMA UserAnsweredInv ==
    ASSUME ClientInv, NEW d \in Devices, UserAnswered(d)
    PROVE  ClientInv'
  <1>1. d \in Requests
    BY DeviceSlots
  <1>2. req[d].got \in Maybe /\ req[d].refresh \in Maybe /\ NoPair \in Maybe
    BY <1>1 DEF ClientInv, SessionInv, SessionTypeOK, Request, Maybe
  <1>3. Then(d, <<>>) /\ UNCHANGED <<account, pair, revoked, call>>
    BY DEF UserAnswered
  <1>4. SessionInv'
    BY <1>1, <1>3, ThenKeeps DEF ClientInv
  <1>5. held' \in [Devices -> Maybe]
    BY <1>2 DEF UserAnswered, ClientInv, ClientTypeOK
  <1>6. marker' \in [Browsers -> BOOLEAN]
    BY DEF UserAnswered, ClientInv, ClientTypeOK, Devices
  <1>7. ended' \in SUBSET Pairs
    BY <1>2 DEF UserAnswered, ClientInv, ClientTypeOK, Maybe
  <1> QED
    BY <1>3, <1>4, <1>5, <1>6, <1>7 DEF ClientInv, ClientTypeOK, SessionInv

LEMMA ClientStepInv ==
    ASSUME "change" \notin Races
    PROVE  ClientInv /\ [BrowserNext]_browserVars => ClientInv'
  <1> SUFFICES ASSUME ClientInv, [BrowserNext]_browserVars PROVE ClientInv'
    OBVIOUS
  <1>1. CASE UNCHANGED browserVars
    <2>1. SessionInv'
      BY <1>1, ClientKeeps DEF browserVars, authVars, ClientInv, SessionInv, SessionTypeOK
    <2> QED
      BY <1>1, <2>1 DEF browserVars, clientVars, ClientInv, ClientTypeOK, SessionInv
  <1>2. CASE ClientStep
    BY <1>2, StartCallInv, CallDoneInv, CallRefusedInv, RenewalSettlesInv, UserAsksInv,
       UserAnsweredInv
    DEF ClientStep
  <1>3. CASE ServerStep /\ UNCHANGED clientVars
    <2>1. SessionInv'
      BY <1>3, ServeInv, LoseInv, TimeInv DEF ServerStep, ClientInv
    <2> QED
      BY <1>3, <2>1 DEF clientVars, ClientInv, ClientTypeOK, SessionInv
  <1> QED
    BY <1>1, <1>2, <1>3 DEF BrowserNext

\* "Every session on every device ends here", for any number of browsers,
\* tabs and scripts, and whatever each of them was in the middle of.
THEOREM DevicesRestOnPassword ==
    ASSUME "change" \notin Races
    PROVE  BrowserSpec => []LiveRestsOnPassword
  <1>1. ClientInv => LiveRestsOnPassword
    BY InvImplies DEF ClientInv
  <1> QED
    BY <1>1, ClientInit, ClientStepInv, PTL DEF BrowserSpec

-----------------------------------------------------------------------------
(* In whose hands a pair is, whatever races.                               *)

\* The slots of the requests a device makes.
SlotsOf(d) == {d} \cup {s \in AllTabs \cup AllCalls : s[1] = d}

Shows(r, p) == req[r].refresh = p \/ req[r].got = p

\* A device has a pair that it holds, that it presents or that is on its way.
Has(d, p) == held[d] = p \/ \E r \in SlotsOf(d) : Shows(r, p)

\* What each slot is for, and when.
SlotRoles ==
    /\ \A r \in Requests :
         /\ req[r].pc = "idle" => req[r] = NoRequest
         /\ req[r].pc # "answered" => req[r].got = NoPair /\ req[r].answer = "none"
    /\ \A c \in AllCalls :
         /\ req[c].op = "use" /\ req[c].refresh = NoPair /\ req[c].got = NoPair
         /\ call[c] \in {"idle", "renewing"} => req[c].pc = "idle"
    /\ \A t \in AllTabs : req[t].pc # "idle" => req[t].op = "refresh"
    /\ \A b \in Browsers : req[b].op # "refresh"

HandsMinted == \A d \in Devices, p \in Pairs : Has(d, p) => Minted(p)

HandInv ==
    /\ ClientTypeOK /\ PresentedMinted
    /\ SlotRoles
    /\ HandsMinted

LEMMA TabsAreNoCalls == AllTabs \cap AllCalls = {}
  <1> SUFFICES ASSUME NEW s \in AllTabs, s \in AllCalls PROVE FALSE
    OBVIOUS
  <1>1. PICK b \in Browsers : s \in {b} \X Tabs
    BY DEF AllTabs, TabsOf
  <1>2. PICK t \in AllTabs : s \in {t[1]} \X {t[2]} \X Loads
    BY DEF AllCalls, CallsOf
  <1>3. DOMAIN s = 1 .. 2
    BY <1>1
  <1>4. DOMAIN s = 1 .. 3
    BY <1>2
  <1>5. 3 \in 1 .. 3 /\ 3 \notin 1 .. 2
    OBVIOUS
  <1> QED
    BY <1>3, <1>4, <1>5

\* Every slot is some one device's.
LEMMA SlotsAreOnes ==
    /\ \A d \in Devices : SlotsOf(d) \subseteq Requests /\ d \in SlotsOf(d)
    /\ \A r \in Requests : \E d \in Devices : r \in SlotsOf(d)
    /\ \A d, e \in Devices : \A r \in SlotsOf(d) : r \in SlotsOf(e) => d = e
    /\ \A s \in AllTabs \cup AllCalls :
         s \in Requests /\ s[1] \in Browsers /\ s \in SlotsOf(s[1]) /\ s \notin Devices
    /\ \A s \in Scripts : SlotsOf(s) = {s}
  <1>1. \A s \in AllTabs \cup AllCalls : s \in Requests /\ s[1] \in Browsers
    BY TabSlots, CallSlots
  <1> QED
    BY <1>1 DEF SlotsOf, RequestSlots, Devices

\* What a client does: it clears slots and sends from them, presenting what
\* it holds if anything, and keeps what arrived in a slot that it clears.
FreshOf(d, r) ==
    /\ req'[r].pc \in {"idle", "sent"} /\ (req'[r].pc = "idle" => req'[r] = NoRequest)
    /\ req'[r].got = NoPair /\ req'[r].answer = "none"
    /\ req'[r].refresh \in {NoPair, held[d]}

HeldOf(d) ==
    \/ held'[d] \in {held[d], NoPair}
    \/ \E r \in SlotsOf(d) : held'[d] = req[r].got /\ req'[r].got = NoPair

ClientMoves ==
    /\ UNCHANGED <<account, pair, revoked>>
    /\ ClientTypeOK'
    /\ \A d \in Devices : HeldOf(d) /\ \A r \in SlotsOf(d) : req'[r] = req[r] \/ FreshOf(d, r)

LEMMA MovesHands ==
    ASSUME HandInv, ClientMoves
    PROVE  /\ PresentedMinted'
           /\ HandsMinted'
  <1>1. \A r \in Requests : \E d \in Devices :
          r \in SlotsOf(d) /\ (req'[r] = req[r] \/ FreshOf(d, r))
    BY SlotsAreOnes DEF ClientMoves
  <1>2. UNCHANGED pair /\ NoPair \notin Pairs
    BY SessionAssumption DEF ClientMoves
  <1>3. \A d \in Devices, p \in Pairs : Has(d, p)' => Has(d, p)
    <2> SUFFICES ASSUME NEW d \in Devices, NEW p \in Pairs, Has(d, p)'
                 PROVE  Has(d, p)
      OBVIOUS
    <2>1. CASE held'[d] = p
      BY <1>2, <2>1 DEF ClientMoves, HeldOf, Has, Shows
    <2>2. ASSUME NEW r \in SlotsOf(d), Shows(r, p)'
          PROVE  Has(d, p)
      BY <1>2, <2>2 DEF ClientMoves, FreshOf, Has, Shows
    <2> QED
      BY <2>1, <2>2 DEF Has
  <1>4. PresentedMinted'
    <2> SUFFICES ASSUME NEW r \in Requests, req'[r].pc \in {"loaded", "checked"}
                 PROVE  Minted(Presented(r))'
      BY DEF PresentedMinted
    <2>1. req'[r] = req[r]
      BY <1>1 DEF FreshOf
    <2> QED
      BY <1>2, <2>1 DEF HandInv, PresentedMinted, Presented, Minted
  <1>5. HandsMinted'
    BY <1>2, <1>3 DEF HandInv, HandsMinted, Minted
  <1> QED
    BY <1>4, <1>5

LEMMA ServedHands ==
    ASSUME HandInv, NEW r \in Requests, Served(r), ServedInv', UNCHANGED clientVars
    PROVE  HandInv'
  <1>1. /\ NoPair \notin Pairs /\ UNCHANGED <<held, marker, call, ended>>
        /\ Goes(r) /\ PairsLast /\ \A x \in Requests : x # r => req'[x] = req[x]
        /\ req'[r].op = req[r].op /\ req'[r].refresh = req[r].refresh
    BY SessionAssumption DEF clientVars, Served, Goes, Only
  <1>2. ClientTypeOK' /\ PresentedMinted'
    BY <1>1 DEF HandInv, ClientTypeOK, ServedInv
  <1>4. req'[r].got \in {NoPair, req[r].got} \/ req[r].op # "use"
    BY DEF Served, Handed
  <1>5. SlotRoles'
    <2>1. \A x \in Requests :
            /\ req'[x].pc = "idle" => req'[x] = NoRequest
            /\ req'[x].pc # "answered" => req'[x].got = NoPair /\ req'[x].answer = "none"
            /\ req'[x].op = req[x].op /\ req'[x].refresh = req[x].refresh
            /\ req'[x].pc = "idle" <=> req[x].pc = "idle"
      BY <1>1 DEF HandInv, SlotRoles, Goes
    <2>2. \A c \in AllCalls : req[c].op = "use" /\ req[c].got = NoPair
      BY DEF HandInv, SlotRoles
    <2>3. \A c \in AllCalls : req'[c].got = NoPair
      BY <1>1, <1>4, <2>2, SlotsAreOnes
    <2> QED
      BY <1>1, <2>1, <2>3, SlotsAreOnes DEF HandInv, SlotRoles, Devices
  <1>6. CASE UNCHANGED pair /\ req'[r].got \in {NoPair, req[r].got}
    <2>1. \A x \in Requests : /\ req'[x].op = req[x].op /\ req'[x].refresh = req[x].refresh
                              /\ req'[x].got \in {NoPair, req[x].got}
      BY <1>1, <1>6
    <2>2. \A d \in Devices, p \in Pairs : Has(d, p)' => Has(d, p)
      BY <1>1, <2>1, SlotsAreOnes DEF Has, Shows
    <2>3. HandsMinted'
      BY <1>6, <2>2 DEF HandInv, HandsMinted, Minted
    <2> QED
      BY <1>2, <1>5, <2>3 DEF HandInv
  <1>7. ASSUME NEW p \in Pairs, Handed(r, p)
        PROVE  HandInv'
    <2>1. req'[r].got = p /\ Minted(p)' /\ \A q \in Pairs : q # p => pair'[q] = pair[q]
      BY <1>7 DEF Handed
    <2>2. \A d \in Devices, q \in Pairs : Has(d, q)' => Has(d, q) \/ q = p
      BY <1>1, <2>1, SlotsAreOnes DEF Has, Shows
    <2>3. HandsMinted'
      BY <2>1, <2>2 DEF HandInv, HandsMinted, Minted
    <2> QED
      BY <1>2, <1>5, <2>3 DEF HandInv
  <1> QED
    BY <1>6, <1>7 DEF Served

LEMMA TimeHands ==
    ASSUME HandInv, Time, UNCHANGED clientVars
    PROVE  HandInv'
  <1>1. /\ ServedInv' /\ UNCHANGED <<account, req, held, marker, call, ended>> /\ PairsLast
        /\ \A p \in Pairs : pair'[p].parent = pair[p].parent /\ (Minted(p)' <=> Minted(p))
    BY TimePasses DEF HandInv, ClientTypeOK, ServedInv, clientVars, PairsLast
  <1>2. ClientTypeOK' /\ PresentedMinted'
    BY <1>1 DEF HandInv, ClientTypeOK, ServedInv
  <1>3. SlotRoles'
    BY <1>1 DEF HandInv, SlotRoles
  <1>4. \A d \in Devices, p \in Pairs : Has(d, p)' <=> Has(d, p)
    BY <1>1 DEF Has, Shows
  <1>5. HandsMinted'
    BY <1>1, <1>4 DEF HandInv, HandsMinted
  <1> QED
    BY <1>2, <1>3, <1>5 DEF HandInv

LEMMA SendFresh ==
    ASSUME SessionTypeOK, NEW r \in Requests, NEW op \in Operations,
           NEW access \in Maybe, NEW refresh \in Maybe, NEW given \in Passwords,
           NEW new \in Passwords, Send(r, op, access, refresh, given, new)
    PROVE  /\ UNCHANGED <<account, pair, revoked>> /\ SessionTypeOK'
           /\ req[r].pc = "idle" /\ \A x \in Requests : x # r => req'[x] = req[x]
           /\ req'[r].pc = "sent" /\ req'[r].op = op /\ req'[r].refresh = refresh
           /\ req'[r].got = NoPair /\ req'[r].answer = "none"
  <1> DEFINE sent == [NoRequest EXCEPT !.pc = "sent", !.op = op, !.access = access,
                                       !.refresh = refresh, !.given = given, !.new = new]
  <1>1. NoRequest.got = NoPair /\ NoRequest.answer = "none"
    BY DEF NoRequest
  <1>2. /\ sent \in Request /\ sent.pc = "sent" /\ sent.op = op /\ sent.refresh = refresh
        /\ sent.got = NoPair /\ sent.answer = "none"
    BY <1>1, NoRequestType DEF Request
  <1>3. /\ req' = [req EXCEPT ![r] = sent] /\ UNCHANGED <<account, pair, revoked>>
        /\ req[r].pc = "idle"
    BY DEF Send
  <1> HIDE DEF sent
  <1>4. Only(r) /\ req'[r] = sent
    BY <1>2, <1>3, RequestMoves
  <1> QED
    BY <1>2, <1>3, <1>4 DEF Only, SessionTypeOK

LEMMA ThenFresh ==
    ASSUME SessionTypeOK, NEW r \in Requests, NEW also, Then(r, also),
           UNCHANGED <<account, pair, revoked>>, \A x \in DOMAIN also : also[x] \in Request
    PROVE  /\ SessionTypeOK'
           /\ NoRequest.pc = "idle" /\ NoRequest.op = "use" /\ NoRequest.refresh = NoPair
           /\ NoRequest.got = NoPair /\ NoRequest.answer = "none"
           /\ \A x \in Requests :
                /\ x \in DOMAIN also => req'[x] = also[x]
                /\ x \notin DOMAIN also /\ x = r => req'[x] = NoRequest
                /\ x \notin DOMAIN also /\ x # r => req'[x] = req[x]
  <1>1. req' \in [Requests -> Request]
    BY NoRequestType DEF Then, SessionTypeOK
  <1>2. /\ NoRequest.pc = "idle" /\ NoRequest.op = "use" /\ NoRequest.refresh = NoPair
        /\ NoRequest.got = NoPair /\ NoRequest.answer = "none"
    BY DEF NoRequest
  <1> QED
    BY <1>1, <1>2 DEF Then, SessionTypeOK

LEMMA StartCallMoves ==
    ASSUME HandInv, NEW c \in AllCalls, StartCall(c)
    PROVE  ClientMoves /\ SlotRoles'
  <1>1. /\ c \in Requests /\ c[1] \in Devices /\ held[c[1]] \in Maybe /\ NoPair \in Maybe
        /\ \A d \in Devices : c \in SlotsOf(d) => d = c[1]
        /\ c \notin AllTabs /\ c \notin Browsers
    BY SlotsAreOnes, TabsAreNoCalls DEF HandInv, ClientTypeOK, Maybe, Devices
  <1>2. /\ UNCHANGED <<account, pair, revoked, held, marker, ended>> /\ SessionTypeOK'
        /\ call' = [call EXCEPT ![c] = "calling"]
        /\ req[c].pc = "idle" /\ \A x \in Requests : x # c => req'[x] = req[x]
        /\ req'[c].pc = "sent" /\ req'[c].op = "use" /\ req'[c].refresh = NoPair
        /\ req'[c].got = NoPair /\ req'[c].answer = "none"
    BY <1>1, SendFresh, SomePasswordType DEF StartCall, Operations, HandInv, ClientTypeOK
  <1>3. ClientTypeOK'
    BY <1>2 DEF HandInv, ClientTypeOK
  <1>4. \A d \in Devices : HeldOf(d) /\ \A r \in SlotsOf(d) : req'[r] = req[r] \/ FreshOf(d, r)
    BY <1>1, <1>2, SlotsAreOnes DEF HeldOf, FreshOf
  <1>5. SlotRoles'
    BY <1>1, <1>2, SlotsAreOnes DEF HandInv, ClientTypeOK, SlotRoles, Devices
  <1> QED
    BY <1>2, <1>3, <1>4, <1>5 DEF ClientMoves

LEMMA CallDoneMoves ==
    ASSUME HandInv, NEW c \in AllCalls, CallDone(c)
    PROVE  ClientMoves /\ SlotRoles'
  <1>1. c \in Requests /\ c \notin AllTabs /\ c \notin Browsers
    BY SlotsAreOnes, TabsAreNoCalls DEF Devices
  <1>2. /\ UNCHANGED <<account, pair, revoked, held, marker, ended>> /\ SessionTypeOK'
        /\ call' = [call EXCEPT ![c] = "idle"]
        /\ \A x \in Requests : x # c => req'[x] = req[x]
        /\ req'[c] = NoRequest
        /\ NoRequest.pc = "idle" /\ NoRequest.op = "use" /\ NoRequest.refresh = NoPair
        /\ NoRequest.got = NoPair /\ NoRequest.answer = "none"
    BY <1>1, ThenFresh DEF CallDone, HandInv, ClientTypeOK
  <1>3. ClientTypeOK'
    BY <1>2 DEF HandInv, ClientTypeOK
  <1>4. \A d \in Devices : HeldOf(d) /\ \A r \in SlotsOf(d) : req'[r] = req[r] \/ FreshOf(d, r)
    BY <1>2, SlotsAreOnes DEF HeldOf, FreshOf
  <1>5. SlotRoles'
    <2>1. \A x \in Requests : req'[x] \in {req[x], NoRequest}
      BY <1>2
    <2>2. \A x \in AllCalls : call'[x] \in {"idle", "renewing"} => req'[x].pc = "idle"
      BY <1>2, SlotsAreOnes DEF HandInv, ClientTypeOK, SlotRoles
    <2> QED
      BY <1>2, <2>1, <2>2, SlotsAreOnes DEF HandInv, SlotRoles, Devices
  <1> QED
    BY <1>2, <1>3, <1>4, <1>5 DEF ClientMoves

LEMMA CallRefusedMoves ==
    ASSUME HandInv, NEW c \in AllCalls, CallRefused(c)
    PROVE  ClientMoves /\ SlotRoles'
  <1> DEFINE t == TabOf(c)
             free == {s \in {RenewalSlot(c)} : s = c \/ req[s].pc = "idle"}
             renewal == Sent("refresh", NoPair, held[c[1]])
             also == [s \in free |-> renewal]
  <1>1. /\ c \in Requests /\ c[1] \in Devices /\ held[c[1]] \in Maybe /\ NoPair \in Maybe
        /\ c \notin AllTabs /\ c \notin Browsers /\ c # t
        /\ t \in AllTabs /\ t \in Requests /\ t \notin AllCalls /\ t \notin Browsers
        /\ t[1] = c[1] /\ \A d \in Devices : t \in SlotsOf(d) => d = c[1]
    BY CallSlots, SlotsAreOnes, TabsAreNoCalls
    DEF HandInv, ClientTypeOK, Maybe, Devices, TabOf
  <1>2. /\ renewal \in Request /\ renewal.pc = "sent" /\ renewal.op = "refresh"
        /\ renewal.refresh = held[c[1]] /\ renewal.got = NoPair /\ renewal.answer = "none"
    BY <1>1, SentType DEF Operations, Writing
  <1>3. /\ Then(c, also) /\ UNCHANGED <<account, pair, revoked, held, marker, ended>>
        /\ call' = [call EXCEPT ![c] = "renewing"]
    BY DEF CallRefused
  <1>4. free \subseteq {t} /\ c \notin free /\ DOMAIN also = free
        /\ \A x \in DOMAIN also : also[x] = renewal
    BY <1>1 DEF RenewalSlot
  <1> HIDE DEF renewal, also, free
  <1>5. /\ SessionTypeOK' /\ req'[c] = NoRequest
        /\ NoRequest.pc = "idle" /\ NoRequest.op = "use" /\ NoRequest.refresh = NoPair
        /\ NoRequest.got = NoPair /\ NoRequest.answer = "none"
        /\ req'[t] = renewal \/ req'[t] = req[t]
        /\ \A x \in Requests : x # c /\ x # t => req'[x] = req[x]
    BY <1>1, <1>2, <1>3, <1>4, ThenFresh DEF HandInv, ClientTypeOK
  <1>6. ClientTypeOK'
    BY <1>3, <1>5 DEF HandInv, ClientTypeOK
  <1>7. \A d \in Devices : HeldOf(d) /\ \A r \in SlotsOf(d) : req'[r] = req[r] \/ FreshOf(d, r)
    BY <1>1, <1>2, <1>3, <1>5, SlotsAreOnes DEF HeldOf, FreshOf
  <1>8. SlotRoles'
    <2>1. \A x \in Requests : req'[x] \in {req[x], NoRequest} \/ (x = t /\ req'[x] = renewal)
      BY <1>5
    <2>2. ASSUME NEW r \in Requests
          PROVE  /\ req'[r].pc = "idle" => req'[r] = NoRequest
                 /\ req'[r].pc # "answered" => req'[r].got = NoPair /\ req'[r].answer = "none"
      BY <1>2, <1>5, <2>1 DEF HandInv, SlotRoles
    <2>3. ASSUME NEW x \in AllCalls
          PROVE  /\ req'[x].op = "use" /\ req'[x].refresh = NoPair /\ req'[x].got = NoPair
                 /\ call'[x] \in {"idle", "renewing"} => req'[x].pc = "idle"
      <3>1. x \in Requests /\ x # t
        BY <1>1, CallSlots
      <3>2. CASE x = c
        BY <1>5, <3>2
      <3>3. CASE x # c
        <4>1. req'[x] = req[x] /\ call'[x] = call[x]
          BY <1>3, <1>5, <3>1, <3>3 DEF HandInv, ClientTypeOK
        <4> QED
          BY <4>1 DEF HandInv, SlotRoles
      <3> QED
        BY <3>2, <3>3
    <2>4. ASSUME NEW x \in AllTabs PROVE req'[x].pc # "idle" => req'[x].op = "refresh"
      BY <1>1, <1>2, <1>5, TabSlots DEF HandInv, SlotRoles
    <2>5. ASSUME NEW b \in Browsers PROVE req'[b].op # "refresh"
      <3>1. b \in Requests /\ b # c /\ b # t
        BY <1>1, SlotsAreOnes DEF Devices
      <3> QED
        BY <1>5, <3>1 DEF HandInv, SlotRoles
    <2> QED
      BY <2>2, <2>3, <2>4, <2>5 DEF SlotRoles
  <1> QED
    BY <1>3, <1>6, <1>7, <1>8 DEF ClientMoves

LEMMA RenewalSettlesMoves ==
    ASSUME HandInv, NEW s \in AllTabs \cup AllCalls, RenewalSettles(s)
    PROVE  ClientMoves /\ SlotRoles'
  <1> DEFINE renewed == req[s].got # NoPair
             retry == Sent("use", req[s].got, NoPair)
             also == [c \in {x \in Waiting(s) : renewed} |-> retry]
  <1>1. /\ s \in Requests /\ s[1] \in Devices /\ s[1] \in Browsers /\ s \in SlotsOf(s[1])
        /\ req[s].got \in Maybe /\ NoPair \in Maybe
    BY SlotsAreOnes DEF HandInv, ClientTypeOK, SessionTypeOK, Request, Maybe, Devices
  <1>2. /\ retry \in Request /\ retry.pc = "sent" /\ retry.op = "use"
        /\ retry.refresh = NoPair /\ retry.got = NoPair /\ retry.answer = "none"
    BY <1>1, SentType DEF Operations
  <1>3. /\ Then(s, also) /\ UNCHANGED <<account, pair, revoked, ended>>
        /\ req[s].pc = "answered" /\ req[s].op = "refresh"
        /\ held' = IF renewed THEN [held EXCEPT ![s[1]] = req[s].got] ELSE held
        /\ marker' = [marker EXCEPT ![s[1]] = @ /\ renewed]
        /\ call' = [c \in AllCalls |-> IF c \notin Waiting(s) THEN call[c]
                                       ELSE IF renewed THEN "retrying" ELSE "idle"]
    BY DEF RenewalSettles, Arrived
  <1>4. /\ DOMAIN also \subseteq Waiting(s) /\ \A x \in DOMAIN also : also[x] = retry
        /\ Waiting(s) \subseteq AllCalls
        /\ \A x \in Waiting(s) : call[x] = "renewing"
        /\ renewed => DOMAIN also = Waiting(s)
        /\ ~renewed => DOMAIN also = {}
    BY DEF Waiting
  <1> HIDE DEF retry, also
  <1>5. s \in AllTabs /\ s \notin AllCalls
    BY <1>3, TabsAreNoCalls DEF HandInv, SlotRoles
  <1>6. /\ SessionTypeOK' /\ req'[s] = NoRequest
        /\ NoRequest.pc = "idle" /\ NoRequest.op = "use" /\ NoRequest.refresh = NoPair
        /\ NoRequest.got = NoPair /\ NoRequest.answer = "none"
        /\ \A x \in DOMAIN also : req'[x] = retry
        /\ \A x \in Requests : x # s /\ x \notin DOMAIN also => req'[x] = req[x]
    BY <1>1, <1>2, <1>3, <1>4, <1>5, ThenFresh, SlotsAreOnes DEF HandInv, ClientTypeOK
  <1>7. ClientTypeOK'
    <2>1. held' \in [Devices -> Maybe]
      BY <1>1, <1>3 DEF HandInv, ClientTypeOK
    <2>2. marker' \in [Browsers -> BOOLEAN]
      BY <1>1, <1>3 DEF HandInv, ClientTypeOK
    <2>3. call' \in [AllCalls -> {"idle", "calling", "renewing", "retrying"}]
      BY <1>3 DEF HandInv, ClientTypeOK
    <2> QED
      BY <1>3, <1>6, <2>1, <2>2, <2>3 DEF HandInv, ClientTypeOK
  <1>8. ASSUME NEW d \in Devices
        PROVE  HeldOf(d) /\ \A r \in SlotsOf(d) : req'[r] = req[r] \/ FreshOf(d, r)
    <2>1. HeldOf(d)
      BY <1>1, <1>3, <1>6 DEF HandInv, ClientTypeOK, HeldOf
    <2>2. ASSUME NEW r \in SlotsOf(d) PROVE req'[r] = req[r] \/ FreshOf(d, r)
      BY <1>1, <1>2, <1>6, SlotsAreOnes DEF FreshOf
    <2> QED
      BY <2>1, <2>2
  <1>9. SlotRoles'
    <2>1. \A x \in Requests :
            req'[x] \in {req[x], NoRequest} \/ (x \in DOMAIN also /\ req'[x] = retry)
      BY <1>6
    <2>2. \A x \in DOMAIN also : x \in AllCalls /\ x \notin AllTabs /\ x \notin Browsers
      BY <1>4, TabsAreNoCalls, SlotsAreOnes DEF Devices
    <2>3. ASSUME NEW x \in AllCalls, call'[x] \in {"idle", "renewing"}
          PROVE  req'[x].pc = "idle"
      <3>1. x # s /\ x \in Requests
        BY <1>5, SlotsAreOnes
      <3>2. x \notin DOMAIN also
        BY <1>3, <1>4, <2>3
      <3>3. call[x] \in {"idle", "renewing"}
        BY <1>3, <1>4, <2>3
      <3> QED
        BY <1>6, <3>1, <3>2, <3>3 DEF HandInv, SlotRoles
    <2> QED
      BY <1>2, <1>6, <2>1, <2>2, <2>3, SlotsAreOnes DEF HandInv, SlotRoles, Devices
  <1> QED
    BY <1>3, <1>7, <1>8, <1>9 DEF ClientMoves

LEMMA UserSendsMoves ==
    ASSUME HandInv, NEW d \in Devices, NEW op \in Operations,
           NEW refresh \in {NoPair, held[d]}, NEW given \in Passwords, NEW new \in Passwords,
           op = "refresh" => d \in Scripts, UserSends(d, op, refresh, given, new)
    PROVE  ClientMoves /\ SlotRoles'
  <1>1. /\ d \in Requests /\ held[d] \in Maybe /\ refresh \in Maybe
        /\ d \notin AllTabs /\ d \notin AllCalls
        /\ \A e \in Devices : d \in SlotsOf(e) => e = d
    BY SlotsAreOnes DEF HandInv, ClientTypeOK, Maybe
  <1>2. /\ UNCHANGED <<account, pair, revoked, held, marker, call, ended>> /\ SessionTypeOK'
        /\ \A x \in Requests : x # d => req'[x] = req[x]
        /\ req'[d].pc = "sent" /\ req'[d].op = op /\ req'[d].refresh = refresh
        /\ req'[d].got = NoPair /\ req'[d].answer = "none"
    BY <1>1, SendFresh DEF UserSends, clientVars, HandInv, ClientTypeOK
  <1>3. ClientTypeOK'
    BY <1>2 DEF HandInv, ClientTypeOK
  <1>4. \A e \in Devices : HeldOf(e) /\ \A r \in SlotsOf(e) : req'[r] = req[r] \/ FreshOf(e, r)
    BY <1>1, <1>2, SlotsAreOnes DEF HeldOf, FreshOf
  <1>5. SlotRoles'
    BY <1>1, <1>2, SlotsAreOnes DEF HandInv, SlotRoles, Devices
  <1> QED
    BY <1>2, <1>3, <1>4, <1>5 DEF ClientMoves

\* Everything a user asks of a device is one request, which presents the
\* refresh token the device holds or none.
Asks(d, op, refresh, given, new) ==
    /\ op \in Operations /\ refresh \in {NoPair, held[d]}
    /\ given \in Passwords /\ new \in Passwords
    /\ op = "refresh" => d \in Scripts
    /\ op = "erase" => refresh = NoPair
    /\ UserSends(d, op, refresh, given, new)

UserAsks(d) ==
    \/ SignIn(d) \/ SignOut(d) \/ AskPasswordChange(d) \/ AskErasure(d) \/ ScriptRenews(d)

LEMMA UserAsksOne ==
    ASSUME NEW d \in Devices, UserAsks(d)
    PROVE  \E op, refresh, given, new : Asks(d, op, refresh, given, new)
  <1>1. CASE SignIn(d)
    BY <1>1 DEF SignIn, Asks, Operations
  <1>2. CASE SignOut(d)
    BY <1>2, SomePasswordType DEF SignOut, Asks, RefreshOfThisSession, Plainly, Operations, Writing
  <1>3. CASE AskPasswordChange(d)
    BY <1>3 DEF AskPasswordChange, Asks, Operations, Writing
  <1>4. CASE AskErasure(d)
    BY <1>4, SomePasswordType DEF AskErasure, Asks, Plainly, Operations, Writing
  <1>5. CASE ScriptRenews(d)
    BY <1>5, SomePasswordType DEF ScriptRenews, Asks, Plainly, Operations, Writing
  <1> QED
    BY <1>1, <1>2, <1>3, <1>4, <1>5 DEF UserAsks

LEMMA UserAsksMoves ==
    ASSUME HandInv, NEW d \in Devices, UserAsks(d)
    PROVE  ClientMoves /\ SlotRoles'
  BY UserAsksOne, UserSendsMoves DEF Asks

LEMMA UserAnsweredMoves ==
    ASSUME HandInv, NEW d \in Devices, UserAnswered(d)
    PROVE  ClientMoves /\ SlotRoles'
  <1>1. /\ d \in Requests /\ d \in SlotsOf(d)
        /\ d \notin AllTabs /\ d \notin AllCalls
        /\ \A e \in Devices : d \in SlotsOf(e) => e = d
        /\ req[d].got \in Maybe /\ req[d].refresh \in Maybe /\ NoPair \in Maybe
    BY SlotsAreOnes DEF HandInv, ClientTypeOK, SessionTypeOK, Request, Maybe
  <1>2. /\ UNCHANGED <<account, pair, revoked, call>> /\ SessionTypeOK'
        /\ \A x \in Requests : x # d => req'[x] = req[x]
        /\ req'[d] = NoRequest
        /\ NoRequest.pc = "idle" /\ NoRequest.op = "use" /\ NoRequest.refresh = NoPair
        /\ NoRequest.got = NoPair /\ NoRequest.answer = "none"
    BY <1>1, ThenFresh DEF UserAnswered, HandInv, ClientTypeOK
  <1>3. /\ held' \in [Devices -> Maybe]
        /\ \A e \in Devices : e # d => held'[e] = held[e]
        /\ held'[d] \in {held[d], NoPair, req[d].got}
    BY <1>1 DEF UserAnswered, HandInv, ClientTypeOK
  <1>4. marker' \in [Browsers -> BOOLEAN]
    BY DEF UserAnswered, HandInv, ClientTypeOK, Devices
  <1>5. ended' \in SUBSET Pairs
    BY <1>1 DEF UserAnswered, HandInv, ClientTypeOK, Maybe
  <1>6. ClientTypeOK'
    BY <1>2, <1>3, <1>4, <1>5 DEF HandInv, ClientTypeOK
  <1>7. \A e \in Devices : HeldOf(e) /\ \A r \in SlotsOf(e) : req'[r] = req[r] \/ FreshOf(e, r)
    BY <1>1, <1>2, <1>3, SlotsAreOnes DEF HeldOf, FreshOf
  <1>8. SlotRoles'
    <2>1. \A x \in Requests : req'[x] \in {req[x], NoRequest}
      BY <1>2
    <2> QED
      BY <1>1, <1>2, <2>1, SlotsAreOnes DEF HandInv, SlotRoles, Devices
  <1> QED
    BY <1>2, <1>6, <1>7, <1>8 DEF ClientMoves

LEMMA ClientStepMoves ==
    ASSUME HandInv, ClientStep
    PROVE  ClientMoves /\ HandInv'
  <1>1. ClientMoves /\ SlotRoles'
    <2>1. CASE \E c \in AllCalls : StartCall(c) \/ CallDone(c) \/ CallRefused(c)
      BY <2>1, StartCallMoves, CallDoneMoves, CallRefusedMoves
    <2>2. CASE \E s \in AllTabs \cup AllCalls : RenewalSettles(s)
      BY <2>2, RenewalSettlesMoves
    <2>3. CASE \E d \in Devices : UserAsks(d) \/ UserAnswered(d)
      BY <2>3, UserAsksMoves, UserAnsweredMoves
    <2> QED
      BY <2>1, <2>2, <2>3 DEF ClientStep, UserAsks
  <1> QED
    BY <1>1, MovesHands DEF HandInv, ClientMoves

LEMMA HandInit == BrowserInit => HandInv
  <1> SUFFICES ASSUME BrowserInit PROVE HandInv
    OBVIOUS
  <1>1. /\ ClientTypeOK /\ NoPair \notin Pairs
        /\ \A r \in Requests : req[r] = NoRequest
        /\ NoRequest.pc = "idle" /\ NoRequest.op = "use" /\ NoRequest.refresh = NoPair
        /\ NoRequest.got = NoPair /\ NoRequest.answer = "none"
    BY ClientInit, SessionAssumption DEF ClientInv, BrowserInit, AuthInit, NoRequest
  <1>3. \A d \in Devices, p \in Pairs : ~Has(d, p)
    BY <1>1, SlotsAreOnes DEF BrowserInit, Has, Shows
  <1>4. SlotRoles /\ PresentedMinted
    BY <1>1, SlotsAreOnes, DeviceSlots DEF SlotRoles, PresentedMinted
  <1>5. HandsMinted
    BY <1>3 DEF HandsMinted
  <1> QED
    BY <1>1, <1>4, <1>5 DEF HandInv

LEMMA IdleHands ==
    ASSUME HandInv, UNCHANGED browserVars
    PROVE  HandInv'
  <1>1. ClientTypeOK' /\ PresentedMinted' /\ SlotRoles'
    BY DEF HandInv, browserVars, authVars, clientVars, ClientTypeOK, SessionTypeOK,
           PresentedMinted, Presented, Minted, SlotRoles
  <1>2. HandsMinted'
    BY DEF HandInv, browserVars, authVars, clientVars, HandsMinted, Has, Shows, Minted
  <1> QED
    BY <1>1, <1>2 DEF HandInv

LEMMA HandStep == HandInv /\ [BrowserNext]_browserVars => HandInv'
  <1> SUFFICES ASSUME HandInv, [BrowserNext]_browserVars PROVE HandInv'
    OBVIOUS
  <1>1. CASE UNCHANGED browserVars
    BY <1>1, IdleHands
  <1>2. CASE ClientStep
    BY <1>2, ClientStepMoves
  <1>3. CASE ServerStep /\ UNCHANGED clientVars
    <2>1. CASE \E r \in Requests : Serve(r) \/ Lose(r)
      BY <1>3, <2>1, ServerServes, ServedHands DEF HandInv, ClientTypeOK, ServedInv
    <2>2. CASE Time
      BY <1>3, <2>2, TimeHands
    <2> QED
      BY <1>3, <2>1, <2>2 DEF ServerStep
  <1> QED
    BY <1>1, <1>2, <1>3 DEF BrowserNext

\* The devices and their requests keep their types, whatever races.
THEOREM ClientTypeCorrect == BrowserSpec => []ClientTypeOK
  <1>1. HandInv => ClientTypeOK
    BY DEF HandInv
  <1> QED
    BY <1>1, HandInit, HandStep, PTL DEF BrowserSpec

-----------------------------------------------------------------------------
(* A page that calls nothing while its user waits to be signed in or out.  *)

\* A browser whose user waits for an answer waits for no other.
Alone == \A b \in Browsers : Busy(b) => Quiet(b)

AloneInv == HandInv /\ Alone

\* While its user waits for an answer, the page of a browser does nothing.
LEMMA BusyWaits ==
    ASSUME HandInv, Alone, NEW b \in Browsers, Busy(b)
    PROVE  /\ \A t \in AllTabs : t[1] = b => req[t] = NoRequest
           /\ \A c \in AllCalls : c[1] = b => call[c] = "idle" /\ req[c] = NoRequest
  <1>1. Quiet(b)
    BY DEF Alone
  <1>2. \A t \in AllTabs : t[1] = b => t \in TabsOf(b)
    BY DEF AllTabs, TabsOf
  <1>3. \A c \in AllCalls : c[1] = b => c \in CallsOf(TabOf(c)) /\ TabOf(c) \in TabsOf(b)
    <2> SUFFICES ASSUME NEW c \in AllCalls, c[1] = b
                 PROVE  c \in CallsOf(TabOf(c)) /\ TabOf(c) \in TabsOf(b)
      OBVIOUS
    <2>1. PICK t \in AllTabs : c \in {t[1]} \X {t[2]} \X Loads
      BY DEF AllCalls, CallsOf
    <2>2. c[1] = t[1] /\ c[2] = t[2]
      BY <2>1
    <2>3. TabOf(c)[1] = c[1] /\ TabOf(c)[2] = c[2] /\ TabOf(c) \in AllTabs
      BY CallSlots DEF TabOf
    <2>4. TabOf(c) \in TabsOf(b)
      BY <1>2, <2>3
    <2>5. c \in CallsOf(TabOf(c))
      BY <2>1, <2>2, <2>3 DEF CallsOf
    <2> QED
      BY <2>4, <2>5
  <1>4. \A t \in AllTabs : t[1] = b => req[t] = NoRequest
    BY <1>1, <1>2, TabSlots DEF Quiet, HandInv, SlotRoles
  <1>5. \A c \in AllCalls : c[1] = b => call[c] = "idle"
    BY <1>1, <1>3 DEF Quiet
  <1> QED
    BY <1>4, <1>5, CallSlots DEF HandInv, SlotRoles

\* What a page does, it does while its user waits for nothing, and to no
\* other browser.
PageMoves(b) ==
    /\ b \in Browsers /\ ~Busy(b) /\ UNCHANGED ended
    /\ \A d \in Devices : req'[d] = req[d] /\ (d # b => held'[d] = held[d])
    /\ \A s \in AllTabs \cup AllCalls : s[1] # b => req'[s] = req[s]
    /\ \A c \in AllCalls : c[1] # b => call'[c] = call[c]

LEMMA StartCallPages ==
    ASSUME HandInv, Alone, "signout" \notin Races, NEW c \in AllCalls, StartCall(c)
    PROVE  PageMoves(c[1])
  <1>1. /\ c \in Requests /\ c[1] \in Browsers /\ c[1] \in Devices /\ c \notin Devices
        /\ held[c[1]] \in Maybe /\ NoPair \in Maybe
    BY SlotsAreOnes DEF HandInv, ClientTypeOK, Maybe, Devices
  <1>2. /\ ~Busy(c[1]) /\ UNCHANGED <<held, marker, ended>>
        /\ call' = [call EXCEPT ![c] = "calling"]
        /\ \A x \in Requests : x # c => req'[x] = req[x]
    BY <1>1, SendFresh, SomePasswordType DEF StartCall, Operations, HandInv, ClientTypeOK
  <1>3. \A x \in AllCalls : x # c => call'[x] = call[x]
    BY <1>2 DEF HandInv, ClientTypeOK
  <1> QED
    BY <1>1, <1>2, <1>3, SlotsAreOnes, DeviceSlots DEF PageMoves

LEMMA CallDonePages ==
    ASSUME HandInv, Alone, NEW c \in AllCalls, CallDone(c)
    PROVE  PageMoves(c[1])
  <1>1. c \in Requests /\ c[1] \in Browsers /\ c \notin Devices
    BY SlotsAreOnes
  <1>2. /\ UNCHANGED <<held, ended>> /\ req[c].pc = "answered"
        /\ call' = [call EXCEPT ![c] = "idle"]
        /\ \A x \in Requests : x # c => req'[x] = req[x]
    BY <1>1, ThenFresh DEF CallDone, Arrived, HandInv, ClientTypeOK
  <1>3. ~Busy(c[1])
    BY <1>1, <1>2, BusyWaits, NoRequestType
  <1>4. \A x \in AllCalls : x # c => call'[x] = call[x]
    BY <1>2 DEF HandInv, ClientTypeOK
  <1> QED
    BY <1>1, <1>2, <1>3, <1>4, SlotsAreOnes, DeviceSlots DEF PageMoves

LEMMA CallRefusedPages ==
    ASSUME HandInv, Alone, NEW c \in AllCalls, CallRefused(c)
    PROVE  PageMoves(c[1])
  <1> DEFINE t == TabOf(c)
             free == {s \in {RenewalSlot(c)} : s = c \/ req[s].pc = "idle"}
             renewal == Sent("refresh", NoPair, held[c[1]])
             also == [s \in free |-> renewal]
  <1>1. /\ c \in Requests /\ c[1] \in Browsers /\ c \notin Devices
        /\ t \in AllTabs /\ t \in Requests /\ t[1] = c[1] /\ t \notin Devices
        /\ held[c[1]] \in Maybe /\ NoPair \in Maybe
    BY CallSlots, SlotsAreOnes DEF HandInv, ClientTypeOK, Maybe, Devices, TabOf
  <1>2. renewal \in Request
    BY <1>1, SentType DEF Operations, Writing
  <1>3. /\ Then(c, also) /\ UNCHANGED <<account, pair, revoked, held, marker, ended>>
        /\ call' = [call EXCEPT ![c] = "renewing"]
        /\ req[c].pc = "answered" /\ call[c] = "calling"
    BY DEF CallRefused, Arrived
  <1>4. free \subseteq {t} /\ DOMAIN also = free /\ \A x \in DOMAIN also : also[x] = renewal
    BY DEF RenewalSlot
  <1> HIDE DEF renewal, also, free
  <1>5. \A x \in Requests : x # c /\ x # t => req'[x] = req[x]
    BY <1>1, <1>2, <1>3, <1>4, ThenFresh DEF HandInv, ClientTypeOK
  <1>6. ~Busy(c[1])
    BY <1>1, <1>3, BusyWaits, NoRequestType
  <1>7. \A x \in AllCalls : x # c => call'[x] = call[x]
    BY <1>3 DEF HandInv, ClientTypeOK
  <1> HIDE DEF t
  <1> QED
    BY <1>1, <1>3, <1>5, <1>6, <1>7, SlotsAreOnes, DeviceSlots DEF PageMoves

LEMMA RenewalSettlesPages ==
    ASSUME HandInv, Alone, NEW s \in AllTabs \cup AllCalls, RenewalSettles(s)
    PROVE  PageMoves(s[1])
  <1> DEFINE renewed == req[s].got # NoPair
             retry == Sent("use", req[s].got, NoPair)
             also == [c \in {x \in Waiting(s) : renewed} |-> retry]
  <1>1. /\ s \in Requests /\ s[1] \in Devices /\ s[1] \in Browsers /\ s \notin Devices
        /\ req[s].got \in Maybe /\ NoPair \in Maybe
    BY SlotsAreOnes DEF HandInv, ClientTypeOK, SessionTypeOK, Request, Maybe, Devices
  <1>2. retry \in Request
    BY <1>1, SentType DEF Operations
  <1>3. /\ Then(s, also) /\ UNCHANGED <<account, pair, revoked, ended>>
        /\ req[s].pc = "answered" /\ req[s].op = "refresh"
        /\ held' = IF renewed THEN [held EXCEPT ![s[1]] = req[s].got] ELSE held
        /\ call' = [c \in AllCalls |-> IF c \notin Waiting(s) THEN call[c]
                                       ELSE IF renewed THEN "retrying" ELSE "idle"]
    BY DEF RenewalSettles, Arrived
  <1>4. DOMAIN also \subseteq Waiting(s) /\ \A x \in DOMAIN also : also[x] = retry
    OBVIOUS
  <1>5. \A x \in Waiting(s) : x \in AllCalls /\ x[1] = s[1] /\ x \notin Devices
    <2> SUFFICES ASSUME NEW x \in AllCalls, TabOf(x) = s PROVE x[1] = s[1]
      BY SlotsAreOnes DEF Waiting, RenewalSlot
    <2> QED
      BY DEF TabOf
  <1> HIDE DEF retry, also
  <1>6. \A x \in Requests : x # s /\ x \notin Waiting(s) => req'[x] = req[x]
    BY <1>1, <1>2, <1>3, <1>4, ThenFresh DEF HandInv, ClientTypeOK
  <1>7. ~Busy(s[1])
    BY <1>1, <1>3, BusyWaits, NoRequestType
  <1>8. \A d \in Devices : d # s[1] => held'[d] = held[d]
    BY <1>1, <1>3 DEF HandInv, ClientTypeOK
  <1>9. \A c \in AllCalls : c[1] # s[1] => call'[c] = call[c]
    BY <1>3, <1>5
  <1> QED
    BY <1>1, <1>3, <1>5, <1>6, <1>7, <1>8, <1>9, SlotsAreOnes, DeviceSlots DEF PageMoves

LEMMA QuietSlots ==
    ASSUME NEW b \in Browsers, NEW t \in TabsOf(b)
    PROVE  t \in AllTabs /\ t[1] = b /\ \A c \in CallsOf(t) : c \in AllCalls /\ c[1] = b
  <1>1. t \in AllTabs /\ t[1] = b
    BY DEF TabsOf, AllTabs
  <1>2. \A c \in CallsOf(t) : c \in AllCalls /\ c[1] = t[1]
    BY <1>1 DEF CallsOf, AllCalls
  <1> QED
    BY <1>1, <1>2

\* Steps that do not stir the page of a busy browser.
LEMMA AloneKept ==
    ASSUME \A b \in Browsers : Busy(b)' =>
             /\ Quiet(b)
             /\ \A s \in AllTabs \cup AllCalls : s[1] = b => req'[s].pc = req[s].pc
             /\ \A c \in AllCalls : c[1] = b => call'[c] = call[c]
    PROVE  Alone'
  BY QuietSlots DEF Alone, Quiet

LEMMA PagesAlone ==
    ASSUME AloneInv, NEW b, PageMoves(b)
    PROVE  Alone'
  BY AloneKept, DeviceSlots DEF AloneInv, Alone, PageMoves, Busy

LEMMA UserAsksAlone ==
    ASSUME AloneInv, "signout" \notin Races, NEW d \in Devices, UserAsks(d)
    PROVE  Alone'
  <1>1. PICK op, refresh, given, new : Asks(d, op, refresh, given, new)
    BY UserAsksOne
  <1>2. /\ d \in Requests /\ d \notin AllTabs /\ d \notin AllCalls
        /\ held[d] \in Maybe /\ NoPair \in Maybe
    BY SlotsAreOnes DEF AloneInv, HandInv, ClientTypeOK, Maybe
  <1>3. refresh \in Maybe
    BY <1>1, <1>2 DEF Asks
  <1>4. /\ UNCHANGED call /\ \A x \in Requests : x # d => req'[x] = req[x]
        /\ d \in Browsers => Quiet(d)
    BY <1>1, <1>2, <1>3, SendFresh DEF Asks, UserSends, clientVars, AloneInv, HandInv, ClientTypeOK
  <1> QED
    BY <1>2, <1>4, AloneKept, SlotsAreOnes, DeviceSlots DEF AloneInv, Alone, Busy

LEMMA UserAnsweredAlone ==
    ASSUME AloneInv, NEW d \in Devices, UserAnswered(d)
    PROVE  Alone'
  <1>1. d \in Requests /\ d \notin AllTabs /\ d \notin AllCalls
    BY SlotsAreOnes
  <1>2. /\ UNCHANGED call /\ \A x \in Requests : x # d => req'[x] = req[x]
        /\ req'[d] = NoRequest /\ NoRequest.pc = "idle"
    BY <1>1, ThenFresh DEF UserAnswered, AloneInv, HandInv, ClientTypeOK
  <1> QED
    BY <1>1, <1>2, AloneKept, SlotsAreOnes, DeviceSlots DEF AloneInv, Alone, Busy

LEMMA AloneStep ==
    ASSUME "signout" \notin Races
    PROVE  AloneInv /\ [BrowserNext]_browserVars => AloneInv'
  <1> SUFFICES ASSUME AloneInv, [BrowserNext]_browserVars PROVE AloneInv'
    OBVIOUS
  <1>1. HandInv'
    BY HandStep DEF AloneInv
  <1>2. ASSUME UNCHANGED <<req, call>> PROVE Alone'
    BY <1>2 DEF AloneInv, Alone, Busy, Quiet
  <1>3. CASE UNCHANGED browserVars
    BY <1>1, <1>2, <1>3 DEF AloneInv, browserVars, authVars, clientVars
  <1>4. CASE ClientStep
    <2>1. CASE \E c \in AllCalls : StartCall(c) \/ CallDone(c) \/ CallRefused(c)
      BY <1>1, <2>1, StartCallPages, CallDonePages, CallRefusedPages, PagesAlone DEF AloneInv
    <2>2. CASE \E s \in AllTabs \cup AllCalls : RenewalSettles(s)
      BY <1>1, <2>2, RenewalSettlesPages, PagesAlone DEF AloneInv
    <2>3. CASE \E d \in Devices : UserAsks(d) \/ UserAnswered(d)
      BY <1>1, <2>3, UserAsksAlone, UserAnsweredAlone DEF AloneInv
    <2> QED
      BY <1>4, <2>1, <2>2, <2>3 DEF ClientStep, UserAsks
  <1>5. CASE ServerStep /\ UNCHANGED clientVars
    <2>1. ASSUME NEW r \in Requests, Serve(r) \/ Lose(r) PROVE Alone'
      <3>1. ServedInv
        BY DEF AloneInv, HandInv, ClientTypeOK, ServedInv
      <3>2. Goes(r) /\ UNCHANGED call
        BY <1>5, <2>1, <3>1, ServerServes DEF Served, clientVars
      <3>3. \A x \in Requests : req'[x].pc = "idle" <=> req[x].pc = "idle"
        BY <3>2 DEF Goes, Only
      <3> QED
        BY <3>2, <3>3, QuietSlots, SlotsAreOnes, DeviceSlots DEF AloneInv, Alone, Busy, Quiet
    <2>2. CASE Time
      <3>1. ServedInv
        BY DEF AloneInv, HandInv, ClientTypeOK, ServedInv
      <3>2. Alone'
        BY <1>2, <1>5, <2>2, <3>1, TimePasses DEF clientVars
      <3> QED
        BY <1>1, <3>2 DEF AloneInv
    <2> QED
      BY <1>1, <1>5, <2>1, <2>2 DEF ServerStep, AloneInv
  <1> QED
    BY <1>3, <1>4, <1>5 DEF BrowserNext

LEMMA AloneInit == BrowserInit => AloneInv
  <1> SUFFICES ASSUME BrowserInit PROVE AloneInv
    OBVIOUS
  <1>1. \A d \in Devices : req[d] = NoRequest
    BY DeviceSlots DEF BrowserInit, AuthInit
  <1> QED
    BY <1>1, HandInit, DeviceSlots DEF AloneInv, Alone, Busy, NoRequest

OneTab == \A s, t \in Tabs : s = t

LEMMA OneTabEach ==
    ASSUME OneTab, NEW s \in AllTabs, NEW t \in AllTabs, s[1] = t[1]
    PROVE  s = t
  <1>1. PICK b \in Browsers : s \in {b} \X Tabs
    BY DEF AllTabs, TabsOf
  <1>2. PICK c \in Browsers : t \in {c} \X Tabs
    BY DEF AllTabs, TabsOf
  <1>3. s[2] = t[2]
    BY <1>1, <1>2 DEF OneTab
  <1> QED
    BY <1>1, <1>2, <1>3

-----------------------------------------------------------------------------
(* A refused renewal means a dead session, if besides no two changes of    *)
(* password overlap and no page calls while its user signs out.            *)

\* A tab renews with what is in the jar.
Renews == \A t \in AllTabs : req[t].op = "refresh" => req[t].refresh = held[t[1]]

\* A renewal's copy of the account is no older than the token it came with.
CopyAhead ==
    \A r \in Requests : req[r].pc = "loaded" /\ req[r].op = "refresh" =>
        pair[req[r].refresh].epoch <= req[r].row.epoch

Over(p) == Spent(p) \/ pair[p].epoch < account.epoch

RefusedDead ==
    \A r \in Requests : req[r].op = "refresh" /\ req[r].answer = "refused" =>
        Over(req[r].refresh)

OverInv == ClientInv /\ AloneInv /\ Renews /\ CopyAhead /\ RefusedDead

LEMMA OverStays ==
    ASSUME ClientInv, ClientInv', PairsLast, EpochsPass, NEW p \in Maybe,
           p # NoPair => Minted(p), Over(p)
    PROVE  Over(p)'
  <1>1. CASE p = NoPair
    BY <1>1 DEF Over, Spent, Decodes
  <1>2. CASE p # NoPair
    <2>1. Minted(p) /\ p \in Pairs /\ pair[p].epoch \in Nat
          /\ account.epoch \in Nat /\ account'.epoch \in Nat
      BY <1>2 DEF Minted, ClientInv, SessionInv, SessionTypeOK, Pair
    <2>2. /\ Spent(p) => Spent(p)'
          /\ pair'[p].epoch = pair[p].epoch /\ account.epoch <= account'.epoch
      BY <2>1 DEF PairsLast, EpochsPass
    <2> QED
      BY <2>1, <2>2 DEF Over
  <1> QED
    BY <1>1, <1>2

\* What was refused stays refused, whatever else happens.
LEMMA RefusalsStay ==
    ASSUME OverInv, ClientInv', PairsLast, EpochsPass, NEW r \in Requests, req'[r] = req[r]
    PROVE  /\ req'[r].pc = "loaded" /\ req'[r].op = "refresh" =>
                pair'[req'[r].refresh].epoch <= req'[r].row.epoch
           /\ req'[r].op = "refresh" /\ req'[r].answer = "refused" => Over(req[r].refresh)'
  <1>1. PICK p \in Maybe : p = req[r].refresh
    BY DEF OverInv, ClientInv, SessionInv, SessionTypeOK, Request
  <1>2. p # NoPair => Minted(p) /\ p \in Pairs
    BY <1>1, SlotsAreOnes DEF OverInv, AloneInv, HandInv, HandsMinted, Has, Shows, Maybe
  <1>3. ASSUME req[r].op = "refresh", req[r].answer = "refused"
        PROVE  Over(req[r].refresh)'
    <2>1. Over(p)
      BY <1>1, <1>3 DEF OverInv, RefusedDead
    <2>2. Over(p)'
      BY <1>2, <2>1, OverStays DEF OverInv
    <2>3. req'[r].refresh = p
      BY <1>1
    <2> QED
      BY <2>2, <2>3
  <1>4. ASSUME req[r].op = "refresh", req[r].pc = "loaded"
        PROVE  pair'[p].epoch <= req[r].row.epoch
    <2>1. Minted(p)
      BY <1>1, <1>4 DEF OverInv, AloneInv, HandInv, PresentedMinted, Presented
    <2>2. pair'[p].epoch = pair[p].epoch
      BY <2>1 DEF EpochsPass, Minted
    <2> QED
      BY <1>1, <1>4, <2>2 DEF OverInv, CopyAhead
  <1> QED
    BY <1>1, <1>3, <1>4

LEMMA MovesOver ==
    ASSUME OverInv, ClientMoves, ClientInv', AloneInv', Renews'
    PROVE  OverInv'
  <1>1. UNCHANGED <<account, pair, revoked>> /\ PairsLast /\ account.epoch \in Nat
    BY DEF ClientMoves, PairsLast, Minted, Spent, Decodes, Revoked, OverInv, ClientInv,
           SessionInv, SessionTypeOK
  <1>2. \A n \in Nat : n <= n
    OBVIOUS
  <1>3. EpochsPass
    BY <1>1, <1>2 DEF EpochsPass, Minted
  <1>4. \A r \in Requests : \/ req'[r] = req[r]
                            \/ req'[r].pc \in {"idle", "sent"} /\ req'[r].answer = "none"
    BY SlotsAreOnes DEF ClientMoves, FreshOf
  <1>5. CopyAhead'
    BY <1>1, <1>3, <1>4, RefusalsStay DEF CopyAhead
  <1>6. RefusedDead'
    BY <1>1, <1>3, <1>4, RefusalsStay DEF RefusedDead
  <1> QED
    BY <1>5, <1>6 DEF OverInv

LEMMA ClientRenews ==
    ASSUME OverInv, OneTab, ClientStep
    PROVE  Renews'
  <1>1. HandInv /\ Alone /\ Renews
    BY DEF OverInv, AloneInv
  <1>2. ASSUME UNCHANGED held, \A t \in AllTabs : req'[t] = req[t]
        PROVE  Renews'
    BY <1>1, <1>2 DEF Renews
  <1>3. ASSUME NEW c \in AllCalls, StartCall(c) PROVE Renews'
    <2>1. c \in Requests /\ c \notin AllTabs /\ held[c[1]] \in Maybe /\ NoPair \in Maybe
      BY <1>1, SlotsAreOnes, TabsAreNoCalls DEF HandInv, ClientTypeOK, Maybe, Devices
    <2>2. UNCHANGED held /\ \A x \in Requests : x # c => req'[x] = req[x]
      BY <1>1, <1>3, <2>1, SendFresh, SomePasswordType
      DEF StartCall, Operations, HandInv, ClientTypeOK
    <2> QED
      BY <1>2, <2>1, <2>2, SlotsAreOnes
  <1>4. ASSUME NEW c \in AllCalls, CallDone(c) PROVE Renews'
    <2>1. c \in Requests /\ c \notin AllTabs
      BY SlotsAreOnes, TabsAreNoCalls
    <2>2. UNCHANGED held /\ \A x \in Requests : x # c => req'[x] = req[x]
      BY <1>1, <1>4, <2>1, ThenFresh DEF CallDone, HandInv, ClientTypeOK
    <2> QED
      BY <1>2, <2>1, <2>2, SlotsAreOnes
  <1>5. ASSUME NEW c \in AllCalls, CallRefused(c) PROVE Renews'
    <2> DEFINE t == TabOf(c)
               free == {s \in {RenewalSlot(c)} : s = c \/ req[s].pc = "idle"}
               renewal == Sent("refresh", NoPair, held[c[1]])
               also == [s \in free |-> renewal]
    <2>1. /\ c \in Requests /\ c \notin AllTabs /\ t \in AllTabs /\ t[1] = c[1]
          /\ held[c[1]] \in Maybe /\ NoPair \in Maybe
      BY <1>1, CallSlots, SlotsAreOnes, TabsAreNoCalls
      DEF HandInv, ClientTypeOK, Maybe, Devices, TabOf
    <2>2. renewal \in Request /\ renewal.refresh = held[c[1]]
      BY <2>1, SentType DEF Operations, Writing
    <2>3. Then(c, also) /\ UNCHANGED <<account, pair, revoked, held>>
      BY <1>5 DEF CallRefused
    <2>4. free \subseteq {t} /\ DOMAIN also = free /\ \A x \in DOMAIN also : also[x] = renewal
      BY DEF RenewalSlot
    <2> HIDE DEF renewal, also, free
    <2>5. \A x \in Requests : /\ x # c /\ x # t => req'[x] = req[x]
                              /\ x = t => req'[x] \in {req[x], renewal}
      BY <1>1, <2>1, <2>2, <2>3, <2>4, ThenFresh DEF HandInv, ClientTypeOK
    <2> HIDE DEF t
    <2> QED
      BY <1>1, <2>1, <2>2, <2>3, <2>5, SlotsAreOnes DEF Renews
  <1>6. ASSUME NEW s \in AllTabs \cup AllCalls, RenewalSettles(s) PROVE Renews'
    <2> DEFINE renewed == req[s].got # NoPair
               retry == Sent("use", req[s].got, NoPair)
               also == [c \in {x \in Waiting(s) : renewed} |-> retry]
    <2>1. /\ s \in Requests /\ s[1] \in Devices /\ req[s].got \in Maybe /\ NoPair \in Maybe
      BY <1>1, SlotsAreOnes
      DEF HandInv, ClientTypeOK, SessionTypeOK, Request, Maybe, Devices
    <2>2. retry \in Request
      BY <2>1, SentType DEF Operations
    <2>3. /\ Then(s, also) /\ UNCHANGED <<account, pair, revoked>>
          /\ req[s].op = "refresh"
          /\ held' = IF renewed THEN [held EXCEPT ![s[1]] = req[s].got] ELSE held
      BY <1>6 DEF RenewalSettles
    <2>4. s \in AllTabs
      BY <1>1, <2>3 DEF HandInv, SlotRoles
    <2>5. /\ DOMAIN also \subseteq AllCalls /\ \A x \in DOMAIN also : also[x] = retry
      BY DEF Waiting
    <2> HIDE DEF retry, also
    <2>6. /\ req'[s].op = "use"
          /\ \A x \in AllTabs : x # s => req'[x] = req[x]
      BY <1>1, <2>1, <2>2, <2>3, <2>4, <2>5, ThenFresh, TabsAreNoCalls, SlotsAreOnes
      DEF HandInv, ClientTypeOK
    <2>7. \A d \in Devices : d # s[1] => held'[d] = held[d]
      BY <1>1, <2>3 DEF HandInv, ClientTypeOK
    <2>8. \A x \in AllTabs : x # s => x[1] # s[1] /\ x[1] \in Devices
      BY <2>4, OneTabEach, SlotsAreOnes DEF Devices
    <2> QED
      BY <1>1, <2>6, <2>7, <2>8 DEF Renews
  <1>7. ASSUME NEW d \in Devices, UserAsks(d) PROVE Renews'
    <2>1. PICK op, refresh, given, new : Asks(d, op, refresh, given, new)
      BY <1>7, UserAsksOne
    <2>2. d \in Requests /\ d \notin AllTabs /\ held[d] \in Maybe /\ refresh \in Maybe
      BY <1>1, <2>1, SlotsAreOnes DEF HandInv, ClientTypeOK, Maybe, Asks
    <2>3. UNCHANGED held /\ \A x \in Requests : x # d => req'[x] = req[x]
      BY <1>1, <2>1, <2>2, SendFresh DEF Asks, UserSends, clientVars, HandInv, ClientTypeOK
    <2> QED
      BY <1>2, <2>2, <2>3, SlotsAreOnes
  <1>8. ASSUME NEW d \in Devices, UserAnswered(d) PROVE Renews'
    <2>1. d \in Requests /\ d \notin AllTabs
      BY SlotsAreOnes
    <2>2. /\ \A x \in Requests : x # d => req'[x] = req[x]
          /\ \A e \in Devices : e # d => held'[e] = held[e]
          /\ req[d].pc # "idle"
      BY <1>1, <1>8, <2>1, ThenFresh DEF UserAnswered, Arrived, HandInv, ClientTypeOK
    <2>3. \A t \in AllTabs : t[1] = d => req[t].op = "use"
      BY <1>1, <2>2, BusyWaits, TabSlots DEF Busy, NoRequest
    <2> QED
      BY <1>1, <2>1, <2>2, <2>3, TabSlots, DeviceSlots DEF Renews
  <1> QED
    BY <1>3, <1>4, <1>5, <1>6, <1>7, <1>8 DEF ClientStep, UserAsks

LEMMA ServerOver ==
    ASSUME OverInv, NEW r \in Requests, Serve(r) \/ Lose(r), UNCHANGED clientVars,
           ClientInv', AloneInv'
    PROVE  OverInv'
  <1>1. ServedInv /\ Unanswered(r) /\ SessionInv
    BY DEF OverInv, ClientInv, AloneInv, HandInv, ClientTypeOK, ServedInv, SlotRoles, Unanswered
  <1>2. Served(r) /\ Stages(r) /\ EpochsPass /\ UNCHANGED held
    BY <1>1, ServerServes, ServerStages, ServerPasses DEF clientVars
  <1>3. /\ PairsLast /\ req'[r].op = req[r].op /\ req'[r].refresh = req[r].refresh
        /\ \A x \in Requests : x # r => req'[x] = req[x]
    BY <1>2 DEF Served, Goes, Only
  <1>4. Renews'
    <2>1. \A x \in Requests : req'[x].op = req[x].op /\ req'[x].refresh = req[x].refresh
      BY <1>3
    <2> QED
      BY <1>2, <2>1, TabSlots DEF OverInv, Renews
  <1> DEFINE p == req[r].refresh
  <1>5. req[r].op = "refresh" => TypeOf(r) = "refresh" /\ Presented(r) = p
    BY DEF TypeOf, Presented
  <1>6. account.epoch \in Nat /\ \A q \in Pairs : pair[q].epoch \in Nat
    BY <1>1 DEF SessionInv, SessionTypeOK, Pair
  <1>7. ASSUME req[r].op = "refresh", req'[r].pc = "loaded"
        PROVE  pair'[p].epoch <= req'[r].row.epoch
    <2>1. Decodes("refresh", p) /\ req'[r].row.epoch = account.epoch /\ UNCHANGED pair
      BY <1>2, <1>5, <1>7 DEF Stages
    <2>2. p \in Maybe
      BY <1>1 DEF SessionInv, SessionTypeOK, Request
    <2>3. Minted(p)
      BY <2>1, <2>2 DEF Decodes, Minted, Maybe
    <2> QED
      BY <1>1, <2>1, <2>3 DEF SessionInv, PairsFollow, Minted
  <1>8. ASSUME req[r].op = "refresh", req'[r].answer = "refused"
        PROVE  Over(req[r].refresh)'
    <2>1. UNCHANGED <<account, pair, revoked>>
      BY <1>2, <1>8 DEF Stages
    <2>2. Over(p)
      <3>1. CASE ~Decodes("refresh", p) \/ ~account.exists
        BY <3>1 DEF Over, Spent
      <3>2. CASE req[r].pc = "loaded" /\ ~AssertLive("refresh", p, req[r].row)
        <4>1. p \in Pairs
          BY <1>1, <1>5, <1>8, <3>2 DEF ServedInv, PresentedMinted, Minted
        <4>2. /\ pair[p].epoch <= req[r].row.epoch /\ req[r].row.epoch <= account.epoch
              /\ req[r].row.epoch \in Nat
          BY <1>1, <1>8, <3>2 DEF OverInv, CopyAhead, SessionInv, SessionTypeOK, Request,
                                  CopiesFollow
        <4> QED
          BY <1>6, <3>2, <4>1, <4>2 DEF AssertLive, Over, Spent
      <3> QED
        BY <1>2, <1>5, <1>8, <3>1, <3>2 DEF Stages, Writing
    <2> QED
      BY <1>3, <2>1, <2>2 DEF Over, Spent, Decodes, Revoked
  <1>9. CopyAhead'
    BY <1>2, <1>3, <1>7, RefusalsStay DEF CopyAhead
  <1>10. RefusedDead'
    BY <1>2, <1>3, <1>8, RefusalsStay DEF RefusedDead
  <1> QED
    BY <1>4, <1>9, <1>10 DEF OverInv

\* Steps in which no client and no request moves.
LEMMA StillOver ==
    ASSUME OverInv, PairsLast, EpochsPass, UNCHANGED <<req, held>>, ClientInv', AloneInv'
    PROVE  OverInv'
  <1>1. Renews'
    BY DEF OverInv, Renews
  <1>2. CopyAhead' /\ RefusedDead'
    BY RefusalsStay DEF CopyAhead, RefusedDead
  <1> QED
    BY <1>1, <1>2 DEF OverInv

LEMMA OverStep ==
    ASSUME OneTab, "change" \notin Races, "signout" \notin Races
    PROVE  OverInv /\ [BrowserNext]_browserVars => OverInv'
  <1> SUFFICES ASSUME OverInv, [BrowserNext]_browserVars PROVE OverInv'
    OBVIOUS
  <1>1. ClientInv' /\ AloneInv'
    BY ClientStepInv, AloneStep DEF OverInv
  <1>2. CASE UNCHANGED browserVars
    <2>1. \A n \in Nat : n <= n
      OBVIOUS
    <2>2. PairsLast /\ EpochsPass
      BY <1>2, <2>1
      DEF browserVars, authVars, PairsLast, EpochsPass, Minted, Spent, Decodes, Revoked,
          OverInv, ClientInv, SessionInv, SessionTypeOK
    <2> QED
      BY <1>1, <1>2, <2>2, StillOver DEF browserVars, authVars, clientVars
  <1>3. CASE ClientStep
    BY <1>1, <1>3, ClientStepMoves, ClientRenews, MovesOver DEF OverInv, AloneInv
  <1>4. CASE ServerStep /\ UNCHANGED clientVars
    <2>1. CASE \E r \in Requests : Serve(r) \/ Lose(r)
      BY <1>1, <1>4, <2>1, ServerOver
    <2>2. CASE Time
      <3>1. ServedInv
        BY DEF OverInv, AloneInv, HandInv, ClientTypeOK, ServedInv
      <3> QED
        BY <1>1, <1>4, <2>2, <3>1, TimePasses, TimeStages, StillOver DEF clientVars
    <2> QED
      BY <1>4, <2>1, <2>2 DEF ServerStep
  <1> QED
    BY <1>2, <1>3, <1>4 DEF BrowserNext

LEMMA OverInit == BrowserInit => OverInv
  <1> SUFFICES ASSUME BrowserInit PROVE OverInv
    OBVIOUS
  <1>1. \A r \in Requests : req[r] = NoRequest
    BY DEF BrowserInit, AuthInit
  <1>2. NoRequest.op = "use"
    BY DEF NoRequest
  <1> QED
    BY <1>1, <1>2, ClientInit, AloneInit, TabSlots DEF OverInv, Renews, CopyAhead, RefusedDead

\* "A refused renewal means a dead session", for any browsers of one tab each
\* and any scripts: a tab never signs its browser out of a session that could
\* still be renewed.
THEOREM RefusalsMeanOver ==
    ASSUME OneTab, "change" \notin Races, "signout" \notin Races
    PROVE  BrowserSpec => RefusalMeansOver
  <1>1. ASSUME OverInv, NEW s \in AllTabs \cup AllCalls, RefusedAt(s)
        PROVE  ~Live("refresh", held[s[1]])
    <2>1. req[s].op = "refresh" /\ req[s].answer = "refused" /\ s \in Requests
      BY <1>1, SlotsAreOnes DEF RefusedAt
    <2>2. s \in AllTabs
      BY <1>1, <2>1 DEF OverInv, AloneInv, HandInv, SlotRoles
    <2>3. PICK p \in Maybe : p = held[s[1]] /\ p = req[s].refresh /\ Over(p)
      BY <1>1, <2>1, <2>2 DEF OverInv, Renews, RefusedDead, ClientInv, SessionInv, SessionTypeOK,
                        Request
    <2>4. p \in Pairs => pair[p].epoch \in Nat /\ account.epoch \in Nat
      BY <1>1 DEF OverInv, ClientInv, SessionInv, SessionTypeOK, Pair
    <2> QED
      BY <2>3, <2>4 DEF Over, Spent, Live, Decodes, AssertLive, Maybe
  <1>2. OverInv => [\A s \in AllTabs \cup AllCalls :
                       RefusedAt(s) => ~Live("refresh", held[s[1]])]_browserVars
    BY <1>1
  <1> QED
    BY <1>2, OverInit, OverStep, PTL DEF BrowserSpec, RefusalMeansOver
=============================================================================
