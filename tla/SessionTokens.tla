---------------------------- MODULE SessionTokens ----------------------------
(***************************************************************************)
(* One account, the pairs of tokens minted for it, the denylist and the    *)
(* account's epoch: services/token_service.py, security.py, api/deps.py    *)
(* and routes/auth.py.  A request reads the account in one await and the   *)
(* denylist in the next, decides on both, and writes in a third; other     *)
(* requests commit in between.                                             *)
(***************************************************************************)
EXTENDS Naturals, FiniteSets

CONSTANTS
    Requests,       \* requests that may be in progress at once
    MaxPairs,       \* a bound: pairs that are ever minted
    NoPair,         \* not a pair
    Passwords,      \* passwords the account may have
    MaxEpoch,       \* a bound: changes of password
    Races           \* windows that are open, of "change", "purge", "signout"

Pairs == 1 .. MaxPairs      \* in the order in which they are minted

ASSUME SessionAssumption ==
    MaxPairs \in Nat /\ MaxEpoch \in Nat /\ NoPair \notin Pairs /\ Passwords # {}

VARIABLES
    account,    \* the candidates row: does it exist, its epoch, its password
    pair,       \* what the tokens of a pair say, and how much of it has expired
    revoked,    \* the revoked_tokens rows: <<token type, pair>>
    req         \* req[r]: one request, what it presents and what it has read

authVars == <<account, pair, revoked, req>>

Maybe == Pairs \cup {NoPair}
Writing == {"refresh", "logout", "change", "erase"}
Operations == Writing \cup {"use", "login"}

Pair == [age: {"unminted", "fresh", "stale", "dead"}, epoch: 0 .. MaxEpoch,
         password: Passwords, parent: Maybe]

\* `row` is the copy of the account the request's session holds.
Request == [pc: {"idle", "sent", "loaded", "checked", "answered"},
            op: Operations, access: Maybe, refresh: Maybe,
            given: Passwords, new: Passwords,
            row: [epoch: 0 .. MaxEpoch, password: Passwords],
            answer: {"none", "ok", "refused", "wrong", "lost"}, got: Maybe]

SessionTypeOK ==
    /\ account \in [exists: BOOLEAN, epoch: 0 .. MaxEpoch, password: Passwords]
    /\ pair \in [Pairs -> Pair]
    /\ revoked \in SUBSET ({"access", "refresh"} \X Pairs)
    /\ req \in [Requests -> Request]

SomePassword == CHOOSE s \in Passwords : TRUE
Row0 == [epoch |-> 0, password |-> SomePassword]

NoRequest == [pc |-> "idle", op |-> "use", access |-> NoPair, refresh |-> NoPair,
              given |-> SomePassword, new |-> SomePassword,
              row |-> Row0, answer |-> "none", got |-> NoPair]

\* register: the account is committed at epoch 0.  Its first pair is a login's.
AuthInit ==
    /\ account = [exists |-> TRUE, epoch |-> 0, password |-> SomePassword]
    /\ pair = [p \in Pairs |-> [age |-> "unminted", epoch |-> 0,
                                password |-> SomePassword, parent |-> NoPair]]
    /\ revoked = {}
    /\ req = [r \in Requests |-> NoRequest]

-----------------------------------------------------------------------------
(* What a token says, and whether it still counts.                         *)

\* decode_token: the signature, the type and the expiry of the token itself.
Decodes(type, p) ==
    /\ p # NoPair
    /\ pair[p].age \in (IF type = "access" THEN {"fresh"} ELSE {"fresh", "stale"})

\* is_revoked.
Revoked(type, p) == <<type, p>> \in revoked

\* assert_live, against the row the request's session holds.
AssertLive(type, p, row) ==
    /\ ~Revoked(type, p)
    /\ pair[p].epoch = row.epoch

\* Would a request that began now accept this token?
Live(type, p) ==
    /\ account.exists
    /\ Decodes(type, p)
    /\ AssertLive(type, p, account)

\* Which token authenticates a request: the refresh token for a renewal, the
\* access token for everything else.
TypeOf(r) == IF req[r].op = "refresh" THEN "refresh" ELSE "access"
Presented(r) == IF req[r].op = "refresh" THEN req[r].refresh ELSE req[r].access

-----------------------------------------------------------------------------
(* The steps of a request.                                                 *)

\* The rows revoke() adds.  One that is there already collides inside its
\* SAVEPOINT and is left as it is, and so is one whose account has gone.
Revoking(tokens) ==
    revoked' = IF account.exists THEN revoked \cup tokens ELSE revoked

Answer(r, a) == req' = [req EXCEPT ![r].pc = "answered", ![r].answer = a]

Unminted == {p \in Pairs : pair[p].age = "unminted"}

\* _issue: a pair under the epoch of the row as this session has it.
Issue(r, epoch, password, parent) ==
    \E p \in Unminted :
        /\ \A q \in Unminted : p <= q
        /\ pair' = [pair EXCEPT ![p] = [age |-> "fresh", epoch |-> epoch,
                                        password |-> password, parent |-> parent]]
        /\ req' = [req EXCEPT ![r].pc = "answered", ![r].answer = "ok", ![r].got = p]

\* Changes of password that the server has not finished with.
Changing == {r \in Requests : req[r].op = "change"
                              /\ req[r].pc \in {"sent", "loaded", "checked"}}

Send(r, op, access, refresh, given, new) ==
    /\ req[r].pc = "idle"
    /\ op = "change" => "change" \in Races \/ Changing = {}
    /\ req' = [req EXCEPT ![r] = [NoRequest EXCEPT
                 !.pc = "sent", !.op = op, !.access = access, !.refresh = refresh,
                 !.given = given, !.new = new]]
    /\ UNCHANGED <<account, pair, revoked>>

\* login reads the row, verifies and mints: nothing is awaited in between.
Login(r) ==
    /\ req[r].pc = "sent" /\ req[r].op = "login"
    /\ UNCHANGED <<account, revoked>>
    /\ \/ /\ account.exists /\ req[r].given = account.password
          /\ Issue(r, account.epoch, account.password, NoPair)
       \/ /\ ~(account.exists /\ req[r].given = account.password)
          /\ Answer(r, "refused")
          /\ UNCHANGED pair

\* A request that only reads is one step: whatever it answers, it would have
\* answered at one of its two reads.
Use(r) ==
    /\ req[r].pc = "sent" /\ req[r].op = "use"
    /\ Answer(r, IF Live("access", req[r].access) THEN "ok" ELSE "refused")
    /\ UNCHANGED <<account, pair, revoked>>

\* decode_token, then the account: get_current_candidate, get_current_claims
\* and the first half of refresh.
Load(r) ==
    /\ req[r].pc = "sent" /\ req[r].op \in Writing
    /\ IF Decodes(TypeOf(r), Presented(r)) /\ account.exists
       THEN req' = [req EXCEPT ![r].pc = "loaded",
                      ![r].row = [epoch |-> account.epoch, password |-> account.password]]
       ELSE Answer(r, "refused")
    /\ UNCHANGED <<account, pair, revoked>>

\* assert_live reads the denylist and compares the epoch with the row read
\* before.  A change of password is refused when the password given is not
\* the one of the row.
Check(r) ==
    /\ req[r].pc = "loaded"
    /\ IF ~AssertLive(TypeOf(r), Presented(r), req[r].row) THEN Answer(r, "refused")
       ELSE IF req[r].op = "change" /\ req[r].given # req[r].row.password
            THEN Answer(r, "wrong")
       ELSE req' = [req EXCEPT ![r].pc = "checked"]
    /\ UNCHANGED <<account, pair, revoked>>

At(r, op) == req[r].pc = "checked" /\ req[r].op = op

\* Mutant of Refresh: the token that was spent goes on working.
RefreshWithoutRotation(r) ==
    /\ At(r, "refresh")
    /\ Issue(r, req[r].row.epoch, pair[req[r].refresh].password, req[r].refresh)
    /\ UNCHANGED <<account, revoked>>

\* refresh: the token is spent and committed, and a pair minted for it.
Refresh(r) ==
    /\ At(r, "refresh")
    /\ Revoking({<<"refresh", req[r].refresh>>})
    /\ Issue(r, req[r].row.epoch, pair[req[r].refresh].password, req[r].refresh)
    /\ UNCHANGED account

\* Mutant of Logout: only the token that authenticated the call is revoked.
LogoutAccessOnly(r) ==
    /\ At(r, "logout")
    /\ Revoking({<<"access", req[r].access>>})
    /\ Answer(r, "ok")
    /\ UNCHANGED <<account, pair>>

\* logout: the access token, and the refresh token if one came with it and
\* still decodes.
Logout(r) ==
    /\ At(r, "logout")
    /\ Revoking({<<"access", req[r].access>>} \cup
                {<<"refresh", p>> : p \in {q \in {req[r].refresh} : Decodes("refresh", q)}})
    /\ Answer(r, "ok")
    /\ UNCHANGED <<account, pair>>

\* Mutant of NextEpoch: the account stays in the generation it was in.
SameEpoch(row) == row.epoch

\* candidate.token_epoch += 1, on the copy.
NextEpoch(row) == row.epoch + 1

\* change_password: the row is written from the copy, whatever it has become
\* since, unless it has gone; the pair is minted after the bump.
ChangePassword(r) ==
    /\ At(r, "change")
    /\ req[r].row.epoch < MaxEpoch
    /\ Revoking({<<"access", req[r].access>>})
    /\ IF account.exists
       THEN /\ account' = [account EXCEPT !.epoch = NextEpoch(req[r].row),
                                          !.password = req[r].new]
            /\ Issue(r, NextEpoch(req[r].row), req[r].new, NoPair)
       ELSE Answer(r, "lost") /\ UNCHANGED <<account, pair>>

\* delete_me: the denylist goes with the account, on the cascade.
Erase(r) ==
    /\ At(r, "erase")
    /\ account' = [account EXCEPT !.exists = FALSE]
    /\ revoked' = {}
    /\ Answer(r, "ok")
    /\ UNCHANGED pair

\* The call fails on the way there, or on the way back, or with the process
\* that serves it, whose transaction is rolled back.
Lose(r) ==
    /\ req[r].pc # "idle" /\ req[r].op # "use" /\ req[r].answer # "lost"
    /\ req' = [req EXCEPT ![r].pc = "answered", ![r].answer = "lost", ![r].got = NoPair]
    /\ UNCHANGED <<account, pair, revoked>>

Serve(r) ==
    \/ Login(r) \/ Use(r) \/ Load(r) \/ Check(r)
    \/ Refresh(r) \/ Logout(r) \/ ChangePassword(r) \/ Erase(r)

-----------------------------------------------------------------------------
(* Time.                                                                   *)

\* An access token expires before the refresh token minted with it, and both
\* after those of the pairs minted before.
Expire(p) ==
    /\ pair[p].age \in {"fresh", "stale"}
    /\ \A q \in Pairs : q < p => pair[q].age \notin {"fresh", pair[p].age}
    /\ pair' = [pair EXCEPT ![p].age = IF @ = "fresh" THEN "stale" ELSE "dead"]
    /\ UNCHANGED <<account, revoked, req>>

Expired == {t \in revoked : ~Decodes(t[1], t[2])}

\* A token that expired between a request's decoding it and its reading the
\* denylist, which a purge may shorten in between.
Straddles(r) == req[r].pc = "loaded" /\ ~Decodes(TypeOf(r), Presented(r))

\* purge_revoked_tokens.
PurgeExpired ==
    /\ Expired # {}
    /\ "purge" \in Races \/ \A r \in Requests : ~Straddles(r)
    /\ revoked' = revoked \ Expired
    /\ UNCHANGED <<account, pair, req>>

Time == PurgeExpired \/ \E p \in Pairs : Expire(p)

-----------------------------------------------------------------------------
(* Any caller may send anything, present any pair that was minted and ask  *)
(* again when it is answered; what the browser sends is BrowserSession's.  *)

AnyCaller(r) ==
    \/ \E op \in Operations, given, new \in Passwords,
          access, refresh \in {NoPair} \cup (Pairs \ Unminted) :
         Send(r, op, access, refresh, given, new)
    \/ Lose(r)
    \/ /\ req[r].pc = "answered"
       /\ req' = [req EXCEPT ![r] = NoRequest]
       /\ UNCHANGED <<account, pair, revoked>>

AuthNext == (\E r \in Requests : AnyCaller(r) \/ Serve(r)) \/ Time

AuthSpec == AuthInit /\ [][AuthNext]_authVars

-----------------------------------------------------------------------------
(* Properties.                                                             *)

\* "Every session on every device ends here": a token the API accepts rests
\* on the password the account has now, whoever holds it and however it was
\* renewed in the meantime.  Two changes that overlap break this, since both
\* arrive at one epoch; "change" \in Races says that they may.
LiveRestsOnPassword ==
    \A p \in Pairs, type \in {"access", "refresh"} :
        Live(type, p) => pair[p].password = account.password
=============================================================================
