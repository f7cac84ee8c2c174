---------------------------- MODULE BrowserSession ----------------------------
(***************************************************************************)
(* SessionTokens under its clients: browsers whose tabs share one cookie   *)
(* jar and one stored marker (web/lib/auth.ts), and scripts that keep the  *)
(* pair a response's body carried and send the access token in a header.   *)
(***************************************************************************)
EXTENDS SessionTokens

CONSTANTS
    Browsers, Scripts,  \* the devices signed in to the account
    Tabs,               \* numbers of the tabs of a browser
    Loads,              \* numbers of the calls a page makes at once
    Asked               \* a bound: what its user asks of a device

VARIABLES
    held,       \* held[d]: the pair in the browser's jar or the script's memory
    marker,     \* marker[b]: localStorage says somebody is signed in
    call,       \* call[c]: where one authorized() call is
    ended       \* pairs whose holder the API has told that it is signed out

clientVars == <<held, marker, call, ended>>
browserVars == <<authVars, clientVars>>

Devices == Browsers \cup Scripts
TabsOf(b) == {b} \X Tabs
CallsOf(t) == {t[1]} \X {t[2]} \X Loads
AllTabs == UNION {TabsOf(b) : b \in Browsers}
AllCalls == UNION {CallsOf(t) : t \in AllTabs}
TabOf(c) == <<c[1], c[2]>>

\* One request slot for each call, each tab's renewal and each device's user.
RequestSlots == AllCalls \cup AllTabs \cup Devices
ASSUME SlotAssumption ==
    /\ Requests = RequestSlots
    /\ Browsers \cap Scripts = {}
    /\ Devices \cap (AllTabs \cup AllCalls) = {}

ClientTypeOK ==
    /\ SessionTypeOK
    /\ held \in [Devices -> Maybe]
    /\ marker \in [Browsers -> BOOLEAN]
    /\ call \in [AllCalls -> {"idle", "calling", "renewing", "retrying"}]
    /\ ended \in SUBSET Pairs

BrowserInit ==
    /\ AuthInit
    /\ held = [d \in Devices |-> NoPair]
    /\ marker = [b \in Browsers |-> FALSE]
    /\ call = [c \in AllCalls |-> "idle"]
    /\ ended = {}

-----------------------------------------------------------------------------
(* Arriving answers.                                                       *)

Arrived(r) == req[r].pc = "answered"

\* The slot of a request whose answer has been read, and `also` sent at once.
Then(r, also) ==
    req' = [x \in Requests |->
              IF x \in DOMAIN also THEN also[x]
              ELSE IF x = r THEN NoRequest ELSE req[x]]

Sent(op, access, refresh) ==
    [NoRequest EXCEPT !.pc = "sent", !.op = op, !.access = access, !.refresh = refresh]

-----------------------------------------------------------------------------
(* authorized(): call, renew once on a refusal, retry.                     *)

Quiet(b) == \A t \in TabsOf(b) :
              /\ req[t].pc = "idle"
              /\ \A c \in CallsOf(t) : call[c] = "idle"

\* The user is in the middle of signing in or out or changing the password.
Busy(d) == req[d].pc # "idle"

StartCall(c) ==
    /\ call[c] = "idle"
    /\ marker[c[1]]
    /\ "signout" \in Races \/ ~Busy(c[1])
    /\ call' = [call EXCEPT ![c] = "calling"]
    /\ Send(c, "use", held[c[1]], NoPair, SomePassword, SomePassword)
    /\ UNCHANGED <<held, marker, ended>>

\* Done, or an error that is not a 401, which is the page's to show.
CallDone(c) ==
    /\ Arrived(c) /\ req[c].op = "use"
    /\ req[c].answer # "refused" \/ call[c] = "retrying"
    /\ call' = [call EXCEPT ![c] = "idle"]
    /\ Then(c, <<>>)
    /\ UNCHANGED <<account, pair, revoked, held, marker, ended>>

\* Mutant of RenewalSlot: every call that is refused renews for itself.
RenewalOfItsOwn(c) == c

\* tryRefresh: one renewal per tab, joined by every call refused meanwhile.
RenewalSlot(c) == TabOf(c)

CallRefused(c) ==
    LET free == {s \in {RenewalSlot(c)} : s = c \/ req[s].pc = "idle"}
    IN  /\ Arrived(c) /\ req[c].answer = "refused" /\ call[c] = "calling"
        /\ call' = [call EXCEPT ![c] = "renewing"]
        /\ Then(c, [s \in free |-> Sent("refresh", NoPair, held[c[1]])])
        /\ UNCHANGED <<account, pair, revoked, held, marker, ended>>

\* The renewal settles for everyone who joined it: they all retry, or the
\* session is over and the marker goes for every tab of the browser.
Waiting(s) == {c \in AllCalls : call[c] = "renewing" /\ RenewalSlot(c) = s}

RenewalSettles(s) ==
    LET b == s[1]
        renewed == req[s].got # NoPair
    IN  /\ Arrived(s) /\ req[s].op = "refresh"
        /\ held' = IF renewed THEN [held EXCEPT ![b] = req[s].got] ELSE held
        /\ marker' = [marker EXCEPT ![b] = @ /\ renewed]
        /\ call' = [c \in AllCalls |-> IF c \notin Waiting(s) THEN call[c]
                                       ELSE IF renewed THEN "retrying" ELSE "idle"]
        /\ Then(s, [c \in {x \in Waiting(s) : renewed} |->
                      Sent("use", req[s].got, NoPair)])
        /\ UNCHANGED <<account, pair, revoked, ended>>

-----------------------------------------------------------------------------
(* What a user does with a device.  A script's pair travels in the header, *)
(* with the refresh token in a body where the route takes one.             *)

\* refresh_token_of_this_session: the cookie of a browser, and of a caller
\* with a header only what the body names.
RefreshOfThisSession(d) ==
    IF d \in Browsers THEN {held[d]} ELSE {NoPair, held[d]}

\* What the page shows: the marker, whatever is in the jar.
SignedIn(d) == IF d \in Browsers THEN marker[d] ELSE held[d] # NoPair

UserSends(d, op, refresh, given, new) ==
    /\ <<d, op>> \in Asked
    /\ op = "login" <=> ~SignedIn(d)
    /\ d \in Browsers /\ "signout" \notin Races => Quiet(d)
    /\ Send(d, op, held[d], refresh, given, new)
    /\ UNCHANGED clientVars

Plainly(d, op, refresh) == UserSends(d, op, refresh, SomePassword, SomePassword)

SignIn(d) == \E given \in Passwords : UserSends(d, "login", NoPair, given, given)
AskPasswordChange(d) ==
    \E given, new \in Passwords : given # new /\ UserSends(d, "change", NoPair, given, new)
AskErasure(d) == Plainly(d, "erase", NoPair)
ScriptRenews(d) == d \in Scripts /\ Plainly(d, "refresh", held[d])
SignOut(d) == \E refresh \in RefreshOfThisSession(d) : Plainly(d, "logout", refresh)

\* establishSession: the pair is kept and the marker written.
\* signOut: the marker goes whatever the call did, the cookies only when the
\* API says so.  What the API accepted as a sign-out has ended.
UserAnswered(d) ==
    LET a == req[d].answer
        out == req[d].op \in {"logout", "erase"}
    IN  /\ Arrived(d)
        /\ held' = IF out /\ a = "ok" THEN [held EXCEPT ![d] = NoPair]
                   ELSE IF req[d].got # NoPair THEN [held EXCEPT ![d] = req[d].got]
                   ELSE held
        /\ marker' = IF d \in Scripts THEN marker
                     ELSE [marker EXCEPT ![d] = (@ \/ req[d].got # NoPair) /\ req[d].op # "logout"
                                                /\ ~(req[d].op = "erase" /\ a = "ok")]
        /\ ended' = IF out /\ a = "ok" THEN ended \cup ({req[d].refresh} \ {NoPair})
                    ELSE ended
        /\ Then(d, <<>>)
        /\ UNCHANGED <<account, pair, revoked, call>>

-----------------------------------------------------------------------------
ClientStep ==
    \/ \E c \in AllCalls : StartCall(c) \/ CallDone(c) \/ CallRefused(c)
    \/ \E s \in AllTabs \cup AllCalls : RenewalSettles(s)
    \/ \E d \in Devices :
         \/ SignIn(d) \/ SignOut(d) \/ AskPasswordChange(d) \/ AskErasure(d)
         \/ ScriptRenews(d) \/ UserAnswered(d)

ServerStep == (\E r \in Requests : Serve(r) \/ Lose(r)) \/ Time

BrowserNext == ClientStep \/ (ServerStep /\ UNCHANGED clientVars)

BrowserSpec == BrowserInit /\ [][BrowserNext]_browserVars

-----------------------------------------------------------------------------
(* Properties.                                                             *)

\* "The token presented is revoked, so it is genuinely single-use": no two
\* pairs were minted for one.  Nothing sees to it when the two uses overlap
\* at the server, as those of two tabs do, or when a purge takes the token
\* off the denylist between two reads of the second.
OneHeirPerRefreshToken ==
    account.exists =>
        \A p, q \in Pairs :
            p # q /\ pair[p].parent # NoPair => pair[p].parent # pair[q].parent

\* "Ends this session on the server, not only here": the refresh token that
\* was given up renews nothing, and no device holds, or is about to be
\* handed, one descended from it that does.  A renewal that is under way
\* beside the sign-out hands out just that.
Heirs(tokens) == {p \in Pairs : pair[p].parent \in tokens}
GivenUp == {p \in Pairs : \A line \in SUBSET Pairs :
                             ended \cup Heirs(line) \subseteq line => p \in line}
InHand == {held[d] : d \in Devices} \cup {req[r].got : r \in Requests}
SignedOutStaysOut ==
    \A p \in ended \cup (InHand \cap GivenUp) : ~Live("refresh", p)

\* A refused renewal means a dead session: a tab never signs the browser out
\* while the pair in its jar could still be renewed.
RefusedAt(s) ==
    /\ req[s].op = "refresh" /\ req[s].answer = "refused" /\ req[s]'.pc = "idle"
    /\ marker[s[1]] /\ ~marker[s[1]]'
RefusalMeansOver ==
    [][\A s \in AllTabs \cup AllCalls :
         RefusedAt(s) => ~Live("refresh", held[s[1]])]_browserVars

\* signOut "revokes both tokens and clears both cookies": once the user has
\* signed out and no answer was lost, the pair in the jar renews nothing.
SignedOutAt(b) ==
    /\ Arrived(b) /\ req[b].op = "logout" /\ req[b].answer # "lost"
    /\ req[b]'.pc = "idle"
SignOutRevokes ==
    [][\A b \in Browsers : SignedOutAt(b) => ~Live("refresh", held[b])]_browserVars
=============================================================================
