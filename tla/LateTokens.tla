------------------------------ MODULE LateTokens ------------------------------
(***************************************************************************)
(* SessionTokens served to any callers at all: several tabs, a page that   *)
(* was reloaded over its renewal, a token somebody copied.  They send what *)
(* the routes read, whenever they like, and present any pair that was      *)
(* minted.  Two history variables say which tokens had been given up when  *)
(* a request was sent: spent on a renewal, or signed out.                  *)
(***************************************************************************)
EXTENDS SessionTokens

CONSTANT Askable    \* a bound: <<r, op, access, refresh>> for what may be sent in slot r

ASSUME AskableAssumption ==
    Askable \subseteq Requests \X Operations \X Maybe \X Maybe

VARIABLES
    signedOut,  \* the tokens of the sign-outs that were committed
    late        \* late[r]: how the token of r had been given up when r was sent

lateVars == <<authVars, signedOut, late>>

Tokens == {"access", "refresh"} \X Pairs

LateTypeOK ==
    /\ SessionTypeOK
    /\ signedOut \in SUBSET Tokens
    /\ late \in [Requests -> SUBSET {"spent", "signout"}]

LateInit ==
    /\ AuthInit
    /\ signedOut = {}
    /\ late = [r \in Requests |-> {}]

\* A renewal was committed that minted a pair for the refresh token of p.
Renewed(p) == \E q \in Pairs : pair[q].parent = p

\* How a token had been given up.
GivenUpBy(type, p) ==
    {how \in {"spent", "signout"} :
        \/ how = "spent" /\ type = "refresh" /\ p \in Pairs /\ Renewed(p)
        \/ how = "signout" /\ <<type, p>> \in signedOut}

-----------------------------------------------------------------------------
\* A caller sends anything that may be asked, with pairs that were minted.
\* A sign-in presents no token.
Ask(r) ==
    \E ask \in {a \in Askable : a[1] = r}, given, new \in Passwords :
        /\ {ask[3], ask[4]} \cap Unminted = {}
        /\ Send(r, ask[2], ask[3], ask[4], given, new)
        /\ late' = [late EXCEPT ![r] =
                      IF ask[2] = "login" THEN {}
                      ELSE IF ask[2] = "refresh" THEN GivenUpBy("refresh", ask[4])
                      ELSE GivenUpBy("access", ask[3])]
        /\ UNCHANGED signedOut

\* The answer is read, and the slot is free.
Read(r) ==
    /\ req[r].pc = "answered"
    /\ req' = [req EXCEPT ![r] = NoRequest]
    /\ late' = [late EXCEPT ![r] = {}]
    /\ UNCHANGED <<account, pair, revoked, signedOut>>

\* What a sign-out gives up: the token that authenticated it, and the
\* session's refresh token if it came along.
SignedOutBy(r) == {<<"access", req[r].access>>, <<"refresh", req[r].refresh>>} \cap Tokens

Attend(r) ==
    /\ Serve(r) \/ Lose(r)
    /\ signedOut' = IF At(r, "logout") /\ req'[r].answer = "ok"
                    THEN signedOut \cup SignedOutBy(r) ELSE signedOut
    /\ UNCHANGED late

LateNext ==
    \/ \E r \in Requests : Ask(r) \/ Read(r) \/ Attend(r)
    \/ Time /\ UNCHANGED <<signedOut, late>>

LateSpec == LateInit /\ [][LateNext]_lateVars

-----------------------------------------------------------------------------
(* Properties.                                                             *)

\* The API took the token of r: it did what was asked, or found only the
\* password given to be wrong.
Accepted(r) == req[r].answer \in {"ok", "wrong"}

\* The token lets nobody in any more, denylist or not: it has expired by
\* itself, or its account has gone.
Worthless(type, p) == ~account.exists \/ ~Decodes(type, p)

\* "The token presented is revoked": a refresh token that had bought a pair
\* before a renewal was sent buys no other, whatever goes on beside it, be
\* it renewals, sign-outs, erasures or the purge of the denylist.  A purge
\* can let such a renewal pass only once the token has expired.
SpentBuysNothing ==
    \A r \in Requests :
        "spent" \in late[r] /\ Accepted(r) => Worthless(TypeOf(r), Presented(r))

\* "The thing that makes a signed-out session actually signed out": neither
\* token of a sign-out that was committed is accepted in a request sent
\* later, whatever goes on beside it, unless it has expired by itself.
SignedOutBuysNothing ==
    \A r \in Requests :
        "signout" \in late[r] /\ Accepted(r) => Worthless(TypeOf(r), Presented(r))
=============================================================================
