----------------------------- MODULE MCLateTokens -----------------------------
(* LateTokens for TLC: two callers renew the first two pairs as often as   *)
(* they like, one of them signs in and uses them, the other signs out with *)
(* one pair or with the tokens of two, or erases the account.              *)
EXTENDS LateTokens

CONSTANTS r1, r2

Asks ==
    {<<r, "refresh", NoPair, p>> : r \in {r1, r2}, p \in {1, 2}} \cup
    {<<r1, "use", p, NoPair>> : p \in {1, 2}} \cup
    {<<r1, "login", NoPair, NoPair>>, <<r2, "erase", 1, NoPair>>,
     <<r2, "logout", 1, 1>>, <<r2, "logout", 2, 2>>, <<r2, "logout", 1, 2>>}
=============================================================================
