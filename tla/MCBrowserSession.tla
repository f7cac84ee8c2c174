--------------------------- MODULE MCBrowserSession ---------------------------
(* BrowserSession for TLC: a browser with one tab that loads two things at *)
(* once, and a script on the same account.                                 *)
EXTENDS BrowserSession

Slots == RequestSlots
Asks ==
    (Browsers \X {"login", "logout", "erase"}) \cup
    (Scripts \X {"login", "refresh", "change"})
=============================================================================
