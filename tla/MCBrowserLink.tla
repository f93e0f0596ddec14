---------------------------- MODULE MCBrowserLink ----------------------------
(***************************************************************************)
(* Two request threads (a poll and any other handler overlap), one link    *)
(* and one account.  An admin saves a secret by hand with the account      *)
(* (modes username_password and browser_session), or switches the profile  *)
(* off (mode none).                                                        *)
(***************************************************************************)
EXTENDS BrowserLink

CONSTANT a1

ManualOrNone ==
    {[value |-> Manual, account |-> a1], [value |-> NoSecret, account |-> NoAccount]}
=============================================================================
