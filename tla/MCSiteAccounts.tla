--------------------------- MODULE MCSiteAccounts ---------------------------
(***************************************************************************)
(* Two admins who save different accounts of one site at the same time:    *)
(* an API token in a header, a bearer token and a cookie.                  *)
(***************************************************************************)
EXTENDS SiteAccounts
=============================================================================
