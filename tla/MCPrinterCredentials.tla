------------------------ MODULE MCPrinterCredentials ------------------------
(***************************************************************************)
(* Overlapping requests on the printers of the cfg: two adapter types (the *)
(* Bambu one and any other), a few device ids and inserted secrets.        *)
(* Printers share nothing but the sequences, so few of them are enough.    *)
(***************************************************************************)
EXTENDS PrinterCredentials, TLC

Symmetry == Permutations(Printers) \cup Permutations(Requests)
=============================================================================
