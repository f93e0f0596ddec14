--------------------------- MODULE MCAiAccounting ---------------------------
(***************************************************************************)
(* Two request threads, few events and runs.  Of the totals the provider   *)
(* reports one does not divide evenly and one does not fit the column.     *)
(***************************************************************************)
EXTENDS AiAccounting, TLC

Symmetry == Permutations(Requests) \cup Permutations(Runs)
=============================================================================
