------------------------------ MODULE MCLedger ------------------------------
(***************************************************************************)
(* Interchangeable sessions, and days that are each a fiscal year of their *)
(* own, so that every date is also a year end.                             *)
(***************************************************************************)
EXTENDS Ledger, TLC

Sessions == Permutations(Session)
Dates == {1, 2}
Years == {1, 2}

=============================================================================
