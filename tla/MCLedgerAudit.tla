---------------------------- MODULE MCLedgerAudit ---------------------------
(***************************************************************************)
(* Posting only: the checks of the chain do not look at period locks or    *)
(* closings, so no lock is requested and no date is the last of its year.  *)
(***************************************************************************)
EXTENDS LedgerAudit, TLC

Sessions == Permutations(Session)
Dates == {1, 2}
Years == {1}

=============================================================================
