----------------------------- MODULE MCPayments -----------------------------
(***************************************************************************)
(* One supplier with a post of 2 and a payment on account of 1; two runs,  *)
(* two people, two requests at a time.                                     *)
(***************************************************************************)
EXTENDS Payments, TLC

Entries == << [konto |-> "k", amount |-> -2], [konto |-> "k", amount |-> 1] >>
Symmetry == Permutations(Session) \cup Permutations(Run) \cup Permutations(Person)

=============================================================================
