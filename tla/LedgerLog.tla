------------------------------ MODULE LedgerLog -----------------------------
(***************************************************************************)
(* What the ledger promises its readers, with no transactions, locks,      *)
(* hashes or counters: a log that only grows, in which every voucher takes *)
(* the number after its predecessor in the same journal and fiscal year.   *)
(***************************************************************************)
EXTENDS Naturals, Sequences

VARIABLE log

SameBook(e, f) == e.journal = f.journal /\ e.fiscal_year = f.fiscal_year

\* Entry i follows the nearest earlier entry of its book, or opens the book.
NumberFollows(l, i) ==
    LET earlier == {k \in 1 .. i - 1 : SameBook(l[k], l[i])}
    IN  \/ earlier = {} /\ l[i].voucher_number = 1
        \/ \E k \in earlier : /\ \A m \in earlier : m <= k
                              /\ l[i].voucher_number = l[k].voucher_number + 1

WellNumbered(l) == \A i \in 1 .. Len(l) : NumberFollows(l, i)

Init == log = << >>

\* One transaction appends one or more vouchers.
Append1OrMore ==
    /\ Len(log') > Len(log)
    /\ \A i \in 1 .. Len(log) : log'[i] = log[i]
    /\ WellNumbered(log')

Spec == Init /\ [][Append1OrMore]_log

=============================================================================
