------------------------------ MODULE Calendar ------------------------------
(***************************************************************************)
(* Months, dates and dated registers.  A month is counted from year 0, a   *)
(* date is <<year, month, day>>; a register is a set of rows that each     *)
(* apply from a day on until a later one takes over.                       *)
(***************************************************************************)
EXTENDS Integers, FiniteSets, FiniteSetsExt

Month(y, m) == y * 12 + m - 1
YearOf(month) == month \div 12
MonthOf(month) == (month % 12) + 1

\* The months from a through b, both included; none when they run backwards.
MonthCount(a, b) == b - a + 1
MonthPlus(a, step) == a + step

LeapYear(y) == y % 4 = 0 /\ (y % 100 # 0 \/ y % 400 = 0)

DaysIn(y, m) ==
    CASE m \in {4, 6, 9, 11} -> 30
      [] m = 2               -> IF LeapYear(y) THEN 29 ELSE 28
      [] OTHER               -> 31

MonthEnd(month) == << YearOf(month), MonthOf(month), DaysIn(YearOf(month), MonthOf(month)) >>

Before(a, b) == \/ a[1] < b[1]
                \/ a[1] = b[1] /\ a[2] < b[2]
                \/ a[1] = b[1] /\ a[2] = b[2] /\ a[3] < b[3]

\* A whole number of months later, on the last day of a shorter month.
AddMonths(d, n) ==
    LET month == Month(d[1], d[2]) + n
        y == YearOf(month)
        m == MonthOf(month)
    IN << y, m, IF d[3] > DaysIn(y, m) THEN DaysIn(y, m) ELSE d[3] >>

NextIntervalDate(d, interval) ==
    AddMonths(d, CASE interval = "manedlig"    -> 1
                   [] interval = "kvartalsvis" -> 3
                   [] interval = "arlig"       -> 12)

-----------------------------------------------------------------------------
\* The row in force on a day, of a register with at most one row a day.
InForce(rows, day) == {r \in rows : r.from <= day /\ \A q \in rows : q.from <= day => q.from <= r.from}

\* None before the register begins: a rate is never guessed.
HasRate(rows, day) == InForce(rows, day) # {}
RateOn(rows, day) == (CHOOSE r \in InForce(rows, day) : TRUE).value

\* Registers whose newest row is older than they are known to change.
StaleDomains(rows, cadence, today) ==
    {d \in DOMAIN cadence :
        \A r \in {q \in rows : q.domain = d} : today - r.from > cadence[d]}

-----------------------------------------------------------------------------
(***************************************************************************)
(* VAT periods of two months, or of a year.                                *)
(***************************************************************************)
Scheme == {"to-maneder", "arlig", "primaernaering"}

PeriodCount(scheme) == IF scheme = "to-maneder" THEN 6 ELSE 1

PeriodOf(scheme, d) ==
    [year |-> d[1], number |-> IF scheme = "to-maneder" THEN (d[2] + 1) \div 2 ELSE 1]

PeriodStart(scheme, t) ==
    << t.year, IF scheme = "to-maneder" THEN t.number * 2 - 1 ELSE 1, 1 >>

PeriodEnd(scheme, t) ==
    IF scheme = "to-maneder" THEN MonthEnd(Month(t.year, t.number * 2)) ELSE << t.year, 12, 31 >>

\* One month and ten days after the period; the third one ends in the holidays.
Deadline(scheme, t) ==
    CASE scheme = "arlig"          -> << t.year + 1, 3, 10 >>
      [] scheme = "primaernaering" -> << t.year + 1, 4, 10 >>
      [] OTHER -> IF t.number = 3 THEN << t.year, 8, 31 >>
                  ELSE LET month == Month(t.year, t.number * 2) + 2
                       IN << YearOf(month), MonthOf(month), 10 >>

=============================================================================
