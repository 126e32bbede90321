--------------------------- MODULE RegisterProofs ---------------------------
(***************************************************************************)
(* Proofs about the registers that are kept beside the ledger: modules     *)
(* Payroll, for any number of people, employees, months and runs, any      *)
(* terms, rates, hours and payouts; Assets, for any number of assets,      *)
(* accrual plans and runners that overlap, any terms, and any day of a     *)
(* stop or a sale; and Shares, for any number of shareholders and people   *)
(* that record at once, any types, days, quantities and dividends.         *)
(***************************************************************************)
EXTENDS Payroll, Assets, Shares, FiniteSums, TLAPS

-----------------------------------------------------------------------------
(***************************************************************************)
(* Payroll.  What an employee has coming, and what has been set aside, are *)
(* sums over the months.  They are taken over all of them: a month without *)
(* a line of the employee counts for nothing, and a run is one summand.    *)
(***************************************************************************)

PayLine == [gross : Int, holiday : Int, withheld : Int, accrual : Int, aga : Int, agaHoliday : Int]

\* The lines of a run, and the months, each run or not.
PaidLines(x) == x \in [DOMAIN x -> PayLine] /\ DOMAIN x \subseteq Employee
PaidMonths(pay) == DOMAIN pay = PayMonth /\ \A m \in PayMonth : PaidLines(pay[m])

\* What the lines x give for an employee, by field.
ColumnOf(x, field) == [e \in Employee |-> IF e \in DOMAIN x THEN x[e][field] ELSE 0]

Comes(pay, e) == [m \in PayMonth |-> IF e \in DOMAIN pay[m] THEN pay[m][e].accrual - pay[m][e].holiday ELSE 0]
Aside(pay, e) == [m \in PayMonth |-> IF e \in DOMAIN pay[m] THEN pay[m][e].agaHoliday ELSE 0]

OwedIn(pay, e) == SumOver(Comes(pay, e), PayMonth)
AsideIn(pay, e) == SumOver(Aside(pay, e), PayMonth)

AllOwed(pay) == SumOver([e \in Employee |-> OwedIn(pay, e)], Employee)
AllAside(pay) == SumOver([e \in Employee |-> AsideIn(pay, e)], Employee)

MonthsWith(pay, e) == {m \in PayMonth : pay[m] # NotRun /\ e \in DOMAIN pay[m]}

LEMMA SummandsTyped ==
  ASSUME NEW pay, PaidMonths(pay), NEW e \in Employee
  PROVE  /\ Numbers(Comes(pay, e), PayMonth) /\ Numbers(Aside(pay, e), PayMonth)
         /\ MonthsWith(pay, e) \subseteq PayMonth
         /\ \A m \in PayMonth \ MonthsWith(pay, e) : Comes(pay, e)[m] = 0 /\ Aside(pay, e)[m] = 0
         /\ \A m \in MonthsWith(pay, e) : /\ Comes(pay, e)[m] = pay[m][e].accrual - pay[m][e].holiday
                                          /\ Aside(pay, e)[m] = pay[m][e].agaHoliday
<1>1. ASSUME NEW m \in PayMonth, e \in DOMAIN pay[m]
      PROVE  /\ pay[m][e].accrual - pay[m][e].holiday \in Int
             /\ pay[m][e].agaHoliday \in Int
  BY <1>1 DEF PaidMonths, PaidLines, PayLine
<1>2. Numbers(Comes(pay, e), PayMonth) /\ Numbers(Aside(pay, e), PayMonth)
  BY <1>1 DEF Numbers, Comes, Aside
<1>3. \A m \in PayMonth : pay[m] = NotRun => e \notin DOMAIN pay[m]
  BY DEF NotRun
<1> QED
  BY <1>2, <1>3 DEF MonthsWith, Comes, Aside

\* The sums of module Payroll are sums of module FiniteSums.
LEMMA OwedSummed ==
  ASSUME NEW pay, PaidMonths(pay), NEW e \in Employee
  PROVE  MapThenSumSet(LAMBDA m : pay[m][e].accrual - pay[m][e].holiday,
                       {m \in PayMonth : pay[m] # NotRun /\ e \in DOMAIN pay[m]}) = OwedIn(pay, e)
<1> DEFINE S == MonthsWith(pay, e)
           term(m) == pay[m][e].accrual - pay[m][e].holiday
           sum(f) == f = [s \in SUBSET S |-> IF s = {} THEN 0 ELSE term(Pick(s)) + f[s \ {Pick(s)}]]
<1>1. ASSUME NEW s \in SUBSET S, s # {} PROVE Comes(pay, e)[Pick(s)] = term(Pick(s))
  BY <1>1, PickIn, SummandsTyped
<1>2. ASSUME NEW f PROVE sum(f) <=> Sums(f, Comes(pay, e), S)
  BY <1>1 DEF Sums
<1>3. MapThenSumSet(LAMBDA m : pay[m][e].accrual - pay[m][e].holiday, S) = (CHOOSE f : sum(f))[S]
  BY DEF MapThenSumSet, MapThenFoldSet, Pick
<1>4. IsFiniteSet(PayMonth) /\ IsFiniteSet(S) /\ S \in SUBSET PayMonth
  BY PayrollAssumption, SummandsTyped, FS_Subset
<1>5. sum(CHOOSE f : sum(f))
  BY <1>2, <1>4, SumsExist
<1>6. (CHOOSE f : sum(f))[S] = SumOver(Comes(pay, e), S)
  BY <1>2, <1>4, <1>5, SumsGiveTotal
<1>7. SumOver(Comes(pay, e), PayMonth) = SumOver(Comes(pay, e), S)
  <2>1. /\ Numbers(Comes(pay, e), S)
        /\ \A m \in PayMonth \ S : Comes(pay, e)[m] = 0
    BY SummandsTyped DEF Numbers
  <2> HIDE DEF S
  <2> QED
    BY <1>4, <2>1, TotalOfPart
<1> QED
  BY <1>3, <1>6, <1>7 DEF OwedIn, MonthsWith

LEMMA AsideSummed ==
  ASSUME NEW pay, PaidMonths(pay), NEW e \in Employee
  PROVE  MapThenSumSet(LAMBDA m : pay[m][e].agaHoliday,
                       {m \in PayMonth : pay[m] # NotRun /\ e \in DOMAIN pay[m]}) = AsideIn(pay, e)
<1> DEFINE S == MonthsWith(pay, e)
           term(m) == pay[m][e].agaHoliday
           sum(f) == f = [s \in SUBSET S |-> IF s = {} THEN 0 ELSE term(Pick(s)) + f[s \ {Pick(s)}]]
<1>1. ASSUME NEW s \in SUBSET S, s # {} PROVE Aside(pay, e)[Pick(s)] = term(Pick(s))
  BY <1>1, PickIn, SummandsTyped
<1>2. ASSUME NEW f PROVE sum(f) <=> Sums(f, Aside(pay, e), S)
  BY <1>1 DEF Sums
<1>3. MapThenSumSet(LAMBDA m : pay[m][e].agaHoliday, S) = (CHOOSE f : sum(f))[S]
  BY DEF MapThenSumSet, MapThenFoldSet, Pick
<1>4. IsFiniteSet(PayMonth) /\ IsFiniteSet(S) /\ S \in SUBSET PayMonth
  BY PayrollAssumption, SummandsTyped, FS_Subset
<1>5. sum(CHOOSE f : sum(f))
  BY <1>2, <1>4, SumsExist
<1>6. (CHOOSE f : sum(f))[S] = SumOver(Aside(pay, e), S)
  BY <1>2, <1>4, <1>5, SumsGiveTotal
<1>7. SumOver(Aside(pay, e), PayMonth) = SumOver(Aside(pay, e), S)
  <2>1. /\ Numbers(Aside(pay, e), S)
        /\ \A m \in PayMonth \ S : Aside(pay, e)[m] = 0
    BY SummandsTyped DEF Numbers
  <2> HIDE DEF S
  <2> QED
    BY <1>4, <2>1, TotalOfPart
<1> QED
  BY <1>3, <1>6, <1>7 DEF AsideIn, MonthsWith

\* A column of a voucher, summed over everybody.
LEMMA ColumnSummed ==
  ASSUME NEW x, PaidLines(x), NEW field \in {"gross", "holiday", "withheld", "accrual", "aga", "agaHoliday"}
  PROVE  /\ Numbers(ColumnOf(x, field), Employee)
         /\ SumOf(x, field) = SumOver(ColumnOf(x, field), Employee)
         /\ SumOf(x, field) \in Int
<1> DEFINE S == DOMAIN x
           c == ColumnOf(x, field)
           sum(f) == f = [s \in SUBSET S |-> IF s = {} THEN 0 ELSE x[Pick(s)][field] + f[s \ {Pick(s)}]]
<1>1. ASSUME NEW s \in SUBSET S, s # {} PROVE c[Pick(s)] = x[Pick(s)][field]
  BY <1>1, PickIn DEF PaidLines, ColumnOf
<1>2. ASSUME NEW f PROVE sum(f) <=> Sums(f, c, S)
  BY <1>1 DEF Sums
<1>3. SumOf(x, field) = (CHOOSE f : sum(f))[S]
  BY DEF SumOf, MapThenSumSet, MapThenFoldSet, Pick
<1>4. IsFiniteSet(Employee) /\ IsFiniteSet(S) /\ S \in SUBSET Employee
  BY PayrollAssumption, FS_Subset DEF PaidLines
<1>5. sum(CHOOSE f : sum(f))
  BY <1>2, <1>4, SumsExist
<1>6. (CHOOSE f : sum(f))[S] = SumOver(c, S)
  BY <1>2, <1>4, <1>5, SumsGiveTotal
<1>7. \A e \in DOMAIN x : x[e][field] \in Int
  BY DEF PaidLines, PayLine
<1>8. Numbers(c, Employee) /\ Numbers(c, S) /\ \A e \in Employee \ S : c[e] = 0
  BY <1>7 DEF Numbers, ColumnOf, PaidLines
<1>9. SumOver(c, Employee) = SumOver(c, S) /\ SumOver(c, Employee) \in Int
  <2> HIDE DEF S, c
  <2> QED
    BY <1>4, <1>8, TotalOfPart, TotalIsNumber
<1> QED
  BY <1>3, <1>6, <1>8, <1>9

\* The sums over everybody, in what a run sees and in what is committed.
LEMMA AllOwedSummed ==
  ASSUME NEW pay, PaidMonths(pay)
  PROVE  MapThenSumSet(LAMBDA e : MapThenSumSet(LAMBDA m : pay[m][e].accrual - pay[m][e].holiday,
                                     {m \in PayMonth : pay[m] # NotRun /\ e \in DOMAIN pay[m]}),
                       Employee) = AllOwed(pay)
<1> DEFINE g == [e \in Employee |-> OwedIn(pay, e)]
           term(e) == MapThenSumSet(LAMBDA m : pay[m][e].accrual - pay[m][e].holiday,
                                    {m \in PayMonth : pay[m] # NotRun /\ e \in DOMAIN pay[m]})
<1>1. ASSUME NEW s \in SUBSET Employee, s # {} PROVE g[Pick(s)] = term(Pick(s))
  BY <1>1, PickIn, OwedSummed
<1> HIDE DEF g, term
<1> DEFINE sum(f) == f = [s \in SUBSET Employee |-> IF s = {} THEN 0 ELSE term(Pick(s)) + f[s \ {Pick(s)}]]
<1>2. ASSUME NEW f PROVE sum(f) <=> Sums(f, g, Employee)
  BY <1>1 DEF Sums
<1>3. MapThenSumSet(term, Employee) = (CHOOSE f : sum(f))[Employee]
  BY DEF MapThenSumSet, MapThenFoldSet, Pick
<1>4. IsFiniteSet(Employee)
  BY PayrollAssumption
<1>5. sum(CHOOSE f : sum(f))
  BY <1>2, <1>4, SumsExist
<1>6. MapThenSumSet(term, Employee) = SumOver(g, Employee)
  BY <1>2, <1>3, <1>4, <1>5, SumsGiveTotal
<1> QED
  BY <1>6 DEF AllOwed, g, term

LEMMA AllAsideSummed ==
  ASSUME NEW pay, PaidMonths(pay)
  PROVE  MapThenSumSet(LAMBDA e : MapThenSumSet(LAMBDA m : pay[m][e].agaHoliday,
                                     {m \in PayMonth : pay[m] # NotRun /\ e \in DOMAIN pay[m]}),
                       Employee) = AllAside(pay)
<1> DEFINE g == [e \in Employee |-> AsideIn(pay, e)]
           term(e) == MapThenSumSet(LAMBDA m : pay[m][e].agaHoliday,
                                    {m \in PayMonth : pay[m] # NotRun /\ e \in DOMAIN pay[m]})
<1>1. ASSUME NEW s \in SUBSET Employee, s # {} PROVE g[Pick(s)] = term(Pick(s))
  BY <1>1, PickIn, AsideSummed
<1> HIDE DEF g, term
<1> DEFINE sum(f) == f = [s \in SUBSET Employee |-> IF s = {} THEN 0 ELSE term(Pick(s)) + f[s \ {Pick(s)}]]
<1>2. ASSUME NEW f PROVE sum(f) <=> Sums(f, g, Employee)
  BY <1>1 DEF Sums
<1>3. MapThenSumSet(term, Employee) = (CHOOSE f : sum(f))[Employee]
  BY DEF MapThenSumSet, MapThenFoldSet, Pick
<1>4. IsFiniteSet(Employee)
  BY PayrollAssumption
<1>5. sum(CHOOSE f : sum(f))
  BY <1>2, <1>4, SumsExist
<1>6. MapThenSumSet(term, Employee) = SumOver(g, Employee)
  BY <1>2, <1>3, <1>4, <1>5, SumsGiveTotal
<1> QED
  BY <1>6 DEF AllAside, g, term

\* The operators of the module, in these terms.
LEMMA BooksSummed ==
  ASSUME PaidMonths(payroll)
  PROVE  /\ \A e \in Employee : HolidayOwed(e) = OwedIn(payroll, e) /\ Accrued(e) = AsideIn(payroll, e)
         /\ MapThenSumSet(Accrued, Employee) = AllAside(payroll)
         /\ Feriepengeavvik = -ledger["2940"] - AllOwed(payroll)
<1>1. ASSUME NEW e \in Employee PROVE HolidayOwed(e) = OwedIn(payroll, e)
  BY OwedSummed DEF HolidayOwed, LinesOf
<1>2. ASSUME NEW e \in Employee PROVE Accrued(e) = AsideIn(payroll, e)
  BY AsideSummed DEF Accrued, LinesOf
<1>3. MapThenSumSet(Accrued, Employee) = AllAside(payroll)
  BY AllAsideSummed DEF Accrued, LinesOf
<1>4. MapThenSumSet(HolidayOwed, Employee) = AllOwed(payroll)
  BY AllOwedSummed DEF HolidayOwed, LinesOf
<1> QED
  BY <1>1, <1>2, <1>3, <1>4 DEF Feriepengeavvik

-----------------------------------------------------------------------------
(***************************************************************************)
(* A run, from what it read to what it writes.                             *)
(***************************************************************************)

\* What a request has computed is the difference to the target, in the months it saw.
TruedUp(d) ==
    \A e \in DOMAIN d.lines :
        d.lines[e].agaHoliday =
            AccrualTarget(OwedIn(d.seen, e) + d.lines[e].accrual - d.lines[e].holiday, d.rate) - AsideIn(d.seen, e)

Drafted(d) ==
    d = NotDrafting \/ (/\ d.month \in PayMonth /\ d.rate \in Int /\ PaidLines(d.lines) /\ TruedUp(d))

PayTables ==
    /\ link \in [Employee -> Person \cup {Nobody}]
    /\ worked \in [Person -> [PayMonth -> Int]]
    /\ ledger \in [Account -> Int] /\ byHand \in Int
    /\ settled \in [Employee -> Int]
    /\ DOMAIN drafting = Person /\ \A p \in Person : Drafted(drafting[p])

\* The target of every employee whose last run overtook no other, and the two accounts.
OnTarget ==
    /\ \A e \in Employee : settled[e] # NeverSettled =>
          AsideIn(payroll, e) = AccrualTarget(OwedIn(payroll, e), settled[e])
    /\ ledger["2780"] = -AllAside(payroll)
    /\ ledger["2940"] = -AllOwed(payroll) - byHand

PayInv == PaidMonths(payroll) /\ PayTables /\ OnTarget

\* Sums of what is typed are numbers.
LEMMA OwedIsNumber ==
  ASSUME NEW pay, PaidMonths(pay)
  PROVE  /\ \A e \in Employee : OwedIn(pay, e) \in Int /\ AsideIn(pay, e) \in Int
         /\ AllOwed(pay) \in Int /\ AllAside(pay) \in Int
<1>1. IsFiniteSet(Employee) /\ IsFiniteSet(PayMonth)
  BY PayrollAssumption
<1>2. ASSUME NEW e \in Employee PROVE OwedIn(pay, e) \in Int /\ AsideIn(pay, e) \in Int
  BY <1>1, SummandsTyped, TotalIsNumber DEF OwedIn, AsideIn
<1> DEFINE f == [e \in Employee |-> OwedIn(pay, e)]
           g == [e \in Employee |-> AsideIn(pay, e)]
<1>3. Numbers(f, Employee) /\ Numbers(g, Employee)
  BY <1>2 DEF Numbers
<1> HIDE DEF f, g
<1>4. SumOver(f, Employee) \in Int /\ SumOver(g, Employee) \in Int
  BY <1>1, <1>3, TotalIsNumber
<1> QED
  BY <1>2, <1>4 DEF AllOwed, AllAside, f, g

WithMonth(pay, m, x) == [pay EXCEPT ![m] = x]

\* A month that is run adds its lines to the sums of everybody.
LEMMA MonthAdds ==
  ASSUME NEW pay, PaidMonths(pay), NEW m \in PayMonth, pay[m] = NotRun,
         NEW x, PaidLines(x), NEW new, new = WithMonth(pay, m, x), NEW e \in Employee
  PROVE  /\ PaidMonths(new)
         /\ OwedIn(new, e) = OwedIn(pay, e) + ColumnOf(x, "accrual")[e] - ColumnOf(x, "holiday")[e]
         /\ AsideIn(new, e) = AsideIn(pay, e) + ColumnOf(x, "agaHoliday")[e]
<1>1. PaidMonths(new) /\ new[m] = x
  BY DEF PaidMonths, WithMonth
<1>2. e \notin DOMAIN pay[m]
  BY DEF NotRun
<1>3. /\ ColumnOf(x, "accrual")[e] \in Int /\ ColumnOf(x, "holiday")[e] \in Int
      /\ ColumnOf(x, "agaHoliday")[e] \in Int
  BY ColumnSummed DEF Numbers
<1>4. /\ Comes(pay, e)[m] = 0 /\ Aside(pay, e)[m] = 0
      /\ Comes(new, e)[m] = ColumnOf(x, "accrual")[e] - ColumnOf(x, "holiday")[e]
      /\ Aside(new, e)[m] = ColumnOf(x, "agaHoliday")[e]
  BY <1>1, <1>2 DEF Comes, Aside, ColumnOf
<1>5. \A n \in PayMonth \ {m} : Comes(new, e)[n] = Comes(pay, e)[n] /\ Aside(new, e)[n] = Aside(pay, e)[n]
  BY DEF Comes, Aside, PaidMonths, WithMonth
<1>6. Numbers(Comes(pay, e), PayMonth) /\ Numbers(Aside(pay, e), PayMonth) /\ IsFiniteSet(PayMonth)
  BY SummandsTyped, PayrollAssumption
<1>7. Comes(new, e)[m] \in Int /\ Aside(new, e)[m] \in Int
  BY <1>3, <1>4
<1>8. /\ SumOver(Comes(new, e), PayMonth) = SumOver(Comes(pay, e), PayMonth) - Comes(pay, e)[m] + Comes(new, e)[m]
      /\ SumOver(Aside(new, e), PayMonth) = SumOver(Aside(pay, e), PayMonth) - Aside(pay, e)[m] + Aside(new, e)[m]
  <2> DEFINE g == Comes(pay, e)   h == Comes(new, e)
             a == Aside(pay, e)   b == Aside(new, e)
  <2>1. /\ Numbers(g, PayMonth) /\ h[m] \in Int /\ \A n \in PayMonth \ {m} : h[n] = g[n]
        /\ Numbers(a, PayMonth) /\ b[m] \in Int /\ \A n \in PayMonth \ {m} : b[n] = a[n]
    BY <1>5, <1>6, <1>7
  <2> HIDE DEF g, h, a, b
  <2>2. SumOver(h, PayMonth) = SumOver(g, PayMonth) - g[m] + h[m]
    BY <1>6, <2>1, TotalMoves
  <2>3. SumOver(b, PayMonth) = SumOver(a, PayMonth) - a[m] + b[m]
    BY <1>6, <2>1, TotalMoves
  <2> QED
    BY <2>2, <2>3 DEF g, h, a, b
<1>9. OwedIn(pay, e) \in Int /\ AsideIn(pay, e) \in Int
  BY OwedIsNumber
<1> QED
  BY <1>1, <1>3, <1>4, <1>8, <1>9 DEF OwedIn, AsideIn

LEMMA MonthAddsAll ==
  ASSUME NEW pay, PaidMonths(pay), NEW m \in PayMonth, pay[m] = NotRun,
         NEW x, PaidLines(x), NEW new, new = WithMonth(pay, m, x)
  PROVE  /\ AllOwed(new) = AllOwed(pay) + SumOf(x, "accrual") - SumOf(x, "holiday")
         /\ AllAside(new) = AllAside(pay) + SumOf(x, "agaHoliday")
<1> DEFINE o(t) == [e \in Employee |-> OwedIn(t, e)]
           a(t) == [e \in Employee |-> AsideIn(t, e)]
           acc == ColumnOf(x, "accrual")
           hol == ColumnOf(x, "holiday")
           aga == ColumnOf(x, "agaHoliday")
           both == [e \in Employee |-> OwedIn(pay, e) + acc[e]]
<1>1. IsFiniteSet(Employee) /\ PaidMonths(new)
  BY PayrollAssumption DEF PaidMonths, WithMonth
<1>2. \A e \in Employee : /\ OwedIn(new, e) \in Int /\ AsideIn(new, e) \in Int
                          /\ OwedIn(pay, e) \in Int /\ AsideIn(pay, e) \in Int
  BY <1>1, OwedIsNumber
<1>3. /\ Numbers(acc, Employee) /\ Numbers(hol, Employee) /\ Numbers(aga, Employee)
      /\ SumOf(x, "accrual") = SumOver(acc, Employee) /\ SumOf(x, "holiday") = SumOver(hol, Employee)
      /\ SumOf(x, "agaHoliday") = SumOver(aga, Employee)
  BY ColumnSummed
<1>4. \A e \in Employee : acc[e] \in Int /\ hol[e] \in Int /\ aga[e] \in Int
  BY <1>3 DEF Numbers
<1>5. ASSUME NEW e \in Employee
      PROVE  /\ OwedIn(new, e) = OwedIn(pay, e) + acc[e] - hol[e]
             /\ AsideIn(new, e) = AsideIn(pay, e) + aga[e]
  <2> HIDE DEF o, a, both
  <2> QED
    BY MonthAdds
<1> HIDE DEF acc, hol, aga
<1>6. /\ Numbers(o(new), Employee) /\ Numbers(o(pay), Employee) /\ Numbers(a(pay), Employee)
      /\ \A e \in Employee : both[e] = o(pay)[e] + acc[e]
      /\ \A e \in Employee : both[e] = o(new)[e] + hol[e]
      /\ \A e \in Employee : a(new)[e] = a(pay)[e] + aga[e]
  <2>1. ASSUME NEW e \in Employee
        PROVE  /\ o(new)[e] \in Int /\ o(pay)[e] \in Int /\ a(pay)[e] \in Int
               /\ both[e] = o(pay)[e] + acc[e] /\ both[e] = o(new)[e] + hol[e]
               /\ a(new)[e] = a(pay)[e] + aga[e]
    <3>1. /\ o(new)[e] = OwedIn(new, e) /\ o(pay)[e] = OwedIn(pay, e) /\ both[e] = OwedIn(pay, e) + acc[e]
          /\ a(new)[e] = AsideIn(new, e) /\ a(pay)[e] = AsideIn(pay, e)
      OBVIOUS
    <3> HIDE DEF o, a, both
    <3> QED
      BY <1>2, <1>4, <1>5, <3>1
  <2> HIDE DEF o, a, both
  <2> QED
    BY <2>1 DEF Numbers
<1>7. /\ AllOwed(new) = SumOver(o(new), Employee) /\ AllOwed(pay) = SumOver(o(pay), Employee)
      /\ AllAside(new) = SumOver(a(new), Employee) /\ AllAside(pay) = SumOver(a(pay), Employee)
  BY DEF AllOwed, AllAside
<1> HIDE DEF o, a, both
<1>8. SumOver(both, Employee) = SumOver(o(pay), Employee) + SumOver(acc, Employee)
  BY <1>1, <1>3, <1>6, TotalOfBoth
<1>9. SumOver(both, Employee) = SumOver(o(new), Employee) + SumOver(hol, Employee)
  BY <1>1, <1>3, <1>6, TotalOfBoth
<1>10. SumOver(a(new), Employee) = SumOver(a(pay), Employee) + SumOver(aga, Employee)
  BY <1>1, <1>3, <1>6, TotalOfBoth
<1>11. /\ SumOver(acc, Employee) \in Int /\ SumOver(hol, Employee) \in Int
       /\ SumOver(o(new), Employee) \in Int /\ SumOver(o(pay), Employee) \in Int
  BY <1>1, <1>3, <1>6, TotalIsNumber
<1> QED
  BY <1>3, <1>7, <1>8, <1>9, <1>10, <1>11

-----------------------------------------------------------------------------
\* Rounding gives a whole number.
LEMMA RoundedWhole ==
  ASSUME NEW n \in Int, NEW d \in Nat \ {0}
  PROVE  RoundDiv(n, d) \in Int
<1>1. Magnitude(n) \in Nat /\ d \div 2 \in Nat
  BY DEF Magnitude
<1>2. (Magnitude(n) + d \div 2) \div d \in Int
  BY <1>1
<1>3. Signum(n) \in {-1, 0, 1}
  BY DEF Signum
<1> DEFINE m == (Magnitude(n) + d \div 2) \div d
<1> HIDE DEF m
<1> QED
  BY <1>2, <1>3 DEF RoundDiv, m

LEMMA ShareTyped == ASSUME NEW n \in Int, NEW rate \in Int PROVE BpOf(n, rate) \in Int
<1>1. n * rate \in Int
  OBVIOUS
<1> QED
  BY <1>1, RoundedWhole DEF BpOf, BasisPoints

LEMMA TargetTyped == ASSUME NEW owed \in Int, NEW rate \in Int PROVE AccrualTarget(owed, rate) \in Int
<1>1. BpOf(0, rate) \in Int /\ BpOf(owed, rate) \in Int
  BY ShareTyped
<1> QED
  BY <1>1 DEF AccrualTarget

LEMMA GrossTyped ==
  ASSUME PayTables, NEW e \in Employee, NEW m \in PayMonth, NEW fromTimesheet \in BOOLEAN
  PROVE  Gross(e, m, fromTimesheet) \subseteq Int
<1>1. Terms[e].monthly \in Int /\ Terms[e].hourly \in Int
  BY TermsAssumption
<1>2. ASSUME link[e] # Nobody PROVE HourlyPay(worked[link[e]][m], Terms[e].hourly) \in Int
  <2>1. worked[link[e]][m] \in Int
    BY <1>2 DEF PayTables
  <2>2. worked[link[e]][m] * Terms[e].hourly \in Int
    BY <1>1, <2>1
  <2> QED
    BY <2>2, RoundedWhole DEF HourlyPay
<1> QED
  BY <1>1, <1>2 DEF Gross, HourBasis

LEMMA LineTyped ==
  ASSUME PaidMonths(payroll), NEW e \in Employee, NEW m \in PayMonth, NEW gross \in Int,
         NEW holiday \in Int, NEW rate \in Int, NEW line, line = PayrollLine(e, m, gross, holiday, rate)
  PROVE  /\ line \in PayLine
         /\ line.agaHoliday =
              AccrualTarget(OwedIn(payroll, e) + line.accrual - line.holiday, rate) - AsideIn(payroll, e)
<1>1. Terms[e].percent \in Int /\ Terms[e].holiday \in Int /\ Terms[e].percent \div 2 \in Int
  <2>1. {Terms[e].percent, Terms[e].holiday} \subseteq 0..BasisPoints
    BY TermsAssumption
  <2>2. Terms[e].percent \in 0..BasisPoints /\ Terms[e].holiday \in 0..BasisPoints
    BY <2>1
  <2>3. BasisPoints \in Nat
    BY DEF BasisPoints
  <2> QED
    BY <2>2, <2>3
<1>2. Withheld(e, gross, m) \in Int
  <2>1. \A share \in {0, Terms[e].percent, Terms[e].percent \div 2, 0 \div 2} : BpOf(gross, share) \in Int
    BY <1>1, ShareTyped
  <2> QED
    BY <2>1 DEF Withheld
<1>3. HolidayAccrual(e, gross) \in Int
  BY <1>1, ShareTyped DEF HolidayAccrual
<1>4. EmployerContribution(gross + holiday, rate) \in Int
  BY ShareTyped DEF EmployerContribution
<1>5. /\ HolidayOwed(e) = OwedIn(payroll, e) /\ Accrued(e) = AsideIn(payroll, e)
      /\ OwedIn(payroll, e) \in Int /\ AsideIn(payroll, e) \in Int
  BY BooksSummed, OwedIsNumber
<1>6. AccrualTarget(OwedIn(payroll, e) + HolidayAccrual(e, gross) - holiday, rate) \in Int
  <2>1. OwedIn(payroll, e) + HolidayAccrual(e, gross) - holiday \in Int
    BY <1>3, <1>5
  <2> QED
    BY <2>1, TargetTyped
<1>7. TrueUp(e, HolidayAccrual(e, gross), holiday, rate)
        = AccrualTarget(OwedIn(payroll, e) + HolidayAccrual(e, gross) - holiday, rate) - AsideIn(payroll, e)
  BY <1>5 DEF TrueUp
<1> HIDE DEF AccrualTarget
<1> QED
  BY <1>2, <1>3, <1>4, <1>5, <1>6, <1>7 DEF PayrollLine, PayLine

-----------------------------------------------------------------------------
LEMMA InitPay == InitPayroll => PayInv
<1> SUFFICES ASSUME InitPayroll PROVE PayInv
  OBVIOUS
<1>1. PaidMonths(payroll) /\ \A m \in PayMonth : DOMAIN payroll[m] = {}
  BY DEF InitPayroll, PaidMonths, PaidLines, NotRun
<1>2. PayTables
  BY DEF InitPayroll, PayTables, Drafted, NeverSettled
<1>3. IsFiniteSet(Employee) /\ IsFiniteSet(PayMonth)
  BY PayrollAssumption
<1>4. ASSUME NEW e \in Employee PROVE OwedIn(payroll, e) = 0 /\ AsideIn(payroll, e) = 0
  <2>1. \A m \in PayMonth : Comes(payroll, e)[m] = 0 /\ Aside(payroll, e)[m] = 0
    BY <1>1 DEF Comes, Aside
  <2> QED
    BY <1>3, <2>1, TotalOfNothing DEF OwedIn, AsideIn
<1>5. AllOwed(payroll) = 0 /\ AllAside(payroll) = 0
  <2> DEFINE f == [e \in Employee |-> OwedIn(payroll, e)]
             g == [e \in Employee |-> AsideIn(payroll, e)]
  <2>1. \A e \in Employee : f[e] = 0 /\ g[e] = 0
    BY <1>4
  <2> HIDE DEF f, g
  <2>2. SumOver(f, Employee) = 0 /\ SumOver(g, Employee) = 0
    BY <1>3, <2>1, TotalOfNothing
  <2> QED
    BY <2>2 DEF AllOwed, AllAside, f, g
<1>6. OnTarget
  <2>1. /\ \A e \in Employee : settled[e] = NeverSettled
        /\ ledger["2780"] = 0 /\ ledger["2940"] = 0 /\ byHand = 0
    BY DEF InitPayroll, Account
  <2>2. -AllAside(payroll) = 0 /\ -AllOwed(payroll) - byHand = 0
    <3>1. AllAside(payroll) \in Int /\ AllOwed(payroll) \in Int /\ byHand \in Int
      BY <1>1, <2>1, OwedIsNumber
    <3>2. /\ 0 <= AllAside(payroll) /\ AllAside(payroll) <= 0
          /\ 0 <= AllOwed(payroll) /\ AllOwed(payroll) <= 0 /\ 0 <= byHand /\ byHand <= 0
      BY <1>5, <2>1, <3>1
    <3> QED
      BY <3>1, <3>2
  <2>3. ledger["2780"] = -AllAside(payroll) /\ ledger["2940"] = -AllOwed(payroll) - byHand
    BY <2>1, <2>2, Zenon
  <2> QED
    BY <2>1, <2>3, Zenon DEF OnTarget
<1> QED
  BY <1>1, <1>2, <1>6 DEF PayInv

\* Registers and hours move no money.
LEMMA RegisterKeeps ==
  ASSUME PayInv, UNCHANGED << payroll, ledger, byHand, drafting, settled >>,
         link' \in [Employee -> Person \cup {Nobody}], worked' \in [Person -> [PayMonth -> Int]]
  PROVE  PayInv'
<1>1. PayTables'
  BY DEF PayInv, PayTables
<1>2. OnTarget' /\ PaidMonths(payroll')
  BY DEF PayInv, OnTarget
<1> QED
  BY <1>1, <1>2 DEF PayInv

LEMMA RunKeeps ==
  ASSUME PayInv, NEW p \in Person, NEW m \in PayMonth, NEW chosen \in SUBSET Employee, NEW holiday \in HolidayPaid,
         NEW fromTimesheet \in BOOLEAN, NEW zone \in Zone,
         RunPayroll(p, m, chosen, holiday, fromTimesheet, zone)
  PROVE  PayInv'
<1> DEFINE rate == AgaRate[zone][m]
<1>1. PICK gross \in [chosen -> UNION {Gross(e, m, fromTimesheet) : e \in chosen}] :
        /\ \A e \in chosen : gross[e] \in Gross(e, m, fromTimesheet)
        /\ drafting' = [drafting EXCEPT ![p] =
              [month |-> m, rate |-> rate, seen |-> payroll,
               lines |-> [e \in chosen |-> PayrollLine(e, m, gross[e], holiday, rate)]]]
  BY DEF RunPayroll, DraftRun
<1> DEFINE d == [month |-> m, rate |-> rate, seen |-> payroll,
                 lines |-> [e \in chosen |-> PayrollLine(e, m, gross[e], holiday, rate)]]
<1>2. rate \in Int /\ holiday \in Int
  BY PayrollAssumption
<1> HIDE DEF rate
<1>3. ASSUME NEW e \in chosen
      PROVE  /\ d.lines[e] \in PayLine
             /\ d.lines[e].agaHoliday =
                  AccrualTarget(OwedIn(d.seen, e) + d.lines[e].accrual - d.lines[e].holiday, d.rate) - AsideIn(d.seen, e)
  <2>1. gross[e] \in Int /\ e \in Employee /\ PaidMonths(payroll)
    BY <1>1, GrossTyped DEF PayInv
  <2>2. d.lines[e] = PayrollLine(e, m, gross[e], holiday, rate) /\ d.seen = payroll /\ d.rate = rate
    OBVIOUS
  <2> DEFINE line == d.lines[e]
  <2>3. line = PayrollLine(e, m, gross[e], holiday, rate)
    BY <2>2
  <2> HIDE DEF d, line
  <2>4. /\ line \in PayLine
        /\ line.agaHoliday =
              AccrualTarget(OwedIn(payroll, e) + line.accrual - line.holiday, rate) - AsideIn(payroll, e)
    BY <1>2, <2>1, <2>3, LineTyped
  <2> QED
    BY <2>2, <2>4 DEF line
<1>4. d.month = m /\ d.rate = rate /\ DOMAIN d.lines = chosen /\ d.lines = [e \in chosen |-> d.lines[e]]
  OBVIOUS
<1>5. drafting' = [drafting EXCEPT ![p] = d]
  BY <1>1
<1> HIDE DEF d
<1>6. PaidLines(d.lines)
  BY <1>3, <1>4 DEF PaidLines
<1>7. Drafted(d)
  BY <1>2, <1>3, <1>4, <1>6 DEF Drafted, TruedUp
<1>8. UNCHANGED << link, worked, payroll, ledger, byHand, settled >>
  BY DEF RunPayroll
<1>9. PayTables'
  BY <1>5, <1>7, <1>8 DEF PayInv, PayTables
<1>10. OnTarget' /\ PaidMonths(payroll')
  BY <1>8 DEF PayInv, OnTarget
<1> QED
  BY <1>9, <1>10 DEF PayInv

\* A voucher by hand moves the account and what it is known to differ by.
LEMMA HandKeeps ==
  ASSUME PayInv, NEW p \in Person, NEW amount \in HolidayPaid, PostByHand(p, amount)
  PROVE  PayInv'
<1>1. /\ ledger' = [ledger EXCEPT !["2940"] = @ - amount] /\ byHand' = byHand + amount
      /\ UNCHANGED << link, worked, payroll, drafting, settled >>
  BY DEF PostByHand
<1>2. amount \in Int /\ byHand \in Int /\ ledger \in [Account -> Int] /\ "2940" \in Account /\ "2780" \in Account
  BY PayrollAssumption DEF PayInv, PayTables, Account
<1>3. /\ ledger' \in [Account -> Int] /\ byHand' \in Int
      /\ ledger'["2940"] = ledger["2940"] - amount /\ ledger'["2780"] = ledger["2780"]
  BY <1>1, <1>2
<1>4. PayTables'
  BY <1>1, <1>3 DEF PayInv, PayTables
<1>5. AllOwed(payroll) \in Int
  BY OwedIsNumber DEF PayInv
<1>6. ledger'["2940"] = -AllOwed(payroll) - byHand'
  BY <1>1, <1>2, <1>3, <1>5 DEF PayInv, OnTarget
<1>7. OnTarget' /\ PaidMonths(payroll')
  BY <1>1, <1>3, <1>6 DEF PayInv, OnTarget
<1> QED
  BY <1>4, <1>7 DEF PayInv

\* A run that is committed adds its lines and posts what they come to.  What it
\* settles is on target where the months it saw are the months there are.
LEMMA CommitKeeps ==
  ASSUME PayInv, NEW p \in Person, CommitRun(p)
  PROVE  PayInv'
<1> DEFINE d == drafting[p]
           m == d.month
           x == d.lines
<1>1. /\ d # NotDrafting /\ Drafted(d)
      /\ drafting' = [drafting EXCEPT ![p] = NotDrafting]
      /\ UNCHANGED << link, worked, byHand >>
      /\ \/ UNCHANGED << payroll, ledger, settled >>
         \/ /\ payroll[m] = NotRun /\ payroll' = WithMonth(payroll, m, x)
            /\ ledger' = [k \in Account |-> ledger[k] + VoucherLines(x)[k]]
            /\ settled' = [e \in Employee |->
                             IF e \notin DOMAIN x THEN settled[e]
                             ELSE IF d.seen = payroll THEN d.rate ELSE NeverSettled]
  BY DEF CommitRun, PayInv, PayTables, WithMonth
<1>2. m \in PayMonth /\ d.rate \in Int /\ PaidLines(x) /\ TruedUp(d)
  BY <1>1 DEF Drafted
<1>3. \A q \in Person : Drafted(drafting'[q])
  BY <1>1 DEF Drafted, PayInv, PayTables
<1>4. DOMAIN drafting' = Person
  BY <1>1 DEF PayInv, PayTables
<1>5. CASE UNCHANGED << payroll, ledger, settled >>
  <2>1. PayTables'
    BY <1>1, <1>3, <1>4, <1>5 DEF PayInv, PayTables
  <2> QED
    BY <1>1, <1>5, <2>1 DEF PayInv, OnTarget
<1>6. CASE /\ payroll[m] = NotRun /\ payroll' = WithMonth(payroll, m, x)
           /\ ledger' = [k \in Account |-> ledger[k] + VoucherLines(x)[k]]
           /\ settled' = [e \in Employee |->
                            IF e \notin DOMAIN x THEN settled[e]
                            ELSE IF d.seen = payroll THEN d.rate ELSE NeverSettled]
  <2> DEFINE acc == SumOf(x, "accrual")
             hol == SumOf(x, "holiday")
             aga == SumOf(x, "agaHoliday")
  <2>1. PaidMonths(payroll) /\ OnTarget /\ ledger \in [Account -> Int] /\ byHand \in Int
    BY DEF PayInv, PayTables
  <2>2. PaidMonths(payroll') /\ AllOwed(payroll') = AllOwed(payroll) + acc - hol
        /\ AllAside(payroll') = AllAside(payroll) + aga
    <3>1. PaidMonths(payroll')
      BY <1>2, <1>6, <2>1 DEF PaidMonths, WithMonth
    <3> QED
      BY <1>2, <1>6, <2>1, <3>1, MonthAddsAll
  <2>3. acc \in Int /\ hol \in Int /\ aga \in Int
    BY <1>2, ColumnSummed
  <2>4. /\ ledger' \in [Account -> Int]
        /\ ledger'["2780"] = ledger["2780"] - aga
        /\ ledger'["2940"] = ledger["2940"] + hol - acc
    <3> DEFINE v == VoucherLines(x)
    <3>1. /\ SumOf(x, "gross") \in Int /\ SumOf(x, "withheld") \in Int /\ SumOf(x, "aga") \in Int
      BY <1>2, ColumnSummed
    <3>2. v \in [Account -> Int] /\ v["2780"] = -aga /\ v["2940"] = hol - acc
      BY <2>3, <3>1 DEF VoucherLines, Account
    <3>3. "2780" \in Account /\ "2940" \in Account
      BY DEF Account
    <3>4. ledger' = [k \in Account |-> ledger[k] + v[k]]
      BY <1>6
    <3> HIDE DEF v, acc, hol, aga
    <3> QED
      BY <2>1, <2>3, <3>2, <3>3, <3>4
  <2>5. AllOwed(payroll) \in Int /\ AllAside(payroll) \in Int
    BY <2>1, OwedIsNumber
  <2> HIDE DEF acc, hol, aga
  <2>6. /\ ledger'["2780"] = -AllAside(payroll')
        /\ ledger'["2940"] = -AllOwed(payroll') - byHand'
    <3>1. ledger["2780"] = -AllAside(payroll) /\ ledger["2940"] = -AllOwed(payroll) - byHand /\ byHand' = byHand
      BY <1>1, <2>1 DEF OnTarget
    <3> QED
      BY <2>1, <2>2, <2>3, <2>4, <2>5, <3>1
  <2>7. ASSUME NEW e \in Employee, settled'[e] # NeverSettled
        PROVE  AsideIn(payroll', e) = AccrualTarget(OwedIn(payroll', e), settled'[e])
    <3>1. /\ OwedIn(payroll', e) = OwedIn(payroll, e) + ColumnOf(x, "accrual")[e] - ColumnOf(x, "holiday")[e]
          /\ AsideIn(payroll', e) = AsideIn(payroll, e) + ColumnOf(x, "agaHoliday")[e]
      BY <1>2, <1>6, <2>1, MonthAdds
    <3>2. OwedIn(payroll, e) \in Int /\ AsideIn(payroll, e) \in Int
      BY <2>1, OwedIsNumber
    <3>3. CASE e \notin DOMAIN x
      <4>1. settled'[e] = settled[e]
        BY <1>6, <3>3
      <4>2. OwedIn(payroll', e) = OwedIn(payroll, e) /\ AsideIn(payroll', e) = AsideIn(payroll, e)
        BY <3>1, <3>2, <3>3 DEF ColumnOf
      <4> QED
        BY <2>1, <2>7, <4>1, <4>2 DEF OnTarget
    <3>4. CASE e \in DOMAIN x
      <4>1. settled'[e] = d.rate /\ d.seen = payroll
        BY <1>6, <2>7, <3>4
      <4>2. x[e] \in PayLine
        BY <1>2, <3>4 DEF PaidLines
      <4>3. /\ ColumnOf(x, "accrual")[e] = x[e].accrual /\ ColumnOf(x, "holiday")[e] = x[e].holiday
            /\ ColumnOf(x, "agaHoliday")[e] = x[e].agaHoliday
            /\ x[e].accrual \in Int /\ x[e].holiday \in Int /\ x[e].agaHoliday \in Int
        BY <3>4, <4>2 DEF ColumnOf, PayLine
      <4>4. x[e].agaHoliday =
              AccrualTarget(OwedIn(payroll, e) + x[e].accrual - x[e].holiday, d.rate) - AsideIn(payroll, e)
        BY <1>2, <3>4, <4>1 DEF TruedUp
      <4> DEFINE aim == AccrualTarget(OwedIn(payroll', e), d.rate)
      <4>5. x[e].agaHoliday = aim - AsideIn(payroll, e)
        <5>1. OwedIn(payroll', e) = OwedIn(payroll, e) + x[e].accrual - x[e].holiday
          BY <3>1, <4>3
        <5> QED
          BY <4>4, <5>1, Zenon
      <4>6. aim \in Int
        <5>1. OwedIn(payroll', e) \in Int
          BY <3>1, <3>2, <4>3
        <5> DEFINE o == OwedIn(payroll', e)   rate == d.rate
        <5>2. o \in Int /\ rate \in Int
          BY <1>2, <5>1
        <5> HIDE DEF o, rate
        <5>3. AccrualTarget(o, rate) \in Int
          BY <5>2, TargetTyped
        <5> QED
          BY <5>3 DEF o, rate
      <4> HIDE DEF aim
      <4>7. AsideIn(payroll', e) = aim
        BY <3>1, <3>2, <4>3, <4>5, <4>6
      <4> QED
        BY <4>1, <4>7 DEF aim
    <3> QED
      BY <3>3, <3>4
  <2>8. PayTables'
    <3>1. settled' \in [Employee -> Int]
      BY <1>2, <1>6 DEF PayInv, PayTables, NeverSettled
    <3> QED
      BY <1>1, <1>3, <1>4, <2>4, <3>1 DEF PayInv, PayTables
  <2> QED
    BY <2>2, <2>6, <2>7, <2>8 DEF PayInv, OnTarget
<1> QED
  BY <1>1, <1>5, <1>6

LEMMA NextPay == PayInv /\ [NextPayroll]_varsPayroll => PayInv'
<1> SUFFICES ASSUME PayInv, [NextPayroll]_varsPayroll PROVE PayInv'
  OBVIOUS
<1>1. link \in [Employee -> Person \cup {Nobody}] /\ worked \in [Person -> [PayMonth -> Int]]
  BY DEF PayInv, PayTables
<1>2. ASSUME NEW p \in Person, NEW e \in Employee, CreateEmployee(p, e) \/ UnlinkEmployee(p, e) PROVE PayInv'
  BY <1>1, <1>2, RegisterKeeps DEF CreateEmployee, UnlinkEmployee
<1>3. ASSUME NEW p \in Person, NEW q \in Person, NEW e \in Employee, LinkEmployee(p, e, q) PROVE PayInv'
  BY <1>1, <1>3, RegisterKeeps DEF LinkEmployee
<1>4. ASSUME NEW q \in Person, NEW m \in PayMonth, NEW minutes \in Minutes, WorkHours(q, m, minutes) PROVE PayInv'
  <2>1. minutes \in Int
    BY PayrollAssumption
  <2>2. worked' \in [Person -> [PayMonth -> Int]]
    BY <1>1, <1>4, <2>1 DEF WorkHours
  <2> QED
    BY <1>1, <1>4, <2>2, RegisterKeeps DEF WorkHours
<1>5. ASSUME NEW p \in Person, NEW m \in PayMonth \cup {0}, LockHours(p, m) PROVE PayInv'
  BY <1>1, <1>5, RegisterKeeps DEF LockHours
<1>6. ASSUME NEW p \in Person, NEW m \in PayMonth, NEW chosen \in SUBSET Employee, NEW holiday \in HolidayPaid,
             NEW fromTimesheet \in BOOLEAN, NEW zone \in Zone,
             RunPayroll(p, m, chosen, holiday, fromTimesheet, zone)
      PROVE  PayInv'
  BY <1>6, RunKeeps
<1>7. ASSUME NEW p \in Person, CommitRun(p) PROVE PayInv'
  BY <1>7, CommitKeeps
<1>8. ASSUME NEW p \in Person, NEW amount \in HolidayPaid \ {0}, PostByHand(p, amount) PROVE PayInv'
  BY <1>8, HandKeeps
<1>9. CASE UNCHANGED varsPayroll
  BY <1>1, <1>9, RegisterKeeps DEF varsPayroll
<1> QED
  BY <1>2, <1>3, <1>4, <1>5, <1>6, <1>7, <1>8, <1>9 DEF NextPayroll

LEMMA PayIsOnTarget == PayInv => AccrualOnTarget
<1> SUFFICES ASSUME PayInv PROVE AccrualOnTarget
  OBVIOUS
<1>1. /\ \A e \in Employee : HolidayOwed(e) = OwedIn(payroll, e) /\ Accrued(e) = AsideIn(payroll, e)
      /\ MapThenSumSet(Accrued, Employee) = AllAside(payroll)
      /\ Feriepengeavvik = -ledger["2940"] - AllOwed(payroll)
  BY BooksSummed DEF PayInv
<1>2. AllOwed(payroll) \in Int /\ byHand \in Int
  BY OwedIsNumber DEF PayInv, PayTables
<1>3. ledger["2940"] = -AllOwed(payroll) - byHand
  BY DEF PayInv, OnTarget
<1>4. Feriepengeavvik = byHand
  BY <1>1, <1>2, <1>3
<1>5. ledger["2780"] = -MapThenSumSet(Accrued, Employee)
  BY <1>1 DEF PayInv, OnTarget
<1> QED
  BY <1>1, <1>4, <1>5 DEF AccrualOnTarget, PayInv, OnTarget

(***************************************************************************)
(* What is set aside for an employee whose last run overtook no other is   *)
(* the rate of that run on what the employee has coming, whatever came     *)
(* before; and the two accounts hold what the lines say, with what was     *)
(* posted by hand as the difference the warning names.                     *)
(***************************************************************************)
THEOREM SetAsideOnTarget == SpecPayroll => []AccrualOnTarget
<1>1. InitPayroll => PayInv
  BY InitPay
<1>2. PayInv /\ [NextPayroll]_varsPayroll => PayInv'
  BY NextPay
<1>3. PayInv => AccrualOnTarget
  BY PayIsOnTarget
<1> QED
  BY <1>1, <1>2, <1>3, PTL DEF SpecPayroll

-----------------------------------------------------------------------------
(***************************************************************************)
(* Accrual plans.  A month is in the log once, and what is parked is the   *)
(* sum over the log.                                                       *)
(***************************************************************************)

\* What a plan and an asset post in each month.
Spreads(p) == [m \in MonthsOf(p) |-> AmountOf(p, m)]

\* A runner has read months that had ended, before the plan was stopped if it was.
HasEnded(p, m) == LastDay(m) <= today /\ (stopped[p] # NotStopped => LastDay(m) <= stopped[p])

Posting(d) == /\ d \in [plan : AccrualPlan, left : SUBSET Int]
              /\ d.left \subseteq MonthsOf(d.plan)
Runs(d) == d = NotAccruing \/ Posting(d)

AccrualTables ==
    /\ today \in Day
    /\ DOMAIN accrued = AccrualPlan /\ DOMAIN parked = AccrualPlan
    /\ stopped \in [AccrualPlan -> Int]
    /\ DOMAIN accruing = Runner /\ \A r \in Runner : Runs(accruing[r])
    /\ \A p \in AccrualPlan : accrued[p] \subseteq MonthsOf(p)

PostedOnce ==
    \A p \in AccrualPlan :
        /\ parked[p] = -SumOver(Spreads(p), accrued[p])
        /\ \A m \in accrued[p] : HasEnded(p, m)

RunnersRead == \A r \in Runner : accruing[r] # NotAccruing => \A m \in accruing[r].left : HasEnded(accruing[r].plan, m)

AccrualInv == AccrualTables /\ PostedOnce /\ RunnersRead

LEMMA WholeBase ==
  ASSUME NEW n \in Int, NEW d \in Nat \ {0}
  PROVE  TruncDiv(n, d) \in Int
<1>1. Magnitude(n) \in Nat
  BY DEF Magnitude
<1>2. Magnitude(n) \div d \in Int
  BY <1>1
<1>3. Signum(n) \in {-1, 0, 1}
  BY DEF Signum
<1> DEFINE m == Magnitude(n) \div d
<1> HIDE DEF m
<1> QED
  BY <1>2, <1>3 DEF TruncDiv, m

LEMMA MonthIsNumber ==
  ASSUME NEW total \in Int, NEW count \in Nat \ {0}, NEW no \in Int
  PROVE  MonthlyAmount(total, count, no) \in Int
<1>1. TruncDiv(total, count) \in Int
  BY WholeBase
<1> DEFINE b == TruncDiv(total, count)
<1>2. b * (count - 1) \in Int
  BY <1>1
<1> HIDE DEF b
<1> QED
  BY <1>1, <1>2 DEF MonthlyAmount, b

\* A plan has at least one month.
LEMMA PlanShape ==
  ASSUME NEW p \in AccrualPlan
  PROVE  /\ PlanTerms[p].total \in Int /\ PlanTerms[p].first \in Int /\ PlanTerms[p].last \in Int
         /\ PlanTerms[p].first <= PlanTerms[p].last
         /\ IsFiniteSet(MonthsOf(p)) /\ MonthsOf(p) \subseteq Int
<1>1. PlanTerms[p].total \in Int /\ PlanTerms[p].first \in Int /\ PlanTerms[p].last \in Int
  BY RegisterAssumption
<1>2. MonthCount(PlanTerms[p].first, PlanTerms[p].last) > 0
  BY AssetsAssumption
<1>3. PlanTerms[p].first <= PlanTerms[p].last
  BY <1>1, <1>2 DEF MonthCount
<1>4. IsFiniteSet(MonthsOf(p)) /\ MonthsOf(p) \subseteq Int
  BY <1>1, FS_Interval DEF MonthsOf
<1> QED
  BY <1>1, <1>3, <1>4

LEMMA SpreadIs ==
  ASSUME NEW p \in AccrualPlan, NEW m \in MonthsOf(p), NEW first, first = PlanTerms[p].first,
         NEW last, last = PlanTerms[p].last, NEW total, total = PlanTerms[p].total
  PROVE  /\ Spreads(p)[m] = MonthlyAmount(total, last - first + 1, m - first + 1)
         /\ AmountOf(p, m) = Spreads(p)[m] /\ Spreads(p)[m] \in Int
<1>1. first \in Int /\ last \in Int /\ total \in Int /\ first <= last /\ m \in first..last
  BY PlanShape DEF MonthsOf
<1>2. m - first + 1 \in 1..(last - first + 1) /\ last - first + 1 \in Nat \ {0}
  BY <1>1
<1>3. AmountOf(p, m) = MonthlyAmount(total, last - first + 1, m - first + 1)
  BY <1>2 DEF AmountOf, Plan, MonthCount
<1> DEFINE count == last - first + 1
           no == m - first + 1
<1>4. count \in Nat \ {0} /\ no \in Int /\ total \in Int
  BY <1>1, <1>2
<1> HIDE DEF count, no
<1>5. MonthlyAmount(total, count, no) \in Int
  BY <1>4, MonthIsNumber
<1> QED
  BY <1>3, <1>5 DEF Spreads, count, no

\* The months of a plan come to the whole of it.
LEMMA PlanComesTo ==
  ASSUME NEW p \in AccrualPlan
  PROVE  SumOver(Spreads(p), MonthsOf(p)) = PlanTerms[p].total
<1> DEFINE first == PlanTerms[p].first
           last == PlanTerms[p].last
           total == PlanTerms[p].total
           count == last - first + 1
           base == TruncDiv(total, count)
           S == first..(last - 1)
<1>1. first \in Int /\ last \in Int /\ total \in Int /\ first <= last /\ MonthsOf(p) = first..last
  BY PlanShape DEF MonthsOf
<1> HIDE DEF first, last, total
<1>2. count \in Nat \ {0} /\ base \in Int
  BY <1>1, WholeBase
<1>3. IsFiniteSet(S) /\ Cardinality(S) = count - 1 /\ S \cup {last} = first..last /\ last \notin S
  <2>1. last - 1 \in Int /\ (first > last - 1 <=> first = last)
    BY <1>1
  <2>2. IsFiniteSet(S) /\ Cardinality(S) = IF first > last - 1 THEN 0 ELSE last - 1 - first + 1
    BY <1>1, <2>1, FS_Interval
  <2>3. Cardinality(S) = count - 1
    BY <1>1, <2>1, <2>2
  <2>4. S \cup {last} = first..last /\ last \notin S
    BY <1>1
  <2> QED
    BY <2>2, <2>3, <2>4
<1>4. ASSUME NEW m \in first..last
      PROVE  Spreads(p)[m] = MonthlyAmount(total, count, m - first + 1) /\ Spreads(p)[m] \in Int
  BY <1>1, SpreadIs DEF first, last, total
<1>5. ASSUME NEW m \in S PROVE Spreads(p)[m] = base
  BY <1>1, <1>4 DEF MonthlyAmount
<1>6. Spreads(p)[last] = total - base * (count - 1)
  BY <1>1, <1>4 DEF MonthlyAmount
<1> HIDE DEF S
<1>7. SumOver(Spreads(p), S) = base * (count - 1)
  BY <1>2, <1>3, <1>5, TotalOfAlike
<1>8. SumOver(Spreads(p), S \cup {last}) = SumOver(Spreads(p), S) + Spreads(p)[last]
  <2>1. Numbers(Spreads(p), S \cup {last})
    BY <1>3, <1>4 DEF Numbers
  <2> QED
    BY <1>3, <2>1, TotalAdds
<1>9. base * (count - 1) \in Int
  BY <1>2
<1> DEFINE rest == base * (count - 1)
<1> HIDE DEF rest, base, count
<1>10. SumOver(Spreads(p), S \cup {last}) = total
  <2>1. rest + (total - rest) = total
    BY <1>1, <1>9 DEF rest
  <2> QED
    BY <1>6, <1>7, <1>8, <2>1 DEF rest
<1> QED
  BY <1>1, <1>3, <1>10 DEF total

\* Sums over parts of a plan.
LEMMA SpreadSums ==
  ASSUME NEW p \in AccrualPlan, NEW S, S \subseteq MonthsOf(p)
  PROVE  /\ IsFiniteSet(S) /\ Numbers(Spreads(p), S) /\ SumOver(Spreads(p), S) \in Int
         /\ MapThenSumSet(LAMBDA m : AmountOf(p, m), S) = SumOver(Spreads(p), S)
<1>1. IsFiniteSet(S)
  BY PlanShape, FS_Subset
<1>2. Numbers(Spreads(p), S)
  BY SpreadIs DEF Numbers
<1> DEFINE sum(f) == f = [s \in SUBSET S |-> IF s = {} THEN 0 ELSE AmountOf(p, Pick(s)) + f[s \ {Pick(s)}]]
<1>3. ASSUME NEW s \in SUBSET S, s # {} PROVE Spreads(p)[Pick(s)] = AmountOf(p, Pick(s))
  <2>1. Pick(s) \in MonthsOf(p)
    BY <1>3, PickIn
  <2> QED
    BY <2>1, SpreadIs
<1>4. ASSUME NEW f PROVE sum(f) <=> Sums(f, Spreads(p), S)
  BY <1>3 DEF Sums
<1>5. MapThenSumSet(LAMBDA m : AmountOf(p, m), S) = (CHOOSE f : sum(f))[S]
  BY DEF MapThenSumSet, MapThenFoldSet, Pick
<1>6. sum(CHOOSE f : sum(f))
  BY <1>1, <1>4, SumsExist
<1> QED
  BY <1>1, <1>2, <1>4, <1>5, <1>6, SumsGiveTotal, TotalIsNumber

LEMMA AccrualInit == InitAssets => AccrualInv
<1> SUFFICES ASSUME InitAssets PROVE AccrualInv
  OBVIOUS
<1>1. AccrualTables
  BY RegisterAssumption DEF InitAssets, AccrualTables, Day, Runs, NotStopped
<1>2. \A p \in AccrualPlan : accrued[p] = {} /\ parked[p] = 0
  BY DEF InitAssets
<1>3. ASSUME NEW p \in AccrualPlan PROVE 0 = -SumOver(Spreads(p), {})
  <2>1. SumOver(Spreads(p), {}) = 0
    BY EmptyTotal
  <2>2. ASSUME NEW x \in Int, x = 0, NEW z \in Int, 0 <= z, z <= 0 PROVE x = -z
    BY <2>2
  <2> QED
    BY <2>1, <2>2
<1>4. PostedOnce
  BY <1>2, <1>3 DEF PostedOnce
<1>5. RunnersRead
  BY DEF InitAssets, RunnersRead
<1> QED
  BY <1>1, <1>4, <1>5 DEF AccrualInv

\* Days and the ends of months are numbers.
LEMMA DaysAreNumbers ==
  ASSUME AccrualInv
  PROVE  /\ today \in Int /\ today >= 0
         /\ \A p \in AccrualPlan : stopped[p] \in Int
         /\ \A p \in AccrualPlan : \A m \in MonthsOf(p) : m \in Int /\ LastDay(m) \in Int
<1>1. today \in Int /\ today >= 0
  BY RegisterAssumption DEF AccrualInv, AccrualTables, Day
<1>2. ASSUME NEW p \in AccrualPlan, NEW m \in MonthsOf(p) PROVE m \in Int /\ LastDay(m) \in Int
  BY <1>2, PlanShape DEF LastDay
<1> QED
  BY <1>1, <1>2 DEF AccrualInv, AccrualTables

\* Nothing of the plans is touched, and the day does not go back.
LEMMA PlansRest ==
  ASSUME AccrualInv, UNCHANGED << accrued, parked, stopped, accruing >>,
         today' \in Day, today' = today \/ today' = today + 1
  PROVE  AccrualInv'
<1>1. today' \in Int /\ today <= today'
  BY DaysAreNumbers
<1>2. ASSUME NEW p \in AccrualPlan, NEW m \in MonthsOf(p), HasEnded(p, m) PROVE HasEnded(p, m)'
  BY <1>1, <1>2, DaysAreNumbers DEF HasEnded, LastDay
<1>3. AccrualTables'
  BY DEF AccrualInv, AccrualTables, Runs, Posting
<1>4. PostedOnce'
  BY <1>2 DEF AccrualInv, AccrualTables, PostedOnce
<1>5. RunnersRead'
  BY <1>2 DEF AccrualInv, AccrualTables, RunnersRead, Runs, Posting
<1> QED
  BY <1>3, <1>4, <1>5 DEF AccrualInv

\* What has been posted or read by then ended before the day the plan is stopped.
LEMMA StopStep ==
  ASSUME AccrualInv, NEW q \in Person, NEW plan \in AccrualPlan, StopAccrual(q, plan)
  PROVE  AccrualInv'
<1>1. /\ stopped[plan] = NotStopped /\ stopped' = [stopped EXCEPT ![plan] = today]
      /\ today' = today /\ accrued' = accrued /\ parked' = parked /\ accruing' = accruing
  BY DEF StopAccrual
<1>2. stopped' \in [AccrualPlan -> Int]
  BY <1>1, DaysAreNumbers DEF AccrualInv, AccrualTables
<1>3. ASSUME NEW p \in AccrualPlan, NEW m \in MonthsOf(p), HasEnded(p, m) PROVE HasEnded(p, m)'
  <2>1. stopped'[p] = IF p = plan THEN today ELSE stopped[p]
    BY <1>1 DEF AccrualInv, AccrualTables
  <2> QED
    BY <1>1, <1>3, <2>1 DEF HasEnded, LastDay
<1>4. AccrualTables'
  BY <1>1, <1>2 DEF AccrualInv, AccrualTables, Runs, Posting
<1>5. PostedOnce'
  BY <1>1, <1>3 DEF AccrualInv, AccrualTables, PostedOnce
<1>6. RunnersRead'
  BY <1>1, <1>3 DEF AccrualInv, AccrualTables, RunnersRead, Runs, Posting
<1> QED
  BY <1>4, <1>5, <1>6 DEF AccrualInv

\* A runner reads months that have ended and that the plan was not stopped before.
LEMMA ReadStep ==
  ASSUME AccrualInv, NEW r \in Runner, NEW plan \in AccrualPlan, AccruePlan(r, plan)
  PROVE  AccrualInv'
<1> DEFINE left == {m \in MonthsOf(plan) \ accrued[plan] : DueMonth(plan, m, today, stopped[plan])}
           d == [plan |-> plan, left |-> left]
<1>1. /\ accruing' = [accruing EXCEPT ![r] = d]
      /\ today' = today /\ accrued' = accrued /\ parked' = parked /\ stopped' = stopped
  BY DEF AccruePlan
<1>2. left \subseteq MonthsOf(plan) /\ MonthsOf(plan) \subseteq Int
  BY PlanShape
<1>3. \A m \in left : HasEnded(plan, m)
  <2> SUFFICES ASSUME NEW m \in left PROVE HasEnded(plan, m)
    OBVIOUS
  <2>1. LastDay(m) <= today /\ (stopped[plan] # NotStopped => stopped[plan] > LastDay(m))
    BY DEF DueMonth
  <2> QED
    BY <2>1, <1>2, DaysAreNumbers DEF HasEnded
<1> HIDE DEF left
<1>4. d.plan = plan /\ d.left = left /\ d \in [plan : AccrualPlan, left : SUBSET Int]
  BY <1>2
<1>5. Posting(d)
  BY <1>2, <1>4 DEF Posting
<1> HIDE DEF d
<1>6. DOMAIN accruing' = Runner /\ \A x \in Runner : accruing'[x] = IF x = r THEN d ELSE accruing[x]
  BY <1>1 DEF AccrualInv, AccrualTables
<1>7. AccrualTables'
  BY <1>1, <1>5, <1>6 DEF AccrualInv, AccrualTables, Runs, Posting
<1>8. PostedOnce'
  BY <1>1 DEF AccrualInv, PostedOnce, HasEnded
<1>9. RunnersRead'
  BY <1>1, <1>3, <1>4, <1>6 DEF AccrualInv, RunnersRead, HasEnded
<1> QED
  BY <1>7, <1>8, <1>9 DEF AccrualInv

\* The month that is posted is one that was read and is not in the log.
LEMMA PostStep ==
  ASSUME AccrualInv, NEW r \in Runner, PostMonth(r)
  PROVE  AccrualInv'
<1> DEFINE plan == accruing[r].plan
           left == accruing[r].left
           month == Min(left)
           d == [accruing[r] EXCEPT !.left = left \ {month}]
<1>1. /\ accruing[r] # NotAccruing /\ left # {}
      /\ accruing' = [accruing EXCEPT ![r].left = @ \ {month}]
      /\ today' = today /\ stopped' = stopped
      /\ \/ /\ OnlyOnce(plan, month)
            /\ accrued' = [accrued EXCEPT ![plan] = @ \cup {month}]
            /\ parked' = [parked EXCEPT ![plan] = @ - AmountOf(plan, month)]
         \/ accrued' = accrued /\ parked' = parked
  BY DEF PostMonth
<1>2. Posting(accruing[r])
  BY <1>1 DEF AccrualInv, AccrualTables, Runs
<1>3. plan \in AccrualPlan /\ left \subseteq MonthsOf(plan) /\ left \subseteq Int
  BY <1>2 DEF Posting
<1>4. month \in left
  <2> HIDE DEF left
  <2>1. IsFiniteSet(left) /\ WholeNumbers(left)
    BY <1>1, <1>3, PlanShape, FS_Subset DEF WholeNumbers
  <2>2. \E x \in left : \A y \in left : x <= y
    BY <2>1, HasLeast
  <2> QED
    BY <2>2 DEF Min
<1> HIDE DEF month
<1>5. Posting(d) /\ d.plan = plan /\ d.left \subseteq left
  BY <1>2, <1>3 DEF Posting
<1>6. DOMAIN accruing' = Runner /\ \A x \in Runner : accruing'[x] = IF x = r THEN d ELSE accruing[x]
  BY <1>1 DEF AccrualInv, AccrualTables
<1> HIDE DEF d
<1>7. \A m \in left : HasEnded(plan, m)
  BY <1>1 DEF AccrualInv, RunnersRead
<1>8. RunnersRead'
  BY <1>1, <1>5, <1>6, <1>7 DEF AccrualInv, RunnersRead, HasEnded
<1> HIDE DEF plan, left
<1>9. CASE accrued' = accrued /\ parked' = parked
  <2>1. AccrualTables'
    BY <1>1, <1>5, <1>6, <1>9 DEF AccrualInv, AccrualTables, Runs, Posting
  <2>2. PostedOnce'
    BY <1>1, <1>9 DEF AccrualInv, PostedOnce, HasEnded
  <2> QED
    BY <1>8, <2>1, <2>2 DEF AccrualInv
<1>10. CASE /\ OnlyOnce(plan, month)
            /\ accrued' = [accrued EXCEPT ![plan] = @ \cup {month}]
            /\ parked' = [parked EXCEPT ![plan] = @ - AmountOf(plan, month)]
  <2>1. \A p \in AccrualPlan :
            /\ accrued'[p] = IF p = plan THEN accrued[p] \cup {month} ELSE accrued[p]
            /\ parked'[p] = IF p = plan THEN parked[p] - AmountOf(plan, month) ELSE parked[p]
    BY <1>3, <1>10 DEF AccrualInv, AccrualTables
  <2>2. DOMAIN accrued' = AccrualPlan /\ DOMAIN parked' = AccrualPlan
    BY <1>10 DEF AccrualInv, AccrualTables
  <2>3. AccrualTables'
    BY <1>1, <1>3, <1>4, <1>5, <1>6, <2>1, <2>2 DEF AccrualInv, AccrualTables, Runs, Posting
  <2>4. ASSUME NEW p \in AccrualPlan
        PROVE  parked'[p] = -SumOver(Spreads(p), accrued'[p]) /\ \A m \in accrued'[p] : HasEnded(p, m)'
    <3>1. CASE p # plan
      BY <1>1, <2>1, <3>1 DEF AccrualInv, PostedOnce, HasEnded
    <3>2. CASE p = plan
      <4> DEFINE done == accrued[p]
                 g == Spreads(p)
      <4>1. month \in MonthsOf(p) /\ done \cup {month} \subseteq MonthsOf(p) /\ done \subseteq MonthsOf(p)
        BY <1>3, <1>4, <3>2 DEF AccrualInv, AccrualTables
      <4>2. /\ IsFiniteSet(done) /\ Numbers(g, done \cup {month}) /\ SumOver(g, done) \in Int
            /\ g[month] \in Int /\ AmountOf(p, month) = g[month]
        BY <4>1, SpreadSums, SpreadIs
      <4>3. month \notin done
        BY <1>10, <3>2 DEF OnlyOnce
      <4>4. SumOver(g, done \cup {month}) = SumOver(g, done) + g[month]
        BY <4>2, <4>3, TotalAdds
      <4>5. parked[p] = -SumOver(g, done)
        BY DEF AccrualInv, PostedOnce
      <4>6. parked'[p] = parked[p] - g[month] /\ accrued'[p] = done \cup {month}
        BY <2>1, <3>2, <4>2
      <4>7. \A m \in done \cup {month} : HasEnded(p, m)
        BY <1>4, <1>7, <3>2 DEF AccrualInv, PostedOnce
      <4>8. ASSUME NEW m, HasEnded(p, m) PROVE HasEnded(p, m)'
        BY <1>1, <4>8 DEF HasEnded
      <4>9. \A m \in accrued'[p] : HasEnded(p, m)'
        BY <4>6, <4>7, <4>8
      <4> HIDE DEF done, g
      <4>10. parked'[p] = -SumOver(g, accrued'[p])
        BY <4>2, <4>4, <4>5, <4>6
      <4> QED
        BY <4>9, <4>10 DEF g
    <3> QED
      BY <3>1, <3>2
  <2>5. PostedOnce'
    BY <2>4 DEF PostedOnce
  <2> QED
    BY <1>8, <2>3, <2>5 DEF AccrualInv
<1> QED
  BY <1>1, <1>9, <1>10 DEF plan, left, month

LEMMA EndStep ==
  ASSUME AccrualInv, NEW r \in Runner, EndAccruing(r)
  PROVE  AccrualInv'
<1>1. /\ accruing' = [accruing EXCEPT ![r] = NotAccruing]
      /\ today' = today /\ accrued' = accrued /\ parked' = parked /\ stopped' = stopped
  BY DEF EndAccruing
<1>2. DOMAIN accruing' = Runner /\ \A x \in Runner : accruing'[x] = IF x = r THEN NotAccruing ELSE accruing[x]
  BY <1>1 DEF AccrualInv, AccrualTables
<1>3. AccrualTables'
  BY <1>1, <1>2 DEF AccrualInv, AccrualTables, Runs, Posting
<1>4. PostedOnce' /\ RunnersRead'
  BY <1>1, <1>2 DEF AccrualInv, PostedOnce, RunnersRead, HasEnded
<1> QED
  BY <1>3, <1>4 DEF AccrualInv

LEMMA AccrualNext == AccrualInv /\ [NextAssets]_varsAssets => AccrualInv'
<1> SUFFICES ASSUME AccrualInv, [NextAssets]_varsAssets PROVE AccrualInv'
  OBVIOUS
<1>1. today \in Day
  BY DEF AccrualInv, AccrualTables
<1>2. CASE TomorrowAssets
  BY <1>2, PlansRest DEF TomorrowAssets, unchangedPlans
<1>3. ASSUME UNCHANGED << today, accrued, parked, stopped, accruing >> PROVE AccrualInv'
  BY <1>1, <1>3, PlansRest
<1>4. CASE \E d \in Day \cup {-1} : MoveLock(d)
  BY <1>3, <1>4 DEF MoveLock, unchangedPlans
<1>5. CASE NextFixedAssets
  <2>1. CASE \E p \in Person, a \in Asset : CreateAsset(p, a)
    BY <1>3, <2>1 DEF CreateAsset, unchangedPlans
  <2>2. ASSUME NEW a, NEW through, DepreciateNext(a, through) PROVE AccrualInv'
    BY <1>3, <2>2 DEF DepreciateNext, unchangedPlans
  <2>3. CASE \E p \in Person, a \in Asset, d \in Day : DepreciateDue(p, a, d)
    BY <2>2, <2>3 DEF DepreciateDue
  <2>4. CASE \E a \in Asset : DepreciateAll(a)
    BY <2>2, <2>4 DEF DepreciateAll
  <2>5. CASE \E p \in Person, a \in Asset, d \in Day, c \in Consideration : DisposeAsset(p, a, d, c)
    BY <1>3, <2>5 DEF DisposeAsset, unchangedPlans
  <2> QED
    BY <1>5, <2>1, <2>3, <2>4, <2>5 DEF NextFixedAssets
<1>6. CASE NextAccruals
  <2>1. ASSUME NEW p \in Person, NEW plan \in AccrualPlan, CreateAccrual(p, plan) PROVE AccrualInv'
    BY <1>3, <2>1 DEF CreateAccrual, unchangedPlans
  <2>2. ASSUME NEW p \in Person, NEW plan \in AccrualPlan, StopAccrual(p, plan) PROVE AccrualInv'
    BY <2>2, StopStep
  <2>3. ASSUME NEW r \in Runner, NEW plan \in AccrualPlan, AccruePlan(r, plan) PROVE AccrualInv'
    BY <2>3, ReadStep
  <2>4. ASSUME NEW r \in Runner, PostMonth(r) PROVE AccrualInv'
    BY <2>4, PostStep
  <2>5. ASSUME NEW r \in Runner, EndAccruing(r) PROVE AccrualInv'
    BY <2>5, EndStep
  <2> QED
    BY <1>6, <2>1, <2>2, <2>3, <2>4, <2>5 DEF NextAccruals, AccrueNow, AccrueAll
<1>7. CASE UNCHANGED varsAssets
  BY <1>3, <1>7 DEF varsAssets
<1> QED
  BY <1>2, <1>4, <1>5, <1>6, <1>7 DEF NextAssets, NextCalendar

LEMMA PlansFit == AccrualInv => PlansMovedOnce
<1> SUFFICES ASSUME AccrualInv, NEW p \in AccrualPlan
             PROVE  /\ parked[p] = -MapThenSumSet(LAMBDA m : AmountOf(p, m), accrued[p])
                    /\ accrued[p] = MonthsOf(p) => parked[p] = -PlanTerms[p].total
                    /\ stopped[p] # NotStopped => \A m \in accrued[p] : LastDay(m) <= stopped[p]
  BY DEF PlansMovedOnce
<1>1. accrued[p] \subseteq MonthsOf(p) /\ parked[p] = -SumOver(Spreads(p), accrued[p])
  BY DEF AccrualInv, AccrualTables, PostedOnce
<1>2. MapThenSumSet(LAMBDA m : AmountOf(p, m), accrued[p]) = SumOver(Spreads(p), accrued[p])
  BY <1>1, SpreadSums
<1>3. SumOver(Spreads(p), MonthsOf(p)) = PlanTerms[p].total
  BY PlanComesTo
<1>4. \A m \in accrued[p] : stopped[p] # NotStopped => LastDay(m) <= stopped[p]
  BY DEF AccrualInv, PostedOnce, HasEnded
<1> QED
  BY <1>1, <1>2, <1>3, <1>4

-----------------------------------------------------------------------------
(***************************************************************************)
(* Fixed assets.  What an asset's balance account holds by a day is its    *)
(* cost, once bought, less the months posted for days up to it, less what  *)
(* a disposal up to it took out; what it took out and what came late make  *)
(* up what was left.                                                       *)
(***************************************************************************)
\* What an asset posts in each month.
Wear(a) == [m \in Int |-> Depreciation(AssetTerms[a].cost, AssetTerms[a].residual,
                                       AssetTerms[a].life, MonthNumber(a, m))]

BoughtBy(a, n) == IF a \in registered /\ AssetTerms[a].acquired <= n THEN AssetTerms[a].cost ELSE 0
WornBy(a, n) == SumOver(Wear(a), {m \in depreciated[a] : LastDay(m) <= n})
GoneBy(a, n) == IF disposal[a] # NotDisposed /\ disposal[a].day <= n THEN disposal[a].value ELSE 0

Sold(a) == /\ disposal[a].day \in Day /\ disposal[a].value \in Int
           /\ AssetTerms[a].acquired <= disposal[a].day

AssetRows ==
    /\ today \in Day
    /\ DOMAIN carried = Asset /\ DOMAIN late = Asset
    /\ DOMAIN depreciated = Asset /\ DOMAIN disposal = Asset

RowOf(a) ==
    /\ carried[a] \in [Day -> Int] /\ late[a] \in Int
    /\ depreciated[a] \subseteq MonthOfDay(AssetTerms[a].acquired)..LastMonth
    /\ disposal[a] = NotDisposed \/ Sold(a)

\* An asset that is not registered has no history.
NoHistory(a) ==
    /\ depreciated[a] = {} /\ disposal[a] = NotDisposed
    /\ late[a] = 0 /\ \A d \in Day : carried[a][d] = 0

LateIsWorn(a) ==
    IF disposal[a] = NotDisposed THEN late[a] = 0
    ELSE late[a] = disposal[a].value - AssetTerms[a].cost + SumOver(Wear(a), depreciated[a])

CarriedIsWorn(a) ==
    \A n \in Day : SumOver(carried[a], 0..n) = BoughtBy(a, n) - WornBy(a, n) - GoneBy(a, n)

Books(a) ==
    RowOf(a) /\ (a \notin registered => NoHistory(a)) /\ LateIsWorn(a) /\ CarriedIsWorn(a)

AssetInv == AssetRows /\ \A a \in Asset : Books(a)

LEMMA AssetShape ==
  ASSUME NEW a \in Asset
  PROVE  /\ LastMonth \in Nat
         /\ AssetTerms[a].acquired \in Day /\ AssetTerms[a].acquired \in Nat
         /\ MonthOfDay(AssetTerms[a].acquired) \in Nat
         /\ AssetTerms[a].cost \in Int /\ AssetTerms[a].residual \in Int
         /\ AssetTerms[a].life \in Nat \ {0}
<1>1. LastMonth \in Nat /\ AssetTerms[a].acquired \in Day
  BY RegisterAssumption, AssetsAssumption
<1>2. AssetTerms[a].acquired \in Nat
  BY <1>1 DEF Day
<1>3. MonthOfDay(AssetTerms[a].acquired) \in Nat
  BY <1>2 DEF MonthOfDay
<1> QED
  BY <1>1, <1>2, <1>3, RegisterAssumption, AssetsAssumption

LEMMA WearIsNumber ==
  ASSUME NEW a \in Asset, NEW m \in Int
  PROVE  /\ Wear(a)[m] \in Int
         /\ Wear(a)[m] = Depreciation(AssetTerms[a].cost, AssetTerms[a].residual,
                                      AssetTerms[a].life, MonthNumber(a, m))
<1> DEFINE total == AssetTerms[a].cost - AssetTerms[a].residual
           no == MonthNumber(a, m)
           life == AssetTerms[a].life
<1>1. total \in Int /\ no \in Int /\ life \in Nat \ {0}
  BY AssetShape DEF MonthNumber
<1> HIDE DEF total, no, life
<1>2. MonthlyAmount(total, life, no) \in Int
  BY <1>1, MonthIsNumber
<1> QED
  BY <1>2 DEF Wear, Depreciation, total, no, life

\* Sums over months of an asset.
LEMMA WearSums ==
  ASSUME NEW a \in Asset, NEW S, IsFiniteSet(S), \A m \in S : m \in Int
  PROVE  /\ Numbers(Wear(a), S) /\ SumOver(Wear(a), S) \in Int
         /\ Depreciated(a, S) = SumOver(Wear(a), S)
<1>1. Numbers(Wear(a), S)
  BY WearIsNumber DEF Numbers
<1> DEFINE w(m) == Depreciation(AssetTerms[a].cost, AssetTerms[a].residual,
                                AssetTerms[a].life, MonthNumber(a, m))
           sum(f) == f = [s \in SUBSET S |-> IF s = {} THEN 0 ELSE w(Pick(s)) + f[s \ {Pick(s)}]]
<1>2. ASSUME NEW s \in SUBSET S, s # {} PROVE Wear(a)[Pick(s)] = w(Pick(s))
  <2>1. Pick(s) \in Int
    BY <1>2, PickIn
  <2> QED
    BY <2>1, WearIsNumber
<1>3. ASSUME NEW f PROVE sum(f) <=> Sums(f, Wear(a), S)
  BY <1>2 DEF Sums
<1>4. Depreciated(a, S) = (CHOOSE f : sum(f))[S]
  BY DEF Depreciated, MapThenSumSet, MapThenFoldSet, Pick
<1>5. sum(CHOOSE f : sum(f))
  BY <1>3, SumsExist
<1> QED
  BY <1>1, <1>3, <1>4, <1>5, SumsGiveTotal, TotalIsNumber

\* The months of an asset are finitely many.
LEMMA MonthsOfAsset ==
  ASSUME AssetInv, NEW a \in Asset
  PROVE  /\ IsFiniteSet(depreciated[a]) /\ \A m \in depreciated[a] : m \in Int /\ m >= 0 /\ m <= LastMonth
         /\ \A m \in depreciated[a] : m >= MonthOfDay(AssetTerms[a].acquired)
<1> DEFINE first == MonthOfDay(AssetTerms[a].acquired)
<1>1. first \in Nat /\ LastMonth \in Int
  BY AssetShape
<1>2. depreciated[a] \subseteq first..LastMonth
  BY DEF AssetInv, Books, RowOf
<1> HIDE DEF first
<1>3. IsFiniteSet(first..LastMonth)
  BY <1>1, FS_Interval
<1>4. IsFiniteSet(depreciated[a])
  BY <1>2, <1>3, FS_Subset
<1>5. \A m \in depreciated[a] : m \in Int /\ m >= first /\ m <= LastMonth
  BY <1>1, <1>2
<1> QED
  BY <1>1, <1>4, <1>5 DEF first

\* One day of an account moves.
DayMoves(c, x, v, h) == h = [c EXCEPT ![x] = v]

LEMMA OneDayMoves ==
  ASSUME NEW c \in [Day -> Int], NEW x \in Day, NEW v \in Int,
         NEW h, DayMoves(c, x, v, h), NEW n \in Day
  PROVE  /\ h \in [Day -> Int]
         /\ SumOver(c, 0..n) \in Int
         /\ SumOver(h, 0..n) = SumOver(c, 0..n) + (IF x <= n THEN v - c[x] ELSE 0)
<1>1. LastMonth \in Nat /\ n \in Int /\ x \in Int /\ x >= 0
  BY RegisterAssumption DEF Day
<1>2. IsFiniteSet(0..n)
  BY <1>1, FS_Interval
<1>3. 0..n \subseteq Day
  BY <1>1 DEF Day
<1>4. Numbers(c, 0..n)
  BY <1>3 DEF Numbers
<1>5. SumOver(c, 0..n) \in Int
  BY <1>2, <1>4, TotalIsNumber
<1>6. h \in [Day -> Int] /\ \A d \in Day : h[d] = IF d = x THEN v ELSE c[d]
  BY DEF DayMoves
<1>7. CASE x <= n
  <2>1. x \in 0..n
    BY <1>1, <1>7
  <2>2. h[x] \in Int /\ h[x] = v /\ \A d \in (0..n) \ {x} : h[d] = c[d]
    BY <1>3, <1>6
  <2>3. SumOver(h, 0..n) = SumOver(c, 0..n) - c[x] + h[x]
    <3> DEFINE S == 0..n
    <3>1. IsFiniteSet(S) /\ Numbers(c, S) /\ x \in S /\ \A d \in S \ {x} : h[d] = c[d]
      BY <1>2, <1>4, <2>1, <2>2
    <3> HIDE DEF S
    <3>2. SumOver(h, S) = SumOver(c, S) - c[x] + h[x]
      BY <2>2, <3>1, TotalMoves
    <3> QED
      BY <3>2 DEF S
  <2>4. c[x] \in Int
    OBVIOUS
  <2> QED
    BY <1>5, <1>6, <1>7, <2>2, <2>3, <2>4
<1>8. CASE ~(x <= n)
  <2>1. x \notin 0..n
    BY <1>1, <1>8
  <2>2. Alike(h, c, 0..n)
    BY <1>3, <1>6, <2>1 DEF Alike
  <2>3. SumOver(h, 0..n) = SumOver(c, 0..n)
    BY <1>2, <2>2, TotalSame
  <2> QED
    BY <1>5, <1>6, <1>8, <2>3
<1> QED
  BY <1>7, <1>8

LEMMA AssetInit == InitAssets => AssetInv
<1> SUFFICES ASSUME InitAssets PROVE AssetInv
  OBVIOUS
<1>1. AssetRows
  BY RegisterAssumption DEF InitAssets, AssetRows, Day
<1>2. ASSUME NEW a \in Asset PROVE Books(a)
  <2>1. /\ registered = {} /\ depreciated[a] = {} /\ disposal[a] = NotDisposed /\ late[a] = 0
        /\ carried[a] = [d \in Day |-> 0]
    BY DEF InitAssets
  <2>2. RowOf(a) /\ NoHistory(a) /\ LateIsWorn(a)
    BY <2>1 DEF RowOf, NoHistory, LateIsWorn
  <2>3. ASSUME NEW n \in Day PROVE SumOver(carried[a], 0..n) = BoughtBy(a, n) - WornBy(a, n) - GoneBy(a, n)
    <3>1. n \in Int /\ 0..n \subseteq Day
      BY RegisterAssumption DEF Day
    <3>2. IsFiniteSet(0..n) /\ \A d \in 0..n : carried[a][d] = 0
      BY <2>1, <3>1, FS_Interval
    <3>3. SumOver(carried[a], 0..n) = 0
      BY <3>2, TotalOfNothing
    <3>4. {m \in depreciated[a] : LastDay(m) <= n} = {}
      BY <2>1
    <3>5. WornBy(a, n) = 0
      BY <3>4, EmptyTotal DEF WornBy
    <3>6. BoughtBy(a, n) = 0 /\ GoneBy(a, n) = 0
      BY <2>1 DEF BoughtBy, GoneBy
    <3> QED
      BY <3>3, <3>5, <3>6
  <2> QED
    BY <2>2, <2>3 DEF Books, CarriedIsWorn
<1> QED
  BY <1>1, <1>2 DEF AssetInv

\* What an asset has come to is untouched where its rows are.
LEMMA AssetRests ==
  ASSUME NEW a \in Asset, Books(a), carried'[a] = carried[a], late'[a] = late[a],
         depreciated'[a] = depreciated[a], disposal'[a] = disposal[a],
         a \in registered' <=> a \in registered
  PROVE  Books(a)'
<1>1. RowOf(a)' /\ LateIsWorn(a)' /\ (a \notin registered' => NoHistory(a)')
  BY DEF Books, RowOf, LateIsWorn, NoHistory, Sold
<1>2. CarriedIsWorn(a)'
  BY DEF Books, CarriedIsWorn, BoughtBy, WornBy, GoneBy
<1> QED
  BY <1>1, <1>2 DEF Books

LEMMA AssetsRest ==
  ASSUME AssetInv, UNCHANGED << depreciated, disposal, carried, late >>, today' \in Day,
         \A a \in Asset : a \in registered' <=> a \in registered
  PROVE  AssetInv'
<1>1. AssetRows'
  BY DEF AssetInv, AssetRows
<1>2. ASSUME NEW a \in Asset PROVE Books(a)'
  BY AssetRests DEF AssetInv
<1> QED
  BY <1>1, <1>2 DEF AssetInv

\* What each day of an account holds is a number, and so are the parts it is made of.
LEMMA BooksAreNumbers ==
  ASSUME AssetInv, NEW a \in Asset, NEW n \in Day
  PROVE  /\ SumOver(carried[a], 0..n) \in Int
         /\ BoughtBy(a, n) \in Int /\ WornBy(a, n) \in Int /\ GoneBy(a, n) \in Int
         /\ SumOver(Wear(a), depreciated[a]) \in Int
<1>1. /\ carried[a] \in [Day -> Int] /\ RowOf(a)
      /\ SumOver(carried[a], 0..n) = BoughtBy(a, n) - WornBy(a, n) - GoneBy(a, n)
  BY DEF AssetInv, Books, RowOf, CarriedIsWorn
<1>2. BoughtBy(a, n) \in Int
  BY AssetShape DEF BoughtBy
<1>3. GoneBy(a, n) \in Int
  BY <1>1 DEF GoneBy, RowOf, Sold
<1> DEFINE S == {m \in depreciated[a] : LastDay(m) <= n}
<1>4. IsFiniteSet(S) /\ \A m \in S : m \in Int
  BY MonthsOfAsset, FS_Subset
<1>5. WornBy(a, n) \in Int
  BY <1>4, WearSums DEF WornBy
<1>6. SumOver(Wear(a), depreciated[a]) \in Int
  BY MonthsOfAsset, WearSums
<1> QED
  BY <1>1, <1>2, <1>3, <1>5, <1>6

LEMMA CreateStep ==
  ASSUME AssetInv, NEW q \in Person, NEW a \in Asset, CreateAsset(q, a)
  PROVE  AssetInv'
<1> DEFINE day == AssetTerms[a].acquired
           cost == AssetTerms[a].cost
<1>1. /\ a \notin registered /\ registered' = registered \cup {a}
      /\ carried' = [carried EXCEPT ![a][day] = cost]
      /\ today' = today /\ depreciated' = depreciated /\ disposal' = disposal /\ late' = late
  BY DEF CreateAsset
<1>2. /\ AssetRows /\ \A b \in Asset : Books(b)
      /\ RowOf(a) /\ NoHistory(a) /\ CarriedIsWorn(a)
  BY <1>1 DEF AssetInv, Books
<1>3. /\ DOMAIN carried' = Asset
      /\ carried'[a] = [carried[a] EXCEPT ![day] = cost]
      /\ \A b \in Asset \ {a} : carried'[b] = carried[b]
  BY <1>1, <1>2 DEF AssetRows
<1>4. AssetRows'
  BY <1>1, <1>2, <1>3 DEF AssetRows
<1>5. ASSUME NEW b \in Asset \ {a} PROVE Books(b)'
  BY <1>1, <1>2, <1>3, AssetRests
<1>6. day \in Day /\ cost \in Int /\ carried[a] \in [Day -> Int] /\ carried[a][day] = 0
  BY <1>2, AssetShape DEF RowOf, NoHistory
<1> HIDE DEF day, cost
<1>7. ASSUME NEW n \in Day
      PROVE  /\ carried'[a] \in [Day -> Int] /\ SumOver(carried[a], 0..n) \in Int
             /\ SumOver(carried'[a], 0..n) = SumOver(carried[a], 0..n) + (IF day <= n THEN cost - 0 ELSE 0)
  <2>1. DayMoves(carried[a], day, cost, carried'[a])
    BY <1>3 DEF DayMoves
  <2> QED
    BY <1>6, <2>1, OneDayMoves
<1>8. LastMonth \in Nat /\ 0 \in Day
  BY RegisterAssumption DEF Day
<1>9. RowOf(a)'
  BY <1>1, <1>2, <1>7, <1>8 DEF RowOf, Sold
<1>10. LateIsWorn(a)' /\ a \in registered'
  BY <1>1, <1>2 DEF LateIsWorn, NoHistory
<1>11. ASSUME NEW n \in Day
       PROVE SumOver(carried[a], 0..n)' = BoughtBy(a, n)' - WornBy(a, n)' - GoneBy(a, n)'
  <2>1. WornBy(a, n)' = WornBy(a, n) /\ GoneBy(a, n)' = GoneBy(a, n)
    BY <1>1 DEF WornBy, GoneBy
  <2>2. BoughtBy(a, n) = 0 /\ BoughtBy(a, n)' = IF day <= n THEN cost ELSE 0
    BY <1>1 DEF BoughtBy, day, cost
  <2>3. SumOver(carried[a], 0..n) = BoughtBy(a, n) - WornBy(a, n) - GoneBy(a, n)
    BY <1>2 DEF CarriedIsWorn
  <2>4. WornBy(a, n) \in Int /\ GoneBy(a, n) \in Int
    BY BooksAreNumbers
  <2>5. SumOver(carried[a], 0..n)' = SumOver(carried'[a], 0..n)
    OBVIOUS
  <2> QED
    BY <1>6, <1>7, <2>1, <2>2, <2>3, <2>4, <2>5
<1>12. Books(a)'
  BY <1>9, <1>10, <1>11 DEF Books, CarriedIsWorn
<1> QED
  BY <1>4, <1>5, <1>12 DEF AssetInv

\* The month that is next is none of those that are posted.
LEMMA NextIsNew ==
  ASSUME AssetInv, NEW a \in Asset
  PROVE  /\ NextPeriod(a) \in Int /\ NextPeriod(a) >= MonthOfDay(AssetTerms[a].acquired)
         /\ NextPeriod(a) \notin depreciated[a]
<1> DEFINE first == MonthOfDay(AssetTerms[a].acquired)
           S == depreciated[a]
<1>1. first \in Nat /\ IsFiniteSet(S) /\ \A m \in S : m \in Int /\ m >= first
  BY AssetShape, MonthsOfAsset
<1>2. CASE S = {}
  BY <1>1, <1>2 DEF NextPeriod, PostedMonths
<1>3. CASE S # {}
  <2>1. NextPeriod(a) = Max(S) + 1
    BY <1>3 DEF NextPeriod, PostedMonths
  <2> HIDE DEF S, first
  <2>2. WholeNumbers(S)
    BY <1>1, <1>3 DEF WholeNumbers
  <2>3. \E x \in S : \A y \in S : x >= y
    BY <1>1, <2>2, HasGreatest
  <2>4. Max(S) \in S /\ \A y \in S : Max(S) >= y
    BY <2>3 DEF Max
  <2>5. \A y \in S : Max(S) + 1 # y
    BY <1>1, <2>4
  <2>6. Max(S) + 1 \in Int /\ Max(S) + 1 >= first
    BY <1>1, <2>4
  <2> QED
    BY <2>1, <2>5, <2>6 DEF S, first
<1> QED
  BY <1>2, <1>3

LEMMA WearStep ==
  ASSUME AssetInv, NEW a \in Asset, NEW through \in Day, DepreciateNext(a, through)
  PROVE  AssetInv'
<1> DEFINE month == NextPeriod(a)
           day == LastDay(month)
           amount == Wear(a)[month]
           gone == disposal[a] # NotDisposed
<1>1. /\ a \in registered /\ registered' = registered /\ today' = today /\ disposal' = disposal
      /\ day <= through
      /\ \/ /\ depreciated' = [depreciated EXCEPT ![a] = @ \cup {month}]
            /\ carried' = [carried EXCEPT ![a][day] = @ - Depreciated(a, {month})]
            /\ late' = [late EXCEPT ![a] = IF disposal[a] = NotDisposed THEN @ ELSE @ + Depreciated(a, {month})]
         \/ UNCHANGED << depreciated, carried, late >>
  BY DEF DepreciateNext, Due
<1>2. /\ month \in Int /\ month \notin depreciated[a]
      /\ month >= MonthOfDay(AssetTerms[a].acquired)
  BY NextIsNew
<1>3. AssetRows /\ (\A b \in Asset : Books(b)) /\ Books(a) /\ RowOf(a) /\ LateIsWorn(a) /\ CarriedIsWorn(a)
  BY DEF AssetInv, Books
<1>4. CASE UNCHANGED << depreciated, carried, late >>
  <2>1. today' \in Day
    BY <1>1, <1>3 DEF AssetRows
  <2> QED
    BY <1>1, <1>4, <2>1, AssetsRest
<1>5. CASE /\ depreciated' = [depreciated EXCEPT ![a] = @ \cup {month}]
           /\ carried' = [carried EXCEPT ![a][day] = @ - Depreciated(a, {month})]
           /\ late' = [late EXCEPT ![a] = IF disposal[a] = NotDisposed THEN @ ELSE @ + Depreciated(a, {month})]
  <2>1. amount \in Int /\ Depreciated(a, {month}) = amount
    <3>1. IsFiniteSet({month}) /\ \A m \in {month} : m \in Int
      BY <1>2, FS_Singleton
    <3>2. amount \in Int
      BY <1>2, WearIsNumber
    <3>3. SumOver(Wear(a), {month}) = amount
      BY <3>1, <3>2, TotalOfOne
    <3> QED
      BY <3>1, <3>2, <3>3, WearSums
  <2>2. day \in Day /\ month <= LastMonth
    <3>1. LastMonth \in Nat /\ month >= 0
      BY <1>2, AssetShape
    <3>2. through \in Int /\ through <= 2 * LastMonth + 1
      BY <3>1 DEF Day
    <3> HIDE DEF month
    <3> QED
      BY <1>1, <1>2, <3>1, <3>2 DEF Day, LastDay
  <2> HIDE DEF month, amount, day
  <2>3. /\ carried[a] \in [Day -> Int] /\ carried[a][day] \in Int /\ late[a] \in Int
    BY <1>3, <2>2 DEF RowOf
  <2>4. /\ DOMAIN carried' = Asset /\ DOMAIN late' = Asset /\ DOMAIN depreciated' = Asset
        /\ carried'[a] = [carried[a] EXCEPT ![day] = carried[a][day] - amount]
        /\ late'[a] = IF gone THEN late[a] + amount ELSE late[a]
        /\ depreciated'[a] = depreciated[a] \cup {month}
        /\ \A b \in Asset \ {a} : /\ carried'[b] = carried[b] /\ late'[b] = late[b]
                                  /\ depreciated'[b] = depreciated[b]
    BY <1>3, <1>5, <2>1 DEF AssetRows
  <2>5. AssetRows'
    BY <1>1, <1>3, <2>4 DEF AssetRows
  <2>6. ASSUME NEW b \in Asset \ {a} PROVE Books(b)'
    BY <1>1, <1>3, <2>4, AssetRests
  <2>7. ASSUME NEW n \in Day
        PROVE  /\ carried'[a] \in [Day -> Int] /\ SumOver(carried[a], 0..n) \in Int
               /\ SumOver(carried'[a], 0..n) =
                    SumOver(carried[a], 0..n) + (IF day <= n THEN carried[a][day] - amount - carried[a][day] ELSE 0)
    <3>1. carried[a][day] - amount \in Int
      BY <2>1, <2>3
    <3>2. DayMoves(carried[a], day, carried[a][day] - amount, carried'[a])
      BY <2>4 DEF DayMoves
    <3> QED
      BY <2>2, <2>3, <3>1, <3>2, OneDayMoves
  <2>8. RowOf(a)'
    <3>1. carried'[a] \in [Day -> Int]
      BY <2>2, <2>7
    <3>2. late'[a] \in Int
      BY <2>1, <2>3, <2>4
    <3>3. month \in MonthOfDay(AssetTerms[a].acquired)..LastMonth
      BY <1>2, <2>2, AssetShape
    <3> QED
      BY <1>1, <1>3, <2>4, <3>1, <3>2, <3>3 DEF RowOf, Sold
  <2>9. /\ IsFiniteSet(depreciated[a]) /\ \A m \in depreciated[a] \cup {month} : m \in Int
    BY <1>2, MonthsOfAsset
  <2>10. ASSUME NEW S, S \subseteq depreciated[a]
         PROVE  /\ SumOver(Wear(a), S \cup {month}) = SumOver(Wear(a), S) + amount
                /\ SumOver(Wear(a), S) \in Int
    <3>1. IsFiniteSet(S) /\ IsFiniteSet(S \cup {month}) /\ month \notin S /\ \A m \in S \cup {month} : m \in Int
      BY <1>2, <2>9, <2>10, FS_Subset, FS_AddElement
    <3>2. Numbers(Wear(a), S \cup {month}) /\ SumOver(Wear(a), S) \in Int
      BY <3>1, WearSums
    <3> QED
      BY <3>1, <3>2, TotalAdds DEF amount
  <2>11. LateIsWorn(a)'
    <3>1. CASE disposal[a] = NotDisposed
      BY <1>1, <1>3, <2>4, <3>1 DEF LateIsWorn
    <3>2. CASE disposal[a] # NotDisposed
      <4>1. /\ late[a] = disposal[a].value - AssetTerms[a].cost + SumOver(Wear(a), depreciated[a])
            /\ disposal[a].value \in Int /\ AssetTerms[a].cost \in Int
        BY <1>3, <3>2, AssetShape DEF LateIsWorn, RowOf, Sold
      <4>2. SumOver(Wear(a), depreciated'[a]) = SumOver(Wear(a), depreciated[a]) + amount
        BY <2>4, <2>10
      <4>3. late'[a] = disposal[a].value - AssetTerms[a].cost + SumOver(Wear(a), depreciated'[a])
        BY <2>1, <2>4, <2>10, <3>2, <4>1, <4>2
      <4> QED
        BY <1>1, <3>2, <4>3 DEF LateIsWorn
    <3> QED
      BY <3>1, <3>2
  <2>12. ASSUME NEW n \in Day
         PROVE  SumOver(carried[a], 0..n)' = BoughtBy(a, n)' - WornBy(a, n)' - GoneBy(a, n)'
    <3> DEFINE S == {m \in depreciated[a] : LastDay(m) <= n}
               T == {m \in depreciated'[a] : LastDay(m) <= n}
    <3>1. BoughtBy(a, n)' = BoughtBy(a, n) /\ GoneBy(a, n)' = GoneBy(a, n)
      BY <1>1 DEF BoughtBy, GoneBy
    <3>2. WornBy(a, n) = SumOver(Wear(a), S) /\ WornBy(a, n)' = SumOver(Wear(a), T)
      BY DEF WornBy
    <3>3. T = IF day <= n THEN S \cup {month} ELSE S
      BY <2>4 DEF day
    <3>4. S \subseteq depreciated[a]
      OBVIOUS
    <3> HIDE DEF S, T
    <3>5. SumOver(Wear(a), T) = SumOver(Wear(a), S) + (IF day <= n THEN amount ELSE 0) /\ SumOver(Wear(a), S) \in Int
      BY <2>10, <3>3, <3>4
    <3>6. /\ SumOver(carried[a], 0..n) = BoughtBy(a, n) - WornBy(a, n) - GoneBy(a, n)
          /\ BoughtBy(a, n) \in Int /\ GoneBy(a, n) \in Int
      BY <1>3, BooksAreNumbers DEF CarriedIsWorn
    <3>7. SumOver(carried[a], 0..n)' = SumOver(carried'[a], 0..n)
      OBVIOUS
    <3>8. SumOver(carried'[a], 0..n) = SumOver(carried[a], 0..n) - (IF day <= n THEN amount ELSE 0)
      BY <2>1, <2>3, <2>7
    <3> QED
      BY <2>1, <3>1, <3>2, <3>5, <3>6, <3>7, <3>8
  <2>13. Books(a)'
    BY <1>1, <2>8, <2>11, <2>12 DEF Books, CarriedIsWorn
  <2> QED
    BY <2>5, <2>6, <2>13 DEF AssetInv
<1> QED
  BY <1>1, <1>4, <1>5

LEMMA DisposeStep ==
  ASSUME AssetInv, NEW q \in Person, NEW a \in Asset, NEW day \in Day, NEW c, DisposeAsset(q, a, day, c)
  PROVE  AssetInv'
<1> DEFINE value == BookValue(a)
           row == [day |-> day, value |-> value, proceeds |-> c, gain |-> GainOnDisposal(value, c)]
<1>1. /\ a \in registered /\ disposal[a] = NotDisposed /\ day >= AssetTerms[a].acquired
      /\ disposal' = [disposal EXCEPT ![a] = row]
      /\ carried' = [carried EXCEPT ![a][day] = @ - value]
      /\ registered' = registered /\ today' = today /\ depreciated' = depreciated /\ late' = late
  BY DEF DisposeAsset
<1>2. AssetRows /\ (\A b \in Asset : Books(b)) /\ RowOf(a) /\ LateIsWorn(a) /\ CarriedIsWorn(a)
  BY DEF AssetInv, Books
<1>3. /\ AssetTerms[a].cost \in Int /\ SumOver(Wear(a), depreciated[a]) \in Int
      /\ value = AssetTerms[a].cost - SumOver(Wear(a), depreciated[a])
  BY AssetShape, MonthsOfAsset, WearSums DEF BookValue
<1>4. value \in Int
  BY <1>3
<1> HIDE DEF value
<1>5. row.day = day /\ row.value = value /\ row # NotDisposed
  <2>1. day # -1
    BY RegisterAssumption DEF Day
  <2> QED
    BY <2>1 DEF NotDisposed
<1> HIDE DEF row
<1>6. /\ DOMAIN carried' = Asset /\ DOMAIN disposal' = Asset
      /\ carried'[a] = [carried[a] EXCEPT ![day] = carried[a][day] - value] /\ disposal'[a] = row
      /\ \A b \in Asset \ {a} : carried'[b] = carried[b] /\ disposal'[b] = disposal[b]
  BY <1>1, <1>2 DEF AssetRows
<1>7. AssetRows'
  BY <1>1, <1>2, <1>6 DEF AssetRows
<1>8. ASSUME NEW b \in Asset \ {a} PROVE Books(b)'
  BY <1>1, <1>2, <1>6, AssetRests
<1>9. carried[a] \in [Day -> Int] /\ carried[a][day] \in Int
  BY <1>2 DEF RowOf
<1>10. ASSUME NEW n \in Day
      PROVE  /\ carried'[a] \in [Day -> Int] /\ SumOver(carried[a], 0..n) \in Int
             /\ SumOver(carried'[a], 0..n) =
                  SumOver(carried[a], 0..n) + (IF day <= n THEN carried[a][day] - value - carried[a][day] ELSE 0)
  <2>1. carried[a][day] - value \in Int
    BY <1>4, <1>9
  <2>2. DayMoves(carried[a], day, carried[a][day] - value, carried'[a])
    BY <1>6 DEF DayMoves
  <2> QED
    BY <1>9, <2>1, <2>2, OneDayMoves
<1>11. RowOf(a)'
  <2>1. carried'[a] \in [Day -> Int]
    BY <1>10
  <2> QED
    BY <1>1, <1>2, <1>4, <1>5, <1>6, <2>1 DEF RowOf, Sold
<1>12. LateIsWorn(a)'
  <2>1. late'[a] = 0 /\ disposal'[a] # NotDisposed /\ disposal'[a].value = value
    BY <1>1, <1>2, <1>5, <1>6 DEF LateIsWorn
  <2>2. value - AssetTerms[a].cost + SumOver(Wear(a), depreciated[a]) = 0
    BY <1>3
  <2> QED
    BY <1>1, <2>1, <2>2 DEF LateIsWorn
<1>13. ASSUME NEW n \in Day
       PROVE  SumOver(carried[a], 0..n)' = BoughtBy(a, n)' - WornBy(a, n)' - GoneBy(a, n)'
  <2>1. BoughtBy(a, n)' = BoughtBy(a, n) /\ WornBy(a, n)' = WornBy(a, n)
    BY <1>1 DEF BoughtBy, WornBy
  <2>2. GoneBy(a, n) = 0 /\ GoneBy(a, n)' = IF day <= n THEN value ELSE 0
    BY <1>1, <1>5, <1>6 DEF GoneBy
  <2>3. /\ SumOver(carried[a], 0..n) = BoughtBy(a, n) - WornBy(a, n) - GoneBy(a, n)
        /\ BoughtBy(a, n) \in Int /\ WornBy(a, n) \in Int
    BY <1>2, BooksAreNumbers DEF CarriedIsWorn
  <2>4. SumOver(carried[a], 0..n)' = SumOver(carried'[a], 0..n)
    OBVIOUS
  <2>5. SumOver(carried'[a], 0..n) = SumOver(carried[a], 0..n) - (IF day <= n THEN value ELSE 0)
    BY <1>4, <1>9, <1>10
  <2> QED
    BY <1>4, <2>1, <2>2, <2>3, <2>4, <2>5
<1>14. Books(a)'
  BY <1>1, <1>11, <1>12, <1>13 DEF Books, CarriedIsWorn
<1> QED
  BY <1>7, <1>8, <1>14 DEF AssetInv

LEMMA AssetNext == AssetInv /\ [NextAssets]_varsAssets => AssetInv'
<1> SUFFICES ASSUME AssetInv, [NextAssets]_varsAssets PROVE AssetInv'
  OBVIOUS
<1>1. today \in Day
  BY DEF AssetInv, AssetRows
<1>2. CASE TomorrowAssets
  BY <1>2, AssetsRest DEF TomorrowAssets, unchangedAssets
<1>3. ASSUME UNCHANGED << registered, today, depreciated, disposal, carried, late >> PROVE AssetInv'
  BY <1>1, <1>3, AssetsRest
<1>4. CASE \E d \in Day \cup {-1} : MoveLock(d)
  BY <1>3, <1>4 DEF MoveLock, unchangedAssets
<1>5. CASE NextFixedAssets
  <2>1. ASSUME NEW p \in Person, NEW a \in Asset, CreateAsset(p, a) PROVE AssetInv'
    BY <2>1, CreateStep
  <2>2. ASSUME NEW a \in Asset, NEW d \in Day, DepreciateNext(a, d) PROVE AssetInv'
    BY <2>2, WearStep
  <2>3. ASSUME NEW p \in Person, NEW a \in Asset, NEW d \in Day, NEW c, DisposeAsset(p, a, d, c)
        PROVE AssetInv'
    BY <2>3, DisposeStep
  <2> QED
    BY <1>1, <1>5, <2>1, <2>2, <2>3 DEF NextFixedAssets, DepreciateDue, DepreciateAll
<1>6. CASE NextAccruals
  <2>1. ASSUME NEW p \in Person, NEW plan \in AccrualPlan, CreateAccrual(p, plan) PROVE AssetInv'
    <3>1. UNCHANGED << depreciated, disposal, carried, late >> /\ today' \in Day
      BY <1>1, <2>1 DEF CreateAccrual, unchangedAssets
    <3>2. \A a \in Asset : a \in registered' <=> a \in registered
      BY <2>1, RegisterAssumption DEF CreateAccrual
    <3> QED
      BY <3>1, <3>2, AssetsRest
  <2>2. ASSUME NEW p \in Person, NEW plan \in AccrualPlan, StopAccrual(p, plan) PROVE AssetInv'
    BY <1>3, <2>2 DEF StopAccrual, unchangedAssets
  <2>3. ASSUME NEW r \in Runner, NEW plan \in AccrualPlan, AccruePlan(r, plan) PROVE AssetInv'
    BY <1>3, <2>3 DEF AccruePlan, unchangedAssets
  <2>4. ASSUME NEW r \in Runner, PostMonth(r) PROVE AssetInv'
    BY <1>3, <2>4 DEF PostMonth, unchangedAssets
  <2>5. ASSUME NEW r \in Runner, EndAccruing(r) PROVE AssetInv'
    BY <1>3, <2>5 DEF EndAccruing, unchangedAssets
  <2> QED
    BY <1>6, <2>1, <2>2, <2>3, <2>4, <2>5 DEF NextAccruals, AccrueNow, AccrueAll
<1>7. CASE UNCHANGED varsAssets
  BY <1>3, <1>7 DEF varsAssets
<1> QED
  BY <1>2, <1>4, <1>5, <1>6, <1>7 DEF NextAssets, NextCalendar

\* The sum that the properties take of an account.
LEMMA CarriedIs ==
  ASSUME AssetInv, NEW a \in Asset, NEW n \in Day
  PROVE  CarriedBy(a, n) = SumOver(carried[a], 0..n)
<1> DEFINE S == 0..n
           sum(f) == f = [s \in SUBSET S |-> IF s = {} THEN 0 ELSE carried[a][Pick(s)] + f[s \ {Pick(s)}]]
<1>1. IsFiniteSet(S)
  <2>1. 0 \in Int /\ n \in Int
    BY RegisterAssumption DEF Day
  <2> QED
    BY <2>1, FS_Interval
<1>2. ASSUME NEW f PROVE sum(f) <=> Sums(f, carried[a], S)
  BY DEF Sums
<1>3. CarriedBy(a, n) = (CHOOSE f : sum(f))[S]
  BY DEF CarriedBy, MapThenSumSet, MapThenFoldSet, Pick
<1>4. sum(CHOOSE f : sum(f))
  BY <1>1, <1>2, SumsExist
<1> QED
  BY <1>1, <1>2, <1>3, <1>4, SumsGiveTotal

\* By the last day everything has been carried.
LEMMA LastDayHasAll ==
  ASSUME AssetInv, NEW a \in Asset
  PROVE  /\ LastDay(LastMonth) \in Day
         /\ WornBy(a, LastDay(LastMonth)) = SumOver(Wear(a), depreciated[a])
         /\ disposal[a] # NotDisposed => disposal[a].day <= LastDay(LastMonth)
         /\ AssetTerms[a].acquired <= LastDay(LastMonth)
<1> DEFINE n == LastDay(LastMonth)
<1>1. LastMonth \in Nat /\ n \in Day /\ n = 2 * LastMonth + 1
  BY RegisterAssumption DEF Day, LastDay
<1>2. \A d \in Day : d <= n
  BY <1>1 DEF Day
<1>3. {m \in depreciated[a] : LastDay(m) <= n} = depreciated[a]
  BY <1>1, MonthsOfAsset DEF LastDay
<1>4. disposal[a] # NotDisposed => disposal[a].day \in Day
  BY DEF AssetInv, Books, RowOf, Sold
<1> HIDE DEF n
<1>5. WornBy(a, n) = SumOver(Wear(a), depreciated[a])
  BY <1>3 DEF WornBy
<1> QED
  BY <1>1, <1>2, <1>4, <1>5, AssetShape DEF n

LEMMA BookValueFits == AssetInv => BookValueIsCarried
<1> SUFFICES ASSUME AssetInv, NEW a \in Asset, a \in registered
             PROVE  CarriedBy(a, LastDay(LastMonth)) =
                        IF disposal[a] = NotDisposed THEN BookValue(a) ELSE -late[a]
  BY DEF BookValueIsCarried
<1> DEFINE n == LastDay(LastMonth)
           worn == SumOver(Wear(a), depreciated[a])
           cost == AssetTerms[a].cost
<1>1. n \in Day /\ CarriedBy(a, n) = SumOver(carried[a], 0..n)
  BY LastDayHasAll, CarriedIs
<1>2. SumOver(carried[a], 0..n) = BoughtBy(a, n) - WornBy(a, n) - GoneBy(a, n) /\ LateIsWorn(a) /\ RowOf(a)
  BY <1>1 DEF AssetInv, Books, CarriedIsWorn
<1>3. /\ BoughtBy(a, n) = cost /\ WornBy(a, n) = worn
      /\ GoneBy(a, n) = IF disposal[a] = NotDisposed THEN 0 ELSE disposal[a].value
  BY LastDayHasAll DEF BoughtBy, GoneBy
<1>4. cost \in Int /\ worn \in Int /\ BookValue(a) = cost - worn
  BY AssetShape, MonthsOfAsset, WearSums DEF BookValue
<1>5. CASE disposal[a] = NotDisposed
  BY <1>1, <1>2, <1>3, <1>4, <1>5
<1>6. CASE disposal[a] # NotDisposed
  <2>1. late[a] = disposal[a].value - cost + worn /\ disposal[a].value \in Int
    BY <1>2, <1>6 DEF LateIsWorn, RowOf, Sold
  <2>2. CarriedBy(a, n) = cost - worn - disposal[a].value
    BY <1>1, <1>2, <1>3, <1>6
  <2> HIDE DEF cost, worn, n
  <2>3. CarriedBy(a, n) = -late[a]
    BY <1>4, <2>1, <2>2
  <2> QED
    BY <1>6, <2>3 DEF n
<1> QED
  BY <1>5, <1>6

\* What the ledger holds of an asset at the end of a year is what the report says of it, or
\* nothing where the report leaves it out.
LEMMA YearEnd ==
  ASSUME AssetInv, NEW a \in Asset, a \in registered, NEW y \in 0..LastMonth,
         late[a] = 0, \A m \in depreciated[a] : OwnedIn(a, m),
         NEW n, n = LastDay(y), NEW owned \in BOOLEAN,
         owned <=> AssetTerms[a].acquired <= n /\ (disposal[a] = NotDisposed \/ disposal[a].day > n)
  PROVE  /\ n \in Day /\ SumOver(carried[a], 0..n) \in Int
         /\ owned => SumOver(carried[a], 0..n) =
                         AssetTerms[a].cost - Depreciated(a, {m \in depreciated[a] : m <= y})
         /\ ~ owned => SumOver(carried[a], 0..n) = 0
<1> DEFINE S == {m \in depreciated[a] : m <= y}
           T == {m \in depreciated[a] : LastDay(m) <= n}
           first == AssetTerms[a].acquired
           cost == AssetTerms[a].cost
<1>1. LastMonth \in Nat /\ y \in Int /\ 0 <= y /\ y <= LastMonth /\ n = 2 * y + 1
  BY RegisterAssumption DEF LastDay
<1>2. n \in Day
  BY <1>1 DEF Day
<1>3. \A m \in depreciated[a] : m \in Int /\ m >= MonthOfDay(first)
  BY MonthsOfAsset
<1>4. S = T
  <2>1. \A m \in depreciated[a] : m <= y <=> LastDay(m) <= n
    BY <1>1, <1>3 DEF LastDay
  <2> QED
    BY <2>1
<1>5. IsFiniteSet(S) /\ \A m \in S : m \in Int
  BY MonthsOfAsset, FS_Subset
<1>6. WornBy(a, n) = SumOver(Wear(a), S) /\ Depreciated(a, S) = SumOver(Wear(a), S) /\ SumOver(Wear(a), S) \in Int
  BY <1>4, <1>5, WearSums DEF WornBy
<1>7. /\ SumOver(carried[a], 0..n) = BoughtBy(a, n) - WornBy(a, n) - GoneBy(a, n)
      /\ SumOver(carried[a], 0..n) \in Int
      /\ LateIsWorn(a) /\ RowOf(a)
  BY <1>2, BooksAreNumbers DEF AssetInv, Books, CarriedIsWorn
<1>8. cost \in Int /\ first \in Nat
  BY AssetShape
<1>9. CASE owned
  <2>1. BoughtBy(a, n) = cost
    BY <1>9 DEF BoughtBy
  <2>2. GoneBy(a, n) = 0
    <3>0. Day \subseteq Int
      BY DEF Day
    <3>1. disposal[a] # NotDisposed => disposal[a].day \in Int
      BY <1>7, <3>0 DEF RowOf, Sold
    <3>2. disposal[a] # NotDisposed => ~ (disposal[a].day <= n)
      BY <1>1, <1>9, <3>1
    <3> QED
      BY <3>2 DEF GoneBy
  <2> HIDE DEF S, T, cost
  <2>3. SumOver(carried[a], 0..n) = cost - Depreciated(a, S)
    BY <1>6, <1>7, <1>8, <2>1, <2>2
  <2> QED
    BY <1>2, <1>7, <1>9, <2>3 DEF S, cost
<1>10. CASE ~ owned
  <2>1. SumOver(carried[a], 0..n) = 0
    <3>1. CASE ~ (first <= n)
      <4>1. BoughtBy(a, n) = 0
        BY <3>1 DEF BoughtBy
      <4>2. GoneBy(a, n) = 0
        <5>0. Day \subseteq Int
          BY DEF Day
        <5>1. disposal[a] # NotDisposed => disposal[a].day \in Int /\ first <= disposal[a].day
          BY <1>7, <5>0 DEF RowOf, Sold
        <5>2. disposal[a] # NotDisposed => ~ (disposal[a].day <= n)
          BY <1>1, <1>8, <3>1, <5>1
        <5> QED
          BY <5>2 DEF GoneBy
      <4>3. \A m \in depreciated[a] : ~ (m <= y)
        <5>1. first \div 2 > y
          BY <1>1, <1>8, <3>1
        <5>2. \A m \in depreciated[a] : m \in Int /\ m >= first \div 2
          BY <1>3 DEF MonthOfDay
        <5>3. first \div 2 \in Int
          BY <1>8
        <5> DEFINE f == first \div 2
        <5> HIDE DEF f
        <5> QED
          BY <1>1, <5>1, <5>2, <5>3 DEF f
      <4>4. SumOver(Wear(a), S) = 0
        BY <4>3, EmptyTotal
      <4> QED
        BY <1>6, <1>7, <4>1, <4>2, <4>4
    <3>2. CASE first <= n
      <4>1. disposal[a] # NotDisposed /\ ~ (disposal[a].day > n)
        BY <1>10, <3>2
      <4>2. disposal[a].day \in Day /\ disposal[a].value \in Int
        BY <1>7, <4>1 DEF RowOf, Sold
      <4>3. disposal[a].day \in Nat /\ disposal[a].day <= n
        BY <1>1, <4>1, <4>2 DEF Day
      <4>4. \A m \in depreciated[a] : m <= y
        <5>1. \A m \in depreciated[a] : m < MonthOfDay(disposal[a].day)
          BY <4>1 DEF OwnedIn
        <5>2. disposal[a].day \div 2 <= y /\ disposal[a].day \div 2 \in Int
          BY <1>1, <4>3
        <5> DEFINE f == disposal[a].day \div 2
        <5>3. \A m \in depreciated[a] : m < f
          BY <5>1 DEF MonthOfDay
        <5> HIDE DEF f
        <5> QED
          BY <1>1, <1>3, <5>2, <5>3 DEF f
      <4>5. S = depreciated[a]
        BY <4>4
      <4>6. 0 = disposal[a].value - cost + SumOver(Wear(a), S)
        BY <1>7, <4>1, <4>5 DEF LateIsWorn
      <4>7. BoughtBy(a, n) = cost /\ GoneBy(a, n) = disposal[a].value
        BY <3>2, <4>1, <4>3 DEF BoughtBy, GoneBy
      <4> HIDE DEF S, T, cost
      <4> QED
        BY <1>6, <1>7, <1>8, <4>2, <4>6, <4>7
    <3> QED
      BY <3>1, <3>2
  <2> QED
    BY <1>2, <1>7, <1>10, <2>1
<1> QED
  BY <1>9, <1>10

LEMMA ReportFits == AssetInv => ReportIsLedger
<1> SUFFICES ASSUME AssetInv,
                    \A a \in Asset : late[a] = 0 /\ \A m \in depreciated[a] : OwnedIn(a, m),
                    NEW y \in 0..LastMonth
             PROVE  ReportedValue(y) =
                        MapThenSumSet(LAMBDA a : CarriedBy(a, LastDay(y)), Asset \cap registered)
  BY DEF ReportIsLedger
<1> DEFINE n == LastDay(y)
           A == Asset \cap registered
           owned(a) == AssetTerms[a].acquired <= n /\ (disposal[a] = NotDisposed \/ disposal[a].day > n)
           B == {a \in A : /\ AssetTerms[a].acquired <= n
                           /\ disposal[a] = NotDisposed \/ disposal[a].day > n}
           shown(a) == AssetTerms[a].cost - Depreciated(a, {m \in depreciated[a] : m <= y})
           g == [a \in Asset |-> SumOver(carried[a], 0..n)]
<1>1. ASSUME NEW a \in A
      PROVE  /\ n \in Day /\ g[a] \in Int
             /\ a \in B => g[a] = shown(a)
             /\ a \notin B => g[a] = 0
  <2>1. owned(a) \in BOOLEAN /\ (owned(a) <=> a \in B)
    OBVIOUS
  <2>2. PICK o \in BOOLEAN : o <=> owned(a)
    BY <2>1
  <2> QED
    BY <2>1, <2>2, YearEnd
<1>2. ASSUME NEW a \in A PROVE CarriedBy(a, n) = g[a]
  BY <1>1, CarriedIs
<1> HIDE DEF n
<1>3. IsFiniteSet(A) /\ B \in SUBSET A /\ IsFiniteSet(B)
  BY RegisterAssumption, FS_Subset
<1>4. MapThenSumSet(LAMBDA a : CarriedBy(a, n), A) = SumOver(g, A)
  <2> DEFINE sum(f) == f = [s \in SUBSET A |-> IF s = {} THEN 0 ELSE CarriedBy(Pick(s), n) + f[s \ {Pick(s)}]]
  <2>1. ASSUME NEW s \in SUBSET A, s # {} PROVE g[Pick(s)] = CarriedBy(Pick(s), n)
    <3>1. Pick(s) \in A
      BY <2>1, PickIn
    <3> QED
      BY <1>2, <3>1
  <2> HIDE DEF g, A
  <2>2. ASSUME NEW f PROVE sum(f) <=> Sums(f, g, A)
    BY <2>1 DEF Sums
  <2>3. MapThenSumSet(LAMBDA a : CarriedBy(a, n), A) = (CHOOSE f : sum(f))[A]
    BY DEF MapThenSumSet, MapThenFoldSet, Pick
  <2>4. sum(CHOOSE f : sum(f))
    BY <1>3, <2>2, SumsExist
  <2> QED
    BY <1>3, <2>2, <2>3, <2>4, SumsGiveTotal
<1>5. MapThenSumSet(LAMBDA a : shown(a), B) = SumOver(g, B)
  <2> DEFINE sum(f) == f = [s \in SUBSET B |-> IF s = {} THEN 0 ELSE shown(Pick(s)) + f[s \ {Pick(s)}]]
  <2>1. ASSUME NEW s \in SUBSET B, s # {} PROVE g[Pick(s)] = shown(Pick(s))
    <3>1. Pick(s) \in B
      BY <2>1, PickIn
    <3> HIDE DEF g, shown, B
    <3> QED
      BY <1>1, <1>3, <3>1
  <2> HIDE DEF g, shown, B
  <2>2. ASSUME NEW f PROVE sum(f) <=> Sums(f, g, B)
    BY <2>1 DEF Sums
  <2>3. MapThenSumSet(LAMBDA a : shown(a), B) = (CHOOSE f : sum(f))[B]
    BY DEF MapThenSumSet, MapThenFoldSet, Pick
  <2>4. sum(CHOOSE f : sum(f))
    BY <1>3, <2>2, SumsExist
  <2> QED
    BY <1>3, <2>2, <2>3, <2>4, SumsGiveTotal
<1>6. ReportedValue(y) = MapThenSumSet(LAMBDA a : shown(a), B)
  BY DEF ReportedValue, n
<1>7. SumOver(g, A) = SumOver(g, B)
  <2>1. Numbers(g, B) /\ \A a \in A \ B : g[a] = 0
    <3> HIDE DEF g, B, A, shown
    <3> QED
      BY <1>1, <1>3 DEF Numbers
  <2> HIDE DEF g, A, B
  <2> QED
    BY <1>3, <2>1, TotalOfPart
<1> HIDE DEF g, A, B, shown
<1>8. ReportedValue(y) = MapThenSumSet(LAMBDA a : CarriedBy(a, n), A)
  BY <1>4, <1>5, <1>6, <1>7
<1> QED
  BY <1>8 DEF n, A

-----------------------------------------------------------------------------
(***************************************************************************)
(* The tax balance.  Year for year it takes in what was bought and gives   *)
(* off a part of itself.                                                   *)
(***************************************************************************)
\* A part of an amount, rounded, is between nothing and the amount.
LEMMA RoundedPart ==
  ASSUME NEW x \in Nat, NEW d \in Nat \ {0}, NEW rate \in 0..d
  PROVE  RoundDiv(x * rate, d) \in 0..x
<1> DEFINE n == x * rate
           h == d \div 2
<1>1. n \in Nat /\ x * d \in Nat /\ n <= x * d
  <2>1. d - rate \in Nat /\ rate \in Nat
    OBVIOUS
  <2>2. x * (d - rate) \in Nat /\ x * rate \in Nat
    BY <2>1
  <2>3. x * d = x * rate + x * (d - rate)
    BY <2>1
  <2> DEFINE u == x * (d - rate)
             w == x * d
  <2> HIDE DEF n, u, w
  <2> QED
    BY <2>2, <2>3 DEF n, u, w
<1>2. h \in Nat /\ h < d
  OBVIOUS
<1>3. (n + h) \div d <= x /\ (n + h) \div d \in Nat
  <2> DEFINE q == (n + h) \div d
  <2> HIDE DEF n, h
  <2>1. q \in Nat /\ q * d <= n + h
    BY <1>1, <1>2
  <2> HIDE DEF q
  <2>2. ASSUME q >= x + 1 PROVE FALSE
    <3>1. q * d >= (x + 1) * d
      BY <2>1, <2>2
    <3>2. (x + 1) * d = x * d + d
      OBVIOUS
    <3> QED
      BY <1>1, <1>2, <2>1, <3>1, <3>2
  <2> QED
    BY <2>1, <2>2 DEF q
<1> DEFINE q == (n + h) \div d
<1>4. Magnitude(n) = n /\ (Signum(n) = 0 \/ Signum(n) = 1)
  BY <1>1 DEF Magnitude, Signum
<1>5. RoundDiv(n, d) = Signum(n) * ((Magnitude(n) + h) \div d)
  BY DEF RoundDiv
<1>6. RoundDiv(n, d) = Signum(n) * q
  BY <1>4, <1>5
<1> HIDE DEF q, n
<1>7. q \in Nat /\ q <= x
  BY <1>3 DEF q
<1>8. RoundDiv(n, d) \in 0..x
  BY <1>4, <1>6, <1>7
<1> QED
  BY <1>8 DEF n

Costs == [a \in Asset |-> AssetTerms[a].cost]
Bought(group, years) == {a \in InGroup(group) : MonthOfDay(AssetTerms[a].acquired) \in years}

LEMMA GroupShape ==
  ASSUME NEW group
  PROVE  /\ InGroup(group) \subseteq Asset /\ IsFiniteSet(InGroup(group))
         /\ \A a \in Asset : Costs[a] = AssetTerms[a].cost /\ Costs[a] \in Nat
<1>1. InGroup(group) \subseteq Asset
  BY DEF InGroup
<1>2. IsFiniteSet(InGroup(group))
  BY <1>1, RegisterAssumption, FS_Subset
<1>3. ASSUME NEW a \in Asset PROVE Costs[a] = AssetTerms[a].cost /\ Costs[a] \in Nat
  <2>1. /\ AssetTerms[a].cost \in Int /\ AssetTerms[a].residual \in Int /\ AssetTerms[a].life \in Int
        /\ AssetTerms[a].life > 0 /\ 0 <= AssetTerms[a].residual
        /\ AssetTerms[a].cost - AssetTerms[a].residual >= AssetTerms[a].life
    BY RegisterAssumption, AssetsAssumption
  <2> QED
    BY <2>1 DEF Costs
<1> QED
  BY <1>1, <1>2, <1>3

\* Sums of costs, as the definitions take them.
LEMMA CostSums ==
  ASSUME NEW S, IsFiniteSet(S), S \subseteq Asset
  PROVE  /\ MapThenSumSet(LAMBDA a : AssetTerms[a].cost, S) = SumOver(Costs, S)
         /\ SumOver(Costs, S) \in Nat
<1> DEFINE sum(f) == f = [s \in SUBSET S |-> IF s = {} THEN 0 ELSE AssetTerms[Pick(s)].cost + f[s \ {Pick(s)}]]
<1>1. ASSUME NEW s \in SUBSET S, s # {} PROVE Costs[Pick(s)] = AssetTerms[Pick(s)].cost
  <2>1. Pick(s) \in Asset
    BY <1>1, PickIn
  <2> QED
    BY <2>1 DEF Costs
<1>2. ASSUME NEW f PROVE sum(f) <=> Sums(f, Costs, S)
  BY <1>1 DEF Sums
<1>3. MapThenSumSet(LAMBDA a : AssetTerms[a].cost, S) = (CHOOSE f : sum(f))[S]
  BY DEF MapThenSumSet, MapThenFoldSet, Pick
<1>4. sum(CHOOSE f : sum(f))
  BY <1>2, SumsExist
<1>5. \A a \in S : Costs[a] \in Nat
  BY GroupShape
<1>6. SumOver(Costs, S) \in Nat
  BY <1>5, TotalHolds
<1> QED
  BY <1>2, <1>3, <1>4, <1>6, SumsGiveTotal

Report == [basis : Int, depreciation : Int, closing : Int, failed : BOOLEAN]

\* With nothing sold, a year's closing balance is at most the opening one and what was bought.
LEMMA TaxYearBound ==
  ASSUME NEW group \in DOMAIN GroupRate, NEW before \in Report, NEW year \in Int, NEW new \in Nat,
         Additions(group, year) = new, Proceeds(group, year) = 0
  PROVE  /\ NextTaxYear(group, before, year) \in Report
         /\ before.closing \in Nat =>
               /\ NextTaxYear(group, before, year).closing \in Nat
               /\ NextTaxYear(group, before, year).closing <= before.closing + new
<1> DEFINE next == NextTaxYear(group, before, year)
           rate == RateOn(GroupRate[group], year)
           basis == before.closing + new - 0
           part == IF basis > 0 THEN RoundDiv(basis * rate, BasisPoints) ELSE 0
<1>0. before.closing \in Int /\ basis \in Int
  BY DEF Report
<1>1. CASE before.failed \/ (before.closing = 0 /\ new = 0)
  <2>1. next = before
    BY <1>1 DEF NextTaxYear
  <2> QED
    BY <1>0, <2>1
<1>2. CASE ~ (before.failed \/ (before.closing = 0 /\ new = 0)) /\ ~ HasRate(GroupRate[group], year)
  <2>1. next = [NoReport EXCEPT !.failed = TRUE]
    BY <1>2 DEF NextTaxYear
  <2>2. next = [basis |-> 0, depreciation |-> 0, closing |-> 0, failed |-> TRUE]
    BY <2>1 DEF NoReport
  <2> HIDE DEF next
  <2>3. next \in Report /\ next.closing = 0
    BY <2>2 DEF Report
  <2> QED
    BY <1>0, <2>3 DEF next
<1>3. CASE ~ (before.failed \/ (before.closing = 0 /\ new = 0)) /\ HasRate(GroupRate[group], year)
  <2>1. rate \in 0..BasisPoints
    <3>1. \E r \in InForce(GroupRate[group], year) : TRUE
      BY <1>3 DEF HasRate
    <3>2. (CHOOSE r \in InForce(GroupRate[group], year) : TRUE) \in InForce(GroupRate[group], year)
      BY <3>1
    <3>3. InForce(GroupRate[group], year) \subseteq GroupRate[group]
      BY DEF InForce
    <3> QED
      BY <3>2, <3>3, RegisterAssumption DEF RateOn
  <2>2. BasisPoints \in Nat \ {0}
    BY DEF BasisPoints
  <2>3. next = [basis |-> basis, depreciation |-> part, closing |-> basis - part, failed |-> FALSE]
    BY <1>3 DEF NextTaxYear, TaxDepreciationYear
  <2> HIDE DEF next, rate, basis
  <2>4. basis > 0 => part \in 0..basis
    <3> SUFFICES ASSUME basis > 0 PROVE part \in 0..basis
      OBVIOUS
    <3>1. basis \in Nat
      BY <1>0
    <3> QED
      BY <2>1, <2>2, <3>1, RoundedPart
  <2>5. part \in Int
    BY <1>0, <2>4
  <2> HIDE DEF part
  <2>6. next \in Report /\ next.closing = basis - part
    BY <1>0, <2>3, <2>5 DEF Report
  <2>7. before.closing \in Nat => basis - part \in Nat /\ basis - part <= before.closing + new
    <3> SUFFICES ASSUME before.closing \in Nat PROVE basis - part \in Nat /\ basis - part <= before.closing + new
      OBVIOUS
    <3>1. basis = before.closing + new /\ basis \in Nat
      BY DEF basis
    <3>2. part \in 0..basis
      BY <2>4, <3>1 DEF part
    <3> QED
      BY <3>1, <3>2
  <2> QED
    BY <2>6, <2>7 DEF next
<1> QED
  BY <1>1, <1>2, <1>3

\* What a year adds.
LEMMA YearAdds ==
  ASSUME NEW group, NEW y \in Nat
  PROVE  /\ Additions(group, y) \in Nat
         /\ SumOver(Costs, Bought(group, 0..y)) =
                SumOver(Costs, Bought(group, 0..(y - 1))) + Additions(group, y)
<1> DEFINE B == Bought(group, 0..(y - 1))
           N == Bought(group, {y})
<1>1. /\ B \subseteq InGroup(group) /\ N \subseteq InGroup(group)
      /\ IsFiniteSet(B) /\ IsFiniteSet(N) /\ B \subseteq Asset /\ N \subseteq Asset
  <2>1. B \subseteq InGroup(group) /\ N \subseteq InGroup(group)
    BY DEF Bought
  <2> HIDE DEF B, N
  <2> QED
    BY <2>1, GroupShape, FS_Subset
<1>2. Additions(group, y) = SumOver(Costs, N)
  <2>1. {a \in InGroup(group) : MonthOfDay(AssetTerms[a].acquired) = y} = N
    BY DEF Bought
  <2>2. Additions(group, y) = MapThenSumSet(LAMBDA a : AssetTerms[a].cost, N)
    BY <2>1 DEF Additions
  <2> QED
    BY <1>1, <2>2, CostSums
<1>3. Bought(group, 0..y) = B \cup N /\ B \cap N = {}
  <2>1. 0..y = (0..(y - 1)) \cup {y} /\ y \notin 0..(y - 1)
    OBVIOUS
  <2> QED
    BY <2>1 DEF Bought
<1> HIDE DEF B, N
<1>4. Numbers(Costs, B \cup N) /\ SumOver(Costs, N) \in Nat
  <2>1. \A a \in Asset : Costs[a] \in Nat
    BY GroupShape
  <2>2. Numbers(Costs, B \cup N)
    BY <1>1, <2>1 DEF Numbers
  <2> QED
    BY <1>1, <2>2, CostSums
<1>5. SumOver(Costs, B \cup N) = SumOver(Costs, B) + SumOver(Costs, N)
  BY <1>1, <1>3, <1>4, TotalUnion
<1> QED
  BY <1>2, <1>3, <1>4, <1>5 DEF B

LEMMA BoughtWithin ==
  ASSUME NEW group, NEW years
  PROVE  /\ SumOver(Costs, Bought(group, years)) \in Nat
         /\ SumOver(Costs, Bought(group, years)) <= SumOver(Costs, InGroup(group))
<1>1. Bought(group, years) \in SUBSET InGroup(group)
  BY DEF Bought
<1>2. \A a \in InGroup(group) : Costs[a] \in Nat
  BY GroupShape
<1> QED
  BY <1>1, <1>2, GroupShape, TotalGrows

\* With nothing sold, what is carried from year to year is within what has been bought.
TaxWithin(group, k, j) ==
    /\ k[1..j] \in Report /\ k[1..j].closing \in Nat
    /\ k[1..j].closing <= SumOver(Costs, Bought(group, 0..(j - 1)))

LEMMA TaxCarried ==
  ASSUME NEW group \in DOMAIN GroupRate, \A y \in Nat : Proceeds(group, y) = 0,
         NEW n \in Nat, NEW k, k[{}] = NoReport,
         \A j \in 1..n : k[1..j] = NextTaxYear(group, k[1..(j - 1)], j - 1)
  PROVE  TaxWithin(group, k, n)
<1> DEFINE Broken == {j \in 0..n : ~ TaxWithin(group, k, j)}
<1>1. ASSUME Broken # {} PROVE FALSE
  <2>1. IsFiniteSet(Broken) /\ WholeNumbers(Broken)
    <3>1. IsFiniteSet(0..n) /\ Broken \subseteq 0..n /\ 0..n \subseteq Int
      BY FS_Interval
    <3> HIDE DEF Broken
    <3> QED
      BY <1>1, <3>1, FS_Subset DEF WholeNumbers
  <2>2. \E j \in Broken : \A i \in Broken : j <= i
    <3> HIDE DEF Broken
    <3> QED
      BY <2>1, HasLeast
  <2>3. PICK j \in Broken : \A i \in Broken : j <= i
    BY <2>2
  <2>4. j \in 0..n /\ ~ TaxWithin(group, k, j)
    OBVIOUS
  <2>5. CASE j = 0
    <3>1. 1..0 = {} /\ k[1..0] = NoReport
      OBVIOUS
    <3>2. NoReport \in Report /\ NoReport.closing = 0
      BY DEF NoReport, Report
    <3>3. SumOver(Costs, Bought(group, 0..(0 - 1))) \in Nat
      BY BoughtWithin
    <3>4. TaxWithin(group, k, 0)
      BY <3>1, <3>2, <3>3 DEF TaxWithin
    <3> QED
      BY <2>4, <2>5, <3>4
  <2>6. CASE j # 0
    <3> DEFINE i == j - 1
    <3>1. i \in 0..n /\ j \in 1..n /\ i \in Nat /\ ~ (j <= i)
      BY <2>4, <2>6
    <3>2. TaxWithin(group, k, i)
      BY <2>3, <3>1
    <3>3. k[1..j] = NextTaxYear(group, k[1..i], i)
      BY <3>1
    <3>4. Additions(group, i) \in Nat /\ Proceeds(group, i) = 0
      BY <3>1, YearAdds
    <3>5. SumOver(Costs, Bought(group, 0..i)) = SumOver(Costs, Bought(group, 0..(i - 1))) + Additions(group, i)
      BY <3>1, YearAdds
    <3>6. SumOver(Costs, Bought(group, 0..(i - 1))) \in Nat
      BY BoughtWithin
    <3> HIDE DEF i
    <3>7. /\ k[1..j] \in Report /\ k[1..j].closing \in Nat
          /\ k[1..j].closing <= k[1..i].closing + Additions(group, i)
      BY <3>1, <3>2, <3>3, <3>4, TaxYearBound DEF TaxWithin
    <3>8. k[1..j].closing <= SumOver(Costs, Bought(group, 0..i))
      BY <3>2, <3>4, <3>5, <3>6, <3>7 DEF TaxWithin
    <3>9. TaxWithin(group, k, j)
      BY <3>7, <3>8 DEF TaxWithin, i
    <3> QED
      BY <2>4, <3>9
  <2> QED
    BY <2>5, <2>6
<1>2. n \in 0..n
  OBVIOUS
<1> QED
  BY <1>1, <1>2

\* The balance of a year is the last of a chain of years.
LEMMA TaxChain ==
  ASSUME NEW group \in DOMAIN GroupRate, \A y \in Nat : Proceeds(group, y) = 0, NEW year \in Nat
  PROVE  \E k : /\ TaxBalance(group, year) = k[1..(year + 1)] /\ k[{}] = NoReport
                /\ \A j \in 1..(year + 1) : k[1..j] = NextTaxYear(group, k[1..(j - 1)], j - 1)
<1> DEFINE n == year + 1
           S == 1..n
           seq == [y \in S |-> y]
           chain(k) == k = [s \in SUBSET S |-> IF s = {} THEN NoReport
                                               ELSE NextTaxYear(group, k[s \ {Max(s)}], seq[Max(s)] - 1)]
           step == [i \in S |-> [v \in Report |-> NextTaxYear(group, v, i - 1)]]
<1>1. n \in Nat \ {0} /\ Positions(S)
  BY GreatestUpTo
<1>2. \A i \in S : \A v \in Report : step[i][v] \in Report
  <2> SUFFICES ASSUME NEW i \in S, NEW v \in Report PROVE NextTaxYear(group, v, i - 1) \in Report
    OBVIOUS
  <2>1. i - 1 \in Nat
    BY <1>1
  <2>2. Additions(group, i - 1) \in Nat /\ Proceeds(group, i - 1) = 0 /\ i - 1 \in Int
    BY <2>1, YearAdds
  <2> QED
    BY <2>2, TaxYearBound
<1>3. NoReport \in Report
  BY DEF NoReport, Report
<1>4. PICK f : Folding(f, step, NoReport, S)
  <2> HIDE DEF step, S
  <2> QED
    BY <1>1, FoldsExist
<1>5. ASSUME NEW s \in SUBSET S PROVE f[s] \in Report
  <2> HIDE DEF step, S
  <2> QED
    BY <1>1, <1>2, <1>3, <1>4, <1>5, FoldStays
<1>6. ASSUME NEW s \in SUBSET S, s # {}
      PROVE  step[Greatest(s)][f[s \ {Greatest(s)}]] = NextTaxYear(group, f[s \ {Max(s)}], seq[Max(s)] - 1)
  <2>1. Greatest(s) = Max(s)
    BY DEF Greatest, Max
  <2>2. Greatest(s) \in s
    <3> HIDE DEF S
    <3> QED
      BY <1>1, <1>6, GreatestIn
  <2>3. f[s \ {Greatest(s)}] \in Report
    BY <1>5
  <2> QED
    BY <2>1, <2>2, <2>3
<1>7. chain(f)
  <2> HIDE DEF step, seq, S
  <2> QED
    BY <1>4, <1>6 DEF Folding
<1> DEFINE k == CHOOSE c : chain(c)
<1>8. chain(k)
  <2> HIDE DEF chain
  <2> QED
    BY <1>7
<1>9. TaxBalance(group, year) = k[S]
  <2>1. DOMAIN seq = S
    OBVIOUS
  <2>2. TaxBalance(group, year) = FoldLeft(LAMBDA before, y : NextTaxYear(group, before, y - 1), NoReport, seq)
    BY DEF TaxBalance
  <2> HIDE DEF seq, S
  <2> QED
    BY <2>1, <2>2 DEF FoldLeft, MapThenFoldSet
<1> DEFINE body(s) == IF s = {} THEN NoReport ELSE NextTaxYear(group, k[s \ {Max(s)}], seq[Max(s)] - 1)
<1>10. k = [s \in SUBSET S |-> body(s)]
  <2> HIDE DEF k, seq, S
  <2> QED
    BY <1>8
<1>11. ASSUME NEW s \in SUBSET S PROVE k[s] = body(s)
  <2> HIDE DEF k, body, S
  <2> QED
    BY <1>10
<1>12. k[{}] = NoReport
  BY <1>11
<1>13. ASSUME NEW j \in S PROVE k[1..j] = NextTaxYear(group, k[1..(j - 1)], j - 1)
  <2>1. j \in Nat \ {0} /\ 1..j \in SUBSET S
    BY <1>1
  <2>2. 1..j # {} /\ Max(1..j) = j /\ (1..j) \ {j} = 1..(j - 1)
    BY <2>1, GreatestUpTo DEF Greatest, Max
  <2>3. k[1..j] = body(1..j)
    BY <1>11, <2>1
  <2>4. seq[j] = j
    OBVIOUS
  <2> HIDE DEF k, seq, S
  <2> QED
    BY <2>2, <2>3, <2>4
<1> HIDE DEF k
<1> QED
  BY <1>9, <1>12, <1>13

\* Nothing sold, nothing taken off.
LEMMA NoProceeds == MapThenSumSet(LAMBDA a : disposal[a].proceeds, {}) = 0
<1> DEFINE sum(f) == f = [s \in SUBSET {} |-> IF s = {} THEN 0 ELSE disposal[Pick(s)].proceeds + f[s \ {Pick(s)}]]
           g == [a \in {} |-> 0]
<1>1. ASSUME NEW f PROVE sum(f) <=> Sums(f, g, {})
  BY DEF Sums
<1>2. MapThenSumSet(LAMBDA a : disposal[a].proceeds, {}) = (CHOOSE f : sum(f))[{}]
  BY DEF MapThenSumSet, MapThenFoldSet, Pick
<1>3. sum(CHOOSE f : sum(f))
  BY <1>1, SumsExist, FS_EmptySet
<1>4. SumOver(g, {}) = 0
  BY EmptyTotal
<1> QED
  BY <1>1, <1>2, <1>3, <1>4, SumsGiveTotal, FS_EmptySet

LEMMA TaxFits == TaxBalanceWithinCost
<1> SUFFICES ASSUME \A a \in Asset : disposal[a] = NotDisposed,
                    NEW group \in DOMAIN GroupRate, NEW y \in 0..LastMonth
             PROVE  TaxBalance(group, y).closing \in
                        0..MapThenSumSet(LAMBDA a : AssetTerms[a].cost, InGroup(group))
  BY DEF TaxBalanceWithinCost
<1>1. y \in Nat /\ y + 1 \in Nat
  BY RegisterAssumption
<1>2. ASSUME NEW year \in Nat PROVE Proceeds(group, year) = 0
  <2>1. {a \in InGroup(group) : disposal[a] # NotDisposed /\ MonthOfDay(disposal[a].day) = year} = {}
    BY GroupShape
  <2> QED
    BY <2>1, NoProceeds DEF Proceeds
<1>3. PICK k : /\ TaxBalance(group, y) = k[1..(y + 1)] /\ k[{}] = NoReport
               /\ \A j \in 1..(y + 1) : k[1..j] = NextTaxYear(group, k[1..(j - 1)], j - 1)
  BY <1>1, <1>2, TaxChain
<1>4. TaxWithin(group, k, y + 1)
  BY <1>1, <1>2, <1>3, TaxCarried
<1>5. /\ MapThenSumSet(LAMBDA a : AssetTerms[a].cost, InGroup(group)) = SumOver(Costs, InGroup(group))
      /\ SumOver(Costs, InGroup(group)) \in Nat
  BY GroupShape, CostSums
<1>6. /\ SumOver(Costs, Bought(group, 0..(y + 1 - 1))) \in Nat
      /\ SumOver(Costs, Bought(group, 0..(y + 1 - 1))) <= SumOver(Costs, InGroup(group))
  BY BoughtWithin
<1>7. /\ TaxBalance(group, y).closing \in Nat
      /\ TaxBalance(group, y).closing <= SumOver(Costs, Bought(group, 0..(y + 1 - 1)))
  BY <1>3, <1>4 DEF TaxWithin
<1> QED
  BY <1>5, <1>6, <1>7

\* Each øre of a plan and of an asset is posted once, whoever posts it, whenever a month
\* fails and whatever is sold: for any number of plans, assets and runners that overlap.
THEOREM AssetsMovedOnce == SpecAssets => []MovedOnce
<1>1. InitAssets => AccrualInv /\ AssetInv
  BY AccrualInit, AssetInit
<1>2. (AccrualInv /\ AssetInv) /\ [NextAssets]_varsAssets => (AccrualInv /\ AssetInv)'
  BY AccrualNext, AssetNext
<1>3. AccrualInv /\ AssetInv => MovedOnce
  BY PlansFit, BookValueFits, ReportFits, TaxFits DEF MovedOnce
<1> QED
  BY <1>1, <1>2, <1>3, PTL DEF SpecAssets

-----------------------------------------------------------------------------
(***************************************************************************)
(* Shares.  A holding is a sum over days of sums over types, and the book  *)
(* a sum of holdings.  It is taken over every shareholder: one that is not *)
(* registered holds nothing.                                               *)
(***************************************************************************)
Moves == [BookDay -> [EventType -> Nat]]
Unmoved == [d \in BookDay |-> [t \in EventType |-> 0]]

TypeNets(m, c) == [t \in EventType |-> Delta(t, m[c][t])]
DayNets(m) == [c \in BookDay |-> SumOver(TypeNets(m, c), EventType)]
Held(m, d) == SumOver(DayNets(m), 1..d)

Holdings(ms, d) == [h \in Shareholder |-> Held(ms[h], d)]
BookOf(ms, d) == SumOver(Holdings(ms, d), Shareholder)

\* What a movement of day day does to a holding on day d.
CountsFor(type, day, quantity, d) == IF day <= d THEN Delta(type, quantity) ELSE 0

LEMMA DeltaTyped == ASSUME NEW t, NEW n \in Int PROVE Delta(t, n) \in Int
  BY DEF Delta

LEMMA DaysAreFinite ==
  ASSUME NEW d \in Int
  PROVE  /\ IsFiniteSet(1..d)
         /\ d <= LastDayOfBook => 1..d \subseteq BookDay
         /\ BookDay \subseteq Int
  BY SharesAssumption, FS_Interval DEF BookDay

LEMMA NetsTyped ==
  ASSUME NEW m \in Moves
  PROVE  /\ \A c \in BookDay : Numbers(TypeNets(m, c), EventType)
         /\ Numbers(DayNets(m), BookDay)
<1>1. ASSUME NEW c \in BookDay PROVE Numbers(TypeNets(m, c), EventType)
  BY DeltaTyped DEF Numbers, TypeNets, Moves
<1>2. ASSUME NEW c \in BookDay PROVE DayNets(m)[c] \in Int
  BY <1>1, TotalIsNumber, SharesAssumption DEF DayNets
<1> QED
  BY <1>1, <1>2 DEF Numbers

LEMMA HeldTyped ==
  ASSUME NEW m \in Moves, NEW d \in Int, d <= LastDayOfBook
  PROVE  Numbers(DayNets(m), 1..d) /\ Held(m, d) \in Int
  BY NetsTyped, DaysAreFinite, TotalIsNumber DEF Numbers, Held

\* The sums of module Shares are sums of module FiniteSums.
LEMMA MovedOnSummed ==
  ASSUME NEW m \in Moves, NEW c \in BookDay
  PROVE  MovedOn(m, c) = DayNets(m)[c]
<1> DEFINE S == EventType
           term(t) == Delta(t, m[c][t])
           sum(f) == f = [s \in SUBSET S |-> IF s = {} THEN 0 ELSE term(Pick(s)) + f[s \ {Pick(s)}]]
<1>1. ASSUME NEW s \in SUBSET S, s # {} PROVE TypeNets(m, c)[Pick(s)] = term(Pick(s))
  BY <1>1, PickIn DEF TypeNets
<1>2. ASSUME NEW f PROVE sum(f) <=> Sums(f, TypeNets(m, c), S)
  BY <1>1 DEF Sums
<1>3. MovedOn(m, c) = (CHOOSE f : sum(f))[S]
  BY DEF MovedOn, MapThenSumSet, MapThenFoldSet, Pick
<1>4. IsFiniteSet(S)
  BY SharesAssumption
<1>5. sum(CHOOSE f : sum(f))
  BY <1>2, <1>4, SumsExist
<1> QED
  BY <1>2, <1>3, <1>4, <1>5, SumsGiveTotal DEF DayNets

LEMMA NetSummed ==
  ASSUME NEW m \in Moves, NEW S, S \subseteq BookDay
  PROVE  MapThenSumSet(LAMBDA c : MovedOn(m, c), S) = SumOver(DayNets(m), S)
<1> DEFINE sum(f) == f = [s \in SUBSET S |-> IF s = {} THEN 0 ELSE MovedOn(m, Pick(s)) + f[s \ {Pick(s)}]]
<1>1. ASSUME NEW s \in SUBSET S, s # {} PROVE DayNets(m)[Pick(s)] = MovedOn(m, Pick(s))
  BY <1>1, PickIn, MovedOnSummed
<1>2. ASSUME NEW f PROVE sum(f) <=> Sums(f, DayNets(m), S)
  BY <1>1 DEF Sums
<1>3. MapThenSumSet(LAMBDA c : MovedOn(m, c), S) = (CHOOSE f : sum(f))[S]
  BY DEF MapThenSumSet, MapThenFoldSet, Pick
<1>4. IsFiniteSet(S)
  <2>1. IsFiniteSet(BookDay)
    BY SharesAssumption, FS_Interval DEF BookDay
  <2> QED
    BY <2>1, FS_Subset
<1>5. sum(CHOOSE f : sum(f))
  BY <1>2, <1>4, SumsExist
<1> QED
  BY <1>2, <1>3, <1>4, <1>5, SumsGiveTotal

LEMMA HoldingSummed ==
  ASSUME NEW m \in Moves, NEW d \in BookDay
  PROVE  Holding(m, d) = Held(m, d)
<1>1. 1..d \subseteq BookDay
  BY SharesAssumption DEF BookDay
<1> QED
  BY <1>1, NetSummed DEF Holding, Held

-----------------------------------------------------------------------------
\* One movement more.
LEMMA AddedMoves ==
  ASSUME NEW ms \in [Shareholder -> Moves], NEW h \in Shareholder, NEW type \in EventType,
         NEW day \in BookDay, NEW quantity \in Nat
  PROVE  /\ Added(ms, h, type, day, quantity) \in [Shareholder -> Moves]
         /\ \A g \in Shareholder \ {h} : Added(ms, h, type, day, quantity)[g] = ms[g]
         /\ \A d \in BookDay : Held(Added(ms, h, type, day, quantity)[h], d)
                                  = Held(ms[h], d) + CountsFor(type, day, quantity, d)
<1> DEFINE a == Added(ms, h, type, day, quantity)
           old == ms[h]
           new == a[h]
<1>1. old \in Moves /\ new = [old EXCEPT ![day][type] = @ + quantity]
  BY DEF Added
<1>2. /\ new \in Moves
      /\ new[day][type] = old[day][type] + quantity
      /\ \A c \in BookDay, t \in EventType : (c # day \/ t # type) => new[c][t] = old[c][t]
      /\ \A c \in BookDay : c # day => new[c] = old[c]
  BY <1>1 DEF Moves
<1>3. a \in [Shareholder -> Moves] /\ \A g \in Shareholder \ {h} : a[g] = ms[g]
  BY <1>2 DEF Added
<1> HIDE DEF a, new
<1>4. ASSUME NEW c \in BookDay, c # day PROVE DayNets(new)[c] = DayNets(old)[c]
  BY <1>2, <1>4 DEF DayNets, TypeNets
<1>5. DayNets(new)[day] = DayNets(old)[day] + Delta(type, quantity)
  <2>1. TypeNets(new, day)[type] = TypeNets(old, day)[type] + Delta(type, quantity)
    <3>1. old[day][type] \in Int
      BY <1>1 DEF Moves
    <3> QED
      BY <1>2, <3>1 DEF TypeNets, Delta
  <2>2. \A t \in EventType \ {type} : TypeNets(new, day)[t] = TypeNets(old, day)[t]
    BY <1>2 DEF TypeNets
  <2>3. Numbers(TypeNets(old, day), EventType) /\ Numbers(TypeNets(new, day), EventType)
    BY <1>1, <1>2, NetsTyped
  <2>4. SumOver(TypeNets(new, day), EventType)
           = SumOver(TypeNets(old, day), EventType) - TypeNets(old, day)[type] + TypeNets(new, day)[type]
    <3>1. TypeNets(new, day)[type] \in Int
      BY <2>3 DEF Numbers
    <3> QED
      BY <2>2, <2>3, <3>1, SharesAssumption, TotalMoves
  <2>5. SumOver(TypeNets(old, day), EventType) \in Int /\ TypeNets(old, day)[type] \in Int
    BY <2>3, SharesAssumption, TotalIsNumber DEF Numbers
  <2>6. Delta(type, quantity) \in Int
    BY DeltaTyped
  <2> QED
    BY <2>1, <2>4, <2>5, <2>6 DEF DayNets
<1>6. ASSUME NEW d \in BookDay PROVE Held(new, d) = Held(old, d) + CountsFor(type, day, quantity, d)
  <2>1. /\ d \in Int /\ d <= LastDayOfBook /\ IsFiniteSet(1..d) /\ 1..d \subseteq BookDay
        /\ day \in Int /\ 1 <= day
    BY SharesAssumption, DaysAreFinite DEF BookDay
  <2>2. Numbers(DayNets(old), 1..d) /\ Numbers(DayNets(new), 1..d)
    BY <1>1, <1>2, <2>1, HeldTyped
  <2>3. CASE day <= d
    <3>1. day \in 1..d
      BY <2>1, <2>3
    <3>2. DayNets(new)[day] \in Int /\ DayNets(old)[day] \in Int /\ Delta(type, quantity) \in Int
      BY <2>2, <3>1, DeltaTyped DEF Numbers
    <3>3. \A c \in (1..d) \ {day} : DayNets(new)[c] = DayNets(old)[c]
      BY <1>4, <2>1
    <3>4. Held(new, d) = Held(old, d) - DayNets(old)[day] + DayNets(new)[day]
      BY <2>1, <2>2, <3>1, <3>2, <3>3, TotalMoves DEF Held
    <3>5. Held(old, d) \in Int
      BY <1>1, <2>1, HeldTyped
    <3> QED
      BY <1>5, <2>3, <3>2, <3>4, <3>5 DEF CountsFor
  <2>4. CASE ~ (day <= d)
    <3>1. Alike(DayNets(new), DayNets(old), 1..d)
      BY <1>4, <2>1, <2>4 DEF Alike
    <3>2. Held(new, d) = Held(old, d) /\ Held(old, d) \in Int
      BY <1>1, <2>1, <3>1, TotalSame, HeldTyped DEF Held
    <3> QED
      BY <2>4, <3>2 DEF CountsFor
  <2> QED
    BY <2>3, <2>4
<1> QED
  BY <1>3, <1>6 DEF a, new

LEMMA CountsTyped ==
  ASSUME NEW type, NEW day, NEW quantity \in Int, NEW d
  PROVE  CountsFor(type, day, quantity, d) \in Int
  BY DeltaTyped DEF CountsFor

LEMMA BookTyped ==
  ASSUME NEW ms \in [Shareholder -> Moves], NEW d \in BookDay
  PROVE  Numbers(Holdings(ms, d), Shareholder) /\ BookOf(ms, d) \in Int
<1>1. d \in Int /\ d <= LastDayOfBook
  BY SharesAssumption DEF BookDay
<1>2. \A h \in Shareholder : Held(ms[h], d) \in Int
  BY <1>1, HeldTyped
<1> QED
  BY <1>2, SharesAssumption, TotalIsNumber DEF Numbers, Holdings, BookOf

LEMMA BookMoves ==
  ASSUME NEW ms \in [Shareholder -> Moves], NEW h \in Shareholder, NEW type \in EventType,
         NEW day \in BookDay, NEW quantity \in Nat, NEW d \in BookDay
  PROVE  BookOf(Added(ms, h, type, day, quantity), d) = BookOf(ms, d) + CountsFor(type, day, quantity, d)
<1> DEFINE a == Added(ms, h, type, day, quantity)
<1>1. /\ a \in [Shareholder -> Moves]
      /\ \A g \in Shareholder \ {h} : a[g] = ms[g]
      /\ Held(a[h], d) = Held(ms[h], d) + CountsFor(type, day, quantity, d)
  BY AddedMoves
<1> HIDE DEF a
<1>2. /\ Numbers(Holdings(ms, d), Shareholder) /\ Numbers(Holdings(a, d), Shareholder)
      /\ BookOf(ms, d) \in Int /\ CountsFor(type, day, quantity, d) \in Int
  BY <1>1, BookTyped, CountsTyped
<1>3. /\ Holdings(a, d)[h] = Holdings(ms, d)[h] + CountsFor(type, day, quantity, d)
      /\ Holdings(ms, d)[h] \in Int /\ Holdings(a, d)[h] \in Int
      /\ \A g \in Shareholder \ {h} : Holdings(a, d)[g] = Holdings(ms, d)[g]
  BY <1>1, <1>2 DEF Holdings, Numbers
<1>4. BookOf(a, d) = BookOf(ms, d) - Holdings(ms, d)[h] + Holdings(a, d)[h]
  BY <1>2, <1>3, SharesAssumption, TotalMoves DEF BookOf
<1> QED
  BY <1>2, <1>3, <1>4 DEF a

-----------------------------------------------------------------------------
(***************************************************************************)
(* The invariant: what is registered, what the transactions under way hold *)
(* and have checked, and the book against what came from outside and what  *)
(* is owed.  It is the owner's row, locked, that keeps the shares that a   *)
(* disposal of the owner has counted.                                      *)
(***************************************************************************)
Movement == [kind : {"event"}, owner : Shareholder, type : EventType, day : BookDay,
             quantity : Nat, other : Shareholder \cup {NoOther}, otherType : EventType]
Resolution == [kind : {"dividend"}, id : DividendId, day : BookDay, perShare : Nat, total : Int]

Writings == {NotWriting} \cup Movement \cup Resolution

Opposite(w) == w.other # NoOther => IsAcquisition(w.otherType) # IsAcquisition(w.type)

BookTypes ==
    /\ holders \subseteq Shareholder
    /\ moved \in [Shareholder -> Moves]
    /\ outside \in [BookDay -> Int]
    /\ dividend \in [DividendId -> {NoDividend} \cup [day : BookDay, perShare : Nat]]
    /\ payable \in Int
    /\ \A h \in Shareholder \ holders : moved[h] = Unmoved

WritingTypes ==
    /\ writing \in [Person -> Writings]
    /\ \A p \in Person : writing[p].kind = "event" => Opposite(writing[p])

RowsLocked ==
    \A p, q \in Person : (p # q /\ writing[p].kind = "event" /\ writing[q].kind = "event") =>
        writing[q].owner # writing[p].owner /\ writing[q].other # writing[p].owner

RowsRegistered ==
    \A p \in Person : writing[p].kind = "event" =>
        writing[p].owner \in holders /\ writing[p].other \in holders \cup {NoOther}

SharesCounted ==
    \A p \in Person : writing[p].kind = "event" =>
        \/ IsAcquisition(writing[p].type)
        \/ Held(moved[writing[p].owner], writing[p].day) >= writing[p].quantity

FromOutside(d) == SumOver(outside, 1..d)

BookIsFromOutside == \A d \in BookDay : BookOf(moved, d) = FromOutside(d)

NoneNegative == \A h \in Shareholder \ stretched, d \in BookDay : Held(moved[h], d) >= 0

Owed(ms, ds) ==
    [i \in DividendId |-> IF ds[i] = NoDividend THEN 0 ELSE BookOf(ms, ds[i].day) * ds[i].perShare]

PayableIsOwed == restated = {} => payable = SumOver(Owed(moved, dividend), DividendId)

ShareInv ==
    /\ BookTypes
    /\ WritingTypes
    /\ RowsLocked
    /\ RowsRegistered
    /\ SharesCounted
    /\ BookIsFromOutside
    /\ NoneNegative
    /\ PayableIsOwed

LEMMA NothingMoved ==
  ASSUME NEW t, NEW n \in Int, 0 <= n, n <= 0, NEW x \in Int, x = 0
  PROVE  x = Delta(t, n)
<1>1. x = -n
  OBVIOUS
<1> QED
  BY <1>1 DEF Delta

LEMMA NothingHeld ==
  /\ Unmoved \in Moves
  /\ \A d \in BookDay : Held(Unmoved, d) = 0
<1>1. Unmoved \in Moves
  BY DEF Unmoved, Moves
<1>2. ASSUME NEW c \in BookDay PROVE DayNets(Unmoved)[c] = 0
  <2>1. \A t \in EventType : TypeNets(Unmoved, c)[t] = 0
    <3>1. ASSUME NEW t \in EventType PROVE 0 = Delta(t, 0)
      BY NothingMoved
    <3> QED
      BY <3>1 DEF TypeNets, Unmoved
  <2> QED
    BY <2>1, TotalOfNothing, SharesAssumption DEF DayNets
<1>3. ASSUME NEW d \in BookDay PROVE Held(Unmoved, d) = 0
  <2>1. IsFiniteSet(1..d) /\ 1..d \subseteq BookDay
    BY SharesAssumption, DaysAreFinite DEF BookDay
  <2> QED
    BY <1>2, <2>1, TotalOfNothing DEF Held
<1> QED
  BY <1>1, <1>3

LEMMA InitShare == InitShares => ShareInv
<1> SUFFICES ASSUME InitShares PROVE ShareInv
  OBVIOUS
<1> USE DEF InitShares
<1>1. moved = [h \in Shareholder |-> Unmoved]
  BY DEF Unmoved
<1>2. BookTypes
  BY <1>1, NothingHeld DEF BookTypes
<1>3. WritingTypes /\ RowsLocked /\ RowsRegistered /\ SharesCounted
  BY DEF WritingTypes, RowsLocked, RowsRegistered, SharesCounted, NotWriting, Writings
<1>4. BookIsFromOutside
  <2> SUFFICES ASSUME NEW d \in BookDay PROVE BookOf(moved, d) = FromOutside(d)
    BY DEF BookIsFromOutside
  <2>1. \A h \in Shareholder : Holdings(moved, d)[h] = 0
    BY <1>1, NothingHeld DEF Holdings
  <2>2. BookOf(moved, d) = 0
    BY <2>1, SharesAssumption, TotalOfNothing DEF BookOf
  <2>3. IsFiniteSet(1..d) /\ 1..d \subseteq BookDay
    BY SharesAssumption, DaysAreFinite DEF BookDay
  <2>4. \A c \in 1..d : outside[c] = 0
    BY <2>3
  <2> QED
    BY <2>2, <2>3, <2>4, TotalOfNothing DEF FromOutside
<1>5. NoneNegative
  BY <1>1, NothingHeld DEF NoneNegative
<1>6. PayableIsOwed
  <2>1. \A i \in DividendId : Owed(moved, dividend)[i] = 0
    BY DEF Owed
  <2> QED
    BY <2>1, SharesAssumption, TotalOfNothing DEF PayableIsOwed
<1> QED
  BY <1>2, <1>3, <1>4, <1>5, <1>6 DEF ShareInv

\* What a step leaves alone, when it writes neither the book nor a resolution.
LEMMA BookRests ==
  ASSUME ShareInv,
         UNCHANGED << moved, outside, dividend, payable, stretched, restated >>
  PROVE  BookIsFromOutside' /\ NoneNegative' /\ PayableIsOwed'
<1>1. \A d \in BookDay : FromOutside(d)' = FromOutside(d)
  BY DEF FromOutside
<1> QED
  BY <1>1 DEF ShareInv, BookIsFromOutside, NoneNegative, PayableIsOwed

LEMMA RegisterStep ==
  ASSUME ShareInv, NEW p \in Person, NEW h \in Shareholder, CreateShareholder(p, h)
  PROVE  ShareInv'
<1> USE DEF CreateShareholder
<1>1. BookIsFromOutside' /\ NoneNegative' /\ PayableIsOwed'
  BY BookRests
<1>2. BookTypes'
  BY DEF ShareInv, BookTypes
<1>3. WritingTypes' /\ RowsLocked' /\ RowsRegistered' /\ SharesCounted'
  BY DEF ShareInv, WritingTypes, RowsLocked, RowsRegistered, SharesCounted
<1> QED
  BY <1>1, <1>2, <1>3 DEF ShareInv

\* A transaction that ends, committed or not, holds nothing more.
LEMMA WritingEnds ==
  ASSUME ShareInv, NEW p \in Person, writing' = [writing EXCEPT ![p] = NotWriting]
  PROVE  /\ WritingTypes' /\ RowsLocked'
         /\ \A q \in Person : writing'[q].kind = "event" => (q # p /\ writing'[q] = writing[q])
<1>1. /\ writing \in [Person -> Writings]
      /\ writing'[p] = NotWriting /\ NotWriting.kind # "event" /\ NotWriting \in Writings
      /\ \A q \in Person \ {p} : writing'[q] = writing[q]
  BY DEF ShareInv, WritingTypes, NotWriting, Writings
<1>2. WritingTypes'
  BY <1>1 DEF ShareInv, WritingTypes
<1>3. RowsLocked'
  BY <1>1 DEF ShareInv, RowsLocked
<1> QED
  BY <1>1, <1>2, <1>3

LEMMA AbortStep ==
  ASSUME ShareInv, NEW p \in Person, AbortWriting(p)
  PROVE  ShareInv'
<1> USE DEF AbortWriting
<1>1. BookIsFromOutside' /\ NoneNegative' /\ PayableIsOwed'
  BY BookRests
<1>2. BookTypes'
  BY DEF ShareInv, BookTypes
<1>3. /\ WritingTypes' /\ RowsLocked'
      /\ \A q \in Person : writing'[q].kind = "event" => (q # p /\ writing'[q] = writing[q])
  BY WritingEnds
<1>4. SharesCounted' /\ RowsRegistered'
  BY <1>3 DEF ShareInv, SharesCounted, RowsRegistered
<1> QED
  BY <1>1, <1>2, <1>3, <1>4 DEF ShareInv

LEMMA RecordStep ==
  ASSUME ShareInv, NEW p \in Person, NEW owner \in Shareholder, NEW type \in EventType,
         NEW d \in BookDay, NEW n \in Quantity, NEW other \in Shareholder \cup {NoOther},
         NEW otherType \in EventType, RecordEvent(p, owner, type, d, n, other, otherType)
  PROVE  ShareInv'
<1> DEFINE w == [kind |-> "event", owner |-> owner, type |-> type, day |-> d, quantity |-> n,
                 other |-> other, otherType |-> otherType]
<1>1. BookIsFromOutside' /\ NoneNegative' /\ PayableIsOwed'
  BY BookRests DEF RecordEvent
<1>2. BookTypes'
  BY DEF ShareInv, BookTypes, RecordEvent
<1>3. /\ writing \in [Person -> Writings]
      /\ writing' = [writing EXCEPT ![p] = w]
      /\ writing'[p] = w
      /\ \A q \in Person \ {p} : writing'[q] = writing[q]
  BY DEF ShareInv, WritingTypes, RecordEvent
<1>4. w \in Writings /\ Opposite(w)
  BY SharesAssumption DEF Movement, Opposite, RecordEvent, Writings
<1>5. WritingTypes'
  <2> HIDE DEF w
  <2> QED
    BY <1>3, <1>4 DEF ShareInv, WritingTypes
<1>6. NotHeld(p, owner, other)
  BY DEF RecordEvent
<1>7. RowsLocked'
  <2> SUFFICES ASSUME NEW q \in Person, NEW r \in Person, q # r,
                      writing'[q].kind = "event", writing'[r].kind = "event"
               PROVE  writing'[r].owner # writing'[q].owner /\ writing'[r].other # writing'[q].owner
    BY DEF RowsLocked
  <2>1. CASE q # p /\ r # p
    BY <1>3, <2>1 DEF ShareInv, RowsLocked
  <2>2. CASE q = p
    BY <1>3, <1>6, <2>2 DEF NotHeld
  <2>3. CASE r = p
    BY <1>3, <1>6, <2>3 DEF NotHeld
  <2> QED
    BY <2>1, <2>2, <2>3
<1>8. SharesCounted'
  <2>1. IsAcquisition(type) \/ Held(moved[owner], d) >= n
    <3>1. moved[owner] \in Moves
      BY DEF ShareInv, BookTypes
    <3> QED
      BY <3>1, HoldingSummed DEF RecordEvent, HasShares
  <2>2. moved' = moved
    BY DEF RecordEvent
  <2> QED
    BY <1>3, <2>1, <2>2 DEF ShareInv, SharesCounted
<1>9. RowsRegistered'
  <2>1. owner \in holders /\ other \in holders \cup {NoOther} /\ holders' = holders
    BY DEF RecordEvent
  <2> QED
    BY <1>3, <2>1 DEF ShareInv, RowsRegistered
<1> QED
  BY <1>1, <1>2, <1>5, <1>7, <1>8, <1>9 DEF ShareInv

-----------------------------------------------------------------------------
\* What a transaction that commits does to each holding, and to the book.
Change(w, h, d) ==
    (IF h = w.owner THEN CountsFor(w.type, w.day, w.quantity, d) ELSE 0)
      + (IF w.other # NoOther /\ h = w.other THEN CountsFor(w.otherType, w.day, w.quantity, d) ELSE 0)

Came(w, d) == IF w.other # NoOther THEN 0 ELSE CountsFor(w.type, w.day, w.quantity, d)

LEMMA SidesMove ==
  ASSUME BookTypes, NEW w \in Movement, Opposite(w), w.owner \in Shareholder
  PROVE  /\ BothSides(w) \in [Shareholder -> Moves]
         /\ \A h \in Shareholder, d \in BookDay :
               Held(BothSides(w)[h], d) = Held(moved[h], d) + Change(w, h, d)
         /\ \A h \in Shareholder : (h # w.owner /\ h # w.other) => BothSides(w)[h] = moved[h]
         /\ \A d \in BookDay : BookOf(BothSides(w), d) = BookOf(moved, d) + Came(w, d)
<1> DEFINE one == Added(moved, w.owner, w.type, w.day, w.quantity)
           two == Added(one, w.other, w.otherType, w.day, w.quantity)
           cnt(d) == CountsFor(w.type, w.day, w.quantity, d)
           cnt2(d) == CountsFor(w.otherType, w.day, w.quantity, d)
<1>1. /\ w.owner \in Shareholder /\ w.type \in EventType /\ w.day \in BookDay /\ w.quantity \in Nat
      /\ w.otherType \in EventType /\ w.other \in Shareholder \cup {NoOther}
      /\ moved \in [Shareholder -> Moves]
  BY DEF Movement, BookTypes
<1>2. /\ one \in [Shareholder -> Moves]
      /\ \A g \in Shareholder \ {w.owner} : one[g] = moved[g]
      /\ \A d \in BookDay : Held(one[w.owner], d) = Held(moved[w.owner], d) + cnt(d)
  BY <1>1, AddedMoves
<1>3. \A d \in BookDay : BookOf(one, d) = BookOf(moved, d) + cnt(d)
  BY <1>1, BookMoves
<1>4. \A d \in BookDay : cnt(d) \in Int /\ cnt2(d) \in Int /\ BookOf(moved, d) \in Int
  BY <1>1, CountsTyped, BookTyped
<1>5. \A h \in Shareholder, d \in BookDay : Held(moved[h], d) \in Int
  <2>1. \A d \in BookDay : d \in Int /\ d <= LastDayOfBook
    BY SharesAssumption DEF BookDay
  <2> QED
    BY <1>1, <2>1, HeldTyped
<1>6. CASE w.other = NoOther
  <2>1. BothSides(w) = one
    BY <1>6 DEF BothSides
  <2>2. \A h \in Shareholder, d \in BookDay :
           Change(w, h, d) = (IF h = w.owner THEN cnt(d) ELSE 0) /\ Came(w, d) = cnt(d)
    BY <1>4, <1>6 DEF Change, Came
  <2> HIDE DEF one, cnt
  <2> QED
    BY <1>2, <1>3, <1>4, <1>5, <2>1, <2>2
<1>7. CASE w.other # NoOther
  <2>1. BothSides(w) = two
    BY <1>7 DEF BothSides
  <2>2. \A h \in Shareholder, d \in BookDay :
           /\ Change(w, h, d) = (IF h = w.owner THEN cnt(d) ELSE 0) + (IF h = w.other THEN cnt2(d) ELSE 0)
           /\ Came(w, d) = 0
    BY <1>7 DEF Change, Came
  <2>3. \A d \in BookDay : cnt(d) + cnt2(d) = 0
    <3> SUFFICES ASSUME NEW d \in BookDay PROVE cnt(d) + cnt2(d) = 0
      OBVIOUS
    <3>1. IsAcquisition(w.otherType) # IsAcquisition(w.type)
      BY <1>7 DEF Opposite
    <3>2. IsAcquisition(w.type) \in BOOLEAN /\ IsAcquisition(w.otherType) \in BOOLEAN
      BY DEF IsAcquisition
    <3> QED
      BY <1>1, <3>1, <3>2 DEF CountsFor, Delta
  <2> HIDE DEF one, cnt2
  <2>4. w.other \in Shareholder
    BY <1>1, <1>7
  <2>5. /\ two \in [Shareholder -> Moves]
        /\ \A g \in Shareholder \ {w.other} : two[g] = one[g]
        /\ \A d \in BookDay : Held(two[w.other], d) = Held(one[w.other], d) + cnt2(d)
    BY <1>1, <1>2, <2>4, AddedMoves DEF cnt2
  <2>6. \A d \in BookDay : BookOf(two, d) = BookOf(one, d) + cnt2(d)
    BY <1>1, <1>2, <2>4, BookMoves DEF cnt2
  <2> HIDE DEF two, cnt
  <2>7. \A d \in BookDay : BookOf(two, d) = BookOf(moved, d)
    BY <1>3, <1>4, <2>3, <2>6
  <2>8. ASSUME NEW h \in Shareholder, NEW d \in BookDay
        PROVE  Held(two[h], d) = Held(moved[h], d) + Change(w, h, d)
    <3>1. CASE h = w.owner /\ h = w.other
      BY <1>2, <1>4, <1>5, <2>2, <2>5, <3>1
    <3>2. CASE h = w.owner /\ h # w.other
      BY <1>2, <1>4, <1>5, <2>2, <2>5, <3>2
    <3>3. CASE h # w.owner /\ h = w.other
      BY <1>2, <1>4, <1>5, <2>2, <2>5, <3>3
    <3>4. CASE h # w.owner /\ h # w.other
      BY <1>2, <1>4, <1>5, <2>2, <2>5, <3>4
    <3> QED
      BY <3>1, <3>2, <3>3, <3>4
  <2>9. \A h \in Shareholder : (h # w.owner /\ h # w.other) => two[h] = moved[h]
    BY <1>2, <2>5
  <2>10. \A d \in BookDay : BookOf(moved, d) + 0 = BookOf(moved, d)
    BY <1>4
  <2> QED
    BY <2>1, <2>2, <2>5, <2>7, <2>8, <2>9, <2>10
<1> QED
  BY <1>6, <1>7

\* A holding that no day after another takes from does not get smaller after it.
LEMMA HeldGrows ==
  ASSUME NEW m \in Moves, NEW c \in BookDay, NEW d \in BookDay, c <= d,
         \A b \in BookDay : b > c => MovedOn(m, b) >= 0
  PROVE  Held(m, c) <= Held(m, d)
<1>1. /\ c \in Int /\ d \in Int /\ 1 <= c /\ c <= LastDayOfBook /\ d <= LastDayOfBook
      /\ 1..d = (1..c) \cup ((c + 1)..d) /\ (1..c) \cap ((c + 1)..d) = {}
      /\ 1..d \subseteq BookDay
      /\ IsFiniteSet(1..c) /\ IsFiniteSet((c + 1)..d)
  <2>1. c \in Int /\ d \in Int /\ 1 <= c /\ c <= LastDayOfBook /\ d <= LastDayOfBook
    BY SharesAssumption DEF BookDay
  <2>2. 1..d = (1..c) \cup ((c + 1)..d) /\ (1..c) \cap ((c + 1)..d) = {}
    BY <2>1
  <2>3. IsFiniteSet(1..c) /\ IsFiniteSet((c + 1)..d)
    BY <2>1, FS_Interval
  <2> QED
    BY <2>1, <2>2, <2>3, DaysAreFinite
<1>2. Numbers(DayNets(m), 1..d) /\ Held(m, c) \in Int
  BY <1>1, HeldTyped
<1>3. Held(m, d) = Held(m, c) + SumOver(DayNets(m), (c + 1)..d)
  BY <1>1, <1>2, TotalUnion DEF Held
<1>4. ASSUME NEW b \in (c + 1)..d PROVE DayNets(m)[b] \in Nat
  <2>1. b \in BookDay /\ b > c /\ b \in 1..d
    BY <1>1
  <2>2. DayNets(m)[b] >= 0
    BY <2>1, MovedOnSummed
  <2> QED
    BY <1>2, <2>1, <2>2 DEF Numbers
<1>5. SumOver(DayNets(m), (c + 1)..d) \in Nat
  BY <1>1, <1>4, TotalGrows
<1> QED
  BY <1>2, <1>3, <1>5

LEMMA CommitStep ==
  ASSUME ShareInv, NEW p \in Person, CommitEvent(p)
  PROVE  ShareInv'
<1> DEFINE w == writing[p]
<1>1. /\ w.kind = "event" /\ moved' = BothSides(w)
      /\ outside' = IF w.other # NoOther THEN outside
                    ELSE [outside EXCEPT ![w.day] = @ + Delta(w.type, w.quantity)]
      /\ stretched' = stretched \cup
            {h \in Disposes(w) : \/ h = w.other /\ HoldingOf(h, w.day) < w.quantity
                                 \/ \E c \in BookDay : c > w.day /\ MovedOn(moved[h], c) < 0}
      /\ restated' = restated \cup
            {i \in DividendId : dividend[i] # NoDividend /\ w.day <= dividend[i].day}
      /\ writing' = [writing EXCEPT ![p] = NotWriting]
      /\ UNCHANGED << holders, dividend, payable >>
  BY DEF CommitEvent
<1>2. w \in Movement /\ Opposite(w)
  <2>1. w \in Writings /\ Opposite(w)
    BY <1>1 DEF ShareInv, WritingTypes
  <2> QED
    BY <1>1, <2>1 DEF Writings, NotWriting, Resolution
<1>3. /\ w.owner \in Shareholder /\ w.type \in EventType /\ w.day \in BookDay /\ w.quantity \in Nat
      /\ w.otherType \in EventType /\ w.other \in Shareholder \cup {NoOther}
  BY <1>2 DEF Movement
<1>4. BookTypes
  BY DEF ShareInv
<1>5. /\ moved' \in [Shareholder -> Moves]
      /\ \A h \in Shareholder, d \in BookDay : Held(moved'[h], d) = Held(moved[h], d) + Change(w, h, d)
      /\ \A h \in Shareholder : (h # w.owner /\ h # w.other) => moved'[h] = moved[h]
      /\ \A d \in BookDay : BookOf(moved', d) = BookOf(moved, d) + Came(w, d)
  BY <1>1, <1>2, <1>3, <1>4, SidesMove
<1>6. BookTypes'
  <2>1. outside' \in [BookDay -> Int]
    <3>1. Delta(w.type, w.quantity) \in Int
      BY <1>3, DeltaTyped
    <3> HIDE DEF w
    <3> QED
      BY <1>1, <1>3, <1>4, <3>1 DEF BookTypes
  <2>2. w.owner \in holders /\ w.other \in holders \cup {NoOther}
    BY <1>1 DEF ShareInv, RowsRegistered
  <2>3. \A h \in Shareholder \ holders : moved'[h] = Unmoved
    BY <1>4, <1>5, <2>2, SharesAssumption DEF BookTypes, NoOther
  <2> QED
    BY <1>1, <1>4, <1>5, <2>1, <2>3 DEF BookTypes
<1>7. /\ WritingTypes' /\ RowsLocked'
      /\ \A q \in Person : writing'[q].kind = "event" => (q # p /\ writing'[q] = writing[q])
  BY <1>1, WritingEnds
<1>8. SharesCounted'
  <2> SUFFICES ASSUME NEW q \in Person, writing'[q].kind = "event"
               PROVE  \/ IsAcquisition(writing[q].type)
                      \/ Held(moved'[writing[q].owner], writing[q].day) >= writing[q].quantity
    BY <1>7 DEF SharesCounted
  <2>1. q # p /\ writing[q].kind = "event"
    BY <1>7
  <2>2. w.owner # writing[q].owner /\ w.other # writing[q].owner
    BY <1>1, <2>1 DEF ShareInv, RowsLocked
  <2>3. writing[q].owner \in Shareholder
    BY <2>1 DEF ShareInv, WritingTypes, Writings, NotWriting, Movement, Resolution
  <2>4. moved'[writing[q].owner] = moved[writing[q].owner]
    BY <1>5, <2>2, <2>3
  <2> QED
    BY <2>1, <2>4 DEF ShareInv, SharesCounted
<1>9. RowsRegistered'
  BY <1>1, <1>7 DEF ShareInv, RowsRegistered
<1>10. BookIsFromOutside'
  <2> SUFFICES ASSUME NEW d \in BookDay PROVE BookOf(moved', d) = SumOver(outside', 1..d)
    BY DEF BookIsFromOutside, FromOutside
  <2>1. BookOf(moved, d) = SumOver(outside, 1..d) /\ BookOf(moved, d) \in Int
    BY <1>4, BookTyped DEF ShareInv, BookIsFromOutside, FromOutside, BookTypes
  <2>2. BookOf(moved', d) = BookOf(moved, d) + Came(w, d)
    BY <1>5
  <2>3. /\ IsFiniteSet(1..d) /\ 1..d \subseteq BookDay /\ d \in Int /\ w.day \in Int /\ 1 <= w.day
        /\ Delta(w.type, w.quantity) \in Int
    BY <1>3, SharesAssumption, DaysAreFinite, DeltaTyped DEF BookDay
  <2>4. Numbers(outside, 1..d) /\ outside \in [BookDay -> Int]
    BY <1>4, <2>3 DEF BookTypes, Numbers
  <2>5. CASE w.other # NoOther
    BY <1>1, <2>1, <2>2, <2>5 DEF Came
  <2>6. CASE w.other = NoOther /\ w.day <= d
    <3>1. Came(w, d) = Delta(w.type, w.quantity)
      BY <2>6 DEF Came, CountsFor
    <3>2. w.day \in 1..d
      BY <2>3, <2>6
    <3>3. /\ outside'[w.day] = outside[w.day] + Delta(w.type, w.quantity)
          /\ outside[w.day] \in Int
          /\ \A c \in (1..d) \ {w.day} : outside'[c] = outside[c]
      <4> HIDE DEF w
      <4> QED
        BY <1>1, <1>3, <2>3, <2>4, <2>6
    <3>4. outside'[w.day] \in Int
      BY <2>3, <3>3
    <3> HIDE DEF w
    <3>5. SumOver(outside', 1..d) = SumOver(outside, 1..d) - outside[w.day] + outside'[w.day]
      BY <2>3, <2>4, <3>2, <3>3, <3>4, TotalMoves
    <3> QED
      BY <2>1, <2>2, <2>3, <3>1, <3>3, <3>5
  <2>7. CASE w.other = NoOther /\ ~ (w.day <= d)
    <3>1. Came(w, d) = 0
      BY <2>7 DEF Came, CountsFor
    <3>2. Alike(outside', outside, 1..d)
      <4> HIDE DEF w
      <4> QED
        BY <1>1, <1>3, <2>3, <2>4, <2>7 DEF Alike
    <3>3. SumOver(outside', 1..d) = SumOver(outside, 1..d)
      BY <2>3, <3>2, TotalSame
    <3> QED
      BY <2>1, <2>2, <3>1, <3>3
  <2> QED
    BY <2>5, <2>6, <2>7
<1>11. NoneNegative'
  <2> SUFFICES ASSUME NEW h \in Shareholder, h \notin stretched', NEW d \in BookDay
               PROVE  Held(moved'[h], d) >= 0
    BY DEF NoneNegative
  <2>1. /\ Held(moved'[h], d) = Held(moved[h], d) + Change(w, h, d)
        /\ moved[h] \in Moves
    BY <1>4, <1>5 DEF BookTypes
  <2>2. /\ d \in Int /\ d <= LastDayOfBook /\ w.day \in Int /\ w.day <= LastDayOfBook
    BY <1>3, SharesAssumption DEF BookDay
  <2>3. /\ Held(moved[h], d) \in Int /\ Held(moved[h], w.day) \in Int
        /\ Held(moved[h], d) >= 0 /\ Held(moved[h], w.day) >= 0
    <3>1. h \notin stretched
      BY <1>1
    <3> QED
      BY <1>3, <2>1, <2>2, <3>1, HeldTyped DEF ShareInv, NoneNegative
  <2>4. /\ CountsFor(w.type, w.day, w.quantity, d) \in Int
        /\ CountsFor(w.otherType, w.day, w.quantity, d) \in Int
    BY <1>3, CountsTyped
  <2>5. ASSUME h \in Disposes(w), w.day <= d
        PROVE  Held(moved[h], w.day) <= Held(moved[h], d)
    <3>1. ASSUME NEW b \in BookDay, b > w.day PROVE MovedOn(moved[h], b) >= 0
      <4>1. ~ (MovedOn(moved[h], b) < 0)
        BY <1>1, <2>5, <3>1
      <4>2. MovedOn(moved[h], b) \in Int
        BY <2>1, MovedOnSummed, NetsTyped DEF Numbers
      <4> QED
        BY <4>1, <4>2
    <3> QED
      BY <1>3, <2>1, <2>5, <3>1, HeldGrows
  <2>6. CASE h = w.owner /\ h # w.other
    <3>1. Change(w, h, d) = CountsFor(w.type, w.day, w.quantity, d)
      BY <2>4, <2>6 DEF Change
    <3>2. CASE IsAcquisition(w.type) \/ ~ (w.day <= d)
      BY <1>3, <2>1, <2>3, <3>1, <3>2 DEF CountsFor, Delta
    <3>3. CASE ~ IsAcquisition(w.type) /\ w.day <= d
      <4>1. h \in Disposes(w)
        BY <2>6, <3>3 DEF Disposes
      <4>2. Held(moved[h], w.day) >= w.quantity
        BY <1>1, <2>6, <3>3 DEF ShareInv, SharesCounted
      <4> QED
        BY <1>3, <2>1, <2>3, <2>5, <3>1, <3>3, <4>1, <4>2 DEF CountsFor, Delta
    <3> QED
      BY <3>2, <3>3
  <2>7. CASE h # w.owner /\ h = w.other
    <3>1. w.other # NoOther /\ IsAcquisition(w.otherType) # IsAcquisition(w.type)
      BY <1>2, <2>7, SharesAssumption DEF Opposite, NoOther
    <3>2. Change(w, h, d) = CountsFor(w.otherType, w.day, w.quantity, d)
      BY <2>4, <2>7, <3>1 DEF Change
    <3>3. CASE IsAcquisition(w.otherType) \/ ~ (w.day <= d)
      BY <1>3, <2>1, <2>3, <3>2, <3>3 DEF CountsFor, Delta
    <3>4. CASE ~ IsAcquisition(w.otherType) /\ w.day <= d
      <4>1. IsAcquisition(w.type)
        BY <3>1, <3>4 DEF IsAcquisition
      <4>2. h \in Disposes(w)
        BY <2>7, <3>1, <3>4, <4>1 DEF Disposes
      <4>3. ~ (HoldingOf(h, w.day) < w.quantity)
        BY <1>1, <2>7, <4>2
      <4>4. HoldingOf(h, w.day) = Held(moved[h], w.day)
        BY <1>3, <2>1, HoldingSummed DEF HoldingOf
      <4> QED
        BY <1>3, <2>1, <2>3, <2>5, <3>2, <3>4, <4>2, <4>3, <4>4 DEF CountsFor, Delta
    <3> QED
      BY <3>3, <3>4
  <2>8. CASE h # w.owner /\ h # w.other
    BY <1>5, <2>3, <2>8
  <2>9. CASE h = w.owner /\ h = w.other
    <3>1. w.other # NoOther /\ IsAcquisition(w.otherType) # IsAcquisition(w.type)
      BY <1>2, <2>9, SharesAssumption DEF Opposite, NoOther
    <3>2. Came(w, d) = 0 /\ Change(w, h, d) = CountsFor(w.type, w.day, w.quantity, d)
                                                + CountsFor(w.otherType, w.day, w.quantity, d)
      BY <2>9, <3>1 DEF Came, Change
    <3>3. IsAcquisition(w.type) \in BOOLEAN /\ IsAcquisition(w.otherType) \in BOOLEAN
      BY DEF IsAcquisition
    <3>4. Change(w, h, d) = 0
      BY <1>3, <3>1, <3>2, <3>3 DEF CountsFor, Delta
    <3> QED
      BY <2>1, <2>3, <3>4
  <2> QED
    BY <2>6, <2>7, <2>8, <2>9
<1>12. PayableIsOwed'
  <2> SUFFICES ASSUME restated' = {} PROVE payable' = SumOver(Owed(moved, dividend)', DividendId)
    BY DEF PayableIsOwed
  <2>1. restated = {} /\ \A i \in DividendId : dividend[i] # NoDividend => ~ (w.day <= dividend[i].day)
    BY <1>1
  <2>2. ASSUME NEW i \in DividendId PROVE Owed(moved, dividend)'[i] = Owed(moved, dividend)[i]
    <3>1. CASE dividend[i] = NoDividend
      BY <1>1, <3>1 DEF Owed
    <3>2. CASE dividend[i] # NoDividend
      <4>1. dividend[i].day \in BookDay
        BY <1>4, <3>2 DEF BookTypes
      <4>2. Came(w, dividend[i].day) = 0
        BY <2>1, <3>2 DEF Came, CountsFor
      <4>3. BookOf(moved', dividend[i].day) = BookOf(moved, dividend[i].day)
        BY <1>4, <1>5, <4>1, <4>2, BookTyped DEF BookTypes
      <4> QED
        BY <1>1, <4>3 DEF Owed
    <3> QED
      BY <3>1, <3>2
  <2>3. Alike(Owed(moved, dividend)', Owed(moved, dividend), DividendId)
    BY <2>2 DEF Alike
  <2>4. SumOver(Owed(moved, dividend)', DividendId) = SumOver(Owed(moved, dividend), DividendId)
    BY <2>3, SharesAssumption, TotalSame
  <2> QED
    BY <1>1, <2>1, <2>4 DEF ShareInv, PayableIsOwed
<1> QED
  BY <1>6, <1>7, <1>8, <1>9, <1>10, <1>11, <1>12 DEF ShareInv

-----------------------------------------------------------------------------
\* The book of module Shares is the book over every shareholder.
LEMMA BookIsOfHolders ==
  ASSUME BookTypes, NEW d \in BookDay
  PROVE  SumOver(Holdings(moved, d), Shareholder) = SumOver(Holdings(moved, d), holders)
<1> DEFINE g == Holdings(moved, d)
<1>1. IsFiniteSet(Shareholder) /\ holders \in SUBSET Shareholder
  BY SharesAssumption DEF BookTypes
<1>2. Numbers(g, Shareholder)
  BY BookTyped DEF BookTypes
<1>3. Numbers(g, holders)
  BY <1>1, <1>2 DEF Numbers
<1>4. \A h \in Shareholder \ holders : g[h] = 0
  BY NothingHeld DEF BookTypes, Holdings
<1> HIDE DEF g
<1>5. SumOver(g, Shareholder) = SumOver(g, holders)
  BY <1>1, <1>3, <1>4, TotalOfPart
<1> QED
  BY <1>5 DEF g

LEMMA BookSummed ==
  ASSUME BookTypes, NEW d \in BookDay
  PROVE  BookTotal(d) = BookOf(moved, d) /\ BookOf(moved, d) \in Int
<1> DEFINE g == Holdings(moved, d)
           sum(f) == f = [s \in SUBSET holders |->
                            IF s = {} THEN 0 ELSE HoldingOf(Pick(s), d) + f[s \ {Pick(s)}]]
<1>1. ASSUME NEW h \in Shareholder PROVE g[h] = HoldingOf(h, d)
  BY HoldingSummed DEF BookTypes, Holdings, HoldingOf
<1>2. ASSUME NEW s \in SUBSET holders, s # {} PROVE g[Pick(s)] = HoldingOf(Pick(s), d)
  BY <1>1, <1>2, PickIn DEF BookTypes
<1> HIDE DEF g
<1>3. ASSUME NEW f PROVE sum(f) <=> Sums(f, g, holders)
  BY <1>2 DEF Sums
<1>4. BookTotal(d) = (CHOOSE f : sum(f))[holders]
  BY DEF BookTotal, MapThenSumSet, MapThenFoldSet, Pick
<1>5. IsFiniteSet(Shareholder) /\ IsFiniteSet(holders) /\ holders \in SUBSET Shareholder
  BY SharesAssumption, FS_Subset DEF BookTypes
<1>6. sum(CHOOSE f : sum(f))
  BY <1>3, <1>5, SumsExist
<1>7. BookTotal(d) = SumOver(g, holders)
  BY <1>3, <1>4, <1>5, <1>6, SumsGiveTotal
<1>8. SumOver(g, Shareholder) = SumOver(g, holders) /\ BookOf(moved, d) \in Int
  BY BookIsOfHolders, BookTyped DEF BookTypes, g
<1> QED
  BY <1>7, <1>8 DEF BookOf, g

LEMMA OutsideSummed ==
  ASSUME NEW d \in BookDay
  PROVE  MapThenSumSet(LAMBDA c : outside[c], 1..d) = FromOutside(d)
<1> DEFINE S == 1..d
           sum(f) == f = [s \in SUBSET S |-> IF s = {} THEN 0 ELSE outside[Pick(s)] + f[s \ {Pick(s)}]]
<1>1. IsFiniteSet(S)
  BY SharesAssumption, DaysAreFinite DEF BookDay
<1>2. MapThenSumSet(LAMBDA c : outside[c], S) = (CHOOSE f : sum(f))[S]
  BY DEF MapThenSumSet, MapThenFoldSet, Pick
<1>3. ASSUME NEW f PROVE sum(f) <=> Sums(f, outside, S)
  BY DEF Sums
<1>4. sum(CHOOSE f : sum(f))
  BY <1>1, <1>3, SumsExist
<1>5. (CHOOSE f : sum(f))[S] = SumOver(outside, S)
  BY <1>1, <1>3, <1>4, SumsGiveTotal
<1> QED
  BY <1>2, <1>5 DEF FromOutside

LEMMA OwedTyped ==
  ASSUME BookTypes
  PROVE  Numbers(Owed(moved, dividend), DividendId)
<1> SUFFICES ASSUME NEW i \in DividendId PROVE Owed(moved, dividend)[i] \in Int
  BY DEF Numbers
<1>1. CASE dividend[i] = NoDividend
  BY <1>1 DEF Owed
<1>2. CASE dividend[i] # NoDividend
  <2>1. dividend[i].day \in BookDay /\ dividend[i].perShare \in Nat
    BY <1>2 DEF BookTypes
  <2>2. BookOf(moved, dividend[i].day) \in Int
    BY <2>1, BookTyped DEF BookTypes
  <2> QED
    BY <1>2, <2>1, <2>2 DEF Owed
<1> QED
  BY <1>1, <1>2

LEMMA DividendsSummed ==
  ASSUME BookTypes, NEW S, S \subseteq Declared
  PROVE  MapThenSumSet(DividendTotal, S) = SumOver(Owed(moved, dividend), S)
<1> DEFINE g == Owed(moved, dividend)
           sum(f) == f = [s \in SUBSET S |-> IF s = {} THEN 0 ELSE DividendTotal(Pick(s)) + f[s \ {Pick(s)}]]
<1>1. ASSUME NEW i \in Declared PROVE g[i] = DividendTotal(i)
  <2>1. i \in DividendId /\ dividend[i] # NoDividend /\ dividend[i].day \in BookDay
    BY DEF BookTypes, Declared
  <2> QED
    BY <2>1, BookSummed DEF Owed, DividendTotal
<1> HIDE DEF g
<1>2. ASSUME NEW s \in SUBSET S, s # {} PROVE g[Pick(s)] = DividendTotal(Pick(s))
  BY <1>1, <1>2, PickIn
<1>3. ASSUME NEW f PROVE sum(f) <=> Sums(f, g, S)
  BY <1>2 DEF Sums
<1>4. MapThenSumSet(DividendTotal, S) = (CHOOSE f : sum(f))[S]
  BY DEF MapThenSumSet, MapThenFoldSet, Pick
<1>5. IsFiniteSet(S)
  BY SharesAssumption, FS_Subset DEF Declared
<1>6. sum(CHOOSE f : sum(f))
  BY <1>3, <1>5, SumsExist
<1> QED
  BY <1>3, <1>4, <1>5, <1>6, SumsGiveTotal DEF g

-----------------------------------------------------------------------------
LEMMA DecideStep ==
  ASSUME ShareInv, NEW p \in Person, NEW i \in DividendId, NEW d \in BookDay, NEW n \in PerShare,
         DecideDividend(p, i, d, n)
  PROVE  ShareInv'
<1> DEFINE w == [kind |-> "dividend", id |-> i, day |-> d, perShare |-> n, total |-> BookTotal(d)]
<1>1. BookIsFromOutside' /\ NoneNegative' /\ PayableIsOwed'
  BY BookRests DEF DecideDividend
<1>2. BookTypes'
  BY DEF ShareInv, BookTypes, DecideDividend
<1>3. BookTotal(d) \in Int
  BY BookSummed DEF ShareInv
<1>4. w \in Writings /\ w.kind # "event"
  BY <1>3, SharesAssumption DEF Writings, Resolution
<1>5. /\ writing \in [Person -> Writings]
      /\ writing' = [writing EXCEPT ![p] = w]
      /\ UNCHANGED << holders, moved >>
  BY DEF ShareInv, WritingTypes, DecideDividend
<1> HIDE DEF w
<1>6. WritingTypes'
  BY <1>4, <1>5 DEF ShareInv, WritingTypes
<1>7. RowsLocked'
  BY <1>4, <1>5 DEF ShareInv, RowsLocked
<1>8. RowsRegistered'
  BY <1>4, <1>5 DEF ShareInv, RowsRegistered
<1>9. SharesCounted'
  BY <1>4, <1>5 DEF ShareInv, SharesCounted
<1> QED
  BY <1>1, <1>2, <1>6, <1>7, <1>8, <1>9 DEF ShareInv

LEMMA ResolveStep ==
  ASSUME ShareInv, NEW p \in Person, CreateDividend(p)
  PROVE  ShareInv'
<1> DEFINE w == writing[p]
           row == [day |-> w.day, perShare |-> w.perShare]
<1>1. /\ w.kind = "dividend" /\ dividend[w.id] = NoDividend
      /\ dividend' = [dividend EXCEPT ![w.id] = row]
      /\ payable' = payable + w.total * w.perShare
      /\ restated' = IF BookTotal(w.day) = w.total THEN restated ELSE restated \cup {w.id}
      /\ writing' = [writing EXCEPT ![p] = NotWriting]
      /\ UNCHANGED << holders, moved, outside, stretched >>
  BY DEF CreateDividend
<1>2. w.id \in DividendId /\ w.day \in BookDay /\ w.perShare \in Nat /\ w.total \in Int
  <2>1. w \in Writings
    BY DEF ShareInv, WritingTypes
  <2> QED
    BY <1>1, <2>1 DEF Writings, NotWriting, Movement, Resolution
<1>3. /\ WritingTypes' /\ RowsLocked'
      /\ \A q \in Person : writing'[q].kind = "event" => (q # p /\ writing'[q] = writing[q])
  BY <1>1, WritingEnds
<1>4. SharesCounted' /\ RowsRegistered'
  BY <1>1, <1>3 DEF ShareInv, SharesCounted, RowsRegistered
<1>5. BookTypes
  BY DEF ShareInv
<1>6. row \in [day : BookDay, perShare : Nat] /\ row # NoDividend
  BY <1>2, SharesAssumption DEF NoDividend, BookDay
<1> HIDE DEF w, row
<1>7. BookTypes'
  <2>1. payable' \in Int
    BY <1>1, <1>2, <1>5 DEF BookTypes
  <2> QED
    BY <1>1, <1>2, <1>5, <1>6, <2>1 DEF BookTypes
<1>8. BookIsFromOutside' /\ NoneNegative'
  <2>1. \A d \in BookDay : FromOutside(d)' = FromOutside(d)
    BY <1>1 DEF FromOutside
  <2> QED
    BY <1>1, <2>1 DEF ShareInv, BookIsFromOutside, NoneNegative
<1>9. PayableIsOwed'
  <2> DEFINE old == Owed(moved, dividend)
             new == Owed(moved', dividend')
  <2> SUFFICES ASSUME restated' = {} PROVE payable' = SumOver(new, DividendId)
    BY DEF PayableIsOwed
  <2>1. restated = {} /\ BookTotal(w.day) = w.total
    BY <1>1
  <2>2. payable = SumOver(old, DividendId) /\ payable \in Int
    BY <1>5, <2>1 DEF ShareInv, PayableIsOwed, BookTypes
  <2>3. Numbers(old, DividendId) /\ Numbers(new, DividendId)
    <3>1. (BookTypes => Numbers(Owed(moved, dividend), DividendId))'
      BY OwedTyped, PTL
    <3> QED
      BY <1>5, <1>7, <3>1, OwedTyped
  <2>4. old[w.id] = 0 /\ new[w.id] = w.total * w.perShare
    <3>1. old[w.id] = 0
      BY <1>1, <1>2 DEF Owed
    <3>2. dividend'[w.id] = row /\ row.day = w.day /\ row.perShare = w.perShare
      BY <1>1, <1>2, <1>5 DEF BookTypes, row
    <3>3. BookOf(moved', w.day) = w.total
      BY <1>1, <1>2, <1>5, <2>1, BookSummed
    <3> QED
      BY <1>2, <1>6, <3>1, <3>2, <3>3 DEF Owed
  <2>5. \A i \in DividendId \ {w.id} : new[i] = old[i]
    BY <1>1, <1>2, <1>5 DEF Owed, BookTypes
  <2>6. new[w.id] \in Int
    BY <1>2, <2>3 DEF Numbers
  <2> HIDE DEF old, new
  <2>7. SumOver(new, DividendId) = SumOver(old, DividendId) - old[w.id] + new[w.id]
    BY <1>2, <2>3, <2>5, <2>6, SharesAssumption, TotalMoves
  <2> QED
    BY <1>1, <2>2, <2>4, <2>6, <2>7
<1> QED
  BY <1>3, <1>4, <1>7, <1>8, <1>9 DEF ShareInv

LEMMA NextShare == ShareInv /\ [NextShares]_varsShares => ShareInv'
<1> SUFFICES ASSUME ShareInv, [NextShares]_varsShares PROVE ShareInv'
  OBVIOUS
<1>1. ASSUME NEW p \in Person, NEW h \in Shareholder, CreateShareholder(p, h) PROVE ShareInv'
  BY <1>1, RegisterStep
<1>2. ASSUME NEW p \in Person, NEW owner \in Shareholder, NEW type \in EventType, NEW d \in BookDay,
             NEW n \in Quantity, RecordEvent(p, owner, type, d, n, NoOther, type)
      PROVE  ShareInv'
  BY <1>2, RecordStep
<1>3. ASSUME NEW p \in Person, NEW owner \in Shareholder, NEW type \in EventType, NEW d \in BookDay,
             NEW n \in Quantity, NEW other \in Shareholder, NEW otherType \in EventType,
             RecordEvent(p, owner, type, d, n, other, otherType)
      PROVE  ShareInv'
  BY <1>3, RecordStep
<1>4. ASSUME NEW p \in Person, CommitEvent(p) PROVE ShareInv'
  BY <1>4, CommitStep
<1>5. ASSUME NEW p \in Person, AbortWriting(p) PROVE ShareInv'
  BY <1>5, AbortStep
<1>6. ASSUME NEW p \in Person, CreateDividend(p) PROVE ShareInv'
  BY <1>6, ResolveStep
<1>7. ASSUME NEW p \in Person, NEW i \in DividendId, NEW d \in BookDay, NEW n \in PerShare,
             DecideDividend(p, i, d, n)
      PROVE  ShareInv'
  BY <1>7, DecideStep
<1>8. ASSUME UNCHANGED varsShares PROVE ShareInv'
  <2> USE <1>8 DEF varsShares
  <2>1. BookIsFromOutside' /\ NoneNegative' /\ PayableIsOwed'
    BY BookRests
  <2>2. BookTypes'
    BY DEF ShareInv, BookTypes
  <2>3. WritingTypes' /\ RowsLocked' /\ RowsRegistered' /\ SharesCounted'
    BY DEF ShareInv, WritingTypes, RowsLocked, RowsRegistered, SharesCounted
  <2> QED
    BY <2>1, <2>2, <2>3 DEF ShareInv
<1> QED
  BY <1>1, <1>2, <1>3, <1>4, <1>5, <1>6, <1>7, <1>8 DEF NextShares

-----------------------------------------------------------------------------
(***************************************************************************)
(* The return of a year, which is folded from the movements by itself.     *)
(***************************************************************************)
LEMMA FunctionSummed ==
  ASSUME NEW x, IsFiniteSet(DOMAIN x)
  PROVE  MapThenSumSet(LAMBDA i : x[i], DOMAIN x) = SumOver(x, DOMAIN x)
<1> DEFINE S == DOMAIN x
           sum(f) == f = [s \in SUBSET S |-> IF s = {} THEN 0 ELSE x[Pick(s)] + f[s \ {Pick(s)}]]
<1>1. MapThenSumSet(LAMBDA i : x[i], S) = (CHOOSE f : sum(f))[S]
  BY DEF MapThenSumSet, MapThenFoldSet, Pick
<1>2. ASSUME NEW f PROVE sum(f) <=> Sums(f, x, S)
  BY DEF Sums
<1>3. sum(CHOOSE f : sum(f))
  BY <1>2, SumsExist
<1> QED
  BY <1>1, <1>2, <1>3, SumsGiveTotal

LEMMA TypesSummed ==
  ASSUME NEW m \in Moves, NEW c \in BookDay, NEW types, types \subseteq EventType
  PROVE  MapThenSumSet(LAMBDA t : m[c][t], types) = SumOver(m[c], types)
<1> DEFINE sum(f) == f = [s \in SUBSET types |-> IF s = {} THEN 0 ELSE m[c][Pick(s)] + f[s \ {Pick(s)}]]
<1>1. MapThenSumSet(LAMBDA t : m[c][t], types) = (CHOOSE f : sum(f))[types]
  BY DEF MapThenSumSet, MapThenFoldSet, Pick
<1>2. ASSUME NEW f PROVE sum(f) <=> Sums(f, m[c], types)
  BY DEF Sums
<1>3. IsFiniteSet(types)
  BY SharesAssumption, FS_Subset
<1>4. sum(CHOOSE f : sum(f))
  BY <1>2, <1>3, SumsExist
<1> QED
  BY <1>1, <1>2, <1>3, <1>4, SumsGiveTotal

LEMMA YearSummed ==
  ASSUME NEW m \in Moves, NEW year \in BookDay, NEW types, types \subseteq EventType
  PROVE  MapThenSumSet(LAMBDA d : MapThenSumSet(LAMBDA t : m[d][t], types),
                       {d \in BookDay : YearOfDay(d) = year}) = SumOver(m[year], types)
<1> DEFINE S == {d \in BookDay : YearOfDay(d) = year}
           term(d) == MapThenSumSet(LAMBDA t : m[d][t], types)
           g == [d \in BookDay |-> SumOver(m[d], types)]
<1>1. S = {year}
  BY DEF YearOfDay
<1>2. ASSUME NEW s \in SUBSET S, s # {} PROVE g[Pick(s)] = term(Pick(s))
  BY <1>2, PickIn, TypesSummed
<1>3. IsFiniteSet(types) /\ Numbers(m[year], types)
  BY SharesAssumption, FS_Subset DEF Moves, Numbers
<1>4. g[year] = SumOver(m[year], types) /\ g[year] \in Int
  BY <1>3, TotalIsNumber
<1> HIDE DEF g, term
<1> DEFINE sum(f) == f = [s \in SUBSET S |-> IF s = {} THEN 0 ELSE term(Pick(s)) + f[s \ {Pick(s)}]]
<1>5. ASSUME NEW f PROVE sum(f) <=> Sums(f, g, S)
  BY <1>2 DEF Sums
<1>6. MapThenSumSet(term, S) = (CHOOSE f : sum(f))[S]
  BY DEF MapThenSumSet, MapThenFoldSet, Pick
<1>7. IsFiniteSet(S)
  BY <1>1, FS_Singleton
<1>8. sum(CHOOSE f : sum(f))
  BY <1>5, <1>7, SumsExist
<1>9. MapThenSumSet(term, S) = SumOver(g, S)
  BY <1>5, <1>6, <1>7, <1>8, SumsGiveTotal
<1>10. SumOver(g, S) = g[year]
  BY <1>1, <1>4, <1>7, TotalOfOne
<1> QED
  BY <1>4, <1>9, <1>10 DEF term

\* What was gained on a day less what was lost on it.
LEMMA NetIsGainLessLoss ==
  ASSUME NEW m \in Moves, NEW c \in BookDay
  PROVE  DayNets(m)[c] = SumOver(m[c], {t \in EventType : IsAcquisition(t)})
                           - SumOver(m[c], {t \in EventType : ~IsAcquisition(t)})
<1> DEFINE A == {t \in EventType : IsAcquisition(t)}
           B == {t \in EventType : ~IsAcquisition(t)}
           g == TypeNets(m, c)
<1>1. /\ IsFiniteSet(A) /\ IsFiniteSet(B) /\ A \cap B = {} /\ A \cup B = EventType
  BY SharesAssumption, FS_Subset
<1>2. /\ Numbers(g, A \cup B) /\ Numbers(g, A) /\ Numbers(g, B)
      /\ Numbers(m[c], A) /\ Numbers(m[c], B)
  BY NetsTyped, <1>1 DEF Numbers, Moves
<1>3. Alike(g, m[c], A)
  BY DEF Alike, TypeNets, Delta
<1>4. \A t \in B : g[t] = m[c][t] * (-1)
  <2> SUFFICES ASSUME NEW t \in B PROVE g[t] = m[c][t] * (-1)
    OBVIOUS
  <2>1. g[t] = -m[c][t] /\ m[c][t] \in Int
    BY DEF TypeNets, Delta, Moves
  <2> QED
    BY <2>1
<1> HIDE DEF A, B, g
<1>5. SumOver(g, EventType) = SumOver(g, A) + SumOver(g, B)
  BY <1>1, <1>2, TotalUnion
<1>6. SumOver(g, A) = SumOver(m[c], A)
  BY <1>1, <1>3, TotalSame
<1>7. SumOver(g, B) = SumOver(m[c], B) * (-1)
  BY <1>1, <1>2, <1>4, TotalScaled
<1>8. SumOver(m[c], A) \in Int /\ SumOver(m[c], B) \in Int
  BY <1>1, <1>2, TotalIsNumber
<1>9. DayNets(m)[c] = SumOver(g, EventType)
  BY DEF DayNets, g
<1>10. DayNets(m)[c] = SumOver(m[c], A) - SumOver(m[c], B)
  BY <1>5, <1>6, <1>7, <1>8, <1>9
<1> QED
  BY <1>10 DEF A, B

LEMMA YearOpens ==
  ASSUME BookTypes, NEW h \in Shareholder, NEW year \in Int, 1 <= year, year <= LastDayOfBook + 1
  PROVE  YearMovement(h, year).opening = SumOver(DayNets(moved[h]), 1..(year - 1))
<1>1. {d \in BookDay : YearOfDay(d) < year} = 1..(year - 1)
  BY SharesAssumption DEF BookDay, YearOfDay
<1>2. 1..(year - 1) \subseteq BookDay /\ moved[h] \in Moves
  BY SharesAssumption DEF BookDay, BookTypes
<1>3. YearMovement(h, year).opening = MapThenSumSet(LAMBDA d : MovedOn(moved[h], d),
                                                    {d \in BookDay : YearOfDay(d) < year})
  BY DEF YearMovement
<1>4. MapThenSumSet(LAMBDA d : MovedOn(moved[h], d), 1..(year - 1))
        = SumOver(DayNets(moved[h]), 1..(year - 1))
  BY <1>2, NetSummed
<1> QED
  BY <1>1, <1>3, <1>4

LEMMA YearCloses ==
  ASSUME BookTypes, NEW h \in Shareholder, NEW year \in BookDay
  PROVE  YearMovement(h, year).closing = Held(moved[h], year)
<1> DEFINE m == moved[h]
           A == {t \in EventType : IsAcquisition(t)}
           B == {t \in EventType : ~IsAcquisition(t)}
<1>1. m \in Moves /\ year \in Int /\ 1 <= year /\ year <= LastDayOfBook
  BY SharesAssumption DEF BookTypes, BookDay
<1>2. YearMovement(h, year).closing
        = YearMovement(h, year).opening
            + MapThenSumSet(LAMBDA d : MapThenSumSet(LAMBDA t : m[d][t], A),
                            {d \in BookDay : YearOfDay(d) = year})
            - MapThenSumSet(LAMBDA d : MapThenSumSet(LAMBDA t : m[d][t], B),
                            {d \in BookDay : YearOfDay(d) = year})
  BY DEF YearMovement
<1>3. /\ MapThenSumSet(LAMBDA d : MapThenSumSet(LAMBDA t : m[d][t], A),
                       {d \in BookDay : YearOfDay(d) = year}) = SumOver(m[year], A)
      /\ MapThenSumSet(LAMBDA d : MapThenSumSet(LAMBDA t : m[d][t], B),
                       {d \in BookDay : YearOfDay(d) = year}) = SumOver(m[year], B)
  BY <1>1, YearSummed
<1>4. YearMovement(h, year).opening = SumOver(DayNets(m), 1..(year - 1))
  BY <1>1, SharesAssumption, YearOpens
<1>5. DayNets(m)[year] = SumOver(m[year], A) - SumOver(m[year], B)
  BY <1>1, NetIsGainLessLoss
<1>6. /\ IsFiniteSet(A) /\ IsFiniteSet(B) /\ Numbers(m[year], A) /\ Numbers(m[year], B)
  BY <1>1, SharesAssumption, FS_Subset DEF Moves, Numbers
<1> HIDE DEF m, A, B
<1>7. SumOver(m[year], A) \in Int /\ SumOver(m[year], B) \in Int
  BY <1>6, TotalIsNumber
<1>8. Numbers(DayNets(m), 1..year) /\ IsFiniteSet(1..year) /\ year \in 1..year
  BY <1>1, HeldTyped, DaysAreFinite
<1>9. (1..year) \ {year} = 1..(year - 1)
  BY <1>1
<1>10. Held(m, year) = DayNets(m)[year] + SumOver(DayNets(m), 1..(year - 1))
  BY <1>8, <1>9, TotalTakes DEF Held
<1>11. SumOver(DayNets(m), 1..(year - 1)) \in Int
  <2>1. IsFiniteSet(1..(year - 1)) /\ Numbers(DayNets(m), 1..(year - 1))
    BY <1>1, <1>8, DaysAreFinite DEF Numbers
  <2> QED
    BY <2>1, TotalIsNumber
<1>12. YearMovement(h, year).closing = Held(m, year)
  BY <1>2, <1>3, <1>4, <1>5, <1>7, <1>10, <1>11
<1> QED
  BY <1>12 DEF m

LEMMA ClosingSummed ==
  ASSUME BookTypes, NEW year \in BookDay
  PROVE  BuildReturn(year).this = BookOf(moved, year)
<1> DEFINE g == Holdings(moved, year)
           term(h) == YearMovement(h, year).closing
<1>1. ASSUME NEW s \in SUBSET holders, s # {} PROVE g[Pick(s)] = term(Pick(s))
  <2>1. Pick(s) \in Shareholder
    BY <1>1, PickIn DEF BookTypes
  <2> QED
    BY <2>1, YearCloses DEF Holdings
<1>2. BuildReturn(year).this = MapThenSumSet(term, holders)
  BY DEF BuildReturn
<1> HIDE DEF g, term
<1> DEFINE sum(f) == f = [s \in SUBSET holders |-> IF s = {} THEN 0 ELSE term(Pick(s)) + f[s \ {Pick(s)}]]
<1>3. ASSUME NEW f PROVE sum(f) <=> Sums(f, g, holders)
  BY <1>1 DEF Sums
<1>4. MapThenSumSet(term, holders) = (CHOOSE f : sum(f))[holders]
  BY DEF MapThenSumSet, MapThenFoldSet, Pick
<1>5. IsFiniteSet(Shareholder) /\ IsFiniteSet(holders) /\ holders \in SUBSET Shareholder
  BY SharesAssumption, FS_Subset DEF BookTypes
<1>6. sum(CHOOSE f : sum(f))
  BY <1>3, <1>5, SumsExist
<1>7. MapThenSumSet(term, holders) = SumOver(g, holders)
  BY <1>3, <1>4, <1>5, <1>6, SumsGiveTotal
<1>8. SumOver(g, Shareholder) = SumOver(g, holders)
  BY BookIsOfHolders DEF g
<1> QED
  BY <1>2, <1>7, <1>8 DEF BookOf, g

DeclaredIn(year) == {i \in Declared : YearOfDay(dividend[i].day) = year}

\* What a shareholder gets of each dividend, and each shareholder of a dividend.
Portions(h) == [i \in DividendId |-> IF i \in Declared THEN Held(moved[h], dividend[i].day) * dividend[i].perShare
                                                       ELSE 0]
Recipients(i) == [h \in Shareholder |-> Portions(h)[i]]

LEMMA DividendShape ==
  ASSUME BookTypes, NEW i \in Declared
  PROVE  /\ i \in DividendId /\ dividend[i].day \in BookDay /\ dividend[i].perShare \in Nat
         /\ \A h \in Shareholder : /\ HoldingOf(h, dividend[i].day) = Held(moved[h], dividend[i].day)
                                   /\ Held(moved[h], dividend[i].day) \in Int
                                   /\ Portions(h)[i] \in Int
<1>1. i \in DividendId /\ dividend[i].day \in BookDay /\ dividend[i].perShare \in Nat
  BY DEF BookTypes, Declared
<1>2. ASSUME NEW h \in Shareholder
      PROVE  /\ HoldingOf(h, dividend[i].day) = Held(moved[h], dividend[i].day)
             /\ Held(moved[h], dividend[i].day) \in Int
  <2>1. dividend[i].day \in Int /\ dividend[i].day <= LastDayOfBook /\ moved[h] \in Moves
    BY <1>1, SharesAssumption DEF BookDay, BookTypes
  <2> QED
    BY <1>1, <2>1, HoldingSummed, HeldTyped DEF HoldingOf
<1> QED
  BY <1>1, <1>2 DEF Portions

\* A shareholder's entries in the return, when nobody holds less than nothing.
LEMMA EntriesSummed ==
  ASSUME ShareInv, stretched = {}, NEW h \in holders, NEW year
  PROVE  MapThenSumSet(LAMBDA i : BuildReturn(year).holders[h].dividends[i],
                       DOMAIN BuildReturn(year).holders[h].dividends)
           = SumOver(Portions(h), DeclaredIn(year))
<1> DEFINE x == BuildReturn(year).holders[h].dividends
           S == DeclaredIn(year)
<1>1. /\ DOMAIN x = {i \in S : HoldingOf(h, dividend[i].day) > 0}
      /\ \A i \in DOMAIN x : x[i] = HoldingOf(h, dividend[i].day) * dividend[i].perShare
  <2>1. x = DividendEntries(h, year)
    BY DEF BuildReturn
  <2> HIDE DEF x
  <2> QED
    BY <2>1 DEF DividendEntries, DeclaredIn
<1>2. BookTypes /\ NoneNegative /\ h \in Shareholder
  BY DEF ShareInv, BookTypes
<1>3. S \subseteq Declared /\ S \subseteq DividendId /\ IsFiniteSet(S)
  BY SharesAssumption, FS_Subset DEF DeclaredIn, Declared
<1>4. DOMAIN x \in SUBSET S /\ IsFiniteSet(DOMAIN x)
  BY <1>1, <1>3, FS_Subset
<1>5. MapThenSumSet(LAMBDA i : x[i], DOMAIN x) = SumOver(x, DOMAIN x)
  <2> HIDE DEF x
  <2> QED
    BY <1>4, FunctionSummed
<1>6. Alike(x, Portions(h), DOMAIN x)
  <2> SUFFICES ASSUME NEW i \in DOMAIN x PROVE x[i] = Portions(h)[i]
    BY DEF Alike
  <2>1. i \in Declared /\ x[i] = HoldingOf(h, dividend[i].day) * dividend[i].perShare
    BY <1>1, <1>3, <1>4
  <2> HIDE DEF x
  <2> QED
    BY <1>2, <2>1, DividendShape DEF Portions
<1>7. ASSUME NEW i \in S \ DOMAIN x PROVE Portions(h)[i] = 0
  <2>1. i \in Declared /\ ~ (HoldingOf(h, dividend[i].day) > 0)
    BY <1>1, <1>3, <1>7
  <2>2. /\ i \in DividendId /\ dividend[i].day \in BookDay /\ dividend[i].perShare \in Nat
        /\ HoldingOf(h, dividend[i].day) = Held(moved[h], dividend[i].day)
        /\ Held(moved[h], dividend[i].day) \in Int
    BY <1>2, <2>1, DividendShape
  <2>3. Held(moved[h], dividend[i].day) >= 0
    BY <1>2, <2>2 DEF NoneNegative
  <2>4. Held(moved[h], dividend[i].day) = 0
    BY <2>1, <2>2, <2>3
  <2>5. \A n \in Nat : 0 * n = 0
    OBVIOUS
  <2> QED
    BY <2>1, <2>2, <2>4, <2>5 DEF Portions
<1>8. Numbers(Portions(h), S)
  BY <1>2, <1>3, DividendShape DEF Numbers
<1> HIDE DEF x, S
<1>9. SumOver(x, DOMAIN x) = SumOver(Portions(h), DOMAIN x)
  BY <1>4, <1>6, TotalSame
<1>10. SumOver(Portions(h), S) = SumOver(Portions(h), DOMAIN x)
  <2>1. Numbers(Portions(h), DOMAIN x)
    BY <1>4, <1>8 DEF Numbers
  <2> QED
    BY <1>3, <1>4, <1>7, <2>1, TotalOfPart
<1> QED
  BY <1>5, <1>9, <1>10 DEF x, S

\* What the shareholders are told they got is what was declared.
LEMMA DividendsShared ==
  ASSUME ShareInv, stretched = {}, NEW year \in BookDay
  PROVE  BuildReturn(year).dividends =
            MapThenSumSet(LAMBDA h : MapThenSumSet(LAMBDA i : BuildReturn(year).holders[h].dividends[i],
                                                   DOMAIN BuildReturn(year).holders[h].dividends), holders)
<1> DEFINE S == DeclaredIn(year)
           rows == [h \in Shareholder |-> SumOver(Portions(h), S)]
           columns == [i \in DividendId |-> SumOver(Recipients(i), holders)]
           table == [h \in Shareholder |-> Portions(h)]
           turned == [i \in DividendId |-> Recipients(i)]
           term(h) == MapThenSumSet(LAMBDA i : BuildReturn(year).holders[h].dividends[i],
                                    DOMAIN BuildReturn(year).holders[h].dividends)
<1>1. BookTypes
  BY DEF ShareInv
<1>2. S \subseteq Declared /\ S \subseteq DividendId /\ IsFiniteSet(S)
  BY SharesAssumption, FS_Subset DEF DeclaredIn, Declared
<1>3. IsFiniteSet(Shareholder) /\ IsFiniteSet(holders) /\ holders \subseteq Shareholder
  BY <1>1, SharesAssumption, FS_Subset DEF BookTypes
<1>4. ASSUME NEW h \in holders PROVE term(h) = SumOver(Portions(h), S)
  BY EntriesSummed
<1>5. ASSUME NEW s \in SUBSET holders, s # {} PROVE rows[Pick(s)] = term(Pick(s))
  BY <1>3, <1>4, <1>5, PickIn
<1>6. BuildReturn(year).dividends = MapThenSumSet(DividendTotal, S)
  BY DEF BuildReturn, DeclaredIn
<1>7. ASSUME NEW h \in holders, NEW i \in S
      PROVE  table[h][i] \in Int /\ turned[i][h] = table[h][i]
  BY <1>1, <1>2, <1>3, DividendShape DEF Recipients
<1>8. Table(table, holders, turned, S)
  BY <1>7 DEF Table
<1>9. \A h \in holders : rows[h] = SumOver(table[h], S)
  BY <1>3
<1>10. \A i \in S : columns[i] = SumOver(turned[i], holders)
  BY <1>2
<1>11. ASSUME NEW i \in S PROVE columns[i] = Owed(moved, dividend)[i]
  <2>1. /\ i \in Declared /\ i \in DividendId /\ dividend[i].day \in BookDay
        /\ dividend[i].perShare \in Nat
    BY <1>1, <1>2, DividendShape
  <2>2. \A h \in holders : Recipients(i)[h] = Holdings(moved, dividend[i].day)[h] * dividend[i].perShare
    BY <1>3, <2>1 DEF Recipients, Portions, Holdings
  <2>3. Numbers(Holdings(moved, dividend[i].day), holders)
    BY <1>1, <1>3, <2>1, BookTyped DEF BookTypes, Numbers
  <2>4. SumOver(Recipients(i), holders)
           = SumOver(Holdings(moved, dividend[i].day), holders) * dividend[i].perShare
    BY <1>3, <2>1, <2>2, <2>3, TotalScaled
  <2>5. SumOver(Holdings(moved, dividend[i].day), holders) = BookOf(moved, dividend[i].day)
    BY <1>1, <2>1, BookIsOfHolders DEF BookOf
  <2>6. dividend[i] # NoDividend
    BY <2>1 DEF Declared
  <2> QED
    BY <2>1, <2>4, <2>5, <2>6 DEF Owed
<1>12. SumOver(columns, S) = SumOver(Owed(moved, dividend), S)
  <2>1. Alike(columns, Owed(moved, dividend), S)
    BY <1>11 DEF Alike
  <2> HIDE DEF S, columns
  <2> QED
    BY <1>2, <2>1, TotalSame
<1>13. MapThenSumSet(DividendTotal, S) = SumOver(Owed(moved, dividend), S)
  BY <1>1, <1>2, DividendsSummed
<1> HIDE DEF S, rows, columns, table, turned, term
<1>14. SumOver(rows, holders) = SumOver(columns, S)
  BY <1>2, <1>3, <1>8, <1>9, <1>10, TotalSwaps
<1> DEFINE sum(f) == f = [s \in SUBSET holders |-> IF s = {} THEN 0 ELSE term(Pick(s)) + f[s \ {Pick(s)}]]
<1>15. ASSUME NEW f PROVE sum(f) <=> Sums(f, rows, holders)
  BY <1>5 DEF Sums
<1>16. MapThenSumSet(term, holders) = (CHOOSE f : sum(f))[holders]
  BY DEF MapThenSumSet, MapThenFoldSet, Pick
<1>17. sum(CHOOSE f : sum(f))
  BY <1>3, <1>15, SumsExist
<1>18. MapThenSumSet(term, holders) = SumOver(rows, holders)
  BY <1>3, <1>15, <1>16, <1>17, SumsGiveTotal
<1>19. BuildReturn(year).dividends = MapThenSumSet(term, holders)
  BY <1>6, <1>12, <1>13, <1>14, <1>18
<1> QED
  BY <1>19 DEF term

LEMMA ReturnFits == ShareInv => ReturnFollowsBook
<1> SUFFICES ASSUME ShareInv, NEW year \in 1..YearOfDay(LastDayOfBook)
             PROVE  /\ BuildReturn(year).this = BookTotal(Max({d \in BookDay : YearOfDay(d) = year}))
                    /\ \A h \in holders :
                          BuildReturn(year).holders[h].movement.closing = YearMovement(h, year + 1).opening
                    /\ stretched = {} => BuildReturn(year).dividends =
                          MapThenSumSet(LAMBDA h :
                             MapThenSumSet(LAMBDA i : BuildReturn(year).holders[h].dividends[i],
                                           DOMAIN BuildReturn(year).holders[h].dividends), holders)
  BY DEF ReturnFollowsBook
<1>1. BookTypes
  BY DEF ShareInv
<1>2. year \in BookDay /\ year \in Int /\ 1 <= year /\ year <= LastDayOfBook
  BY SharesAssumption DEF YearOfDay, BookDay
<1>3. Max({d \in BookDay : YearOfDay(d) = year}) = year
  <2>1. {d \in BookDay : YearOfDay(d) = year} = {year}
    BY <1>2 DEF YearOfDay
  <2>2. \A x : (x \in {year} /\ \A y \in {year} : x >= y) <=> x = year
    BY <1>2
  <2>3. Max({year}) = year
    BY <2>2 DEF Max
  <2> QED
    BY <2>1, <2>3
<1>4. BuildReturn(year).this = BookTotal(Max({d \in BookDay : YearOfDay(d) = year}))
  BY <1>1, <1>2, <1>3, ClosingSummed, BookSummed
<1>5. ASSUME NEW h \in holders
      PROVE  BuildReturn(year).holders[h].movement.closing = YearMovement(h, year + 1).opening
  <2>1. h \in Shareholder
    BY <1>1 DEF BookTypes
  <2>2. BuildReturn(year).holders[h].movement.closing = Held(moved[h], year)
    BY <1>1, <1>2, <2>1, YearCloses DEF BuildReturn
  <2>3. YearMovement(h, year + 1).opening = SumOver(DayNets(moved[h]), 1..((year + 1) - 1))
    BY <1>1, <1>2, <2>1, SharesAssumption, YearOpens
  <2>4. (year + 1) - 1 = year
    BY <1>2
  <2> QED
    BY <2>2, <2>3, <2>4 DEF Held
<1> QED
  BY <1>2, <1>4, <1>5, DividendsShared

LEMMA BookFits == ShareInv => BookAddsUp
<1> SUFFICES ASSUME ShareInv PROVE BookAddsUp
  OBVIOUS
<1>1. BookTypes
  BY DEF ShareInv
<1>2. BookHasBothSides
  BY <1>1, BookSummed, OutsideSummed DEF ShareInv, BookIsFromOutside, BookHasBothSides
<1>3. NobodyOwesShares
  <2> SUFFICES ASSUME NEW h \in holders \ stretched, NEW d \in BookDay PROVE HoldingOf(h, d) >= 0
    BY DEF NobodyOwesShares
  <2>1. h \in Shareholder /\ moved[h] \in Moves
    BY <1>1 DEF BookTypes
  <2> QED
    BY <2>1, HoldingSummed DEF HoldingOf, ShareInv, NoneNegative
<1>4. DividendsAreOwed
  <2> SUFFICES ASSUME restated = {} PROVE payable = MapThenSumSet(DividendTotal, Declared)
    BY DEF DividendsAreOwed
  <2>1. MapThenSumSet(DividendTotal, Declared) = SumOver(Owed(moved, dividend), Declared)
    BY <1>1, DividendsSummed
  <2>2. /\ IsFiniteSet(DividendId) /\ Declared \in SUBSET DividendId
        /\ Numbers(Owed(moved, dividend), Declared)
        /\ \A i \in DividendId \ Declared : Owed(moved, dividend)[i] = 0
    BY <1>1, SharesAssumption, OwedTyped DEF Declared, Numbers, Owed
  <2>3. SumOver(Owed(moved, dividend), DividendId) = SumOver(Owed(moved, dividend), Declared)
    BY <2>2, TotalOfPart
  <2> QED
    BY <2>1, <2>3 DEF ShareInv, PayableIsOwed
<1> QED
  BY <1>2, <1>3, <1>4, ReturnFits DEF BookAddsUp

(***************************************************************************)
(* The register of shareholders: the book has both sides of every sale,    *)
(* nobody is recorded with less than nothing but by the two ways that are  *)
(* named, the return follows the book, and the dividends owed are what the *)
(* book says; whatever is recorded, by however many people at once, for    *)
(* whatever days.                                                          *)
(***************************************************************************)
THEOREM ShareBookAddsUp == SpecShares => []BookAddsUp
<1>1. SpecShares => []ShareInv
  BY InitShare, NextShare, PTL DEF SpecShares
<1> QED
  BY <1>1, BookFits, PTL

=============================================================================
