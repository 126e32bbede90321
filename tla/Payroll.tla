------------------------------ MODULE Payroll ------------------------------
(***************************************************************************)
(* Payroll: one run a month, posted as one voucher together with its       *)
(* lines.  What an employee is owed in holiday pay, and what has been set  *)
(* aside in employer's contribution on it, is not stored but folded from   *)
(* the lines of the runs before, read before the transaction begins.       *)
(***************************************************************************)
EXTENDS Access, Money

CONSTANTS
    Employee,
    Terms,          \* of each: monthly, hourly, card, percent, holiday, from and to
    PayMonth,
    HolidayPaid,    \* what may be paid out in holiday pay
    Zone,           \* the zones asked for
    AgaRate,        \* of each zone and month: the registered rate, or NoRate
    Minutes,        \* what an employee may have worked in a month
    MaxPayTrouble   \* bound: hours changed, locks moved, vouchers by hand

NoWage == -1
NoRate == -1
Card == {"prosent", "tabell", "ingen"}

ASSUME TermsAssumption ==
    \A e \in Employee : /\ Terms[e].card \in Card
                        /\ {Terms[e].percent, Terms[e].holiday} \subseteq 0..BasisPoints
                        /\ Terms[e].monthly \in Int /\ Terms[e].hourly \in Int

ASSUME PayrollAssumption ==
    /\ IsFiniteSet(Employee) /\ IsFiniteSet(PayMonth)
    /\ HolidayPaid \subseteq Int /\ Minutes \subseteq Nat
    /\ \A zone \in Zone, m \in PayMonth : AgaRate[zone][m] \in Int

VARIABLES
    hired,          \* the employees that are registered
    link,           \* the portal user of each employee
    worked,         \* the minutes each person has logged in each month
    lockedTo,       \* the last month whose hours are locked
    payroll,        \* the lines of each month's run
    ledger,         \* the balance of each account
    byHand,         \* of 2940: what vouchers outside payroll have put there
    drafting,       \* what each person's request has read and computed
    settled,        \* the rate at which each employee's accrual was last trued up
    troubles

varsPayroll == << hired, link, worked, lockedTo, payroll, ledger, byHand, drafting, settled,
                  troubles >>

Account == {"5000", "5090", "5400", "2600", "2940", "2770", "2930", "5405", "2780"}
NotRun == << >>
NotDrafting == [month |-> 0]
NeverSettled == -1

InitPayroll ==
    /\ hired = {}
    /\ link = [e \in Employee |-> Nobody]
    /\ worked = [q \in Person |-> [m \in PayMonth |-> 0]]
    /\ lockedTo = 0
    /\ payroll = [m \in PayMonth |-> NotRun]
    /\ ledger = [k \in Account |-> 0]
    /\ byHand = 0
    /\ drafting = [p \in Person |-> NotDrafting]
    /\ settled = [e \in Employee |-> NeverSettled]
    /\ troubles = 0

Trouble == troubles < MaxPayTrouble /\ troubles' = troubles + 1

-----------------------------------------------------------------------------
(***************************************************************************)
(* The employees, their links to portal users, and their hours.            *)
(***************************************************************************)
CreateEmployee(p, e) ==
    /\ Allowed(p, "PayrollWrite")
    /\ e \notin hired
    /\ hired' = hired \cup {e}
    /\ UNCHANGED << link, worked, lockedTo, payroll, ledger, byHand, drafting, settled, troubles >>

\* A human, who is not another employee; linking again takes an unlinking first.
LinkEmployee(p, e, q) ==
    /\ Allowed(p, "PayrollWrite")
    /\ e \in hired
    /\ q \notin Machine
    /\ link[e] = Nobody
    /\ \A f \in Employee : link[f] # q
    /\ link' = [link EXCEPT ![e] = q]
    /\ UNCHANGED << hired, worked, lockedTo, payroll, ledger, byHand, drafting, settled, troubles >>

UnlinkEmployee(p, e) ==
    /\ Allowed(p, "PayrollWrite")
    /\ link[e] # Nobody
    /\ link' = [link EXCEPT ![e] = Nobody]
    /\ UNCHANGED << hired, worked, lockedTo, payroll, ledger, byHand, drafting, settled, troubles >>

\* Module Timesheet says how; here it is a sum that moves until it is locked.
WorkHours(q, m, minutes) ==
    /\ Allowed(q, "TimesheetWriteOwn")
    /\ Trouble
    /\ m > lockedTo
    /\ worked' = [worked EXCEPT ![q][m] = minutes]
    /\ UNCHANGED << hired, link, lockedTo, payroll, ledger, byHand, drafting, settled >>

LockHours(p, m) ==
    /\ Allowed(p, "TimesheetLock")
    /\ Trouble
    /\ lockedTo' = m
    /\ UNCHANGED << hired, link, worked, payroll, ledger, byHand, drafting, settled >>

-----------------------------------------------------------------------------
(***************************************************************************)
(* The calculation of one line.                                            *)
(***************************************************************************)
BpOf(amount, rate) == RoundDiv(amount * rate, BasisPoints)

HourlyPay(minutes, wage) == RoundDiv(minutes * wage, 60)

\* Hours must be locked before they are paid.
HourBasis(e, m) ==
    IF link[e] # Nobody /\ Terms[e].hourly # NoWage /\ m <= lockedTo /\ worked[link[e]][m] > 0
    THEN {HourlyPay(worked[link[e]][m], Terms[e].hourly)} ELSE {}

Gross(e, m, fromTimesheet) ==
    IF fromTimesheet THEN HourBasis(e, m) ELSE {Terms[e].monthly} \ {NoWage}

\* Half in December; holiday pay carries none.
Withheld(e, gross, m) ==
    LET rate == IF Terms[e].card = "prosent" THEN Terms[e].percent ELSE 0
    IN BpOf(gross, IF m = 12 THEN rate \div 2 ELSE rate)

HolidayAccrual(e, gross) == BpOf(gross, Terms[e].holiday)

EmployerContribution(basis, rate) == BpOf(basis, rate)

\* Nobody owes a negative contribution.
AccrualTarget(owed, rate) == BpOf(IF owed < 0 THEN 0 ELSE owed, rate)

LinesOf(e) == {m \in PayMonth : payroll[m] # NotRun /\ e \in DOMAIN payroll[m]}
HolidayOwed(e) == MapThenSumSet(LAMBDA m : payroll[m][e].accrual - payroll[m][e].holiday, LinesOf(e))
Accrued(e) == MapThenSumSet(LAMBDA m : payroll[m][e].agaHoliday, LinesOf(e))

\* Faulty: the contribution of the accrual, whatever was set aside before.
TrueUpByIncrement(e, accrual, holiday, rate) == AccrualTarget(accrual, rate)

\* The difference between what should be set aside and what has been.
TrueUp(e, accrual, holiday, rate) ==
    AccrualTarget(HolidayOwed(e) + accrual - holiday, rate) - Accrued(e)

PayrollLine(e, m, gross, holiday, rate) ==
    LET accrual == HolidayAccrual(e, gross) IN
    [gross |-> gross, holiday |-> holiday, withheld |-> Withheld(e, gross, m),
     accrual |-> accrual, aga |-> EmployerContribution(gross + holiday, rate),
     agaHoliday |-> TrueUp(e, accrual, holiday, rate)]

-----------------------------------------------------------------------------
(***************************************************************************)
(* A run.                                                                  *)
(***************************************************************************)
EmployedIn(e, m) == Terms[e].from <= m /\ m <= Terms[e].to

\* Read and computed before the transaction.
DraftRun(p, m, chosen, holiday, fromTimesheet, rate) ==
    \E gross \in [chosen -> UNION {Gross(e, m, fromTimesheet) : e \in chosen}] :
        /\ \A e \in chosen : /\ EmployedIn(e, m) /\ Terms[e].card # "tabell"
                             /\ gross[e] \in Gross(e, m, fromTimesheet)
        /\ drafting' = [drafting EXCEPT ![p] =
              [month |-> m, rate |-> rate, seen |-> payroll,
               lines |-> [e \in chosen |-> PayrollLine(e, m, gross[e], holiday, rate)]]]

\* Zone Ia is refused before its rate is looked up; pay is paid in the month it is for.
RunPayroll(p, m, chosen, holiday, fromTimesheet, zone) ==
    /\ Allowed(p, "PayrollRun")
    /\ drafting[p] = NotDrafting
    /\ chosen # {} /\ chosen \subseteq hired
    /\ zone # "Ia"
    /\ AgaRate[zone][m] # NoRate
    /\ DraftRun(p, m, chosen, holiday, fromTimesheet, AgaRate[zone][m])
    /\ UNCHANGED << hired, link, worked, lockedTo, payroll, ledger, byHand, settled, troubles >>

SumOf(lines, field) == MapThenSumSet(LAMBDA e : lines[e][field], DOMAIN lines)

\* What the voucher posts to each account; lines of zero are left out of it.
VoucherLines(lines) ==
    LET gross == SumOf(lines, "gross")      holiday == SumOf(lines, "holiday")
        held == SumOf(lines, "withheld")    accrual == SumOf(lines, "accrual")
        aga == SumOf(lines, "aga")          later == SumOf(lines, "agaHoliday")
    IN [k \in Account |->
          CASE k = "5000" -> gross          [] k = "2600" -> -held
            [] k = "2930" -> -(gross + holiday - held)
            [] k = "5090" -> accrual        [] k = "2940" -> holiday - accrual
            [] k = "5400" -> aga            [] k = "2770" -> -aga
            [] k = "5405" -> later          [] k = "2780" -> -later]

\* Voucher, run and lines in one transaction; a month that has been run fails.
CommitRun(p) ==
    LET d == drafting[p] IN
    /\ d # NotDrafting
    /\ IF payroll[d.month] = NotRun /\ \E k \in Account : VoucherLines(d.lines)[k] # 0
       THEN /\ payroll' = [payroll EXCEPT ![d.month] = d.lines]
            /\ ledger' = [k \in Account |-> ledger[k] + VoucherLines(d.lines)[k]]
            /\ settled' = [e \in Employee |->
                             IF e \notin DOMAIN d.lines THEN settled[e]
                             ELSE IF d.seen = payroll THEN d.rate ELSE NeverSettled]
       ELSE UNCHANGED << payroll, ledger, settled >>
    /\ drafting' = [drafting EXCEPT ![p] = NotDrafting]
    /\ UNCHANGED << hired, link, worked, lockedTo, byHand, troubles >>

\* An opening balance, an import or a voucher by hand reaches 2940 another way.
PostByHand(p, amount) ==
    /\ Allowed(p, "VoucherPost")
    /\ Trouble
    /\ ledger' = [ledger EXCEPT !["2940"] = @ - amount]
    /\ byHand' = byHand + amount
    /\ UNCHANGED << hired, link, worked, lockedTo, payroll, drafting, settled >>

\* What a run warns of: holiday pay in the ledger that no line explains.
Feriepengeavvik == -ledger["2940"] - MapThenSumSet(HolidayOwed, Employee)

NextPayroll ==
    \/ \E p \in Person, e \in Employee : CreateEmployee(p, e) \/ UnlinkEmployee(p, e)
    \/ \E p, q \in Person, e \in Employee : LinkEmployee(p, e, q)
    \/ \E q \in Person, m \in PayMonth, minutes \in Minutes : WorkHours(q, m, minutes)
    \/ \E p \in Person, m \in PayMonth \cup {0} : LockHours(p, m)
    \/ \E p \in Person, m \in PayMonth, chosen \in SUBSET Employee, holiday \in HolidayPaid,
          fromTimesheet \in BOOLEAN, zone \in Zone :
          RunPayroll(p, m, chosen, holiday, fromTimesheet, zone)
    \/ \E p \in Person : CommitRun(p)
    \/ \E p \in Person, amount \in HolidayPaid \ {0} : PostByHand(p, amount)

SpecPayroll == InitPayroll /\ [][NextPayroll]_varsPayroll

-----------------------------------------------------------------------------
TypeOKPayroll ==
    /\ hired \subseteq Employee
    /\ \A e, f \in Employee : link[e] \in {Nobody} \cup (Person \ Machine)
                               /\ (link[e] = link[f] /\ link[e] # Nobody => e = f)
    /\ worked \in [Person -> [PayMonth -> Minutes \cup {0}]]
    /\ lockedTo \in PayMonth \cup {0}
    /\ \A m \in PayMonth : DOMAIN payroll[m] \subseteq hired
    /\ ledger \in [Account -> Int]
    /\ \A p \in Person : drafting[p].month \in PayMonth \cup {0}
    /\ settled \in [Employee -> {NeverSettled} \cup UNION {{AgaRate[z][m] : m \in PayMonth} : z \in Zone}]
    /\ troubles \in 0..MaxPayTrouble

(***************************************************************************)
(* The accrual is a target and not a stream of increments: after a run     *)
(* that overtook no other, what is set aside for an employee is the rate   *)
(* of the run times what that employee has coming, whatever payouts,       *)
(* changes of rate and overtaken runs came before it; and the accounts     *)
(* hold what the lines say, with the warning naming what does not come     *)
(* from them.                                                              *)
(***************************************************************************)
AccrualOnTarget ==
    /\ \A e \in Employee : settled[e] # NeverSettled =>
          Accrued(e) = AccrualTarget(HolidayOwed(e), settled[e])
    /\ ledger["2780"] = -MapThenSumSet(Accrued, Employee)
    /\ Feriepengeavvik = byHand

=============================================================================
