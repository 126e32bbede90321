----------------------------- MODULE Timesheet -----------------------------
(***************************************************************************)
(* Hours: logged at the rate of the project, corrected until the month is  *)
(* locked or they are billed, and billed by an invoice that is drafted     *)
(* from what was read before its transaction began.                        *)
(***************************************************************************)
EXTENDS Access, Money

CONSTANTS
    TimeEntry, Project, NoProject,
    TimeDraft,          \* what people log: day, minutes, project, billable, and a rate of their own
    ProjectRate,        \* dated rates: project, person or Nobody, from, value
    HoursInvoice, NoInvoice,
    MaxEdit             \* bound: corrections, deletions and locks

WorkDay == {draft.day : draft \in TimeDraft}

ASSUME TimeDraftAssumption ==
    /\ \A draft \in TimeDraft :
          draft.minutes \in 1..1440 /\ draft.project \in Project \cup {NoProject}
    /\ NoInvoice \notin HoursInvoice
    /\ MaxEdit \in Nat

VARIABLES
    hours,          \* the rows of time_entry
    hoursLock,      \* the day through which hours are locked
    billing,        \* the rows each person's request has read and means to bill
    invoiced,       \* the lines of each invoice of hours
    touched,        \* entries corrected while somebody was billing them
    edits

varsTimesheet == << hours, hoursLock, billing, invoiced, touched, edits >>

NoEntry == [by |-> Nobody, was |-> "never"]
Deleted == [by |-> Nobody, was |-> "deleted"]
Rows == {e \in TimeEntry : hours[e] \notin {NoEntry, Deleted}}

InitTimesheet ==
    /\ hours = [e \in TimeEntry |-> NoEntry]
    /\ hoursLock = 0
    /\ billing = [p \in Person |-> {}]
    /\ invoiced = [i \in HoursInvoice |-> {}]
    /\ touched = {}
    /\ edits = 0

-----------------------------------------------------------------------------
\* The person's own rate before the project's, the newest one of either.
ResolveSats(project, p, day) ==
    LET own == {r \in ProjectRate : r.project = project /\ r.person = p}
        default == {r \in ProjectRate : r.project = project /\ r.person = Nobody}
        rows == IF HasRate(own, day) THEN own ELSE default
    IN {r.value : r \in InForce(rows, day)}

\* Billable hours without a rate are refused; unbillable ones have none.
ResolveBilling(p, draft, override) ==
    CASE ~ draft.billable              -> {0}
      [] draft.billable /\ override    -> {draft.rate}
      [] OTHER                         -> IF draft.project = NoProject THEN {}
                                          ELSE ResolveSats(draft.project, p, draft.day)

HoursRow(p, draft, rate, invoice) ==
    [by |-> p, day |-> draft.day, minutes |-> draft.minutes, project |-> draft.project,
     billable |-> draft.billable, rate |-> rate, invoice |-> invoice]

Locked(day) == day <= hoursLock

CreateTimeEntry(e, p, draft, override) ==
    \E rate \in ResolveBilling(p, draft, override) :
        /\ hours[e] = NoEntry
        /\ ~ Locked(draft.day)
        /\ hours' = [hours EXCEPT ![e] = HoursRow(p, draft, rate, NoInvoice)]

LogHours(p, e, draft) ==
    /\ Allowed(p, "TimesheetWriteOwn")
    /\ \E override \in {FALSE, Allowed(p, "TimesheetRateWrite")} :
          CreateTimeEntry(e, p, draft, override)
    /\ UNCHANGED << hoursLock, billing, invoiced, touched, edits >>

\* timesheet_entry_guard: billed or locked hours stand.
Editable(e) == hours[e].invoice = NoInvoice /\ ~ Locked(hours[e].day)

BeingBilled(e) == \E p \in Person : \E r \in billing[p] : r.entry = e

\* The rate follows whoever did the work, not whoever corrects it.
UpdateTimeEntry(e, p, ownOnly, draft, override) ==
    \E rate \in ResolveBilling(hours[e].by, draft, override) :
        /\ e \in Rows
        /\ ownOnly => hours[e].by = p
        /\ Editable(e)
        /\ ~ Locked(draft.day)
        /\ hours' = [hours EXCEPT ![e] = HoursRow(hours[e].by, draft, rate, NoInvoice)]

CorrectHours(p, e, draft) ==
    /\ edits < MaxEdit
    /\ Allowed(p, "TimesheetWriteOwn")
    /\ \E override \in {FALSE, Allowed(p, "TimesheetRateWrite")} :
          UpdateTimeEntry(e, p, ~ Allowed(p, "TimesheetWriteAll"), draft, override)
    /\ touched' = IF BeingBilled(e) THEN touched \cup {e} ELSE touched
    /\ edits' = edits + 1
    /\ UNCHANGED << hoursLock, billing, invoiced >>

DeleteTimeEntry(e, p, ownOnly) ==
    /\ e \in Rows
    /\ ownOnly => hours[e].by = p
    /\ Editable(e)
    /\ hours' = [hours EXCEPT ![e] = Deleted]

DeleteHours(p, e) ==
    /\ edits < MaxEdit
    /\ Allowed(p, "TimesheetWriteOwn")
    /\ DeleteTimeEntry(e, p, ~ Allowed(p, "TimesheetWriteAll"))
    /\ edits' = edits + 1
    /\ UNCHANGED << hoursLock, billing, invoiced, touched >>

\* The newest row governs, so an earlier day opens the month again.
SetTimesheetLock(p, day) ==
    /\ edits < MaxEdit
    /\ Allowed(p, "TimesheetLock")
    /\ hoursLock' = day
    /\ edits' = edits + 1
    /\ UNCHANGED << hours, billing, invoiced, touched >>

-----------------------------------------------------------------------------
(***************************************************************************)
(* Billing.                                                                *)
(***************************************************************************)
UnbilledRows == {e \in Rows : hours[e].billable /\ hours[e].invoice = NoInvoice}

\* A filter or a selection by hand; every chosen row must be unbilled.
ChooseHours(p, chosen) ==
    /\ chosen # {}
    /\ chosen \subseteq UnbilledRows
    /\ billing' = [billing EXCEPT ![p] = {[entry |-> e, row |-> hours[e]] : e \in chosen}]

Bill(p, chosen) ==
    /\ Allowed(p, "TimesheetBill")
    /\ billing[p] = {}
    /\ ChooseHours(p, chosen)
    /\ UNCHANGED << hours, hoursLock, invoiced, touched, edits >>

\* One line for each project and rate.
Groups(rows) == {[project |-> r.row.project, rate |-> r.row.rate] : r \in rows}

MilliHours(minutes) == (minutes * 1000 + 30) \div 60

HourLine(group, rows) ==
    [project |-> group.project, price |-> group.rate,
     quantity |-> MilliHours(MapThenSumSet(LAMBDA r : r.row.minutes,
                     {r \in rows : r.row.project = group.project /\ r.row.rate = group.rate}))]

HourLines(rows) == {HourLine(g, rows) : g \in Groups(rows)}

\* Faulty: the update does not ask whether another invoice has the rows.
MerkAgain(entries, i) ==
    /\ entries \subseteq Rows
    /\ hours' = [e \in TimeEntry |-> IF e \in entries THEN [hours[e] EXCEPT !.invoice = i]
                                     ELSE hours[e]]

\* Only that no other invoice has them; whether they are as they were is not asked.
MerkFakturert(entries, i) ==
    /\ \A e \in entries : e \in Rows /\ hours[e].invoice = NoInvoice
    /\ hours' = [e \in TimeEntry |-> IF e \in entries THEN [hours[e] EXCEPT !.invoice = i]
                                     ELSE hours[e]]

\* The invoice and the marks in one transaction, which may also fail.
BillHours(p, i) ==
    LET entries == {r.entry : r \in billing[p]} IN
    /\ billing[p] # {}
    /\ invoiced[i] = {}
    /\ \/ /\ MerkFakturert(entries, i)
          /\ invoiced' = [invoiced EXCEPT ![i] = HourLines(billing[p])]
       \/ UNCHANGED << hours, invoiced >>
    /\ billing' = [billing EXCEPT ![p] = {}]
    /\ UNCHANGED << hoursLock, touched, edits >>

NextTimesheet ==
    \/ \E p \in Person, e \in TimeEntry, draft \in TimeDraft :
          LogHours(p, e, draft) \/ CorrectHours(p, e, draft)
    \/ \E p \in Person, e \in TimeEntry : DeleteHours(p, e)
    \/ \E p \in Person, day \in WorkDay \cup {0} : SetTimesheetLock(p, day)
    \/ \E p \in Person, chosen \in SUBSET TimeEntry : Bill(p, chosen)
    \/ \E p \in Person, i \in HoursInvoice : BillHours(p, i)

SpecTimesheet == InitTimesheet /\ [][NextTimesheet]_varsTimesheet

-----------------------------------------------------------------------------
TypeOKTimesheet ==
    /\ \A e \in TimeEntry :
          \/ hours[e] \in {NoEntry, Deleted}
          \/ /\ hours[e].by \in Person
             /\ hours[e].minutes \in 1..1440
             /\ hours[e].invoice \in HoursInvoice \cup {NoInvoice}
    /\ hoursLock \in WorkDay \cup {0}
    /\ \A p \in Person : \A r \in billing[p] : r.entry \in TimeEntry
    /\ \A i \in HoursInvoice : \A l \in invoiced[i] : l.project \in Project \cup {NoProject}
    /\ edits \in 0..MaxEdit

Marked(i) == {e \in Rows : hours[e].invoice = i}

(***************************************************************************)
(* Hours are billed once, and for what they are: the lines of an invoice   *)
(* are those of the rows marked with it, however many people bill the same *)
(* hours at once and whatever is deleted meanwhile, unless one of its rows *)
(* was corrected between bill_hours reading it and marking it.             *)
(***************************************************************************)
HoursBilledOnce ==
    \A i \in HoursInvoice :
        Marked(i) \cap touched = {} =>
            invoiced[i] = HourLines({[entry |-> e, row |-> hours[e]] : e \in Marked(i)})

=============================================================================
