----------------------------- MODULE Reminders -----------------------------
(***************************************************************************)
(* Reminders: the ladder an overdue claim climbs, the rules of each step,  *)
(* its fee and interest.  What a step is checked against is read before    *)
(* the transaction that records it.                                        *)
(***************************************************************************)
EXTENDS Access, Money

CONSTANTS
    Follower,       \* runs of the follow-up; people ask for reminders too
    ReminderRate,   \* dated rates: domain, from, value
    RemindedAs,     \* ways a person asks: step, fee, interest, domain of the ceiling, grace
    ReminderAfter, StepInterval, NoticeGrace, FeeAfter,
    InterestYear,   \* 365 days at rates in hundredths of a percent
    MaxReminder     \* bound: reminders

Step == << "paminnelse", "purring", "inkassovarsel" >>
Rung(step) == CHOOSE i \in DOMAIN Step : Step[i] = step

VARIABLES
    remindDay,      \* today
    claims,         \* invoices: due, amount, what remains
    reminders,      \* the rows of invoice_reminder, in order of arrival
    reminding,      \* the step each worker has prepared
    overlapped      \* claims two workers had prepared a step for at once

varsReminders == << remindDay, claims, reminders, reminding, overlapped >>

Dunner == Person \cup Follower
NotReminding == [claim |-> 0]

InitReminders ==
    /\ remindDay = 1
    /\ claims = << >> /\ reminders = << >>
    /\ reminding = [w \in Dunner |-> NotReminding]
    /\ overlapped = {}

-----------------------------------------------------------------------------
RatesOf(domain) == {r \in ReminderRate : r.domain = domain}

Ceiling(domain, day) == IF HasRate(RatesOf(domain), day) THEN RateOn(RatesOf(domain), day) ELSE 0

InterestDays(due, to) == due + 1..to
InterestKnown(due, to) == \A day \in InterestDays(due, to) : HasRate(RatesOf("forsinkelsesrente"), day)

\* Each rate has its days, and each rate's interest is rounded by itself.
LatePaymentInterest(amount, due, to) ==
    LET DaysAt(r) == {day \in InterestDays(due, to) : r \in InForce(RatesOf("forsinkelsesrente"), day)} IN
    MapThenSumSet(LAMBDA r : RoundDiv(amount * r.value * Cardinality(DaysAt(r)), InterestYear),
                  RatesOf("forsinkelsesrente"))

-----------------------------------------------------------------------------
\* The rows about one claim, as places in the table, and the newest of them.
HistoryOf(n) == {k \in DOMAIN reminders : reminders[k].claim = n}
LastStep(n) == {reminders[k] : k \in {k \in HistoryOf(n) : \A j \in HistoryOf(n) : j <= k}}
WithFee(history) == {k \in history : reminders[k].fee > 0}

\* Faulty: a sterner step does not rule out a milder one.
ValidDownwards(step, sent, grace, due, fee, ceiling, history) ==
    /\ sent > due /\ grace > 0
    /\ fee > 0 => step # "paminnelse" /\ sent >= due + FeeAfter /\ fee <= ceiling

ValidStep(step, sent, grace, due, fee, ceiling, history) ==
    /\ fee >= 0
    /\ sent > due
    /\ \A k \in history : Rung(reminders[k].step) <= Rung(step)
    /\ grace > 0
    /\ step = "inkassovarsel" => grace >= NoticeGrace
    /\ fee > 0 =>
        /\ step # "paminnelse"
        /\ sent >= due + FeeAfter
        /\ fee <= ceiling
        /\ Cardinality(WithFee(history)) < 2

\* The cadence: free reminder, demand with a fee, notice with interest, no more.
NextStep(last, due, today) ==
    IF last = {} THEN (IF today >= due + ReminderAfter THEN {"paminnelse"} ELSE {})
    ELSE {Step[Rung(l.step) + 1] : l \in {l \in last : l.step # "inkassovarsel" /\ today >= l.sent + StepInterval}}

Prepare(w, n, draft) ==
    LET interest == IF draft.interest
                    THEN LatePaymentInterest(claims[n].remaining, claims[n].due, remindDay) ELSE 0
    IN
    /\ reminding[w] = NotReminding
    /\ claims[n].remaining > 0
    /\ draft.interest => InterestKnown(claims[n].due, remindDay)
    /\ ValidStep(draft.step, remindDay, draft.grace, claims[n].due, draft.fee,
                 Ceiling(draft.domain, remindDay), HistoryOf(n))
    /\ reminding' = [reminding EXCEPT ![w] =
          [claim |-> n, step |-> draft.step, sent |-> remindDay, fee |-> draft.fee, interest |-> interest]]
    /\ overlapped' = overlapped \cup {m \in {n} : \E v \in Dunner \ {w} : reminding[v].claim = n}
    /\ UNCHANGED << remindDay, claims, reminders >>

\* Voucher and row in one transaction; nothing that was read is read again.
CreateReminder(w) ==
    /\ reminding[w] # NotReminding
    /\ Len(reminders) < MaxReminder
    /\ reminders' = Append(reminders, reminding[w])
    /\ reminding' = [reminding EXCEPT ![w] = NotReminding]
    /\ UNCHANGED << remindDay, claims, overlapped >>

AskForReminder(p, n, draft) == Allowed(p, "ReminderWrite") /\ Prepare(p, n, draft)

ReminderFails(w) ==
    /\ reminding[w] # NotReminding
    /\ reminding' = [reminding EXCEPT ![w] = NotReminding]
    /\ UNCHANGED << remindDay, claims, reminders, overlapped >>

\* The follow-up's own step on a claim it saw in its snapshot: the fee the
\* register has, or no step at all.
Purr(f, x) ==
    \E step \in NextStep(x.last, x.due, remindDay) :
        /\ step = "purring" => HasRate(RatesOf("standardkompensasjon"), remindDay)
        /\ Prepare(f, x.claim,
             [step |-> step, interest |-> step = "inkassovarsel", domain |-> "standardkompensasjon",
              fee |-> IF step = "purring" THEN Ceiling("standardkompensasjon", remindDay) ELSE 0,
              grace |-> StepInterval])

\* Open claims as a run sees them, with the newest step.
OpenClaims == {[claim |-> n, due |-> claims[n].due, last |-> LastStep(n)] :
                 n \in {n \in DOMAIN claims : claims[n].remaining > 0}}

NextPersonReminds ==
    \E p \in Person :
        \/ \E n \in DOMAIN claims, draft \in RemindedAs : AskForReminder(p, n, draft)
        \/ CreateReminder(p) \/ ReminderFails(p)

\* One way up, free at first, at most two fees and none before its time;
\* unless two workers prepared steps for the claim at once.
ClimbsTheLadder ==
    \A n \in DOMAIN claims \ overlapped :
        /\ \A i, j \in HistoryOf(n) : i < j => Rung(reminders[i].step) <= Rung(reminders[j].step)
        /\ Cardinality(WithFee(HistoryOf(n))) <= 2
        /\ \A i \in WithFee(HistoryOf(n)) :
              reminders[i].step # "paminnelse" /\ reminders[i].sent >= claims[n].due + FeeAfter

=============================================================================
