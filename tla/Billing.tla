------------------------------ MODULE Billing ------------------------------
(***************************************************************************)
(* What one customer company pays for the service.  Coverage opens and     *)
(* ends by hand, by the payment provider's events, and by the follow-up    *)
(* of unpaid invoices; invoices come from a monthly run and from the       *)
(* provider's payments.  Events of the provider arrive late, twice, in any *)
(* order or not at all.                                                    *)
(***************************************************************************)
EXTENDS Reminders

CONSTANTS
    Subscription, StripePayment,
    MonthlyRun,         \* monthly runs that may overlap
    Webhook,        \* the worker that restores after a card payment
    MonthLength, DueDays, TrialDays, GraceDays, BlockAfterDue,
    MonthlyGross,
    LastBillingDay, \* bound: days
    MaxCoverage,    \* bound: rows of coverage
    MaxClaim,       \* bound: invoices
    MaxBillingTrouble \* bound: crashes of a worker

ASSUME BillingAssumption ==
    /\ MonthLength \in Nat \ {0} /\ LastBillingDay \in Nat \ {0}
    /\ MonthlyGross \in Nat /\ DueDays \in Nat /\ BlockAfterDue \in Nat
    /\ "run" \notin StripePayment     \* names an invoice's source beside them
    /\ Webhook \notin Follower

VARIABLES
    cardRail,       \* the installation has a card provider
    coverage,       \* the rows of abonnement: from, to, by, endedBy
    provider,       \* at the provider: a subscription's state, the payments it took
    known,          \* our mirror of a subscription: "unknown", "live", "canceled"
    billed,         \* beside each claim: month, its source, whether a charge went out
    monthRun,       \* the invoice each month's run row names
    charge,         \* what kortbetaling holds for each invoice's own charge
    bankPaid,       \* invoices a bank payment has been matched with
    listed,         \* runs that have read their list of customers
    starting,       \* people whose start has passed its checks
    follow,         \* where each worker of the follow-up is
    trail,          \* the rows of abonnement_oppfolging
    unlogged,       \* coverage was moved by a worker that did not log it, or by two at once
    billingTrouble

varsBilling == << cardRail, coverage, provider, known, billed, monthRun, charge, bankPaid, listed,
                 starting, follow, trail, unlogged, billingTrouble, varsReminders >>

MonthOf1(day) == (day - 1) \div MonthLength
FirstOf(month) == month * MonthLength + 1
BillingMonth == 0..MonthOf1(LastBillingDay)
OpenEnd == LastBillingDay + 2
Worker == Follower \cup {Webhook}
Resting == [pc |-> "idle", snap |-> {}, left |-> {}]

InitBilling ==
    /\ InitReminders
    /\ cardRail \in BOOLEAN
    /\ coverage = << >>
    /\ provider = [s \in Subscription |-> [state |-> "none", paid |-> {}]]
    /\ known = [s \in Subscription |-> "unknown"]
    /\ billed = << >>
    /\ monthRun = [m \in BillingMonth |-> 0]
    /\ charge = << >>
    /\ bankPaid = {}
    /\ listed = {} /\ starting = {}
    /\ follow = [w \in Worker |-> Resting]
    /\ trail = << >>
    /\ unlogged = FALSE
    /\ billingTrouble = 0

-----------------------------------------------------------------------------
CoveredOn(day) == \E i \in DOMAIN coverage : coverage[i].from <= day /\ day < coverage[i].to
OpenRows == {i \in DOMAIN coverage : coverage[i].to = OpenEnd}
Ended(today) == {coverage[i].to : i \in {i \in DOMAIN coverage : coverage[i].to <= today}}

\* Covered; on trial; in the days of grace after either; blocked.
Status(today) ==
    LET trial == 1 + TrialDays
        basis == Max(Ended(today) \cup {trial})
    IN IF CoveredOn(today) THEN "aktiv"
       ELSE IF Ended(today) = {} /\ today < trial THEN "prove"
       ELSE IF today < basis + GraceDays THEN "frist" ELSE "sperret"

OpenCoverage(by) ==
    /\ Len(coverage) < MaxCoverage
    /\ coverage' = Append(coverage, [from |-> remindDay, to |-> OpenEnd, by |-> by, endedBy |-> "none"])

\* Every open row ends, a day after it began at the earliest.
Shortest(from, to) == IF to > from THEN to ELSE from + 1
CloseCoverage(to, by) ==
    coverage' = [i \in DOMAIN coverage |->
        IF i \in OpenRows THEN [coverage[i] EXCEPT !.to = Shortest(coverage[i].from, to), !.endedBy = by]
        ELSE coverage[i]]

LiveKnown == {s \in Subscription : known[s] = "live"}

\* Everything but the coverage and what the caller names.
RestOfBilling == << cardRail, provider, billed, monthRun, charge, bankPaid, listed, varsReminders >>

OpsOpens ==
    /\ OpenCoverage("ops")
    /\ UNCHANGED << RestOfBilling, known, starting, follow, trail, unlogged, billingTrouble >>
OpsCloses ==
    /\ OpenRows # {}
    /\ CloseCoverage(remindDay, "ops")
    /\ UNCHANGED << RestOfBilling, known, starting, follow, trail, unlogged, billingTrouble >>

\* Without a card provider the portal opens the coverage; checks come first.
StartSubscription(p) ==
    /\ Allowed(p, "CompanyAdmin")
    /\ LiveKnown = {} /\ p \notin starting
    /\ ~ cardRail /\ Status(remindDay) # "aktiv"
    /\ starting' = starting \cup {p}
    /\ UNCHANGED << RestOfBilling, known, coverage, follow, trail, unlogged, billingTrouble >>
OpenStarted(p) ==
    /\ p \in starting
    /\ OpenCoverage("portal")
    /\ starting' = starting \ {p}
    /\ UNCHANGED << RestOfBilling, known, follow, trail, unlogged, billingTrouble >>

-----------------------------------------------------------------------------
(***************************************************************************)
(* The provider, and its events.                                           *)
(***************************************************************************)
AtProvider(s, state, paid) ==
    /\ provider' = [provider EXCEPT ![s] = [state |-> state, paid |-> paid]]
    /\ UNCHANGED << cardRail, coverage, known, billed, monthRun, charge, bankPaid, listed, starting,
                    follow, trail, unlogged, billingTrouble, varsReminders >>

Checkout(p, s) ==
    /\ Allowed(p, "CompanyAdmin") /\ cardRail /\ LiveKnown = {}
    /\ provider[s].state = "none"
    /\ AtProvider(s, "live", {})
ProviderCharges(s, i) ==
    /\ provider[s].state = "live" /\ \A z \in Subscription : i \notin provider[z].paid
    /\ AtProvider(s, "live", provider[s].paid \cup {i})
ProviderEnds(s) == provider[s].state = "live" /\ AtProvider(s, "ended", provider[s].paid)

\* New: row and coverage together.  Known: only the mirrored status changes.
SubscriptionCreated(s) ==
    /\ provider[s].state # "none"
    /\ known[s] = "unknown" /\ LiveKnown = {}
    /\ known' = [known EXCEPT ![s] = "live"]
    /\ IF OpenRows = {} THEN OpenCoverage("stripe") ELSE UNCHANGED coverage
    /\ UNCHANGED << RestOfBilling, starting, follow, trail, unlogged, billingTrouble >>

\* Only a live row ends, and the coverage with it.
SubscriptionDeleted(s) ==
    /\ provider[s].state = "ended"
    /\ known[s] = "live"
    /\ known' = [known EXCEPT ![s] = "canceled"]
    /\ CloseCoverage(remindDay, "stripe")
    /\ UNCHANGED << RestOfBilling, starting, follow, trail, unlogged, billingTrouble >>

-----------------------------------------------------------------------------
(***************************************************************************)
(* Invoices.                                                               *)
(***************************************************************************)
Invoice(month, due, remaining, source, charged) ==
    /\ Len(claims) < MaxClaim
    /\ claims' = Append(claims, [due |-> due, amount |-> MonthlyGross, remaining |-> remaining])
    /\ billed' = Append(billed, [month |-> month, source |-> source, charged |-> charged])
    /\ charge' = Append(charge, "none")
    /\ UNCHANGED << remindDay, reminders, reminding, overlapped >>

\* Faulty: a month is invoiced again.
MonthAlwaysFree(month) == TRUE
MonthFree(month) == monthRun[month] = 0

\* Everyone with coverage on the first and no live subscription, read once.
ReadCustomers(r) ==
    /\ r \notin listed
    /\ CoveredOn(FirstOf(MonthOf1(remindDay))) /\ LiveKnown = {}
    /\ listed' = listed \cup {r}
    /\ UNCHANGED << cardRail, coverage, provider, known, billed, monthRun, charge, bankPaid, starting,
                    follow, trail, unlogged, billingTrouble, varsReminders >>

\* Invoice and run row commit together; the charge of a stored card follows.
InvoiceOne(r) ==
    LET month == MonthOf1(remindDay) IN
    /\ r \in listed
    /\ listed' = listed \ {r}
    /\ \/ /\ MonthFree(month)
          /\ \E charged \in {FALSE, cardRail} : Invoice(month, remindDay + DueDays, MonthlyGross, "run", charged)
          /\ monthRun' = [monthRun EXCEPT ![month] = Len(claims')]
       \/ UNCHANGED << monthRun, billed, charge, varsReminders >>
    /\ UNCHANGED << cardRail, coverage, provider, known, bankPaid, starting,
                    follow, trail, unlogged, billingTrouble >>

Booked == {billed[n].source : n \in DOMAIN billed}

\* invoice.paid: invoiced, paid and matched in one transaction; the month
\* is marked as invoiced if it was not.  An unknown subscription's is lost.
InvoicePaid(s, i) ==
    LET month == MonthOf1(remindDay) IN
    /\ i \in provider[s].paid
    /\ known[s] # "unknown"
    /\ i \notin Booked
    /\ Invoice(month, remindDay, 0, i, FALSE)
    /\ monthRun' = IF MonthFree(month) THEN [monthRun EXCEPT ![month] = Len(claims')] ELSE monthRun
    /\ UNCHANGED << cardRail, coverage, provider, known, bankPaid, listed, starting,
                    follow, trail, unlogged, billingTrouble >>

\* The first outcome of a charge stands; a payment is matched unseen, and then
\* the coverage is looked after.
CardOutcome(n, succeeded) ==
    /\ billed[n].charged /\ charge[n] = "none"
    /\ charge' = [charge EXCEPT ![n] = IF succeeded THEN "succeeded" ELSE "failed"]
    /\ IF succeeded
       THEN /\ follow[Webhook] = Resting
            /\ claims' = [claims EXCEPT ![n].remaining = @ - claims[n].amount]
            /\ follow' = [follow EXCEPT ![Webhook].pc = "restore"]
       ELSE UNCHANGED << claims, follow >>
    /\ UNCHANGED << cardRail, coverage, provider, known, billed, monthRun, bankPaid, listed, starting,
                    trail, unlogged, billingTrouble, remindDay, reminders, reminding, overlapped >>

BankPays(n) ==
    /\ claims[n].remaining > 0
    /\ claims' = [claims EXCEPT ![n].remaining = 0]
    /\ bankPaid' = bankPaid \cup {n}
    /\ UNCHANGED << cardRail, coverage, provider, known, billed, monthRun, charge, listed, starting,
                    follow, trail, unlogged, billingTrouble, remindDay, reminders, reminding, overlapped >>

-----------------------------------------------------------------------------
(***************************************************************************)
(* The follow-up: remind, then end coverage, then restore it, from one     *)
(* snapshot of what was open.                                              *)
(***************************************************************************)
Unfollowed == << cardRail, provider, known, billed, monthRun, charge, bankPaid, listed, starting >>
At(w, pc) == follow[w].pc = pc
GoTo(w, pc) == follow' = [follow EXCEPT ![w].pc = pc]

Snapshot(f) ==
    /\ At(f, "idle")
    /\ OpenClaims # {} \/ trail # << >>
    /\ follow' = [follow EXCEPT ![f] = [pc |-> "remind", snap |-> OpenClaims, left |-> OpenClaims]]
    /\ UNCHANGED << Unfollowed, coverage, trail, unlogged, billingTrouble, varsReminders >>

\* A claim is reminded of, or not due for it, or fails and is passed over.
RemindOne(f) ==
    /\ At(f, "remind") /\ reminding[f] = NotReminding
    /\ \E x \in follow[f].left :
          /\ Purr(f, x) \/ UNCHANGED varsReminders
          /\ follow' = [follow EXCEPT ![f].left = @ \ {x}]
    /\ UNCHANGED << Unfollowed, coverage, trail, unlogged, billingTrouble >>
RecordOne(f) ==
    /\ CreateReminder(f) \/ ReminderFails(f)
    /\ UNCHANGED << Unfollowed, coverage, follow, trail, unlogged, billingTrouble >>

\* Reminded of before this run, and long overdue.
Ripe(x) == \E l \in x.last : Rung(l.step) >= 2 /\ remindDay >= x.due + BlockAfterDue

EndCoverage(f) ==
    /\ At(f, "remind") /\ follow[f].left = {} /\ reminding[f] = NotReminding
    /\ IF (\E x \in follow[f].snap : Ripe(x)) /\ OpenRows # {}
       THEN CloseCoverage(remindDay, "machine") /\ GoTo(f, "blocked")
       ELSE UNCHANGED coverage /\ GoTo(f, "restore")
    /\ UNCHANGED << Unfollowed, trail, unlogged, billingTrouble, varsReminders >>
LogBlock(f) ==
    /\ At(f, "blocked")
    /\ trail' = Append(trail, "sperret")
    /\ GoTo(f, "restore")
    /\ UNCHANGED << Unfollowed, coverage, unlogged, billingTrouble, varsReminders >>

LastIsBlock == trail # << >> /\ trail[Len(trail)] = "sperret"
\* Faulty: coverage that anybody ended is restored.
AnyEnded(w) == coverage # << >> /\ OpenRows = {} /\ OpenClaims = {}

Restorable(w) == LastIsBlock /\ OpenClaims = {}
CheckRestore(w) ==
    /\ At(w, "restore")
    /\ IF Restorable(w)
       THEN /\ GoTo(w, "reopen")
            /\ unlogged' = (unlogged \/ \E v \in Worker \ {w} : follow[v].pc \in {"reopen", "reopened"})
       ELSE /\ follow' = [follow EXCEPT ![w] = Resting]
            /\ UNCHANGED unlogged
    /\ UNCHANGED << Unfollowed, coverage, trail, billingTrouble, varsReminders >>
Reopen(w) ==
    /\ At(w, "reopen")
    /\ OpenCoverage("machine")
    /\ GoTo(w, "reopened")
    /\ UNCHANGED << Unfollowed, trail, unlogged, billingTrouble, varsReminders >>
LogRestored(w) ==
    /\ At(w, "reopened")
    /\ trail' = Append(trail, "gjenopprettet")
    /\ follow' = [follow EXCEPT ![w] = Resting]
    /\ UNCHANGED << Unfollowed, coverage, unlogged, billingTrouble, varsReminders >>

\* A worker dies; what it had not written is not written.
FollowerCrash(w) ==
    /\ billingTrouble < MaxBillingTrouble
    /\ follow[w] # Resting
    /\ follow' = [follow EXCEPT ![w] = Resting]
    /\ reminding' = [d \in Dunner |-> IF d = w THEN NotReminding ELSE reminding[d]]
    /\ unlogged' = (unlogged \/ follow[w].pc \in {"blocked", "reopened"})
    /\ billingTrouble' = billingTrouble + 1
    /\ UNCHANGED << Unfollowed, coverage, trail, remindDay, claims, reminders, overlapped >>

TomorrowBilling ==
    /\ remindDay < LastBillingDay
    /\ listed = {}
    /\ \A w \in Worker : follow[w] = Resting
    /\ \A w \in Dunner : reminding[w] = NotReminding
    /\ remindDay' = remindDay + 1
    /\ UNCHANGED << Unfollowed, coverage, follow, trail, unlogged, billingTrouble,
                    claims, reminders, reminding, overlapped >>

-----------------------------------------------------------------------------
\* Either rail to an invoice and its payment.
NextInvoices ==
    \/ OpsOpens \/ OpsCloses \/ TomorrowBilling
    \/ \E r \in MonthlyRun : ReadCustomers(r) \/ InvoiceOne(r)
    \/ \E n \in DOMAIN claims : BankPays(n) \/ \E ok \in BOOLEAN : CardOutcome(n, ok)
    \/ \E w \in Worker : CheckRestore(w) \/ Reopen(w) \/ LogRestored(w) \/ FollowerCrash(w)

NextSubscriptions ==
    \/ \E p \in Person :
          \/ StartSubscription(p) \/ OpenStarted(p)
          \/ \E s \in Subscription : Checkout(p, s)
    \/ \E s \in Subscription :
          \/ ProviderEnds(s) \/ SubscriptionCreated(s) \/ SubscriptionDeleted(s)
          \/ \E i \in StripePayment : ProviderCharges(s, i) \/ InvoicePaid(s, i)

NextFollowUp ==
    \/ \E f \in Follower : Snapshot(f) \/ RemindOne(f) \/ RecordOne(f) \/ EndCoverage(f) \/ LogBlock(f)
    \/ NextPersonReminds /\ UNCHANGED << Unfollowed, coverage, follow, trail, unlogged, billingTrouble >>

NextBilling == NextInvoices \/ NextSubscriptions \/ NextFollowUp

SpecBilling == InitBilling /\ [][NextBilling]_varsBilling

-----------------------------------------------------------------------------
TypeOKBilling ==
    /\ \A i \in DOMAIN coverage : coverage[i].to > coverage[i].from
    /\ known \in [Subscription -> {"unknown", "live", "canceled"}]
    /\ DOMAIN billed = DOMAIN claims /\ DOMAIN charge = DOMAIN claims
    /\ \A i \in DOMAIN trail : trail[i] \in {"sperret", "gjenopprettet"}
    /\ \A w \in Worker : follow[w].snap \in SUBSET [claim : DOMAIN claims, due : Nat, last : SUBSET {reminders[k] : k \in DOMAIN reminders}]

(***************************************************************************)
(* Nothing is billed twice: overlapping runs give a month one invoice,     *)
(* which its run row names, and none after a payment of the provider's has *)
(* marked the month; a payment of the provider's is booked once however    *)
(* often it is delivered, and is settled from the start; an invoice is     *)
(* paid beyond its amount only when the bank paid what the card paid too.  *)
(***************************************************************************)
BilledOnce ==
    /\ \A n, k \in DOMAIN billed :
          n < k => /\ billed[n].month = billed[k].month => billed[k].source # "run"
                   /\ billed[n].source # "run" => billed[n].source # billed[k].source
    /\ \A n \in DOMAIN billed :
          /\ billed[n].source = "run" => monthRun[billed[n].month] = n
          /\ billed[n].source # "run" => claims[n].remaining = 0
          /\ claims[n].remaining < 0 => n \in bankPaid /\ charge[n] = "succeeded"

Rows(by) == {i \in DOMAIN coverage : coverage[i].by = by}
BlockedRows == {i \in DOMAIN coverage : coverage[i].endedBy = "machine"}

(***************************************************************************)
(* The follow-up is fair.  A claim climbs the ladder of reminders by the   *)
(* rules; coverage ends for want of payment only after a demand; and the   *)
(* machine restores what the machine ended, once for each time, however    *)
(* webhook and sweep run into each other, unless a worker died between a   *)
(* change of the coverage and its entry in the trail, or two restored at   *)
(* once.                                                                   *)
(***************************************************************************)
FollowUpIsFair ==
    /\ ClimbsTheLadder
    /\ BlockedRows # {} => \E k \in DOMAIN reminders :
          Rung(reminders[k].step) >= 2 /\ claims[reminders[k].claim].due + BlockAfterDue <= remindDay
    /\ unlogged \/ Cardinality(Rows("machine")) <= Cardinality(BlockedRows)

=============================================================================
