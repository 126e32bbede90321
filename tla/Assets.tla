------------------------------- MODULE Assets -------------------------------
(***************************************************************************)
(* The register of fixed assets and the accrual plans: what the monthly    *)
(* job and the portal's button post, month by month, each month in a       *)
(* transaction of its own, and the disposal that closes an asset.          *)
(* A month has two days here, one within it and its last.                  *)
(***************************************************************************)
EXTENDS Access, Money

CONSTANTS
    Asset,
    AssetTerms,     \* of each: the day it was acquired, cost, residual value, life, tax group
    AccrualPlan,
    PlanTerms,      \* of each: total, first and last month
    Runner,         \* what may be posting accruals at the same time
    LastMonth,      \* bound: the last month of the calendar
    Consideration,  \* what an asset may be sold for
    GroupRate,      \* the registered rates of each tax group: from the year, value
    MaxLockMove     \* bound: times the period lock is moved

Day == 0..(2 * LastMonth + 1)
MonthOfDay(d) == d \div 2
LastDay(month) == 2 * month + 1

ASSUME AssetsAssumption ==
    /\ \A a \in Asset : LET t == AssetTerms[a] IN
          /\ t.acquired \in Day /\ t.life > 0
          /\ 0 <= t.residual /\ t.cost - t.residual >= t.life
    /\ \A p \in AccrualPlan : LET t == PlanTerms[p] IN
          /\ MonthCount(t.first, t.last) > 0
          /\ Magnitude(t.total) >= MonthCount(t.first, t.last)

ASSUME RegisterAssumption ==
    /\ LastMonth \in Nat
    /\ IsFiniteSet(Asset) /\ Asset \cap AccrualPlan = {}
    /\ \A a \in Asset : LET t == AssetTerms[a] IN
          t.cost \in Int /\ t.residual \in Int /\ t.life \in Int
    /\ \A p \in AccrualPlan : LET t == PlanTerms[p] IN
          t.total \in Int /\ t.first \in Int /\ t.last \in Int
    /\ \A group \in DOMAIN GroupRate : \A r \in GroupRate[group] : r.value \in 0..BasisPoints

VARIABLES
    registered,     \* the assets and plans that are registered
    today,
    lockedThrough,  \* the period lock of the company, and how often it was moved
    depreciated,    \* the months posted for each asset
    refused,        \* the months of assets and plans whose failure was logged
    disposal,       \* of each asset: NotDisposed, or the day, book value and gain
    carried,        \* what vouchers have put on the asset's balance account, by day
    late,           \* depreciation posted on an asset after its disposal
    accrued,        \* the months posted for each plan
    parked,         \* what plans have put on their balance accounts
    stopped,        \* the day each plan was stopped, or NotStopped
    accruing        \* how far each runner is in the plan it is posting

varsAssets == << registered, today, lockedThrough, depreciated, refused, disposal, carried, late,
                 accrued, parked, stopped, accruing >>

NotDisposed == [day |-> -1]
NotStopped == -1
NotAccruing == [plan |-> Nobody]

InitAssets ==
    /\ registered = {}
    /\ today = 0
    /\ lockedThrough = [day |-> -1, moves |-> 0]
    /\ depreciated = [a \in Asset |-> {}]
    /\ refused = {}
    /\ disposal = [a \in Asset |-> NotDisposed]
    /\ carried = [a \in Asset |-> [d \in Day |-> 0]]
    /\ late = [a \in Asset |-> 0]
    /\ accrued = [p \in AccrualPlan |-> {}]
    /\ parked = [p \in AccrualPlan |-> 0]
    /\ stopped = [p \in AccrualPlan |-> NotStopped]
    /\ accruing = [r \in Runner |-> NotAccruing]

unchangedAssets == UNCHANGED << depreciated, disposal, carried, late >>
unchangedPlans == UNCHANGED << accrued, parked, stopped, accruing >>

CanPost(day) == day > lockedThrough.day

TomorrowAssets ==
    /\ today + 1 \in Day
    /\ today' = today + 1
    /\ UNCHANGED << registered, lockedThrough, refused >> /\ unchangedAssets /\ unchangedPlans

\* The period lock is set and taken back by people with another right.
MoveLock(d) ==
    /\ lockedThrough.moves < MaxLockMove
    /\ lockedThrough' = [day |-> d, moves |-> lockedThrough.moves + 1]
    /\ UNCHANGED << registered, today, refused >> /\ unchangedAssets /\ unchangedPlans

-----------------------------------------------------------------------------
(***************************************************************************)
(* Fixed assets.                                                           *)
(***************************************************************************)
\* The voucher of the purchase is posted elsewhere, on the day it is bought.
CreateAsset(p, a) ==
    /\ Allowed(p, "AssetWrite")
    /\ a \notin registered
    /\ registered' = registered \cup {a}
    /\ carried' = [carried EXCEPT ![a][AssetTerms[a].acquired] = AssetTerms[a].cost]
    /\ UNCHANGED << today, lockedThrough, depreciated, refused, disposal, late >>
    /\ unchangedPlans

PostedMonths(a) == depreciated[a]
NextPeriod(a) ==
    IF PostedMonths(a) = {} THEN MonthOfDay(AssetTerms[a].acquired) ELSE Max(PostedMonths(a)) + 1
MonthNumber(a, month) == month - MonthOfDay(AssetTerms[a].acquired) + 1

Depreciated(a, months) ==
    MapThenSumSet(LAMBDA m : Depreciation(AssetTerms[a].cost, AssetTerms[a].residual,
                                          AssetTerms[a].life, MonthNumber(a, m)), months)

\* The asset was not disposed of in that month or before it.
OwnedIn(a, month) ==
    disposal[a] # NotDisposed => month < MonthOfDay(disposal[a].day)

Due(a, month, through) ==
    /\ LastDay(month) <= through
    /\ MonthNumber(a, month) <= AssetTerms[a].life
    /\ OwnedIn(a, month)

\* The oldest month that is due: the asset's row is held until voucher and log commit.
DepreciateNext(a, through) ==
    LET month == NextPeriod(a) IN
    /\ a \in registered
    /\ Due(a, month, through)
    /\ IF CanPost(LastDay(month))
       THEN LET amount == Depreciated(a, {month}) IN
            /\ depreciated' = [depreciated EXCEPT ![a] = @ \cup {month}]
            /\ carried' = [carried EXCEPT ![a][LastDay(month)] = @ - amount]
            /\ late' = [late EXCEPT ![a] = IF disposal[a] = NotDisposed THEN @ ELSE @ + amount]
            /\ UNCHANGED refused
       ELSE /\ refused' = refused \cup {<< a, month >>}
            /\ UNCHANGED << depreciated, carried, late >>
    /\ UNCHANGED << registered, today, lockedThrough, disposal >> /\ unchangedPlans

\* The portal's button, through a day of the caller's choice, or today.
DepreciateDue(p, a, through) == Allowed(p, "AssetWrite") /\ DepreciateNext(a, through)

\* The monthly job does every company.
DepreciateAll(a) == DepreciateNext(a, today)

BookValue(a) == AssetTerms[a].cost - Depreciated(a, depreciated[a])

\* What is left of the book value goes out, under the same row lock.
DisposeAsset(p, a, day, consideration) ==
    /\ Allowed(p, "AssetWrite")
    /\ a \in registered
    /\ disposal[a] = NotDisposed
    /\ day >= AssetTerms[a].acquired
    /\ BookValue(a) # 0 \/ consideration # 0 => CanPost(day)
    /\ disposal' = [disposal EXCEPT ![a] =
          [day |-> day, value |-> BookValue(a), proceeds |-> consideration,
           gain |-> GainOnDisposal(BookValue(a), consideration)]]
    /\ carried' = [carried EXCEPT ![a][day] = @ - BookValue(a)]
    /\ UNCHANGED << registered, today, lockedThrough, depreciated, refused, late >>
    /\ unchangedPlans

-----------------------------------------------------------------------------
(***************************************************************************)
(* The report of balances for a year, here one month of the calendar: the  *)
(* tax balance of a group, year for year from the first, and the book      *)
(* value at the end of the year.                                           *)
(***************************************************************************)
InGroup(group) == {a \in registered : a \in Asset /\ AssetTerms[a].group = group}
Additions(group, year) ==
    MapThenSumSet(LAMBDA a : AssetTerms[a].cost,
                  {a \in InGroup(group) : MonthOfDay(AssetTerms[a].acquired) = year})
Proceeds(group, year) ==
    MapThenSumSet(LAMBDA a : disposal[a].proceeds,
                  {a \in InGroup(group) : /\ disposal[a] # NotDisposed
                                          /\ MonthOfDay(disposal[a].day) = year})

\* A year in which nothing is carried or moved needs no rate; another without one fails.
NoReport == [basis |-> 0, depreciation |-> 0, closing |-> 0, failed |-> FALSE]
NextTaxYear(group, before, year) ==
    LET new == Additions(group, year)
        sold == Proceeds(group, year)
    IN IF before.failed \/ (before.closing = 0 /\ new = 0 /\ sold = 0) THEN before
       ELSE IF ~HasRate(GroupRate[group], year) THEN [NoReport EXCEPT !.failed = TRUE]
       ELSE LET t == TaxDepreciationYear(before.closing, new, sold, RateOn(GroupRate[group], year))
            IN [basis |-> t.basis, depreciation |-> t.depreciation, closing |-> t.closing,
                failed |-> FALSE]

TaxBalance(group, year) ==
    FoldLeft(LAMBDA before, y : NextTaxYear(group, before, y - 1), NoReport,
             [y \in 1..(year + 1) |-> y])

ReportedValue(year) ==
    LET end == LastDay(year) IN
    MapThenSumSet(
        LAMBDA a : AssetTerms[a].cost - Depreciated(a, {m \in depreciated[a] : m <= year}),
        {a \in Asset \cap registered : /\ AssetTerms[a].acquired <= end
                                       /\ disposal[a] = NotDisposed \/ disposal[a].day > end})

-----------------------------------------------------------------------------
(***************************************************************************)
(* Accruals.                                                               *)
(***************************************************************************)
CreateAccrual(p, plan) ==
    /\ Allowed(p, "VoucherPost")
    /\ plan \notin registered
    /\ registered' = registered \cup {plan}
    /\ UNCHANGED << today, lockedThrough, refused >> /\ unchangedAssets /\ unchangedPlans

\* Once; the months that are posted stand.
StopAccrual(p, plan) ==
    /\ Allowed(p, "VoucherPost")
    /\ plan \in registered
    /\ stopped[plan] = NotStopped
    /\ stopped' = [stopped EXCEPT ![plan] = today]
    /\ UNCHANGED << registered, today, lockedThrough, refused >> /\ unchangedAssets
    /\ UNCHANGED << accrued, parked, accruing >>

MonthsOf(plan) == PlanTerms[plan].first .. PlanTerms[plan].last
AmountOf(plan, month) ==
    Plan(PlanTerms[plan].total, PlanTerms[plan].first, PlanTerms[plan].last)
        [month - PlanTerms[plan].first + 1].amount

\* The month has ended, and the plan was not stopped by then.
DueMonth(plan, month, through, stop) ==
    LastDay(month) <= through /\ (stop # NotStopped => stop > LastDay(month))

\* The plan, the day it was stopped and the months that are done are read once.
AccruePlan(r, plan) ==
    /\ plan \in registered
    /\ accruing[r] = NotAccruing
    /\ accruing' = [accruing EXCEPT ![r] =
          [plan |-> plan,
           left |-> {m \in MonthsOf(plan) \ accrued[plan] :
                        DueMonth(plan, m, today, stopped[plan])}]]
    /\ UNCHANGED << registered, today, lockedThrough, refused >> /\ unchangedAssets
    /\ UNCHANGED << accrued, parked, stopped >>

AccrueNow(p, r, plan) == Allowed(p, "VoucherPost") /\ AccruePlan(r, plan)
AccrueAll(r, plan) == AccruePlan(r, plan)

\* Faulty: no index on the months that are posted.
AnyMonth(plan, month) == TRUE
OnlyOnce(plan, month) == month \notin accrued[plan]

\* One month, in a transaction of its own; a failure is logged and the next one goes on.
PostMonth(r) ==
    /\ accruing[r] # NotAccruing
    /\ accruing[r].left # {}
    /\ LET plan == accruing[r].plan
           month == Min(accruing[r].left)
       IN /\ accruing' = [accruing EXCEPT ![r].left = @ \ {month}]
          /\ IF CanPost(LastDay(month)) /\ OnlyOnce(plan, month)
             THEN /\ accrued' = [accrued EXCEPT ![plan] = @ \cup {month}]
                  /\ parked' = [parked EXCEPT ![plan] = @ - AmountOf(plan, month)]
                  /\ UNCHANGED refused
             ELSE /\ refused' = refused \cup {<< plan, month >>}
                  /\ UNCHANGED << accrued, parked >>
    /\ UNCHANGED << registered, today, lockedThrough, stopped >> /\ unchangedAssets

\* The loop is through, or the process is gone in the middle of it.
EndAccruing(r) ==
    /\ accruing[r] # NotAccruing
    /\ accruing' = [accruing EXCEPT ![r] = NotAccruing]
    /\ UNCHANGED << registered, today, lockedThrough, refused, accrued, parked, stopped >>
    /\ unchangedAssets

NextCalendar == TomorrowAssets \/ \E d \in Day \cup {-1} : MoveLock(d)

NextFixedAssets ==
    \/ \E p \in Person, a \in Asset : CreateAsset(p, a)
    \/ \E p \in Person, a \in Asset, d \in Day : DepreciateDue(p, a, d)
    \/ \E a \in Asset : DepreciateAll(a)
    \/ \E p \in Person, a \in Asset, d \in Day, c \in Consideration : DisposeAsset(p, a, d, c)

NextAccruals ==
    \/ \E p \in Person, plan \in AccrualPlan : CreateAccrual(p, plan) \/ StopAccrual(p, plan)
    \/ \E p \in Person, r \in Runner, plan \in AccrualPlan : AccrueNow(p, r, plan)
    \/ \E r \in Runner, plan \in AccrualPlan : AccrueAll(r, plan)
    \/ \E r \in Runner : PostMonth(r) \/ EndAccruing(r)

NextAssets == NextCalendar \/ NextFixedAssets \/ NextAccruals

SpecAssets == InitAssets /\ [][NextAssets]_varsAssets

-----------------------------------------------------------------------------
TypeOKAssets ==
    /\ registered \subseteq Asset \cup AccrualPlan
    /\ today \in Day
    /\ lockedThrough.day \in Day \cup {-1} /\ lockedThrough.moves \in 0..MaxLockMove
    /\ \A a \in Asset :
          /\ \E n \in 0..AssetTerms[a].life :
                depreciated[a] = {MonthOfDay(AssetTerms[a].acquired) + i - 1 : i \in 1..n}
          /\ disposal[a].day \in Day \cup {-1}
          /\ carried[a] \in [Day -> Int] /\ late[a] \in Nat
    /\ \A p \in AccrualPlan : /\ accrued[p] \subseteq MonthsOf(p)
                               /\ parked[p] \in Int /\ stopped[p] \in Day \cup {NotStopped}
    /\ \A r \in Runner : accruing[r].plan \in AccrualPlan \cup {Nobody}

CarriedBy(a, day) == MapThenSumSet(LAMBDA d : carried[a][d], 0..day)

(***************************************************************************)
(* Each øre is posted once, whoever posts it and whenever a month failed:  *)
(* a plan has moved what the months in its log come to, the whole of it    *)
(* when they all are there, and none that ended after it was stopped, also *)
(* by a runner that had read it before; an asset's balance account holds   *)
(* its book value while it is owned and nothing once it is not, but for    *)
(* months before the disposal that are depreciated after it; and the       *)
(* report of balances agrees with the ledger and with the register.        *)
(***************************************************************************)
PlansMovedOnce ==
    \A p \in AccrualPlan :
        /\ parked[p] = -MapThenSumSet(LAMBDA m : AmountOf(p, m), accrued[p])
        /\ accrued[p] = MonthsOf(p) => parked[p] = -PlanTerms[p].total
        /\ stopped[p] # NotStopped => \A m \in accrued[p] : LastDay(m) <= stopped[p]
BookValueIsCarried ==
    \A a \in Asset \cap registered :
        CarriedBy(a, LastDay(LastMonth)) =
            IF disposal[a] = NotDisposed THEN BookValue(a) ELSE -late[a]

\* And the report of a year shows what the ledger held at its end, unless months were
\* depreciated that lie in or after the disposal, or were posted after it.
ReportIsLedger ==
    (\A a \in Asset : late[a] = 0 /\ \A m \in depreciated[a] : OwnedIn(a, m)) =>
        \A y \in 0..LastMonth :
            ReportedValue(y) = MapThenSumSet(LAMBDA a : CarriedBy(a, LastDay(y)),
                                             Asset \cap registered)

\* Unless an asset has been sold, what is left to depreciate for tax is within its cost.
TaxBalanceWithinCost ==
    (\A a \in Asset : disposal[a] = NotDisposed) =>
        \A group \in DOMAIN GroupRate, y \in 0..LastMonth :
            TaxBalance(group, y).closing \in
                0..MapThenSumSet(LAMBDA a : AssetTerms[a].cost, InGroup(group))

MovedOnce == PlansMovedOnce /\ BookValueIsCarried /\ ReportIsLedger /\ TaxBalanceWithinCost

(***************************************************************************)
(* As a test of the code says of a month's run after a disposal: the asset *)
(* that is disposed of gets nothing.                                       *)
(***************************************************************************)
DisposedGetsNothing == \A a \in Asset : late[a] = 0

=============================================================================
