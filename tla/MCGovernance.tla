---------------------------- MODULE MCGovernance ----------------------------
(***************************************************************************)
(* Who governs a company, and the registers it keeps.  The components      *)
(* share no table, so a behaviour exercises the one that part names.       *)
(***************************************************************************)
EXTENDS Membership, Payroll, Assets, Shares, Billing, TLC

VARIABLE part

CONSTANTS
    ann, ben, robot, own, w1, w2, s1, q1,
    MaxBeside       \* bound: of five things beside the memberships, those in use at once

varsGovernance == << part, varsMembership, varsPayroll, varsAssets, varsShares, varsBilling >>

RolesTried == (Company :> {"admin", own}) @@ (Firm :> {"admin", "ansatt"})
RightsTried == {{"MemberAdmin"}, {"VoucherRead"}}

RolesOfPeople == (ann :> {"admin"}) @@ (robot :> {"bokforing"})
TermsTried ==
    (w1 :> [monthly |-> 505, hourly |-> 211, card |-> "prosent", percent |-> 3301,
            holiday |-> 1020, from |-> 1, to |-> 12]) @@
    (w2 :> [monthly |-> NoWage, hourly |-> 211, card |-> "ingen", percent |-> 0,
            holiday |-> 1200, from |-> 12, to |-> 12])

AgaTried == ("I" :> (11 :> 1410 @@ 12 :> 790)) @@ ("Ia" :> (11 :> 1060 @@ 12 :> 1060))

AssetRegister ==
    (s1 :> [acquired |-> 0, cost |-> 11, residual |-> 1, life |-> 3, group |-> "a"])
PlansTried == (q1 :> [total |-> -8, first |-> 0, last |-> 2])
GroupRates == ("a" :> {[from |-> 1, value |-> 3000]})

RemindRates ==
    { [domain |-> "standardkompensasjon", from |-> 1, value |-> 4],
      [domain |-> "forsinkelsesrente", from |-> 1, value |-> 1250],
      [domain |-> "forsinkelsesrente", from |-> 3, value |-> 1150] }
AskedFor ==
    { [step |-> "inkassovarsel", fee |-> 4, interest |-> TRUE, domain |-> "standardkompensasjon", grace |-> 1] }

Beside ==
    Cardinality({x \in 1..5 :
        \/ x = 1 /\ \E i \in Invite : invitation[i] # NoInvite
        \/ x = 2 /\ \E r \in OwnRole : ownRole[r].created
        \/ x = 3 /\ (engagement.pending \/ engagement.open)
        \/ x = 4 /\ \E m \in Robot : grant[m] # NoRole
        \/ x = 5 /\ MapThenSumSet(LAMBDA p : Cardinality(platformRole[p]), Human) > 1})

\* Requests that race for the same rows: two of the company or of the firm, or
\* one of the firm or the platform beside one of the company.
GuardsPassed ==
    \/ \A p \in Human : cleared'[p] = "firm"
    \/ Cardinality({p \in Human : cleared'[p] \notin {"none", "member"}}) <= 1

\* Subscriptions and overlapping runs need no crash; what is unpaid needs one
\* invoice of one run, one person and coverage that was taken out at once.
BilledInBounds ==
    /\ OpsOpens => coverage = << >>
    /\ part = "billing" => billingTrouble' = 0 /\ (bankPaid' # {} => cardRail)
    /\ part = "unpaid" => /\ cardRail /\ Len(claims') <= 1
                          /\ reminding'[robot] = NotReminding /\ listed' \subseteq {"cron"}
                          /\ \A n \in DOMAIN charge' : charge'[n] # "failed"
                          /\ coverage = << >> => coverage' = << >> \/ remindDay = 1
                          /\ remindDay' <= BlockAfterDue

\* One person's hours, locked for all months or none, and no voucher by hand beside them.
PaidInBounds ==
    /\ worked'[robot] = worked[robot]
    /\ lockedTo' # 11
    /\ byHand' # 0 => lockedTo' = 0

\* One person decides dividends, among two movements; three movements have none.
RecordedInBounds ==
    /\ writing'[robot].kind # "dividend"
    /\ shareEvents' = MaxShareEvent =>
          writing'[ann].kind # "dividend" /\ \A i \in DividendId : dividend'[i] = NoDividend

\* A plan's second month is locked, or none.
LockedInBounds == lockedThrough'.day \in {-1, 1}

InitGovernance ==
    /\ part \in {"membership", "payroll", "assets", "accruals", "shares", "billing", "unpaid"}
    /\ InitMembership /\ InitPayroll /\ InitAssets /\ InitShares /\ InitBilling

NextGovernance ==
    /\ UNCHANGED part
    /\ \/ /\ part = "membership" /\ NextMembership /\ Beside' <= MaxBeside /\ GuardsPassed
          /\ UNCHANGED << varsPayroll, varsAssets, varsShares, varsBilling >>
       \/ /\ part = "payroll" /\ NextPayroll /\ PaidInBounds
          /\ UNCHANGED << varsMembership, varsAssets, varsShares, varsBilling >>
       \/ /\ \/ part = "assets" /\ (NextCalendar \/ NextFixedAssets)
             \/ part = "accruals" /\ (NextCalendar \/ NextAccruals) /\ LockedInBounds
          /\ UNCHANGED << varsMembership, varsPayroll, varsShares, varsBilling >>
       \/ /\ part = "shares" /\ NextShares /\ RecordedInBounds
          /\ UNCHANGED << varsMembership, varsPayroll, varsAssets, varsBilling >>
       \/ /\ \/ part \in {"billing", "unpaid"} /\ NextInvoices
             \/ part = "billing" /\ NextSubscriptions
             \/ part = "unpaid" /\ NextFollowUp
          /\ BilledInBounds
          /\ UNCHANGED << varsMembership, varsPayroll, varsAssets, varsShares >>

SpecGovernance == InitGovernance /\ [][NextGovernance]_varsGovernance

\* Every part begins with the variables of all, and changes its own.
TypeOKGovernance ==
    /\ part = "membership" => TypeOKMembership
    /\ part = "payroll" => TypeOKPayroll
    /\ part \in {"assets", "accruals"} => TypeOKAssets
    /\ part = "shares" => TypeOKShares
    /\ part \in {"billing", "unpaid"} => TypeOKBilling

=============================================================================
