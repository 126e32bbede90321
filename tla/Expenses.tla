------------------------------ MODULE Expenses ------------------------------
(***************************************************************************)
(* Claims for expenses and mileage: submitted by the person who had them,  *)
(* approved or rejected, paid.  Approval and payment each hold the row and *)
(* post a voucher in the same transaction.                                 *)
(***************************************************************************)
EXTENDS Access, Money

CONSTANTS
    Claim,
    ClaimAmount,        \* what a receipt may come to
    Kilometres,         \* what a trip may come to
    KmRates, TaxFreeKmRates,    \* the register of rates per kilometre, rows from a day on
    ClaimDay,           \* days claims are made for
    ContraAccount,      \* accounts the debt to employees may be booked on
    NoContra,
    ExpenseVat,         \* the VAT rates an approver may deduct by; 0 for none
    MaxStrict           \* bound: changes of the attestation policy

ASSUME ExpensesAssumption ==
    /\ ClaimAmount \subseteq Int
    /\ Kilometres \subseteq Int
    /\ \A r \in KmRates \cup TaxFreeKmRates : r.value \in Int
    /\ ExpenseVat \subseteq Nat
    /\ MaxStrict \in Nat

VARIABLES
    claim,          \* the rows of expense
    owed,           \* the balance of each contra account
    costs,          \* what has been booked on the cost and VAT accounts
    bank,           \* the balance of the bank account
    strict,         \* whether the attestation policy is active
    stricts

varsExpenses == << claim, owed, costs, bank, strict, stricts >>

NoClaim == [status |-> "none"]

InitExpenses ==
    /\ claim = [c \in Claim |-> NoClaim]
    /\ owed = [k \in ContraAccount |-> 0]
    /\ costs = 0
    /\ bank = 0
    /\ strict = FALSE
    /\ stricts = 0

-----------------------------------------------------------------------------
Submit(c, p, kind, amount) ==
    /\ claim[c] = NoClaim
    /\ amount > 0
    /\ claim' = [claim EXCEPT ![c] = [status |-> "innsendt", by |-> p, kind |-> kind,
                                      amount |-> amount, contra |-> NoContra, approver |-> Nobody]]

CreateExpense(p, c, amount) ==
    /\ Allowed(p, "ExpenseWriteOwn")
    /\ Submit(c, p, "utlegg", amount)
    /\ UNCHANGED << owed, costs, bank, strict, stricts >>

\* The rates of the day are looked up now, or the claim is refused.
CreateExpenseRun(p, c, km, day) ==
    /\ Allowed(p, "ExpenseWriteOwn")
    /\ HasRate(KmRates, day) /\ HasRate(TaxFreeKmRates, day)
    /\ Submit(c, p, "kjoring",
              MileageAllowance(km, RateOn(KmRates, day), RateOn(TaxFreeKmRates, day)).amount)
    /\ UNCHANGED << owed, costs, bank, strict, stricts >>

\* Mileage has no VAT; what is deducted of a receipt is booked beside its base.
CostLines(c, vat) ==
    IF claim[c].kind = "kjoring" \/ vat = 0 THEN << claim[c].amount >>
    ELSE LET s == SplitGross(claim[c].amount, vat) IN << s.base, s.vat >>

ApproveExpense(c, p, vat, contra) ==
    /\ claim[c].status = "innsendt"
    /\ strict => claim[c].by # p
    /\ claim[c].kind = "kjoring" => vat = 0
    /\ costs' = costs + Total(CostLines(c, vat))
    /\ owed' = [owed EXCEPT ![contra] = @ - claim[c].amount]
    /\ claim' = [claim EXCEPT ![c].status = "godkjent", ![c].contra = contra,
                              ![c].approver = p]

Approve(p, c, vat, contra) ==
    /\ Allowed(p, "ExpenseApprove")
    /\ ApproveExpense(c, p, vat, contra)
    /\ UNCHANGED << bank, strict, stricts >>

RejectExpense(c) ==
    /\ claim[c].status = "innsendt"
    /\ claim' = [claim EXCEPT ![c].status = "avvist"]

RejectClaim(p, c) ==
    /\ Allowed(p, "ExpenseApprove")
    /\ RejectExpense(c)
    /\ UNCHANGED << owed, costs, bank, strict, stricts >>

\* Faulty: the debt is taken off the account claims are booked on by default.
PayFromDefault(c) ==
    LET contra == CHOOSE k \in ContraAccount : TRUE IN
    /\ claim[c].status = "godkjent"
    /\ owed' = [owed EXCEPT ![contra] = @ + claim[c].amount]
    /\ bank' = bank - claim[c].amount
    /\ claim' = [claim EXCEPT ![c].status = "utbetalt"]

\* The debt is taken off the account that the approval booked it on.
PayExpense(c) ==
    /\ claim[c].status = "godkjent"
    /\ owed' = [owed EXCEPT ![claim[c].contra] = @ + claim[c].amount]
    /\ bank' = bank - claim[c].amount
    /\ claim' = [claim EXCEPT ![c].status = "utbetalt"]

Pay(p, c) ==
    /\ Allowed(p, "ExpensePay")
    /\ PayExpense(c)
    /\ UNCHANGED << costs, strict, stricts >>

SetStrict(p) ==
    /\ Allowed(p, "ApprovalAdmin")
    /\ stricts < MaxStrict
    /\ strict' = ~ strict
    /\ stricts' = stricts + 1
    /\ UNCHANGED << claim, owed, costs, bank >>

NextExpenses ==
    \/ \E p \in Person, c \in Claim, amount \in ClaimAmount : CreateExpense(p, c, amount)
    \/ \E p \in Person, c \in Claim, km \in Kilometres, day \in ClaimDay :
          CreateExpenseRun(p, c, km, day)
    \/ \E p \in Person, c \in Claim, vat \in ExpenseVat, contra \in ContraAccount :
          Approve(p, c, vat, contra)
    \/ \E p \in Person, c \in Claim : RejectClaim(p, c) \/ Pay(p, c)
    \/ \E p \in Person : SetStrict(p)

SpecExpenses == InitExpenses /\ [][NextExpenses]_varsExpenses

-----------------------------------------------------------------------------
ClaimRow == [status : {"innsendt", "godkjent", "avvist", "utbetalt"}, by : Person,
             kind : {"utlegg", "kjoring"}, amount : Nat, contra : ContraAccount \cup {NoContra},
             approver : Person \cup {Nobody}]

TypeOKExpenses ==
    /\ claim \in [Claim -> {NoClaim} \cup ClaimRow]
    /\ owed \in [ContraAccount -> Int]
    /\ costs \in Int /\ bank \in Int
    /\ strict \in BOOLEAN /\ stricts \in 0..MaxStrict

Amounts(S) == MapThenSumSet(LAMBDA c : claim[c].amount, S)
ClaimsIn(statuses) == {c \in Claim : claim[c].status \in statuses}

(***************************************************************************)
(* The books say what the claims say: each contra account owes exactly the *)
(* approved claims booked on it that are not paid, the costs and their VAT *)
(* are the amounts approved, øre for øre, and the bank has paid those that *)
(* are paid.                                                               *)
(***************************************************************************)
ClaimsAreInTheBooks ==
    /\ \A k \in ContraAccount :
          owed[k] = -Amounts({c \in ClaimsIn({"godkjent"}) : claim[c].contra = k})
    /\ costs = Amounts(ClaimsIn({"godkjent", "utbetalt"}))
    /\ bank = -Amounts(ClaimsIn({"utbetalt"}))

=============================================================================
