------------------------------- MODULE Money -------------------------------
(***************************************************************************)
(* Amounts in whole øre: rounding, VAT, currency, plans that spread an     *)
(* amount over months, and the value of a stock.  Division in the program  *)
(* truncates toward zero; the operators say so where a sign can be minus.  *)
(***************************************************************************)
EXTENDS Integers, Sequences, SequencesExt, Calendar

Magnitude(n) == IF n < 0 THEN -n ELSE n
Signum(n) == IF n < 0 THEN -1 ELSE IF n > 0 THEN 1 ELSE 0

\* n / d, half away from zero; d is positive.
RoundDiv(n, d) == Signum(n) * ((Magnitude(n) + d \div 2) \div d)

\* n / d, toward zero.
TruncDiv(n, d) == Signum(n) * (Magnitude(n) \div d)

Total(amounts) == FoldSeq(LAMBDA x, y : x + y, 0, amounts)

-----------------------------------------------------------------------------
\* Rates are in hundredths of a percent.
BasisPoints == 10000
VatOfBase(base, rate) == RoundDiv(base * rate, BasisPoints)

\* VAT is what the rounded base leaves of the gross amount.
BaseOfGross(gross, rate) == RoundDiv(gross * BasisPoints, BasisPoints + rate)
SplitGross(gross, rate) ==
    LET base == BaseOfGross(gross, rate) IN [base |-> base, vat |-> gross - base]

\* How a code takes part in the VAT return.
Direction(code) ==
    CASE code \in {"3", "31", "32", "33"}                 -> "output"
      [] code \in {"1", "11", "12", "13", "14", "15"}     -> "input"
      [] code \in {"81", "83", "86", "88", "91"}          -> "reverse_deductible"
      [] code \in {"82", "84", "87", "89", "92"}          -> "reverse_nondeductible"
      [] code \in {"20", "21", "22"}                      -> "cost_marker"
      [] OTHER                                            -> "none"

\* The two lines that go with a line under a reverse-charge code.
ReverseChargeEntries(entry, rate, output, deduction) ==
    LET dir == Direction(entry.code)
        tax == VatOfBase(entry.amount, rate)
        back == IF dir = "reverse_deductible" THEN deduction ELSE entry.account
    IN IF dir \notin {"reverse_deductible", "reverse_nondeductible"} \/ tax = 0 THEN << >>
       ELSE << [account |-> output, amount |-> -tax, code |-> "none"],
               [account |-> back, amount |-> tax, code |-> "none"] >>

\* Rates are in millionths of a krone.
MicroNok == 1000000
NokOre(cents, rateMicro) == RoundDiv(cents * rateMicro, MicroNok)

-----------------------------------------------------------------------------
(***************************************************************************)
(* An amount over months: the last month takes what the rounded ones left. *)
(***************************************************************************)
MonthlyAmount(total, count, no) ==
    LET base == TruncDiv(total, count) IN
    IF no < count THEN base ELSE total - base * (count - 1)

Plan(total, first, last) ==
    LET count == MonthCount(first, last) IN
    [no \in 1..count |-> [date |-> MonthEnd(MonthPlus(first, no - 1)),
                          amount |-> MonthlyAmount(total, count, no)]]

\* Straight-line depreciation of an asset down to its residual value.
Depreciation(cost, residual, life, no) == MonthlyAmount(cost - residual, life, no)

\* The declining balance the tax return asks for; a negative one is carried on.
TaxDepreciationYear(opening, additions, proceeds, rate) ==
    LET basis == opening + additions - proceeds
        part == IF basis > 0 THEN RoundDiv(basis * rate, BasisPoints) ELSE 0
    IN [basis |-> basis, depreciation |-> part, closing |-> basis - part]

GainOnDisposal(bookValue, proceeds) == proceeds - bookValue

MileageAllowance(km, rate, taxFreeRate) ==
    LET amount == km * rate
        taxFree == IF km * taxFreeRate < amount THEN km * taxFreeRate ELSE amount
    IN [amount |-> amount, taxFree |-> taxFree, taxable |-> amount - taxFree]

-----------------------------------------------------------------------------
(***************************************************************************)
(* The value of a stock at its running average cost.  Quantities are in    *)
(* thousandths; a movement in without a cost comes in at the average.      *)
(***************************************************************************)
EmptyStock == [quantity |-> 0, value |-> 0]
NoCost == -1

MoveIn(s, b) ==
    CASE b.cost # NoCost  -> RoundDiv(b.quantity * b.cost, 1000)
      [] b.cost = NoCost /\ s.quantity > 0 -> RoundDiv(s.value * b.quantity, s.quantity)
      [] OTHER            -> 0

MoveOut(s, b) ==
    LET out == IF -b.quantity < s.quantity THEN -b.quantity ELSE s.quantity
    IN IF s.quantity > 0 THEN RoundDiv(s.value * out, s.quantity) ELSE 0

Moved(s, b) ==
    [quantity |-> s.quantity + b.quantity,
     value |-> s.value + IF b.quantity > 0 THEN MoveIn(s, b)
                         ELSE IF b.quantity < 0 THEN -MoveOut(s, b) ELSE 0]

ValueStock(movements) == FoldLeft(Moved, EmptyStock, movements)

=============================================================================
