----------------------------- MODULE Invoicing -----------------------------
(***************************************************************************)
(* Invoices: a number without gaps, lines that are copies, the claim on    *)
(* the customer, the movement of the stock, all in one transaction; cash   *)
(* sales settled in the same one; credit notes whose match with the        *)
(* invoice follows in a statement of its own.                              *)
(***************************************************************************)
EXTENDS Stock

CONSTANTS
    Draft,          \* what is invoiced: lines and currency
    DocVatRate,     \* dated VAT rates by code
    ExchangeRate,   \* dated rates in millionths of a krone, by currency
    RegisteredFrom, \* the day the company was registered for VAT
    MaxInvoice,     \* bound: invoices and credit notes
    MaxPaid,        \* bound: payments matched
    MaxMatchTrouble \* bound: matches that fail after the credit note is issued

\* A line has a price, or a product that has one.  What is taken off has a minus.
DocLine == [product : Product \cup {NoProduct}, quantity : Int, price : Int, code : STRING]
Writable(lines) ==
    /\ lines \in Seq(DocLine)
    /\ \A i \in DOMAIN lines : lines[i].price = NoCost => lines[i].product \in Product

ASSUME InvoicingAssumption ==
    /\ \A draft \in Draft : Writable(draft.lines)
    /\ \A r \in DocVatRate : r.value \in Nat
    /\ \A r \in ExchangeRate : r.value \in Nat
    /\ StockPrice \subseteq Int

VARIABLES
    invoices,       \* the rows of invoice, by number
    open,           \* what is open of each one's claim, in øre
    crediting,      \* the credit note each person's request is at
    creditRaced,    \* invoices two requests were crediting at once
    unmatched,      \* credit notes whose match failed
    paid, matchTrouble

varsInvoicing == << invoices, open, crediting, creditRaced, unmatched, paid, matchTrouble >>

NotCrediting == [pc |-> "idle", of |-> 0, note |-> 0]

InitInvoicing ==
    /\ invoices = << >> /\ open = << >>
    /\ crediting = [p \in Person |-> NotCrediting]
    /\ creditRaced = {} /\ unmatched = {}
    /\ paid = 0 /\ matchTrouble = 0

-----------------------------------------------------------------------------
LineNet(line) == RoundDiv(line.quantity * line.price, 1000)

\* No code, no VAT; a code needs a rate on the day and a registered company.
RowsOf(code) == {r \in DocVatRate : r.code = code}
LineRates(code, day) == IF code = "none" THEN {0} ELSE {r.value : r \in InForce(RowsOf(code), day)}

Invoiceable(lines, day) ==
    \A i \in DOMAIN lines :
        /\ LineRates(lines[i].code, day) # {}
        /\ lines[i].code # "none" => day >= RegisteredFrom

LineVat(line, day) == VatOfBase(LineNet(line), CHOOSE r \in LineRates(line.code, day) : TRUE)

Net(lines) == Total([i \in DOMAIN lines |-> LineNet(lines[i])])
Vat(lines, day) == Total([i \in DOMAIN lines |-> LineVat(lines[i], day)])
Gross(lines, day) == Net(lines) + Vat(lines, day)

\* In another currency each line is converted by itself, and the claim is their sum.
NokGross(lines, day, rate) ==
    NokOre(Vat(lines, day), rate) + Total([i \in DOMAIN lines |-> NokOre(LineNet(lines[i]), rate)])

KurserOf(currency) == {r \in ExchangeRate : r.currency = currency}
RateMicro(currency, day) == {r.value : r \in InForce(KurserOf(currency), day)}

BuildVoucher(lines, day, currency, rate) ==
    IF currency = "NOK" THEN Gross(lines, day) ELSE NokGross(lines, day, rate)

-----------------------------------------------------------------------------
\* The transaction every invoice goes through; settled is what is paid at once.
CreateInvoiceIn(lines, day, currency, rate, of, cash) ==
    LET no == Len(invoices) + 1
        claim == BuildVoucher(lines, day, currency, rate)
    IN
    /\ no <= MaxInvoice
    /\ lines # << >>
    /\ Invoiceable(lines, day)
    /\ of = 0 => Gross(lines, day) > 0
    /\ invoices' = Append(invoices,
          [lines |-> lines, day |-> day, currency |-> currency, rate |-> rate,
           gross |-> Gross(lines, day), nok |-> claim, of |-> of])
    /\ open' = Append(open, IF cash THEN 0 ELSE claim)
    /\ RecordSalesIn(lines, day, no)

RatesFor(draft, day) == IF draft.currency = "NOK" THEN {MicroNok} ELSE RateMicro(draft.currency, day)

ResolveLines(lines) == [i \in DOMAIN lines |-> ResolveProductLine(lines[i])]
Resolvable(lines) == \A i \in DOMAIN lines : ResolvableLine(lines[i])

Issue(p, draft, day, cash) ==
    \E rate \in RatesFor(draft, day) :
        /\ Allowed(p, "InvoiceWrite")
        /\ Resolvable(draft.lines)
        /\ CreateInvoiceIn(ResolveLines(draft.lines), day, draft.currency, rate, 0, cash)
        /\ UNCHANGED << crediting, creditRaced, unmatched, paid, matchTrouble >>

CreateInvoice(p, draft, day) == Issue(p, draft, day, FALSE)
CreateCashInvoice(p, draft, day) == Issue(p, draft, day, TRUE)

\* A payment that some other part of the program matches with the claim.
MatchPayment(n, amount) ==
    /\ paid < MaxPaid
    /\ amount \in 1..open[n]
    /\ open' = [open EXCEPT ![n] = @ - amount]
    /\ paid' = paid + 1
    /\ UNCHANGED << invoices, crediting, creditRaced, unmatched, matchTrouble, varsStock >>

-----------------------------------------------------------------------------
(***************************************************************************)
(* Credit notes.                                                           *)
(***************************************************************************)
AlreadyCredited(n) == \E m \in DOMAIN invoices : invoices[m].of = n

BeingCredited(p, n) == \E q \in Person \ {p} : crediting[q].of = n

\* Faulty: whether the invoice is credited already is not asked.
CreditAgain(p, n) ==
    /\ Allowed(p, "InvoiceWrite")
    /\ crediting[p] = NotCrediting
    /\ invoices[n].of = 0
    /\ crediting' = [crediting EXCEPT ![p] = [pc |-> "issue", of |-> n, note |-> 0]]
    /\ creditRaced' = IF BeingCredited(p, n) THEN creditRaced \cup {n} ELSE creditRaced
    /\ UNCHANGED << invoices, open, unmatched, paid, matchTrouble, varsStock >>

\* Read outside the transaction that credits; nothing holds it.
StartCredit(p, n) ==
    /\ Allowed(p, "InvoiceWrite")
    /\ crediting[p] = NotCrediting
    /\ invoices[n].of = 0
    /\ ~ AlreadyCredited(n)
    /\ crediting' = [crediting EXCEPT ![p] = [pc |-> "issue", of |-> n, note |-> 0]]
    /\ creditRaced' = IF BeingCredited(p, n) THEN creditRaced \cup {n} ELSE creditRaced
    /\ UNCHANGED << invoices, open, unmatched, paid, matchTrouble, varsStock >>

Negated(lines) == [i \in DOMAIN lines |-> [lines[i] EXCEPT !.quantity = -@]]

\* Dated today, at the exchange rate of the invoice and the VAT rates of today.
IssueCredit(p, today) ==
    LET n == crediting[p].of IN
    /\ crediting[p].pc = "issue"
    /\ \/ /\ CreateInvoiceIn(Negated(invoices[n].lines), today, invoices[n].currency,
                             invoices[n].rate, n, FALSE)
          /\ crediting' = [crediting EXCEPT ![p] = [@ EXCEPT !.pc = "match", !.note = Len(invoices')]]
       \/ /\ crediting' = [crediting EXCEPT ![p] = NotCrediting]
          /\ UNCHANGED << invoices, open, varsStock >>
    /\ UNCHANGED << creditRaced, unmatched, paid, matchTrouble >>

\* What is open in øre, against a gross amount in the document's currency.
Creditable(p) ==
    LET remaining == open[crediting[p].of]
        gross == -invoices[crediting[p].note].gross
    IN IF remaining < gross THEN remaining ELSE gross

\* After the commit, and by itself: it may fail, and the note stays unmatched.
MatchCredit(p) ==
    LET n == crediting[p].of
        note == crediting[p].note
        amount == Creditable(p)
    IN
    /\ crediting[p].pc = "match"
    /\ \/ /\ amount > 0 /\ amount <= -open[note]
          /\ open' = [open EXCEPT ![n] = @ - amount, ![note] = @ + amount]
          /\ UNCHANGED << unmatched, matchTrouble >>
       \/ /\ amount <= 0
          /\ UNCHANGED << open, unmatched, matchTrouble >>
       \/ /\ amount > 0
          /\ amount > -open[note] \/ matchTrouble < MaxMatchTrouble
          /\ unmatched' = unmatched \cup {note}
          /\ matchTrouble' = IF amount > -open[note] THEN matchTrouble ELSE matchTrouble + 1
          /\ UNCHANGED open
    /\ crediting' = [crediting EXCEPT ![p] = NotCrediting]
    /\ UNCHANGED << invoices, creditRaced, paid, varsStock >>

NextInvoicing ==
    \/ \E p \in Person, draft \in Draft, day \in Day :
          CreateInvoice(p, draft, day) \/ CreateCashInvoice(p, draft, day)
    \/ \E n \in DOMAIN invoices : MatchPayment(n, open[n]) \/ MatchPayment(n, 1)
    \/ \E p \in Person : \/ \E n \in DOMAIN invoices : StartCredit(p, n)
                         \/ \E today \in Day : IssueCredit(p, today)
                         \/ MatchCredit(p)

-----------------------------------------------------------------------------
TypeOKInvoicing ==
    /\ DOMAIN open = DOMAIN invoices
    /\ Len(invoices) <= MaxInvoice
    /\ \A n \in DOMAIN invoices :
          /\ invoices[n].of \in 0..(n - 1)
          /\ invoices[n].of = 0 => invoices[n].gross > 0
    /\ \A p \in Person : crediting[p].pc \in {"idle", "issue", "match"}
    /\ creditRaced \cup unmatched \subseteq DOMAIN invoices

NotesOf(n) == {m \in DOMAIN invoices : invoices[m].of = n}
UnderWay(m) == \E p \in Person : crediting[p].note = m

Discounted(lines) == \E i \in DOMAIN lines : LineNet(lines[i]) < 0

\* A note on lines some of which take off may come out as a claim when the rates have changed.
TakesBack(n, m) ==
    \/ ~ Discounted(invoices[n].lines)
    \/ invoices[n].currency = "NOK" /\ invoices[m].gross = -invoices[n].gross

(***************************************************************************)
(* An invoice is credited once, unless two requests were crediting it at   *)
(* the same time.  Neither a claim nor a credit note is ever matched       *)
(* beyond zero, and once the match has been made one of the two is closed: *)
(* also when part of the invoice was paid and when the VAT rate changed    *)
(* in between, but not in another currency, where an amount in cents is    *)
(* compared with one in øre, and not where a discount and a new VAT rate   *)
(* together leave the note with a claim of its own.                        *)
(***************************************************************************)
CreditedOnce ==
    \A n \in {k \in DOMAIN invoices : invoices[k].of = 0} :
        /\ (invoices[n].currency = "NOK" \/ ~ Discounted(invoices[n].lines)) => open[n] >= 0
        /\ Cardinality(NotesOf(n)) > 1 => n \in creditRaced
        /\ \A m \in NotesOf(n) : TakesBack(n, m) =>
              /\ open[m] <= 0
              /\ (invoices[n].currency = "NOK" /\ m \notin unmatched /\ ~ UnderWay(m))
                    => (open[n] = 0 \/ open[m] = 0)

=============================================================================
