--------------------------- MODULE SalesDocuments ---------------------------
(***************************************************************************)
(* What becomes invoices: quotes that are accepted, orders that confirm    *)
(* them, and templates that a daily run turns into one invoice per period. *)
(***************************************************************************)
EXTENDS Invoicing

CONSTANTS
    SalesDoc, NoDoc,    \* the rows of salgsdokument
    SalesLines,         \* line sets people write
    Template,
    Interval,           \* days between the periods of a template
    Today,              \* the day the runs are on
    MaxSalesEdit,       \* bound: quotes rewritten and templates edited
    MaxRunTrouble       \* bound: generations that fail

ASSUME SalesAssumption ==
    /\ NoDoc \notin SalesDoc
    /\ Interval \subseteq Nat \ {0}
    /\ Today \in Day
    /\ \A lines \in SalesLines : Writable(lines)

VARIABLES
    salesDocs,      \* the documents
    agreed,         \* the lines of each quote at the moment it was accepted
    templates,      \* the templates
    templateRuns,   \* the log of generations
    replanned,      \* templates somebody has edited
    salesEdits, runTrouble

varsSales == << salesDocs, agreed, templates, templateRuns, replanned, salesEdits, runTrouble >>

UnwrittenDoc == [kind |-> "none", status |-> "none", lines |-> << >>, quote |-> NoDoc, invoice |-> 0]

NoTemplate == [active |-> FALSE, next |-> 1, start |-> 1, end |-> 0, interval |-> 1, lines |-> << >>]

InitSales ==
    /\ salesDocs = [d \in SalesDoc |-> UnwrittenDoc]
    /\ agreed = [d \in SalesDoc |-> << >>]
    /\ templates = [t \in Template |-> NoTemplate]
    /\ templateRuns = {}
    /\ replanned = {}
    /\ salesEdits = 0 /\ runTrouble = 0

-----------------------------------------------------------------------------
FirstStatus(kind) == IF kind = "tilbud" THEN "utkast" ELSE "bekreftet"
QuoteEditable(d) == salesDocs[d].kind = "tilbud" /\ salesDocs[d].status \in {"utkast", "sendt"}

Written(d, kind, lines, quote) ==
    salesDocs' = [salesDocs EXCEPT ![d] =
        [kind |-> kind, status |-> FirstStatus(kind), lines |-> lines, quote |-> quote, invoice |-> 0]]

CreateSalesDocument(p, d, kind, lines) ==
    /\ Allowed(p, "QuoteWrite")
    /\ salesDocs[d] = UnwrittenDoc
    /\ Resolvable(lines)
    /\ Written(d, kind, ResolveLines(lines), NoDoc)
    /\ UNCHANGED << agreed, templates, templateRuns, replanned, salesEdits, runTrouble,
                    varsInvoicing, varsStock >>

\* The lines are replaced as a whole, under the lock of the row.
UpdateQuote(p, d, lines) ==
    /\ Allowed(p, "QuoteWrite")
    /\ salesEdits < MaxSalesEdit
    /\ QuoteEditable(d)
    /\ Resolvable(lines)
    /\ salesDocs' = [salesDocs EXCEPT ![d].lines = ResolveLines(lines)]
    /\ salesEdits' = salesEdits + 1
    /\ UNCHANGED << agreed, templates, templateRuns, replanned, runTrouble, varsInvoicing, varsStock >>

SetQuoteStatus(p, d, status) ==
    /\ Allowed(p, "QuoteWrite")
    /\ QuoteEditable(d)
    /\ status = "sendt" => salesDocs[d].status = "utkast"
    /\ salesDocs' = [salesDocs EXCEPT ![d].status = status]
    /\ agreed' = IF status = "akseptert" THEN [agreed EXCEPT ![d] = salesDocs[d].lines] ELSE agreed
    /\ UNCHANGED << templates, templateRuns, replanned, salesEdits, runTrouble, varsInvoicing, varsStock >>

\* The unique index: one order for a quote.
Ordered(d) == \E o \in SalesDoc : salesDocs[o].quote = d

QuoteToOrder(p, d, o) ==
    /\ Allowed(p, "QuoteWrite")
    /\ salesDocs[d].kind = "tilbud" /\ salesDocs[d].status = "akseptert"
    /\ salesDocs[o] = UnwrittenDoc
    /\ ~ Ordered(d)
    /\ Written(o, "ordre", salesDocs[d].lines, d)
    /\ UNCHANGED << agreed, templates, templateRuns, replanned, salesEdits, runTrouble,
                    varsInvoicing, varsStock >>

\* Order and invoice in one transaction, under the lock of the order.
OrderToInvoice(p, o, day) ==
    /\ Allowed(p, "QuoteWrite")
    /\ salesDocs[o].kind = "ordre" /\ salesDocs[o].status = "bekreftet"
    /\ CreateInvoiceIn(salesDocs[o].lines, day, "NOK", MicroNok, 0, FALSE)
    /\ salesDocs' = [salesDocs EXCEPT ![o] = [@ EXCEPT !.status = "fakturert", !.invoice = Len(invoices')]]
    /\ UNCHANGED << agreed, templates, templateRuns, replanned, salesEdits, runTrouble,
                    crediting, creditRaced, unmatched, paid, matchTrouble >>

-----------------------------------------------------------------------------
(***************************************************************************)
(* Templates.                                                              *)
(***************************************************************************)
PlanTemplate(t, next, end, interval, lines) ==
    /\ templates[t] = NoTemplate
    /\ templates' = [templates EXCEPT ![t] =
          [active |-> TRUE, next |-> next, start |-> next, end |-> end, interval |-> interval, lines |-> lines]]
    /\ UNCHANGED << salesDocs, agreed, templateRuns, replanned, salesEdits, runTrouble,
                    varsInvoicing, varsStock >>

CreateTemplate(p, t, next, end, interval, lines) ==
    /\ Allowed(p, "InvoiceTemplateWrite")
    /\ Resolvable(lines)
    /\ PlanTemplate(t, next, end, interval, ResolveLines(lines))

\* Copied from an invoice that is no credit note; without an end.
CreateTemplateFromInvoice(p, t, n, next, interval) ==
    /\ Allowed(p, "InvoiceTemplateWrite")
    /\ invoices[n].of = 0
    /\ PlanTemplate(t, next, MaxDay, interval, invoices[n].lines)

\* A plan may be changed at any time, its next day too.
UpdateTemplate(p, t, next, end, interval, active, lines) ==
    /\ Allowed(p, "InvoiceTemplateWrite")
    /\ salesEdits < MaxSalesEdit
    /\ templates[t] # NoTemplate
    /\ Resolvable(lines)
    /\ templates' = [templates EXCEPT ![t] =
          [@ EXCEPT !.next = next, !.end = end, !.interval = interval, !.active = active,
                    !.lines = ResolveLines(lines)]]
    /\ replanned' = replanned \cup {t}
    /\ salesEdits' = salesEdits + 1
    /\ UNCHANGED << salesDocs, agreed, templateRuns, runTrouble, varsInvoicing, varsStock >>

DueTemplate(t) ==
    templates[t].active /\ templates[t].next <= Today /\ templates[t].next <= templates[t].end

\* invoice_template_run_once: one success for a template and a period.
Generated(t, day) == \E r \in templateRuns : r.template = t /\ r.day = day /\ r.invoice # 0

LogRun(t, day, n) ==
    templateRuns' = templateRuns \cup {[template |-> t, day |-> day, invoice |-> n]}

Issued(t) ==
    CreateInvoiceIn(templates[t].lines, templates[t].next, "NOK", MicroNok, 0, FALSE)

NoInvoiceIssued == UNCHANGED << invoices, open, varsStock >>

GenerationFails(t) ==
    \/ Generated(t, templates[t].next)
    \/ ~ Invoiceable(templates[t].lines, templates[t].next)
    \/ runTrouble < MaxRunTrouble

\* Faulty: the template moves on although its invoice failed.
GenerateOneOrSkip(t) ==
    LET day == templates[t].next IN
    /\ DueTemplate(t)
    /\ \/ /\ ~ Generated(t, day) /\ Issued(t) /\ LogRun(t, day, Len(invoices'))
          /\ UNCHANGED runTrouble
       \/ /\ GenerationFails(t) /\ NoInvoiceIssued /\ LogRun(t, day, 0)
          /\ runTrouble' = IF runTrouble < MaxRunTrouble THEN runTrouble + 1 ELSE runTrouble
    /\ templates' = [templates EXCEPT ![t].next = @ + templates[t].interval]
    /\ UNCHANGED << salesDocs, agreed, replanned, salesEdits,
                    crediting, creditRaced, unmatched, paid, matchTrouble >>

\* One template, one period: invoice, log and next day commit together; a
\* failure leaves only its row in the log.
GenerateOne(t) ==
    LET day == templates[t].next IN
    /\ DueTemplate(t)
    /\ \/ /\ ~ Generated(t, day) /\ Issued(t) /\ LogRun(t, day, Len(invoices'))
          /\ templates' = [templates EXCEPT ![t].next = @ + templates[t].interval]
          /\ UNCHANGED runTrouble
       \/ /\ GenerationFails(t) /\ NoInvoiceIssued /\ LogRun(t, day, 0)
          /\ runTrouble' = IF runTrouble < MaxRunTrouble THEN runTrouble + 1 ELSE runTrouble
          /\ UNCHANGED templates
    /\ UNCHANGED << salesDocs, agreed, replanned, salesEdits,
                    crediting, creditRaced, unmatched, paid, matchTrouble >>

\* The daily run, for every template that is due.
GenerateDue == \E t \in Template : GenerateOne(t)
\* The same for one template, at the request of a person.
GenerateNow(p, t) == Allowed(p, "InvoiceTemplateWrite") /\ GenerateOne(t)

NextSalesDocuments ==
    \/ \E p \in Person, d \in SalesDoc, kind \in {"tilbud", "ordre"}, lines \in SalesLines :
          CreateSalesDocument(p, d, kind, lines) \/ UpdateQuote(p, d, lines)
    \/ \E p \in Person, d \in SalesDoc :
          \/ \E status \in {"sendt", "akseptert", "avslatt"} : SetQuoteStatus(p, d, status)
          \/ \E o \in SalesDoc : QuoteToOrder(p, d, o)
          \/ \E day \in Day : OrderToInvoice(p, d, day)

NextTemplates ==
    \/ \E p \in Person, t \in Template, next \in Day, interval \in Interval :
          \/ \E n \in DOMAIN invoices : CreateTemplateFromInvoice(p, t, n, next, interval)
          \/ \E end \in Day, lines \in SalesLines :
                \/ CreateTemplate(p, t, next, end, interval, lines)
                \/ \E active \in BOOLEAN : UpdateTemplate(p, t, next, end, interval, active, lines)
    \/ \E p \in Person, t \in Template : GenerateNow(p, t)
    \/ GenerateDue

-----------------------------------------------------------------------------
TypeOKSales ==
    /\ \A d \in SalesDoc :
          \/ salesDocs[d] = UnwrittenDoc
          \/ salesDocs[d].kind = "tilbud" /\ salesDocs[d].status \in {"utkast", "sendt", "akseptert", "avslatt"}
          \/ salesDocs[d].kind = "ordre" /\ salesDocs[d].status \in {"bekreftet", "fakturert"}
    /\ \A d \in SalesDoc : salesDocs[d].invoice \in DOMAIN invoices \cup {0}
    /\ \A r \in templateRuns : r.invoice \in DOMAIN invoices \cup {0}

Orders == {d \in SalesDoc : salesDocs[d].kind = "ordre"}
Billed(t) == {r.day : r \in {q \in templateRuns : q.template = t /\ q.invoice # 0}}
Planned(t) == {day \in Day : day >= templates[t].start /\ day < templates[t].next
                               /\ (day - templates[t].start) % templates[t].interval = 0}

(***************************************************************************)
(* What was agreed is what is billed.  An order has the lines the customer *)
(* accepted, whoever edits the quote meanwhile; it is billed by one        *)
(* invoice with those lines, of its own.  A template has billed every      *)
(* period before its next one exactly once, through failures and runs at   *)
(* once, unless somebody has changed its plan; and then still none twice.  *)
(***************************************************************************)
AgreedIsBilled ==
    /\ \A o \in Orders :
          /\ salesDocs[o].quote # NoDoc => salesDocs[o].lines = agreed[salesDocs[o].quote]
          /\ salesDocs[o].status = "fakturert" =>
                /\ invoices[salesDocs[o].invoice].lines = salesDocs[o].lines
                /\ \A d \in Orders \ {o} : salesDocs[d].invoice # salesDocs[o].invoice
                                           /\ (salesDocs[o].quote # NoDoc => salesDocs[d].quote # salesDocs[o].quote)
    /\ \A t \in Template :
          /\ t \notin replanned => Billed(t) = Planned(t)
          /\ \A r, q \in templateRuns :
                (r.template = t /\ q.template = t /\ r.day = q.day /\ r.invoice # 0 /\ q.invoice # 0) => r = q

-----------------------------------------------------------------------------
(***************************************************************************)
(* The whole desk: documents and templates are billed while invoices of    *)
(* other kinds are issued, paid and credited, and the stock moves.         *)
(***************************************************************************)
NextSalesDesk ==
    \/ NextSalesDocuments
    \/ NextTemplates
    \/ NextInvoicing /\ UNCHANGED varsSales
    \/ NextStock /\ UNCHANGED << varsInvoicing, varsSales >>

SpecSalesDesk ==
    InitStock /\ InitInvoicing /\ InitSales
        /\ [][NextSalesDesk]_<< varsStock, varsInvoicing, varsSales >>

=============================================================================
