---------------------------- MODULE MCDocuments ----------------------------
(***************************************************************************)
(* What comes in to be booked, and what goes out.  The components share no *)
(* table, so a behaviour exercises one of them, the one that part names.   *)
(***************************************************************************)
EXTENDS Inbox, InboundMail, Expenses, Timesheet, Dispatch, SalesDocuments, Bank, CurrencyPosts, Migration, TLC

VARIABLE part

CONSTANTS ada, bo, robot, addr1, addr2

varsSold == << varsStock, varsInvoicing, varsSales >>
varsPaid == << varsBank, varsCurrency, varsMigration >>
varsDocuments == << part, varsInbox, varsMail, varsExpenses, varsTimesheet, varsDispatch,
                   varsSold, varsPaid >>

RolesOfPeople ==
    (ada :> {"admin"}) @@ (bo :> {"admin"}) @@ (robot :> {"bokforing"})

PoliciesTried ==
    { [active |-> TRUE, limit |-> 2, attestant |-> Nobody, machine |-> TRUE],
      [active |-> TRUE, limit |-> 1, attestant |-> bo, machine |-> FALSE] }

Mails ==
    { [id |-> "m1", from |-> "s1", to |-> addr1, attachments |-> TRUE],
      [id |-> "m2", from |-> "s1", to |-> addr2, attachments |-> TRUE] }
Domains == "s1" :> "@s"

KmRegister == {[from |-> 1, value |-> 3], [from |-> 2, value |-> 5]}
TaxFreeRegister == {[from |-> 1, value |-> 4]}
Drafts ==
    { [day |-> 2, minutes |-> 65, project |-> "p", billable |-> TRUE, rate |-> 300],
      [day |-> 1, minutes |-> 50, project |-> NoProject, billable |-> FALSE, rate |-> 300] }
RateRegister ==
    { [project |-> "p", person |-> Nobody, from |-> 1, value |-> 100],
      [project |-> "p", person |-> bo, from |-> 2, value |-> 200] }

GoodsAt(quantity, price, code, x) == << [quantity |-> quantity, price |-> price, code |-> code, product |-> x] >>
Invoiced ==
    { [lines |-> GoodsAt(1000, 7, "food", NoProduct), currency |-> "NOK"],
      [lines |-> GoodsAt(1000, 7, "none", NoProduct), currency |-> "EUR"],
      [lines |-> GoodsAt(1000, 20, "food", NoProduct) \o GoodsAt(-1000, 24, "none", NoProduct), currency |-> "NOK"] }
SoldGoods == {[lines |-> GoodsAt(1000, NoCost, "none", x), currency |-> "NOK"] : x \in Product}
LinesWritten == {GoodsAt(1000, 7, "none", NoProduct), GoodsAt(2000, 7, "food", NoProduct)}
VatRegister == {[code |-> "food", from |-> 1, value |-> 1500], [code |-> "food", from |-> 2, value |-> 2500]}
Kurser == {[currency |-> "EUR", from |-> 1, value |-> 11500000]}
StockMoves ==
    { [kind |-> "kjop", quantity |-> 2000, cost |-> 10],
      [kind |-> "justering", quantity |-> -1000, cost |-> NoCost] }

BankLines ==
    { [ref |-> "st1", lines |-> << [day |-> 2, amount |-> 5], [day |-> 1, amount |-> 5] >>],
      [ref |-> "st2", lines |-> << [day |-> 2, amount |-> 5] >>] }
BankPosts == {[account |-> "1920", day |-> day, amount |-> 5] : day \in {1, 3}}
OcrFiles ==
    { [transmission |-> "t1", assignments |-> {[no |-> 1, kids |-> << "kid1", "kid2" >>]}],
      [transmission |-> "t1", assignments |-> {[no |-> 1, kids |-> << "kid1" >>], [no |-> 2, kids |-> << "kid2" >>]}],
      [transmission |-> "t2", assignments |-> {[no |-> 1, kids |-> << "kid2", "other" >>]}] }

CurrencyEntries ==
    << [konto |-> "1500", amount |-> 11], [konto |-> "1500", amount |-> -13],
       [konto |-> "1500", amount |-> -7] >>
CurrencyLines ==
    << [currency |-> "EUR", cents |-> 3, day |-> 1], [currency |-> "EUR", cents |-> -3, day |-> 2],
       [currency |-> "EUR", cents |-> -2, day |-> 2] >>
RatesSeen == {[currency |-> "EUR", from |-> 2, value |-> 4500000]}

\* A year in one file or two, the next year, and files that do not continue the history.
Side(account, amount) == [account |-> account, amount |-> amount, kind |-> "plain", id |-> ""]
OfCustomer(amount, id) == [account |-> "1510", amount |-> amount, kind |-> "kunde", id |-> id]
SoldTo(day, amount, id) == [date |-> day, lines |-> << OfCustomer(amount, id), Side("3000", -amount) >>]
Customer(id, no) == [id |-> id, no |-> no, kind |-> "kunde", name |-> id]
Opens(owing, sales) == ("1500" :> 2) @@ ("2050" :> -2) @@ ("1510" :> owing) @@ ("3000" :> sales)
YearFile(content, start, opening, txs) ==
    [content |-> content, start |-> start, opening |-> opening, txs |-> txs,
     parties |-> << Customer("x", 0), Customer("y", 7) >>]
OtherIds(content, start, opening, txs) ==
    [YearFile(content, start, opening, txs) EXCEPT !.parties = << Customer("z", 0), Customer("y", 7) >>]
HistoryFiles ==
    << YearFile("A", 1, Opens(0, 0), << SoldTo(1, 1, "x") >>),
       YearFile("A2", 1, Opens(0, 0), << SoldTo(1, 1, "y") >>),
       OtherIds("B", 2, Opens(1, -1), << SoldTo(2, 1, "z"), SoldTo(2, -1, "z") >>),
       YearFile("C", 3, Opens(1, 0), << SoldTo(3, 1, "y") >>),
       YearFile("W", 2, Opens(1, 0), << SoldTo(2, 1, "x") >>) >>
StartingChart == [a \in {"1500", "1510", "2050", "2400", "3000"} |-> IF a = "1510" THEN "absent" ELSE "plain"]
Line(account, amount, of) == [account |-> account, amount |-> amount, party |-> of]
Reposted == << Line("2050", 1, 0), Line("2050", -1, 0) >>
PostedByHand ==
    { Reposted, << Line("1500", 1, 10), Line("2050", -1, 0) >> }
EnteredOpenings ==
    { << Line("3000", 2, 0), Line("2050", -2, 0) >>, << Line("1500", 2, 0), Line("2050", -2, 0) >> }
ItemRow(no, name, amount) == [no |-> no, name |-> name, amount |-> amount]
ItemLists ==
    << [account |-> "1500", contra |-> "2050", kind |-> "kunde", date |-> 1,
        rows |-> << ItemRow(0, "x", 2), ItemRow(11, "y", -1), ItemRow(0, "x", 1) >>],
       [account |-> "2400", contra |-> "2050", kind |-> "leverandor", date |-> 1,
        rows |-> << ItemRow(0, "s", 3) >>] >>
Contact(kind, no, name, good) ==
    [kind |-> kind, no |-> no, name |-> name, given |-> {"address", "email", "bank_account"}, good |-> good]
ContactLists ==
    << << Contact("kunde", 0, "x", {"address", "email"}),
          Contact("leverandor", 0, "s", {"address", "email", "bank_account"}) >> >>
FirstNumbers == ("kunde" :> 10) @@ ("leverandor" :> 50)
FirstItemNumbers == ("kunde" :> 10) @@ ("leverandor" :> 20)

InitDocuments ==
    /\ part \in {"inbox", "mail", "expenses", "timesheet", "dispatch", "stock", "invoicing", "sales", "templates", "bank", "ocr", "currency", "rates", "history", "items"}
    /\ InitInbox /\ InitMail /\ InitExpenses /\ InitTimesheet /\ InitDispatch
    /\ InitStock /\ InitInvoicing /\ InitSales /\ InitBank /\ InitCurrency /\ InitMigration

SellGoods ==
    /\ invoices = << >>
    /\ \E p \in Person, draft \in SoldGoods, day \in Day : CreateInvoice(p, draft, day)

\* Two people are enough for what can race in these; goods are sold in "stock" only.
TwoPeopleCount == counting'[robot] = NotCounting
TwoPeopleBill == billing'[robot] = {}

\* One sale, and what is issued and matched after it.
OneSale == Cardinality({n \in DOMAIN invoices' : invoices'[n].of = 0}) <= 1

\* Two requests at most are between their statements, and one document is attested.
TwoRequests ==
    /\ Cardinality({p \in Person : sending'[p] # AtRest}) <= 2
    /\ Cardinality({d \in Document : trail'[d] # << >>}) <= 1

NextSold ==
    \/ part = "stock" /\ NextStock /\ TwoPeopleCount /\ UNCHANGED << varsInvoicing, varsSales >>
    \/ part = "stock" /\ SellGoods /\ UNCHANGED varsSales
    \/ part = "invoicing" /\ NextInvoicing /\ OneSale /\ UNCHANGED varsSales
    \/ part = "sales" /\ NextSalesDocuments
    \/ part = "templates" /\ NextTemplates
    \/ part = "templates" /\ invoices = << >> /\ NextInvoicing /\ UNCHANGED varsSales

\* Two people reconcile, the second beside the first, and pair one line by hand.
TwoPeopleReconcile ==
    /\ importing'[robot] = NotImporting
    /\ importing'[bo] # NotImporting => importing[bo] # NotImporting \/ importing[ada].pc = "insert"
    /\ Cardinality({m \in bankMatch' : m.method = "manual"}) <= 1

\* Posts settled in parts by two requests at once; and, in a part of its own, one revaluation
\* beside one settlement, which may be in kroner for one amount.
CurrencyInBounds ==
    \/ /\ part = "currency"
       /\ Cardinality(disturbed') <= 2
       /\ UNCHANGED << matching, kurser, regulating >>
    \/ /\ part = "rates"
       /\ match_seq' <= 2
       /\ \A q \in Session : matching'[q].amount \in {0, 4}
       /\ \E q \in Session : /\ regulating'[q] = NotRegulating
                            /\ \A r \in Session \ {q} : settling'[r] = NotSettling /\ matching'[r] = NoMatching

\* Two vouchers that move balances; two contact lists at once before the first of them.
ItemsInBounds ==
    /\ Len(hist') <= 2
    /\ \A i \in DOMAIN hist' : hist'[i].lines # Reposted
    /\ hist' # << >> => \E p \in {ada, bo} : migrating'[p].row = 0

NextPaid ==
    \/ part = "bank" /\ NextReconcile /\ TwoPeopleReconcile /\ UNCHANGED << varsCurrency, varsMigration >>
    \/ part = "ocr" /\ NextOcr /\ UNCHANGED << varsCurrency, varsMigration >>
    \/ part \in {"currency", "rates"} /\ NextCurrency /\ CurrencyInBounds /\ UNCHANGED << varsBank, varsMigration >>
    \/ part = "history" /\ NextHistory /\ UNCHANGED << varsBank, varsCurrency >>
    \/ part = "items" /\ NextItems /\ ItemsInBounds /\ UNCHANGED << varsBank, varsCurrency >>

NextDocuments ==
    /\ UNCHANGED part
    /\ \/ /\ part = "inbox" /\ NextInbox /\ TwoRequests
          /\ UNCHANGED << varsMail, varsExpenses, varsTimesheet, varsDispatch, varsSold, varsPaid >>
       \/ /\ part = "mail" /\ NextMail
          /\ UNCHANGED << varsInbox, varsExpenses, varsTimesheet, varsDispatch, varsSold, varsPaid >>
       \/ /\ part = "expenses" /\ NextExpenses
          /\ UNCHANGED << varsInbox, varsMail, varsTimesheet, varsDispatch, varsSold, varsPaid >>
       \/ /\ part = "timesheet" /\ NextTimesheet /\ TwoPeopleBill
          /\ UNCHANGED << varsInbox, varsMail, varsExpenses, varsDispatch, varsSold, varsPaid >>
       \/ /\ part = "dispatch" /\ NextDispatch
          /\ UNCHANGED << varsInbox, varsMail, varsExpenses, varsTimesheet, varsSold, varsPaid >>
       \/ /\ NextSold
          /\ UNCHANGED << varsInbox, varsMail, varsExpenses, varsTimesheet, varsDispatch, varsPaid >>
       \/ /\ NextPaid
          /\ UNCHANGED << varsInbox, varsMail, varsExpenses, varsTimesheet, varsDispatch, varsSold >>

SpecDocuments == InitDocuments /\ [][NextDocuments]_varsDocuments

\* Every part begins with the variables of all, and changes its own.
TypeOKDocuments ==
    /\ part = "inbox" => TypeOKInbox
    /\ part = "mail" => TypeOKMail
    /\ part = "expenses" => TypeOKExpenses
    /\ part = "timesheet" => TypeOKTimesheet
    /\ part = "dispatch" => TypeOKDispatch
    /\ part = "stock" => TypeOKStock
    /\ part \in {"stock", "invoicing", "sales", "templates"} => TypeOKInvoicing
    /\ part \in {"sales", "templates"} => TypeOKSales
    /\ part \in {"bank", "ocr"} => TypeOKBank
    /\ part \in {"currency", "rates"} => TypeOKCurrency
    /\ part \in {"history", "items"} => TypeOKMigration

=============================================================================
