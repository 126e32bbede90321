------------------------------ MODULE Migration -----------------------------
(***************************************************************************)
(* Moving in from another system: SAF-T files that become history in the   *)
(* ledger, one per fiscal year; an opening balance entered by hand; open   *)
(* items that replace a summary line; and contact lists.  An import reads  *)
(* the ledger in statements of its own before the first voucher it posts   *)
(* takes the chain head, and what it posts is committed together.          *)
(***************************************************************************)
EXTENDS Access, Integers, Sequences, FiniteSetsExt, SequencesExt

CONSTANTS
    Account,            \* numbers of the chart, NS 4102
    BalanceAccount,     \* those of classes 1 and 2
    StartChart,         \* what the company has of them, and their reskontro kinds
    HistoryFile,        \* parsed SAF-T files: content, start, opening, parties, txs
    ItemsFile,          \* parsed lists of open items: account, contra, kind, rows
    ContactsFile,       \* parsed contact lists: rows of kind, no, name, given, good
    OrdinaryPosting,    \* what the company posts itself: sequences of lines
    ManualOpening,      \* opening balances entered by hand: sequences of lines
    YearDays,           \* days in a fiscal year
    RenumberFrom,       \* 90 000
    FirstPartyNo,       \* first_party_no, by kind
    FirstItemPartyNo,   \* the same for a party an open item creates
    MaxMigVoucher,      \* bound: vouchers in the ledger
    MaxMigTrouble       \* bound: imports that end in an error

Absent == "absent"
Plain == "plain"
Kind == {"kunde", "leverandor"}
NoParty == 0            \* a line without a party; an id that is no number
ContactField == {"address", "email", "bank_account"}

FileLine == [account : Account, amount : Int, kind : {Plain} \cup Kind, id : STRING]
FileParty == [id : STRING, no : Nat, kind : Kind, name : STRING]
OpenItem == [no : Nat, name : STRING, amount : Int]
ContactLine == [kind : Kind, no : Nat, name : STRING, given : SUBSET ContactField, good : SUBSET ContactField]
LedgerLine == [account : Account, amount : Int, party : Nat]

ASSUME MigrationAssumption ==
    /\ BalanceAccount \subseteq Account
    /\ StartChart \in [Account -> {Absent, Plain} \cup Kind]
    /\ YearDays \in Nat \ {0} /\ RenumberFrom \in Nat
    /\ FirstPartyNo \in [Kind -> Nat \ {NoParty}] /\ FirstItemPartyNo \in [Kind -> Nat \ {NoParty}]
    /\ \A f \in Range(HistoryFile) :
          /\ DOMAIN f.opening \subseteq Account /\ IsFiniteSet(DOMAIN f.opening)
          /\ \A a \in DOMAIN f.opening : f.opening[a] \in Int
          /\ f.start \in Int /\ f.txs \in Seq([date : Int, lines : Seq(FileLine)])
          /\ f.parties \in Seq(FileParty)
    /\ \A f \in Range(ItemsFile) :
          /\ {f.account, f.contra} \subseteq Account /\ f.account # f.contra
          /\ f.kind \in Kind /\ f.date \in Int
          /\ f.rows \in Seq(OpenItem) /\ f.rows # << >>
    /\ \A rows \in Range(ContactsFile) : rows \in Seq(ContactLine)
    /\ \A lines \in OrdinaryPosting \cup ManualOpening : lines \in Seq(LedgerLine)

VARIABLES
    hist,           \* vouchers in the order of the chain: journal, date, lines
    chart,          \* accounts of the company, each with its reskontro_kind
    party,          \* rows of party: no, kind, name
    contactOf,      \* contact details: pairs of a party's number and a field
    saftLog,        \* contents in saft_import_log
    migrating,      \* how far each person's import has come
    landed,         \* no table: every import that committed, and what it had read
    collided,          \* no table: parties created although somebody else just had
    migTrouble

varsMigration == << hist, chart, party, contactOf, saftLog, migrating, landed, collided, migTrouble >>

NotMigrating == [pc |-> "idle", file |-> 0, followUp |-> FALSE, base |-> 0, row |-> 0, no |-> 0]

InitMigration ==
    /\ hist = << >> /\ chart = StartChart /\ party = {} /\ contactOf = {} /\ saftLog = {}
    /\ migrating = [p \in Person |-> NotMigrating]
    /\ landed = {} /\ collided = {} /\ migTrouble = 0

-----------------------------------------------------------------------------
(***************************************************************************)
(* Books.                                                                  *)
(***************************************************************************)
SumOf(numbers) == MapThenSumSet(LAMBDA i : numbers[i], DOMAIN numbers)
LineSum(lines, a) == SumOf([i \in DOMAIN lines |-> IF lines[i].account = a THEN lines[i].amount ELSE 0])
Turnover(vouchers, a) == SumOf([i \in DOMAIN vouchers |-> LineSum(vouchers[i].lines, a)])
YearStart(day) == ((day - 1) \div YearDays) * YearDays + 1
DatedFrom(vouchers, day) == SelectSeq(vouchers, LAMBDA v : v.date >= day)

\* post_voucher: balanced, two lines or more, and a party exactly where the account asks for one.
Postable(v, accounts, parties) ==
    /\ Len(v.lines) >= 2
    /\ SumOf([i \in DOMAIN v.lines |-> v.lines[i].amount]) = 0
    /\ \A i \in DOMAIN v.lines : LET l == v.lines[i] kind == accounts[l.account] IN
          /\ kind # Absent /\ l.amount # 0
          /\ IF kind = Plain THEN l.party = NoParty
             ELSE \E x \in parties : x.no = l.party /\ x.kind = kind

AllPostable(vouchers, accounts, parties) ==
    \A i \in DOMAIN vouchers : Postable(vouchers[i], accounts, parties)

-----------------------------------------------------------------------------
(***************************************************************************)
(* What a SAF-T file becomes.                                              *)
(***************************************************************************)
OpeningIn(f, a) == IF a \in DOMAIN f.opening THEN f.opening[a] ELSE 0
Opened(f) == {a \in DOMAIN f.opening : f.opening[a] # 0}

\* The lines of a file on an account, each by its transaction and its place there.
OnAccount(f, a) ==
    UNION {{<< i, j >> : j \in {k \in DOMAIN f.txs[i].lines : f.txs[i].lines[k].account = a}} : i \in DOMAIN f.txs}

KindAt(f, i, j) == f.txs[i].lines[j].kind

\* An account becomes a reskontro account when every line on it names a party: the last one's kind.
FlagIn(f, a) ==
    LET on == OnAccount(f, a)
        tx == Max({at[1] : at \in on})
        line == Max({at[2] : at \in {o \in on : o[1] = tx}})
    IN IF on # {} /\ \A at \in on : KindAt(f, at[1], at[2]) # Plain THEN KindAt(f, tx, line) ELSE Plain

\* An opening has no parties: what it touches is not flagged after all.
FlagsFor(f, followUp) ==
    [a \in Account |-> IF ~followUp /\ a \in Opened(f) THEN Plain ELSE FlagIn(f, a)]

ChartWith(f, followUp) ==
    [a \in Account |->
        IF FlagIn(f, a) # Plain /\ (chart[a] # Absent \/ a \in DOMAIN f.opening) THEN FlagsFor(f, followUp)[a]
        ELSE IF chart[a] = Absent /\ a \in DOMAIN f.opening THEN Plain
        ELSE chart[a]]

\* Numbers are kept; other ids are counted from 90 000, in every file anew.
NumberIn(f, i) ==
    IF f.parties[i].no # NoParty THEN f.parties[i].no
    ELSE RenumberFrom + Cardinality({j \in 1 .. i : f.parties[j].no = NoParty})

PartyIn(f, i) == [no |-> NumberIn(f, i), kind |-> f.parties[i].kind, name |-> f.parties[i].name]

\* on conflict (company_id, party_no) do nothing
Conflicts(f, i) == \/ \E x \in party : x.no = NumberIn(f, i)
                   \/ \E j \in 1 .. (i - 1) : NumberIn(f, j) = NumberIn(f, i)

PartiesWith(f) == party \cup {PartyIn(f, i) : i \in {j \in DOMAIN f.parties : ~Conflicts(f, j)}}

PartyNo(f, l) == NumberIn(f, CHOOSE i \in DOMAIN f.parties :
                                f.parties[i].id = l.id /\ f.parties[i].kind = l.kind)

OpeningVoucher(f) ==
    [journal |-> "IMP", date |-> f.start - 1,
     lines |-> LET opened == SetToSeq(Opened(f)) IN
        [i \in DOMAIN opened |-> [account |-> opened[i], amount |-> f.opening[opened[i]], party |-> NoParty]]]

HistoryVoucher(f, tx, flags) ==
    [journal |-> "IMP", date |-> tx.date,
     lines |-> [i \in DOMAIN tx.lines |-> LET l == tx.lines[i] IN
        [account |-> l.account, amount |-> l.amount,
         party |-> IF flags[l.account] # Plain /\ l.kind = flags[l.account] THEN PartyNo(f, l) ELSE NoParty]]]

VouchersOf(f, followUp) ==
    (IF ~followUp /\ Opened(f) # {} THEN << OpeningVoucher(f) >> ELSE << >>)
    \o [i \in DOMAIN f.txs |-> HistoryVoucher(f, f.txs[i], FlagsFor(f, followUp))]

\* Faulty: accounts of classes 3 to 9 are taken as they come.
ReconcilesBalances(f) == \A a \in BalanceAccount : OpeningIn(f, a) = Turnover(hist, a)

\* reconcile_openings: balance accounts carry over, the others begin with their year.
Reconciles(f) ==
    \A a \in Account : OpeningIn(f, a) =
        IF a \in BalanceAccount THEN Turnover(hist, a)
        ELSE Turnover(DatedFrom(hist, YearStart(f.start)), a)

-----------------------------------------------------------------------------
(***************************************************************************)
(* import_saft.                                                            *)
(***************************************************************************)
\* The door: an empty ledger, or nothing in it but imported history.
ReadDoor(p, n) ==
    LET followUp == hist # << >> IN
    /\ Allowed(p, "MigrationAdmin")
    /\ migrating[p] = NotMigrating
    /\ followUp => \A i \in DOMAIN hist : hist[i].journal = "IMP"
    /\ HistoryFile[n].content \notin saftLog
    /\ migrating' = [migrating EXCEPT ![p] =
          [NotMigrating EXCEPT !.pc = IF followUp THEN "reconcile" ELSE "post",
                               !.file = n, !.followUp = followUp, !.base = Len(hist)]]
    /\ UNCHANGED << hist, chart, party, contactOf, saftLog, landed, collided, migTrouble >>

ReconcileOpenings(p) ==
    /\ migrating[p].pc = "reconcile"
    /\ migrating' = [migrating EXCEPT ![p] =
          IF Reconciles(HistoryFile[migrating[p].file]) THEN [@ EXCEPT !.pc = "post"] ELSE NotMigrating]
    /\ UNCHANGED << hist, chart, party, contactOf, saftLog, landed, collided, migTrouble >>

Landing(p, what, to) ==
    landed' = landed \cup {[what |-> what, file |-> migrating[p].file, read |-> migrating[p].base,
                            from |-> Len(hist), to |-> to]}

\* Everything that is written, and the log row that admits a content once.
PostHistory(p) ==
    LET f == HistoryFile[migrating[p].file]
        followUp == migrating[p].followUp
        vouchers == VouchersOf(f, followUp)
    IN
    /\ migrating[p].pc = "post"
    /\ f.content \notin saftLog
    /\ Len(hist) + Len(vouchers) <= MaxMigVoucher
    /\ AllPostable(vouchers, ChartWith(f, followUp), PartiesWith(f))
    /\ hist' = hist \o vouchers
    /\ chart' = ChartWith(f, followUp)
    /\ party' = PartiesWith(f)
    /\ saftLog' = saftLog \cup {f.content}
    /\ Landing(p, "saft", Len(hist) + Len(vouchers))
    /\ migrating' = [migrating EXCEPT ![p] = NotMigrating]
    /\ UNCHANGED << contactOf, collided, migTrouble >>

\* Any error, a deadlock's victim or a lost connection: nothing of it stays.
AbandonMigration(p) ==
    /\ migrating[p] # NotMigrating
    /\ migTrouble < MaxMigTrouble
    /\ migTrouble' = migTrouble + 1
    /\ migrating' = [migrating EXCEPT ![p] = NotMigrating]
    /\ UNCHANGED << hist, chart, party, contactOf, saftLog, landed, collided >>

-----------------------------------------------------------------------------
\* post_opening_balance holds the chain head from its first statement.
PostOpeningBalance(p, lines) ==
    LET v == [journal |-> "GL", date |-> 1, lines |-> lines]
        accounts == [a \in Account |->
            IF chart[a] # Absent /\ \E i \in DOMAIN lines : lines[i].account = a THEN Plain ELSE chart[a]]
    IN
    /\ Allowed(p, "MigrationAdmin")
    /\ migrating[p] = NotMigrating
    /\ hist = << >>
    /\ Postable(v, accounts, party)
    /\ hist' = Append(hist, v)
    /\ chart' = accounts
    /\ UNCHANGED << party, contactOf, saftLog, migrating, landed, collided, migTrouble >>

\* Day-to-day bookkeeping, which closes the door.
PostOrdinary(lines) ==
    LET v == [journal |-> "GL", date |-> 1, lines |-> lines] IN
    /\ Len(hist) < MaxMigVoucher
    /\ Postable(v, chart, party)
    /\ hist' = Append(hist, v)
    /\ UNCHANGED << chart, party, contactOf, saftLog, migrating, landed, collided, migTrouble >>

-----------------------------------------------------------------------------
(***************************************************************************)
(* Parties: found by number or by name within their kind, numbered within  *)
(* their kind, and unique by number whatever their kind.                   *)
(***************************************************************************)
Found(parties, kind, no, name) ==
    LET byNumber == {x \in parties : x.kind = kind /\ no # NoParty /\ x.no = no}
        byName == {x \in parties : x.kind = kind /\ x.name = name}
    IN IF byNumber # {} THEN byNumber ELSE byName

NextNo(parties, kind, first) ==
    LET numbers == {x.no : x \in {y \in parties : y.kind = kind}}
    IN IF numbers = {} THEN first ELSE Max(numbers) + 1

Taken(parties, no) == \E x \in parties : x.no = no

\* One row of a list of open items: its party, found or created, and its line.
WithItem(f, done, row) ==
    LET found == Found(done.parties, f.kind, row.no, row.name)
        no == IF row.no # NoParty THEN row.no ELSE NextNo(done.parties, f.kind, FirstItemPartyNo[f.kind])
        is == IF found # {} THEN (CHOOSE x \in found : TRUE).no ELSE no
    IN [ok |-> done.ok /\ (found # {} \/ ~Taken(done.parties, no)),
        parties |-> IF found # {} THEN done.parties
                    ELSE done.parties \cup {[no |-> no, kind |-> f.kind, name |-> row.name]},
        lines |-> Append(done.lines, [account |-> f.account, party |-> is,
                     amount |-> IF f.kind = "kunde" THEN row.amount ELSE -row.amount])]

ItemsOf(f) ==
    FoldLeft(LAMBDA done, row : WithItem(f, done, row),
             [ok |-> TRUE, parties |-> party, lines |-> << >>], f.rows)

\* The balance is read before the account's row is locked.
ReadBalance(p, n) ==
    /\ Allowed(p, "MigrationAdmin")
    /\ migrating[p] = NotMigrating
    /\ Turnover(hist, ItemsFile[n].account) = 0
    /\ migrating' = [migrating EXCEPT ![p] = [NotMigrating EXCEPT !.pc = "items", !.file = n, !.base = Len(hist)]]
    /\ UNCHANGED << hist, chart, party, contactOf, saftLog, landed, collided, migTrouble >>

PostItems(p) ==
    LET f == ItemsFile[migrating[p].file]
        items == ItemsOf(f)
        sum == SumOf([i \in DOMAIN items.lines |-> items.lines[i].amount])
        contra == [account |-> f.contra, party |-> NoParty, amount |-> -sum]
        v == [journal |-> "GL", date |-> f.date, lines |-> Append(items.lines, contra)]
        accounts == [chart EXCEPT ![f.account] = f.kind]
    IN
    /\ migrating[p].pc = "items"
    /\ chart[f.account] # Absent
    /\ items.ok
    /\ Len(hist) < MaxMigVoucher
    /\ Postable(v, accounts, items.parties)
    /\ hist' = Append(hist, v)
    /\ chart' = accounts
    /\ party' = items.parties
    /\ Landing(p, "items", Len(hist) + 1)
    /\ migrating' = [migrating EXCEPT ![p] = NotMigrating]
    /\ UNCHANGED << contactOf, saftLog, collided, migTrouble >>

-----------------------------------------------------------------------------
(***************************************************************************)
(* import_contacts: no transaction, a row at a time.                       *)
(***************************************************************************)
ContactRow(p) == ContactsFile[migrating[p].file][migrating[p].row]

AfterContact(p) ==
    IF migrating[p].row < Len(ContactsFile[migrating[p].file])
    THEN [migrating[p] EXCEPT !.pc = "find", !.row = @ + 1, !.no = 0]
    ELSE NotMigrating

ImportContacts(p, n) ==
    /\ Allowed(p, "MigrationAdmin")
    /\ migrating[p] = NotMigrating
    /\ ContactsFile[n] # << >>
    /\ migrating' = [migrating EXCEPT ![p] = [NotMigrating EXCEPT !.pc = "find", !.file = n, !.row = 1]]
    /\ UNCHANGED << hist, chart, party, contactOf, saftLog, landed, collided, migTrouble >>

FindContact(p) ==
    LET row == ContactRow(p)
        found == Found(party, row.kind, row.no, row.name)
    IN
    /\ migrating[p].pc = "find"
    /\ \/ \E x \in found : migrating' = [migrating EXCEPT ![p].pc = "details", ![p].no = x.no]
       \/ found = {} /\ migrating' = [migrating EXCEPT ![p].pc = "number"]
    /\ UNCHANGED << hist, chart, party, contactOf, saftLog, landed, collided, migTrouble >>

NumberContact(p) ==
    LET row == ContactRow(p) IN
    /\ migrating[p].pc = "number"
    /\ migrating' = [migrating EXCEPT ![p].pc = "insert",
          ![p].no = IF row.no # NoParty THEN row.no ELSE NextNo(party, row.kind, FirstPartyNo[row.kind])]
    /\ UNCHANGED << hist, chart, party, contactOf, saftLog, landed, collided, migTrouble >>

\* A number that is taken is a warning, and the row is passed over.
InsertContact(p) ==
    LET row == ContactRow(p)
        new == [no |-> migrating[p].no, kind |-> row.kind, name |-> row.name]
    IN
    /\ migrating[p].pc = "insert"
    /\ IF Taken(party, new.no) THEN
          /\ migrating' = [migrating EXCEPT ![p] = AfterContact(p)]
          /\ UNCHANGED << party, collided >>
       ELSE
          /\ party' = party \cup {new}
          /\ collided' = IF Found(party, row.kind, row.no, row.name) # {} THEN collided \cup {new} ELSE collided
          /\ migrating' = [migrating EXCEPT ![p].pc = "details"]
    /\ UNCHANGED << hist, chart, contactOf, saftLog, landed, migTrouble >>

\* One field that fails its check: only the address is tried again.
WriteDetails(p) ==
    LET row == ContactRow(p)
        kept == IF row.given \subseteq row.good THEN row.given ELSE row.given \cap {"address"}
    IN
    /\ migrating[p].pc = "details"
    /\ contactOf' = contactOf \cup {<< migrating[p].no, field >> : field \in kept}
    /\ migrating' = [migrating EXCEPT ![p] = AfterContact(p)]
    /\ UNCHANGED << hist, chart, party, saftLog, landed, collided, migTrouble >>

NextHistory ==
    \/ \E p \in Person :
         \/ \E n \in DOMAIN HistoryFile : ReadDoor(p, n)
         \/ ReconcileOpenings(p)
         \/ PostHistory(p)
         \/ AbandonMigration(p)
    \/ \E lines \in OrdinaryPosting : PostOrdinary(lines)

NextItems ==
    \/ \E p \in Person :
         \/ \E lines \in ManualOpening : PostOpeningBalance(p, lines)
         \/ \E n \in DOMAIN ItemsFile : ReadBalance(p, n)
         \/ PostItems(p)
         \/ \E n \in DOMAIN ContactsFile : ImportContacts(p, n)
         \/ FindContact(p)
         \/ NumberContact(p)
         \/ InsertContact(p)
         \/ WriteDetails(p)
         \/ AbandonMigration(p)
    \/ \E lines \in OrdinaryPosting : PostOrdinary(lines)

SpecMigration == InitMigration /\ [][NextHistory \/ NextItems]_varsMigration

-----------------------------------------------------------------------------
TypeOKMigration ==
    /\ \A i \in DOMAIN hist : hist[i].journal \in {"IMP", "GL"} /\ hist[i].date \in Int
    /\ chart \in [Account -> {Absent, Plain} \cup Kind]
    /\ \A x \in party : x.no \in Nat \ {NoParty} /\ x.kind \in Kind
    /\ \A x, y \in party : x.no = y.no => x = y
    /\ \A c \in contactOf : Taken(party, c[1]) /\ c[2] \in ContactField
    /\ saftLog \subseteq {f.content : f \in Range(HistoryFile)}
    /\ \A p \in Person : migrating[p].pc \in
          {"idle", "reconcile", "post", "items", "find", "number", "insert", "details"}
    /\ collided \subseteq party

FirstPart(n) == SubSeq(hist, 1, n)
OfYear(vouchers, day) ==
    SelectSeq(vouchers, LAMBDA v : YearStart(v.date) = YearStart(day))

\* What the other system shows on the account on the file's last day.
ClosingIn(f, a) == OpeningIn(f, a) + Turnover(f.txs, a)

Renumbers(f) == \E i \in DOMAIN f.parties : f.parties[i].no = NoParty

\* The line of the ledger is on the party the line of the file names.
OnOwnParty(f, l, told) ==
    l.party # NoParty =>
      \E x \in party, i \in DOMAIN f.parties :
         /\ x.no = l.party
         /\ f.parties[i].id = told.id /\ f.parties[i].kind = told.kind
         /\ x.kind = told.kind /\ x.name = f.parties[i].name

\* An import that no voucher met leaves every balance account at the file's closing balance,
\* over imported history alone.
BalancesAddUp(done) ==
    done.read = done.from =>
       /\ \A i \in 1 .. done.to : hist[i].journal = "IMP"
       /\ \A a \in BalanceAccount : ClosingIn(HistoryFile[done.file], a) = Turnover(FirstPart(done.to), a)

\* The accounts of the result close with what the year of the file moved on them.
YearAddsUp(done) ==
    LET f == HistoryFile[done.file] IN
    done.read = done.from =>
       \A a \in Account \ BalanceAccount :
          ClosingIn(f, a) = Turnover(OfYear(FirstPart(done.to), f.start), a)

LinesFollow(done) ==
    LET f == HistoryFile[done.file]
        first == done.to - Len(f.txs)
    IN
    \/ \A i \in DOMAIN f.txs : \A j \in DOMAIN f.txs[i].lines :
          OnOwnParty(f, hist[first + i].lines[j], f.txs[i].lines[j])
    \/ Renumbers(f) /\ \E other \in landed \ {done} :
          other.what = "saft" /\ other.to < done.to /\ Renumbers(HistoryFile[other.file])

\* Open items met by none are the whole balance of their account, each on a party of its row.
ItemsAddUp(done) ==
    LET f == ItemsFile[done.file]
        told == SumOf([i \in DOMAIN f.rows |-> f.rows[i].amount])
    IN
    /\ done.read = done.from =>
          Turnover(FirstPart(done.to), f.account) = IF f.kind = "kunde" THEN told ELSE -told
    /\ \A i \in DOMAIN f.rows : \E x \in party :
          /\ x.no = hist[done.to].lines[i].party /\ x.kind = f.kind
          /\ x.no = f.rows[i].no \/ x.name = f.rows[i].name

Histories == {done \in landed : done.what = "saft"}

HistoriesAddUp == \A done \in Histories : BalancesAddUp(done)
ItemListsAddUp == \A done \in landed \ Histories : ItemsAddUp(done)
PartiesRegisteredOnce ==
    saftLog = {} => \A x, y \in party \ collided : x.kind = y.kind /\ x.name = y.name => x = y

(***************************************************************************)
(* What was moved in is what the other system shows.  An import that no    *)
(* voucher met between its reads and its commit leaves every account at    *)
(* the file's closing balance, over imported history alone; open items met *)
(* by none are the whole balance of their account; each line is on the     *)
(* party its file names, unless two files both had ids to renumber; and a  *)
(* party is registered once, unless two imports created it at a time       *)
(* (docs/migration.md, the rules that keep migration honest).              *)
(***************************************************************************)
MigrationAddsUp ==
    /\ HistoriesAddUp /\ \A done \in Histories : YearAddsUp(done) /\ LinesFollow(done)
    /\ ItemListsAddUp
    /\ PartiesRegisteredOnce

=============================================================================
