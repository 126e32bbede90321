-------------------------------- MODULE Bank --------------------------------
(***************************************************************************)
(* Bank reconciliation: statements imported once, their lines matched one  *)
(* to one with the entries of a bank account, by the engine right after    *)
(* the import's commit and by people at any time; and the OCR files whose  *)
(* payments name the invoice they pay.                                     *)
(***************************************************************************)
EXTENDS Access, Integers, Sequences, FiniteSetsExt, SequencesExt

CONSTANTS
    BankAccount,        \* the ledger's bank accounts
    Statement,          \* what the bank hands out: ref and lines of day and amount
    BankPosting,        \* what is posted to the accounts: account, day, amount
    MatchWindow,        \* MATCH_WINDOW_DAYS
    OcrFile,            \* transmission and its assignments: number and KIDs
    InvoiceKid,         \* KIDs of invoices that will be issued
    MaxBankEntry,       \* bound: entries posted to the bank accounts
    MaxBankTrouble      \* bound: imports cut off after their commit, and unmatches

ASSUME BankAssumption ==
    /\ MatchWindow \in Nat
    /\ \A s \in Statement : s.lines \in Seq([day : Int, amount : Int \ {0}])
    /\ \A row \in BankPosting : row.day \in Int /\ row.amount \in Int

VARIABLES
    bankEntry,      \* entries on the bank accounts; ids are positions
    imported,       \* rows of bank_statement: ref and account
    bankTx,         \* rows of bank_transaction; ids are positions and rise
    bankMatch,      \* rows of bank_match
    importing,      \* how far each person's import has come
    engineRuns,     \* what each run of the engine read and proposed
    ocrBatch, ocrPayment, kidIssued,
    bankTrouble

varsReconcile == << bankEntry, imported, bankTx, bankMatch, importing, engineRuns, bankTrouble >>
varsOcr == << ocrBatch, ocrPayment, kidIssued >>
varsBank == << varsReconcile, varsOcr >>

NotImporting == [pc |-> "idle", account |-> "", tx |-> {}, todo |-> << >>]

InitBank ==
    /\ bankEntry = << >> /\ imported = {} /\ bankTx = << >> /\ bankMatch = {}
    /\ importing = [p \in Person |-> NotImporting]
    /\ engineRuns = {}
    /\ ocrBatch = {} /\ ocrPayment = {} /\ kidIssued = {}
    /\ bankTrouble = 0

-----------------------------------------------------------------------------
(***************************************************************************)
(* The engine: by date, amount and id each line takes the nearest entry of *)
(* its amount within the window, and none when two are equally near.       *)
(***************************************************************************)
Distance(t, e) == LET d == bankEntry[e].day - bankTx[t].day IN IF d < 0 THEN -d ELSE d

Agrees(t, e) == /\ bankEntry[e].amount = bankTx[t].amount
                /\ Distance(t, e) <= MatchWindow

Nearest(t, entries) ==
    LET near == {e \in entries : Agrees(t, e)}
    IN {e \in near : \A f \in near : Distance(t, e) <= Distance(t, f)}

EarlierLine(t, u) ==
    LET a == bankTx[t] b == bankTx[u] IN
    \/ a.day < b.day
    \/ a.day = b.day /\ a.amount < b.amount
    \/ a.day = b.day /\ a.amount = b.amount /\ t < u

Proposed(proposals) == {proposals[i].entry : i \in DOMAIN proposals}

\* The last of them takes what the others, taken in the same order, have left.
LastLine(lines) == CHOOSE t \in lines : \A u \in lines \ {t} : EarlierLine(u, t)

\* Faulty: of two equally near the first one is taken.
GuessMatches(lines, entries) ==
    MapThenFoldSet(LAMBDA t, done :
                      LET best == Nearest(t, entries \ Proposed(done)) IN
                      IF best # {} THEN Append(done, [tx |-> t, entry |-> Min(best)]) ELSE done,
                   << >>, LAMBDA t : t, LastLine, lines)

ProposeMatches(lines, entries) ==
    MapThenFoldSet(LAMBDA t, done :
                      LET best == Nearest(t, entries \ Proposed(done)) IN
                      IF Cardinality(best) = 1 THEN Append(done, [tx |-> t, entry |-> Min(best)]) ELSE done,
                   << >>, LAMBDA t : t, LastLine, lines)

-----------------------------------------------------------------------------
AccountOf(t) == (CHOOSE s \in imported : s.ref = bankTx[t].statement).account
MatchedTx == {m.tx : m \in bankMatch}
MatchedEntry == {m.entry : m \in bankMatch}

\* Anything in the program that posts to a bank account.
PostToBank(row) ==
    /\ Len(bankEntry) < MaxBankEntry
    /\ bankEntry' = Append(bankEntry, row)
    /\ UNCHANGED << imported, bankTx, bankMatch, importing, engineRuns, bankTrouble >>

\* Statement and lines in one transaction, refused when the bank's id is known.
ImportStatement(p, s, account) ==
    /\ Allowed(p, "BankReconcile")
    /\ importing[p] = NotImporting
    /\ \A row \in imported : row.ref # s.ref
    /\ imported' = imported \cup {[ref |-> s.ref, account |-> account]}
    /\ bankTx' = bankTx \o [i \in DOMAIN s.lines |->
          [statement |-> s.ref, day |-> s.lines[i].day, amount |-> s.lines[i].amount]]
    /\ importing' = [importing EXCEPT ![p] = [NotImporting EXCEPT !.pc = "lines", !.account = account]]
    /\ UNCHANGED << bankEntry, bankMatch, engineRuns, bankTrouble >>

\* auto_match, its first read: all lines of the account, whatever their statement.
UnmatchedBankRows(p) ==
    /\ importing[p].pc = "lines"
    /\ importing' = [importing EXCEPT ![p].pc = "entries", ![p].tx =
          {t \in DOMAIN bankTx : AccountOf(t) = importing[p].account /\ t \notin MatchedTx}]
    /\ UNCHANGED << bankEntry, imported, bankTx, bankMatch, engineRuns, bankTrouble >>

\* Its second read, and the engine.
AutoMatch(p) ==
    LET i == importing[p]
        free == {e \in DOMAIN bankEntry : bankEntry[e].account = i.account /\ e \notin MatchedEntry}
        proposals == ProposeMatches(i.tx, free)
    IN
    /\ i.pc = "entries"
    /\ importing' = [importing EXCEPT ![p].pc = "insert", ![p].todo = proposals]
    /\ engineRuns' = engineRuns \cup {[tx |-> i.tx, entries |-> free, proposals |-> proposals]}
    /\ UNCHANGED << bankEntry, imported, bankTx, bankMatch, bankTrouble >>

\* One insert each; the first that meets a match of somebody else ends the import in an error.
InsertProposal(p) ==
    LET i == importing[p]
        row == Head(i.todo)
        free == row.tx \notin MatchedTx /\ row.entry \notin MatchedEntry
    IN
    /\ i.pc = "insert"
    /\ i.todo # << >>
    /\ bankMatch' = IF free THEN bankMatch \cup {[tx |-> row.tx, entry |-> row.entry, method |-> "auto"]}
                    ELSE bankMatch
    /\ importing' = [importing EXCEPT ![p] = IF free THEN [i EXCEPT !.todo = Tail(@)] ELSE NotImporting]
    /\ UNCHANGED << bankEntry, imported, bankTx, engineRuns, bankTrouble >>

FinishImport(p) ==
    /\ importing[p].pc = "insert"
    /\ importing[p].todo = << >>
    /\ importing' = [importing EXCEPT ![p] = NotImporting]
    /\ UNCHANGED << bankEntry, imported, bankTx, bankMatch, engineRuns, bankTrouble >>

\* The statement is in; nothing matches it again but people, or the next import.
CutOffImport(p) ==
    /\ importing[p] # NotImporting
    /\ bankTrouble < MaxBankTrouble
    /\ importing' = [importing EXCEPT ![p] = NotImporting]
    /\ bankTrouble' = bankTrouble + 1
    /\ UNCHANGED << bankEntry, imported, bankTx, bankMatch, engineRuns >>

\* People may pair what they like on one account, whatever the amounts.
ManualMatch(p, t, e) ==
    /\ Allowed(p, "BankReconcile")
    /\ importing[p] = NotImporting
    /\ bankEntry[e].account = AccountOf(t)
    /\ t \notin MatchedTx /\ e \notin MatchedEntry
    /\ bankMatch' = bankMatch \cup {[tx |-> t, entry |-> e, method |-> "manual"]}
    /\ UNCHANGED << bankEntry, imported, bankTx, importing, engineRuns, bankTrouble >>

UnmatchBank(p, t) ==
    /\ Allowed(p, "BankReconcile")
    /\ importing[p] = NotImporting
    /\ t \in MatchedTx
    /\ bankTrouble < MaxBankTrouble
    /\ bankMatch' = {m \in bankMatch : m.tx # t}
    /\ bankTrouble' = bankTrouble + 1
    /\ UNCHANGED << bankEntry, imported, bankTx, importing, engineRuns >>

-----------------------------------------------------------------------------
IssueKid(kid) ==
    /\ kidIssued' = kidIssued \cup {kid}
    /\ UNCHANGED << ocrBatch, ocrPayment >>

\* The whole file in one transaction: an assignment seen before refuses all of it.
ImportOcrFile(p, f) ==
    LET batches == {[transmission |-> f.transmission, no |-> a.no] : a \in f.assignments} IN
    /\ Allowed(p, "OcrImport")
    /\ Cardinality(batches) = Cardinality(f.assignments)
    /\ batches \cap ocrBatch = {}
    /\ ocrBatch' = ocrBatch \cup batches
    /\ ocrPayment' = ocrPayment \cup UNION {
          {[transmission |-> f.transmission, no |-> a.no, line |-> i, kid |-> a.kids[i],
            linked |-> a.kids[i] \in kidIssued] : i \in DOMAIN a.kids} : a \in f.assignments}
    /\ UNCHANGED kidIssued

NextReconcile ==
    /\ \/ \E row \in BankPosting : PostToBank(row)
       \/ \E p \in Person :
            \/ \E s \in Statement, account \in BankAccount : ImportStatement(p, s, account)
            \/ UnmatchedBankRows(p)
            \/ AutoMatch(p)
            \/ InsertProposal(p)
            \/ FinishImport(p)
            \/ CutOffImport(p)
            \/ \E t \in DOMAIN bankTx, e \in DOMAIN bankEntry : ManualMatch(p, t, e)
            \/ \E t \in DOMAIN bankTx : UnmatchBank(p, t)
    /\ UNCHANGED varsOcr

NextOcr ==
    /\ \/ \E kid \in InvoiceKid : IssueKid(kid)
       \/ \E p \in Person, f \in OcrFile : ImportOcrFile(p, f)
    /\ UNCHANGED varsReconcile

SpecBank == InitBank /\ [][NextReconcile \/ NextOcr]_varsBank

-----------------------------------------------------------------------------
TypeOKBank ==
    /\ \A e \in DOMAIN bankEntry : bankEntry[e] \in BankPosting
    /\ imported \subseteq [ref : {s.ref : s \in Statement}, account : BankAccount]
    /\ \A t \in DOMAIN bankTx : \E s \in imported : s.ref = bankTx[t].statement
    /\ \A m \in bankMatch :
          /\ m.tx \in DOMAIN bankTx /\ m.entry \in DOMAIN bankEntry
          /\ m.method \in {"auto", "manual"}
    /\ \A p \in Person : importing[p].pc \in {"idle", "lines", "entries", "insert"}
    /\ \A x \in ocrPayment : [transmission |-> x.transmission, no |-> x.no] \in ocrBatch

Pairs(run) == {run.proposals[i] : i \in DOMAIN run.proposals}
TakenIn(run, e, t) == \E q \in Pairs(run) : q.entry = e /\ q.tx # t

(***************************************************************************)
(* Ties are never guessed and nothing clear is left: behind every row the  *)
(* engine put in, whoever matched beside it, is a run in which every other *)
(* entry that was at least as near went to another line; and a line that a *)
(* run passed over had no candidate left to itself.                        *)
(***************************************************************************)
AutoMatchIsClear ==
    /\ \A m \in bankMatch : m.method = "auto" =>
          /\ AccountOf(m.tx) = bankEntry[m.entry].account
          /\ Agrees(m.tx, m.entry)
          /\ \E run \in engineRuns :
                /\ [tx |-> m.tx, entry |-> m.entry] \in Pairs(run)
                /\ \A e \in run.entries \ {m.entry} :
                      Agrees(m.tx, e) /\ Distance(m.tx, e) <= Distance(m.tx, m.entry)
                         => TakenIn(run, e, m.tx)
    /\ \A run \in engineRuns : \A t \in run.tx \ {q.tx : q \in Pairs(run)} :
          \A e \in run.entries : Agrees(t, e) =>
             \/ TakenIn(run, e, t)
             \/ \E f \in run.entries \ {e} : Agrees(t, f)

=============================================================================
