# Formal models of regnmed

regnmed keeps the books of Norwegian companies: a PostgreSQL database written by an HTTP API, a
command-line tool and hosted agents (Rust, `src/crates`). These TLA+ modules model the parts of
it where requests, jobs and workers meet in the database: what is read before a transaction and
used in it, which row lock orders what, what a trigger sees, what a crash leaves behind. TLC
checks the models on small instances; TLAPS proves the central properties for every instance.

All paths below are relative to the repository; `db`, `api`, `core` and `agent` stand for
`src/crates/regnmed-db/src`, `regnmed-api/src`, `regnmed-core/src` and `regnmed-agent/src`, and
`NNNN` for the migration of that number in `src/crates/regnmed-db/migrations`.

## 1. The system

Every company has its own ledger; nothing below is shared between two companies except the
platform's registers. The application keeps no state between requests: all of it is in tables,
and every handler is a sequence of SQL statements under PostgreSQL's READ COMMITTED. A statement
sees what is committed when it starts, `for update` waits for the transaction that holds the row
and then sees what that one left, and a transaction that fails leaves nothing. What makes the code
hard is therefore always the same question: which statements are in one transaction, which of them
hold a lock, and what was read before.

| Component | State | Operations | Meets | Correct when |
|---|---|---|---|---|
| Ledger (`db/ledger.rs`, `core/hash.rs`, 0002, 0003) | `voucher`, `entry`, `chain_head`, `voucher_counter` | post one voucher, post several in one transaction | every component that posts | one unbroken hash chain, numbers without gaps, append-only |
| Period lock (`db/period.rs`, 0011) | `period_lock`, insert-only | set, reopen | postings, year end | nothing is posted behind a lock |
| Year end (`db/year_end.rs`, 0060) | `arsavslutning` | close | ledger, period lock | once per year, voucher, row and lock together |
| Opening balance (`db/opening.rs`) | none of its own | post into an empty ledger | ledger, migration | first voucher of the ledger |
| SAF-T import, open items, contacts (`db/saft_import.rs`, `db/migration.rs`, 0054) | `saft_import_log`, parties, accounts | import history, items, contacts | ledger, subledger | what the other system showed is what the ledger shows |
| Chain verification, anchoring (`db/anchor.rs`, 0014) | `anchor_snapshot`, `anchor_leaf` | verify, take a snapshot, verify anchors | postings under way | tampering is found, honest books are not accused |
| Subledger (`db/subledger.rs`, 0009, 0027) | `reskontro_match` | match, unmatch, match in currency, revalue | payments, bank, invoices | no entry matched beyond its amount; kroner follow cents |
| Payments (`db/payments.rs`, 0029) | `payment_run`, its lines | create, approve, settle, cancel | subledger, attestation policy | paid once, by two people, closes the posts |
| Attestation (`db/approval.rs`, 0030) | `attestation_policy`, `attestation` | set policy, attest | inbox, payments | nobody approves their own |
| Inbox (`db/inbox.rs`, 0015) | `inbox_document` | upload, attest, book, reject | ledger, attestation, agents | decided once, attested by somebody else |
| Inbox mail (`db/email.rs`, `api/mailq_in.rs`, 0032) | `inbox_mail`, address, senders | receive, trust, release, reject, rotate | inbox, the stream | attachments filed once or not at all |
| Invoicing, stock (`db/invoice.rs`, `db/product.rs`) | `invoice`, products, movements, counts | issue, sell for cash, credit, match, count | ledger, subledger | credited once; a count settles the stock |
| Sales documents, templates (`db/sales_document.rs`, `db/invoice_template.rs`) | quotes, orders, templates | quote, accept, order, invoice, generate | invoicing | what was agreed is what is billed |
| Subscriptions, reminders (`db/subscription*.rs`, `db/reminders.rs`) | coverage, subscriptions, runs, charges, reminders, trail | monthly run, provider's events, follow-up | invoicing, Stripe | a month invoiced once; reminded before blocked |
| Bank, OCR (`db/bank.rs`, `db/ocr.rs`) | statements, lines, `bank_match`, OCR payments | import, automatic and manual match | ledger | a line matched to one entry, ties never guessed |
| Payroll (`db/payroll.rs`) | employees, runs, their lines | run, pay holiday pay, link | ledger, timesheets | accruals equal what is owed |
| Assets, accruals (`db/asset.rs`, `db/accrual.rs`) | register, posted months, plans | depreciate, accrue, stop, dispose | ledger, period lock | each month once, parts add up to the whole |
| Share register (`db/share_register.rs`) | movements, dividends | record, decide dividends, return | ledger | the book adds up on every day |
| Expenses, timesheets (`db/expenses.rs`, `db/timesheet.rs`) | claims, hours, locks | submit, approve, pay; log, correct, bill | ledger, invoicing | claims are in the books, hours billed once |
| Hosted agents (`agent`, `db/agent_task.rs`, `regnmed-mail/src/taskqueue.rs`, 0064, 0069) | `agent_oppgave`, its trail, `agent_task_claim`, the NATS stream | order, nudge, claim, run, answer, release, sweep | portal, stream, the API as a client | one worker per task, every order attended to |
| Members, roles, firms, platform (`db/members.rs`, `db/roles.rs`, `db/engagement.rs`, `db/platform.rs`, `api/access.rs`) | memberships, own roles, engagements, grants, invitations, their trails | invite, redeem, change, request, assign | everybody's rights | an administrator is left; rights are what was granted |
| Dispatch (`db/dispatch.rs`, `api/dispatch.rs`, `api/mailq.rs`) | the log, invitations | publish, log | the stream | the log never claims what did not go |
| EHF, reports, SAF-T export, government clients, portal | none | render, read | outside services | (I/O) |

`PROJECT.json` lists each of them with its sources and its status, and the hazards of the code, each at
its line: the places where two statements are not one step.

## 2. The modules

| Module | Models | Built on |
|---|---|---|
| `Ledger` | posting, numbering, hash chain, period lock, year end, opening balance | |
| `LedgerLog` | what the ledger promises a reader: a log that only grows, numbered in order | |
| `LedgerAudit` | verify_chain, anchor snapshots, rows changed from outside | `Ledger` |
| `Reskontro` | open posts, matching and unmatching | |
| `Payments` | payment runs under the attestation policy, beside manual matching | `Reskontro` |
| `CurrencyPosts` | settlement in currency, difference of exchange, revaluation | `Reskontro`, `Money` |
| `AgentQueue` | orders to hosted agents, the work queue, leases, workers that die | |
| `Rights`, `Access` | rights, bundles, what the guard of an endpoint lets through | |
| `Calendar`, `Money` | months and dated registers; rounding, VAT, plans, value of stock | |
| `Membership` | members, own roles, firms, engagements, machines, the platform | `Rights` |
| `Inbox`, `InboundMail` | documents to be decided; the mail that brings them | `Access` |
| `Expenses`, `Timesheet` | claims; hours | `Access`, `Money`, `Calendar` |
| `Dispatch` | mail that goes out, and its log | `Access` |
| `Stock`, `Invoicing`, `SalesDocuments` | products and counts; invoices and credit notes; quotes, orders, templates | each on the one before |
| `Bank` | statements, the matching engine, OCR files | `Access` |
| `Migration` | SAF-T files, openings, open items, contacts | `Access` |
| `Payroll`, `Assets`, `Shares` | pay and accruals; depreciation and plans; the book of shareholders | `Access`, `Money`, `Calendar` |
| `Reminders`, `Billing` | the ladder; coverage, invoices and follow-up of one subscriber | `Billing` on `Reminders` |
| `LedgerProofs` | theorems about the ledger, that it implements `LedgerLog`, and about verification and anchors | `Ledger`, `LedgerAudit` |
| `PaymentsProofs` | theorems about `Payments` and `CurrencyPosts` (with `Reskontro`) | those |
| `AgentQueueProofs` | theorems about `AgentQueue` | `AgentQueue` |
| `DocumentProofs` | theorems about `Inbox`, `InboundMail`, `Dispatch`, `Expenses`, `Timesheet`, `SalesDocuments` and `Invoicing` | those |
| `GovernanceProofs` | theorems about `Membership` and `Billing` (with `Reminders`) | those |
| `RegisterProofs` | theorems about `Payroll`, `Assets` and `Shares` | those |
| `ImportProofs` | theorems about `Bank` and `Migration` | those |
| `FiniteSums` | lemmas about sums over finite sets and folds of sequences, for the proofs that need them | |
| `MC...` | constants of the model checker and compositions | the modules they extend |

**Ledger.** A `session` is one database transaction of one request. `BeginPosting` is everything
`post_voucher` and `post_voucher_in` do before they ask for the chain head: the draft is valid, its date is
open. `LockHead` is `select ... from chain_head ... for update`; `head_lock` is the row lock, and the
session reads head and counters there, as nobody else can change them until it ends. `WriteVoucher` draws
the number, hashes, inserts (the trigger `forbid_locked_period_posting` reads the lock again) and moves the
head, all inside the session; `PostAnother` is a second call in the same transaction (cash register, import,
currency). `Commit` publishes, `Rollback` is any error, lost connection or crash. `CheckClosing` reads the
result before the transaction, `BeginClosing` opens it, `CommitClosing` publishes voucher, `arsavslutning` row and
lock together. `CheckLock` and `InsertLock` are the two statements of `set_period_lock`, which has no
transaction around them. `created_at` is PostgreSQL's `now()`, the time the transaction *started*: `clock` gives
it, and the newest row governs. SHA-256 is taken to be free of collisions, so a hash is the sequence of all
contents before it. Amounts, accounts, parties and dimensions are data that decide whether a draft fails;
they are left out, and a draft that fails is a `Rollback`.

**LedgerLog.** One variable, the log. `Append1OrMore` adds entries, changes none, and leaves each entry with the
number that follows its predecessor in the same journal and fiscal year. `Ledger` implements it
(`AppendOnlyLog`): the log is the contents of the committed vouchers in the order of the chain.

**LedgerAudit.** `VerifyWalk` and `VerifyHead` are the two reads of `verify_chain`; postings may commit between
them. `AnchorSnapshot` freezes the committed head. `EditRow` changes or deletes a row and leaves the hashes;
`RewriteHistory` changes one and computes every later hash afresh, the case the anchors exist for.

**Reskontro, Payments.** A remainder is never stored: `remaining(e)` is computed from the match rows. `CheckMatch`
and `InsertMatch` are the two statements of `match_items`. `CheckRun` is what `create_run` reads before its
transaction, with each line checked by itself; `LockRun` and `SettleRun` are `settle_run` with its row lock;
`GuardAllows` is the trigger on `payment_run`. `contended` is no column: it remembers the entries on which two
claims (lines of live runs, requests half-way) were ever alive at once.

**AgentQueue.** `newest` is the event of the trail that governs a task, with the order of `created_at`. An answer is two steps:
`StartAnswer` (the trigger looks for a final event, and the time is taken) and `InsertAnswer` (others see it).
`Claim`, `Fetch`, `StartRun`, `Run`, `EndRun`, `Record`, `Release` and `Ack` are a worker's
way through `listen` and `run_task`. `Lose`, `Redeliver` and the duplicate branch of `Nudge` are the stream's
choices, `Crash` and `Fail` the workers'. `Expire` is the fifteen minutes of `CLAIM_TTL_MINUTES`; with `Timely` it
happens only when the holder is gone. `withdrawn` is no column: it counts final answers that stopped governing.

**Access.** What a handler asks of its guard is `Allowed(p, right)`: rights come in bundles (`Rights`, from
`api/access.rs`), and where roles do not change they are a constant. A guard is passed once, before the first
statement; `Membership` alone lets what it read be out of date when the handler goes on (`Clear`, then the act).

**Inbox, InboundMail.** `Upload` is the look for the same content, `InsertDocument` the insert; `Attest` reads the
document's status, `InsertAttestation` adds to the trail; `Bokfor` and `Avvis` hold the row. `raced` and `crossed` are no
columns: they remember the contents whose uploads overlapped and the documents whose attestations were on their way when they were decided.
`RouteMail` finds the company by its address, judges the sender and stores in statements of their own, so that
`RotateMailAddress`, `RevokeSender` or a redelivery can come between; `ReleaseMail` reads, `Release` writes, and the trigger
decides. `ConsumerCrash` leaves the message unacknowledged.

**Expenses, Timesheet, Dispatch.** A claim's approval and payment post in the transaction that holds its row; the model keeps the
books of the accounts they touch. `Bill` reads the hours and drafts, `BillHours` writes and marks. `Publish` puts a message on
the stream, `LogDispatch` follows it or does not.

**Stock, Invoicing, SalesDocuments.** Quantities are thousandths, amounts øre, VAT by `Money`. A count locks one product
(`StartCount`) and values the whole stock (`Varetelling`). `StartCredit` reads that nothing is credited, `IssueCredit` issues, and
`MatchCredit` is the statement after the commit, which may not come. `GenerateDue` and `GenerateNow` are the daily run and
the button on the same template.

**Bank.** `ImportStatement` commits; then come the two reads of the engine, one insert per proposal, and people beside it.
`ProposeMatches` is the pure engine as a fold.

**CurrencyPosts.** `ReadSettlement` takes both remainders before the transaction of `SettleInCurrency`; the share in kroner is
rounded as `core/currency.rs` rounds. `Kursregulering` posts and reverses.

**Migration.** `ReadDoor` and `ReconcileOpenings` are what `import_saft` reads, `PostHistory` all it writes: accounts, parties
(`on conflict do nothing`), flags, the opening, the history and the row of the log. `ReadBalance` and `PostItems` are
`import_open_items`. Contacts have no transaction: find, number, insert and details are four statements per row. `landed` is no
table: it remembers, for each import, how long the ledger was when it was read and when it was written to.

**Membership.** A company and a firm keep members by the same rules, so both are an `Org`. The change, the count of
administrators under the row locks and the row of the trail are one action; invitations, requests and grants are redeemed,
decided and ended by actions of their own; `PlatformRoleExpires` is time.

**Payroll, Assets, Shares.** `RunPayroll` computes from the lines of earlier runs before the transaction of `CommitRun`; runs may overtake
each other. `DepreciateDue` posts the oldest month that is due under the asset's row; `AccrueNow` and `AccrueAll` read once and post month by
month (`PostMonth`), a failing one being passed over. `RecordEvent` locks the owner, `CommitEvent` writes both
sides of a transfer.

**Reminders, Billing.** One subscriber. Coverage opens and ends by hand, by the provider's events (`SubscriptionCreated`,
`InvoicePaid`, `CardOutcome`, `SubscriptionDeleted`, in any order and more than once) and by the follow-up, whose steps are those of the
code: snapshot, one claim at a time, block, log; `CheckRestore` and `LogRestored` are the way back, from the webhook and from the
sweep.

## 3. The runs

Each run below finishes with no error unless it says *violated*.

| Run | Instance | Shows |
|---|---|---|
| `ledger` | 3 sessions, 2 dates that are both year ends, 1 journal, 3 vouchers, 2 per transaction, 2 timestamps | chain, numbers, locks, closings, opening balance; the ledger implements the append-only log |
| `ledger_audit` | 2 sessions, 3 vouchers, 2 anchors, one change from outside | what verification and anchors find, and that an honest ledger is accused only if overtaken by a posting |
| `payments` | 2 requests, 2 runs of up to 2 lines, 2 people, a post of 2 and a payment on account of 1, 2 match rows | paid once, four eyes, no post overpaid unless two claims met on it |
| `agent_queue` | 1 task, 2 listeners and the sweep, 2 messages, 1 crash or failed call, 1 human answer | one worker per task, final answers, every order attended to |
| `documents` | 2 people and a machine; 15 parts, see below | what comes in and goes out beside the ledger |
| `governance` | 2 people and a machine; 7 parts | who may act, and what recurs |
| `late_posting` | as `ledger` with 2 sessions | *violated*: a posting past the trigger commits behind a lock |
| `reopened_year` | the same, nobody may reopen | *violated*: a closed year ends up open |
| `payments_overlap` | as `payments` | *violated*: a post is paid twice |
| `agent_slow_lease` | as `agent_queue`, runs may outlast the lease | *violated*: two workers on one task |
| `orphaned_company` | as `governance`, one more change | *violated*: the platform takes the last administrator |
| `disposed_asset` | as `governance` | *violated*: depreciation after the sale |

**Parts.** `MCDocuments` and `MCGovernance` compose components that share no table and no lock. Interleaving them
would multiply their states and show nothing that each does not show alone, so `part` picks one per behaviour and the
others keep their initial values. Where components do share rows they are in one part: stock with its sales (`stock`),
invoices with credit notes (`invoicing`), quotes, orders and their invoices (`sales`), templates beside invoices made
by hand (`templates`), coverage with the invoices, charges and reminders on it (`billing`, `unpaid`). The other parts
of `documents` are `inbox`, `mail`, `expenses`, `timesheet`, `dispatch`, `bank`, `ocr`, `currency` and `rates`
(settlements against each other, and one beside a revaluation), `history` and `items` (a company moved in by SAF-T files, and by
lists and contacts); those of `governance` are `membership`, `payroll`, `assets`, `accruals` and `shares`.

**Properties worth a word.** Each has a comment in its module that says what it states and where it stops. The
exemptions are the point: they name exactly the overlap that the code does not keep apart.

- `LockHolds` states what the lock *does* guarantee: a lock that stands lets at most the vouchers of one
  transaction through behind it, the one that was past the trigger. The stronger claim of `docs/perioder.md` is
  `PostedInOpenPeriod`, and it does not hold.
- `ClosingAtomic` relates `arsavslutning`, `voucher` and `period_lock` at every moment, with two people closing the same
  year. That the year *stays* locked is `ClosedYearStaysLocked`, and it does not hold.
- `AlarmOnlyWhenOvertaken` and `PassedIsAsHashed` are the two sides of `verify_chain`: no false alarm but that one,
  and no edited row passed. `AnchorsTell` covers what the walk alone cannot see: a history rewritten with its hashes.
- `OverpaidOnlyIfContended` says where the races of matching and paying are confined: where no two claims on a
  remainder were ever alive together, no entry is settled beyond its amount.
- `FinalAnswersStand` bounds what the trail's trigger misses: only an answer given by a person at the same moment
  can undo a final answer, once each. Workers alone never do, whatever is redelivered, swept or taken over.
- `AttestedByAnother` and `TwinsOnlyIfContended` are about a status, and a content, read in one statement and
  relied on in the next. `FiledOnce` holds although `release_mail`'s own lock does not: the trigger saves it.
- `ClaimsAreInTheBooks`, `CountSettlesStock`, `AccrualOnTarget`, `BookAddsUp` and `MovedOnce` are equations between a
  register and the ledger, øre for øre, with rounding and VAT as the code computes them. `MovedOnce` is four
  of them: plans move each month once, the book value is carried from month to month, the report says what the ledger says, and the
  tax balance stays within the cost.
- `HoursBilledOnce`, `CreditedOnce`, `AgreedIsBilled` and `BilledOnce` say that something is invoiced once. Hours
  and months are kept apart by rows and keys; an invoice is credited twice when two requests overlap, which
  `CreditedOnce` exempts and nothing in the code promises against. It is silent, too, of the amounts of a note whose discount lines
  and a changed rate leave it with a claim of its own.
- `AutoMatchIsClear` holds the engine to "a tie is never guessed" with people matching between its reads and its
  inserts.
- `DriftIsRounding` bounds by half an øre per settlement how far kroner and cents of one post come apart, also where two
  requests settle the same post at once.
- `MigrationAddsUp` compares what a file or a list says with what the ledger shows afterwards, and each line with the party its file named.
- `OrphanedOnlyByPlatform`, `TrailReplays` and `GovernedByAdmins` hold through all the routes of `Membership`, two
  administrators demoting each other among them.
- `FollowUpIsFair` relates the trail to what the follow-up, the webhook and the sweep each did.
- `LoggedIsSent` holds one way only, and says so: a crash between publishing and logging leaves a mail without a row.

**Bounds.** Every bound is a CONSTANT marked `bound` in its module, or a formula of the MC module that restricts the
part it is named in. Three sessions let one hold the head, one wait and
one commit a lock in between; three vouchers let a transaction of two follow one of one, and the other way round;
two timestamps are enough for a lock to overtake a closing. The years of the `ledger` instance are one day
long so that every date is also a year end: what a longer year adds is data. Two requests, two runs and two lines
are what a race on a remainder takes; the amounts 1 and 2 tell a partial from a whole settlement. Two
replicas and the sweep are three claimants of a lease; two messages are a nudge and a duplicate, each delivered twice
at most (`max_deliver`). The ledger, audit and payments instances use symmetry; no liveness is checked with it
(`AppendOnlyLog` is a safety property).

In `documents` and `governance` two people are what a race takes and the third is the machine, whose rights are fewer; the
formulas `TwoPeopleCount`, `TwoPeopleBill`, `TwoPeopleReconcile` and `TwoRequests` keep the third from a race
of three. `OneSale` allows one invoice and everything issued and matched after it. `CurrencyInBounds` allows two
disturbed posts in `currency`, and in `rates` one revaluation beside one settlement. `ItemsInBounds` allows two vouchers that move balances beside the lists.
`GuardsPassed` and `MaxBeside = 1` let two requests of an organisation race, with one of five other things (an
invitation, an own role, an engagement, a machine, a second platform role) in use at a time. `BilledInBounds` gives
`billing` all events and no crash, and `unpaid` one invoice and every crash of the follow-up. `PaidInBounds`,
`RecordedInBounds` and `LockedInBounds` leave out a second person's hours, a third movement beside a
dividend, and locks on months other than the plan's second. `MaxChange` is 2 changes of
membership (3 in `orphaned_company`); the `...Trouble` bounds are one crash, failed statement or lost answer each.

Amounts are small and odd so that every rounding has something to round (101 øre, 7 kilometres, a plan of -8 over 3
months, a cost of 11 over 3 months). Constants of the code are scaled where they only count days: a month has 2 days, an invoice is due at once, coverage is
blocked 2 days after, the engine's window is 1 day instead of 5, a year of `history` has 2, and the number series
start at 10, 50, 20 and 90 instead of 10000, 50000, 20000 and 90000, so that a series can run into the next. `CHECK_DEADLOCK FALSE` is set in these
two, because a company in which every document is decided and every bill paid has nothing left to do.

**Fairness.** Only `AgentQueue` states any. A worker that can take a step takes it (a process runs until it dies; the
bound on crashes stands for "not forever"), the sweep is run by its hourly schedule, and leases run out because time
passes. Nothing is assumed of people, nudges, deliveries or the stream, so that `EveryTaskAttended` rests on
the sweep and the lease's expiry alone, as `taskqueue.rs:15-18` says it should. `Timely` is an assumption and not
fairness: see `agent_slow_lease` for what happens without it. For the other components only safety is stated:
their jobs are started by schedules in `src/deploy`, and what the code itself must keep is that a run which comes late, twice, or
not at all does no harm.

**Mutants.** Each property of each passing run is paired with a faulty variant of one definition (marked `Faulty` in
the module) under which TLC finds it violated.

## 4. Findings

1. `late_posting` (`db/ledger.rs:240`). The lock is read before the chain head is taken and once more by the trigger,
   but `set_period_lock` takes no lock that a posting waits for. A lock committing after the trigger's
   read does not stop the posting.
2. `reopened_year` (`db/period.rs:53`). A request that read no lock inserts its earlier date after the closing's, and the
   newest row governs: the closed year is open with `allow_reopen` false throughout.
3. `payments_overlap` (`db/payments.rs:125`). Lines are checked one by one against the remainder read before the
   transaction; two lines or two runs on one post are both paid.
4. `agent_slow_lease` (`db/agent_task.rs:232`). A run may take 36 minutes (twelve turns of 180 seconds) and the job's own deadline is
   30; the lease is fifteen and is never renewed.
5. `orphaned_company` (`db/platform.rs:505`). `platform_assign_company` gives a member the role it is called with and
   counts no remaining administrators; given a lesser role, the only administrator is one no more.
6. `disposed_asset` (`db/asset.rs:306`). A month before the disposal that was not posted when the asset was sold is
   posted afterwards, out of a book value that has been taken out already.

Seen while modelling, without a run of their own:

- `docs/valuta.md:67` says "Begge sidenes NOK-rester når eksakt null", and the comment at `db/subledger.rs:296` "reach exactly
  zero, never drift". A post settled in parts may keep some øre, or be overdrawn by them (`DriftIsRounding`); where the share in kroner rounds to zero no match row is
  written, and the cents are not remembered.
- Two first SAF-T imports at once both find an empty ledger and both post their opening balance; two imports of open
  items both read balance zero and double it, though `docs/migration.md` says that afterwards the subledger equals the sum of the open
  posts.
- Renumbered parties start from 90000 in every file and are inserted with `on conflict do nothing`
  (`saft_import.rs:154-190`): in a follow-up file the number may be somebody else's.
- Party numbers are counted per kind and unique across kinds, so the next number of one kind can be taken by the other.
- When contact details are refused, the retry passes no e-mail either, so a bad bank account loses the e-mail that
  the comment at `migration.rs:111-112` says it does not.
- A line of an invoice may take off (`db/invoice.rs:223` looks at the total only). A note negates the lines and takes the rates of
  its own day, so a discount and a VAT rate that changed can turn a note into a claim on the customer.
- Suppliers created by open items start at 20000 (`migration.rs:415`); `docs/reskontro.md:29` says 50000.

## 5. Proofs

The theorems hold for every value of the constants that satisfies the `ASSUME`s of the modules: any number of
sessions, journals, dates, years, people, runs, lines, tasks, documents, mails and messages, and any value of the bounds.
The bounds are therefore of the model checker only, except `MaxPerTx`, which `LockHolds` is about.

| Theorem | Module | Says |
|---|---|---|
| `TypeCorrect` | `LedgerProofs` | `Spec => []TypeOK` |
| `PostingInvariant`, `ChainIsIntact`, `NumbersAreGapFree` | `LedgerProofs` | one unbroken chain; numbers 1..counter in every book |
| `LocksHold` | `LedgerProofs` | a standing lock lets at most one transaction through behind it |
| `ImplementsLog` | `LedgerProofs` | `Spec => AppendOnlyLog`: the ledger implements the log |
| `OpeningIsFirst` | `LedgerProofs` | an opening balance is voucher 1 |
| `ClosingIsAtomic` | `LedgerProofs` | closing voucher, row and lock together, once per year |
| `AlarmsOnlyOvertaken`, `PassesOnlyAsHashed` | `LedgerProofs` | a false alarm only when a posting overtook the walk; what passes is as it was hashed |
| `AnchorsProve` | `LedgerProofs` | anchors match an honest ledger and fix the history below them |
| `PaidAtMostOnce`, `TwoPeopleApprove` | `PaymentsProofs` | one settlement per paid run; four eyes |
| `PostsInvariant`, `PaymentsTypes` | `PaymentsProofs` | the inductive invariant of the posts; `SpecPayments => []TypeOKPayments` |
| `OverpaidOnlyByContention` | `PaymentsProofs` | a post is matched beyond its amount only if two claims met on it |
| `DriftStaysRounding` | `PaymentsProofs` | kroner and cents of a post are at most half an øre apart per settlement |
| `QueueTypes` | `AgentQueueProofs` | `Spec => []TypeOK` |
| `OneWorker`, `FinalAnswersHold` | `AgentQueueProofs` | with `Timely`: one worker per task; final answers stand but for a person's |
| `BookedOnAnothersWord`, `TwinsRaced` | `DocumentProofs` | booked on somebody else's approval; twins only from overlapping uploads |
| `MailFiledOnce` | `DocumentProofs` | attachments filed once or not at all |
| `LogNeverClaims` | `DocumentProofs` | every row of the log has its message on the stream |
| `ClaimsBooked` | `DocumentProofs` | the books owe, cost and paid what the claims say, øre for øre |
| `HoursOnOneInvoice` | `DocumentProofs` | the lines of an invoice are those of the hours marked with it |
| `BilledAsAgreed` | `DocumentProofs` | an order is billed as agreed, by an invoice of its own; a period of a template once |
| `CreditedAtMostOnce` | `DocumentProofs` | an invoice is credited once but where two requests met; claim and note close each other |
| `CountsSettle` | `DocumentProofs` | a count gives the quantity counted; once its difference is posted the books are worth what the stock is |
| `MembershipInvariant`, `AdministratorLeft` | `GovernanceProofs` | without an administrator only by the platform |
| `TrailsReplay`, `PeopleGovern` | `GovernanceProofs` | rows are what their trail tells; who governs was let in |
| `InvoicedOnce` | `GovernanceProofs` | one invoice of the run per month, one booking per payment |
| `FollowedUpFairly` | `GovernanceProofs` | the ladder, blocks after a demand, restored at most what was ended |
| `SetAsideOnTarget` | `RegisterProofs` | set aside is the rate on what is owed; the accounts hold what the lines say |
| `AssetsMovedOnce` | `RegisterProofs` | plans, assets, the report and the tax balance: each øre once |
| `ShareBookAddsUp` | `RegisterProofs` | the book holds both sides of a sale; the return and the dividends owed follow it |
| `MatchesAreClear` | `ImportProofs` | the engine matches nothing that was a tie and leaves nothing that was clear |
| `MigrationInvariant`, `MigrationTyped` | `ImportProofs` | what an import has read holds until a voucher comes between; `SpecMigration => []TypeOKMigration` |
| `HistoriesArrive` | `ImportProofs` | balance accounts end at the file's closing balance, open items at their sum, each on a party of its row; a party is registered once |
| `TotalTakes`, `TotalOfBoth`, `TotalSwaps`, `SumsGiveTotal` | `FiniteSums` | how a sum takes a member, adds to another, is the same by rows as by columns, and is what `MapThenSumSet` computes |
| `FoldsExist`, `FoldStays`, `ReachesLast` | `FiniteSums` | that the fold of a sequence exists, stays among the values its step allows, and can be followed from prefix to prefix |

**Chain and numbers.** `ChainIntact` and `GapFreeNumbers` speak of committed rows and are not inductive: a commit
makes rows public that they say nothing of. `PostingInv` adds what makes the commit safe. `HeadExclusive`: a session is inside
`post_voucher_in` exactly while it holds the head, and only then has rows of its own. `HolderExtends`: the
committed rows together with the holder's are a chain with gap-free numbers, whose tip and counters the holder
knows. Taking the head establishes this from the committed state, a write extends it (`ChainExtend`,
`NumbersExtend`), a commit turns it into the next committed state, and a rollback drops it. Every other step
leaves the head alone (`QuietStep`).

**Period lock.** `LockInv` rests on four facts. `Stamps`: no two lock rows, nor a row and a closing under way, have one
time, so the newest row is one row. `BehindHead`: a row remembers no more vouchers than the ledger holds.
`HolderWithinBounds`: the holder is at most `MaxPerTx` vouchers ahead of the committed head. `HolderAfterLocks`: once
some transaction has committed after a lock row, the present holder took the head after it too, and all it has written
is dated after that lock, if it stands; only a lock nothing has been committed after can be missed, and then what
slips through is within `MaxPerTx` of it. `OpenIsAfterStanding`
is the lemma that ties the trigger, which looks at the newest row only, to every lock that stands.

**Refinement.** The log is `contents`: committed vouchers read in the order of `chain_seq`. That numbers of a book are
1..counter does not say in which order they come; `OrderInv` adds that they rise along the chain, for the committed rows
and for what the holder sees. `ReadInOrder` then shows each entry to follow its predecessor, `CommitAppends`
that a commit maps to `Append1OrMore` and nothing already there moves; every other step is a stutter.

**Year end and opening.** `OpeningUnderWay`: an opening balance that holds the head found the ledger empty, and nobody
can post before it lets go. `ClosingUnderWay`: a closing is dated on the last day of its year and has written exactly its
one voucher when it commits; nobody else writes one. With `YearOfItsEnd` (the last day of a year is in that year)
the three rows that `CommitClosing` publishes are about the same year.

**Audit.** `AuditInv` has two parts. `Walked` holds whoever writes: if the walk has passed what it read, every hash there is
the contents of the rows up to it, in the order of the sequence numbers (`WalkShowsContents`). `Honest` holds until
a row is changed outside the application: `PostingInv` of the ledger, every anchor is a hash that is in the chain, and what the
walk has read is a beginning of the chain (`ChainWalks`), so that only a later posting can make the heads differ. What a
walk shows about *all* rows is an induction over the chain. It is done by minimal counterexample: `LeastSet` says that
among the subsets of a finite set with a property that some have, one has no smaller one in it; it follows from the well-foundedness
of strict inclusion and needs no operator as its parameter.

**Sums.** Remainders and balances are sums over finite sets, and what a sum does when a member is added is an induction.
`FiniteSums` does it once, without an induction rule: `LeastSet` says that among the subsets of a finite set
that are counterexamples one includes no other (strict inclusion is well-founded), and each lemma shows that one not to be there.
`SumOver` is the sum, `TotalTakes` its unfolding at any member, and `SumsGiveTotal` the bridge from `MapThenSumSet`.
Folds of sequences (`FoldLeft`) choose a function as sums do; with the step as a function from positions and a set of values,
`FoldsExist` says that there is one, so that what is chosen unfolds from prefix to prefix.

**Payments.** `PaymentsInv` is the shape of the rows, that the vouchers of a run match its status, and four eyes; it
holds by the row lock and the trigger whatever the remainders are. `PostsInv` adds the open posts. A claim on a post
is a request, or a line of a run, that has passed its check and not written its match. `Lone`: of a post nobody
contended there is at most one. `Fits`: what it will take is within what is left of the post, and on the same side. A match then takes
what its claim allowed, and cancelling a match only makes room. That finitely many requests are at work is part of the invariant: claims
are counted by sums.

**Settlement in currency.** `DriftInv` is the shape of rows and lines (`Rowed`), what requests half-way hold (`Matchings`, `Settlings`)
and the property itself, stated of the rows (`AllNear`). A settlement takes cents off a post and a rounded share of its kroner, so what the
two are apart (`DriftOf`) is a sum of roundings, each at most half an øre (`ShareApart`, `SettlementAdds`). What `match_valuta` worked
out before its transaction stays right, because neither posts nor their lines change (`IsSettling`); that is why requests
that overlap are covered. The side that gives up more is closed against the line of the difference, and each side is
matched by exactly its share (`SharesMatched`). Posts matched in kroner, unmatched, or settled for a share of nothing are
`disturbed`, and nothing is said of them.

**Agents.** `TypeInv` adds to the types that every message names a task that exists and that a worker has an answer under
way only between its two statements. `LeaseHeld`: who is at work holds the lease and it has not run out. This
needs `Timely`; the run `agent_slow_lease` shows what happens without it, and the theorems say so in their statement.
`LossesAccounted`: no final answer governs while a person's answer and a worker's are both still on their way,
and a person's answer accounts for the one final answer it may undo.

**Inbox.** `InboxInv` strengthens the two properties by what makes them inductive. `Attested`: a document booked under the
policy is decided and has a trail. `Overtaken`: an attestation still on its way to a decided document met the decision,
and is remembered (`crossed`). `Racing`: a content of which two uploads are under way, or one while it is in the inbox already, is remembered as
raced. The approval a document was booked on stays, because the trail only grows.

**Mail and log.** `MailInv` is the types and `FiledOnce`: of two people who release one mail, the second fails
at the trigger, which sees the status the first has committed. `DispatchInv` adds to `LoggedIsSent` that who is
between publishing and logging has a message of that subject on the stream (`Accepted`), and that what is answered is about a subject (`ToldOfSubject`).

**Claims and hours.** `ClaimsAreInTheBooks` is inductive once amounts are typed and only finitely many claims are made: each step
moves one claim from one of the sums `Approved`, `Paid`, `OwedOn` to another, and posts its amount (`SplitComesTo`: base and VAT
of a gross amount come to it). For hours, `ReadAsIs` says that what a request read is what the row still is, unless the row
was corrected, marked or deleted since; marking one that is marked fails. `LinesSame`: the lines of an invoice depend on the project, the
rate and the minutes of its entries, which neither marking nor the order of rows changes.

**Quotes, orders and templates.** `BilledAsAgreed` is about `SpecSalesDesk`, where documents and templates are billed while invoices of
the same firm are issued, credited and counted by others; all they do to the list of invoices is to append (`Grown`), so
that an invoice a row names stays what it was. `DocsInv`: an accepted quote is not written any more and keeps the lines agreed
(`AgreedStays`), and a quote or an invoice has one order (`Own`). `PlansInv`: the next day of a template is its start plus a whole number
of intervals (`OnPlan`), and a period that has been billed lies before it (`RunsOnce`); that no day between
two periods is on the plan is `OneDayAPeriod`, a fact about remainders.

**Invoices and credit notes.** `CreditInv` says that rows are numbered and typed, that a note follows its invoice (`ComesOut`), that
what is open of a row lies between nothing and its amount (`OpenWithin`), whom a request credits (`Requests`), that of an invoice
no two requests met on there is one who asks or one note (`OneNote`), and that one of the two is closed once they are matched
(`OneIsClosed`). A note has the lines of its invoice negated, but the VAT and exchange rates of its own day. Rounding is
the same up and down (`RoundsToward`), so that a total has the sign of its parts (`TotalsToward`) and a note on lines that take nothing
off is no claim at any rates (`NegatedToward`); with the same gross in kroner it is none either. Where neither holds `TakesBack`
is false and the property says nothing of the amounts: a discount at one VAT rate, with another rate raised in between, can leave a
note with a claim. Assumed are whole amounts and rates that are not negative.

**Stock.** The log is valued by three folds: the rows of a product on a day (`Kept`), the days one after the other (`Chronological`), the
running average (`ValueStock`). `KeptWeighs`, `WeightJoined` and `StockQuantity` follow each from prefix to prefix, and `ProductQuantity`
adds up: whatever the order of dates, the quantity is the sum of all rows of the product, so that the row a count appends brings
it to what was counted (`AdjustedGives`). `StockInv` says that every count left the log so (`Held`; the log only grows), that the
value a count has read is still the one it will leave if it is alone (`AloneKnows`: whatever moves the stock or edits the register
takes `alone` from every count under way), and that the books agree after such a one (`BooksAgree`). A document moves the stock in its own
transaction (`SalesMove`), on a day that templates, too, have in the calendar (`PlannedDays`). Assumed are finitely many products and whole
quantities and costs.

**Membership.** `MembershipInv` has the types; `AllTold`, that every row is as its trail tells; and `Standing`: who has passed a guard, or
invites, has a row of its own; the founder's row came first; and an organisation has an active administrator, unless the platform is to
blame (`demoted`). The count under the row locks is what keeps the last: a change that would take the last administrator away is refused inside its
transaction.

**Billing.** `InvoiceInv`: a month's run row names the first invoice of that month (`MonthsMarked`), so a later one cannot be of the
run; what an invoice of the run has left follows from whether card and bank have paid (`Settled`). `FollowInv` adds four parts.
`LadderInv`: of a claim nobody contended at most one step is prepared, and it still fits the rows there are, as nobody
else writes one. `SnapInv`: what a worker saw of a claim stays true, as due dates and rows do not change. `CoverInv`: the machine
does not end the same coverage twice. `CountInv`: while nothing is unlogged, one worker restores at a time; the restored entries of the trail, with
the one it is about to write, are no more than the blocked ones, and every blocked entry, with those about to be written,
has coverage that was ended for it. The theorem follows by adding these up.

**Payroll.** `PayInv` says of a request that has computed its lines only what it owes to the months it *saw* (`TruedUp`): each employee's
contribution is the target less what those months had set aside. That stays true whatever is committed meanwhile; where
the months it saw are the months there are, its commit puts every employee of the run on target, and otherwise nobody is said to be.
`MonthAdds` takes the sums over all months, in which a month without a line counts for nothing, so that a run
changes one summand; `MonthAddsAll` adds that up over everybody, and the voucher posts the same columns. The assumptions are that
employees and months are finitely many and that terms, rates and payouts are whole numbers.

**Accruals and assets.** `AccrualInv`: a month is in a plan's log once, because the index refuses a second row, and a runner that
read the plan before it was stopped holds only months that had ended by then (`HasEnded`, which stays true). What the months of a plan
come to, the last one taking what rounding left, is `PlanComesTo`. `AssetInv` follows an asset's account day by day: by
each day it holds the cost, once bought, less the months posted for days up to it, less what a disposal up to it took out
(`CarriedIsWorn`); a step moves one day of the account (`OneDayMoves`). `LateIsWorn` accounts for what is depreciated after the
disposal. Book value and report are these sums at the last day and at the end of a year. `TaxCarried` runs through the years of the tax
balance by least counterexample: with nothing sold, a year closes with at most what it opened with and what was bought (`RoundedPart`:
a rounded share of an amount lies between nothing and the amount, for rates up to the whole). Assumed are finitely many assets, whole
amounts and rates of at most 100 percent (those of migration 0025 go to 30).

**Shares.** A holding is a sum over days of sums over types; a movement changes one cell of it (`AddedMoves`), so the book of a day
moves by the quantity from the movement's day on (`BookMoves`), and by nothing when the other side goes the other way. `ShareInv` adds
what the two steps of recording leave open between them. `RowsLocked`: no two movements under way have one owner, nor the owner
of one as the other side of the other. So what the check of the owner's shares counted is still there at the commit
(`SharesCounted`); of the other side nothing is locked against a second movement with the same other side, and there the commit remembers in
`stretched` who disposed of shares that were gone. `PayableIsOwed` says what the account holds while no day was restated; that
a return's dividends, counted by shareholder, are those counted by dividend is `TotalSwaps`. Assumed are finitely many shareholders,
types and dividends, and positive quantities.

**Bank.** The engine folds over its lines, the last of which (`LastLine`) is taken after all the others. `NextPairIs` says what one
line takes of the entries that are left. From prefix to prefix a run stays clear: an entry taken is never given back, so a line that
was passed over stays without a candidate of its own, and whatever rivals a pair had were taken by others. `BankInv` says this of every run
(`ClearRun`), that a run read lines and entries of one account (`Placed`), and that what an import has still to insert, and every automatic match there
is, some run proposed (`Underway`, `Proposal`). The tables of lines and entries only grow at their ends (`Grown`), so what a run saw of a row stays
true (`Stays`), whoever matches, unmatches or posts beside it; therefore the theorem needs no exception for imports that overlap.

**Migration.** `MigInv` has the types, and for every import under way what its reads still say (`HistoryAhead`, `ItemsAhead`,
`ContactsAhead`): the balances it reconciled, or the empty account it found, are those of the ledger as long as the ledger is no longer than it was
then. A commit with nothing in between adds the file to just those balances (`FileAddsUp`: a first file's opening voucher and the vouchers of its
transactions come to the file's closing balance, account by account). Open items are folded row by row
(`Drawn`): so many lines, each on a party of its row, with the sum of their amounts. What has landed stays, because vouchers are only appended and
parties only added (`Onward`). Who creates a party another import has just created is in `collided`, and of the others one name and kind is one
row. Assumed of files is only their types, and that open items have a contra account of their own.

Only model-checked are:

- `EveryTaskAttended`: liveness under fairness;
- two conjuncts of `MigrationAddsUp`, `YearAddsUp` and `LinesFollow`. They are no invariants of every set of files: the accounts of the
  result close right if a file keeps to its year and files come in the order of their years, and a line is on the party its file names if
  no other source gave the number to somebody else. The import checks neither; the files of `documents` are such files, and its other
  faults (a posting between, two imports at once) are in the run;
- `TypeOKDocuments` and `TypeOKGovernance`, which put the types of the composed parts together. The types the theorems need are in the
  inductive invariants of the parts.

## 6. Plan

What is left, in the order of its worth:

1. The result a closing disposes of against the vouchers of its year (`db/year_end.rs:103`), as a property of its
   own: `arsavslutning.counted` is in the model already.
2. *Calculations* as recursive functions against reference definitions: the Merkle tree of the anchors, check digits
   of KID and organisation numbers, the VAT return.
3. The mapping wizard of the SAF-T import (`apply_mapping`), changing of parties, counts of several lines.
4. The agent's tools as a client of the components above: what a second run does to what the first one posted
   (`agent/lib.rs:331`).

## 7. Not modelled

- EHF rendering and parsing, SAF-T export, reports, budgets, printed documents, tax tables: no state, or only data.
- The agent's tools (MCP), the portal and the clients of government services: clients of an interface, without state of their
  own. What an agent's tools do to the books is whatever the API allows them.
- Attachments and dimensions: rows that are only inserted, under unique keys.
- Authentication: tokens are the identity provider's. A request has a person, and `Allowed` says what that person may.
- In modelled components: prices and free plans, the status mirrored from the provider that only the portal shows, mails
  of the follow-up; counts of several lines; changing of parties; bank file formats; chart mapping and VAT
  codes that are dropped at import, and organisation numbers in the search for a party.
- Companies do not interact, so there is one. Liveness under fairness is model-checked only.
- PostgreSQL, NATS and SHA-256 are taken as they are described: READ COMMITTED, at-least-once delivery with
  `max_deliver`, no collisions.
