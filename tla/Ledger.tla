------------------------------- MODULE Ledger -------------------------------
(***************************************************************************)
(* One company's ledger (hovedbok): concurrent posting transactions, the   *)
(* period lock, the year-end closing and the opening balance.              *)
(*                                                                         *)
(* A session is one database transaction of the application, under         *)
(* READ COMMITTED: each action is one statement (or several that read only *)
(* what no other session can change in between), it sees what is committed *)
(* when it runs, and what it writes stays in the session until Commit.     *)
(* Two companies share none of this state.                                 *)
(*                                                                         *)
(* Amounts, accounts and texts are left out: that a draft balances, and    *)
(* whether its accounts, parties and dimensions resolve, is decided before *)
(* anything is written, and a draft that fails is a Rollback.              *)
(***************************************************************************)
EXTENDS Naturals, Sequences

CONSTANTS
    Session,        \* database sessions of the application
    NoSession,      \* nobody holds the chain head
    Journal,        \* journal codes of the company
    GL,             \* the general journal, "GL"
    Date,           \* voucher dates, as days numbered from 1
    Year,           \* fiscal years those dates belong to
    YearLength,     \* days in a fiscal year
    Reopen,         \* values allow_reopen may take in a period-lock request
    MaxPerTx,       \* bound: vouchers one transaction posts
    MaxSeq,         \* bound: vouchers the ledger ever holds
    MaxClock        \* bound: timestamps taken for period locks

fiscal_year(d) == ((d - 1) \div YearLength) + 1
end_of_year(y) == y * YearLength

ASSUME SessionAssumption == NoSession \notin Session
ASSUME JournalAssumption == GL \in Journal
ASSUME DateAssumption == /\ YearLength \in Nat \ {0}
                         /\ Date \subseteq Nat \ {0}
                         /\ Year \subseteq Nat
                         /\ \A d \in Date : fiscal_year(d) \in Year
ASSUME BoundAssumption == MaxPerTx \in Nat \ {0} /\ MaxSeq \in Nat /\ MaxClock \in Nat
ASSUME ReopenAssumption == Reopen \subseteq BOOLEAN

VARIABLES
    voucher,          \* committed voucher rows
    chain_head,       \* [last_seq, last_hash]: the tip of the hash chain
    voucher_counter,  \* last number per journal and fiscal year
    period_lock,      \* insert-only history of "locked through" dates
    arsavslutning,    \* closed years
    head_lock,        \* the session that holds chain_head FOR UPDATE
    clock,            \* source of now() for the rows of period_lock
    session           \* what each session is doing

vars == << voucher, chain_head, voucher_counter, period_lock, arsavslutning,
           head_lock, clock, session >>

Kind == {"post", "opening", "closing"}

\* What is hashed of a voucher; the kind stands for its description.
Content == [chain_seq : Nat \ {0}, journal : Journal, fiscal_year : Year,
            voucher_number : Nat \ {0}, voucher_date : Date, kind : Kind]

(***************************************************************************)
(* SHA-256 is taken to be free of collisions: the digest of a voucher      *)
(* determines every voucher before it, so it is modelled as their sequence.*)
(***************************************************************************)
Hash == Seq(Content)
GENESIS_HASH == << >>
chain_hash(prev, c) == Append(prev, c)

Voucher == [content : Content, prev_hash : Hash, hash : Hash]
seq_of(v) == v.content.chain_seq
Book(v) == << v.content.journal, v.content.fiscal_year >>

ChainHead == [last_seq : Nat, last_hash : Hash]

(***************************************************************************)
(* at is created_at, now() of the inserting transaction: the time that     *)
(* transaction started.  behind is no column: it remembers how many        *)
(* vouchers the ledger held once the row was committed, so that properties *)
(* can speak of what was posted after it.                                  *)
(***************************************************************************)
PeriodLock == [locked_through : Nat, at : Nat, behind : Nat]

\* The lock in force is the newest row by created_at.
Newest(r) == r \in period_lock /\ \A t \in period_lock : t.at <= r.at
Locked(d) == \E r \in period_lock : Newest(r) /\ d <= r.locked_through

\* pc: idle; closing (result read, transaction not begun); locking (lock read,
\* row not inserted); queued for the chain head; locked, holding it; written.
SessionState ==
    [pc : {"idle", "closing", "locking", "queued", "locked", "written"},
     kind : Kind, journal : Journal, date : Nat, start : Nat,
     counted : SUBSET Nat, rows : SUBSET Voucher, head : ChainHead,
     counter : [Journal \X Year -> Nat]]

Idle == [pc |-> "idle", kind |-> "post", journal |-> GL, date |-> 0,
         start |-> 0, counted |-> {}, rows |-> {},
         head |-> [last_seq |-> 0, last_hash |-> GENESIS_HASH],
         counter |-> [b \in Journal \X Year |-> 0]]

Init ==
    /\ voucher = {}
    /\ chain_head = [last_seq |-> 0, last_hash |-> GENESIS_HASH]
    /\ voucher_counter = [b \in Journal \X Year |-> 0]
    /\ period_lock = {}
    /\ arsavslutning = {}
    /\ head_lock = NoSession
    /\ clock = 0
    /\ session = [s \in Session |-> Idle]

-----------------------------------------------------------------------------
(***************************************************************************)
(* Posting: post_voucher_in, inside the transaction of its caller.         *)
(***************************************************************************)

\* post_voucher: the draft is valid and its date open; reading the lock comes
\* before taking the chain head.
BeginPosting(s, j, d) ==
    /\ session[s].pc = "idle"
    /\ ~Locked(d)
    /\ session' = [session EXCEPT ![s] =
                     [Idle EXCEPT !.pc = "queued", !.journal = j, !.date = d]]
    /\ UNCHANGED << voucher, chain_head, voucher_counter, period_lock,
                    arsavslutning, head_lock, clock >>

\* opening_balance: takes the chain head before it looks at anything.
BeginOpening(s, d) ==
    /\ session[s].pc = "idle"
    /\ session' = [session EXCEPT ![s] =
                     [Idle EXCEPT !.pc = "queued", !.kind = "opening", !.date = d]]
    /\ UNCHANGED << voucher, chain_head, voucher_counter, period_lock,
                    arsavslutning, head_lock, clock >>

\* Faulty: does not look whether anything is posted.
OpeningAnytime(s) == session[s].kind = "opening" => ~Locked(session[s].date)

\* An opening balance goes into an empty ledger only.
OpeningAllowed(s) ==
    session[s].kind = "opening" => chain_head.last_seq = 0 /\ ~Locked(session[s].date)

\* select ... from chain_head ... for update: waits for the session before it,
\* then sees the head that session left.
LockHead(s) ==
    /\ session[s].pc = "queued"
    /\ head_lock = NoSession
    /\ OpeningAllowed(s)
    /\ head_lock' = s
    /\ session' = [session EXCEPT ![s].pc = "locked",
                                  ![s].head = chain_head,
                                  ![s].counter = voucher_counter]
    /\ UNCHANGED << voucher, chain_head, voucher_counter, period_lock,
                    arsavslutning, clock >>

\* Faulty: the number is the counter before it is raised.
NumberBeforeIncrement(s) ==
    LET S == session[s]
        c == [chain_seq |-> S.head.last_seq + 1, journal |-> S.journal,
              fiscal_year |-> fiscal_year(S.date),
              voucher_number |-> S.counter[<< S.journal, fiscal_year(S.date) >>],
              voucher_date |-> S.date, kind |-> S.kind]
    IN  [content |-> c, prev_hash |-> S.head.last_hash,
         hash |-> chain_hash(S.head.last_hash, c)]

\* Faulty: a second voucher of the transaction is chained to the committed head.
ChainedToCommitted(s) ==
    LET S == session[s]
        c == [chain_seq |-> S.head.last_seq + 1, journal |-> S.journal,
              fiscal_year |-> fiscal_year(S.date),
              voucher_number |-> S.counter[<< S.journal, fiscal_year(S.date) >>] + 1,
              voucher_date |-> S.date, kind |-> S.kind]
    IN  [content |-> c, prev_hash |-> chain_head.last_hash,
         hash |-> chain_hash(chain_head.last_hash, c)]

\* The row a session is about to insert.
NextVoucher(s) ==
    LET S == session[s]
        c == [chain_seq |-> S.head.last_seq + 1,
              journal |-> S.journal,
              fiscal_year |-> fiscal_year(S.date),
              voucher_number |-> S.counter[<< S.journal, fiscal_year(S.date) >>] + 1,
              voucher_date |-> S.date,
              kind |-> S.kind]
    IN  [content |-> c, prev_hash |-> S.head.last_hash,
         hash |-> chain_hash(S.head.last_hash, c)]

\* The unique constraints of table voucher.
Unique(v) ==
    \A u \in voucher : /\ seq_of(u) # seq_of(v)
                       /\ Book(u) = Book(v) =>
                            u.content.voucher_number # v.content.voucher_number

\* Faulty: no trigger, so only the check before the queue counts.
NoTrigger(d) == TRUE

\* forbid_locked_period_posting: the trigger's own look at the lock.
TriggerAllows(d) == ~Locked(d)

\* Counter, hash, insert (the trigger reads the period lock again), head.
\* Only the holder of the chain head touches the counter.
WriteVoucher(s) ==
    LET v == NextVoucher(s) IN
    /\ session[s].pc = "locked"
    /\ session[s].head.last_seq < MaxSeq
    /\ TriggerAllows(session[s].date)
    /\ Unique(v)
    /\ session' = [session EXCEPT
         ![s].pc = "written",
         ![s].rows = @ \cup {v},
         ![s].head = [last_seq |-> seq_of(v), last_hash |-> v.hash],
         ![s].counter = [@ EXCEPT ![Book(v)] = v.content.voucher_number]]
    /\ UNCHANGED << voucher, chain_head, voucher_counter, period_lock,
                    arsavslutning, head_lock, clock >>

\* A caller that posts several vouchers in one transaction (cash register,
\* currency revaluation, SAF-T import) calls post_voucher_in again.
PostAnother(s, j, d) ==
    /\ session[s].pc = "written"
    /\ session[s].kind = "post"
    /\ session[s].head.last_seq < chain_head.last_seq + MaxPerTx
    /\ ~Locked(d)
    /\ session' = [session EXCEPT ![s].pc = "locked", ![s].journal = j, ![s].date = d]
    /\ UNCHANGED << voucher, chain_head, voucher_counter, period_lock,
                    arsavslutning, head_lock, clock >>

\* What every commit publishes.
Publish(s) ==
    /\ voucher' = voucher \cup session[s].rows
    /\ chain_head' = session[s].head
    /\ voucher_counter' = session[s].counter
    /\ head_lock' = NoSession
    /\ session' = [session EXCEPT ![s] = Idle]

Commit(s) ==
    /\ session[s].pc = "written"
    /\ session[s].kind # "closing"
    /\ Publish(s)
    /\ UNCHANGED << period_lock, arsavslutning, clock >>

\* Faulty: numbers drawn outside the transaction are not given back.
RollbackKeepsNumbers(s) ==
    /\ session[s].pc # "idle"
    /\ session' = [session EXCEPT ![s] = Idle]
    /\ head_lock' = IF head_lock = s THEN NoSession ELSE head_lock
    /\ voucher_counter' = IF head_lock = s THEN session[s].counter ELSE voucher_counter
    /\ UNCHANGED << voucher, chain_head, period_lock, arsavslutning, clock >>

\* Any error, a dropped connection or a crash: nothing of it stays.
Rollback(s) ==
    /\ session[s].pc # "idle"
    /\ session' = [session EXCEPT ![s] = Idle]
    /\ head_lock' = IF head_lock = s THEN NoSession ELSE head_lock
    /\ UNCHANGED << voucher, chain_head, voucher_counter, period_lock,
                    arsavslutning, clock >>

-----------------------------------------------------------------------------
(***************************************************************************)
(* Year end: close_year checks and reads the result before it opens its    *)
(* transaction.  The result is modelled as the set of vouchers it sums.    *)
(***************************************************************************)
InResult(y) == {seq_of(v) : v \in {u \in voucher : /\ u.content.fiscal_year = y
                                                   /\ u.content.kind # "closing"}}

NotClosed(y) == \A a \in arsavslutning : a.year # y

\* unique (company_id, ar)
UniqueClosing(y) == \A a \in arsavslutning : a.year # y

CheckClosing(s, y) ==
    /\ session[s].pc = "idle"
    /\ end_of_year(y) \in Date
    /\ NotClosed(y)
    /\ ~Locked(end_of_year(y))
    /\ session' = [session EXCEPT ![s] =
                     [Idle EXCEPT !.pc = "closing", !.kind = "closing",
                                  !.date = end_of_year(y), !.counted = InResult(y)]]
    /\ UNCHANGED << voucher, chain_head, voucher_counter, period_lock,
                    arsavslutning, head_lock, clock >>

\* begin; the first statement of post_voucher_in reads the lock.
BeginClosing(s) ==
    /\ session[s].pc = "closing"
    /\ clock < MaxClock
    /\ ~Locked(session[s].date)
    /\ session' = [session EXCEPT ![s].pc = "queued", ![s].start = clock]
    /\ clock' = clock + 1
    /\ UNCHANGED << voucher, chain_head, voucher_counter, period_lock,
                    arsavslutning, head_lock >>

\* Faulty: the closing commits without the lock that belongs to it.
CommitClosingUnlocked(s) ==
    LET y == fiscal_year(session[s].date) IN
    /\ session[s].pc = "written"
    /\ session[s].kind = "closing"
    /\ UniqueClosing(y)
    /\ Publish(s)
    /\ arsavslutning' = arsavslutning \cup
         {[year |-> y, voucher |-> session[s].head.last_seq, counted |-> session[s].counted]}
    /\ UNCHANGED << period_lock, clock >>

\* The closing voucher, the row of arsavslutning (unique per year) and the
\* period lock are one transaction.
CommitClosing(s) ==
    LET y == fiscal_year(session[s].date) IN
    /\ session[s].pc = "written"
    /\ session[s].kind = "closing"
    /\ UniqueClosing(y)
    /\ Publish(s)
    /\ arsavslutning' = arsavslutning \cup
         {[year |-> y, voucher |-> session[s].head.last_seq, counted |-> session[s].counted]}
    /\ period_lock' = period_lock \cup
         {[locked_through |-> session[s].date, at |-> session[s].start,
           behind |-> session[s].head.last_seq]}
    /\ UNCHANGED << clock >>

-----------------------------------------------------------------------------
(***************************************************************************)
(* The period lock: set_period_lock reads the lock and inserts in two      *)
(* statements, with no transaction around them.                            *)
(***************************************************************************)
CheckLock(s, d, allow_reopen) ==
    /\ session[s].pc = "idle"
    /\ \A r \in period_lock : Newest(r) => /\ d >= r.locked_through \/ allow_reopen
                                           /\ d # r.locked_through
    /\ session' = [session EXCEPT ![s] = [Idle EXCEPT !.pc = "locking", !.date = d]]
    /\ UNCHANGED << voucher, chain_head, voucher_counter, period_lock,
                    arsavslutning, head_lock, clock >>

InsertLock(s) ==
    /\ session[s].pc = "locking"
    /\ clock < MaxClock
    /\ period_lock' = period_lock \cup
         {[locked_through |-> session[s].date, at |-> clock, behind |-> chain_head.last_seq]}
    /\ clock' = clock + 1
    /\ session' = [session EXCEPT ![s] = Idle]
    /\ UNCHANGED << voucher, chain_head, voucher_counter,
                    arsavslutning, head_lock >>

-----------------------------------------------------------------------------
Next ==
    \/ \E s \in Session :
         \/ \E j \in Journal, d \in Date : BeginPosting(s, j, d) \/ PostAnother(s, j, d)
         \/ \E d \in Date : BeginOpening(s, d)
         \/ \E d \in Date, allow_reopen \in Reopen : CheckLock(s, d, allow_reopen)
         \/ \E y \in Year : CheckClosing(s, y)
         \/ LockHead(s) \/ WriteVoucher(s) \/ Commit(s) \/ Rollback(s)
         \/ BeginClosing(s) \/ CommitClosing(s) \/ InsertLock(s)

Spec == Init /\ [][Next]_vars

-----------------------------------------------------------------------------
(***************************************************************************)
(* Properties.                                                             *)
(***************************************************************************)

\* Every variable has its type, and a session at work has a date of the model.
TypeOK ==
    /\ voucher \subseteq Voucher
    /\ chain_head \in ChainHead
    /\ voucher_counter \in [Journal \X Year -> Nat]
    /\ period_lock \subseteq PeriodLock
    /\ arsavslutning \subseteq [year : Year, voucher : Nat, counted : SUBSET Nat]
    /\ head_lock \in Session \cup {NoSession}
    /\ clock \in Nat
    /\ session \in [Session -> SessionState]
    /\ \A s \in Session : session[s].pc # "idle" => session[s].date \in Date

\* The rows are exactly the vouchers 1..last_seq of one chain, each hashed over
\* its content and the hash before it, and H is its tip.
ChainOf(rows, H) ==
    /\ {seq_of(v) : v \in rows} = 1 .. H.last_seq
    /\ \A u, v \in rows : /\ seq_of(u) = seq_of(v) => u = v
                          /\ seq_of(v) = seq_of(u) + 1 => v.prev_hash = u.hash
    /\ \A v \in rows : /\ v.hash = chain_hash(v.prev_hash, v.content)
                       /\ seq_of(v) = 1 => v.prev_hash = GENESIS_HASH
                       /\ seq_of(v) = H.last_seq => v.hash = H.last_hash
    /\ H.last_seq = 0 => H.last_hash = GENESIS_HASH

\* The serialisation of postings (ledger.rs:107-119): whatever sessions
\* interleave, abort or crash, the committed vouchers are one unbroken chain and
\* chain_head is its tip.
ChainIntact == ChainOf(voucher, chain_head)

\* The numbers of every book are 1..counter, each used once.
NumbersOf(rows, counter) ==
    \A b \in Journal \X Year :
      LET book == {v \in rows : Book(v) = b} IN
      /\ {v.content.voucher_number : v \in book} = 1 .. counter[b]
      /\ \A u, v \in book : u.content.voucher_number = v.content.voucher_number => u = v

\* Numbering per journal and fiscal year has no gaps and no duplicates, also
\* when transactions that had drawn a number roll back (ledger.rs:112-113).
GapFreeNumbers == NumbersOf(voucher, voucher_counter)

\* No later lock row takes back what r locks.
Standing(r) == \A t \in period_lock : t.at > r.at => t.locked_through >= r.locked_through

\* A lock that stands keeps its period closed but for one transaction at most:
\* the one that had passed the trigger when the lock committed. Every voucher
\* further up the chain is dated after the lock (perioder.md:8, 0011:32).
LockHolds ==
    \A r \in period_lock : Standing(r) =>
      \A v \in voucher : seq_of(v) > r.behind + MaxPerTx =>
                           v.content.voucher_date > r.locked_through

\* A closing is all or nothing: a year closes at most once, the row names the
\* one closing voucher of its year, and a lock row through its last day came
\* with it, also when two sessions close the same year.
ClosingAtomic ==
    /\ \A a, b \in arsavslutning : a.year = b.year => a = b
    /\ \A a \in arsavslutning :
         /\ \E v \in voucher : /\ seq_of(v) = a.voucher
                               /\ v.content.kind = "closing"
                               /\ v.content.fiscal_year = a.year
         /\ \E r \in period_lock : r.locked_through = end_of_year(a.year)
    /\ \A v \in voucher : v.content.kind = "closing" =>
         \E a \in arsavslutning : a.voucher = seq_of(v)

\* An opening balance is the first voucher of the ledger even when other
\* sessions race to post (opening.rs:50-53).
OpeningFirst == \A v \in voucher : v.content.kind = "opening" => seq_of(v) = 1

\* What a reader of the committed vouchers sees, in the order of the chain.
RowAt(i) == CHOOSE v \in voucher : seq_of(v) = i
contents == [i \in 1 .. chain_head.last_seq |-> RowAt(i).content]
Log == INSTANCE LedgerLog WITH log <- contents

\* Every step of the transactions is an append to the abstract log, or
\* invisible in it: vouchers appear whole transactions at a time, in their order,
\* each with the number after its predecessor's, and are never changed or taken back.
AppendOnlyLog == Log!Spec

\* perioder.md:8 "postings dated on or before it are rejected": whatever becomes
\* visible in the ledger is dated after the lock then in force.
PostedInOpenPeriod ==
    [][\A v \in voucher' \ voucher : ~Locked(v.content.voucher_date)]_vars

\* 0060_arsavslutning.sql: once closed, the year is both disponert and closed to
\* new postings; only an admin may move the lock back.
ClosedYearStaysLocked == \A a \in arsavslutning : Locked(end_of_year(a.year))

=============================================================================
