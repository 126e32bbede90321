---------------------------- MODULE LedgerProofs ----------------------------
(***************************************************************************)
(* Proofs about modules Ledger and LedgerAudit, for every number of        *)
(* sessions, journals, dates and years, and every bound: what a posting    *)
(* keeps, and what the walk of verify_chain and the anchors say of a       *)
(* ledger of any size, with any number of postings beside them, before     *)
(* and after rows have been changed from outside.                          *)
(***************************************************************************)
EXTENDS LedgerAudit, FiniteSums, TLAPS

\* A connection with no transaction open is a well-typed session.
LEMMA IdleType == Idle \in SessionState
<1>1. << >> \in Seq(Content)
  OBVIOUS
<1> QED
  BY <1>1, JournalAssumption DEF Idle, SessionState, Kind, ChainHead, Hash, GENESIS_HASH

\* A company just created is well typed.
LEMMA InitType == Init => TypeOK
<1>1. << >> \in Seq(Content)
  OBVIOUS
<1> QED
  BY <1>1, IdleType DEF Init, TypeOK, ChainHead, Hash, GENESIS_HASH, Idle

\* The row a lock holder is about to insert is a voucher.
LEMMA NextVoucherType ==
  ASSUME TypeOK, NEW s \in Session, session[s].pc = "locked"
  PROVE  /\ NextVoucher(s) \in Voucher
         /\ seq_of(NextVoucher(s)) = session[s].head.last_seq + 1
         /\ Book(NextVoucher(s)) = << session[s].journal, fiscal_year(session[s].date) >>
         /\ Book(NextVoucher(s)) \in Journal \X Year
         /\ NextVoucher(s).content.voucher_number = session[s].counter[Book(NextVoucher(s))] + 1
         /\ NextVoucher(s).content.voucher_date = session[s].date
         /\ NextVoucher(s).content.kind = session[s].kind
         /\ NextVoucher(s).prev_hash = session[s].head.last_hash
         /\ NextVoucher(s).hash = chain_hash(NextVoucher(s).prev_hash, NextVoucher(s).content)
<1> DEFINE S == session[s]
           y == fiscal_year(S.date)
           c == [chain_seq |-> S.head.last_seq + 1,
                 journal |-> S.journal,
                 fiscal_year |-> y,
                 voucher_number |-> S.counter[<< S.journal, y >>] + 1,
                 voucher_date |-> S.date,
                 kind |-> S.kind]
<1>1. S \in SessionState /\ S.date \in Date
  BY DEF TypeOK
<1>2. y \in Year
  BY <1>1, DateAssumption
<1>3. S.head \in ChainHead /\ S.journal \in Journal /\ S.kind \in Kind /\ S.counter \in [Journal \X Year -> Nat]
  BY <1>1 DEF SessionState
<1>4. S.counter[<< S.journal, y >>] \in Nat
  BY <1>2, <1>3
<1>5. c \in Content
  BY <1>1, <1>2, <1>3, <1>4 DEF Content, ChainHead
<1>6. S.head.last_hash \in Seq(Content)
  BY <1>3 DEF ChainHead, Hash
<1>7. chain_hash(S.head.last_hash, c) \in Seq(Content)
  BY <1>5, <1>6 DEF chain_hash
<1>8. NextVoucher(s) = [content |-> c, prev_hash |-> S.head.last_hash,
                        hash |-> chain_hash(S.head.last_hash, c)]
  BY DEF NextVoucher
<1> HIDE DEF y
<1>9. NextVoucher(s) \in Voucher
  BY <1>5, <1>6, <1>7, <1>8 DEF Voucher, Hash
<1>10. Book(NextVoucher(s)) = << S.journal, y >>
  BY <1>8 DEF Book
<1>11. << S.journal, y >> \in Journal \X Year
  BY <1>2, <1>3 DEF y
<1>12. NextVoucher(s).content = c
  BY <1>8
<1>13. NextVoucher(s).content.voucher_number = S.counter[<< S.journal, y >>] + 1
  BY <1>12
<1> QED
  BY <1>8, <1>9, <1>10, <1>11, <1>12, <1>13 DEF seq_of, y

-----------------------------------------------------------------------------
(***************************************************************************)
(* Type correctness.                                                       *)
(***************************************************************************)

\* Giving one session a well-typed state keeps session well typed.
LEMMA SessionUpdate ==
  ASSUME TypeOK, NEW s \in Session, NEW S \in SessionState,
         S.pc # "idle" => S.date \in Date,
         session' = [session EXCEPT ![s] = S]
  PROVE  /\ session' \in [Session -> SessionState]
         /\ \A t \in Session : session'[t].pc # "idle" => session'[t].date \in Date
  BY DEF TypeOK

\* Every step of every operation keeps the types: one step per action.
LEMMA NextType == TypeOK /\ [Next]_vars => TypeOK'
<1> SUFFICES ASSUME TypeOK, [Next]_vars PROVE TypeOK'
  OBVIOUS
<1> USE DEF TypeOK
<1>1. ASSUME NEW s \in Session, NEW j \in Journal, NEW d \in Date, BeginPosting(s, j, d)
      PROVE  TypeOK'
  <2> DEFINE S == [Idle EXCEPT !.pc = "queued", !.journal = j, !.date = d]
  <2>1. S \in SessionState /\ S.date \in Date
    BY IdleType, DateAssumption DEF SessionState
  <2> QED
    BY <1>1, <2>1, SessionUpdate DEF BeginPosting
<1>2. ASSUME NEW s \in Session, NEW j \in Journal, NEW d \in Date, PostAnother(s, j, d)
      PROVE  TypeOK'
  <2> DEFINE S == [session[s] EXCEPT !.pc = "locked", !.journal = j, !.date = d]
  <2>1. S \in SessionState /\ S.date \in Date
    BY DateAssumption, ZenonT(60) DEF SessionState
  <2>2. session' = [session EXCEPT ![s] = S]
    BY <1>2 DEF PostAnother
  <2> QED
    BY <1>2, <2>1, <2>2, SessionUpdate DEF PostAnother
<1>3. ASSUME NEW s \in Session, NEW d \in Date, BeginOpening(s, d)
      PROVE  TypeOK'
  <2> DEFINE S == [Idle EXCEPT !.pc = "queued", !.kind = "opening", !.date = d]
  <2>1. S \in SessionState /\ S.date \in Date
    BY IdleType, DateAssumption DEF SessionState, Kind
  <2> QED
    BY <1>3, <2>1, SessionUpdate DEF BeginOpening
<1>4. ASSUME NEW s \in Session, NEW d \in Date, NEW r \in Reopen, CheckLock(s, d, r)
      PROVE  TypeOK'
  <2> DEFINE S == [Idle EXCEPT !.pc = "locking", !.date = d]
  <2>1. S \in SessionState /\ S.date \in Date
    BY IdleType, DateAssumption DEF SessionState
  <2> QED
    BY <1>4, <2>1, SessionUpdate DEF CheckLock
<1>5. ASSUME NEW s \in Session, NEW y \in Year, CheckClosing(s, y)
      PROVE  TypeOK'
  <2> DEFINE S == [Idle EXCEPT !.pc = "closing", !.kind = "closing",
                               !.date = end_of_year(y), !.counted = InResult(y)]
  <2>1. end_of_year(y) \in Date /\ end_of_year(y) \in Nat
    BY <1>5, DateAssumption DEF CheckClosing
  <2>2. InResult(y) \subseteq Nat
    BY DEF InResult, seq_of, Voucher, Content
  <2> HIDE DEF TypeOK
  <2>3. S \in SessionState /\ S.date \in Date
    BY <2>1, <2>2, IdleType DEF SessionState, Kind
  <2>4. session' = [session EXCEPT ![s] = S]
    BY <1>5 DEF CheckClosing
  <2> HIDE DEF S
  <2> QED
    BY <1>5, <2>3, <2>4, SessionUpdate DEF CheckClosing, TypeOK
<1>6. ASSUME NEW s \in Session, LockHead(s)
      PROVE  TypeOK'
  <2> DEFINE S == [session[s] EXCEPT !.pc = "locked", !.head = chain_head,
                                     !.counter = voucher_counter]
  <2>1. S \in SessionState /\ S.date \in Date
    BY <1>6, ZenonT(60) DEF LockHead, SessionState
  <2>2. session' = [session EXCEPT ![s] = S]
    BY <1>6 DEF LockHead
  <2> QED
    BY <1>6, <2>1, <2>2, SessionUpdate DEF LockHead
<1>7. ASSUME NEW s \in Session, WriteVoucher(s)
      PROVE  TypeOK'
  <2> DEFINE v == NextVoucher(s)
             S == [session[s] EXCEPT
                     !.pc = "written",
                     !.rows = @ \cup {v},
                     !.head = [last_seq |-> seq_of(v), last_hash |-> v.hash],
                     !.counter = [@ EXCEPT ![Book(v)] = v.content.voucher_number]]
  <2>1. session[s] \in SessionState /\ session[s].date \in Date
    BY <1>7 DEF WriteVoucher
  <2>2. v \in Voucher /\ Book(v) \in Journal \X Year
    BY <1>7, NextVoucherType DEF WriteVoucher
  <2> HIDE DEF v
  <2>3. /\ seq_of(v) \in Nat
        /\ v.hash \in Hash
        /\ v.content.voucher_number \in Nat
    BY <2>2 DEF Voucher, Content, seq_of
  <2>4. [session[s].counter EXCEPT ![Book(v)] = v.content.voucher_number]
          \in [Journal \X Year -> Nat]
    BY <2>1, <2>2, <2>3 DEF SessionState
  <2>5. S \in SessionState /\ S.date \in Date
    BY <2>1, <2>2, <2>3, <2>4 DEF SessionState, ChainHead
  <2>6. session' = [session EXCEPT ![s] = S]
    BY <1>7 DEF WriteVoucher, v
  <2> HIDE DEF S
  <2> QED
    BY <1>7, <2>5, <2>6, SessionUpdate DEF WriteVoucher
<1>8. ASSUME NEW s \in Session, Publish(s)
      PROVE  /\ voucher' \subseteq Voucher
             /\ chain_head' \in ChainHead
             /\ voucher_counter' \in [Journal \X Year -> Nat]
             /\ head_lock' \in Session \cup {NoSession}
             /\ session' \in [Session -> SessionState]
             /\ \A t \in Session : session'[t].pc # "idle" => session'[t].date \in Date
  <2>1. Idle.pc = "idle"
    BY DEF Idle
  <2> QED
    BY <1>8, <2>1, IdleType, SessionUpdate DEF Publish, SessionState
<1>9. ASSUME NEW s \in Session, Commit(s)
      PROVE  TypeOK'
  BY <1>8, <1>9 DEF Commit
<1>10. ASSUME NEW s \in Session, Rollback(s)
      PROVE  TypeOK'
  <2>1. Idle.pc = "idle"
    BY DEF Idle
  <2> QED
    BY <1>10, <2>1, IdleType, SessionUpdate DEF Rollback
<1>11. ASSUME NEW s \in Session, BeginClosing(s)
      PROVE  TypeOK'
  <2> DEFINE S == [session[s] EXCEPT !.pc = "queued", !.start = clock]
  <2>1. S \in SessionState /\ S.date \in Date
    BY <1>11, ZenonT(60) DEF BeginClosing, SessionState
  <2>2. session' = [session EXCEPT ![s] = S]
    BY <1>11 DEF BeginClosing
  <2> QED
    BY <1>11, <2>1, <2>2, SessionUpdate DEF BeginClosing
<1>12. ASSUME NEW s \in Session, CommitClosing(s)
      PROVE  TypeOK'
  <2>1. session[s] \in SessionState /\ session[s].date \in Date
    BY <1>12 DEF CommitClosing
  <2>2. fiscal_year(session[s].date) \in Year
    BY <2>1, DateAssumption
  <2>3. session[s].head.last_seq \in Nat
    BY <2>1 DEF SessionState, ChainHead
  <2>4. arsavslutning' \subseteq [year : Year, voucher : Nat, counted : SUBSET Nat]
    BY <1>12, <2>1, <2>2, <2>3 DEF CommitClosing, SessionState
  <2>5. period_lock' \subseteq PeriodLock
    BY <1>12, <2>1, <2>3 DEF CommitClosing, SessionState, PeriodLock
  <2>6. UNCHANGED clock
    BY <1>12 DEF CommitClosing
  <2>7. Publish(s)
    BY <1>12 DEF CommitClosing
  <2> QED
    BY <1>8, <2>4, <2>5, <2>6, <2>7
<1>13. ASSUME NEW s \in Session, InsertLock(s)
      PROVE  TypeOK'
  <2>1. Idle.pc = "idle"
    BY DEF Idle
  <2>2. period_lock' \subseteq PeriodLock /\ clock' \in Nat
    BY <1>13 DEF InsertLock, PeriodLock, SessionState, ChainHead
  <2> QED
    BY <1>13, <2>1, <2>2, IdleType, SessionUpdate DEF InsertLock
<1>14. CASE UNCHANGED vars
  BY <1>14 DEF vars
<1> QED
  BY <1>1, <1>2, <1>3, <1>4, <1>5, <1>6, <1>7, <1>9, <1>10, <1>11, <1>12, <1>13, <1>14
     DEF Next

\* Vouchers, head, counters, locks, closings and sessions keep their types, for any
\* number of sessions, journals and dates (post_voucher_in, close_year,
\* set_period_lock and post_opening_balance).
THEOREM TypeCorrect == Spec => []TypeOK
<1> QED
  BY InitType, NextType, PTL DEF Spec

-----------------------------------------------------------------------------
(***************************************************************************)
(* The chain and the numbering.  Both are invariants of the rows committed *)
(* and also of the rows as the holder of the chain head sees them, its own *)
(* included: that is the strengthening that makes them inductive.          *)
(***************************************************************************)

\* A voucher that takes the next sequence number and is hashed over the tip of a
\* chain extends the chain and is its new tip.
LEMMA ChainExtend ==
  ASSUME NEW V, V \subseteq Voucher, NEW H \in ChainHead, ChainOf(V, H),
         NEW v \in Voucher,
         seq_of(v) = H.last_seq + 1,
         v.prev_hash = H.last_hash,
         v.hash = chain_hash(v.prev_hash, v.content)
  PROVE  ChainOf(V \cup {v}, [last_seq |-> seq_of(v), last_hash |-> v.hash])
<1> DEFINE n == H.last_seq
           W == V \cup {v}
           G == [last_seq |-> seq_of(v), last_hash |-> v.hash]
<1>1. n \in Nat /\ G.last_seq = n + 1 /\ G.last_hash = v.hash
  BY DEF ChainHead
<1>2. \A u \in V : seq_of(u) \in 1 .. n
  BY DEF ChainOf
<1>3. {seq_of(u) : u \in W} = 1 .. (n + 1)
  <2>1. {seq_of(u) : u \in W} = {seq_of(u) : u \in V} \cup {seq_of(v)}
    OBVIOUS
  <2>2. 1 .. (n + 1) = (1 .. n) \cup {n + 1}
    BY <1>1
  <2> QED
    BY <2>1, <2>2 DEF ChainOf
<1>4. ASSUME NEW a \in W, NEW b \in W
      PROVE  /\ seq_of(a) = seq_of(b) => a = b
             /\ seq_of(b) = seq_of(a) + 1 => b.prev_hash = a.hash
  <2>1. CASE a \in V /\ b \in V
    BY <2>1 DEF ChainOf
  <2>2. CASE a = v /\ b \in V
    BY <1>1, <1>2, <2>2
  <2>3. CASE a \in V /\ b = v
    BY <1>1, <1>2, <2>3 DEF ChainOf
  <2>4. CASE a = v /\ b = v
    BY <1>1, <2>4
  <2> QED
    BY <2>1, <2>2, <2>3, <2>4
<1>5. ASSUME NEW a \in W
      PROVE  /\ a.hash = chain_hash(a.prev_hash, a.content)
             /\ seq_of(a) = 1 => a.prev_hash = GENESIS_HASH
             /\ seq_of(a) = G.last_seq => a.hash = G.last_hash
  <2>1. CASE a \in V
    BY <1>1, <1>2, <2>1 DEF ChainOf
  <2>2. CASE a = v
    BY <1>1, <2>2 DEF ChainOf
  <2> QED
    BY <2>1, <2>2
<1>6. G.last_seq # 0
  BY <1>1
<1> HIDE DEF G, W, n
<1>7. ChainOf(W, G)
  BY <1>1, <1>3, <1>4, <1>5, <1>6 DEF ChainOf
<1> QED
  BY <1>7 DEF G, W

\* A voucher that takes the number after its book's counter keeps the numbers of
\* every book without gap or duplicate.
LEMMA NumbersExtend ==
  ASSUME NEW V, V \subseteq Voucher, NEW C \in [Journal \X Year -> Nat],
         NumbersOf(V, C), NEW v \in Voucher,
         Book(v) \in Journal \X Year,
         v.content.voucher_number = C[Book(v)] + 1
  PROVE  NumbersOf(V \cup {v}, [C EXCEPT ![Book(v)] = v.content.voucher_number])
<1> DEFINE W == V \cup {v}
           D == [C EXCEPT ![Book(v)] = v.content.voucher_number]
           num(u) == u.content.voucher_number
           In(R, b) == {u \in R : Book(u) = b}
<1> SUFFICES ASSUME NEW b \in Journal \X Year
             PROVE  /\ {num(u) : u \in In(W, b)} = 1 .. D[b]
                    /\ \A u, w \in In(W, b) : num(u) = num(w) => u = w
  BY DEF NumbersOf
<1>1. /\ {num(u) : u \in In(V, b)} = 1 .. C[b]
      /\ \A u, w \in In(V, b) : num(u) = num(w) => u = w
  BY DEF NumbersOf
<1>2. CASE b # Book(v)
  <2>1. In(W, b) = In(V, b) /\ D[b] = C[b]
    BY <1>2
  <2> QED
    BY <1>1, <2>1
<1>3. CASE b = Book(v)
  <2>1. In(W, b) = In(V, b) \cup {v} /\ D[b] = C[b] + 1 /\ C[b] \in Nat /\ num(v) = C[b] + 1
    BY <1>3
  <2>2. {num(u) : u \in In(W, b)} = {num(u) : u \in In(V, b)} \cup {num(v)}
    BY <2>1
  <2>3. 1 .. D[b] = (1 .. C[b]) \cup {C[b] + 1}
    BY <2>1
  <2>4. \A u \in In(V, b) : num(u) \in 1 .. C[b]
    BY <1>1
  <2>5. \A u \in In(V, b) : num(u) # num(v)
    BY <2>1, <2>4
  <2> HIDE DEF In, D, num
  <2>6. \A u, w \in In(W, b) : num(u) = num(w) => u = w
    BY <1>1, <2>1, <2>5
  <2> QED
    BY <1>1, <2>1, <2>2, <2>3, <2>6
<1> QED
  BY <1>2, <1>3

InTransaction(s) == session[s].pc \in {"locked", "written"}

\* The vouchers session s sees: those committed and its own.
Seen(s) == voucher \cup session[s].rows

HeadExclusive ==
    \A s \in Session : /\ InTransaction(s) <=> head_lock = s
                       /\ head_lock # s => session[s].rows = {}

HolderExtends ==
    \A s \in Session : head_lock = s => /\ ChainOf(Seen(s), session[s].head)
                                        /\ NumbersOf(Seen(s), session[s].counter)

PostingInv ==
    /\ TypeOK
    /\ HeadExclusive
    /\ ChainIntact
    /\ GapFreeNumbers
    /\ HolderExtends

\* An empty ledger with idle sessions satisfies the invariant.
LEMMA InitPosting == Init => PostingInv
<1> SUFFICES ASSUME Init PROVE PostingInv
  OBVIOUS
<1>1. TypeOK
  BY InitType
<1>2. voucher = {} /\ chain_head.last_seq = 0 /\ chain_head.last_hash = GENESIS_HASH
  BY DEF Init
<1>3. \A b \in Journal \X Year : voucher_counter[b] = 0
  BY DEF Init
<1>4. 1 .. 0 = {}
  OBVIOUS
<1>5. ChainIntact
  BY <1>2, <1>4 DEF ChainIntact, ChainOf
<1>6. GapFreeNumbers
  BY <1>2, <1>3, <1>4 DEF GapFreeNumbers, NumbersOf
<1>7. HeadExclusive /\ HolderExtends
  BY SessionAssumption DEF Init, Idle, HeadExclusive, HolderExtends, InTransaction
<1> QED
  BY <1>1, <1>5, <1>6, <1>7 DEF PostingInv

\* A step of a session that neither holds the head nor takes it.
LEMMA QuietStep ==
  ASSUME PostingInv, TypeOK', NEW s \in Session, NEW S, head_lock # s,
         session' = [session EXCEPT ![s] = S],
         S.pc \notin {"locked", "written"}, S.rows = {},
         UNCHANGED << voucher, chain_head, voucher_counter, head_lock >>
  PROVE  PostingInv'
<1>1. session'[s] = S /\ \A t \in Session : t # s => session'[t] = session[t]
  BY DEF PostingInv, TypeOK
<1>2. HeadExclusive'
  BY <1>1 DEF PostingInv, HeadExclusive, InTransaction
<1>3. ChainIntact' /\ GapFreeNumbers'
  BY DEF PostingInv, ChainIntact, GapFreeNumbers
<1>4. HolderExtends'
  BY <1>1 DEF PostingInv, HolderExtends, Seen
<1> QED
  BY <1>2, <1>3, <1>4 DEF PostingInv

\* Every step keeps it: the holder of the head extends what it sees, a commit
\* publishes that, and no other step touches either.
LEMMA NextPosting == PostingInv /\ [Next]_vars => PostingInv'
<1> SUFFICES ASSUME PostingInv, [Next]_vars PROVE PostingInv'
  OBVIOUS
<1>a. TypeOK /\ TypeOK'
  BY NextType DEF PostingInv
<1>b. HeadExclusive /\ ChainIntact /\ GapFreeNumbers /\ HolderExtends
  BY DEF PostingInv
<1>c. Idle.pc = "idle" /\ Idle.rows = {}
  BY DEF Idle
<1>d. \A s \in Session : session[s].pc \notin {"locked", "written"} =>
                           head_lock # s /\ session[s].rows = {}
  BY <1>b DEF HeadExclusive, InTransaction
<1>1. ASSUME NEW s \in Session, NEW j \in Journal, NEW d \in Date, BeginPosting(s, j, d)
      PROVE  PostingInv'
  <2> DEFINE S == [Idle EXCEPT !.pc = "queued", !.journal = j, !.date = d]
  <2>1. /\ session' = [session EXCEPT ![s] = S]
        /\ session[s].pc = "idle"
        /\ UNCHANGED << voucher, chain_head, voucher_counter, head_lock >>
    BY <1>1 DEF BeginPosting
  <2>2. S.pc \notin {"locked", "written"} /\ S.rows = {}
    BY DEF Idle
  <2> HIDE DEF S
  <2> QED
    BY <1>a, <1>d, <2>1, <2>2, QuietStep
<1>2. ASSUME NEW s \in Session, NEW j \in Journal, NEW d \in Date, PostAnother(s, j, d)
      PROVE  PostingInv'
  <2>1. /\ session' = [session EXCEPT ![s] =
                         [session[s] EXCEPT !.pc = "locked", !.journal = j, !.date = d]]
        /\ session[s].pc = "written"
        /\ UNCHANGED << voucher, chain_head, voucher_counter, head_lock >>
    BY <1>2 DEF PostAnother
  <2>2. /\ session'[s].rows = session[s].rows
        /\ session'[s].head = session[s].head
        /\ session'[s].counter = session[s].counter
        /\ session'[s].pc = "locked"
        /\ \A t \in Session : t # s => session'[t] = session[t]
    BY <1>a, <2>1 DEF TypeOK, SessionState
  <2>3. HeadExclusive'
    BY <1>b, <2>1, <2>2 DEF HeadExclusive, InTransaction
  <2>4. ChainIntact' /\ GapFreeNumbers'
    BY <1>b, <2>1 DEF ChainIntact, GapFreeNumbers
  <2>5. HolderExtends'
    BY <1>b, <2>1, <2>2 DEF HolderExtends, Seen
  <2> QED
    BY <1>a, <2>3, <2>4, <2>5 DEF PostingInv
<1>3. ASSUME NEW s \in Session, NEW d \in Date, BeginOpening(s, d)
      PROVE  PostingInv'
  <2> DEFINE S == [Idle EXCEPT !.pc = "queued", !.kind = "opening", !.date = d]
  <2>1. /\ session' = [session EXCEPT ![s] = S]
        /\ session[s].pc = "idle"
        /\ UNCHANGED << voucher, chain_head, voucher_counter, head_lock >>
    BY <1>3 DEF BeginOpening
  <2>2. S.pc \notin {"locked", "written"} /\ S.rows = {}
    BY DEF Idle
  <2> HIDE DEF S
  <2> QED
    BY <1>a, <1>d, <2>1, <2>2, QuietStep
<1>4. ASSUME NEW s \in Session, NEW d \in Date, NEW r \in Reopen, CheckLock(s, d, r)
      PROVE  PostingInv'
  <2> DEFINE S == [Idle EXCEPT !.pc = "locking", !.date = d]
  <2>1. /\ session' = [session EXCEPT ![s] = S]
        /\ session[s].pc = "idle"
        /\ UNCHANGED << voucher, chain_head, voucher_counter, head_lock >>
    BY <1>4 DEF CheckLock
  <2>2. S.pc \notin {"locked", "written"} /\ S.rows = {}
    BY DEF Idle
  <2> HIDE DEF S
  <2> QED
    BY <1>a, <1>d, <2>1, <2>2, QuietStep
<1>5. ASSUME NEW s \in Session, NEW y \in Year, CheckClosing(s, y)
      PROVE  PostingInv'
  <2> DEFINE S == [Idle EXCEPT !.pc = "closing", !.kind = "closing",
                               !.date = end_of_year(y), !.counted = InResult(y)]
  <2>1. /\ session' = [session EXCEPT ![s] = S]
        /\ session[s].pc = "idle"
        /\ UNCHANGED << voucher, chain_head, voucher_counter, head_lock >>
    BY <1>5 DEF CheckClosing
  <2>2. S.pc \notin {"locked", "written"} /\ S.rows = {}
    BY DEF Idle
  <2> HIDE DEF S
  <2> QED
    BY <1>a, <1>d, <2>1, <2>2, QuietStep
<1>6. ASSUME NEW s \in Session, LockHead(s)
      PROVE  PostingInv'
  <2>1. /\ session' = [session EXCEPT ![s] = [session[s] EXCEPT
                         !.pc = "locked", !.head = chain_head, !.counter = voucher_counter]]
        /\ session[s].pc = "queued"
        /\ head_lock = NoSession /\ head_lock' = s
        /\ UNCHANGED << voucher, chain_head, voucher_counter >>
    BY <1>6 DEF LockHead
  <2>2. /\ session'[s].rows = session[s].rows
        /\ session'[s].head = chain_head
        /\ session'[s].counter = voucher_counter
        /\ session'[s].pc = "locked"
        /\ \A t \in Session : t # s => session'[t] = session[t]
    BY <1>a, <2>1 DEF TypeOK, SessionState
  <2>3. \A t \in Session : head_lock # t
    BY <2>1, SessionAssumption
  <2>4. HeadExclusive'
    BY <1>b, <2>1, <2>2, <2>3 DEF HeadExclusive, InTransaction
  <2>5. ChainIntact' /\ GapFreeNumbers'
    BY <1>b, <2>1 DEF ChainIntact, GapFreeNumbers
  <2>6. Seen(s)' = voucher
    BY <1>d, <2>1, <2>2 DEF Seen
  <2>7. HolderExtends'
    BY <1>b, <2>1, <2>2, <2>6 DEF HolderExtends, ChainIntact, GapFreeNumbers
  <2> QED
    BY <1>a, <2>4, <2>5, <2>7 DEF PostingInv
<1>7. ASSUME NEW s \in Session, WriteVoucher(s)
      PROVE  PostingInv'
  <2> DEFINE v == NextVoucher(s)
             C == [session[s].counter EXCEPT ![Book(v)] = v.content.voucher_number]
             H == [last_seq |-> seq_of(v), last_hash |-> v.hash]
  <2>1. /\ session' = [session EXCEPT ![s] = [session[s] EXCEPT
                         !.pc = "written", !.rows = @ \cup {v}, !.head = H, !.counter = C]]
        /\ session[s].pc = "locked"
        /\ UNCHANGED << voucher, chain_head, voucher_counter, head_lock >>
    BY <1>7 DEF WriteVoucher
  <2>2. /\ v \in Voucher
        /\ seq_of(v) = session[s].head.last_seq + 1
        /\ Book(v) \in Journal \X Year
        /\ v.content.voucher_number = session[s].counter[Book(v)] + 1
        /\ v.prev_hash = session[s].head.last_hash
        /\ v.hash = chain_hash(v.prev_hash, v.content)
    BY <1>a, <2>1, NextVoucherType
  <2> HIDE DEF v, C, H
  <2>3. /\ session'[s].rows = session[s].rows \cup {v}
        /\ session'[s].head = H
        /\ session'[s].counter = C
        /\ session'[s].pc = "written"
        /\ \A t \in Session : t # s => session'[t] = session[t]
    BY <1>a, <2>1 DEF TypeOK, SessionState
  <2>4. head_lock = s
    BY <1>b, <2>1 DEF HeadExclusive, InTransaction
  <2>5. /\ Seen(s) \subseteq Voucher
        /\ session[s].head \in ChainHead
        /\ session[s].counter \in [Journal \X Year -> Nat]
    BY <1>a DEF TypeOK, Seen, SessionState
  <2>6. ChainOf(Seen(s) \cup {v}, H)
    BY <1>b, <2>2, <2>4, <2>5, ChainExtend DEF HolderExtends, H
  <2>7. NumbersOf(Seen(s) \cup {v}, C)
    BY <1>b, <2>2, <2>4, <2>5, NumbersExtend DEF HolderExtends, C
  <2>8. Seen(s)' = Seen(s) \cup {v}
    BY <2>1, <2>3 DEF Seen
  <2>9. HeadExclusive'
    BY <1>b, <2>1, <2>3, <2>4 DEF HeadExclusive, InTransaction
  <2>10. ChainIntact' /\ GapFreeNumbers'
    BY <1>b, <2>1 DEF ChainIntact, GapFreeNumbers
  <2>11. HolderExtends'
    BY <2>1, <2>3, <2>4, <2>6, <2>7, <2>8 DEF HolderExtends
  <2> QED
    BY <1>a, <2>9, <2>10, <2>11 DEF PostingInv
<1>8. ASSUME NEW s \in Session, session[s].pc = "written", Publish(s)
      PROVE  PostingInv'
  <2>1. /\ voucher' = Seen(s)
        /\ chain_head' = session[s].head
        /\ voucher_counter' = session[s].counter
        /\ head_lock' = NoSession
        /\ session' = [session EXCEPT ![s] = Idle]
    BY <1>8 DEF Publish, Seen
  <2>2. head_lock = s
    BY <1>8, <1>b DEF HeadExclusive, InTransaction
  <2>3. ChainIntact' /\ GapFreeNumbers'
    BY <1>b, <2>1, <2>2 DEF HolderExtends, ChainIntact, GapFreeNumbers
  <2>4. session'[s] = Idle /\ \A t \in Session : t # s => session'[t] = session[t]
    BY <1>a, <2>1 DEF TypeOK
  <2>5. HeadExclusive'
    BY <1>b, <1>c, <2>1, <2>2, <2>4, SessionAssumption DEF HeadExclusive, InTransaction
  <2>6. HolderExtends'
    BY <2>1, SessionAssumption DEF HolderExtends
  <2> QED
    BY <1>a, <2>3, <2>5, <2>6 DEF PostingInv
<1>9. ASSUME NEW s \in Session, Commit(s)
      PROVE  PostingInv'
  BY <1>8, <1>9 DEF Commit
<1>10. ASSUME NEW s \in Session, Rollback(s)
      PROVE  PostingInv'
  <2>1. /\ session' = [session EXCEPT ![s] = Idle]
        /\ head_lock' = IF head_lock = s THEN NoSession ELSE head_lock
        /\ UNCHANGED << voucher, chain_head, voucher_counter >>
    BY <1>10 DEF Rollback
  <2>2. session'[s] = Idle /\ \A t \in Session : t # s => session'[t] = session[t]
    BY <1>a, <2>1 DEF TypeOK
  <2>3. HeadExclusive'
    BY <1>b, <1>c, <2>1, <2>2, SessionAssumption DEF HeadExclusive, InTransaction
  <2>4. ChainIntact' /\ GapFreeNumbers'
    BY <1>b, <2>1 DEF ChainIntact, GapFreeNumbers
  <2>5. HolderExtends'
    BY <1>b, <2>1, <2>2, SessionAssumption DEF HolderExtends, Seen
  <2> QED
    BY <1>a, <2>3, <2>4, <2>5 DEF PostingInv
<1>11. ASSUME NEW s \in Session, BeginClosing(s)
      PROVE  PostingInv'
  <2> DEFINE S == [session[s] EXCEPT !.pc = "queued", !.start = clock]
  <2>1. /\ session' = [session EXCEPT ![s] = S]
        /\ session[s].pc = "closing"
        /\ UNCHANGED << voucher, chain_head, voucher_counter, head_lock >>
    BY <1>11 DEF BeginClosing
  <2>2. S.pc = "queued" /\ S.rows = {}
    BY <1>a, <1>d, <2>1 DEF TypeOK, SessionState
  <2> HIDE DEF S
  <2> QED
    BY <1>a, <1>d, <2>1, <2>2, QuietStep
<1>12. ASSUME NEW s \in Session, CommitClosing(s)
      PROVE  PostingInv'
  BY <1>8, <1>12 DEF CommitClosing
<1>13. ASSUME NEW s \in Session, InsertLock(s)
      PROVE  PostingInv'
  BY <1>13, <1>a, <1>c, <1>d, QuietStep DEF InsertLock
<1>14. CASE UNCHANGED vars
  BY <1>14, <1>a, <1>b DEF vars, PostingInv, HeadExclusive, InTransaction, ChainIntact,
     GapFreeNumbers, HolderExtends, Seen
<1> QED
  BY <1>1, <1>2, <1>3, <1>4, <1>5, <1>6, <1>7, <1>9, <1>10, <1>11, <1>12, <1>13, <1>14
     DEF Next

\* Whoever is inside post_voucher_in holds the chain head alone, and the rows
\* committed together with its own are one chain with gap-free numbers, at every
\* moment of every interleaving.
THEOREM PostingInvariant == Spec => []PostingInv
<1> QED
  BY InitPosting, NextPosting, PTL DEF Spec

\* The committed ledger is one unbroken hash chain whose tip is chain_head,
\* whichever postings interleave or roll back (post_voucher_in).
THEOREM ChainIsIntact == Spec => []ChainIntact
<1>1. PostingInv => ChainIntact
  BY DEF PostingInv
<1> QED
  BY <1>1, PostingInvariant, PTL

\* Voucher numbers have no gap and no duplicate in any journal and fiscal year,
\* also after transactions that had drawn one rolled back (voucher_counter).
THEOREM NumbersAreGapFree == Spec => []GapFreeNumbers
<1>1. PostingInv => GapFreeNumbers
  BY DEF PostingInv
<1> QED
  BY <1>1, PostingInvariant, PTL

-----------------------------------------------------------------------------
(***************************************************************************)
(* The period lock.  What makes LockHolds inductive: a session that holds  *)
(* the head has written at most MaxPerTx vouchers, and while nothing has   *)
(* been committed since a lock row, the head is where that row found it;   *)
(* what is written after the row was seen by the trigger.  Timestamps are  *)
(* distinct, so that the newest row is the one in force.                   *)
(***************************************************************************)
Stamping == {s \in Session : /\ session[s].kind = "closing"
                            /\ session[s].pc \in {"queued", "locked", "written"}}

Stamps ==
    /\ \A r, t \in period_lock : r.at = t.at => r = t
    /\ \A r \in period_lock : r.at < clock
    /\ \A s \in Stamping : /\ session[s].start < clock
                          /\ \A r \in period_lock : r.at # session[s].start
    /\ \A s, t \in Stamping : session[s].start = session[t].start => s = t
    /\ period_lock = {} \/ \E r \in period_lock : Newest(r)

BehindHead == \A r \in period_lock : r.behind <= chain_head.last_seq

HolderWithinBounds ==
    \A s \in Session : head_lock = s =>
      /\ session[s].head.last_seq <= chain_head.last_seq + MaxPerTx
      /\ session[s].pc = "locked" => session[s].head.last_seq < chain_head.last_seq + MaxPerTx

HolderAfterLocks ==
    \A s \in Session : head_lock = s =>
      \A r \in period_lock : Standing(r) /\ r.behind < chain_head.last_seq =>
        \A w \in session[s].rows : w.content.voucher_date > r.locked_through

LockInv ==
    /\ Stamps
    /\ BehindHead
    /\ HolderWithinBounds
    /\ HolderAfterLocks
    /\ LockHolds

\* The trigger lets nothing through that a standing lock covers.
LEMMA OpenIsAfterStanding ==
  ASSUME TypeOK, Stamps, NEW d \in Nat, ~Locked(d), NEW r \in period_lock, Standing(r)
  PROVE  d > r.locked_through
<1>1. PICK t \in period_lock : Newest(t)
  BY DEF Stamps
<1>2. d > t.locked_through
  BY <1>1 DEF Locked, TypeOK, PeriodLock
<1>3. t.at >= r.at
  BY <1>1 DEF Newest
<1>4. CASE t.at = r.at
  BY <1>2, <1>4 DEF Stamps
<1>5. CASE t.at > r.at
  <2>1. t.locked_through >= r.locked_through
    BY <1>5 DEF Standing
  <2> QED
    BY <1>2, <2>1 DEF TypeOK, PeriodLock
<1> QED
  BY <1>3, <1>4, <1>5 DEF TypeOK, PeriodLock

\* A row with a fresh timestamp keeps the timestamps distinct and a newest row.
LEMMA NewRow ==
  ASSUME TypeOK, Stamps, NEW q \in PeriodLock, \A r \in period_lock : r.at # q.at,
         period_lock' = period_lock \cup {q}
  PROVE  /\ \A r, t \in period_lock' : r.at = t.at => r = t
         /\ \E r \in period_lock' : Newest(r)'
         /\ \A r \in period_lock : Standing(r)' => Standing(r)
<1>1. \A r, t \in period_lock' : r.at = t.at => r = t
  BY DEF Stamps
<1>2. \E r \in period_lock' : Newest(r)'
  <2>1. CASE period_lock = {}
    BY <2>1 DEF Newest, PeriodLock
  <2>2. CASE \E r \in period_lock : Newest(r)
    <3>1. PICK r \in period_lock : Newest(r)
      BY <2>2
    <3>2. r.at \in Nat /\ q.at \in Nat /\ \A t \in period_lock : t.at \in Nat /\ t.at <= r.at
      BY <3>1 DEF Newest, TypeOK, PeriodLock
    <3>3. CASE q.at > r.at
      BY <3>2, <3>3 DEF Newest
    <3>4. CASE q.at <= r.at
      BY <3>1, <3>2, <3>4 DEF Newest
    <3> QED
      BY <3>2, <3>3, <3>4
  <2> QED
    BY <2>1, <2>2 DEF Stamps
<1>3. \A r \in period_lock : Standing(r)' => Standing(r)
  BY DEF Standing
<1> QED
  BY <1>1, <1>2, <1>3

\* With no lock row and no session at work the invariant of the locks holds.
LEMMA InitLock == Init => LockInv
<1> SUFFICES ASSUME Init PROVE LockInv
  OBVIOUS
<1>1. \A s \in Session : session[s].kind = "post" /\ head_lock # s
  BY SessionAssumption DEF Init, Idle
<1>2. period_lock = {}
  BY DEF Init
<1> QED
  BY <1>1, <1>2 DEF LockInv, Stamps, Stamping, BehindHead, HolderWithinBounds,
     HolderAfterLocks, LockHolds

\* A step that neither commits nor inserts a lock row, of a session that neither
\* holds the head nor takes it, nor draws a timestamp.
LEMMA QuietForLocks ==
  ASSUME PostingInv, LockInv, NEW s \in Session, NEW S, head_lock # s,
         session' = [session EXCEPT ![s] = S],
         S.kind = "closing" => S.pc \notin {"queued", "locked", "written"},
         UNCHANGED << voucher, chain_head, period_lock, head_lock, clock >>
  PROVE  LockInv'
<1>1. session'[s] = S /\ \A t \in Session : t # s => session'[t] = session[t]
  BY DEF PostingInv, TypeOK
<1>2. \A t \in Stamping' : t # s /\ t \in Stamping /\ session'[t].start = session[t].start
  BY <1>1 DEF Stamping
<1>3. Stamps'
  BY <1>2 DEF LockInv, Stamps, Newest
<1>4. BehindHead' /\ LockHolds'
  BY DEF LockInv, BehindHead, LockHolds, Standing
<1>5. HolderWithinBounds' /\ HolderAfterLocks'
  BY <1>1 DEF LockInv, HolderWithinBounds, HolderAfterLocks, Standing
<1> QED
  BY <1>3, <1>4, <1>5 DEF LockInv

\* Every step keeps it: a row inserted is stamped with the head of its moment, and
\* the holder of the head passed the trigger before or after that row.
LEMMA NextLock == PostingInv /\ PostingInv' /\ LockInv /\ [Next]_vars => LockInv'
<1> SUFFICES ASSUME PostingInv, PostingInv', LockInv, [Next]_vars PROVE LockInv'
  OBVIOUS
<1>a. TypeOK /\ TypeOK'
  BY DEF PostingInv
<1>b. \A s \in Session : session[s].pc \notin {"locked", "written"} =>
                           head_lock # s /\ session[s].rows = {}
  BY DEF PostingInv, HeadExclusive, InTransaction
<1>c. \A s \in Session : session[s].pc \in {"locked", "written"} => head_lock = s
  BY DEF PostingInv, HeadExclusive, InTransaction
<1>d. Stamps /\ BehindHead /\ HolderWithinBounds /\ HolderAfterLocks /\ LockHolds
  BY DEF LockInv
<1>e. Idle.pc = "idle" /\ Idle.kind = "post"
  BY DEF Idle
<1>f. chain_head.last_seq \in Nat /\ clock \in Nat /\ MaxPerTx \in Nat
  BY <1>a, BoundAssumption DEF TypeOK, ChainHead
<1>1. ASSUME NEW s \in Session, NEW j \in Journal, NEW d \in Date, BeginPosting(s, j, d)
      PROVE  LockInv'
  <2> DEFINE S == [Idle EXCEPT !.pc = "queued", !.journal = j, !.date = d]
  <2>1. /\ session' = [session EXCEPT ![s] = S]
        /\ session[s].pc = "idle"
        /\ UNCHANGED << voucher, chain_head, period_lock, head_lock, clock >>
    BY <1>1 DEF BeginPosting
  <2>2. S.kind # "closing"
    BY DEF Idle
  <2> HIDE DEF S
  <2> QED
    BY <1>b, <2>1, <2>2, QuietForLocks
<1>2. ASSUME NEW s \in Session, NEW j \in Journal, NEW d \in Date, PostAnother(s, j, d)
      PROVE  LockInv'
  <2>1. /\ session' = [session EXCEPT ![s] =
                         [session[s] EXCEPT !.pc = "locked", !.journal = j, !.date = d]]
        /\ session[s].pc = "written"
        /\ session[s].kind = "post"
        /\ session[s].head.last_seq < chain_head.last_seq + MaxPerTx
        /\ UNCHANGED << voucher, chain_head, period_lock, head_lock, clock >>
    BY <1>2 DEF PostAnother
  <2>2. /\ session'[s].rows = session[s].rows
        /\ session'[s].head = session[s].head
        /\ session'[s].kind = "post"
        /\ \A t \in Session : t # s => session'[t] = session[t]
    BY <1>a, <2>1 DEF TypeOK, SessionState
  <2>3. Stamps'
    BY <1>d, <2>1, <2>2 DEF Stamps, Stamping, Newest
  <2>4. BehindHead' /\ LockHolds'
    BY <1>d, <2>1 DEF BehindHead, LockHolds, Standing
  <2>5. session[s].head.last_seq \in Nat
    BY <1>a DEF TypeOK, SessionState, ChainHead
  <2>6. HolderWithinBounds'
    BY <1>d, <1>f, <2>1, <2>2, <2>5 DEF HolderWithinBounds
  <2>7. HolderAfterLocks'
    BY <1>d, <2>1, <2>2 DEF HolderAfterLocks, Standing
  <2> QED
    BY <2>3, <2>4, <2>6, <2>7 DEF LockInv
<1>3. ASSUME NEW s \in Session, NEW d \in Date, BeginOpening(s, d)
      PROVE  LockInv'
  <2> DEFINE S == [Idle EXCEPT !.pc = "queued", !.kind = "opening", !.date = d]
  <2>1. /\ session' = [session EXCEPT ![s] = S]
        /\ session[s].pc = "idle"
        /\ UNCHANGED << voucher, chain_head, period_lock, head_lock, clock >>
    BY <1>3 DEF BeginOpening
  <2>2. S.kind # "closing"
    BY DEF Idle
  <2> HIDE DEF S
  <2> QED
    BY <1>b, <2>1, <2>2, QuietForLocks
<1>4. ASSUME NEW s \in Session, NEW d \in Date, NEW r \in Reopen, CheckLock(s, d, r)
      PROVE  LockInv'
  <2> DEFINE S == [Idle EXCEPT !.pc = "locking", !.date = d]
  <2>1. /\ session' = [session EXCEPT ![s] = S]
        /\ session[s].pc = "idle"
        /\ UNCHANGED << voucher, chain_head, period_lock, head_lock, clock >>
    BY <1>4 DEF CheckLock
  <2>2. S.kind # "closing"
    BY DEF Idle
  <2> HIDE DEF S
  <2> QED
    BY <1>b, <2>1, <2>2, QuietForLocks
<1>5. ASSUME NEW s \in Session, NEW y \in Year, CheckClosing(s, y)
      PROVE  LockInv'
  <2> DEFINE S == [Idle EXCEPT !.pc = "closing", !.kind = "closing",
                               !.date = end_of_year(y), !.counted = InResult(y)]
  <2>1. /\ session' = [session EXCEPT ![s] = S]
        /\ session[s].pc = "idle"
        /\ UNCHANGED << voucher, chain_head, period_lock, head_lock, clock >>
    BY <1>5 DEF CheckClosing
  <2>2. S.pc = "closing"
    BY DEF Idle
  <2> HIDE DEF S
  <2> QED
    BY <1>b, <2>1, <2>2, QuietForLocks
<1>6. ASSUME NEW s \in Session, LockHead(s)
      PROVE  LockInv'
  <2>1. /\ session' = [session EXCEPT ![s] = [session[s] EXCEPT
                         !.pc = "locked", !.head = chain_head, !.counter = voucher_counter]]
        /\ session[s].pc = "queued"
        /\ head_lock = NoSession /\ head_lock' = s
        /\ UNCHANGED << voucher, chain_head, period_lock, clock >>
    BY <1>6 DEF LockHead
  <2>2. /\ session'[s].rows = {}
        /\ session'[s].head = chain_head
        /\ session'[s].kind = session[s].kind
        /\ session'[s].start = session[s].start
        /\ \A t \in Session : t # s => session'[t] = session[t]
    BY <1>a, <1>b, <2>1 DEF TypeOK, SessionState
  <2>3. \A t \in Stamping' : t \in Stamping /\ session'[t].start = session[t].start
    BY <2>1, <2>2 DEF Stamping
  <2>4. Stamps'
    BY <1>d, <2>1, <2>3 DEF Stamps, Newest
  <2>5. BehindHead' /\ LockHolds'
    BY <1>d, <2>1 DEF BehindHead, LockHolds, Standing
  <2>6. HolderWithinBounds'
    BY <1>f, <2>1, <2>2, BoundAssumption DEF HolderWithinBounds
  <2>7. HolderAfterLocks'
    BY <2>1, <2>2 DEF HolderAfterLocks
  <2> QED
    BY <2>4, <2>5, <2>6, <2>7 DEF LockInv
<1>7. ASSUME NEW s \in Session, WriteVoucher(s)
      PROVE  LockInv'
  <2> DEFINE v == NextVoucher(s)
             C == [session[s].counter EXCEPT ![Book(v)] = v.content.voucher_number]
             H == [last_seq |-> seq_of(v), last_hash |-> v.hash]
  <2>1. /\ session' = [session EXCEPT ![s] = [session[s] EXCEPT
                         !.pc = "written", !.rows = @ \cup {v}, !.head = H, !.counter = C]]
        /\ session[s].pc = "locked"
        /\ ~Locked(session[s].date)
        /\ UNCHANGED << voucher, chain_head, period_lock, head_lock, clock >>
    BY <1>7 DEF WriteVoucher, TriggerAllows
  <2>2. /\ seq_of(v) = session[s].head.last_seq + 1
        /\ v.content.voucher_date = session[s].date
    BY <1>a, <2>1, NextVoucherType
  <2> HIDE DEF v, C
  <2>3. /\ session'[s].rows = session[s].rows \cup {v}
        /\ session'[s].head.last_seq = session[s].head.last_seq + 1
        /\ session'[s].pc = "written"
        /\ session'[s].kind = session[s].kind
        /\ session'[s].start = session[s].start
        /\ \A t \in Session : t # s => session'[t] = session[t]
    BY <1>a, <2>1, <2>2 DEF TypeOK, SessionState
  <2> HIDE DEF H
  <2>4. \A t \in Stamping' : t \in Stamping /\ session'[t].start = session[t].start
    BY <2>1, <2>3 DEF Stamping
  <2>5. Stamps'
    BY <1>d, <2>1, <2>4 DEF Stamps, Newest
  <2>6. BehindHead' /\ LockHolds'
    BY <1>d, <2>1 DEF BehindHead, LockHolds, Standing
  <2>7. head_lock = s
    BY <1>c, <2>1
  <2>8. session[s].head.last_seq \in Nat /\ session[s].date \in Nat
    BY <1>a DEF TypeOK, SessionState, ChainHead
  <2>9. HolderWithinBounds'
    BY <1>d, <1>f, <2>1, <2>3, <2>7, <2>8 DEF HolderWithinBounds
  <2>10. \A r \in period_lock : Standing(r) => v.content.voucher_date > r.locked_through
    BY <1>a, <1>d, <2>1, <2>2, <2>8, OpenIsAfterStanding
  <2>11. HolderAfterLocks'
    BY <1>d, <2>1, <2>3, <2>7, <2>10 DEF HolderAfterLocks, Standing
  <2> QED
    BY <2>5, <2>6, <2>9, <2>11 DEF LockInv
<1>8. ASSUME NEW s \in Session, session[s].pc = "written", Publish(s)
      PROVE  /\ \A r \in period_lock : Standing(r) =>
                  \A v \in voucher' : seq_of(v) > r.behind + MaxPerTx =>
                                        v.content.voucher_date > r.locked_through
             /\ chain_head'.last_seq \in Nat
             /\ chain_head.last_seq <= chain_head'.last_seq
             /\ \A v \in voucher' : seq_of(v) \in Nat /\ seq_of(v) <= chain_head'.last_seq
             /\ session'[s] = Idle
             /\ \A t \in Session : t # s => session'[t] = session[t]
             /\ \A t \in Session : head_lock' # t
  <2>1. /\ voucher' = voucher \cup session[s].rows
        /\ chain_head' = session[s].head
        /\ head_lock' = NoSession
        /\ session' = [session EXCEPT ![s] = Idle]
    BY <1>8 DEF Publish
  <2>2. head_lock = s
    BY <1>8, <1>c
  <2>3. session[s].head.last_seq \in Nat
    BY <1>a DEF TypeOK, SessionState, ChainHead
  <2>4. \A v \in voucher' : seq_of(v) \in 1 .. chain_head'.last_seq
    BY DEF PostingInv, ChainIntact, ChainOf
  <2>5. \A v \in voucher : seq_of(v) \in 1 .. chain_head.last_seq
    BY DEF PostingInv, ChainIntact, ChainOf
  <2>6. chain_head.last_seq <= chain_head'.last_seq
    <3>1. CASE chain_head.last_seq = 0
      BY <3>1, <2>1, <2>3
    <3>2. CASE chain_head.last_seq > 0
      <4>1. chain_head.last_seq \in 1 .. chain_head.last_seq
        BY <1>f, <3>2
      <4>2. PICK v \in voucher : seq_of(v) = chain_head.last_seq
        BY <4>1 DEF PostingInv, ChainIntact, ChainOf
      <4> QED
        BY <4>2, <2>1, <2>3, <2>4
    <3> QED
      BY <1>f, <3>1, <3>2
  <2>7. ASSUME NEW r \in period_lock, Standing(r), NEW v \in voucher',
               seq_of(v) > r.behind + MaxPerTx
        PROVE  v.content.voucher_date > r.locked_through
    <3>1. CASE v \in voucher
      BY <1>d, <2>7, <3>1 DEF LockHolds
    <3>2. CASE v \in session[s].rows
      <4>1. seq_of(v) <= chain_head.last_seq + MaxPerTx
        BY <1>d, <1>f, <2>1, <2>2, <2>3, <2>4 DEF HolderWithinBounds
      <4>2. r.behind \in Nat
        BY <1>a DEF TypeOK, PeriodLock
      <4>3. r.behind < chain_head.last_seq
        BY <1>f, <2>1, <2>3, <2>4, <2>7, <4>1, <4>2
      <4> QED
        BY <1>d, <2>2, <2>7, <3>2, <4>3 DEF HolderAfterLocks
    <3> QED
      BY <2>1, <3>1, <3>2
  <2>8. session'[s] = Idle /\ \A t \in Session : t # s => session'[t] = session[t]
    BY <1>a, <2>1 DEF TypeOK
  <2> QED
    BY <2>1, <2>3, <2>4, <2>6, <2>7, <2>8, SessionAssumption
<1>9. ASSUME NEW s \in Session, Commit(s)
      PROVE  LockInv'
  <2>1. session[s].pc = "written" /\ Publish(s) /\ UNCHANGED << period_lock, clock >>
    BY <1>9 DEF Commit
  <2>2. \A t \in Stamping' : t \in Stamping /\ session'[t].start = session[t].start
    BY <1>8, <1>e, <2>1 DEF Stamping
  <2>3. Stamps'
    BY <1>d, <2>1, <2>2 DEF Stamps, Newest
  <2>4. BehindHead'
    <3>1. \A r \in period_lock : r.behind \in Nat
      BY <1>a DEF TypeOK, PeriodLock
    <3> QED
      BY <1>8, <1>d, <1>f, <2>1, <3>1 DEF BehindHead
  <2>5. LockHolds'
    BY <1>8, <2>1 DEF LockHolds, Standing
  <2>6. HolderWithinBounds' /\ HolderAfterLocks'
    BY <1>8, <2>1 DEF HolderWithinBounds, HolderAfterLocks
  <2> QED
    BY <2>3, <2>4, <2>5, <2>6 DEF LockInv
<1>10. ASSUME NEW s \in Session, Rollback(s)
      PROVE  LockInv'
  <2>1. /\ session' = [session EXCEPT ![s] = Idle]
        /\ head_lock' = IF head_lock = s THEN NoSession ELSE head_lock
        /\ UNCHANGED << voucher, chain_head, period_lock, clock >>
    BY <1>10 DEF Rollback
  <2>2. session'[s] = Idle /\ \A t \in Session : t # s => session'[t] = session[t]
    BY <1>a, <2>1 DEF TypeOK
  <2>3. \A t \in Stamping' : t \in Stamping /\ session'[t].start = session[t].start
    BY <1>e, <2>2 DEF Stamping
  <2>4. Stamps'
    BY <1>d, <2>1, <2>3 DEF Stamps, Newest
  <2>5. BehindHead' /\ LockHolds'
    BY <1>d, <2>1 DEF BehindHead, LockHolds, Standing
  <2>6. \A t \in Session : head_lock' = t => t # s /\ head_lock = t
    BY <2>1, SessionAssumption
  <2>7. HolderWithinBounds' /\ HolderAfterLocks'
    BY <1>d, <2>1, <2>2, <2>6 DEF HolderWithinBounds, HolderAfterLocks, Standing
  <2> QED
    BY <2>4, <2>5, <2>7 DEF LockInv
<1>11. ASSUME NEW s \in Session, BeginClosing(s)
      PROVE  LockInv'
  <2>1. /\ session' = [session EXCEPT ![s] =
                         [session[s] EXCEPT !.pc = "queued", !.start = clock]]
        /\ session[s].pc = "closing"
        /\ clock' = clock + 1
        /\ UNCHANGED << voucher, chain_head, period_lock, head_lock >>
    BY <1>11 DEF BeginClosing
  <2>2. /\ session'[s].start = clock
        /\ \A t \in Session : t # s => session'[t] = session[t]
    BY <1>a, <2>1 DEF TypeOK, SessionState
  <2>3. \A t \in Session : session[t].start \in Nat
    BY <1>a DEF TypeOK, SessionState
  <2>4. \A r \in period_lock : r.at \in Nat
    BY <1>a DEF TypeOK, PeriodLock
  <2>5. \A t \in Stamping' : t # s => t \in Stamping /\ session'[t].start = session[t].start
    BY <2>2 DEF Stamping
  <2>6. Stamps'
    <3>1. \A r \in period_lock : r.at < clock' /\ r.at # clock
      BY <1>d, <1>f, <2>1, <2>4 DEF Stamps
    <3>2. ASSUME NEW t \in Stamping'
          PROVE  /\ session'[t].start < clock'
                 /\ \A r \in period_lock' : r.at # session'[t].start
      <4>1. CASE t = s
        BY <1>f, <2>1, <2>2, <3>1, <4>1
      <4>2. CASE t # s
        <5>1. session'[t].start < clock /\ \A r \in period_lock : r.at # session'[t].start
          BY <1>d, <2>5, <4>2 DEF Stamps
        <5>2. session'[t].start \in Nat
          BY <2>3, <2>5, <4>2 DEF Stamping
        <5> QED
          BY <1>f, <2>1, <5>1, <5>2
      <4> QED
        BY <4>1, <4>2
    <3>3. ASSUME NEW t \in Stamping', NEW u \in Stamping',
                 session'[t].start = session'[u].start
          PROVE  t = u
      <4>1. \A w \in Stamping' : w # s => session'[w].start # clock
        BY <1>d, <1>f, <2>3, <2>5 DEF Stamps
      <4>2. CASE t = s \/ u = s
        BY <2>2, <3>3, <4>1, <4>2
      <4>3. CASE t # s /\ u # s
        BY <1>d, <2>5, <3>3, <4>3 DEF Stamps
      <4> QED
        BY <4>2, <4>3
    <3> QED
      BY <1>d, <2>1, <3>1, <3>2, <3>3 DEF Stamps, Newest
  <2>7. BehindHead' /\ LockHolds'
    BY <1>d, <2>1 DEF BehindHead, LockHolds, Standing
  <2>8. head_lock # s
    BY <1>b, <2>1
  <2>9. HolderWithinBounds' /\ HolderAfterLocks'
    BY <1>d, <2>1, <2>2, <2>8 DEF HolderWithinBounds, HolderAfterLocks, Standing
  <2> QED
    BY <2>6, <2>7, <2>9 DEF LockInv
<1>12. ASSUME NEW s \in Session, CommitClosing(s)
      PROVE  LockInv'
  <2> DEFINE q == [locked_through |-> session[s].date, at |-> session[s].start,
                   behind |-> session[s].head.last_seq]
  <2>1. /\ session[s].pc = "written" /\ session[s].kind = "closing"
        /\ Publish(s)
        /\ period_lock' = period_lock \cup {q}
        /\ UNCHANGED clock
    BY <1>12 DEF CommitClosing
  <2>2. chain_head' = session[s].head
    BY <2>1 DEF Publish
  <2>3. /\ q \in PeriodLock /\ q.at = session[s].start /\ q.behind = chain_head'.last_seq
        /\ q.locked_through = session[s].date
    BY <1>a, <2>2 DEF TypeOK, SessionState, ChainHead, PeriodLock
  <2> HIDE DEF q
  <2>4. s \in Stamping
    BY <2>1 DEF Stamping
  <2>5. \A r \in period_lock : r.at # q.at
    BY <1>d, <2>3, <2>4 DEF Stamps
  <2>6. /\ \A r, t \in period_lock' : r.at = t.at => r = t
        /\ \E r \in period_lock' : Newest(r)'
        /\ \A r \in period_lock : Standing(r)' => Standing(r)
    BY <1>a, <1>d, <2>1, <2>3, <2>5, NewRow
  <2>7. \A t \in Stamping' : /\ t # s /\ t \in Stamping
                             /\ session'[t].start = session[t].start
    BY <1>8, <1>e, <2>1 DEF Stamping
  <2>8. Stamps'
    BY <1>d, <2>1, <2>3, <2>4, <2>6, <2>7 DEF Stamps
  <2>9. BehindHead'
    <3>1. \A r \in period_lock : r.behind \in Nat
      BY <1>a DEF TypeOK, PeriodLock
    <3> QED
      BY <1>8, <1>d, <1>f, <2>1, <2>3, <3>1 DEF BehindHead
  <2>10. ASSUME NEW r \in period_lock', Standing(r)', NEW v \in voucher',
                seq_of(v) > r.behind + MaxPerTx
         PROVE  v.content.voucher_date > r.locked_through
    <3>1. CASE r \in period_lock
      BY <1>8, <2>1, <2>6, <2>10, <3>1
    <3>2. CASE r = q
      BY <1>8, <1>f, <2>1, <2>3, <2>10, <3>2
    <3> QED
      BY <2>1, <3>1, <3>2
  <2>11. LockHolds'
    BY <2>10 DEF LockHolds
  <2>12. HolderWithinBounds' /\ HolderAfterLocks'
    BY <1>8, <2>1 DEF HolderWithinBounds, HolderAfterLocks
  <2> QED
    BY <2>8, <2>9, <2>11, <2>12 DEF LockInv
<1>13. ASSUME NEW s \in Session, InsertLock(s)
      PROVE  LockInv'
  <2> DEFINE q == [locked_through |-> session[s].date, at |-> clock,
                   behind |-> chain_head.last_seq]
  <2>1. /\ session[s].pc = "locking"
        /\ period_lock' = period_lock \cup {q}
        /\ clock' = clock + 1
        /\ session' = [session EXCEPT ![s] = Idle]
        /\ UNCHANGED << voucher, chain_head, head_lock >>
    BY <1>13 DEF InsertLock
  <2>2. /\ q \in PeriodLock /\ q.at = clock /\ q.behind = chain_head.last_seq
    BY <1>a, <1>f DEF TypeOK, SessionState, PeriodLock
  <2> HIDE DEF q
  <2>3. \A r \in period_lock : r.at \in Nat /\ r.behind \in Nat
    BY <1>a DEF TypeOK, PeriodLock
  <2>4. \A r \in period_lock : r.at # q.at /\ r.at < clock'
    BY <1>d, <1>f, <2>1, <2>2, <2>3 DEF Stamps
  <2>5. /\ \A r, t \in period_lock' : r.at = t.at => r = t
        /\ \E r \in period_lock' : Newest(r)'
        /\ \A r \in period_lock : Standing(r)' => Standing(r)
    BY <1>a, <1>d, <2>1, <2>2, <2>4, NewRow
  <2>6. session'[s] = Idle /\ \A t \in Session : t # s => session'[t] = session[t]
    BY <1>a, <2>1 DEF TypeOK
  <2>7. \A t \in Stamping' : /\ t # s /\ t \in Stamping
                             /\ session'[t].start = session[t].start
    BY <1>e, <2>6 DEF Stamping
  <2>8. \A t \in Session : session[t].start \in Nat
    BY <1>a DEF TypeOK, SessionState
  <2>9. ASSUME NEW t \in Stamping'
        PROVE  /\ session'[t].start < clock'
               /\ \A r \in period_lock' : r.at # session'[t].start
    <3>1. session'[t].start < clock /\ \A r \in period_lock : r.at # session'[t].start
      BY <1>d, <2>7 DEF Stamps
    <3>2. session'[t].start \in Nat
      BY <2>7, <2>8 DEF Stamping
    <3> QED
      BY <1>f, <2>1, <2>2, <3>1, <3>2
  <2>10. Stamps'
    <3>1. \A t, u \in Stamping' : session'[t].start = session'[u].start => t = u
      BY <1>d, <2>7 DEF Stamps
    <3>2. \A r \in period_lock' : r.at < clock'
      BY <1>f, <2>1, <2>2, <2>4
    <3> QED
      BY <2>5, <2>9, <3>1, <3>2 DEF Stamps
  <2>11. BehindHead'
    BY <1>d, <1>f, <2>1, <2>2 DEF BehindHead
  <2>12. \A v \in voucher : seq_of(v) \in Nat /\ seq_of(v) <= chain_head.last_seq
    BY <1>f DEF PostingInv, ChainIntact, ChainOf
  <2>13. ASSUME NEW r \in period_lock', Standing(r)', NEW v \in voucher',
                seq_of(v) > r.behind + MaxPerTx
         PROVE  v.content.voucher_date > r.locked_through
    <3>1. CASE r \in period_lock
      BY <1>d, <2>1, <2>5, <2>13, <3>1 DEF LockHolds
    <3>2. CASE r = q
      BY <1>f, <2>1, <2>2, <2>12, <2>13, <3>2
    <3> QED
      BY <2>1, <3>1, <3>2
  <2>14. LockHolds'
    BY <2>13 DEF LockHolds
  <2>15. head_lock # s
    BY <1>b, <2>1
  <2>16. HolderWithinBounds'
    BY <1>d, <2>1, <2>6, <2>15 DEF HolderWithinBounds
  <2>17. ASSUME NEW t \in Session, head_lock' = t, NEW r \in period_lock', Standing(r)',
                r.behind < chain_head'.last_seq
         PROVE  \A w \in session'[t].rows : w.content.voucher_date > r.locked_through
    <3>1. CASE r \in period_lock
      BY <1>d, <2>1, <2>5, <2>6, <2>15, <2>17, <3>1 DEF HolderAfterLocks
    <3>2. CASE r = q
      BY <1>f, <2>1, <2>2, <2>17, <3>2
    <3> QED
      BY <2>1, <2>17, <3>1, <3>2
  <2>18. HolderAfterLocks'
    BY <2>17 DEF HolderAfterLocks
  <2> QED
    BY <2>10, <2>11, <2>14, <2>16, <2>18 DEF LockInv
<1>14. CASE UNCHANGED vars
  BY <1>14, <1>d DEF vars, LockInv, Stamps, Stamping, Newest, BehindHead, HolderWithinBounds,
     HolderAfterLocks, LockHolds, Standing
<1> QED
  BY <1>1, <1>2, <1>3, <1>4, <1>5, <1>6, <1>7, <1>9, <1>10, <1>11, <1>12, <1>13, <1>14
     DEF Next

\* A period lock that stands lets at most one transaction post behind it: the one
\* past the trigger forbid_locked_period_posting when the lock committed.
THEOREM LocksHold == Spec => []LockHolds
<1>1. Spec => [](PostingInv /\ LockInv)
  <2>1. Init => PostingInv /\ LockInv
    BY InitPosting, InitLock
  <2>2. (PostingInv /\ LockInv) /\ [Next]_vars => (PostingInv /\ LockInv)'
    BY NextPosting, NextLock
  <2> QED
    BY <2>1, <2>2, PTL DEF Spec
<1>2. PostingInv /\ LockInv => LockHolds
  BY DEF LockInv
<1> QED
  BY <1>1, <1>2, PTL

-----------------------------------------------------------------------------
(***************************************************************************)
(* The two postings that are more than a voucher: the opening balance,     *)
(* which must be the first one, and the year-end closing, which comes with *)
(* its row and its lock.  They build on the invariant of the chain head.   *)
(***************************************************************************)

\* An opening balance that holds the chain head found the ledger empty, and has
\* written nothing but its first voucher.
OpeningUnderWay ==
    \A s \in Session :
      /\ session[s].pc = "locked" /\ session[s].kind = "opening"
           => session[s].head.last_seq = 0
      /\ \A v \in session[s].rows : v.content.kind = "opening" => seq_of(v) = 1

OpeningInv == OpeningUnderWay /\ OpeningFirst

IsClosing(v, d) == v.content.kind = "closing" /\ v.content.fiscal_year = fiscal_year(d)

\* A closing is dated on the last day of its year and has written its one voucher;
\* nothing else writes a closing voucher.
ClosingUnderWay ==
    \A s \in Session :
      IF session[s].kind = "closing"
      THEN /\ session[s].date = end_of_year(fiscal_year(session[s].date))
           /\ session[s].pc = "locked" => session[s].rows = {}
           /\ session[s].pc = "written" =>
                \E v \in Voucher : /\ session[s].rows = {v}
                                  /\ seq_of(v) = session[s].head.last_seq
                                  /\ IsClosing(v, session[s].date)
      ELSE \A v \in session[s].rows : v.content.kind # "closing"

ClosingInv == ClosingUnderWay /\ ClosingAtomic

\* The last day of a year is in that year.
LEMMA YearOfItsEnd ==
  ASSUME NEW y \in Year, end_of_year(y) \in Date
  PROVE  fiscal_year(end_of_year(y)) = y
<1>1. YearLength \in Nat \ {0} /\ y \in Nat /\ y * YearLength \in Nat \ {0}
  BY DateAssumption DEF end_of_year
<1>2. y # 0
  BY <1>1
<1>3. (y * YearLength - 1) \div YearLength = y - 1
  BY <1>1, <1>2
<1> QED
  BY <1>1, <1>3 DEF fiscal_year, end_of_year

\* What the steps have in common: one session changes, and only a commit or a
\* write changes the vouchers it holds.
LEMMA OneSessionMoves ==
  ASSUME TypeOK, NEW s \in Session, NEW S, session' = [session EXCEPT ![s] = S]
  PROVE  session'[s] = S /\ \A t \in Session : t # s => session'[t] = session[t]
  BY DEF TypeOK

-----------------------------------------------------------------------------
\* Every step keeps an opening balance the first voucher.
LEMMA NextOpening == PostingInv /\ OpeningInv /\ [Next]_vars => OpeningInv'
<1> SUFFICES ASSUME PostingInv, OpeningInv, [Next]_vars PROVE OpeningInv'
  OBVIOUS
<1> USE DEF OpeningInv
<1>0. TypeOK /\ HeadExclusive /\ ChainIntact
  BY DEF PostingInv
\* A session that does not hold the head, or gives it up, or takes it.
<1>1. ASSUME NEW s \in Session, NEW S, session' = [session EXCEPT ![s] = S], UNCHANGED voucher,
             S.rows = {} \/ S.rows = session[s].rows,
             S.pc = "locked" /\ S.kind = "opening" => S.head.last_seq = 0
      PROVE  OpeningInv'
  <2>1. session'[s] = S /\ \A t \in Session : t # s => session'[t] = session[t]
    BY <1>0, <1>1, OneSessionMoves
  <2>2. OpeningUnderWay'
    BY <1>1, <2>1 DEF OpeningUnderWay
  <2> QED
    BY <1>1, <2>2 DEF OpeningFirst
<1>2. Idle.rows = {} /\ Idle.pc = "idle" /\ Idle.kind = "post"
  BY DEF Idle
<1>3. ASSUME NEW s \in Session, NEW j \in Journal, NEW d \in Date,
             BeginPosting(s, j, d) \/ BeginOpening(s, d)
      PROVE  OpeningInv'
  <2>1. CASE BeginPosting(s, j, d)
    <3> DEFINE S == [Idle EXCEPT !.pc = "queued", !.journal = j, !.date = d]
    <3>1. S.rows = {} /\ S.pc = "queued"
      BY DEF Idle
    <3>2. session' = [session EXCEPT ![s] = S] /\ UNCHANGED voucher
      BY <2>1 DEF BeginPosting
    <3> HIDE DEF S
    <3> QED
      BY <1>1, <3>1, <3>2
  <2>2. CASE BeginOpening(s, d)
    <3> DEFINE S == [Idle EXCEPT !.pc = "queued", !.kind = "opening", !.date = d]
    <3>1. S.rows = {} /\ S.pc = "queued"
      BY DEF Idle
    <3>2. session' = [session EXCEPT ![s] = S] /\ UNCHANGED voucher
      BY <2>2 DEF BeginOpening
    <3> HIDE DEF S
    <3> QED
      BY <1>1, <3>1, <3>2
  <2> QED
    BY <1>3, <2>1, <2>2
<1>4. ASSUME NEW s \in Session, NEW j \in Journal, NEW d \in Date, PostAnother(s, j, d)
      PROVE  OpeningInv'
  <2> DEFINE S == [session[s] EXCEPT !.pc = "locked", !.journal = j, !.date = d]
  <2>1. S.rows = session[s].rows /\ S.kind = "post"
    BY <1>0, <1>4 DEF PostAnother, TypeOK, SessionState
  <2>2. session' = [session EXCEPT ![s] = S] /\ UNCHANGED voucher
    BY <1>4 DEF PostAnother
  <2> HIDE DEF S
  <2> QED
    BY <1>1, <2>1, <2>2
<1>5. ASSUME NEW s \in Session, NEW d \in Date, NEW r \in Reopen, CheckLock(s, d, r)
      PROVE  OpeningInv'
  <2> DEFINE S == [Idle EXCEPT !.pc = "locking", !.date = d]
  <2>1. S.rows = {} /\ S.pc = "locking"
    BY DEF Idle
  <2>2. session' = [session EXCEPT ![s] = S] /\ UNCHANGED voucher
    BY <1>5 DEF CheckLock
  <2> HIDE DEF S
  <2> QED
    BY <1>1, <2>1, <2>2
<1>6. ASSUME NEW s \in Session, NEW y \in Year, CheckClosing(s, y) PROVE OpeningInv'
  <2> DEFINE S == [Idle EXCEPT !.pc = "closing", !.kind = "closing",
                               !.date = end_of_year(y), !.counted = InResult(y)]
  <2>1. S.rows = {} /\ S.pc = "closing"
    BY DEF Idle
  <2>2. session' = [session EXCEPT ![s] = S] /\ UNCHANGED voucher
    BY <1>6 DEF CheckClosing
  <2> HIDE DEF S
  <2> QED
    BY <1>1, <2>1, <2>2
<1>7. ASSUME NEW s \in Session, LockHead(s) PROVE OpeningInv'
  <2> DEFINE S == [session[s] EXCEPT !.pc = "locked", !.head = chain_head,
                                     !.counter = voucher_counter]
  <2>1. S.rows = session[s].rows /\ S.kind = session[s].kind /\ S.head = chain_head
    BY <1>0 DEF TypeOK, SessionState
  <2>2. session' = [session EXCEPT ![s] = S] /\ UNCHANGED voucher /\ OpeningAllowed(s)
    BY <1>7 DEF LockHead
  <2> HIDE DEF S
  <2> QED
    BY <1>1, <2>1, <2>2 DEF OpeningAllowed
<1>8. ASSUME NEW s \in Session, WriteVoucher(s) PROVE OpeningInv'
  <2> DEFINE v == NextVoucher(s)
  <2>1. /\ session[s].pc = "locked"
        /\ seq_of(v) = session[s].head.last_seq + 1
        /\ v.content.kind = session[s].kind
    BY <1>0, <1>8, NextVoucherType DEF WriteVoucher
  <2>2. /\ session'[s].pc = "written"
        /\ session'[s].rows = session[s].rows \cup {v}
        /\ \A t \in Session : t # s => session'[t] = session[t]
    <3> HIDE DEF v
    <3> QED
      BY <1>0, <1>8 DEF WriteVoucher, TypeOK, SessionState, v
  <2> HIDE DEF v
  <2>3. v.content.kind = "opening" => seq_of(v) = 1
    <3>1. v.content.kind = "opening" => session[s].head.last_seq = 0
      BY <2>1 DEF OpeningUnderWay
    <3> QED
      BY <2>1, <3>1
  <2>4. OpeningUnderWay'
    BY <2>2, <2>3 DEF OpeningUnderWay
  <2>5. OpeningFirst'
    BY <1>8 DEF OpeningFirst, WriteVoucher
  <2> QED
    BY <2>4, <2>5
<1>9. ASSUME NEW s \in Session, Publish(s) PROVE OpeningInv'
  <2>1. session'[s] = Idle /\ \A t \in Session : t # s => session'[t] = session[t]
    BY <1>0, <1>9, OneSessionMoves DEF Publish
  <2>2. OpeningUnderWay'
    BY <1>2, <2>1 DEF OpeningUnderWay
  <2>3. OpeningFirst'
    BY <1>9 DEF OpeningFirst, OpeningUnderWay, Publish
  <2> QED
    BY <2>2, <2>3
<1>10. ASSUME NEW s \in Session, Commit(s) \/ CommitClosing(s) PROVE OpeningInv'
  BY <1>9, <1>10 DEF Commit, CommitClosing
<1>11. ASSUME NEW s \in Session, Rollback(s) \/ InsertLock(s) PROVE OpeningInv'
  BY <1>1, <1>2, <1>11 DEF Rollback, InsertLock
<1>12. ASSUME NEW s \in Session, BeginClosing(s) PROVE OpeningInv'
  <2> DEFINE S == [session[s] EXCEPT !.pc = "queued", !.start = clock]
  <2>1. S.rows = session[s].rows /\ S.pc = "queued"
    BY <1>0 DEF TypeOK, SessionState
  <2>2. session' = [session EXCEPT ![s] = S] /\ UNCHANGED voucher
    BY <1>12 DEF BeginClosing
  <2> HIDE DEF S
  <2> QED
    BY <1>1, <2>1, <2>2
<1>13. CASE UNCHANGED vars
  BY <1>13 DEF vars, OpeningUnderWay, OpeningFirst
<1> QED
  BY <1>3, <1>4, <1>5, <1>6, <1>7, <1>8, <1>10, <1>11, <1>12, <1>13, JournalAssumption DEF Next

\* An opening balance is the first voucher of its ledger, whichever sessions race to
\* post (post_opening_balance).
THEOREM OpeningIsFirst == Spec => []OpeningFirst
<1>1. Init => OpeningInv
  BY DEF Init, Idle, OpeningInv, OpeningUnderWay, OpeningFirst
<1>2. OpeningInv => OpeningFirst
  BY DEF OpeningInv
<1> QED
  BY <1>1, <1>2, PostingInvariant, NextOpening, PTL DEF Spec

-----------------------------------------------------------------------------
\* What ClosingUnderWay asks of a session that is S.
Sound(S) ==
    IF S.kind = "closing"
    THEN /\ S.date = end_of_year(fiscal_year(S.date))
         /\ S.pc = "locked" => S.rows = {}
         /\ S.pc = "written" => \E v \in Voucher : /\ S.rows = {v}
                                                 /\ seq_of(v) = S.head.last_seq
                                                 /\ IsClosing(v, S.date)
    ELSE \A v \in S.rows : v.content.kind # "closing"

\* Every step keeps closings whole.
LEMMA NextClosing == PostingInv /\ ClosingInv /\ [Next]_vars => ClosingInv'
<1> SUFFICES ASSUME PostingInv, ClosingInv, [Next]_vars PROVE ClosingInv'
  OBVIOUS
<1> USE DEF ClosingInv
<1>0. TypeOK /\ HeadExclusive /\ ChainIntact
  BY DEF PostingInv
<1>1. ASSUME NEW s \in Session, NEW S, session' = [session EXCEPT ![s] = S], Sound(S)
      PROVE  ClosingUnderWay'
  <2>1. session'[s] = S /\ \A t \in Session : t # s => session'[t] = session[t]
    BY <1>0, <1>1, OneSessionMoves
  <2> QED
    BY <1>1, <2>1 DEF ClosingUnderWay, Sound
<1>2. \A s \in Session : Sound(session[s])
  BY DEF ClosingUnderWay, Sound
\* A step that commits nothing.
<1>3. ASSUME NEW s \in Session, NEW S, session' = [session EXCEPT ![s] = S], Sound(S),
             UNCHANGED << voucher, arsavslutning >>, period_lock \subseteq period_lock'
      PROVE  ClosingInv'
  BY <1>1, <1>3 DEF ClosingAtomic
<1>4. Idle.rows = {} /\ Idle.pc = "idle" /\ Idle.kind = "post" /\ Sound(Idle)
  BY DEF Idle, Sound
<1>5. ASSUME NEW s \in Session, NEW j \in Journal, NEW d \in Date, BeginPosting(s, j, d)
      PROVE  ClosingInv'
  <2> DEFINE S == [Idle EXCEPT !.pc = "queued", !.journal = j, !.date = d]
  <2>1. Sound(S)
    BY DEF Idle, Sound
  <2> QED
    BY <1>3, <1>5, <2>1 DEF BeginPosting
<1>6. ASSUME NEW s \in Session, NEW d \in Date, BeginOpening(s, d) PROVE ClosingInv'
  <2> DEFINE S == [Idle EXCEPT !.pc = "queued", !.kind = "opening", !.date = d]
  <2>1. Sound(S)
    BY DEF Idle, Sound
  <2> QED
    BY <1>3, <1>6, <2>1 DEF BeginOpening
<1>7. ASSUME NEW s \in Session, NEW j \in Journal, NEW d \in Date, PostAnother(s, j, d)
      PROVE  ClosingInv'
  <2> DEFINE S == [session[s] EXCEPT !.pc = "locked", !.journal = j, !.date = d]
  <2>1. S.rows = session[s].rows /\ S.kind = "post" /\ session[s].kind = "post"
    BY <1>0, <1>7 DEF PostAnother, TypeOK, SessionState
  <2>2. session' = [session EXCEPT ![s] = S] /\ UNCHANGED << voucher, arsavslutning, period_lock >>
    BY <1>7 DEF PostAnother
  <2> HIDE DEF S
  <2>3. Sound(S)
    BY <1>2, <2>1 DEF Sound
  <2> QED
    BY <1>3, <2>2, <2>3
<1>8. ASSUME NEW s \in Session, NEW d \in Date, NEW r \in Reopen, CheckLock(s, d, r)
      PROVE  ClosingInv'
  <2> DEFINE S == [Idle EXCEPT !.pc = "locking", !.date = d]
  <2>1. Sound(S)
    BY DEF Idle, Sound
  <2> QED
    BY <1>3, <1>8, <2>1 DEF CheckLock
<1>9. ASSUME NEW s \in Session, NEW y \in Year, CheckClosing(s, y) PROVE ClosingInv'
  <2> DEFINE S == [Idle EXCEPT !.pc = "closing", !.kind = "closing",
                               !.date = end_of_year(y), !.counted = InResult(y)]
  <2>1. S.pc = "closing" /\ S.kind = "closing" /\ S.date = end_of_year(y)
    BY DEF Idle
  <2>2. fiscal_year(end_of_year(y)) = y
    BY <1>9, YearOfItsEnd DEF CheckClosing
  <2>3. session' = [session EXCEPT ![s] = S] /\ UNCHANGED << voucher, arsavslutning, period_lock >>
    BY <1>9 DEF CheckClosing
  <2> HIDE DEF S
  <2>4. Sound(S)
    BY <2>1, <2>2 DEF Sound
  <2> QED
    BY <1>3, <2>3, <2>4
<1>10. ASSUME NEW s \in Session, LockHead(s) PROVE ClosingInv'
  <2> DEFINE S == [session[s] EXCEPT !.pc = "locked", !.head = chain_head,
                                     !.counter = voucher_counter]
  <2>1. /\ S.rows = session[s].rows /\ S.kind = session[s].kind /\ S.pc = "locked"
        /\ S.date = session[s].date
    BY <1>0 DEF TypeOK, SessionState
  <2>2. session[s].rows = {}
    BY <1>0, <1>10, SessionAssumption DEF LockHead, HeadExclusive
  <2>3. session' = [session EXCEPT ![s] = S] /\ UNCHANGED << voucher, arsavslutning, period_lock >>
    BY <1>10 DEF LockHead
  <2> HIDE DEF S
  <2>4. Sound(S)
    BY <1>2, <2>1, <2>2 DEF Sound
  <2> QED
    BY <1>3, <2>3, <2>4
<1>11. ASSUME NEW s \in Session, WriteVoucher(s) PROVE ClosingInv'
  <2> DEFINE v == NextVoucher(s)
             S == [session[s] EXCEPT
                     !.pc = "written",
                     !.rows = @ \cup {v},
                     !.head = [last_seq |-> seq_of(v), last_hash |-> v.hash],
                     !.counter = [@ EXCEPT ![Book(v)] = v.content.voucher_number]]
  <2>1. /\ session[s].pc = "locked" /\ v \in Voucher /\ v.content.kind = session[s].kind
        /\ v.content.fiscal_year = fiscal_year(session[s].date)
    <3>1. session[s].pc = "locked"
      BY <1>11 DEF WriteVoucher
    <3>2. /\ v \in Voucher /\ v.content.kind = session[s].kind
          /\ Book(v) = << session[s].journal, fiscal_year(session[s].date) >>
      BY <1>0, <3>1, NextVoucherType
    <3> HIDE DEF v
    <3>3. v.content.fiscal_year = fiscal_year(session[s].date)
      BY <3>2 DEF Book
    <3> QED
      BY <3>1, <3>2, <3>3
  <2>2. session' = [session EXCEPT ![s] = S] /\ UNCHANGED << voucher, arsavslutning, period_lock >>
    BY <1>11 DEF WriteVoucher
  <2> HIDE DEF v
  <2>3. /\ S.rows = session[s].rows \cup {v} /\ S.kind = session[s].kind
        /\ S.date = session[s].date /\ S.head.last_seq = seq_of(v) /\ S.pc = "written"
    BY <1>0 DEF TypeOK, SessionState
  <2> HIDE DEF S
  <2>4. CASE S.kind = "closing"
    <3>1. S.rows = {v} /\ S.date = end_of_year(fiscal_year(S.date))
      BY <1>2, <2>1, <2>3, <2>4 DEF Sound
    <3>2. IsClosing(v, S.date)
      BY <2>1, <2>3, <2>4 DEF IsClosing
    <3>3. Sound(S)
      BY <2>1, <2>3, <2>4, <3>1, <3>2 DEF Sound
    <3> QED
      BY <1>3, <2>2, <3>3
  <2>5. CASE S.kind # "closing"
    <3>1. Sound(S)
      BY <1>2, <2>1, <2>3, <2>5 DEF Sound
    <3> QED
      BY <1>3, <2>2, <3>1
  <2> QED
    BY <2>4, <2>5
<1>12. ASSUME NEW s \in Session, Commit(s) PROVE ClosingInv'
  <2>1. /\ voucher' = voucher \cup session[s].rows /\ session' = [session EXCEPT ![s] = Idle]
        /\ UNCHANGED << period_lock, arsavslutning >> /\ session[s].kind # "closing"
    BY <1>12 DEF Commit, Publish
  <2>2. \A v \in session[s].rows : v.content.kind # "closing"
    BY <1>2, <2>1 DEF Sound
  <2>3. ClosingAtomic'
    BY <2>1, <2>2 DEF ClosingAtomic
  <2> QED
    BY <1>1, <1>4, <2>1, <2>3
<1>13. ASSUME NEW s \in Session, CommitClosing(s) PROVE ClosingInv'
  <2> DEFINE y == fiscal_year(session[s].date)
             a == [year |-> y, voucher |-> session[s].head.last_seq,
                   counted |-> session[s].counted]
             l == [locked_through |-> session[s].date, at |-> session[s].start,
                   behind |-> session[s].head.last_seq]
  <2>1. /\ voucher' = voucher \cup session[s].rows /\ session' = [session EXCEPT ![s] = Idle]
        /\ arsavslutning' = arsavslutning \cup {a}
        /\ period_lock' = period_lock \cup {l}
        /\ UniqueClosing(y)
        /\ session[s].kind = "closing" /\ session[s].pc = "written"
    BY <1>13 DEF CommitClosing, Publish
  <2>2. l.locked_through = end_of_year(y) /\ a.year = y /\ a.voucher = session[s].head.last_seq
    BY <1>2, <2>1 DEF Sound
  <2>3. PICK v \in Voucher : /\ session[s].rows = {v} /\ seq_of(v) = session[s].head.last_seq
                             /\ IsClosing(v, session[s].date)
    BY <1>2, <2>1 DEF Sound
  <2>4. v.content.kind = "closing" /\ v.content.fiscal_year = y
    BY <2>3 DEF IsClosing
  <2> HIDE DEF a, l, y
  <2>5. \A b, c \in arsavslutning' : b.year = c.year => b = c
    BY <2>1, <2>2 DEF ClosingAtomic, UniqueClosing
  <2>6. \A b \in arsavslutning' :
          /\ \E u \in voucher' : /\ seq_of(u) = b.voucher
                                 /\ u.content.kind = "closing"
                                 /\ u.content.fiscal_year = b.year
          /\ \E r \in period_lock' : r.locked_through = end_of_year(b.year)
    BY <2>1, <2>2, <2>3, <2>4 DEF ClosingAtomic
  <2>7. \A u \in voucher' : u.content.kind = "closing" =>
          \E b \in arsavslutning' : b.voucher = seq_of(u)
    BY <2>1, <2>2, <2>3 DEF ClosingAtomic
  <2>8. ClosingAtomic'
    BY <2>5, <2>6, <2>7 DEF ClosingAtomic
  <2> QED
    BY <1>1, <1>4, <2>1, <2>8
<1>14. ASSUME NEW s \in Session, Rollback(s) \/ InsertLock(s) PROVE ClosingInv'
  <2>1. /\ session' = [session EXCEPT ![s] = Idle] /\ UNCHANGED << voucher, arsavslutning >>
        /\ period_lock \subseteq period_lock'
    BY <1>14 DEF Rollback, InsertLock
  <2> QED
    BY <1>3, <1>4, <2>1
<1>15. ASSUME NEW s \in Session, BeginClosing(s) PROVE ClosingInv'
  <2> DEFINE S == [session[s] EXCEPT !.pc = "queued", !.start = clock]
  <2>1. /\ S.rows = session[s].rows /\ S.pc = "queued" /\ S.kind = session[s].kind
        /\ S.date = session[s].date
    BY <1>0 DEF TypeOK, SessionState
  <2>2. session' = [session EXCEPT ![s] = S] /\ UNCHANGED << voucher, arsavslutning, period_lock >>
    BY <1>15 DEF BeginClosing
  <2> HIDE DEF S
  <2>3. Sound(S)
    BY <1>2, <2>1 DEF Sound
  <2> QED
    BY <1>3, <2>2, <2>3
<1>16. CASE UNCHANGED vars
  BY <1>16 DEF vars, ClosingUnderWay, ClosingAtomic
<1> QED
  BY <1>5, <1>6, <1>7, <1>8, <1>9, <1>10, <1>11, <1>12, <1>13, <1>14, <1>15, <1>16 DEF Next

\* A year closes at most once, and its voucher, its row of arsavslutning and a lock
\* through its last day appear together (close_year), whoever closes it meanwhile.
THEOREM ClosingIsAtomic == Spec => []ClosingAtomic
<1>1. Init => ClosingInv
  BY DEF Init, Idle, ClosingInv, ClosingUnderWay, ClosingAtomic
<1>2. ClosingInv => ClosingAtomic
  BY DEF ClosingInv
<1> QED
  BY <1>1, <1>2, PostingInvariant, NextClosing, PTL DEF Spec

-----------------------------------------------------------------------------
(***************************************************************************)
(* Module Ledger implements module LedgerLog: to a reader of the committed *)
(* vouchers the interleaved transactions are an append-only log, numbered  *)
(* in order in every journal and fiscal year.                              *)
(***************************************************************************)
number(v) == v.content.voucher_number

\* In a book, a voucher further up the chain has the higher number.
RisesByNumber(V) ==
    \A u, v \in V : Book(u) = Book(v) /\ seq_of(u) < seq_of(v) => number(u) < number(v)

\* What the holder of the head sees is ordered, and goes beyond what is committed
\* once it has written.
OrderInv ==
    /\ RisesByNumber(voucher)
    /\ \A s \in Session : head_lock = s =>
         /\ RisesByNumber(Seen(s))
         /\ session[s].head.last_seq >= chain_head.last_seq
         /\ session[s].pc = "written" => session[s].head.last_seq > chain_head.last_seq

\* The contents of the rows V, in the order of the chain.
Reading(V, n) == [i \in 1 .. n |-> (CHOOSE v \in V : seq_of(v) = i).content]

\* A chain is read one voucher at a time: position i holds the one voucher whose
\* sequence number is i.
LEMMA ReadChain ==
  ASSUME NEW V, V \subseteq Voucher, NEW H \in ChainHead, ChainOf(V, H)
  PROVE  /\ Reading(V, H.last_seq) \in Seq(Content)
         /\ Len(Reading(V, H.last_seq)) = H.last_seq
         /\ \A v \in V : /\ seq_of(v) \in 1 .. H.last_seq
                         /\ Reading(V, H.last_seq)[seq_of(v)] = v.content
         /\ \A i \in 1 .. H.last_seq : \E v \in V : seq_of(v) = i
<1> DEFINE n == H.last_seq
           R(i) == CHOOSE v \in V : seq_of(v) = i
           l == Reading(V, n)
<1>1. n \in Nat /\ \A v \in V : v.content \in Content
  BY DEF ChainHead, Voucher
<1>2. {seq_of(v) : v \in V} = 1 .. n /\ \A u, v \in V : seq_of(u) = seq_of(v) => u = v
  BY DEF ChainOf
<1>3. \A i \in 1 .. n : R(i) \in V /\ seq_of(R(i)) = i
  BY <1>2
<1>4. l = [i \in 1 .. n |-> R(i).content]
  BY DEF Reading
<1> HIDE DEF R, l, n
<1>5. \A i \in 1 .. n : R(i).content \in Content
  BY <1>1, <1>3
<1>6. l \in Seq(Content) /\ Len(l) = n
  BY <1>1, <1>4, <1>5
<1>7. ASSUME NEW v \in V PROVE seq_of(v) \in 1 .. n /\ l[seq_of(v)] = v.content
  <2>1. seq_of(v) \in 1 .. n
    BY <1>2
  <2>2. R(seq_of(v)) = v
    BY <1>2, <1>3, <2>1
  <2> QED
    BY <1>4, <2>1, <2>2
<1>8. \A i \in 1 .. n : \E v \in V : seq_of(v) = i
  BY <1>3
<1> QED
  BY <1>6, <1>7, <1>8 DEF l, n

\* Numbers that are gap-free, and that rise along the chain, follow one another.
LEMMA ReadInOrder ==
  ASSUME NEW V, V \subseteq Voucher, NEW H \in ChainHead, ChainOf(V, H),
         NEW C \in [Journal \X Year -> Nat], NumbersOf(V, C), RisesByNumber(V),
         \A v \in V : Book(v) \in Journal \X Year
  PROVE  Log!WellNumbered(Reading(V, H.last_seq))
<1> DEFINE l == Reading(V, H.last_seq)
           n == H.last_seq
<1>1. /\ Len(l) = n /\ n \in Nat
      /\ \A v \in V : seq_of(v) \in 1 .. n /\ l[seq_of(v)] = v.content
      /\ \A i \in 1 .. n : \E v \in V : seq_of(v) = i
  <2>1. n \in Nat
    BY DEF ChainHead
  <2>2. /\ Len(l) = n
        /\ \A v \in V : seq_of(v) \in 1 .. n /\ l[seq_of(v)] = v.content
        /\ \A i \in 1 .. n : \E v \in V : seq_of(v) = i
    BY ReadChain
  <2> QED
    BY <2>1, <2>2
<1> HIDE DEF l, n
<1>2. \A u, v \in V : Book(u) = Book(v) <=> Log!SameBook(u.content, v.content)
  BY DEF Book, Log!SameBook
<1>3. ASSUME NEW i \in 1 .. n PROVE Log!NumberFollows(l, i)
  <2>1. PICK v \in V : seq_of(v) = i
    BY <1>1
  <2> DEFINE earlier == {k \in 1 .. i - 1 : Log!SameBook(l[k], l[i])}
             B == Book(v)
             book == {w \in V : Book(w) = B}
  <2>2. l[i] = v.content /\ l[i].voucher_number = number(v)
    BY <1>1, <2>1 DEF number
  <2>3. \A m \in earlier : \E w \in book : seq_of(w) = m /\ m < i /\ l[m] = w.content
    <3>1. SUFFICES ASSUME NEW m \in earlier
                   PROVE  \E w \in book : seq_of(w) = m /\ m < i /\ l[m] = w.content
      OBVIOUS
    <3>2. m \in 1 .. n /\ m < i
      BY <1>1
    <3>3. PICK w \in V : seq_of(w) = m
      BY <1>1, <3>2
    <3>4. l[m] = w.content
      BY <1>1, <3>3
    <3>5. Book(w) = B
      BY <1>2, <2>2, <3>4
    <3> QED
      BY <3>2, <3>3, <3>4, <3>5
  <2>4. {number(w) : w \in book} = 1 .. C[B] /\ C[B] \in Nat
    BY DEF NumbersOf, number
  <2>5. /\ \A w \in book : number(w) \in Nat /\ number(w) >= 1
        /\ number(v) \in 1 .. C[B] /\ number(v) \in Nat
    BY <2>4
  <2>6. \A u, w \in book : seq_of(u) < seq_of(w) => number(u) < number(w)
    BY DEF RisesByNumber
  <2>7. v \in book /\ \A w \in book : seq_of(w) \in 1 .. n /\ l[seq_of(w)] = w.content
    BY <1>1
  <2>8. \A w \in book : Log!SameBook(w.content, v.content)
    BY <1>2
  <2> HIDE DEF book, B
  <2>9. CASE number(v) = 1
    <3>1. \A m \in earlier : FALSE
      BY <2>1, <2>3, <2>5, <2>6, <2>7, <2>9
    <3> QED
      BY <2>2, <2>9, <3>1 DEF Log!NumberFollows
  <2>10. CASE number(v) # 1
    <3>1. number(v) - 1 \in 1 .. C[B]
      BY <2>4, <2>5, <2>10
    <3>2. PICK u \in book : number(u) = number(v) - 1
      BY <2>4, <3>1
    <3> DEFINE j == seq_of(u)
    <3>3. j \in 1 .. n /\ l[j] = u.content /\ j < i
      <4>1. ~(number(v) < number(u)) /\ number(u) # number(v)
        BY <2>5, <3>2
      <4>2. j # i
        BY <2>1, <2>7, <3>2, <4>1 DEF ChainOf, book
      <4>3. ~(i < j)
        BY <2>1, <2>6, <2>7, <4>1
      <4> QED
        BY <1>1, <2>7, <4>2, <4>3
    <3>4. j \in earlier
      BY <1>1, <2>2, <2>8, <3>3, SMTT(30)
    <3>5. \A m \in earlier : m <= j
      <4>1. SUFFICES ASSUME NEW m \in earlier, m > j PROVE FALSE
        BY <1>1, <3>3
      <4>2. PICK w \in book : seq_of(w) = m /\ m < i
        BY <2>3
      <4>3. number(u) < number(w) /\ number(w) < number(v)
        BY <2>1, <2>6, <2>7, <4>1, <4>2
      <4> QED
        BY <2>5, <3>2, <4>3
    <3>6. l[i].voucher_number = l[j].voucher_number + 1
      BY <2>2, <2>5, <3>2, <3>3 DEF number
    <3> QED
      BY <3>4, <3>5, <3>6 DEF Log!NumberFollows
  <2> QED
    BY <2>9, <2>10
<1> QED
  BY <1>1, <1>3 DEF Log!WellNumbered, l, n

\* A voucher on the tip of a chain, with the number after its book's counter, is
\* above everything in its book.
LEMMA OrderExtend ==
  ASSUME NEW V, V \subseteq Voucher, NEW H \in ChainHead, ChainOf(V, H),
         NEW C \in [Journal \X Year -> Nat], NumbersOf(V, C), RisesByNumber(V),
         NEW v \in Voucher,
         seq_of(v) = H.last_seq + 1,
         Book(v) \in Journal \X Year,
         v.content.voucher_number = C[Book(v)] + 1
  PROVE  RisesByNumber(V \cup {v})
<1>1. \A u \in V : seq_of(u) \in 1 .. H.last_seq
  BY DEF ChainOf
<1>2. H.last_seq \in Nat /\ C[Book(v)] \in Nat
  BY DEF ChainHead
<1>3. \A u \in V : Book(u) = Book(v) => number(u) \in 1 .. C[Book(v)]
  BY DEF NumbersOf, number
<1>4. number(v) = C[Book(v)] + 1
  BY DEF number
<1> SUFFICES ASSUME NEW a \in V \cup {v}, NEW b \in V \cup {v},
                    Book(a) = Book(b), seq_of(a) < seq_of(b)
             PROVE  number(a) < number(b)
  BY DEF RisesByNumber
<1>5. CASE a \in V /\ b \in V
  BY <1>5 DEF RisesByNumber
<1>6. CASE a \in V /\ b = v
  BY <1>2, <1>3, <1>4, <1>6
<1>7. CASE a = v
  BY <1>1, <1>2, <1>7
<1> QED
  BY <1>5, <1>6, <1>7

-----------------------------------------------------------------------------
\* The ledger of a company just created is in order.
LEMMA InitOrder == Init => OrderInv
  BY SessionAssumption DEF Init, OrderInv, RisesByNumber

\* A step that gives the head to nobody, and leaves its holder's rows as they are.
LEMMA OrderKept ==
  ASSUME OrderInv, UNCHANGED << voucher, chain_head >>,
         \A t \in Session : head_lock' = t =>
           /\ head_lock = t
           /\ session'[t].rows = session[t].rows
           /\ session'[t].head = session[t].head
           /\ session'[t].pc = "written" => session[t].pc = "written"
  PROVE  OrderInv'
  BY DEF OrderInv, RisesByNumber, Seen, Book, seq_of, number

\* Every step keeps the order; a session alone with the head numbers upwards.
LEMMA NextOrder == PostingInv /\ OrderInv /\ [Next]_vars => OrderInv'
<1> SUFFICES ASSUME PostingInv, OrderInv, [Next]_vars PROVE OrderInv'
  OBVIOUS
<1>a. TypeOK /\ session \in [Session -> SessionState] /\ chain_head \in ChainHead
  BY DEF PostingInv, TypeOK
<1>b. \A s \in Session : session[s].pc \notin {"locked", "written"} =>
                           head_lock # s /\ session[s].rows = {}
  BY DEF PostingInv, HeadExclusive, InTransaction
<1>c. \A s \in Session : session[s].pc \in {"locked", "written"} => head_lock = s
  BY DEF PostingInv, HeadExclusive, InTransaction
<1>d. HolderExtends
  BY DEF PostingInv
<1>1. ASSUME NEW s \in Session, head_lock # s, UNCHANGED << voucher, chain_head, head_lock >>,
             NEW S, session' = [session EXCEPT ![s] = S]
      PROVE  OrderInv'
  <2>1. \A t \in Session : t # s => session'[t] = session[t]
    BY <1>a, <1>1
  <2> QED
    BY <1>1, <2>1, OrderKept
<1>2. ASSUME NEW s \in Session, NEW j \in Journal, NEW d \in Date, BeginPosting(s, j, d)
      PROVE  OrderInv'
  BY <1>1, <1>2, <1>b DEF BeginPosting
<1>3. ASSUME NEW s \in Session, NEW j \in Journal, NEW d \in Date, PostAnother(s, j, d)
      PROVE  OrderInv'
  <2>1. /\ session' = [session EXCEPT ![s] =
                         [session[s] EXCEPT !.pc = "locked", !.journal = j, !.date = d]]
        /\ UNCHANGED << voucher, chain_head, head_lock >>
    BY <1>3 DEF PostAnother
  <2>2. /\ session'[s].rows = session[s].rows
        /\ session'[s].head = session[s].head
        /\ session'[s].pc = "locked"
        /\ \A t \in Session : t # s => session'[t] = session[t]
    BY <1>a, <2>1 DEF SessionState
  <2> QED
    BY <2>1, <2>2, OrderKept
<1>4. ASSUME NEW s \in Session, NEW d \in Date, BeginOpening(s, d)
      PROVE  OrderInv'
  BY <1>1, <1>4, <1>b DEF BeginOpening
<1>5. ASSUME NEW s \in Session, NEW d \in Date, NEW r \in Reopen, CheckLock(s, d, r)
      PROVE  OrderInv'
  BY <1>1, <1>5, <1>b DEF CheckLock
<1>6. ASSUME NEW s \in Session, NEW y \in Year, CheckClosing(s, y)
      PROVE  OrderInv'
  BY <1>1, <1>6, <1>b DEF CheckClosing
<1>7. ASSUME NEW s \in Session, LockHead(s)
      PROVE  OrderInv'
  <2>1. /\ session' = [session EXCEPT ![s] = [session[s] EXCEPT
                         !.pc = "locked", !.head = chain_head, !.counter = voucher_counter]]
        /\ session[s].pc = "queued"
        /\ head_lock' = s
        /\ UNCHANGED << voucher, chain_head >>
    BY <1>7 DEF LockHead
  <2>2. /\ session'[s].rows = {}
        /\ session'[s].head = chain_head
        /\ session'[s].pc = "locked"
    BY <1>a, <1>b, <2>1 DEF SessionState
  <2>3. Seen(s)' = voucher
    BY <2>1, <2>2 DEF Seen
  <2>4. RisesByNumber(voucher) /\ chain_head.last_seq \in Nat
    BY <1>a DEF OrderInv, ChainHead
  <2> QED
    BY <2>1, <2>2, <2>3, <2>4 DEF OrderInv, RisesByNumber, Book, seq_of, number
<1>8. ASSUME NEW s \in Session, WriteVoucher(s)
      PROVE  OrderInv'
  <2> DEFINE v == NextVoucher(s)
             C == [session[s].counter EXCEPT ![Book(v)] = v.content.voucher_number]
             H == [last_seq |-> seq_of(v), last_hash |-> v.hash]
  <2>1. /\ session' = [session EXCEPT ![s] = [session[s] EXCEPT
                         !.pc = "written", !.rows = @ \cup {v}, !.head = H, !.counter = C]]
        /\ session[s].pc = "locked"
        /\ UNCHANGED << voucher, chain_head, head_lock >>
    BY <1>8 DEF WriteVoucher
  <2>2. /\ v \in Voucher
        /\ seq_of(v) = session[s].head.last_seq + 1
        /\ Book(v) \in Journal \X Year
        /\ v.content.voucher_number = session[s].counter[Book(v)] + 1
    BY <1>a, <2>1, NextVoucherType
  <2> HIDE DEF v, C
  <2>3. /\ session'[s].rows = session[s].rows \cup {v}
        /\ session'[s].head.last_seq = session[s].head.last_seq + 1
    BY <1>a, <2>1, <2>2 DEF SessionState
  <2>4. head_lock = s
    BY <1>c, <2>1
  <2>5. /\ Seen(s) \subseteq Voucher
        /\ session[s].head \in ChainHead
        /\ session[s].counter \in [Journal \X Year -> Nat]
    BY <1>a DEF TypeOK, Seen, SessionState
  <2>6. ChainOf(Seen(s), session[s].head) /\ NumbersOf(Seen(s), session[s].counter)
    BY <1>d, <2>4 DEF HolderExtends
  <2>7. RisesByNumber(Seen(s)) /\ session[s].head.last_seq >= chain_head.last_seq
    BY <2>4 DEF OrderInv
  <2>8. RisesByNumber(Seen(s) \cup {v})
    BY <2>2, <2>5, <2>6, <2>7, OrderExtend
  <2>9. Seen(s)' = Seen(s) \cup {v}
    BY <2>1, <2>3 DEF Seen
  <2>10. RisesByNumber(Seen(s))' /\ RisesByNumber(voucher)'
    BY <2>1, <2>8, <2>9 DEF OrderInv, RisesByNumber, Book, seq_of, number
  <2>11. session'[s].head.last_seq > chain_head'.last_seq
    BY <1>a, <2>1, <2>3, <2>5, <2>7 DEF ChainHead
  <2>12. session'[s].head.last_seq >= chain_head'.last_seq
    BY <1>a, <2>1, <2>3, <2>5, <2>7 DEF ChainHead
  <2> QED
    BY <2>1, <2>4, <2>10, <2>11, <2>12 DEF OrderInv
<1>9. ASSUME NEW s \in Session, session[s].pc = "written", Publish(s)
      PROVE  OrderInv'
  <2>1. voucher' = Seen(s) /\ head_lock' = NoSession
    BY <1>9 DEF Publish, Seen
  <2>2. RisesByNumber(Seen(s))
    BY <1>c, <1>9 DEF OrderInv
  <2>3. RisesByNumber(voucher)'
    BY <2>1, <2>2 DEF RisesByNumber, Book, seq_of, number
  <2> QED
    BY <2>1, <2>3, SessionAssumption DEF OrderInv
<1>10. ASSUME NEW s \in Session, Commit(s) \/ CommitClosing(s)
       PROVE  OrderInv'
  BY <1>9, <1>10 DEF Commit, CommitClosing
<1>11. ASSUME NEW s \in Session, Rollback(s)
       PROVE  OrderInv'
  <2>1. /\ session' = [session EXCEPT ![s] = Idle]
        /\ head_lock' = IF head_lock = s THEN NoSession ELSE head_lock
        /\ UNCHANGED << voucher, chain_head >>
    BY <1>11 DEF Rollback
  <2>2. \A t \in Session : t # s => session'[t] = session[t]
    BY <1>a, <2>1
  <2>3. \A t \in Session : head_lock' = t => t # s /\ head_lock = t
    BY <2>1, SessionAssumption
  <2> QED
    BY <2>1, <2>2, <2>3, OrderKept
<1>12. ASSUME NEW s \in Session, BeginClosing(s)
       PROVE  OrderInv'
  <2>1. /\ session' = [session EXCEPT ![s] =
                         [session[s] EXCEPT !.pc = "queued", !.start = clock]]
        /\ session[s].pc = "closing"
        /\ UNCHANGED << voucher, chain_head, head_lock >>
    BY <1>12 DEF BeginClosing
  <2> QED
    BY <1>1, <1>b, <2>1
<1>13. ASSUME NEW s \in Session, InsertLock(s)
       PROVE  OrderInv'
  BY <1>1, <1>13, <1>b DEF InsertLock
<1>14. CASE UNCHANGED vars
  BY <1>14, OrderKept DEF vars
<1> QED
  BY <1>2, <1>3, <1>4, <1>5, <1>6, <1>7, <1>8, <1>10, <1>11, <1>12, <1>13, <1>14
     DEF Next

-----------------------------------------------------------------------------
\* An empty ledger reads as an empty log.
LEMMA InitLog == Init => Log!Init
<1> SUFFICES ASSUME Init PROVE contents = << >>
  BY DEF Log!Init
<1>1. chain_head.last_seq = 0
  BY DEF Init
<1>2. 1 .. 0 = {}
  OBVIOUS
<1> QED
  BY <1>1, <1>2 DEF contents

\* A commit appends: its transaction wrote at least one voucher, all of them above
\* the chain it took over.
LEMMA CommitAppends ==
  ASSUME PostingInv, OrderInv, PostingInv', OrderInv',
         NEW s \in Session, session[s].pc = "written", Publish(s)
  PROVE  Log!Append1OrMore
<1> DEFINE n == chain_head.last_seq
           m == chain_head'.last_seq
           V == voucher
           W == voucher'
           H == chain_head
           G == chain_head'
           D == voucher_counter'
<1>1. V \subseteq Voucher /\ H \in ChainHead /\ ChainOf(V, H)
  BY DEF PostingInv, TypeOK, ChainIntact
<1>2. W \subseteq Voucher /\ G \in ChainHead /\ D \in [Journal \X Year -> Nat]
  BY DEF PostingInv, TypeOK
<1>3. ChainOf(W, G) /\ NumbersOf(W, D) /\ RisesByNumber(W)
  BY DEF PostingInv, ChainIntact, GapFreeNumbers, OrderInv, ChainOf, NumbersOf, RisesByNumber,
         Book, seq_of, number, chain_hash, GENESIS_HASH
<1>4. \A w \in W : Book(w) \in Journal \X Year
  BY <1>2 DEF Voucher, Content, Book
<1>5. head_lock = s
  BY DEF PostingInv, HeadExclusive, InTransaction
<1>6. V \subseteq W /\ m > n
  BY <1>5 DEF Publish, OrderInv
<1>7. contents = Reading(V, n) /\ contents' = Reading(W, m)
  BY DEF contents, RowAt, Reading, seq_of
<1> HIDE DEF V, W, H, G, D
<1>8. /\ Len(contents) = n /\ n \in Nat
      /\ \A v \in V : seq_of(v) \in 1 .. n /\ contents[seq_of(v)] = v.content
      /\ \A i \in 1 .. n : \E v \in V : seq_of(v) = i
  BY <1>1, <1>7, ReadChain DEF ChainHead, H
<1>9. /\ Len(contents') = m /\ m \in Nat
      /\ \A v \in W : seq_of(v) \in 1 .. m /\ contents'[seq_of(v)] = v.content
  BY <1>2, <1>3, <1>7, ReadChain DEF ChainHead, G
<1>10. Log!WellNumbered(contents')
  BY <1>2, <1>3, <1>4, <1>7, ReadInOrder DEF G
<1> HIDE DEF n, m
<1>11. \A i \in 1 .. Len(contents) : contents'[i] = contents[i]
  BY <1>6, <1>8, <1>9
<1>12. Len(contents') > Len(contents)
  BY <1>6, <1>8, <1>9
<1> QED
  BY <1>10, <1>11, <1>12 DEF Log!Append1OrMore

\* Every step of every transaction appends to the log or leaves it as it is.
LEMMA NextLog ==
  ASSUME PostingInv, OrderInv, PostingInv', OrderInv', [Next]_vars
  PROVE  [Log!Append1OrMore]_contents
<1>1. ASSUME UNCHANGED << voucher, chain_head >> PROVE UNCHANGED contents
  BY <1>1 DEF contents, RowAt, seq_of
<1>2. ASSUME NEW s \in Session, Commit(s) \/ CommitClosing(s)
      PROVE  Log!Append1OrMore
  BY <1>2, CommitAppends DEF Commit, CommitClosing
<1>3. CASE \E s \in Session : Commit(s) \/ CommitClosing(s)
  BY <1>2, <1>3
<1>4. CASE ~ \E s \in Session : Commit(s) \/ CommitClosing(s)
  <2>1. UNCHANGED << voucher, chain_head >>
    BY <1>4, ZenonT(60) DEF Next, vars, BeginPosting, PostAnother, BeginOpening, CheckLock, CheckClosing,
       LockHead, WriteVoucher, Rollback, BeginClosing, InsertLock
  <2> QED
    BY <1>1, <2>1
<1> QED
  BY <1>3, <1>4

\* The transactions of post_voucher_in, close_year and post_opening_balance implement
\* the log the readers of table voucher rely on: whatever interleaves, rolls back or
\* crashes, it grows whole transactions at a time, numbered in order, and no entry
\* changes or disappears.
THEOREM ImplementsLog == Spec => AppendOnlyLog
<1>1. Init => PostingInv /\ OrderInv
  BY InitPosting, InitOrder
<1>2. (PostingInv /\ OrderInv) /\ [Next]_vars => (PostingInv /\ OrderInv)'
  BY NextPosting, NextOrder
<1>3. Init => Log!Init
  BY InitLog
<1>4. (PostingInv /\ OrderInv) /\ (PostingInv /\ OrderInv)' /\ [Next]_vars
        => [Log!Append1OrMore]_contents
  BY NextLog
<1> QED
  BY <1>1, <1>2, <1>3, <1>4, PTL DEF Spec, AppendOnlyLog, Log!Spec

-----------------------------------------------------------------------------
(***************************************************************************)
(* Verification of the chain and its anchors.                              *)
(***************************************************************************)
\* The rows have the numbers of the chain from from + 1 to to, each once at most.
Numbered(rows, from, to) ==
    /\ \A u, v \in rows : seq_of(u) = seq_of(v) => u = v
    /\ \A v \in rows : from < seq_of(v) /\ seq_of(v) <= to

-----------------------------------------------------------------------------
(***************************************************************************)
(* The rows of a walk.                                                     *)
(***************************************************************************)
LEMMA SeqType == \A v \in Voucher : seq_of(v) \in Nat \ {0}
  BY DEF seq_of, Voucher, Content

\* Rows numbered within bounds are finitely many.
LEMMA NumberedFinite ==
  ASSUME NEW rows \in SUBSET Voucher, NEW n \in Nat, Numbered(rows, 0, n)
  PROVE  IsFiniteSet(rows)
<1> DEFINE f == [v \in rows |-> seq_of(v)]
<1>1. f \in [rows -> 1 .. n]
  BY SeqType DEF Numbered
<1>2. \A u, v \in rows : f[u] = f[v] => u = v
  BY DEF Numbered
<1>3. f \in Injection(rows, 1 .. n)
  BY <1>1, <1>2 DEF Injection, IsInjective
<1>4. IsFiniteSet(1 .. n)
  BY FS_Interval
<1> QED
  BY <1>3, <1>4, FS_Injection

\* A nonempty finite set of rows has a last one.
LEMMA LastExists ==
  ASSUME NEW rows \in SUBSET Voucher, IsFiniteSet(rows), rows # {}
  PROVE  Last(rows) \in rows /\ \A w \in rows : seq_of(w) <= seq_of(Last(rows))
<1> DEFINE After(v) == {w \in rows : seq_of(v) < seq_of(w)}
           F == {After(v) : v \in rows}
<1>1. PICK A \in F : \A B \in F : B \subseteq A => B = A
  <2>1. F \subseteq SUBSET rows /\ F # {}
    OBVIOUS
  <2> HIDE DEF F
  <2> QED
    BY <2>1, LeastSet
<1>2. PICK v \in rows : A = After(v)
  BY <1>1
<1>3. ASSUME NEW w \in rows, ~ (seq_of(w) <= seq_of(v)) PROVE FALSE
  <2>1. seq_of(v) \in Nat /\ seq_of(w) \in Nat /\ seq_of(v) < seq_of(w)
    BY <1>3, SeqType
  <2>2. \A u \in rows : seq_of(u) \in Nat
    BY SeqType
  <2>3. After(w) \subseteq After(v)
    BY <2>1, <2>2
  <2>4. w \in After(v) /\ w \notin After(w)
    BY <2>1
  <2> QED
    BY <1>1, <1>2, <2>3, <2>4
<1>4. \E u \in rows : \A w \in rows : seq_of(w) <= seq_of(u)
  BY <1>3
<1> QED
  BY <1>4 DEF Last

\* What comes before the row after w is w and what comes before it.
LEMMA BeforeNext ==
  ASSUME NEW rows \in SUBSET Voucher, NEW n \in Nat, Numbered(rows, 0, n),
         NEW v \in rows, Before(rows, v) # {}
  PROVE  LET w == Last(Before(rows, v)) IN
           /\ w \in rows /\ seq_of(w) < seq_of(v)
           /\ Before(rows, v) = Before(rows, w) \cup {w}
           /\ w \notin Before(rows, w)
           /\ IsFiniteSet(Before(rows, w))
<1> DEFINE B == Before(rows, v)
           w == Last(B)
<1>1. IsFiniteSet(rows) /\ B \in SUBSET rows /\ B \in SUBSET Voucher
  BY NumberedFinite DEF Before
<1>2. IsFiniteSet(B)
  BY <1>1, FS_Subset
<1>3. w \in B /\ \A u \in B : seq_of(u) <= seq_of(w)
  BY <1>1, <1>2, LastExists
<1> HIDE DEF w
<1>4. \A u \in rows : seq_of(u) \in Nat
  BY SeqType
<1>5. w \in rows /\ seq_of(w) < seq_of(v)
  BY <1>3 DEF Before
<1>6. Before(rows, w) \subseteq B
  BY <1>4, <1>5 DEF Before
<1>7. ASSUME NEW u \in B PROVE u \in Before(rows, w) \cup {w}
  <2>1. u \in rows /\ seq_of(u) <= seq_of(w)
    BY <1>3, <1>7 DEF Before
  <2>2. CASE seq_of(u) = seq_of(w)
    BY <2>1, <2>2, <1>5 DEF Numbered
  <2>3. CASE seq_of(u) # seq_of(w)
    BY <2>1, <2>3, <1>4, <1>5 DEF Before
  <2> QED
    BY <2>2, <2>3
<1>8. w \notin Before(rows, w)
  BY <1>4, <1>5 DEF Before
<1>9. IsFiniteSet(Before(rows, w))
  BY <1>2, <1>6, FS_Subset
<1> QED
  BY <1>3, <1>5, <1>6, <1>7, <1>8, <1>9 DEF w

\* The row is as it was hashed, and so is every row before it.
HashedAs(rows, v) ==
    /\ v.hash \in Seq(Content)
    /\ Len(v.hash) = Rank(rows, v)
    /\ \A u \in rows : seq_of(u) <= seq_of(v) => v.hash[Rank(rows, u)] = u.content

\* Rows that pass the walk are as they were hashed, every one with all before it: this is
\* what a chain of hashes is for.
LEMMA WalkShowsContents ==
  ASSUME NEW rows \in SUBSET Voucher, NEW n \in Nat, Numbered(rows, 0, n), WalkPasses(rows)
  PROVE  \A v \in rows : HashedAs(rows, v)
<1> SUFFICES ASSUME NEW b \in rows, ~HashedAs(rows, b) PROVE FALSE
  OBVIOUS
<1> DEFINE Bad == {v \in rows : ~HashedAs(rows, v)}
           F == {Before(rows, v) : v \in Bad}
<1>1. IsFiniteSet(rows)
  BY NumberedFinite
<1>2. PICK A \in F : \A B \in F : B \subseteq A => B = A
  <2>1. F \subseteq SUBSET rows /\ F # {}
    BY DEF Before
  <2> HIDE DEF F
  <2> QED
    BY <1>1, <2>1, LeastSet
<1>3. PICK v \in Bad : A = Before(rows, v)
  BY <1>2
<1>4. v \in rows /\ v \in Voucher /\ ~HashedAs(rows, v)
  BY <1>3
<1>5. \A u \in rows : seq_of(u) \in Nat
  BY SeqType
<1>6. v.hash = Append(WalkedTo(rows, v), v.content) /\ v.content \in Content
  BY <1>4 DEF WalkPasses, chain_hash, Voucher
<1>7. \A u \in rows : seq_of(u) <= seq_of(v) => u = v \/ u \in Before(rows, v)
  BY <1>4, <1>5 DEF Numbered, Before
<1>8. CASE Before(rows, v) = {}
  <2>1. v.hash = Append(<< >>, v.content)
    BY <1>6, <1>8 DEF WalkedTo, GENESIS_HASH
  <2>2. Rank(rows, v) = 1
    BY <1>8, FS_EmptySet DEF Rank
  <2>3. v.hash \in Seq(Content) /\ Len(v.hash) = 1 /\ v.hash[1] = v.content
    BY <1>6, <2>1
  <2> QED
    BY <1>4, <1>7, <1>8, <2>2, <2>3 DEF HashedAs
<1>9. CASE Before(rows, v) # {}
  <2> DEFINE w == Last(Before(rows, v))
  <2>1. /\ w \in rows /\ seq_of(w) < seq_of(v)
        /\ Before(rows, v) = Before(rows, w) \cup {w}
        /\ w \notin Before(rows, w)
        /\ IsFiniteSet(Before(rows, w))
    BY <1>4, <1>9, BeforeNext
  <2>2. WalkedTo(rows, v) = w.hash
    BY <1>9 DEF WalkedTo
  <2> HIDE DEF w
  <2>3. HashedAs(rows, w)
    BY <1>2, <1>3, <2>1
  <2>4. Rank(rows, w) \in Nat \ {0} /\ Rank(rows, v) = Rank(rows, w) + 1
    <3>1. Cardinality(Before(rows, w)) \in Nat
      BY <2>1, FS_CardinalityType
    <3>2. Cardinality(Before(rows, v)) = Cardinality(Before(rows, w)) + 1
      BY <2>1, FS_AddElement
    <3> QED
      BY <3>1, <3>2 DEF Rank
  <2>5. w.hash \in Seq(Content) /\ Len(w.hash) = Rank(rows, w)
    BY <2>3 DEF HashedAs
  <2>6. /\ v.hash \in Seq(Content) /\ Len(v.hash) = Rank(rows, v)
        /\ v.hash[Rank(rows, v)] = v.content
        /\ \A i \in 1 .. Rank(rows, w) : v.hash[i] = w.hash[i]
    BY <1>6, <2>2, <2>4, <2>5
  <2>7. ASSUME NEW u \in rows, u \in Before(rows, v) PROVE v.hash[Rank(rows, u)] = u.content
    <3>1. seq_of(u) <= seq_of(w)
      BY <1>5, <2>1, <2>7 DEF Before
    <3>2. w.hash[Rank(rows, u)] = u.content
      BY <2>3, <3>1 DEF HashedAs
    <3>3. Before(rows, u) \subseteq Before(rows, w)
      BY <1>5, <2>1, <3>1 DEF Before
    <3>4. /\ IsFiniteSet(Before(rows, u)) /\ Cardinality(Before(rows, u)) \in Nat
          /\ Cardinality(Before(rows, u)) <= Cardinality(Before(rows, w))
          /\ Cardinality(Before(rows, w)) \in Nat
      BY <2>1, <3>3, FS_Subset, FS_CardinalityType
    <3>5. Rank(rows, u) \in 1 .. Rank(rows, w)
      BY <3>4 DEF Rank
    <3> QED
      BY <2>6, <3>2, <3>5
  <2> QED
    BY <1>4, <1>7, <2>6, <2>7 DEF HashedAs
<1> QED
  BY <1>8, <1>9

-----------------------------------------------------------------------------
(***************************************************************************)
(* What holds of the rows whoever changed them: numbers are not used twice *)
(* and the head is ahead of them all.                                      *)
(***************************************************************************)
Ordered ==
    /\ Numbered(voucher, 0, chain_head.last_seq)
    /\ \A s \in Session : head_lock = s =>
         /\ chain_head.last_seq <= session[s].head.last_seq
         /\ Numbered(session[s].rows, chain_head.last_seq, session[s].head.last_seq)

\* What a step of the application does to the committed rows.
Grows ==
    /\ chain_head.last_seq <= chain_head'.last_seq
    /\ voucher \subseteq voucher'
    /\ \A v \in voucher' \ voucher : chain_head.last_seq < seq_of(v)

\* Rows of one stretch of the chain and of the next are rows of both.
LEMMA Joined ==
  ASSUME NEW A \in SUBSET Voucher, NEW B \in SUBSET Voucher,
         NEW a \in Nat, NEW b \in Nat, NEW c \in Nat, a <= b, b <= c,
         Numbered(A, a, b), Numbered(B, b, c)
  PROVE  Numbered(A \cup B, a, c)
<1>1. \A v \in A \cup B : seq_of(v) \in Nat
  BY SeqType
<1>2. ASSUME NEW u \in A, NEW v \in B, seq_of(u) = seq_of(v) PROVE FALSE
  BY <1>1, <1>2 DEF Numbered
<1>3. \A v \in A \cup B : a < seq_of(v) /\ seq_of(v) <= c
  BY <1>1 DEF Numbered
<1> QED
  BY <1>2, <1>3 DEF Numbered

LEMMA InitOrdered == Init => HeadExclusive /\ Ordered
<1> SUFFICES ASSUME Init PROVE HeadExclusive /\ Ordered
  OBVIOUS
<1> QED
  BY SessionAssumption
  DEF Init, Idle, HeadExclusive, InTransaction, Ordered, Numbered

\* Every step of the application keeps that order, also on rows that have been changed.
LEMMA NextOrdered ==
  ASSUME TypeOK, HeadExclusive, Ordered, [Next]_vars
  PROVE  HeadExclusive' /\ Ordered' /\ Grows
<1>t. /\ voucher \in SUBSET Voucher /\ chain_head.last_seq \in Nat
      /\ \A s \in Session : /\ session[s].head.last_seq \in Nat
                            /\ session[s].rows \in SUBSET Voucher
  BY DEF TypeOK, ChainHead, SessionState
<1>i. Idle.pc = "idle" /\ Idle.rows = {}
  BY DEF Idle
\* A session that does not hold the head and does not take it.
<1>1. ASSUME NEW s \in Session, NEW S, session[s].pc \notin {"locked", "written"},
             session' = [session EXCEPT ![s] = S], S.pc \notin {"locked", "written"}, S.rows = {},
             UNCHANGED << voucher, chain_head, head_lock >>
      PROVE  HeadExclusive' /\ Ordered' /\ Grows
  <2>1. session'[s] = S /\ \A t \in Session : t # s => session'[t] = session[t]
    BY <1>1 DEF TypeOK
  <2>2. head_lock # s
    BY <1>1 DEF HeadExclusive, InTransaction
  <2>3. HeadExclusive'
    BY <1>1, <2>1, <2>2 DEF HeadExclusive, InTransaction
  <2>4. Ordered'
    BY <1>1, <2>1, <2>2 DEF Ordered, Numbered
  <2> QED
    BY <1>1, <1>t, <2>3, <2>4 DEF Grows
<1>2. ASSUME NEW s \in Session, NEW j \in Journal, NEW d \in Date, BeginPosting(s, j, d)
      PROVE  HeadExclusive' /\ Ordered' /\ Grows
  <2> DEFINE S == [Idle EXCEPT !.pc = "queued", !.journal = j, !.date = d]
  <2>1. S.pc = "queued" /\ S.rows = {}
    BY DEF Idle
  <2>2. /\ session' = [session EXCEPT ![s] = S] /\ session[s].pc = "idle"
        /\ UNCHANGED << voucher, chain_head, head_lock >>
    BY <1>2 DEF BeginPosting
  <2> HIDE DEF S
  <2> QED
    BY <1>1, <2>1, <2>2
<1>3. ASSUME NEW s \in Session, NEW d \in Date, BeginOpening(s, d)
      PROVE  HeadExclusive' /\ Ordered' /\ Grows
  <2> DEFINE S == [Idle EXCEPT !.pc = "queued", !.kind = "opening", !.date = d]
  <2>1. S.pc = "queued" /\ S.rows = {}
    BY DEF Idle
  <2>2. /\ session' = [session EXCEPT ![s] = S] /\ session[s].pc = "idle"
        /\ UNCHANGED << voucher, chain_head, head_lock >>
    BY <1>3 DEF BeginOpening
  <2> HIDE DEF S
  <2> QED
    BY <1>1, <2>1, <2>2
<1>4. ASSUME NEW s \in Session, NEW d \in Date, NEW r \in Reopen, CheckLock(s, d, r)
      PROVE  HeadExclusive' /\ Ordered' /\ Grows
  <2> DEFINE S == [Idle EXCEPT !.pc = "locking", !.date = d]
  <2>1. S.pc = "locking" /\ S.rows = {}
    BY DEF Idle
  <2>2. /\ session' = [session EXCEPT ![s] = S] /\ session[s].pc = "idle"
        /\ UNCHANGED << voucher, chain_head, head_lock >>
    BY <1>4 DEF CheckLock
  <2> HIDE DEF S
  <2> QED
    BY <1>1, <2>1, <2>2
<1>5. ASSUME NEW s \in Session, NEW y \in Year, CheckClosing(s, y)
      PROVE  HeadExclusive' /\ Ordered' /\ Grows
  <2> DEFINE S == [Idle EXCEPT !.pc = "closing", !.kind = "closing",
                               !.date = end_of_year(y), !.counted = InResult(y)]
  <2>1. S.pc = "closing" /\ S.rows = {}
    BY DEF Idle
  <2>2. /\ session' = [session EXCEPT ![s] = S] /\ session[s].pc = "idle"
        /\ UNCHANGED << voucher, chain_head, head_lock >>
    BY <1>5 DEF CheckClosing
  <2> HIDE DEF S
  <2> QED
    BY <1>1, <2>1, <2>2
<1>6. ASSUME NEW s \in Session, BeginClosing(s)
      PROVE  HeadExclusive' /\ Ordered' /\ Grows
  <2> DEFINE S == [session[s] EXCEPT !.pc = "queued", !.start = clock]
  <2>1. /\ session' = [session EXCEPT ![s] = S] /\ session[s].pc = "closing"
        /\ UNCHANGED << voucher, chain_head, head_lock >>
    BY <1>6 DEF BeginClosing
  <2>2. S.pc = "queued" /\ S.rows = {}
    BY <2>1 DEF TypeOK, SessionState, HeadExclusive, InTransaction
  <2> HIDE DEF S
  <2> QED
    BY <1>1, <2>1, <2>2
<1>7. ASSUME NEW s \in Session, InsertLock(s)
      PROVE  HeadExclusive' /\ Ordered' /\ Grows
  BY <1>1, <1>7, <1>i DEF InsertLock
<1>8. ASSUME NEW s \in Session, NEW j \in Journal, NEW d \in Date, PostAnother(s, j, d)
      PROVE  HeadExclusive' /\ Ordered' /\ Grows
  <2>1. /\ session'[s].rows = session[s].rows /\ session'[s].head = session[s].head
        /\ session[s].pc = "written" /\ session'[s].pc = "locked"
        /\ \A t \in Session : t # s => session'[t] = session[t]
        /\ UNCHANGED << voucher, chain_head, head_lock >>
    BY <1>8 DEF PostAnother, TypeOK, SessionState
  <2>2. HeadExclusive'
    BY <2>1 DEF HeadExclusive, InTransaction
  <2>3. Ordered'
    BY <2>1 DEF Ordered, Numbered
  <2> QED
    BY <1>t, <2>1, <2>2, <2>3 DEF Grows
<1>9. ASSUME NEW s \in Session, LockHead(s)
      PROVE  HeadExclusive' /\ Ordered' /\ Grows
  <2>1. /\ session'[s].rows = session[s].rows /\ session'[s].head = chain_head
        /\ session[s].pc = "queued" /\ session'[s].pc = "locked"
        /\ \A t \in Session : t # s => session'[t] = session[t]
        /\ head_lock = NoSession /\ head_lock' = s
        /\ UNCHANGED << voucher, chain_head >>
    BY <1>9 DEF LockHead, TypeOK, SessionState
  <2>2. \A t \in Session : head_lock # t /\ session[t].rows = {}
    BY <2>1, SessionAssumption DEF HeadExclusive
  <2>3. HeadExclusive'
    BY <2>1, <2>2 DEF HeadExclusive, InTransaction
  <2>4. Ordered'
    BY <1>t, <2>1, <2>2 DEF Ordered, Numbered
  <2> QED
    BY <1>t, <2>1, <2>3, <2>4 DEF Grows
<1>10. ASSUME NEW s \in Session, WriteVoucher(s)
       PROVE  HeadExclusive' /\ Ordered' /\ Grows
  <2> DEFINE v == NextVoucher(s)
  <2>1. session[s].pc = "locked" /\ v \in Voucher /\ seq_of(v) = session[s].head.last_seq + 1
    BY <1>10, NextVoucherType DEF WriteVoucher
  <2>2. /\ session'[s].rows = session[s].rows \cup {v}
        /\ session'[s].head.last_seq = seq_of(v)
        /\ session'[s].pc = "written"
        /\ \A t \in Session : t # s => session'[t] = session[t]
        /\ UNCHANGED << voucher, chain_head, head_lock >>
    <3> HIDE DEF v
    <3> QED
      BY <1>10 DEF WriteVoucher, TypeOK, SessionState, v
  <2> HIDE DEF v
  <2>3. head_lock = s
    BY <2>1 DEF HeadExclusive, InTransaction
  <2>4. Numbered({v}, session[s].head.last_seq, seq_of(v))
    BY <1>t, <2>1 DEF Numbered
  <2>5. /\ chain_head.last_seq <= session[s].head.last_seq
        /\ Numbered(session[s].rows, chain_head.last_seq, session[s].head.last_seq)
    BY <2>3 DEF Ordered
  <2>6. Numbered(session[s].rows \cup {v}, chain_head.last_seq, seq_of(v))
    <3>1. session[s].head.last_seq <= seq_of(v) /\ seq_of(v) \in Nat /\ {v} \in SUBSET Voucher
      BY <1>t, <2>1
    <3> QED
      BY <1>t, <2>4, <2>5, <3>1, Joined
  <2>7. HeadExclusive'
    BY <2>1, <2>2, <2>3 DEF HeadExclusive, InTransaction
  <2>8. Ordered'
    <3>1. chain_head.last_seq <= seq_of(v)
      BY <1>t, <2>1, <2>5
    <3> QED
      BY <2>2, <2>3, <2>6, <3>1 DEF Ordered
  <2> QED
    BY <1>t, <2>2, <2>7, <2>8 DEF Grows
<1>11. ASSUME NEW s \in Session, session[s].pc = "written", Publish(s)
       PROVE  HeadExclusive' /\ Ordered' /\ Grows
  <2>1. /\ voucher' = voucher \cup session[s].rows
        /\ chain_head' = session[s].head
        /\ head_lock' = NoSession
        /\ session'[s] = Idle /\ \A t \in Session : t # s => session'[t] = session[t]
    BY <1>11 DEF Publish, TypeOK
  <2>2. head_lock = s
    BY <1>11 DEF HeadExclusive, InTransaction
  <2>3. /\ chain_head.last_seq <= session[s].head.last_seq
        /\ Numbered(session[s].rows, chain_head.last_seq, session[s].head.last_seq)
    BY <2>2 DEF Ordered
  <2>4. Numbered(voucher', 0, chain_head'.last_seq)
    <3>1. Numbered(voucher, 0, chain_head.last_seq)
      BY DEF Ordered
    <3>2. 0 \in Nat /\ 0 <= chain_head.last_seq
      BY <1>t
    <3> QED
      BY <1>t, <2>1, <2>3, <3>1, <3>2, Joined
  <2>5. HeadExclusive'
    BY <1>i, <2>1, <2>2, SessionAssumption DEF HeadExclusive, InTransaction
  <2>6. Ordered'
    BY <2>1, <2>4, SessionAssumption DEF Ordered
  <2>7. Grows
    BY <2>1, <2>3 DEF Grows, Numbered
  <2> QED
    BY <2>5, <2>6, <2>7
<1>12. ASSUME NEW s \in Session, Commit(s) \/ CommitClosing(s)
       PROVE  HeadExclusive' /\ Ordered' /\ Grows
  BY <1>11, <1>12 DEF Commit, CommitClosing
<1>13. ASSUME NEW s \in Session, Rollback(s)
       PROVE  HeadExclusive' /\ Ordered' /\ Grows
  <2>1. /\ head_lock' = IF head_lock = s THEN NoSession ELSE head_lock
        /\ session'[s] = Idle /\ \A t \in Session : t # s => session'[t] = session[t]
        /\ UNCHANGED << voucher, chain_head >>
    BY <1>13 DEF Rollback, TypeOK
  <2>2. HeadExclusive'
    BY <1>i, <2>1, SessionAssumption DEF HeadExclusive, InTransaction
  <2>3. Ordered'
    BY <2>1, SessionAssumption DEF Ordered, Numbered
  <2> QED
    BY <1>t, <2>1, <2>2, <2>3 DEF Grows
<1>14. CASE UNCHANGED vars
  <2>1. HeadExclusive' /\ Ordered'
    BY <1>14 DEF vars, HeadExclusive, InTransaction, Ordered, Numbered
  <2> QED
    BY <1>t, <1>14, <2>1 DEF vars, Grows
<1> QED
  BY <1>2, <1>3, <1>4, <1>5, <1>6, <1>7, <1>8, <1>9, <1>10, <1>12, <1>13, <1>14 DEF Next

-----------------------------------------------------------------------------
(***************************************************************************)
(* An honest chain passes the walk, with as many rows as the head says.    *)
(***************************************************************************)
LEMMA ChainWalks ==
  ASSUME NEW rows \in SUBSET Voucher, NEW H \in ChainHead, ChainOf(rows, H)
  PROVE  /\ WalkPasses(rows)
         /\ Cardinality(rows) = H.last_seq
         /\ IF rows = {} THEN H.last_hash = GENESIS_HASH ELSE Last(rows).hash = H.last_hash
<1> DEFINE n == H.last_seq
<1>1. n \in Nat /\ \A v \in rows : seq_of(v) \in Nat \ {0}
  BY SeqType DEF ChainHead
<1>2. {seq_of(v) : v \in rows} = 1 .. n
  BY DEF ChainOf
<1>3. /\ \A v \in rows : seq_of(v) \in 1 .. n
      /\ \A i \in 1 .. n : \E v \in rows : seq_of(v) = i
      /\ \A u, v \in rows : seq_of(u) = seq_of(v) => u = v
  BY <1>2 DEF ChainOf
<1>4. Numbered(rows, 0, n) /\ IsFiniteSet(rows)
  <2>1. Numbered(rows, 0, n)
    BY <1>1, <1>3 DEF Numbered
  <2> QED
    BY <1>1, <2>1, NumberedFinite
<1> HIDE DEF n
<1>5. Cardinality(rows) = n
  <2> DEFINE g == [i \in 1 .. n |-> CHOOSE v \in rows : seq_of(v) = i]
  <2>1. \A i \in 1 .. n : g[i] \in rows /\ seq_of(g[i]) = i
    BY <1>3
  <2>2. g \in [1 .. n -> rows]
    BY <2>1
  <2>3. \A v \in rows : \E i \in 1 .. n : g[i] = v
    BY <1>3, <2>1
  <2>4. \A i, j \in 1 .. n : g[i] = g[j] => i = j
    BY <2>1
  <2> HIDE DEF g
  <2>5. g \in Bijection(1 .. n, rows)
    BY <2>2, <2>3, <2>4 DEF Bijection, Injection, IsInjective, Surjection
  <2>6. ExistsBijection(1 .. n, rows)
    BY <2>5 DEF ExistsBijection
  <2>7. IsFiniteSet(1 .. n) /\ Cardinality(1 .. n) = n
    BY <1>1, FS_Interval
  <2> QED
    BY <2>6, <2>7, FS_Bijection
<1>6. ASSUME NEW v \in rows
      PROVE  v.prev_hash = WalkedTo(rows, v) /\ v.hash = chain_hash(WalkedTo(rows, v), v.content)
  <2>1. v.hash = chain_hash(v.prev_hash, v.content)
    BY DEF ChainOf
  <2>2. CASE seq_of(v) = 1
    <3>1. Before(rows, v) = {}
      BY <1>1, <2>2 DEF Before
    <3>2. v.prev_hash = GENESIS_HASH
      BY <2>2 DEF ChainOf
    <3> QED
      BY <2>1, <3>1, <3>2 DEF WalkedTo
  <2>3. CASE seq_of(v) # 1
    <3>1. PICK u \in rows : seq_of(u) = seq_of(v) - 1
      BY <1>1, <1>3, <2>3
    <3>2. u \in Before(rows, v) /\ seq_of(v) = seq_of(u) + 1
      BY <1>1, <3>1 DEF Before
    <3>3. v.prev_hash = u.hash
      BY <3>2, <3>1 DEF ChainOf
    <3> DEFINE w == Last(Before(rows, v))
    <3>4. w \in Before(rows, v) /\ seq_of(u) <= seq_of(w)
      <4>1. Before(rows, v) \in SUBSET rows /\ Before(rows, v) \in SUBSET Voucher
        BY DEF Before
      <4>2. IsFiniteSet(Before(rows, v))
        BY <1>4, <4>1, FS_Subset
      <4> QED
        BY <3>2, <4>1, <4>2, LastExists
    <3>5. WalkedTo(rows, v) = w.hash
      BY <3>2 DEF WalkedTo
    <3> HIDE DEF w
    <3>6. w = u
      <4>1. w \in rows /\ seq_of(w) < seq_of(v)
        BY <3>4 DEF Before
      <4>2. seq_of(w) = seq_of(u)
        BY <1>1, <3>1, <3>4, <4>1
      <4> QED
        BY <1>3, <4>1, <4>2
    <3> QED
      BY <2>1, <3>3, <3>5, <3>6
  <2> QED
    BY <2>2, <2>3
<1>7. CASE rows = {}
  <2>1. n = 0
    BY <1>5, <1>7, FS_EmptySet
  <2>2. H.last_hash = GENESIS_HASH
    BY <2>1 DEF ChainOf, n
  <2> QED
    BY <1>5, <1>6, <1>7, <2>2 DEF WalkPasses, n
<1>8. CASE rows # {}
  <2>1. Last(rows) \in rows /\ \A w \in rows : seq_of(w) <= seq_of(Last(rows))
    BY <1>4, <1>8, LastExists
  <2>2. n \in 1 .. n
    BY <1>1, <1>3, <1>8
  <2>3. seq_of(Last(rows)) = n
    BY <1>1, <1>3, <2>1, <2>2
  <2>4. Last(rows).hash = H.last_hash
    BY <2>1, <2>3 DEF ChainOf, n
  <2> QED
    BY <1>5, <1>6, <1>8, <2>4 DEF WalkPasses, n
<1> QED
  BY <1>7, <1>8

-----------------------------------------------------------------------------
(***************************************************************************)
(* The invariant.  Walked holds whoever writes; Honest while only the      *)
(* application does: the walk has read a beginning of the chain, and was   *)
(* overtaken if it calls it broken.                                        *)
(***************************************************************************)
Walked ==
    /\ audit \in [verdict : {"none", "walking", "ok", "broken"}, rows : SUBSET Voucher]
    /\ Numbered(audit.rows, 0, chain_head.last_seq)
    /\ audit.verdict \in {"walking", "ok"} => WalkPasses(audit.rows)

ReadBeginning ==
    /\ Cardinality(audit.rows) <= chain_head.last_seq
    /\ audit.rows = {v \in voucher : seq_of(v) <= Cardinality(audit.rows)}

Honest ==
    /\ PostingInv
    /\ \A leaf \in anchor_leaf : AnchorMatches(leaf)
    /\ audit.verdict # "none" => ReadBeginning
    /\ audit.verdict = "broken" => chain_head.last_seq > Cardinality(audit.rows)

AuditInv ==
    /\ TypeOK /\ HeadExclusive /\ Ordered /\ Walked
    /\ tampered \in BOOLEAN
    /\ ~tampered => Honest

LEMMA InitAuditInv == InitAudit => AuditInv
<1> SUFFICES ASSUME InitAudit PROVE AuditInv
  OBVIOUS
<1>1. PostingInv /\ TypeOK /\ HeadExclusive /\ Ordered
  BY InitPosting, InitOrdered DEF InitAudit, PostingInv
<1>2. Walked /\ Honest
  BY <1>1 DEF InitAudit, Walked, Honest, Numbered
<1> QED
  BY <1>1, <1>2 DEF AuditInv, InitAudit

\* A step of the application.
LEMMA ApplicationKeeps ==
  ASSUME AuditInv, [Next]_vars, UNCHANGED << anchor_leaf, audit, tampered >>
  PROVE  AuditInv'
<1>1. TypeOK' /\ HeadExclusive' /\ Ordered' /\ Grows
  BY NextType, NextOrdered DEF AuditInv
<1>2. /\ chain_head.last_seq \in Nat /\ chain_head'.last_seq \in Nat
      /\ voucher' \subseteq Voucher /\ audit.rows \in SUBSET Voucher
  BY <1>1 DEF AuditInv, TypeOK, ChainHead, Walked
<1>3. \A v \in Voucher : seq_of(v) \in Nat
  BY SeqType
<1>4. Walked'
  <2>1. Numbered(audit.rows, 0, chain_head'.last_seq)
    BY <1>1, <1>2, <1>3 DEF AuditInv, Walked, Numbered, Grows
  <2> QED
    BY <2>1 DEF AuditInv, Walked
<1>5. ASSUME ~tampered PROVE Honest'
  <2>1. Honest
    BY <1>5 DEF AuditInv
  <2>2. PostingInv'
    BY <2>1, NextPosting DEF Honest
  <2>3. \A leaf \in anchor_leaf' : AnchorMatches(leaf)'
    BY <1>1, <2>1 DEF Honest, AnchorMatches, Grows
  <2>4. Cardinality(audit.rows) \in Nat
    BY <1>2, NumberedFinite, FS_CardinalityType DEF AuditInv, Walked
  <2>5. audit'.verdict # "none" => ReadBeginning'
    BY <1>1, <1>2, <1>3, <2>1, <2>4 DEF Honest, ReadBeginning, Grows
  <2>6. audit'.verdict = "broken" => chain_head'.last_seq > Cardinality(audit'.rows)
    BY <1>1, <1>2, <2>1, <2>4 DEF Honest, Grows
  <2> QED
    BY <2>2, <2>3, <2>5, <2>6 DEF Honest
<1> QED
  BY <1>1, <1>4, <1>5 DEF AuditInv

\* Steps that write neither rows nor head.
LEMMA LedgerStays ==
  ASSUME AuditInv, UNCHANGED vars
  PROVE  TypeOK' /\ HeadExclusive' /\ Ordered' /\ (PostingInv => PostingInv')
<1>1. [Next]_vars
  OBVIOUS
<1> QED
  BY <1>1, NextType, NextOrdered, NextPosting DEF AuditInv

LEMMA SnapshotKeeps == ASSUME AuditInv, AnchorSnapshot PROVE AuditInv'
<1>1. UNCHANGED << vars, audit, tampered >> /\ anchor_leaf' = anchor_leaf \cup {chain_head}
  BY DEF AnchorSnapshot, ledgerVars
<1>2. TypeOK' /\ HeadExclusive' /\ Ordered' /\ (PostingInv => PostingInv')
  BY <1>1, LedgerStays
<1>3. voucher' = voucher /\ chain_head' = chain_head
  BY <1>1 DEF vars
<1>4. Walked'
  BY <1>1, <1>3 DEF AuditInv, Walked
<1>5. ASSUME ~tampered PROVE Honest'
  <2>1. Honest /\ ChainOf(voucher, chain_head)
    BY <1>5 DEF AuditInv, Honest, PostingInv, ChainIntact
  <2>2. AnchorMatches(chain_head)
    <3>1. chain_head.last_seq \in 1 .. chain_head.last_seq
      BY DEF AnchorSnapshot, AuditInv, TypeOK, ChainHead
    <3>2. PICK v \in voucher : seq_of(v) = chain_head.last_seq
      BY <2>1, <3>1 DEF ChainOf
    <3> QED
      BY <2>1, <3>2 DEF ChainOf, AnchorMatches
  <2>3. \A leaf \in anchor_leaf' : AnchorMatches(leaf)'
    BY <1>1, <1>3, <2>1, <2>2 DEF Honest, AnchorMatches
  <2> QED
    BY <1>1, <1>2, <1>3, <2>1, <2>3 DEF Honest, ReadBeginning
<1> QED
  BY <1>1, <1>2, <1>4, <1>5 DEF AuditInv

LEMMA WalkKeeps == ASSUME AuditInv, VerifyWalk PROVE AuditInv'
<1>1. /\ UNCHANGED << vars, anchor_leaf, tampered >>
      /\ audit' = [verdict |-> IF WalkPasses(voucher) THEN "walking" ELSE "broken", rows |-> voucher]
  BY DEF VerifyWalk, ledgerVars
<1>2. TypeOK' /\ HeadExclusive' /\ Ordered' /\ (PostingInv => PostingInv')
  BY <1>1, LedgerStays
<1>3. voucher' = voucher /\ chain_head' = chain_head
  BY <1>1 DEF vars
<1>4. /\ audit'.rows = voucher
      /\ audit'.verdict = IF WalkPasses(voucher) THEN "walking" ELSE "broken"
  BY <1>1
<1>5. Walked'
  <2>1. audit' \in [verdict : {"none", "walking", "ok", "broken"}, rows : SUBSET Voucher]
    BY <1>1 DEF AuditInv, TypeOK
  <2>2. Numbered(audit'.rows, 0, chain_head'.last_seq)
    BY <1>3, <1>4 DEF AuditInv, Ordered
  <2> QED
    BY <1>4, <2>1, <2>2 DEF Walked
<1>6. ASSUME ~tampered PROVE Honest'
  <2>1. Honest /\ ChainOf(voucher, chain_head)
    BY <1>6 DEF AuditInv, Honest, PostingInv, ChainIntact
  <2>2. voucher \in SUBSET Voucher /\ chain_head \in ChainHead
    BY DEF AuditInv, TypeOK
  <2>3. WalkPasses(voucher) /\ Cardinality(voucher) = chain_head.last_seq
    BY <2>1, <2>2, ChainWalks
  <2>4. \A v \in voucher : seq_of(v) <= chain_head.last_seq
    BY DEF AuditInv, Ordered, Numbered
  <2>5. chain_head.last_seq \in Nat
    BY <2>2 DEF ChainHead
  <2>6. ReadBeginning'
    BY <1>3, <1>4, <2>3, <2>4, <2>5 DEF ReadBeginning
  <2>7. audit'.verdict = "walking"
    BY <1>4, <2>3
  <2>8. \A leaf \in anchor_leaf' : AnchorMatches(leaf)'
    BY <1>1, <1>3, <2>1 DEF Honest, AnchorMatches
  <2> QED
    BY <1>2, <2>1, <2>6, <2>7, <2>8 DEF Honest
<1> QED
  BY <1>1, <1>2, <1>5, <1>6 DEF AuditInv

LEMMA HeadKeeps == ASSUME AuditInv, VerifyHead PROVE AuditInv'
<1>1. /\ UNCHANGED << vars, anchor_leaf, tampered >>
      /\ audit.verdict = "walking"
      /\ audit' = [audit EXCEPT !.verdict = IF HeadMatches(audit.rows) THEN "ok" ELSE "broken"]
  BY DEF VerifyHead, ledgerVars
<1>2. TypeOK' /\ HeadExclusive' /\ Ordered' /\ (PostingInv => PostingInv')
  BY <1>1, LedgerStays
<1>3. voucher' = voucher /\ chain_head' = chain_head
  BY <1>1 DEF vars
<1>4. /\ audit'.rows = audit.rows /\ WalkPasses(audit.rows)
      /\ audit'.verdict = IF HeadMatches(audit.rows) THEN "ok" ELSE "broken"
      /\ audit' \in [verdict : {"none", "walking", "ok", "broken"}, rows : SUBSET Voucher]
  BY <1>1 DEF AuditInv, Walked
<1>5. Walked'
  BY <1>3, <1>4 DEF AuditInv, Walked
<1>6. ASSUME ~tampered PROVE Honest'
  <2>1. Honest /\ ReadBeginning /\ ChainOf(voucher, chain_head)
    BY <1>1, <1>6 DEF AuditInv, Honest, PostingInv, ChainIntact
  <2>2. voucher \in SUBSET Voucher /\ chain_head \in ChainHead /\ chain_head.last_seq \in Nat
    BY DEF AuditInv, TypeOK, ChainHead
  <2>3. Cardinality(audit.rows) \in Nat
    BY <2>2, NumberedFinite, FS_CardinalityType DEF AuditInv, Walked
  <2>4. ASSUME ~ (chain_head.last_seq > Cardinality(audit.rows)) PROVE HeadMatches(audit.rows)
    <3>1. chain_head.last_seq = Cardinality(audit.rows)
      BY <2>1, <2>2, <2>3, <2>4 DEF ReadBeginning
    <3>2. \A v \in voucher : seq_of(v) <= chain_head.last_seq
      BY DEF AuditInv, Ordered, Numbered
    <3>3. audit.rows = voucher
      BY <2>1, <3>1, <3>2 DEF ReadBeginning
    <3>4. IF voucher = {} THEN chain_head.last_hash = GENESIS_HASH
                          ELSE Last(voucher).hash = chain_head.last_hash
      BY <2>1, <2>2, ChainWalks
    <3> QED
      BY <3>1, <3>3, <3>4 DEF HeadMatches
  <2>5. \A leaf \in anchor_leaf' : AnchorMatches(leaf)'
    BY <1>1, <1>3, <2>1 DEF Honest, AnchorMatches
  <2>6. ReadBeginning'
    BY <1>3, <1>4, <2>1 DEF ReadBeginning
  <2>7. audit'.verdict = "broken" => chain_head'.last_seq > Cardinality(audit'.rows)
    BY <1>3, <1>4, <2>4
  <2> QED
    BY <1>2, <2>1, <2>5, <2>6, <2>7 DEF Honest
<1> QED
  BY <1>1, <1>2, <1>5, <1>6 DEF AuditInv

-----------------------------------------------------------------------------
(***************************************************************************)
(* Changes from outside leave rows that are numbered as before.            *)
(***************************************************************************)
LEMMA DatedType ==
  ASSUME NEW v \in Voucher, NEW d \in Date
  PROVE  Dated(v, d) \in Content /\ Dated(v, d).chain_seq = seq_of(v)
  BY DEF Voucher, Content, Dated, seq_of

LEMMA EditKeeps == ASSUME AuditInv, EditRow PROVE AuditInv'
<1>1. /\ UNCHANGED << chain_head, voucher_counter, period_lock, arsavslutning,
                      head_lock, clock, session, anchor_leaf, audit >>
      /\ tampered' = TRUE
  BY DEF EditRow
<1>2. PICK v \in voucher, d \in Date :
         \/ voucher' = voucher \ {v}
         \/ voucher' = (voucher \ {v}) \cup {[v EXCEPT !.content = Dated(v, d)]}
  BY DEF EditRow
<1> DEFINE w == [v EXCEPT !.content = Dated(v, d)]
<1>3. v \in Voucher /\ voucher \in SUBSET Voucher
  BY DEF AuditInv, TypeOK
<1>4. w \in Voucher /\ seq_of(w) = seq_of(v)
  BY <1>3, DatedType DEF Voucher, seq_of
<1> HIDE DEF w
<1>5. voucher' \subseteq (voucher \ {v}) \cup {w}
  BY <1>2 DEF w
<1>6. TypeOK'
  BY <1>1, <1>3, <1>4, <1>5 DEF AuditInv, TypeOK
<1>7. HeadExclusive'
  BY <1>1 DEF AuditInv, HeadExclusive, InTransaction
<1>8. Numbered(voucher', 0, chain_head.last_seq)
  <2>1. Numbered(voucher, 0, chain_head.last_seq)
    BY DEF AuditInv, Ordered
  <2> QED
    BY <1>4, <1>5, <2>1 DEF Numbered
<1>9. Ordered'
  BY <1>1, <1>8 DEF AuditInv, Ordered, Numbered
<1>10. Walked'
  BY <1>1 DEF AuditInv, Walked
<1> QED
  BY <1>1, <1>6, <1>7, <1>9, <1>10 DEF AuditInv

LEMMA RewriteKeeps == ASSUME AuditInv, RewriteHistory PROVE AuditInv'
<1>1. /\ ~tampered /\ tampered' = TRUE /\ head_lock = NoSession
      /\ UNCHANGED << voucher_counter, period_lock, arsavslutning, head_lock, clock,
                      session, anchor_leaf, audit >>
  BY DEF RewriteHistory
<1> DEFINE content(v, d, u) == IF u = v THEN Dated(v, d) ELSE u.content
           at(i) == CHOOSE u \in voucher : seq_of(u) = i
           prefix(v, d, n) == [i \in 1 .. n |-> content(v, d, at(i))]
           row(v, d, u) == [content |-> content(v, d, u),
                            prev_hash |-> prefix(v, d, seq_of(u) - 1),
                            hash |-> prefix(v, d, seq_of(u))]
<1>2. PICK v \in voucher, d \in Date :
         /\ voucher' = {row(v, d, u) : u \in voucher}
         /\ chain_head' = [chain_head EXCEPT !.last_hash = prefix(v, d, chain_head.last_seq)]
  BY DEF RewriteHistory
<1>3. /\ voucher \in SUBSET Voucher /\ chain_head \in ChainHead
      /\ chain_head.last_seq \in Nat
      /\ ChainOf(voucher, chain_head)
  BY <1>1 DEF AuditInv, Honest, PostingInv, ChainIntact, TypeOK, ChainHead
<1>4. \A i \in 1 .. chain_head.last_seq : at(i) \in voucher
  BY <1>3 DEF ChainOf
<1>5. \A u \in voucher : /\ content(v, d, u) \in Content
                         /\ content(v, d, u).chain_seq = seq_of(u)
  BY <1>3, DatedType DEF Voucher, seq_of
<1> HIDE DEF content, at
<1>6. ASSUME NEW n \in Nat, n <= chain_head.last_seq
      PROVE  prefix(v, d, n) \in Seq(Content)
  <2>1. \A i \in 1 .. n : i \in 1 .. chain_head.last_seq
    BY <1>3, <1>6
  <2>2. \A i \in 1 .. n : content(v, d, at(i)) \in Content
    BY <1>4, <1>5, <2>1
  <2> QED
    BY <2>2
<1> HIDE DEF prefix
<1>7. \A u \in voucher : /\ seq_of(u) \in Nat /\ seq_of(u) - 1 \in Nat
                         /\ seq_of(u) <= chain_head.last_seq
                         /\ seq_of(u) - 1 <= chain_head.last_seq
  BY <1>3, SeqType DEF AuditInv, Ordered, Numbered
<1>8. \A u \in voucher : row(v, d, u) \in Voucher /\ seq_of(row(v, d, u)) = seq_of(u)
  BY <1>5, <1>6, <1>7 DEF Voucher, Hash, seq_of
<1>9. /\ voucher' \subseteq Voucher
      /\ chain_head' \in ChainHead /\ chain_head'.last_seq = chain_head.last_seq
  BY <1>2, <1>3, <1>6, <1>8 DEF ChainHead, Hash
<1>10. Numbered(voucher', 0, chain_head'.last_seq)
  <2>1. Numbered(voucher, 0, chain_head.last_seq)
    BY DEF AuditInv, Ordered
  <2> HIDE DEF row
  <2> QED
    BY <1>2, <1>8, <1>9, <2>1 DEF Numbered
<1>11. TypeOK'
  BY <1>1, <1>9 DEF AuditInv, TypeOK
<1>12. HeadExclusive'
  BY <1>1 DEF AuditInv, HeadExclusive, InTransaction
<1>13. Ordered'
  BY <1>1, <1>10, SessionAssumption DEF Ordered
<1>14. Walked'
  BY <1>1, <1>9 DEF AuditInv, Walked
<1> QED
  BY <1>1, <1>11, <1>12, <1>13, <1>14 DEF AuditInv

-----------------------------------------------------------------------------
LEMMA NextAuditInv == AuditInv /\ [NextAudit]_auditVars => AuditInv'
<1> SUFFICES ASSUME AuditInv, [NextAudit]_auditVars PROVE AuditInv'
  OBVIOUS
<1>1. CASE Next /\ UNCHANGED << anchor_leaf, audit, tampered >>
  BY <1>1, ApplicationKeeps
<1>2. CASE AnchorSnapshot \/ VerifyWalk \/ VerifyHead
  BY <1>2, SnapshotKeeps, WalkKeeps, HeadKeeps
<1>3. CASE EditRow \/ RewriteHistory
  BY <1>3, EditKeeps, RewriteKeeps
<1>4. CASE UNCHANGED auditVars
  BY <1>4, ApplicationKeeps DEF auditVars
<1> QED
  BY <1>1, <1>2, <1>3, <1>4 DEF NextAudit

THEOREM AuditInvariant == SpecAudit => []AuditInv
<1> QED
  BY InitAuditInv, NextAuditInv, PTL DEF SpecAudit

\* verify_chain never calls an honest ledger broken unless a posting committed between
\* its two reads, however large the ledger and however many post to it (ledger.rs:485-594).
THEOREM AlarmsOnlyOvertaken == SpecAudit => []AlarmOnlyWhenOvertaken
<1>1. AuditInv => AlarmOnlyWhenOvertaken
  BY DEF AuditInv, Honest, AlarmOnlyWhenOvertaken
<1> QED
  BY <1>1, AuditInvariant, PTL

\* What verify_chain passes is the content every hash was computed from, back to the
\* first voucher: no edit of a row, and no deletion, passes without a rehash.
THEOREM PassesOnlyAsHashed == SpecAudit => []PassedIsAsHashed
<1>1. ASSUME AuditInv PROVE PassedIsAsHashed
  <2>1. SUFFICES ASSUME audit.verdict = "ok" PROVE \A v \in audit.rows : HashedAs(audit.rows, v)
    BY DEF PassedIsAsHashed, HashedAs
  <2>2. /\ audit.rows \in SUBSET Voucher /\ WalkPasses(audit.rows)
        /\ Numbered(audit.rows, 0, chain_head.last_seq) /\ chain_head.last_seq \in Nat
    BY <1>1, <2>1 DEF AuditInv, Walked, TypeOK, ChainHead
  <2> QED
    BY <2>2, WalkShowsContents
<1> QED
  BY <1>1, AuditInvariant, PTL

\* Anchors match every honest ledger; and a chain that walks, with every anchor in it,
\* has below each anchor the contents that were there when it was taken.
THEOREM AnchorsProve == SpecAudit => []AnchorsTell
<1>1. ASSUME AuditInv PROVE AnchorsTell
  <2>1. AnchorsHold
    BY <1>1 DEF AuditInv, Honest, AnchorsHold
  <2>2. AnchoredHistoryIsFixed
    <3> SUFFICES ASSUME WalkPasses(voucher), \A leaf \in anchor_leaf : AnchorMatches(leaf),
                        NEW leaf \in anchor_leaf, NEW v \in voucher, seq_of(v) <= leaf.last_seq
                 PROVE  v.content = leaf.last_hash[Rank(voucher, v)]
      BY DEF AnchoredHistoryIsFixed
    <3>1. PICK u \in voucher : seq_of(u) = leaf.last_seq /\ u.hash = leaf.last_hash
      BY DEF AnchorMatches
    <3>2. HashedAs(voucher, u)
      <4>1. /\ voucher \in SUBSET Voucher /\ chain_head.last_seq \in Nat
            /\ Numbered(voucher, 0, chain_head.last_seq)
        BY <1>1 DEF AuditInv, Ordered, TypeOK, ChainHead
      <4> QED
        BY <4>1, WalkShowsContents
    <3> QED
      BY <3>1, <3>2 DEF HashedAs
  <2> QED
    BY <2>1, <2>2 DEF AnchorsTell
<1> QED
  BY <1>1, AuditInvariant, PTL

=============================================================================
